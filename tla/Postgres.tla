------------------------------ MODULE Postgres ------------------------------
(***************************************************************************)
(* The Postgres adapter (src/internal/infrastructure/postgres): the three  *)
(* tables of the identity schema and the transactions open on them, under  *)
(* READ COMMITTED.  A transaction's writes are invisible until Commit.  It *)
(* waits where Postgres would make it wait: for a pool connection, for a   *)
(* concurrent inserter of the same e-mail, for the row lock of a session.  *)
(***************************************************************************)
EXTENDS Domain

CONSTANT PoolSize       \* connections pgxpool may hold

ASSUME PoolAssumption == PoolSize \in Nat \ {0}

VARIABLES users, sessions, outbox,   \* the committed rows
          tx                         \* what each request's transaction holds

tables == <<users, sessions, outbox>>

\* The session row a transaction has updated, if any: revoked_at := at.
Update == [id : Requests \cup {None}, at : Time]
NoUpdate == [id |-> None, at |-> NULL]

Tx == [open : BOOLEAN, at : Time, users : SUBSET User, sessions : SUBSET Session,
       update : Update, outbox : SUBSET Event]

NoTx == [open |-> FALSE, at |-> NULL, users |-> {}, sessions |-> {},
         update |-> NoUpdate, outbox |-> {}]

PostgresTypeOK ==
    /\ users \subseteq User
    /\ sessions \subseteq Session
    /\ outbox \subseteq Event
    /\ tx \in [Requests -> Tx]

PostgresInit ==
    /\ users = {} /\ sessions = {} /\ outbox = {}
    /\ tx = [r \in Requests |-> NoTx]

-----------------------------------------------------------------------------
(* UnitOfWork.  A transaction keeps its connection until it ends; a query  *)
(* outside a transaction needs a connection for its own duration.          *)
FreeConn == Cardinality({r \in Requests : tx[r].open}) < PoolSize

Begin(r, at) ==
    /\ FreeConn
    /\ tx' = [tx EXCEPT ![r] = [NoTx EXCEPT !.open = TRUE, !.at = at]]
    /\ UNCHANGED tables

Updated(s, update) ==
    IF s.id = update.id THEN [s EXCEPT !.revoked = update.at] ELSE s

Commit(r) ==
    /\ users' = users \cup tx[r].users
    /\ sessions' = {Updated(s, tx[r].update) : s \in sessions \cup tx[r].sessions}
    /\ outbox' = outbox \cup tx[r].outbox
    /\ tx' = [tx EXCEPT ![r] = NoTx]

LeakyRollback(r) ==                  \* (mutant) leaves the transaction open
    UNCHANGED <<tables, tx>>
Rollback(r) ==
    /\ tx' = [tx EXCEPT ![r] = NoTx]
    /\ UNCHANGED tables

-----------------------------------------------------------------------------
(* UserRepository.  users_tenant_email_uq rejects a stored e-mail at once, *)
(* and makes an insert wait while another open transaction has inserted    *)
(* the same e-mail.                                                        *)
EmailStored(email) == \E u \in users : u.email = email
EmailPending(r, email) == \E q \in Requests \ {r} : \E u \in tx[q].users : u.email = email

FindByEmail(email) == {u \in users : u.email = email}
FindByID(id) == {u \in users : u.id = id}

UncheckedInsertUser(r, u) ==         \* (mutant) no unique index
    /\ tx' = [tx EXCEPT ![r].users = @ \cup {u}]
    /\ UNCHANGED tables
InsertUser(r, u) ==
    /\ ~EmailStored(u.email)
    /\ ~EmailPending(r, u.email)
    /\ tx' = [tx EXCEPT ![r].users = @ \cup {u}]
    /\ UNCHANGED tables

-----------------------------------------------------------------------------
(* SessionRepository.  sessions.user_id references users.id.  RevokeTx     *)
(* takes the row lock, reads the latest committed row and keeps a          *)
(* revocation that is already there; now() is the transaction's start.     *)
UserVisible(r, id) == \E u \in users \cup tx[r].users : u.id = id

InsertSession(r, s) ==
    /\ UserVisible(r, s.user)
    /\ tx' = [tx EXCEPT ![r].sessions = @ \cup {s}]
    /\ UNCHANGED tables

FindByTokenHash(hash) == {s \in sessions : s.hash = hash}

SessionLocked(r, id) == \E q \in Requests \ {r} : tx[q].update.id = id
Coalesce(a, b) == IF a # NULL THEN a ELSE b

OverwritingRevokeTx(r, id) ==        \* (mutant) SET revoked_at = now()
    /\ \E s \in sessions :
        /\ s.id = id
        /\ ~SessionLocked(r, id)
        /\ tx' = [tx EXCEPT ![r].update = [id |-> id, at |-> tx[r].at]]
    /\ UNCHANGED tables
RevokeTx(r, id) ==
    /\ \E s \in sessions :
        /\ s.id = id
        /\ ~SessionLocked(r, id)
        /\ tx' = [tx EXCEPT ![r].update =
                        [id |-> id, at |-> Coalesce(s.revoked, tx[r].at)]]
    /\ UNCHANGED tables

-----------------------------------------------------------------------------
(* OutboxRepository.                                                       *)
PoolWriteTx(r, e) ==                 \* (mutant) inserts through the pool, not the transaction
    /\ outbox' = outbox \cup {e}
    /\ UNCHANGED <<users, sessions, tx>>
WriteTx(r, e) ==
    /\ tx' = [tx EXCEPT ![r].outbox = @ \cup {e}]
    /\ UNCHANGED tables
=============================================================================
