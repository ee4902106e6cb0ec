---------------------------- MODULE LedgerProofs ----------------------------
(***************************************************************************)
(* The committed tables change only by whole ledger steps, for every set   *)
(* of requests and every combination of faults; tables and outbox agree;   *)
(* a revocation is final; no transaction outlives its request.             *)
(*                                                                         *)
(* All of it rests on what a transaction holds at each call of its handler *)
(* (TxOf), on identifiers being unused until their request commits         *)
(* (FreshOf), on whose session a handler is opening (OwnerOf), and on the  *)
(* row lock: the revocation a sign-out has prepared is still right when it *)
(* commits (LockOf).                                                       *)
(***************************************************************************)
EXTENDS SessionProofs, FiniteSetTheorems

-----------------------------------------------------------------------------
(* One account per mailbox.  UniqueEmail is not inductive: two             *)
(* transactions that both held a user with one e-mail could both commit.   *)
(* EmailInv adds what the unique index maintains: an e-mail occurs once    *)
(* among the committed users and all the users still pending.              *)

EmailInv ==
    /\ \A u, v \in users : u.email = v.email => u = v
    /\ \A q \in Requests : \A u \in users, v \in tx[q].users : u.email # v.email
    /\ \A p, q \in Requests : \A u \in tx[p].users, v \in tx[q].users :
            u.email = v.email => p = q /\ u = v
    /\ \A q \in Requests : pc[q] = "saveUser" => tx[q].users = {}

(* Before any sign-up there is no e-mail to clash with.                    *)
LEMMA EmailInit == Init => EmailInv
BY DEF Init, PostgresInit, EmailInv, NoTx

(* A step that commits no user and adds none to a transaction.             *)
LEMMA EmailQuiet ==
    ASSUME EmailInv, users' = users,
           \A q \in Requests : tx'[q].users = tx[q].users \/ tx'[q].users = {},
           \A q \in Requests : pc'[q] = "saveUser" => pc[q] = "saveUser" \/ tx'[q].users = {}
    PROVE  EmailInv'
BY DEF EmailInv

(* SaveTx: the index lets an e-mail in only if nobody has it.              *)
LEMMA EmailInsert ==
    ASSUME TypeInv, EmailInv, NEW r \in Requests, NEW u \in User, InsertUser(r, u),
           pc[r] = "saveUser", pc' = [pc EXCEPT ![r] = "saveSession"]
    PROVE  EmailInv'
<1>1. users' = users
  BY DEF InsertUser, tables
<1>2. \A q \in Requests : tx'[q].users = IF q = r THEN {u} ELSE tx[q].users
  <2>1. tx \in [Requests -> Tx] /\ tx[r] \in Tx /\ tx[r].users = {}
    BY DEF TypeInv, TypeOK, PostgresTypeOK, EmailInv
  <2>2. tx' = [tx EXCEPT ![r] = [tx[r] EXCEPT !.users = tx[r].users \cup {u}]]
    BY DEF InsertUser
  <2>3. tx'[r].users = {u}
    BY <2>1, <2>2 DEF Tx
  <2>4. \A q \in Requests \ {r} : tx'[q] = tx[q]
    BY <2>1, <2>2
  <2> QED
    BY <2>3, <2>4
<1>3. \A v \in users : v.email # u.email
  BY DEF InsertUser, EmailStored
<1>4. \A q \in Requests \ {r} : \A v \in tx[q].users : v.email # u.email
  BY DEF InsertUser, EmailPending
<1>5. \A q \in Requests : pc'[q] = "saveUser" => tx'[q].users = {}
  BY <1>2 DEF TypeInv, TypeOK, RequestTypeOK, EmailInv
<1> QED
  BY <1>1, <1>2, <1>3, <1>4, <1>5 DEF EmailInv

(* Commit moves a transaction's users into the table.                      *)
LEMMA EmailCommit ==
    ASSUME TypeInv, EmailInv, NEW r \in Requests, Commit(r),
           \A q \in Requests : pc'[q] = "saveUser" => pc[q] = "saveUser"
    PROVE  EmailInv'
<1>1. users' = users \cup tx[r].users
  BY DEF Commit
<1>2. \A q \in Requests : tx'[q].users = IF q = r THEN {} ELSE tx[q].users
  BY DEF Commit, NoTx, TypeInv, TypeOK, PostgresTypeOK
<1> QED
  BY <1>1, <1>2 DEF EmailInv

(* Every step of the service keeps e-mails apart.                          *)
LEMMA EmailStep == TypeInv /\ EmailInv /\ [Next]_vars => EmailInv'
<1> SUFFICES ASSUME TypeInv, EmailInv, [Next]_vars PROVE EmailInv'
  OBVIOUS
<1> USE DEF TypeInv, TypeOK, PostgresTypeOK, RequestTypeOK
<1>1. ASSUME NEW r \in Requests, Receive(r) PROVE EmailInv'
  <2>1. users' = users /\ tx' = tx
    BY <1>1 DEF Receive, ReceiveSignUp, ReceiveSignIn, ReceiveProtected, postgres
  <2>2. \A q \in Requests : pc'[q] = "saveUser" => pc[q] = "saveUser"
    BY <1>1 DEF Receive, ReceiveSignUp, ReceiveSignIn, ReceiveProtected, Goto, Answer
  <2> QED
    BY <2>1, <2>2, EmailQuiet
<1>2. ASSUME NEW r \in Requests,
             \/ FindUser(r) \/ CacheGet(r) \/ FindSession(r) \/ Refill(r) \/ GetMe(r)
             \/ CacheSet(r) \/ CacheDelete(r)
      PROVE  EmailInv'
  <2>1. users' = users /\ tx' = tx
    BY <1>2 DEF FindUser, CacheGet, FindSession, Refill, GetMe, CacheSet, CacheDelete, postgres
  <2>2. \A q \in Requests : pc'[q] = "saveUser" => pc[q] = "saveUser"
    BY <1>2 DEF FindUser, CacheGet, FindSession, Refill, GetMe, CacheSet, CacheDelete,
                Admit, Goto, Answer
  <2> QED
    BY <2>1, <2>2, EmailQuiet
<1>3. ASSUME NEW r \in Requests, BeginTx(r) PROVE EmailInv'
  <2>1. users' = users /\ \A q \in Requests : tx'[q].users = IF q = r THEN {} ELSE tx[q].users
    BY <1>3 DEF BeginTx, Begin, tables, NoTx
  <2>2. \A q \in Requests : pc'[q] = "saveUser" => pc[q] = "saveUser" \/ tx'[q].users = {}
    BY <1>3, <2>1 DEF BeginTx, Goto
  <2> QED
    BY <2>1, <2>2, EmailQuiet
<1>4. ASSUME NEW r \in Requests, Rollback(r), NEW code, Answer(r, code) PROVE EmailInv'
  <2>1. users' = users /\ \A q \in Requests : tx'[q].users = IF q = r THEN {} ELSE tx[q].users
    BY <1>4 DEF Rollback, tables, NoTx
  <2>2. \A q \in Requests : pc'[q] = "saveUser" => pc[q] = "saveUser"
    BY <1>4 DEF Answer
  <2> QED
    BY <2>1, <2>2, EmailQuiet
<1>5. ASSUME NEW r \in Requests, SaveUser(r) PROVE EmailInv'
  <2> DEFINE u == NewUser(r, NewEmail(call[r].email), Hash(call[r].password))
  <2>1. call[r] \in Input /\ pc[r] = "saveUser"
    BY <1>5 DEF Control, ControlOf, SaveUser
  <2>2. u \in User
    BY <2>1 DEF NewUser, NewEmail, Hash, User, Email, PasswordHash, Input, RawEmail
  <2>3. CASE InsertUser(r, u) /\ Goto(r, "saveSession")
    BY <2>1, <2>2, <2>3, EmailInsert DEF Goto
  <2>4. CASE Abort(r, 409)
    BY <1>4, <2>4 DEF Abort
  <2> QED
    BY <1>5, <2>3, <2>4 DEF SaveUser
<1>6. ASSUME NEW r \in Requests,
             \/ SaveSession(r) \/ WriteUserCreated(r) \/ WriteSessionCreated(r)
             \/ RevokeSession(r) \/ WriteSessionRevoked(r)
      PROVE  EmailInv'
  <2>1. users' = users
    BY <1>6 DEF SaveSession, WriteUserCreated, WriteSessionCreated, RevokeSession,
                WriteSessionRevoked, InsertSession, WriteTx, RevokeTx, tables
  <2>2. \A q \in Requests : tx'[q].users = tx[q].users
    <3>1. \/ \E s : tx' = [tx EXCEPT ![r] = [tx[r] EXCEPT !.sessions = s]]
          \/ \E o : tx' = [tx EXCEPT ![r] = [tx[r] EXCEPT !.outbox = o]]
          \/ \E d : tx' = [tx EXCEPT ![r] = [tx[r] EXCEPT !.update = d]]
      BY <1>6 DEF SaveSession, WriteUserCreated, WriteSessionCreated, RevokeSession,
                  WriteSessionRevoked, InsertSession, WriteTx, RevokeTx
    <3>2. tx[r] \in Tx
      OBVIOUS
    <3>3. tx'[r].users = tx[r].users
      BY <3>1, <3>2 DEF Tx
    <3>4. \A q \in Requests \ {r} : tx'[q] = tx[q]
      BY <3>1
    <3> QED
      BY <3>3, <3>4
  <2>3. \A q \in Requests : pc'[q] = "saveUser" => pc[q] = "saveUser"
    BY <1>6 DEF SaveSession, WriteUserCreated, WriteSessionCreated, RevokeSession,
                WriteSessionRevoked, Goto
  <2> QED
    BY <2>1, <2>2, <2>3, EmailQuiet
<1>7. ASSUME NEW r \in Requests, CommitTx(r) PROVE EmailInv'
  <2>1. \A q \in Requests : pc'[q] = "saveUser" => pc[q] = "saveUser"
    BY <1>7 DEF CommitTx, Abort, Goto, Answer
  <2>2. CASE Commit(r)
    BY <2>1, <2>2, EmailCommit
  <2>3. CASE Abort(r, 500)
    BY <1>4, <2>3 DEF Abort
  <2> QED
    BY <1>7, <2>2, <2>3 DEF CommitTx
<1>8. ASSUME NEW r \in Requests, StatementFails(r) \/ Panic(r) PROVE EmailInv'
  BY <1>4, <1>8 DEF StatementFails, Panic, Abort
<1>9. CASE Crash
  <2>1. users' = users /\ \A q \in Requests : tx'[q].users \in {tx[q].users, {}}
    BY <1>9 DEF Crash, Lose, tables, NoTx
  <2>2. \A q \in Requests : pc'[q] = "saveUser" => pc[q] = "saveUser"
    BY <1>9 DEF Crash, Lose
  <2> QED
    BY <2>1, <2>2, EmailQuiet
<1>10. CASE Tick \/ CacheServer \/ Finished \/ UNCHANGED vars
  <2>1. users' = users /\ tx' = tx /\ pc' = pc
    BY <1>10 DEF Tick, CacheServer, Finished, vars, postgres
  <2> QED
    BY <2>1, EmailQuiet
<1> QED
  BY <1>1, <1>2, <1>3, <1>5, <1>6, <1>7, <1>8, <1>9, <1>10 DEF Next, Step

(* One account per mailbox: NewEmail makes equal mailboxes equal e-mails,  *)
(* and the unique index of users keeps e-mails apart.                      *)
THEOREM OneAccountPerMailbox == Spec => []UniqueEmail
<1>1. Init => TypeInv /\ EmailInv
  BY TypeInit, EmailInit
<1>2. TypeInv /\ EmailInv /\ [Next]_vars => (TypeInv /\ EmailInv)'
  BY TypeStep, EmailStep
<1>3. TypeInv /\ EmailInv => UniqueEmail
  <2> SUFFICES ASSUME TypeInv, EmailInv, NEW u \in users, NEW v \in users,
                      u.email.addr = v.email.addr
               PROVE  u = v
    BY DEF UniqueEmail
  <2>1. u.email \in Email /\ v.email \in Email
    BY DEF TypeInv, TypeOK, PostgresTypeOK, User
  <2>2. u.email = v.email
    BY <2>1 DEF Email
  <2> QED
    BY <2>2 DEF EmailInv
<1> QED
  BY <1>1, <1>2, <1>3, PTL DEF Spec

-----------------------------------------------------------------------------
(* What each transaction holds, and what the tables hold of each request.  *)

UserOf(q) == NewUser(q, NewEmail(call[q].email), Hash(call[q].password))
SessionOf(q) == NewSession(q, work[q].user, HashOf(q), work[q].expires)

UserCreated(q) == NewEvent(q, TopicUserCreated, q)
SessionCreated(q) == NewEvent(q, TopicSessionCreated, q)
SessionRevoked(q) == NewEvent(q, TopicSessionRevoked, work[q].session)

UserSaved(q) ==
    /\ pc[q] \in {"saveSession", "writeUserCreated", "writeSessionCreated", "commit"}
    /\ call[q].kind = "signUp"

Locking(q) ==
    \/ pc[q] = "writeSessionRevoked"
    \/ pc[q] = "commit" /\ call[q].kind = "signOut"

EventsOf(q) ==
    IF pc[q] = "commit"
    THEN [signUp |-> {UserCreated(q), SessionCreated(q)},
          signIn |-> {SessionCreated(q)},
          signOut |-> {SessionRevoked(q)}][call[q].kind]
    ELSE IF pc[q] = "writeSessionCreated" /\ call[q].kind = "signUp" THEN {UserCreated(q)}
    ELSE {}

TxOf(q) ==
    /\ IF pc[q] \in TxSteps THEN tx[q].open /\ tx[q].at # NULL ELSE tx[q] = NoTx
    /\ tx[q].users = IF UserSaved(q) THEN {UserOf(q)} ELSE {}
    /\ tx[q].sessions = IF SessionSaved(q) THEN {SessionOf(q)} ELSE {}
    /\ tx[q].outbox = EventsOf(q)
    /\ IF Locking(q) THEN tx[q].update.id = work[q].session /\ tx[q].update.at # NULL
                     ELSE tx[q].update = NoUpdate

Refusals == {400, 401, 403, 409}

\* Nothing of q's has been committed, for all q knows.
Unwritten(q) ==
    \/ pc[q] \in ({"idle"} \cup InFlight) \ {"cacheSet", "cacheDelete"}
    \/ status[q] \in Refusals

FreshOf(q) ==
    /\ pc[q] # "done" => status[q] = NULL
    /\ Unwritten(q) => /\ \A u \in users : u.id # q
                       /\ \A s \in sessions : s.id # q
                       /\ \A e \in outbox : e.by # q

LockOf(q) ==
    tx[q].update.id # None =>
        /\ \E s \in sessions : /\ s.id = tx[q].update.id
                               /\ s.revoked # NULL => s.revoked = tx[q].update.at
        /\ \A p \in Requests \ {q} : tx[p].update.id # tx[q].update.id

Rows ==
    /\ \A s \in sessions : s.hash = HashOf(s.id)
    /\ \A s, t \in sessions : s.id = t.id => s = t

\* The account a session is being opened for.
Opening == {"begin", "cacheSet"} \cup TxSteps

OwnerOf(q) ==
    pc[q] \in Opening =>
        /\ call[q].kind = "signUp" => work[q].user = q
        /\ call[q].kind = "signIn" =>
            \E u \in users : /\ u.id = work[q].user
                             /\ u.email.addr = call[q].email.addr
                             /\ u.hash = Hash(call[q].password)

Holding == {q \in Requests : tx[q].open}

Pool == IsFiniteSet(Holding) /\ Cardinality(Holding) <= PoolSize

LedgerInv ==
    /\ \A q \in Requests : TxOf(q) /\ FreshOf(q) /\ LockOf(q) /\ OwnerOf(q)
    /\ Rows
    /\ Pool
    /\ OutboxMatchesTables

CoreInv == TypeInv /\ EmailInv /\ SessionInv /\ LedgerInv

-----------------------------------------------------------------------------
(* What a transaction holds.                                               *)

(* Another request's step does not reach into a transaction.               *)
LEMMA TxKept ==
    ASSUME NEW q \in Requests, TxOf(q), Untouched(q)
    PROVE  TxOf(q)'
BY DEF TxOf, Untouched, UserSaved, SessionSaved, Locking, EventsOf, UserOf, SessionOf,
       UserCreated, SessionCreated, SessionRevoked

(* A request outside a transaction holds nothing.                          *)
LEMMA TxEnded ==
    ASSUME NEW q \in Requests, pc'[q] \notin TxSteps, tx'[q] = NoTx
    PROVE  TxOf(q)'
BY DEF TxOf, NoTx, NoUpdate, TxSteps, UserSaved, SessionSaved, Locking, EventsOf

(* Begin opens an empty transaction at the current time.                   *)
LEMMA TxBegun ==
    ASSUME TypeInv, now # NULL, NEW r \in Requests, BeginTx(r)
    PROVE  TxOf(r)'
<1>1. tx'[r] = [NoTx EXCEPT !.open = TRUE, !.at = now]
  BY DEF BeginTx, Begin, TypeInv, TypeOK, PostgresTypeOK
<1>2. call' = call /\ ControlOf(r) /\ pc[r] = "begin"
  BY DEF BeginTx, input, TypeInv, Control
<1>3. \/ pc'[r] \in {"saveUser", "revoke"}
      \/ pc'[r] = "saveSession" /\ call[r].kind = "signIn"
  BY <1>2 DEF BeginTx, Goto, FirstStatement, ControlOf, Input, Kinds,
     TypeInv, TypeOK, RequestTypeOK
<1> QED
  BY <1>1, <1>2, <1>3
     DEF TxOf, NoTx, NoUpdate, TxSteps, UserSaved, SessionSaved, Locking, EventsOf

(* Each statement adds what its handler is to write: the user row ...      *)
LEMMA TxSaveUser ==
    ASSUME TypeInv, NEW r \in Requests, TxOf(r), SaveUser(r), ~Abort(r, 409)
    PROVE  TxOf(r)'
<1>1. pc[r] = "saveUser" /\ call[r].kind = "signUp" /\ tx[r] \in Tx
  BY DEF SaveUser, TypeInv, TypeOK, PostgresTypeOK, Control, ControlOf
<1>2. tx'[r] = [tx[r] EXCEPT !.users = tx[r].users \cup {UserOf(r)}]
  BY DEF SaveUser, InsertUser, UserOf, TypeInv, TypeOK, PostgresTypeOK
<1>3. pc'[r] = "saveSession" /\ UNCHANGED <<call, work>>
  BY DEF SaveUser, Goto, input, TypeInv, TypeOK, RequestTypeOK
<1> QED
  BY <1>1, <1>2, <1>3
     DEF TxOf, Tx, TxSteps, UserSaved, SessionSaved, Locking, EventsOf, UserOf

(* ... the session row ...                                                 *)
LEMMA TxSaveSession ==
    ASSUME TypeInv, NEW r \in Requests, TxOf(r), SaveSession(r)
    PROVE  TxOf(r)'
<1>1. pc[r] = "saveSession" /\ call[r].kind \in {"signUp", "signIn"} /\ tx[r] \in Tx
  BY DEF SaveSession, TypeInv, TypeOK, PostgresTypeOK, Control, ControlOf
<1>2. tx'[r] = [tx[r] EXCEPT !.sessions = tx[r].sessions \cup {SessionOf(r)}]
  BY DEF SaveSession, InsertSession, SessionOf, TypeInv, TypeOK, PostgresTypeOK
<1>3. /\ pc'[r] = IF call[r].kind = "signUp" THEN "writeUserCreated" ELSE "writeSessionCreated"
      /\ UNCHANGED <<call, work>>
  BY DEF SaveSession, Goto, Is, input, TypeInv, TypeOK, RequestTypeOK
<1> QED
  BY <1>1, <1>2, <1>3
     DEF TxOf, Tx, TxSteps, UserSaved, SessionSaved, Locking, EventsOf, UserOf, SessionOf

(* ... the events that announce them ...                                   *)
LEMMA TxWriteCreated ==
    ASSUME TypeInv, NEW r \in Requests, TxOf(r), WriteUserCreated(r) \/ WriteSessionCreated(r)
    PROVE  TxOf(r)'
<1>1. tx[r] \in Tx /\ UNCHANGED <<call, work>>
  BY DEF WriteUserCreated, WriteSessionCreated, input, TypeInv, TypeOK, PostgresTypeOK
<1>2. CASE WriteUserCreated(r)
  <2>1. /\ pc[r] = "writeUserCreated" /\ call[r].kind = "signUp"
        /\ pc'[r] = "writeSessionCreated"
        /\ tx'[r] = [tx[r] EXCEPT !.outbox = tx[r].outbox \cup {UserCreated(r)}]
    BY <1>2 DEF WriteUserCreated, WriteTx, UserCreated, Goto, TypeInv, TypeOK, PostgresTypeOK,
       RequestTypeOK, Control, ControlOf
  <2> QED
    BY <1>1, <2>1 DEF TxOf, Tx, TxSteps, UserSaved, SessionSaved, Locking, EventsOf, UserOf,
       SessionOf, UserCreated
<1>3. CASE WriteSessionCreated(r)
  <2>1. /\ pc[r] = "writeSessionCreated" /\ call[r].kind \in {"signUp", "signIn"}
        /\ pc'[r] = "commit"
        /\ tx'[r] = [tx[r] EXCEPT !.outbox = tx[r].outbox \cup {SessionCreated(r)}]
    BY <1>3 DEF WriteSessionCreated, WriteTx, SessionCreated, Goto, TypeInv, TypeOK,
       PostgresTypeOK, RequestTypeOK, Control, ControlOf
  <2> QED
    BY <1>1, <2>1 DEF TxOf, Tx, TxSteps, UserSaved, SessionSaved, Locking, EventsOf, UserOf,
       SessionOf, UserCreated, SessionCreated
<1> QED
  BY <1>2, <1>3

(* ... or the revocation, under the row lock, and its event.               *)
LEMMA TxRevoke ==
    ASSUME TypeInv, NEW r \in Requests, TxOf(r), RevokeSession(r) \/ WriteSessionRevoked(r)
    PROVE  TxOf(r)'
<1>1. tx[r] \in Tx /\ UNCHANGED <<call, work>> /\ call[r].kind = "signOut"
  BY DEF RevokeSession, WriteSessionRevoked, input, TypeInv, TypeOK, PostgresTypeOK,
     Control, ControlOf
<1>2. CASE RevokeSession(r)
  <2>1. PICK s \in sessions :
          tx' = [tx EXCEPT ![r].update =
                   [id |-> work[r].session, at |-> Coalesce(s.revoked, tx[r].at)]]
    BY <1>2 DEF RevokeSession, RevokeTx
  <2>2. /\ pc[r] = "revoke" /\ pc'[r] = "writeSessionRevoked"
        /\ tx'[r] = [tx[r] EXCEPT !.update =
                       [id |-> work[r].session, at |-> Coalesce(s.revoked, tx[r].at)]]
    BY <1>2, <2>1 DEF RevokeSession, Goto, TypeInv, TypeOK, PostgresTypeOK, RequestTypeOK
  <2>3. Coalesce(s.revoked, tx[r].at) # NULL
    BY <2>2 DEF TxOf, TxSteps, Coalesce
  <2> QED
    BY <1>1, <2>2, <2>3 DEF TxOf, Tx, TxSteps, UserSaved, SessionSaved, Locking, EventsOf
<1>3. CASE WriteSessionRevoked(r)
  <2>1. /\ pc[r] = "writeSessionRevoked" /\ pc'[r] = "commit"
        /\ tx'[r] = [tx[r] EXCEPT !.outbox = tx[r].outbox \cup {SessionRevoked(r)}]
    BY <1>3 DEF WriteSessionRevoked, WriteTx, SessionRevoked, Goto, TypeInv, TypeOK,
       PostgresTypeOK, RequestTypeOK
  <2> QED
    BY <1>1, <2>1 DEF TxOf, Tx, TxSteps, UserSaved, SessionSaved, Locking, EventsOf,
       SessionRevoked
<1> QED
  BY <1>2, <1>3

(* Every step keeps each transaction what its handler has made it.         *)
LEMMA TxStep ==
    ASSUME TypeInv, now # NULL, \A q \in Requests : TxOf(q), [Next]_vars
    PROVE  \A q \in Requests : TxOf(q)'
<1> USE DEF TypeInv, TypeOK, PostgresTypeOK, RequestTypeOK
<1>1. ASSUME NEW r \in Requests, Rollback(r), NEW code, Answer(r, code) PROVE TxOf(r)'
  BY <1>1, TxEnded DEF Rollback, Answer, TxSteps
<1>2. ASSUME NEW r \in Requests, UNCHANGED postgres, pc[r] \notin TxSteps, pc'[r] \notin TxSteps
      PROVE  TxOf(r)'
  <2>1. tx[r] = NoTx
    BY <1>2 DEF TxOf
  <2> QED
    BY <1>2, <2>1, TxEnded DEF postgres
<1>3. ASSUME NEW r \in Requests, Receive(r) \/ Step(r) \/ Panic(r) PROVE TxOf(r)'
  <2>1. CASE Receive(r)
    <3>1. pc[r] = "idle" /\ pc'[r] \in {"done", "begin", "findUser", "cacheGet"}
      BY <2>1 DEF Receive, ReceiveSignUp, ReceiveSignIn, ReceiveProtected, Goto, Answer
    <3>2. UNCHANGED postgres
      BY <2>1 DEF Receive, ReceiveSignUp, ReceiveSignIn, ReceiveProtected
    <3> QED
      BY <1>2, <3>1, <3>2 DEF TxSteps
  <2>2. CASE \/ FindUser(r) \/ CacheGet(r) \/ FindSession(r) \/ Refill(r) \/ GetMe(r)
             \/ CacheSet(r) \/ CacheDelete(r)
    <3>1. UNCHANGED postgres
      BY <2>2 DEF FindUser, CacheGet, FindSession, Refill, GetMe, CacheSet, CacheDelete
    <3>2. /\ pc[r] \in {"findUser", "cacheGet", "findSession", "refill", "getMe",
                        "cacheSet", "cacheDelete"}
          /\ pc'[r] \in {"done", "begin", "findSession", "refill", "getMe"}
      BY <2>2 DEF FindUser, CacheGet, FindSession, Refill, GetMe, CacheSet, CacheDelete,
         Admit, Goto, Answer
    <3> QED
      BY <1>2, <3>1, <3>2 DEF TxSteps
  <2>3. CASE SaveUser(r)
    BY <1>1, <2>3, TxSaveUser DEF Abort
  <2>4. CASE CommitTx(r)
    <3>1. CASE Commit(r)
      <4>1. tx'[r] = NoTx
        BY <3>1 DEF Commit
      <4>2. pc'[r] \in {"done", "cacheSet", "cacheDelete"}
        BY <2>4 DEF CommitTx, Abort, Goto, Answer
      <4> QED
        BY <4>1, <4>2, TxEnded DEF TxSteps
    <3>2. CASE Abort(r, 500)
      BY <1>1, <3>2 DEF Abort
    <3> QED
      BY <2>4, <3>1, <3>2 DEF CommitTx
  <2>5. CASE StatementFails(r) \/ Panic(r)
    BY <1>1, <2>5 DEF StatementFails, Panic, Abort
  <2> QED
    BY <1>3, <2>1, <2>2, <2>3, <2>4, <2>5, TxBegun, TxSaveSession, TxWriteCreated, TxRevoke
       DEF Step
<1>4. ASSUME NEW r \in Requests, Receive(r) \/ Step(r) \/ Panic(r), NEW q \in Requests
      PROVE  TxOf(q)'
  BY <1>3, <1>4, OthersUntouched, TxKept
<1>5. ASSUME Crash, NEW q \in Requests PROVE TxOf(q)'
  <2>1. UNCHANGED <<work, cookie, call, status, authAt>>
    BY <1>5 DEF Crash, Lose, input, history
  <2>2. \/ pc'[q] = pc[q] /\ tx'[q] = tx[q]
        \/ pc'[q] = "lost" /\ tx'[q] = NoTx
    BY <1>5 DEF Crash, Lose
  <2> QED
    BY <2>1, <2>2, TxKept, TxEnded DEF Untouched, TxSteps
<1>6. ASSUME Tick \/ CacheServer \/ Finished \/ UNCHANGED vars, NEW q \in Requests
      PROVE  TxOf(q)'
  <2>1. UNCHANGED <<tx, pc, work, cookie, call, status, authAt>>
    BY <1>6 DEF Tick, CacheServer, Finished, vars, postgres, input, history
  <2> QED
    BY <2>1, TxKept DEF Untouched
<1> QED
  BY <1>4, <1>5, <1>6 DEF Next

-----------------------------------------------------------------------------
(* What a commit does to the tables.                                       *)

Registers(r) ==
    /\ users' = users \cup {UserOf(r)}
    /\ sessions' = sessions \cup {SessionOf(r)}
    /\ outbox' = outbox \cup {UserCreated(r), SessionCreated(r)}

OpensSession(r) ==
    /\ users' = users
    /\ sessions' = sessions \cup {SessionOf(r)}
    /\ outbox' = outbox \cup {SessionCreated(r)}

Revokes(r, s, t) ==
    /\ s.id = work[r].session
    /\ t = [s EXCEPT !.revoked = t.revoked] /\ Same(s, t)
    /\ t.revoked # NULL
    /\ s.revoked # NULL => t = s
    /\ users' = users
    /\ sessions' = (sessions \ {s}) \cup {t}
    /\ outbox' = outbox \cup {SessionRevoked(r)}

Outcome(r) ==
    \/ call[r].kind = "signUp" /\ Registers(r)
    \/ call[r].kind = "signIn" /\ OpensSession(r)
    \/ call[r].kind = "signOut"
         /\ \E s \in sessions, t \in Session : Revokes(r, s, t)

(* A transaction that updates no row commits the rows as they are.         *)
LEMMA UpdatedNothing ==
    ASSUME NEW S \in SUBSET Session
    PROVE  {Updated(s, NoUpdate) : s \in S} = S
<1>1. \A s \in S : Updated(s, NoUpdate) = s
  BY TokensAssumption DEF Updated, NoUpdate, Session
<1> QED
  BY <1>1

(* With one row per id, an update replaces the row it names.               *)
LEMMA UpdatedOne ==
    ASSUME NEW S \in SUBSET Session, NEW s \in S, NEW update, update.id = s.id,
           \A a, b \in S : a.id = b.id => a = b
    PROVE  {Updated(t, update) : t \in S} = (S \ {s}) \cup {[s EXCEPT !.revoked = update.at]}
<1>1. Updated(s, update) = [s EXCEPT !.revoked = update.at]
  BY DEF Updated
<1>2. \A t \in S \ {s} : Updated(t, update) = t
  BY DEF Updated
<1> QED
  BY <1>1, <1>2

(* Commit registers an account, opens a session or revokes one, each with  *)
(* the events that announce it, and does nothing else.                     *)
LEMMA CommitOutcome ==
    ASSUME CoreInv, NEW r \in Requests, pc[r] = "commit", Commit(r)
    PROVE  Outcome(r)
<1>1. /\ TxOf(r) /\ LockOf(r) /\ Rows /\ ControlOf(r)
      /\ sessions \subseteq Session /\ tx[r] \in Tx /\ call[r] \in Input
  BY DEF CoreInv, LedgerInv, TypeInv, TypeOK, PostgresTypeOK, Control, ControlOf
<1>2. call[r].kind \in {"signUp", "signIn", "signOut"}
  BY <1>1 DEF ControlOf, Input, Kinds
<1>3. /\ users' = users \cup tx[r].users
      /\ sessions' = {Updated(s, tx[r].update) : s \in sessions \cup tx[r].sessions}
      /\ outbox' = outbox \cup tx[r].outbox
  BY DEF Commit
<1>4. CASE call[r].kind \in {"signUp", "signIn"}
  <2>1. tx[r].sessions = {SessionOf(r)} /\ tx[r].update = NoUpdate
    BY <1>1, <1>4 DEF TxOf, SessionSaved, Locking
  <2>2. sessions \cup tx[r].sessions \in SUBSET Session
    BY <1>1 DEF Tx
  <2>3. sessions' = sessions \cup {SessionOf(r)}
    BY <1>3, <2>1, <2>2, UpdatedNothing
  <2>4. CASE call[r].kind = "signUp"
    BY <1>1, <1>3, <2>3, <2>4 DEF Outcome, Registers, TxOf, UserSaved, EventsOf
  <2>5. CASE call[r].kind = "signIn"
    BY <1>1, <1>3, <2>3, <2>5 DEF Outcome, OpensSession, TxOf, UserSaved, EventsOf
  <2> QED
    BY <1>4, <2>4, <2>5
<1>5. CASE call[r].kind = "signOut"
  <2>1. /\ tx[r].users = {} /\ tx[r].sessions = {} /\ tx[r].outbox = {SessionRevoked(r)}
        /\ tx[r].update.id = work[r].session /\ tx[r].update.at # NULL
    BY <1>1, <1>5 DEF TxOf, UserSaved, SessionSaved, Locking, EventsOf
  <2>2. tx[r].update.at \in Time /\ work[r].session \in Requests
    BY <1>1 DEF Tx, Update, ControlOf, Working, TxSteps
  <2>3. PICK s \in sessions : s.id = tx[r].update.id
                                /\ (s.revoked # NULL => s.revoked = tx[r].update.at)
    BY <1>1, <2>1, <2>2, TokensAssumption DEF LockOf
  <2>4. sessions' = (sessions \ {s}) \cup {[s EXCEPT !.revoked = tx[r].update.at]}
    BY <1>1, <1>3, <2>1, <2>3, UpdatedOne DEF Rows
  <2> DEFINE t == [s EXCEPT !.revoked = tx[r].update.at]
  <2>5. /\ t \in Session /\ t.revoked = tx[r].update.at
        /\ t = [s EXCEPT !.revoked = t.revoked] /\ Same(s, t)
        /\ s.revoked # NULL => t = s
    BY <1>1, <2>2, <2>3 DEF Session, Same
  <2>6. Revokes(r, s, t)
    BY <1>3, <2>1, <2>3, <2>4, <2>5 DEF Revokes
  <2> QED
    BY <1>5, <2>5, <2>6 DEF Outcome
<1> QED
  BY <1>2, <1>4, <1>5

(* Only Commit touches the tables.                                         *)
LEMMA TablesStep ==
    ASSUME [Next]_vars
    PROVE  \/ UNCHANGED tables
           \/ \E r \in Requests : CommitTx(r) /\ Commit(r)
<1>1. ASSUME NEW r \in Requests, Receive(r) PROVE UNCHANGED tables
  BY <1>1 DEF Receive, ReceiveSignUp, ReceiveSignIn, ReceiveProtected, postgres, tables
<1>2. ASSUME NEW r \in Requests,
             \/ FindUser(r) \/ CacheGet(r) \/ FindSession(r) \/ Refill(r) \/ GetMe(r)
             \/ CacheSet(r) \/ CacheDelete(r)
      PROVE  UNCHANGED tables
  BY <1>2 DEF FindUser, CacheGet, FindSession, Refill, GetMe, CacheSet, CacheDelete,
     postgres, tables
<1>3. ASSUME NEW r \in Requests,
             \/ BeginTx(r) \/ SaveUser(r) \/ SaveSession(r) \/ WriteUserCreated(r)
             \/ WriteSessionCreated(r) \/ RevokeSession(r) \/ WriteSessionRevoked(r)
             \/ StatementFails(r) \/ Panic(r)
      PROVE  UNCHANGED tables
  BY <1>3 DEF BeginTx, SaveUser, SaveSession, WriteUserCreated, WriteSessionCreated,
     RevokeSession, WriteSessionRevoked, StatementFails, Panic, Abort, Begin, InsertUser,
     InsertSession, WriteTx, RevokeTx, Rollback
<1>4. ASSUME NEW r \in Requests, CommitTx(r) PROVE UNCHANGED tables \/ Commit(r)
  BY <1>4 DEF CommitTx, Abort, Rollback
<1>5. CASE Crash \/ Tick \/ CacheServer \/ Finished \/ UNCHANGED vars
  BY <1>5 DEF Crash, Lose, Tick, CacheServer, Finished, vars, postgres, tables
<1> QED
  BY <1>1, <1>2, <1>3, <1>4, <1>5 DEF Next, Step

-----------------------------------------------------------------------------
(* Identifiers are fresh.                                                  *)

(* An answer comes last, and a request that may be refused has committed   *)
(* nothing: not by this step, not before.                                  *)
LEMMA UnwrittenStep ==
    ASSUME TypeInv, NEW r \in Requests, Receive(r) \/ Step(r) \/ Panic(r),
           pc[r] # "done" => status[r] = NULL
    PROVE  /\ pc'[r] # "done" => status'[r] = NULL
           /\ Unwritten(r)' => Unwritten(r) /\ ~CommitTx(r)
<1> USE DEF TypeInv, TypeOK, RequestTypeOK, Goto, Answer
<1>1. CASE Receive(r)
  BY <1>1 DEF Receive, ReceiveSignUp, ReceiveSignIn, ReceiveProtected, Unwritten, CommitTx, NULL
<1>2. CASE FindUser(r) \/ CacheGet(r) \/ FindSession(r) \/ Refill(r) \/ GetMe(r)
  BY <1>2 DEF FindUser, CacheGet, FindSession, Refill, GetMe, Admit, Unwritten, CommitTx,
     InFlight, DbSteps, CacheSteps, NULL
<1>3. CASE \/ BeginTx(r) \/ SaveUser(r) \/ SaveSession(r) \/ WriteUserCreated(r)
           \/ WriteSessionCreated(r) \/ RevokeSession(r) \/ WriteSessionRevoked(r)
  BY <1>3 DEF BeginTx, SaveUser, SaveSession, WriteUserCreated, WriteSessionCreated,
     RevokeSession, WriteSessionRevoked, Abort, Unwritten, CommitTx,
     InFlight, DbSteps, TxSteps, NULL
<1>4. CASE CacheSet(r) \/ CacheDelete(r) \/ CommitTx(r) \/ StatementFails(r) \/ Panic(r)
  BY <1>4 DEF CacheSet, CacheDelete, CommitTx, StatementFails, Panic, Abort, Unwritten,
     InFlight, DbSteps, CacheSteps, TxSteps, Refusals, NULL
<1> QED
  BY <1>1, <1>2, <1>3, <1>4 DEF Step

(* Every step leaves the identifiers of unwritten requests unused: the     *)
(* rows and events a commit adds are named after its own request.          *)
LEMMA FreshStep ==
    ASSUME CoreInv, [Next]_vars, NEW q \in Requests
    PROVE  FreshOf(q)'
<1>1. FreshOf(q) /\ TypeInv
  BY DEF CoreInv, LedgerInv
<1>2. ASSUME NEW r \in Requests, CommitTx(r), Commit(r) PROVE FreshOf(q)'
  <2>1. FreshOf(r) /\ Outcome(r)
    BY <1>2, CommitOutcome DEF CoreInv, LedgerInv, CommitTx
  <2>2. CASE q = r
    BY <1>1, <1>2, <2>2, UnwrittenStep DEF FreshOf, Step
  <2>3. CASE q # r
    <3>1. Untouched(q)
      BY <1>1, <1>2, <2>3, OthersUntouched DEF Step
    <3>2. ASSUME NEW u \in users', \A v \in users : v.id # q PROVE u.id # q
      BY <2>1, <2>3, <3>2 DEF Outcome, Registers, OpensSession, Revokes, UserOf, NewUser
    <3>3. ASSUME NEW s \in sessions', \A t \in sessions : t.id # q PROVE s.id # q
      BY <2>1, <2>3, <3>3
         DEF Outcome, Registers, OpensSession, Revokes, Same, SessionOf, NewSession
    <3>4. ASSUME NEW e \in outbox', \A f \in outbox : f.by # q PROVE e.by # q
      BY <2>1, <2>3, <3>4 DEF Outcome, Registers, OpensSession, Revokes, UserCreated,
         SessionCreated, SessionRevoked, NewEvent
    <3> QED
      BY <1>1, <3>1, <3>2, <3>3, <3>4 DEF FreshOf, Unwritten, Untouched
  <2> QED
    BY <2>2, <2>3
<1>3. CASE UNCHANGED tables
  <2>1. /\ pc'[q] # "done" => status'[q] = NULL
        /\ Unwritten(q)' => Unwritten(q)
    <3>1. ASSUME NEW r \in Requests, Receive(r) \/ Step(r) \/ Panic(r)
          PROVE  /\ pc'[q] # "done" => status'[q] = NULL
                 /\ Unwritten(q)' => Unwritten(q)
      <4>1. CASE q = r
        BY <1>1, <3>1, <4>1, UnwrittenStep DEF FreshOf
      <4>2. CASE q # r
        BY <1>1, <3>1, <4>2, OthersUntouched DEF FreshOf, Unwritten, Untouched
      <4> QED
        BY <4>1, <4>2
    <3>2. CASE Crash
      <4>1. status' = status /\ pc'[q] \in {pc[q], "lost"} /\ (pc[q] = "done" => pc'[q] = pc[q])
        BY <3>2 DEF Crash, Lose, InFlight, DbSteps, CacheSteps, TxSteps
      <4> QED
        BY <1>1, <4>1 DEF FreshOf, Unwritten, InFlight, DbSteps, CacheSteps, TxSteps
    <3>3. CASE Tick \/ CacheServer \/ Finished \/ UNCHANGED vars
      BY <1>1, <3>3 DEF Tick, CacheServer, Finished, vars, FreshOf, Unwritten
    <3> QED
      BY <3>1, <3>2, <3>3 DEF Next
  <2> QED
    BY <1>1, <1>3, <2>1 DEF FreshOf, tables
<1> QED
  BY <1>2, <1>3, TablesStep

-----------------------------------------------------------------------------
(* The row lock.                                                           *)

(* Only RevokeTx prepares an update.                                       *)
LEMMA UpdateFrame ==
    ASSUME TypeInv, [Next]_vars, NEW q \in Requests, ~RevokeSession(q)
    PROVE  tx'[q].update \in {tx[q].update, NoUpdate}
<1> USE DEF TypeInv, TypeOK, PostgresTypeOK
<1>1. ASSUME NEW r \in Requests, Receive(r) \/ Step(r) \/ Panic(r)
      PROVE  tx'[q].update \in {tx[q].update, NoUpdate}
  <2>1. CASE q # r
    BY <1>1, <2>1, OthersUntouched DEF Untouched
  <2>2. CASE q = r /\ (Commit(r) \/ Rollback(r) \/ \E at : Begin(r, at))
    <3>1. tx'[r] = NoTx \/ \E at : tx'[r] = [NoTx EXCEPT !.open = TRUE, !.at = at]
      BY <2>2 DEF Commit, Rollback, Begin
    <3>2. \A at : [NoTx EXCEPT !.open = TRUE, !.at = at].update = NoUpdate
      BY DEF NoTx
    <3>3. tx'[r].update = NoUpdate
      BY <3>1, <3>2 DEF NoTx
    <3> QED
      BY <2>2, <3>3
  <2>3. CASE q = r /\ UNCHANGED postgres
    BY <2>3 DEF postgres
  <2>4. CASE q = r /\ ((\E u : InsertUser(r, u)) \/ (\E s : InsertSession(r, s)) \/ \E e : WriteTx(r, e))
    <3>1. \/ \E u : tx' = [tx EXCEPT ![r] = [tx[r] EXCEPT !.users = u]]
          \/ \E s : tx' = [tx EXCEPT ![r] = [tx[r] EXCEPT !.sessions = s]]
          \/ \E o : tx' = [tx EXCEPT ![r] = [tx[r] EXCEPT !.outbox = o]]
      BY <2>4 DEF InsertUser, InsertSession, WriteTx
    <3>2. tx[r] \in Tx
      OBVIOUS
    <3> QED
      BY <2>4, <3>1, <3>2 DEF Tx
  <2>5. \/ Commit(r) \/ Rollback(r) \/ \E at : Begin(r, at)
        \/ UNCHANGED postgres \/ RevokeSession(r)
        \/ \E u : InsertUser(r, u)
        \/ \E s : InsertSession(r, s)
        \/ \E e : WriteTx(r, e)
    <3>1. CASE Receive(r)
      BY <3>1 DEF Receive, ReceiveSignUp, ReceiveSignIn, ReceiveProtected
    <3>2. CASE \/ FindUser(r) \/ CacheGet(r) \/ FindSession(r) \/ Refill(r) \/ GetMe(r)
               \/ CacheSet(r) \/ CacheDelete(r)
      BY <3>2 DEF FindUser, CacheGet, FindSession, Refill, GetMe, CacheSet, CacheDelete
    <3>3. CASE \/ BeginTx(r) \/ SaveUser(r) \/ SaveSession(r) \/ CommitTx(r)
               \/ StatementFails(r) \/ Panic(r)
      BY <3>3 DEF BeginTx, SaveUser, SaveSession, CommitTx, StatementFails, Panic, Abort
    <3>4. CASE WriteUserCreated(r) \/ WriteSessionCreated(r) \/ WriteSessionRevoked(r)
      BY <3>4 DEF WriteUserCreated, WriteSessionCreated, WriteSessionRevoked
    <3> QED
      BY <1>1, <3>1, <3>2, <3>3, <3>4 DEF Step
  <2> QED
    BY <2>1, <2>2, <2>3, <2>4, <2>5
<1>2. CASE Crash
  BY <1>2 DEF Crash, Lose, NoTx
<1>3. CASE Tick \/ CacheServer \/ Finished \/ UNCHANGED vars
  BY <1>3 DEF Tick, CacheServer, Finished, vars, postgres
<1> QED
  BY <1>1, <1>2, <1>3 DEF Next

(* A prepared revocation stays right until its transaction ends: RevokeTx  *)
(* waits for the lock, so the row it read is still as it was read.         *)
LEMMA LockStep ==
    ASSUME CoreInv, [Next]_vars, NEW q \in Requests
    PROVE  LockOf(q)'
<1>1. TypeInv /\ \A p \in Requests : TxOf(p) /\ LockOf(p)
  BY DEF CoreInv, LedgerInv
<1>2. ASSUME NEW r \in Requests, RevokeSession(r) PROVE LockOf(q)'
  <2>1. PICK s \in sessions :
          /\ s.id = work[r].session
          /\ ~SessionLocked(r, s.id)
          /\ tx' = [tx EXCEPT ![r].update = [id |-> s.id, at |-> Coalesce(s.revoked, tx[r].at)]]
    BY <1>2 DEF RevokeSession, RevokeTx
  <2>2. /\ tx'[r].update = [id |-> s.id, at |-> Coalesce(s.revoked, tx[r].at)]
        /\ \A p \in Requests \ {r} : tx'[p] = tx[p]
    BY <1>1, <2>1 DEF TypeInv, TypeOK, PostgresTypeOK, Tx
  <2>3. \A p \in Requests \ {r} : tx[p].update.id # s.id
    BY <2>1 DEF SessionLocked
  <2>4. sessions' = sessions
    BY <1>2 DEF RevokeSession, RevokeTx, tables
  <2>5. CASE q = r
    BY <2>2, <2>3, <2>4, <2>5 DEF LockOf, Coalesce
  <2>6. CASE q # r
    BY <1>1, <2>2, <2>3, <2>4, <2>6 DEF LockOf
  <2> QED
    BY <2>5, <2>6
<1>3. ASSUME \A p \in Requests : ~RevokeSession(p) PROVE LockOf(q)'
  <2>1. \A p \in Requests : tx'[p].update \in {tx[p].update, NoUpdate}
    BY <1>1, <1>3, UpdateFrame
  <2>2. CASE UNCHANGED tables
    BY <1>1, <2>1, <2>2 DEF LockOf, NoUpdate, tables
  <2>3. ASSUME NEW r \in Requests, CommitTx(r), Commit(r) PROVE LockOf(q)'
    <3>1. Outcome(r) /\ pc[r] = "commit"
      BY <2>3, CommitOutcome DEF CommitTx
    <3>2. tx'[r].update = NoUpdate /\ \A p \in Requests \ {r} : tx'[p] = tx[p]
      BY <1>1, <2>3 DEF Commit, NoTx, TypeInv, TypeOK, PostgresTypeOK
    <3>3. CASE q = r
      BY <3>2, <3>3 DEF LockOf, NoUpdate
    <3>4. ASSUME q # r, tx[q].update.id # None PROVE LockOf(q)'
      <4>1. PICK s \in sessions : /\ s.id = tx[q].update.id
                                  /\ s.revoked # NULL => s.revoked = tx[q].update.at
        BY <1>1, <3>4 DEF LockOf
      <4>2. ASSUME call[r].kind = "signOut" PROVE work[r].session # s.id
        <5>1. tx[r].update.id = work[r].session
          BY <1>1, <3>1, <4>2 DEF TxOf, Locking
        <5> QED
          BY <1>1, <3>4, <4>1, <5>1 DEF LockOf
      <4>3. s \in sessions'
        BY <3>1, <4>1, <4>2 DEF Outcome, Registers, OpensSession, Revokes
      <4> QED
        BY <1>1, <3>2, <3>4, <4>1, <4>3, <2>1 DEF LockOf, NoUpdate
    <3> QED
      BY <3>2, <3>3, <3>4 DEF LockOf
  <2> QED
    BY <2>2, <2>3, TablesStep
<1> QED
  BY <1>2, <1>3

-----------------------------------------------------------------------------
(* Tables and outbox.                                                      *)

(* A new session has an id of its own; a revoked one keeps its id.         *)
LEMMA RowsStep ==
    ASSUME CoreInv, [Next]_vars
    PROVE  Rows'
<1>1. Rows /\ TypeInv
  BY DEF CoreInv, LedgerInv
<1>2. ASSUME NEW r \in Requests, CommitTx(r), Commit(r) PROVE Rows'
  <2>1. Outcome(r) /\ pc[r] = "commit" /\ FreshOf(r)
    BY <1>2, CommitOutcome DEF CommitTx, CoreInv, LedgerInv
  <2>2. \A s \in sessions : s.id # r
    BY <2>1 DEF FreshOf, Unwritten, InFlight
  <2>3. SessionOf(r).id = r /\ SessionOf(r).hash = HashOf(r)
    BY DEF SessionOf, NewSession
  <2>4. CASE sessions' = sessions \cup {SessionOf(r)}
    BY <1>1, <2>2, <2>3, <2>4 DEF Rows
  <2>5. ASSUME NEW s \in sessions, NEW t, Revokes(r, s, t) PROVE Rows'
    BY <1>1, <2>5 DEF Rows, Revokes, Same
  <2> QED
    BY <2>1, <2>4, <2>5 DEF Outcome, Registers, OpensSession
<1>3. CASE UNCHANGED tables
  BY <1>1, <1>3 DEF Rows, tables
<1> QED
  BY <1>2, <1>3, TablesStep

(* A commit moves the tables and the outbox together.                      *)
LEMMA OutboxStep ==
    ASSUME CoreInv, [Next]_vars
    PROVE  OutboxMatchesTables'
<1> DEFINE Announced(topic, events) == {e.aggregate : e \in {f \in events : f.topic = topic}}
           Ids(rows) == {s.id : s \in rows}
           Revoked(rows) == Ids({s \in rows : s.revoked # NULL})
<1>1. OutboxMatchesTables /\ TypeInv
  BY DEF CoreInv, LedgerInv
<1>2. ASSUME NEW r \in Requests, CommitTx(r), Commit(r) PROVE OutboxMatchesTables'
  <2>1. Outcome(r)
    BY <1>2, CommitOutcome DEF CommitTx
  <2>2. /\ UserOf(r).id = r /\ SessionOf(r).id = r /\ SessionOf(r).revoked = NULL
        /\ UserCreated(r).topic = TopicUserCreated /\ UserCreated(r).aggregate = r
        /\ SessionCreated(r).topic = TopicSessionCreated /\ SessionCreated(r).aggregate = r
        /\ SessionRevoked(r).topic = TopicSessionRevoked
        /\ SessionRevoked(r).aggregate = work[r].session
    BY DEF UserOf, NewUser, SessionOf, NewSession, UserCreated, SessionCreated, SessionRevoked,
       NewEvent
  <2>3. /\ TopicUserCreated # TopicSessionCreated /\ TopicUserCreated # TopicSessionRevoked
        /\ TopicSessionCreated # TopicSessionRevoked
    BY DEF TopicUserCreated, TopicSessionCreated, TopicSessionRevoked
  <2>4. CASE Registers(r)
    <3>1. Ids(users') = Announced(TopicUserCreated, outbox')
      BY <1>1, <2>2, <2>3, <2>4 DEF Registers, OutboxMatchesTables
    <3>2. Ids(sessions') = Announced(TopicSessionCreated, outbox')
      BY <1>1, <2>2, <2>3, <2>4 DEF Registers, OutboxMatchesTables
    <3>3. Revoked(sessions') = Announced(TopicSessionRevoked, outbox')
      BY <1>1, <2>2, <2>3, <2>4 DEF Registers, OutboxMatchesTables
    <3> QED
      BY <3>1, <3>2, <3>3 DEF OutboxMatchesTables
  <2>5. CASE OpensSession(r)
    <3>1. Ids(users') = Announced(TopicUserCreated, outbox')
      BY <1>1, <2>2, <2>3, <2>5 DEF OpensSession, OutboxMatchesTables
    <3>2. Ids(sessions') = Announced(TopicSessionCreated, outbox')
      BY <1>1, <2>2, <2>3, <2>5 DEF OpensSession, OutboxMatchesTables
    <3>3. Revoked(sessions') = Announced(TopicSessionRevoked, outbox')
      BY <1>1, <2>2, <2>3, <2>5 DEF OpensSession, OutboxMatchesTables
    <3> QED
      BY <3>1, <3>2, <3>3 DEF OutboxMatchesTables
  <2>6. ASSUME NEW s \in sessions, NEW t, Revokes(r, s, t)
        PROVE  OutboxMatchesTables'
    <3>1. t.id = s.id /\ t.revoked # NULL
      BY <2>6 DEF Revokes, Same
    <3>2. /\ s.id = work[r].session /\ users' = users
          /\ sessions' = (sessions \ {s}) \cup {t}
          /\ outbox' = outbox \cup {SessionRevoked(r)}
      BY <2>6 DEF Revokes
    <3>3. Ids(users') = Announced(TopicUserCreated, outbox')
      BY <1>1, <2>2, <2>3, <3>2 DEF OutboxMatchesTables
    <3>4. Ids(sessions') = Announced(TopicSessionCreated, outbox')
      <4>1. Ids(sessions') = Ids(sessions)
        BY <3>1, <3>2
      <4>2. Announced(TopicSessionCreated, outbox') = Announced(TopicSessionCreated, outbox)
        BY <2>2, <2>3, <3>2
      <4> QED
        BY <1>1, <4>1, <4>2 DEF OutboxMatchesTables
    <3>5. Revoked(sessions') = Announced(TopicSessionRevoked, outbox')
      <4>1. Revoked(sessions') = Revoked(sessions) \cup {s.id}
        BY <3>1, <3>2
      <4>2. Announced(TopicSessionRevoked, outbox')
              = Announced(TopicSessionRevoked, outbox) \cup {s.id}
        BY <2>2, <3>2
      <4> QED
        BY <1>1, <4>1, <4>2 DEF OutboxMatchesTables
    <3> QED
      BY <3>3, <3>4, <3>5 DEF OutboxMatchesTables
  <2> QED
    BY <2>1, <2>4, <2>5, <2>6 DEF Outcome
<1>3. CASE UNCHANGED tables
  BY <1>1, <1>3 DEF OutboxMatchesTables, tables
<1> QED
  BY <1>2, <1>3, TablesStep

-----------------------------------------------------------------------------
(* Whose session it is.                                                    *)

(* Sign-up opens a session for the user it draws, sign-in for the user     *)
(* whose password it verified; users are never removed.                    *)
LEMMA OwnerStep ==
    ASSUME CoreInv, [Next]_vars, NEW q \in Requests
    PROVE  OwnerOf(q)'
<1>1. TypeInv /\ OwnerOf(q) /\ ControlOf(q) /\ ControlOf(q)' /\ Grows
  BY TypeStep, GrowsStep DEF CoreInv, LedgerInv, TypeInv, Control
<1>2. ASSUME pc'[q] \in Opening => pc[q] \in Opening /\ work'[q] = work[q] /\ call'[q] = call[q]
      PROVE  OwnerOf(q)'
  BY <1>1, <1>2 DEF OwnerOf, Grows
<1>3. ASSUME NEW r \in Requests, Receive(r) \/ Step(r) \/ Panic(r) PROVE OwnerOf(q)'
  <2> USE DEF TypeInv, TypeOK, RequestTypeOK
  <2>1. CASE q # r
    BY <1>1, <1>2, <1>3, <2>1, OthersUntouched DEF Untouched
  <2>2. CASE q = r /\ Receive(r)
    <3>1. CASE ReceiveSignUp(r)
      BY <1>1, <2>2, <3>1 DEF ReceiveSignUp, Goto, Answer, OwnerOf, Opening, TxSteps
    <3>2. CASE ReceiveSignIn(r) \/ ReceiveProtected(r)
      <4>1. pc'[r] \in {"done", "findUser", "cacheGet"}
        BY <1>1, <3>2 DEF ReceiveSignIn, ReceiveProtected, Goto, Answer
      <4> QED
        BY <2>2, <4>1 DEF OwnerOf, Opening, TxSteps
    <3> QED
      BY <2>2, <3>1, <3>2 DEF Receive
  <2>3. CASE q = r /\ FindUser(r)
    <3>1. CASE pc'[q] = "done"
      BY <3>1 DEF OwnerOf, Opening, TxSteps
    <3>2. CASE \E u \in users : /\ u.email = NewEmail(call[q].email)
                                /\ u.hash = Hash(call[q].password)
                                /\ work'[q].user = u.id
      <4>1. UNCHANGED <<users, call>> /\ call[q].kind = "signIn"
        BY <1>1, <2>3 DEF FindUser, postgres, input, ControlOf
      <4> QED
        BY <3>2, <4>1 DEF OwnerOf, NewEmail
    <3>3. CASE Answer(r, 401)
      BY <1>1, <2>3, <3>1, <3>3 DEF Answer
    <3>4. ASSUME NEW u \in FindByEmail(NewEmail(call[r].email)), Verify(u.hash, call[r].password),
                 work' = [work EXCEPT ![r] = [user |-> u.id, session |-> r,
                                              expires |-> now + SessionTTL]]
          PROVE  OwnerOf(q)'
      BY <1>1, <2>3, <3>2, <3>4 DEF FindByEmail, Verify
    <3> QED
      BY <2>3, <3>3, <3>4 DEF FindUser
  <2>4. CASE q = r /\ (CacheGet(r) \/ FindSession(r) \/ Refill(r) \/ GetMe(r))
    <3>1. \/ pc'[q] \notin Opening
          \/ call'[q].kind \in {"signOut", "getMe"}
      BY <1>1, <2>4 DEF CacheGet, FindSession, Refill, GetMe, ControlOf, input, Goto, Answer,
         Opening, TxSteps
    <3> QED
      BY <3>1 DEF OwnerOf
  <2>5. CASE q = r /\ \/ BeginTx(r) \/ SaveUser(r) \/ SaveSession(r) \/ WriteUserCreated(r)
                      \/ WriteSessionCreated(r) \/ RevokeSession(r) \/ WriteSessionRevoked(r)
                      \/ CommitTx(r) \/ StatementFails(r) \/ Panic(r)
                      \/ CacheSet(r) \/ CacheDelete(r)
    <3>1. UNCHANGED <<work, call>>
      BY <2>5 DEF BeginTx, SaveUser, SaveSession, WriteUserCreated, WriteSessionCreated,
         RevokeSession, WriteSessionRevoked, CommitTx, StatementFails, Panic, CacheSet,
         CacheDelete, input
    <3>2. CASE StatementFails(r) \/ Panic(r) \/ CacheSet(r) \/ CacheDelete(r)
      <4>1. pc'[q] = "done"
        BY <1>1, <2>5, <3>2 DEF StatementFails, Panic, CacheSet, CacheDelete, Abort, Answer
      <4> QED
        BY <1>2, <4>1 DEF Opening, TxSteps
    <3>3. CASE ~(StatementFails(r) \/ Panic(r) \/ CacheSet(r) \/ CacheDelete(r))
      <4>1. pc[q] \in {"begin"} \cup TxSteps
        BY <2>5, <3>3 DEF BeginTx, SaveUser, SaveSession, WriteUserCreated,
           WriteSessionCreated, RevokeSession, WriteSessionRevoked, CommitTx, TxSteps
      <4> QED
        BY <1>2, <3>1, <4>1 DEF Opening
    <3> QED
      BY <3>2, <3>3
  <2> QED
    BY <1>3, <2>1, <2>2, <2>3, <2>4, <2>5 DEF Step
<1>4. CASE Crash \/ Tick \/ CacheServer \/ Finished \/ UNCHANGED vars
  <2>1. UNCHANGED <<work, call>> /\ pc'[q] \in {pc[q], "lost"}
    BY <1>4 DEF Crash, Lose, Tick, CacheServer, Finished, vars, input
  <2> QED
    BY <1>2, <2>1 DEF Opening, TxSteps
<1> QED
  BY <1>3, <1>4 DEF Next

-----------------------------------------------------------------------------
(* The pool.                                                               *)

(* A request enters its transaction through Begin and no other way.        *)
LEMMA OnlyBeginEnters ==
    ASSUME TypeInv, [Next]_vars, NEW q \in Requests, pc'[q] \in TxSteps, pc[q] \notin TxSteps
    PROVE  BeginTx(q)
<1> USE DEF TypeInv, TypeOK, RequestTypeOK
<1>1. ASSUME NEW r \in Requests, Receive(r) \/ Step(r) \/ Panic(r) PROVE BeginTx(q)
  <2>1. CASE q # r
    BY <1>1, <2>1, OthersUntouched DEF Untouched
  <2>2. CASE q = r /\ Receive(r)
    BY <2>2 DEF Receive, ReceiveSignUp, ReceiveSignIn, ReceiveProtected, Goto, Answer, TxSteps
  <2>3. CASE q = r /\ ~Receive(r) /\ ~BeginTx(r)
    <3>1. \/ FindUser(r) \/ CacheGet(r) \/ FindSession(r) \/ Refill(r) \/ GetMe(r)
          \/ CacheSet(r) \/ CacheDelete(r) \/ StatementFails(r) \/ Panic(r)
      BY <1>1, <2>3 DEF Step, SaveUser, SaveSession, WriteUserCreated,
         WriteSessionCreated, RevokeSession, WriteSessionRevoked, CommitTx, TxSteps
    <3> QED
      BY <2>3, <3>1 DEF FindUser, CacheGet, FindSession, Refill, GetMe, CacheSet, CacheDelete,
         StatementFails, Panic, Abort, Admit, Goto, Answer, TxSteps
  <2> QED
    BY <2>1, <2>2, <2>3
<1>2. CASE Crash \/ Tick \/ CacheServer \/ Finished \/ UNCHANGED vars
  <2>1. pc'[q] \in {pc[q], "lost"}
    BY <1>2 DEF Crash, Lose, Tick, CacheServer, Finished, vars
  <2> QED
    BY <2>1 DEF TxSteps
<1> QED
  BY <1>1, <1>2 DEF Next

(* Begin waits for a free connection, so the pool is never overdrawn.      *)
LEMMA PoolStep ==
    ASSUME CoreInv, [Next]_vars
    PROVE  Pool'
<1>1. TypeInv /\ Pool /\ \A q \in Requests : TxOf(q) /\ TxOf(q)'
  BY TxStep DEF CoreInv, LedgerInv, SessionInv
<1>2. \A q \in Requests : /\ tx[q].open => pc[q] \in TxSteps
                          /\ pc[q] \in TxSteps => tx[q].open
                          /\ tx'[q].open => pc'[q] \in TxSteps
  <2> SUFFICES ASSUME NEW q \in Requests
               PROVE  /\ tx[q].open => pc[q] \in TxSteps
                      /\ pc[q] \in TxSteps => tx[q].open
                      /\ tx'[q].open => pc'[q] \in TxSteps
    OBVIOUS
  <2>1. ~NoTx.open
    BY DEF NoTx
  <2> QED
    BY <1>1, <2>1 DEF TxOf
<1>3. ASSUME NEW r \in Requests, BeginTx(r) PROVE Pool'
  <2>1. Holding' \subseteq Holding \cup {r}
    <3>1. \A q \in Requests \ {r} : tx'[q] = tx[q]
      BY <1>1, <1>3 DEF BeginTx, Begin, TypeInv, TypeOK, PostgresTypeOK
    <3> QED
      BY <3>1 DEF Holding
  <2>2. Cardinality(Holding) < PoolSize /\ IsFiniteSet(Holding)
    BY <1>1, <1>3 DEF BeginTx, Begin, FreeConn, Holding, Pool
  <2>3. Cardinality(Holding) \in Nat /\ PoolSize \in Nat
    BY <2>2, FS_CardinalityType, PoolAssumption
  <2>4. /\ IsFiniteSet(Holding \cup {r})
        /\ Cardinality(Holding \cup {r}) \in {Cardinality(Holding), Cardinality(Holding) + 1}
    BY <2>2, FS_AddElement
  <2>5. /\ IsFiniteSet(Holding') /\ Cardinality(Holding') <= Cardinality(Holding \cup {r})
        /\ Cardinality(Holding') \in Nat
    BY <2>1, <2>4, FS_Subset, FS_CardinalityType
  <2> QED
    BY <2>2, <2>3, <2>4, <2>5 DEF Pool
<1>4. ASSUME \A r \in Requests : ~BeginTx(r) PROVE Pool'
  <2>1. Holding' \subseteq Holding
    BY <1>1, <1>2, <1>4, OnlyBeginEnters DEF Holding
  <2>2. /\ IsFiniteSet(Holding') /\ Cardinality(Holding') <= Cardinality(Holding)
        /\ Cardinality(Holding') \in Nat /\ Cardinality(Holding) \in Nat
    BY <1>1, <2>1, FS_Subset, FS_CardinalityType DEF Pool
  <2> QED
    BY <1>1, <2>2, PoolAssumption DEF Pool
<1> QED
  BY <1>3, <1>4

-----------------------------------------------------------------------------
(* The invariant.                                                          *)

(* Before any request there are no rows, events or transactions.           *)
LEMMA LedgerInit == Init => LedgerInv
<1> SUFFICES ASSUME Init PROVE LedgerInv
  OBVIOUS
<1>1. /\ users = {} /\ sessions = {} /\ outbox = {}
      /\ \A q \in Requests : pc[q] = "idle" /\ status[q] = NULL /\ tx[q] = NoTx
  BY DEF Init, PostgresInit
<1>2. ASSUME NEW q \in Requests PROVE TxOf(q) /\ FreshOf(q) /\ LockOf(q) /\ OwnerOf(q)
  <2>1. TxOf(q)
    <3>1. pc[q] = "idle" /\ tx[q] = NoTx
      BY <1>1
    <3>2. ~UserSaved(q) /\ ~SessionSaved(q) /\ ~Locking(q) /\ EventsOf(q) = {}
      BY <3>1 DEF UserSaved, SessionSaved, Locking, EventsOf
    <3> QED
      BY <3>1, <3>2 DEF TxOf, NoTx, TxSteps
  <2>2. FreshOf(q) /\ OwnerOf(q)
    BY <1>1 DEF FreshOf, OwnerOf, Opening, TxSteps
  <2>3. tx[q].update.id = None
    BY <1>1 DEF NoTx, NoUpdate
  <2>4. LockOf(q)
    BY <2>3 DEF LockOf
  <2> QED
    BY <2>1, <2>2, <2>4
<1>3. Rows /\ OutboxMatchesTables
  BY <1>1 DEF Rows, OutboxMatchesTables
<1>4. Pool
  <2>1. Holding = {}
    BY <1>1 DEF Holding, NoTx
  <2> QED
    BY <2>1, FS_EmptySet, PoolAssumption DEF Pool
<1> QED
  BY <1>2, <1>3, <1>4 DEF LedgerInv

(* Every step of the service keeps all of it.                              *)
LEMMA CoreStep == CoreInv /\ [Next]_vars => CoreInv'
<1> SUFFICES ASSUME CoreInv, [Next]_vars PROVE CoreInv'
  OBVIOUS
<1>1. TypeInv' /\ EmailInv' /\ SessionInv'
  BY TypeStep, EmailStep, ForeignKeyStep, CacheStep, HeldStep, ClockStep DEF CoreInv, SessionInv
<1>2. \A q \in Requests : TxOf(q)'
  BY TxStep DEF CoreInv, SessionInv, LedgerInv
<1>3. \A q \in Requests : FreshOf(q)' /\ LockOf(q)' /\ OwnerOf(q)'
  BY FreshStep, LockStep, OwnerStep
<1>4. Rows' /\ Pool' /\ OutboxMatchesTables'
  BY RowsStep, PoolStep, OutboxStep
<1> QED
  BY <1>1, <1>2, <1>3, <1>4 DEF CoreInv, LedgerInv

(* The invariant behind this module: types, e-mails, sessions, ledger.     *)
THEOREM CoreInvariant == Spec => []CoreInv
<1>1. Init => CoreInv
  BY TypeInit, EmailInit, SessionInit, LedgerInit DEF CoreInv
<1> QED
  BY <1>1, CoreStep, PTL DEF Spec

(* A row is in a table if and only if the event that announces it is in    *)
(* the outbox, at every moment, whatever failed, panicked or crashed.      *)
THEOREM OutboxTellsTheTruth == Spec => []OutboxMatchesTables
<1>1. CoreInv => OutboxMatchesTables
  BY DEF CoreInv, LedgerInv
<1> QED
  BY <1>1, CoreInvariant, PTL

(* Transactions end with their requests and never outnumber the pool.      *)
THEOREM NoLeak == Spec => []NoLeakedTransaction
<1>1. CoreInv => NoLeakedTransaction
  BY DEF CoreInv, LedgerInv, NoLeakedTransaction, TxOf, Pool, Holding
<1> QED
  BY <1>1, CoreInvariant, PTL

(* Nothing committed is taken back, and a revoked row never changes.       *)
LEMMA FinalStep ==
    ASSUME CoreInv, [Next]_vars
    PROVE  /\ users \subseteq users' /\ outbox \subseteq outbox'
           /\ \A s \in sessions : \E t \in sessions' :
                /\ t = [s EXCEPT !.revoked = t.revoked]
                /\ s.revoked # NULL => t = s
<1>1. \A s \in sessions : s = [s EXCEPT !.revoked = s.revoked]
  BY DEF CoreInv, TypeInv, TypeOK, PostgresTypeOK, Session
<1>2. CASE UNCHANGED tables
  BY <1>1, <1>2 DEF tables
<1>3. ASSUME NEW r \in Requests, Registers(r) \/ OpensSession(r)
      PROVE  /\ users \subseteq users' /\ outbox \subseteq outbox'
             /\ sessions \subseteq sessions'
  BY <1>3 DEF Registers, OpensSession
<1>4. ASSUME NEW r \in Requests, NEW s \in sessions, NEW t \in Session, Revokes(r, s, t)
      PROVE  /\ users \subseteq users' /\ outbox \subseteq outbox'
             /\ \A p \in sessions : \E n \in sessions' :
                  /\ n = [p EXCEPT !.revoked = n.revoked]
                  /\ p.revoked # NULL => n = p
  <2>1. users \subseteq users' /\ outbox \subseteq outbox'
    BY <1>4 DEF Revokes
  <2>2. \A p \in sessions : \E n \in sessions' :
          /\ n = [p EXCEPT !.revoked = n.revoked]
          /\ p.revoked # NULL => n = p
    BY <1>1, <1>4 DEF Revokes
  <2> QED
    BY <2>1, <2>2
<1> QED
  BY <1>1, <1>2, <1>3, <1>4, TablesStep, CommitOutcome DEF CommitTx, Outcome

(* The time of a first revocation is never moved or cleared, and nothing   *)
(* committed is ever taken back: COALESCE under the row lock, for any      *)
(* number of concurrent sign-outs of one session.                          *)
THEOREM FirstRevocationStands == Spec => RevocationIsFinal
  BY FinalStep, CoreInvariant, PTL DEF Spec, RevocationIsFinal

-----------------------------------------------------------------------------
(* The refinement.                                                         *)

(* The commit of a sign-up is a registration: the unique index kept its    *)
(* e-mail for it, and its identifiers are new.                             *)
LEMMA SignUpRegisters ==
    ASSUME CoreInv, NEW r \in Requests, pc[r] = "commit", call[r].kind = "signUp", Registers(r)
    PROVE  LedgerOf!Register(r)
<1> DEFINE u == UserOf(r)
           s == SessionOf(r)
<1>1. TxOf(r) /\ FreshOf(r) /\ OwnerOf(r) /\ EmailInv
  BY DEF CoreInv, LedgerInv
<1>2. u.id = r /\ u \in users' \ users
  BY <1>1 DEF UserOf, NewUser, Registers, FreshOf, Unwritten, InFlight
<1>3. s.id = r /\ s \in sessions' \ sessions
  BY <1>1 DEF SessionOf, NewSession, Registers, FreshOf, Unwritten, InFlight
<1>4. \A a \in users : a.email # u.email
  <2>1. u \in tx[r].users
    BY <1>1 DEF TxOf, UserSaved
  <2> QED
    BY <1>1, <2>1 DEF EmailInv
<1>5. work[r].user = r
  BY <1>1 DEF OwnerOf, Opening, TxSteps
<1>6. LedgerOf!Opens(s, r, r)
  BY <1>5 DEF LedgerOf!Opens, LedgerOf!HashOf, LedgerOf!NULL, SessionOf, NewSession, HashOf, NULL
<1>7. outbox' = outbox \cup {LedgerOf!NewEvent(r, LedgerOf!TopicUserCreated, r),
                             LedgerOf!NewEvent(r, LedgerOf!TopicSessionCreated, r)}
  BY DEF Registers, UserCreated, SessionCreated, NewEvent, LedgerOf!NewEvent, TopicUserCreated,
     TopicSessionCreated, LedgerOf!TopicUserCreated, LedgerOf!TopicSessionCreated
<1> QED
  BY <1>2, <1>3, <1>4, <1>6, <1>7 DEF Registers, LedgerOf!Register

(* The commit of a sign-in opens a session of an account that exists.      *)
LEMMA SignInOpens ==
    ASSUME CoreInv, NEW r \in Requests, pc[r] = "commit", call[r].kind = "signIn", OpensSession(r)
    PROVE  LedgerOf!OpenSession(r)
<1> DEFINE s == SessionOf(r)
<1>1. FreshOf(r) /\ OwnerOf(r)
  BY DEF CoreInv, LedgerInv
<1>2. s.id = r /\ s \in sessions' \ sessions
  BY <1>1 DEF SessionOf, NewSession, OpensSession, FreshOf, Unwritten, InFlight
<1>3. PICK u \in users : u.id = work[r].user
  BY <1>1 DEF OwnerOf, Opening, TxSteps
<1>4. LedgerOf!Opens(s, r, u.id)
  BY <1>3 DEF LedgerOf!Opens, LedgerOf!HashOf, LedgerOf!NULL, SessionOf, NewSession, HashOf, NULL
<1>5. outbox' = outbox \cup {LedgerOf!NewEvent(r, LedgerOf!TopicSessionCreated, r)}
  BY DEF OpensSession, SessionCreated, NewEvent, LedgerOf!NewEvent, TopicSessionCreated,
     LedgerOf!TopicSessionCreated
<1> QED
  BY <1>2, <1>3, <1>4, <1>5 DEF OpensSession, LedgerOf!OpenSession

(* The commit of a sign-out is a revocation.                               *)
LEMMA SignOutRevokes ==
    ASSUME NEW r \in Requests, NEW s \in sessions, NEW t \in Session, Revokes(r, s, t)
    PROVE  LedgerOf!Revoke(r)
<1>1. outbox' = outbox \cup {LedgerOf!NewEvent(r, LedgerOf!TopicSessionRevoked, s.id)}
  BY DEF Revokes, SessionRevoked, NewEvent, LedgerOf!NewEvent, TopicSessionRevoked,
     LedgerOf!TopicSessionRevoked
<1>2. t \in sessions'
  BY DEF Revokes
<1> QED
  BY <1>1, <1>2 DEF Revokes, LedgerOf!Revoke, LedgerOf!NULL, NULL

(* The service implements the ledger of module Ledger: seen from the       *)
(* tables, every behaviour is a sequence of whole registrations, openings  *)
(* and revocations, each with its events.                                  *)
THEOREM ServiceIsALedger == Spec => ImplementsLedger
<1>1. Init => LedgerOf!LedgerInit
  BY DEF Init, PostgresInit, LedgerOf!LedgerInit
<1>2. CoreInv /\ [Next]_vars => [LedgerOf!LedgerNext]_(LedgerOf!ledger)
  <2> SUFFICES ASSUME CoreInv, [Next]_vars
               PROVE  [LedgerOf!LedgerNext]_(LedgerOf!ledger)
    OBVIOUS
  <2>1. CASE UNCHANGED tables
    BY <2>1 DEF tables, LedgerOf!ledger
  <2>2. ASSUME NEW r \in Requests, CommitTx(r), Commit(r) PROVE LedgerOf!LedgerNext
    <3>1. Outcome(r) /\ pc[r] = "commit"
      BY <2>2, CommitOutcome DEF CommitTx
    <3>2. LedgerOf!Register(r) \/ LedgerOf!OpenSession(r) \/ LedgerOf!Revoke(r)
      BY <3>1, SignUpRegisters, SignInOpens, SignOutRevokes DEF Outcome
    <3> QED
      BY <3>2 DEF LedgerOf!LedgerNext
  <2> QED
    BY <2>1, <2>2, TablesStep
<1> QED
  BY <1>1, <1>2, CoreInvariant, PTL DEF Spec, ImplementsLedger, LedgerOf!LedgerSpec
=============================================================================
