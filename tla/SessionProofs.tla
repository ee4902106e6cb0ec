---------------------------- MODULE SessionProofs ----------------------------
(***************************************************************************)
(* AuthenticationIsGenuine and CacheMatchesSessions for every set of       *)
(* requests, every lifetime and every combination of faults.               *)
(*                                                                         *)
(* Neither is inductive.  What the middleware finds in the cache was put   *)
(* there by a command that may have run long after the request that sent   *)
(* it ended, and what that request sent it had read from, or committed to, *)
(* Postgres some calls before.  SessionInv follows the session along that  *)
(* way: in the transaction, in the table, in the handler, in the cache.    *)
(***************************************************************************)
EXTENDS TypeProofs

ForeignKey ==
    /\ \A s \in sessions : \E u \in users : u.id = s.user
    /\ \A q \in Requests : \A s \in tx[q].sessions :
            \E u \in users \cup tx[q].users : u.id = s.user

SessionSaved(q) ==
    \/ pc[q] \in {"writeUserCreated", "writeSessionCreated"}
    \/ pc[q] = "commit" /\ call[q].kind \in {"signUp", "signIn"}

HeldOf(q) ==
    /\ SessionSaved(q) =>
        NewSession(q, work[q].user, HashOf(q), work[q].expires) \in tx[q].sessions
    /\ pc[q] = "cacheSet" => Backed(HashOf(q), work[q])
    /\ authAt[q] # NULL => Backed(HashOf(cookie[q]), work[q]) /\ authAt[q] < work[q].expires
    /\ pc[q] = "refill" => authAt[q] # NULL
    /\ pc[q] \in {"idle", "findUser"} => authAt[q] = NULL

Held == \A q \in Requests : HeldOf(q)

SessionInv == ForeignKey /\ CacheMatchesSessions /\ Held /\ now # NULL

-----------------------------------------------------------------------------
(* Rows stay: a step may revoke a session and change nothing else of it.   *)
Same(s, t) == t.id = s.id /\ t.user = s.user /\ t.hash = s.hash /\ t.expires = s.expires

Grows == users \subseteq users' /\ \A s \in sessions : \E t \in sessions' : Same(s, t)

(* An update touches nothing but revoked_at (SessionRepository.RevokeTx).  *)
LEMMA UpdatedSame ==
    ASSUME NEW s \in Session, NEW update \in Update
    PROVE  Same(s, Updated(s, update))
BY DEF Same, Updated, Session

(* Commit adds rows and applies the update.                                *)
LEMMA CommitGrows ==
    ASSUME TypeInv, NEW r \in Requests, Commit(r)
    PROVE  Grows
<1>1. users \subseteq users'
  BY DEF Commit
<1>2. ASSUME NEW s \in sessions PROVE \E t \in sessions' : Same(s, t)
  <2>1. s \in Session /\ tx[r].update \in Update
    BY DEF TypeInv, TypeOK, PostgresTypeOK, Tx
  <2>2. Updated(s, tx[r].update) \in sessions'
    BY DEF Commit
  <2> QED
    BY <2>1, <2>2, UpdatedSame
<1> QED
  BY <1>1, <1>2 DEF Grows

(* Committed rows are never removed by any step of the service.            *)
LEMMA GrowsStep == TypeInv /\ [Next]_vars => Grows
<1> SUFFICES ASSUME TypeInv, [Next]_vars PROVE Grows
  OBVIOUS
<1>1. ASSUME users' = users, sessions' = sessions PROVE Grows
  BY <1>1 DEF Grows, Same
<1>2. ASSUME NEW r \in Requests, Receive(r) PROVE Grows
  BY <1>1, <1>2 DEF Receive, ReceiveSignUp, ReceiveSignIn, ReceiveProtected, postgres
<1>3. ASSUME NEW r \in Requests,
             \/ FindUser(r) \/ CacheGet(r) \/ FindSession(r) \/ Refill(r) \/ GetMe(r)
             \/ CacheSet(r) \/ CacheDelete(r)
      PROVE  Grows
  BY <1>1, <1>3 DEF FindUser, CacheGet, FindSession, Refill, GetMe, CacheSet, CacheDelete, postgres
<1>4. ASSUME NEW r \in Requests,
             \/ BeginTx(r) \/ SaveUser(r) \/ SaveSession(r) \/ WriteUserCreated(r)
             \/ WriteSessionCreated(r) \/ RevokeSession(r) \/ WriteSessionRevoked(r)
             \/ StatementFails(r) \/ Panic(r)
      PROVE  Grows
  BY <1>1, <1>4 DEF BeginTx, SaveUser, SaveSession, WriteUserCreated, WriteSessionCreated,
     RevokeSession, WriteSessionRevoked, StatementFails, Panic, Abort, Begin, InsertUser,
     InsertSession, WriteTx, RevokeTx, Rollback, tables
<1>5. ASSUME NEW r \in Requests, CommitTx(r) PROVE Grows
  BY <1>1, <1>5, CommitGrows DEF CommitTx, Abort, Rollback, tables
<1>6. CASE Crash \/ Tick \/ CacheServer \/ Finished \/ UNCHANGED vars
  BY <1>1, <1>6 DEF Crash, Lose, Tick, CacheServer, Finished, vars, postgres, tables
<1> QED
  BY <1>2, <1>3, <1>4, <1>5, <1>6 DEF Next, Step

(* What a row backed, it still backs.                                      *)
LEMMA BackedGrows ==
    ASSUME Grows, NEW key, NEW payload, Backed(key, payload)
    PROVE  Backed(key, payload)'
BY DEF Grows, Same, Backed

-----------------------------------------------------------------------------
(* The cache.                                                              *)

(* Losing entries or commands does no harm.                                *)
LEMMA CacheShrinks ==
    ASSUME CacheMatchesSessions, Grows, cache' \subseteq cache, late' \subseteq late
    PROVE  CacheMatchesSessions'
BY BackedGrows DEF CacheMatchesSessions

(* Running a command with a backed payload leaves only backed entries.     *)
LEMMA RunBacked ==
    ASSUME CacheMatchesSessions, NEW c, NEW at, c.op = "SET" => Backed(c.key, c.payload),
           NEW e \in Run(c, at)
    PROVE  Backed(e.key, e.payload)
<1>1. CASE e \in cache
  BY <1>1 DEF CacheMatchesSessions
<1>2. CASE c.op = "SET" /\ e = Stored(c, at)
  BY <1>2 DEF Stored
<1> QED
  BY <1>1, <1>2 DEF Run, Others

(* Whatever becomes of a command with a backed payload.                    *)
LEMMA SendBacked ==
    ASSUME CacheMatchesSessions, Grows, NEW c, NEW at, Send(c, at),
           c.op = "SET" => Backed(c.key, c.payload)
    PROVE  CacheMatchesSessions'
<1>1. \A e \in cache' : Backed(e.key, e.payload)
  BY RunBacked DEF Send, CacheMatchesSessions
<1>2. \A d \in late' : d.op = "SET" => Backed(d.key, d.payload)
  BY DEF Send, CacheMatchesSessions
<1> QED
  BY <1>1, <1>2, BackedGrows DEF CacheMatchesSessions

(* Every step keeps the cache in agreement with the table.                 *)
LEMMA CacheStep == TypeInv /\ SessionInv /\ [Next]_vars => CacheMatchesSessions'
<1> SUFFICES ASSUME TypeInv, SessionInv, [Next]_vars PROVE CacheMatchesSessions'
  OBVIOUS
<1>1. Grows /\ CacheMatchesSessions
  BY GrowsStep DEF SessionInv
<1>2. ASSUME cache' = cache, late' = late PROVE CacheMatchesSessions'
  BY <1>1, <1>2, CacheShrinks
<1>3. ASSUME NEW r \in Requests, Receive(r) PROVE CacheMatchesSessions'
  BY <1>2, <1>3 DEF Receive, ReceiveSignUp, ReceiveSignIn, ReceiveProtected, valkey
<1>4. ASSUME NEW r \in Requests,
             \/ FindUser(r) \/ CacheGet(r) \/ FindSession(r) \/ GetMe(r)
             \/ BeginTx(r) \/ SaveUser(r) \/ SaveSession(r) \/ WriteUserCreated(r)
             \/ WriteSessionCreated(r) \/ RevokeSession(r) \/ WriteSessionRevoked(r)
             \/ StatementFails(r) \/ Panic(r) \/ CommitTx(r)
      PROVE  CacheMatchesSessions'
  BY <1>2, <1>4 DEF FindUser, CacheGet, FindSession, GetMe, BeginTx, SaveUser, SaveSession,
     WriteUserCreated, WriteSessionCreated, RevokeSession, WriteSessionRevoked,
     StatementFails, Panic, CommitTx, valkey
<1>5. ASSUME NEW r \in Requests, CacheSet(r) PROVE CacheMatchesSessions'
  <2> DEFINE c == Set(HashOf(r), r, work[r].user, work[r].expires, work[r].expires - now)
  <2>1. Backed(HashOf(r), work[r]) /\ work[r].session = r
    BY <1>5 DEF SessionInv, Held, HeldOf, CacheSet, TypeInv, Control, ControlOf, Working
  <2>2. Backed(c.key, c.payload)
    BY <2>1 DEF Backed, Set
  <2>3. Send(c, now)
    BY <1>5 DEF CacheSet, WriteThrough
  <2> QED
    BY <1>1, <2>2, <2>3, SendBacked
<1>6. ASSUME NEW r \in Requests, CacheDelete(r) PROVE CacheMatchesSessions'
  <2>1. Send(Delete(HashOf(cookie[r])), now) /\ Delete(HashOf(cookie[r])).op = "DEL"
    BY <1>6 DEF CacheDelete, Delete
  <2> QED
    BY <1>1, <2>1, SendBacked
<1>7. ASSUME NEW r \in Requests, Refill(r) PROVE CacheMatchesSessions'
  <2> DEFINE c == Set(HashOf(cookie[r]), work[r].session, work[r].user, work[r].expires,
                      work[r].expires - now)
  <2>1. Backed(HashOf(cookie[r]), work[r])
    BY <1>7 DEF SessionInv, Held, HeldOf, Refill
  <2>2. Backed(c.key, c.payload)
    BY <2>1 DEF Backed, Set
  <2>3. Send(c, now) \/ UNCHANGED valkey
    BY <1>7 DEF Refill
  <2>4. CASE Send(c, now)
    BY <1>1, <2>2, <2>4, SendBacked
  <2>5. CASE UNCHANGED valkey
    BY <1>2, <2>5 DEF valkey
  <2> QED
    BY <2>3, <2>4, <2>5
<1>8. CASE Crash \/ Tick \/ Finished \/ UNCHANGED vars
  BY <1>2, <1>8 DEF Crash, Lose, Tick, Finished, vars, valkey
<1>9. CASE CacheServer
  <2>1. CASE Evict
    BY <1>1, <2>1, CacheShrinks DEF Evict
  <2>2. CASE ApplyLate(now)
    <3>1. PICK c \in late : cache' = Run(c, now) /\ late' = late \ {c}
      BY <2>2 DEF ApplyLate
    <3>2. c.op = "SET" => Backed(c.key, c.payload)
      BY <1>1 DEF CacheMatchesSessions
    <3>3. \A e \in cache' : Backed(e.key, e.payload)
      BY <1>1, <3>1, <3>2, RunBacked
    <3>4. \A d \in late' : d.op = "SET" => Backed(d.key, d.payload)
      BY <1>1, <3>1 DEF CacheMatchesSessions
    <3> QED
      BY <1>1, <3>3, <3>4, BackedGrows DEF CacheMatchesSessions
  <2> QED
    BY <1>9, <2>1, <2>2 DEF CacheServer
<1> QED
  BY <1>3, <1>4, <1>5, <1>6, <1>7, <1>8, <1>9 DEF Next, Step

-----------------------------------------------------------------------------
(* Transactions.                                                           *)

(* A statement changes one part of its own transaction.                    *)
LEMMA TxFrame ==
    ASSUME TypeInv, NEW r \in Requests,
           \/ \E u \in User : InsertUser(r, u)
           \/ \E id \in Requests : RevokeTx(r, id)
           \/ \E e \in Event : WriteTx(r, e)
    PROVE  \A q \in Requests :
             tx'[q].sessions = tx[q].sessions /\ tx[q].users \subseteq tx'[q].users
<1>1. \/ \E u : tx' = [tx EXCEPT ![r] = [tx[r] EXCEPT !.users = tx[r].users \cup {u}]]
      \/ \E o : tx' = [tx EXCEPT ![r] = [tx[r] EXCEPT !.outbox = o]]
      \/ \E d : tx' = [tx EXCEPT ![r] = [tx[r] EXCEPT !.update = d]]
  BY DEF InsertUser, RevokeTx, WriteTx
<1>2. tx \in [Requests -> Tx] /\ tx[r] \in Tx
  BY DEF TypeInv, TypeOK, PostgresTypeOK
<1>3. tx'[r].sessions = tx[r].sessions /\ tx[r].users \subseteq tx'[r].users
  BY <1>1, <1>2 DEF Tx
<1>4. \A q \in Requests \ {r} : tx'[q] = tx[q]
  BY <1>1, <1>2
<1> QED
  BY <1>3, <1>4

(* SaveTx of a session adds it to its own transaction.                     *)
LEMMA InsertSessionFrame ==
    ASSUME TypeInv, NEW r \in Requests, NEW s, InsertSession(r, s)
    PROVE  /\ tx'[r].sessions = tx[r].sessions \cup {s}
           /\ tx'[r].users = tx[r].users
           /\ \A q \in Requests \ {r} : tx'[q] = tx[q]
<1>1. tx' = [tx EXCEPT ![r] = [tx[r] EXCEPT !.sessions = tx[r].sessions \cup {s}]]
  BY DEF InsertSession
<1>2. tx \in [Requests -> Tx] /\ tx[r] \in Tx
  BY DEF TypeInv, TypeOK, PostgresTypeOK
<1> QED
  BY <1>1, <1>2 DEF Tx

(* What the handlers save and write has its type.                          *)
LEMMA StatementType ==
    ASSUME TypeInv, NEW r \in Requests
    PROVE  /\ pc[r] = "saveUser" =>
                NewUser(r, NewEmail(call[r].email), Hash(call[r].password)) \in User
           /\ pc[r] \in TxSteps => work[r].session \in Requests
           /\ \A topic \in Topics, id \in Requests : NewEvent(r, topic, id) \in Event
<1>1. ASSUME pc[r] = "saveUser"
      PROVE  NewUser(r, NewEmail(call[r].email), Hash(call[r].password)) \in User
  <2>1. call[r] \in Input
    BY <1>1 DEF TypeInv, Control, ControlOf
  <2> QED
    BY <2>1 DEF NewUser, NewEmail, Hash, User, Email, PasswordHash, Input, RawEmail
<1>2. pc[r] \in TxSteps => work[r].session \in Requests
  BY DEF TypeInv, Control, ControlOf, Working
<1>3. \A topic \in Topics, id \in Requests : NewEvent(r, topic, id) \in Event
  BY DEF NewEvent, Event
<1> QED
  BY <1>1, <1>2, <1>3

(* The statements that leave sessions alone, as one step of TxFrame.       *)
LEMMA StatementFrame ==
    ASSUME TypeInv, NEW r \in Requests,
           \/ SaveUser(r) /\ ~Abort(r, 409)
           \/ WriteUserCreated(r) \/ WriteSessionCreated(r)
           \/ RevokeSession(r) \/ WriteSessionRevoked(r)
    PROVE  /\ users' = users /\ sessions' = sessions
           /\ \A q \in Requests :
                tx'[q].sessions = tx[q].sessions /\ tx[q].users \subseteq tx'[q].users
<1>1. CASE SaveUser(r) /\ ~Abort(r, 409)
  <2>1. \E u \in User : InsertUser(r, u)
    BY <1>1, StatementType DEF SaveUser
  <2> QED
    BY <2>1, TxFrame DEF InsertUser, tables
<1>2. CASE RevokeSession(r)
  <2>1. \E id \in Requests : RevokeTx(r, id)
    BY <1>2, StatementType DEF RevokeSession, TxSteps
  <2> QED
    BY <2>1, TxFrame DEF RevokeTx, tables
<1>3. CASE WriteUserCreated(r) \/ WriteSessionCreated(r) \/ WriteSessionRevoked(r)
  <2>1. \E e \in Event : WriteTx(r, e)
    BY <1>3, StatementType
       DEF WriteUserCreated, WriteSessionCreated, WriteSessionRevoked, TxSteps, Topics
  <2> QED
    BY <2>1, TxFrame DEF WriteTx, tables
<1> QED
  BY <1>1, <1>2, <1>3

-----------------------------------------------------------------------------
(* The foreign key.                                                        *)

(* A step that adds no session to the table or to a transaction.           *)
LEMMA ForeignKeyQuiet ==
    ASSUME ForeignKey, users' = users, sessions' = sessions,
           \A q \in Requests : \/ tx'[q].sessions = {}
                               \/ /\ tx'[q].sessions = tx[q].sessions
                                  /\ tx[q].users \subseteq tx'[q].users
    PROVE  ForeignKey'
BY DEF ForeignKey

(* Commit brings a session's user along, or found it already there.        *)
LEMMA ForeignKeyCommit ==
    ASSUME TypeInv, ForeignKey, NEW r \in Requests, Commit(r)
    PROVE  ForeignKey'
<1>1. users' = users \cup tx[r].users
  BY DEF Commit
<1>2. ASSUME NEW t \in sessions' PROVE \E u \in users' : u.id = t.user
  <2>1. PICK s \in sessions \cup tx[r].sessions : t = Updated(s, tx[r].update)
    BY DEF Commit
  <2>2. s \in Session /\ tx[r].update \in Update
    BY DEF TypeInv, TypeOK, PostgresTypeOK, Tx
  <2>3. t.user = s.user
    BY <2>1, <2>2, UpdatedSame DEF Same
  <2> QED
    BY <1>1, <2>1, <2>3 DEF ForeignKey
<1>3. \A q \in Requests : tx'[q] = IF q = r THEN NoTx ELSE tx[q]
  BY DEF Commit, TypeInv, TypeOK, PostgresTypeOK
<1> QED
  BY <1>1, <1>2, <1>3 DEF ForeignKey, NoTx

(* Every step keeps every session attached to a user.                      *)
LEMMA ForeignKeyStep == TypeInv /\ SessionInv /\ [Next]_vars => ForeignKey'
<1> SUFFICES ASSUME TypeInv, SessionInv, [Next]_vars PROVE ForeignKey'
  OBVIOUS
<1>1. ForeignKey
  BY DEF SessionInv
<1>2. ASSUME UNCHANGED postgres PROVE ForeignKey'
  BY <1>1, <1>2, ForeignKeyQuiet DEF postgres
<1>3. ASSUME NEW r \in Requests, Rollback(r) PROVE ForeignKey'
  <2>1. \A q \in Requests : tx'[q] = IF q = r THEN NoTx ELSE tx[q]
    BY <1>3 DEF Rollback, TypeInv, TypeOK, PostgresTypeOK
  <2> QED
    BY <1>1, <1>3, <2>1, ForeignKeyQuiet DEF Rollback, tables, NoTx
<1>4. ASSUME NEW r \in Requests, Receive(r) PROVE ForeignKey'
  BY <1>2, <1>4 DEF Receive, ReceiveSignUp, ReceiveSignIn, ReceiveProtected
<1>5. ASSUME NEW r \in Requests,
             \/ FindUser(r) \/ CacheGet(r) \/ FindSession(r) \/ Refill(r) \/ GetMe(r)
             \/ CacheSet(r) \/ CacheDelete(r)
      PROVE  ForeignKey'
  BY <1>2, <1>5 DEF FindUser, CacheGet, FindSession, Refill, GetMe, CacheSet, CacheDelete
<1>6. ASSUME NEW r \in Requests, BeginTx(r) PROVE ForeignKey'
  <2>1. users' = users /\ sessions' = sessions
    BY <1>6 DEF BeginTx, Begin, tables
  <2>2. \A q \in Requests :
          tx'[q] = IF q = r THEN [NoTx EXCEPT !.open = TRUE, !.at = now] ELSE tx[q]
    BY <1>6 DEF BeginTx, Begin, TypeInv, TypeOK, PostgresTypeOK
  <2> QED
    BY <1>1, <2>1, <2>2, ForeignKeyQuiet DEF NoTx
<1>7. ASSUME NEW r \in Requests,
             \/ SaveUser(r) \/ WriteUserCreated(r) \/ WriteSessionCreated(r)
             \/ RevokeSession(r) \/ WriteSessionRevoked(r)
      PROVE  ForeignKey'
  <2>1. CASE SaveUser(r) /\ Abort(r, 409)
    BY <1>3, <2>1 DEF Abort
  <2> QED
    BY <1>1, <1>7, <2>1, StatementFrame, ForeignKeyQuiet
<1>8. ASSUME NEW r \in Requests, SaveSession(r) PROVE ForeignKey'
  <2> DEFINE s == NewSession(r, work[r].user, HashOf(r), work[r].expires)
  <2>1. InsertSession(r, s)
    BY <1>8 DEF SaveSession
  <2>2. users' = users /\ sessions' = sessions
    BY <2>1 DEF InsertSession, tables
  <2>3. \E u \in users \cup tx[r].users : u.id = s.user
    BY <2>1 DEF InsertSession, UserVisible
  <2> QED
    BY <1>1, <2>1, <2>2, <2>3, InsertSessionFrame DEF ForeignKey
<1>9. ASSUME NEW r \in Requests, CommitTx(r) \/ StatementFails(r) \/ Panic(r) PROVE ForeignKey'
  BY <1>1, <1>3, <1>9, ForeignKeyCommit DEF CommitTx, StatementFails, Panic, Abort
<1>10. CASE Crash
  BY <1>1, <1>10, ForeignKeyQuiet DEF Crash, Lose, tables, NoTx
<1>11. CASE Tick \/ CacheServer \/ Finished \/ UNCHANGED vars
  BY <1>2, <1>11 DEF Tick, CacheServer, Finished, vars
<1> QED
  BY <1>4, <1>5, <1>6, <1>7, <1>8, <1>9, <1>10, <1>11 DEF Next, Step

-----------------------------------------------------------------------------
(* What a handler holds.                                                   *)

Untouched(q) ==
    /\ pc'[q] = pc[q] /\ work'[q] = work[q] /\ call'[q] = call[q]
    /\ cookie'[q] = cookie[q] /\ authAt'[q] = authAt[q]
    /\ status'[q] = status[q] /\ tx'[q] = tx[q]

(* Another request's step leaves what this one holds true.                 *)
LEMMA HeldFrame ==
    ASSUME Grows, NEW q \in Requests, HeldOf(q), Untouched(q)
    PROVE  HeldOf(q)'
BY BackedGrows DEF HeldOf, Untouched, SessionSaved

(* A step of r touches only r.                                             *)
LEMMA OthersUntouched ==
    ASSUME TypeInv, NEW r \in Requests, Receive(r) \/ Step(r) \/ Panic(r), NEW q \in Requests, q # r
    PROVE  Untouched(q)
<1> USE DEF TypeInv, TypeOK, PostgresTypeOK, RequestTypeOK, Untouched
<1>1. CASE Receive(r)
  BY <1>1 DEF Receive, ReceiveSignUp, ReceiveSignIn, ReceiveProtected,
     postgres, history, Goto, Answer
<1>2. CASE \/ FindUser(r) \/ CacheGet(r) \/ FindSession(r) \/ Refill(r) \/ GetMe(r)
           \/ CacheSet(r) \/ CacheDelete(r)
  BY <1>2 DEF FindUser, CacheGet, FindSession, Refill, GetMe, CacheSet, CacheDelete,
     postgres, history, input, Goto, Answer, Admit, Identify
<1>3. CASE \/ BeginTx(r) \/ SaveUser(r) \/ SaveSession(r) \/ WriteUserCreated(r)
           \/ WriteSessionCreated(r) \/ RevokeSession(r) \/ WriteSessionRevoked(r)
           \/ StatementFails(r) \/ Panic(r) \/ CommitTx(r)
  <2>1. tx'[q] = tx[q]
    BY <1>3 DEF BeginTx, SaveUser, SaveSession, WriteUserCreated, WriteSessionCreated,
       RevokeSession, WriteSessionRevoked, StatementFails, Panic, CommitTx, Abort, Begin,
       InsertUser, InsertSession, WriteTx, RevokeTx, Rollback, Commit
  <2>2. pc'[q] = pc[q] /\ status'[q] = status[q]
    BY <1>3 DEF BeginTx, SaveUser, SaveSession, WriteUserCreated, WriteSessionCreated,
       RevokeSession, WriteSessionRevoked, StatementFails, Panic, CommitTx, Abort, Goto, Answer
  <2>3. UNCHANGED <<work, call, cookie, authAt>>
    BY <1>3 DEF BeginTx, SaveUser, SaveSession, WriteUserCreated, WriteSessionCreated,
       RevokeSession, WriteSessionRevoked, StatementFails, Panic, CommitTx, input, history
  <2> QED
    BY <2>1, <2>2, <2>3
<1> QED
  BY <1>1, <1>2, <1>3 DEF Step

(* A request that moves on without reading or saving a session.            *)
LEMMA HeldQuiet ==
    ASSUME Grows, NEW r \in Requests, HeldOf(r), ~SessionSaved(r)',
           pc'[r] \notin {"cacheSet", "refill"},
           pc'[r] \in {"idle", "findUser"} => authAt[r] = NULL,
           authAt'[r] = authAt[r],
           authAt[r] # NULL => work'[r] = work[r] /\ cookie'[r] = cookie[r]
    PROVE  HeldOf(r)'
BY BackedGrows DEF HeldOf

(* Steps of r outside the paths of a session.                              *)
LEMMA HeldIdle ==
    ASSUME TypeInv, SessionInv, Grows, NEW r \in Requests,
           \/ Receive(r) \/ FindUser(r) \/ BeginTx(r) \/ SaveUser(r)
           \/ RevokeSession(r) \/ WriteSessionRevoked(r) \/ StatementFails(r) \/ Panic(r)
           \/ CacheSet(r) \/ CacheDelete(r) \/ Refill(r) \/ GetMe(r)
    PROVE  HeldOf(r)'
<1> USE DEF TypeInv, TypeOK, RequestTypeOK, SessionInv, Held
<1>1. HeldOf(r) /\ ControlOf(r)
  BY DEF Control
<1>2. CASE Receive(r)
  <2>1. authAt[r] = NULL /\ authAt'[r] = authAt[r]
    BY <1>1, <1>2 DEF Receive, ReceiveSignUp, ReceiveSignIn, ReceiveProtected, history, HeldOf
  <2>2. pc'[r] \in {"done", "begin", "findUser", "cacheGet"}
    BY <1>2 DEF Receive, ReceiveSignUp, ReceiveSignIn, ReceiveProtected, Goto, Answer
  <2> QED
    BY <1>1, <2>1, <2>2, HeldQuiet DEF SessionSaved
<1>3. CASE FindUser(r)
  <2>1. authAt[r] = NULL /\ authAt'[r] = authAt[r]
    BY <1>1, <1>3 DEF FindUser, history, HeldOf
  <2>2. pc'[r] \in {"done", "begin"}
    BY <1>3 DEF FindUser, Goto, Answer
  <2> QED
    BY <1>1, <2>1, <2>2, HeldQuiet DEF SessionSaved
<1>4. CASE \/ BeginTx(r) \/ SaveUser(r) \/ RevokeSession(r) \/ WriteSessionRevoked(r)
           \/ StatementFails(r) \/ Panic(r) \/ CacheSet(r) \/ CacheDelete(r) \/ Refill(r) \/ GetMe(r)
  <2>1. UNCHANGED <<work, cookie, call, authAt>>
    BY <1>4 DEF BeginTx, SaveUser, RevokeSession, WriteSessionRevoked, StatementFails, Panic,
       CacheSet, CacheDelete, Refill, GetMe, input, history
  <2>2. \/ pc'[r] \in {"done", "saveUser", "saveSession", "revoke", "writeSessionRevoked",
                      "begin", "getMe"}
        \/ pc'[r] = "commit" /\ call[r].kind = "signOut"
    <3>1. CASE BeginTx(r)
      BY <1>1, <3>1 DEF BeginTx, Goto, FirstStatement, ControlOf, Input, Kinds
    <3>2. CASE SaveUser(r) \/ RevokeSession(r) \/ WriteSessionRevoked(r) \/ StatementFails(r)
                                 \/ Panic(r)
      BY <1>1, <3>2 DEF SaveUser, RevokeSession, WriteSessionRevoked, StatementFails, Panic,
         Abort, Goto, Answer, ControlOf
    <3>3. CASE CacheSet(r) \/ CacheDelete(r) \/ Refill(r) \/ GetMe(r)
      BY <3>3 DEF CacheSet, CacheDelete, Refill, GetMe, Admit, Goto, Answer
    <3> QED
      BY <1>4, <3>1, <3>2, <3>3
  <2> QED
    BY <1>1, <2>1, <2>2, HeldQuiet DEF SessionSaved
<1> QED
  BY <1>2, <1>3, <1>4

(* From the insert of the session to the write of its event.               *)
LEMMA HeldSaved ==
    ASSUME TypeInv, SessionInv, Grows, NEW r \in Requests,
           SaveSession(r) \/ WriteUserCreated(r) \/ WriteSessionCreated(r)
    PROVE  HeldOf(r)'
<1> DEFINE s == NewSession(r, work[r].user, HashOf(r), work[r].expires)
<1> USE DEF TypeInv, TypeOK, RequestTypeOK, SessionInv, Held
<1>1. UNCHANGED <<work, cookie, call, authAt>>
  BY DEF SaveSession, WriteUserCreated, WriteSessionCreated, input, history
<1>2. pc'[r] \in {"writeUserCreated", "writeSessionCreated", "commit"}
  BY DEF SaveSession, WriteUserCreated, WriteSessionCreated, Goto
<1>3. s \in tx'[r].sessions
  <2>1. CASE SaveSession(r)
    BY <2>1, InsertSessionFrame DEF SaveSession
  <2>2. CASE WriteUserCreated(r) \/ WriteSessionCreated(r)
    <3>1. s \in tx[r].sessions
      BY <2>2 DEF WriteUserCreated, WriteSessionCreated, HeldOf, SessionSaved
    <3> QED
      BY <2>2, <3>1, StatementFrame
  <2> QED
    BY <2>1, <2>2
<1> QED
  BY <1>1, <1>2, <1>3, BackedGrows DEF HeldOf

(* Commit: the session the handler saved is now a row.                     *)
LEMMA HeldCommit ==
    ASSUME TypeInv, SessionInv, Grows, NEW r \in Requests, CommitTx(r)
    PROVE  HeldOf(r)'
<1> DEFINE s == NewSession(r, work[r].user, HashOf(r), work[r].expires)
<1> USE DEF TypeInv, TypeOK, RequestTypeOK, SessionInv, Held
<1>1. UNCHANGED <<work, cookie, call, authAt>>
  BY DEF CommitTx, input, history
<1>2. CASE pc'[r] \in {"done", "cacheDelete"}
  BY <1>1, <1>2, HeldQuiet DEF SessionSaved
<1>3. CASE Commit(r) /\ pc'[r] = "cacheSet" /\ call[r].kind # "signOut"
  <2>1. pc[r] = "commit" /\ ControlOf(r)
    BY DEF CommitTx, Control
  <2>2. call[r].kind \in {"signUp", "signIn"} /\ work[r].session = r
    BY <1>3, <2>1 DEF ControlOf, Input, Kinds, Working, TxSteps
  <2>3. s \in tx[r].sessions
    BY <2>1, <2>2 DEF HeldOf, SessionSaved
  <2>4. Updated(s, tx[r].update) \in sessions'
    BY <1>3, <2>3 DEF Commit
  <2>5. s \in Session /\ tx[r].update \in Update
    BY <2>3 DEF PostgresTypeOK, Tx
  <2>6. Same(s, Updated(s, tx[r].update))
    BY <2>5, UpdatedSame
  <2>7. s.hash = HashOf(r) /\ s.id = r /\ s.user = work[r].user /\ s.expires = work[r].expires
    BY DEF NewSession
  <2>8. Backed(HashOf(r), work[r])'
    BY <1>1, <2>2, <2>4, <2>6, <2>7 DEF Backed, Same
  <2> QED
    BY <1>1, <1>3, <2>8, BackedGrows DEF HeldOf, SessionSaved
<1>4. \/ pc'[r] \in {"done", "cacheDelete"}
      \/ Commit(r) /\ pc'[r] = "cacheSet" /\ call[r].kind # "signOut"
  BY DEF CommitTx, Abort, Goto, Answer, Is
<1> QED
  BY <1>2, <1>3, <1>4

(* The middleware identifies the caller: from the cache, whose entries are *)
(* backed, or from the row itself.                                         *)
LEMMA HeldIdentified ==
    ASSUME TypeInv, SessionInv, Grows, NEW r \in Requests, CacheGet(r) \/ FindSession(r)
    PROVE  HeldOf(r)'
<1> USE DEF TypeInv, TypeOK, RequestTypeOK, SessionInv, Held
<1>1. UNCHANGED <<cookie, call>> /\ HeldOf(r)
  BY DEF CacheGet, FindSession, input
<1>2. \/ /\ work' = work /\ authAt' = authAt
         /\ pc'[r] \in {"findSession", "done"}
      \/ /\ \E session, user, expires :
              /\ Identify(r, session, user, expires)
              /\ now < expires
              /\ Backed(HashOf(cookie[r]), [session |-> session, user |-> user,
                                            expires |-> expires])
         /\ pc'[r] \in {"refill", "getMe", "begin", "done"}
  <2>1. CASE CacheGet(r)
    <3>1. CASE \E e \in Hits(r) :
                  /\ Identify(r, e.payload.session, e.payload.user, e.payload.expires)
                  /\ Admit(r)
      <4>1. PICK e \in Hits(r) :
                  /\ Identify(r, e.payload.session, e.payload.user, e.payload.expires)
                  /\ Admit(r)
        BY <3>1
      <4>2. e \in cache /\ e.key = HashOf(cookie[r]) /\ e.payload.expires > now
        BY DEF Hits, Live
      <4>3. Backed(HashOf(cookie[r]), e.payload)
        BY <4>2 DEF CacheMatchesSessions
      <4>4. e.payload \in Payload
        BY <4>2 DEF ValkeyTypeOK, Entry
      <4>5. Backed(HashOf(cookie[r]), [session |-> e.payload.session, user |-> e.payload.user,
                                      expires |-> e.payload.expires])
        BY <4>3 DEF Backed
      <4>6. pc'[r] \in {"refill", "getMe", "begin", "done"}
        BY <4>1 DEF Admit, Goto, Answer
      <4>7. now < e.payload.expires
        BY <4>2, <4>4 DEF Payload, Time
      <4> QED
        BY <4>1, <4>5, <4>6, <4>7
    <3>2. CASE Goto(r, "findSession") /\ UNCHANGED <<work, authAt>>
      BY <3>2 DEF Goto
    <3> QED
      BY <2>1, <3>1, <3>2 DEF CacheGet
  <2>2. CASE FindSession(r)
    <3>1. CASE \E s \in sessions :
                  /\ s.hash = HashOf(cookie[r]) /\ IsActive(s, now)
                  /\ Identify(r, s.id, s.user, s.expires)
                  /\ Goto(r, "refill")
      BY <3>1 DEF IsActive, Backed, Goto
    <3>2. CASE Answer(r, 401) /\ UNCHANGED <<work, authAt>>
      BY <3>2 DEF Answer
    <3> QED
      BY <2>2, <3>1, <3>2 DEF FindSession, FindByTokenHash
  <2> QED
    BY <2>1, <2>2
<1>3. CASE work' = work /\ authAt' = authAt /\ pc'[r] \in {"findSession", "done"}
  BY <1>1, <1>3, HeldQuiet DEF SessionSaved
<1>4. ASSUME NEW session, NEW user, NEW expires,
             Identify(r, session, user, expires), now < expires,
             Backed(HashOf(cookie[r]), [session |-> session, user |-> user, expires |-> expires]),
             pc'[r] \in {"refill", "getMe", "begin", "done"}
      PROVE  HeldOf(r)'
  <2>1. work'[r] = [session |-> session, user |-> user, expires |-> expires] /\ authAt'[r] = now
    BY <1>4 DEF Identify
  <2>2. Backed(HashOf(cookie[r]), [session |-> session, user |-> user, expires |-> expires])'
    BY <1>4, <1>1, BackedGrows
  <2>3. Backed(HashOf(cookie[r]), work[r])'
    BY <1>1, <2>1, <2>2
  <2>4. authAt'[r] < work'[r].expires /\ authAt'[r] # NULL
    BY <1>4, <2>1
  <2> QED
    BY <1>4, <2>3, <2>4 DEF HeldOf, SessionSaved
<1> QED
  BY <1>2, <1>3, <1>4

(* Every step keeps what every handler holds true.                         *)
LEMMA HeldStep == TypeInv /\ SessionInv /\ [Next]_vars => Held'
<1> SUFFICES ASSUME TypeInv, SessionInv, [Next]_vars PROVE Held'
  OBVIOUS
<1>1. Grows /\ Held
  BY GrowsStep DEF SessionInv
<1>2. ASSUME NEW r \in Requests, Receive(r) \/ Step(r) \/ Panic(r) PROVE Held'
  <2>1. HeldOf(r)'
    BY <1>1, <1>2, HeldIdle, HeldSaved, HeldCommit, HeldIdentified DEF Step
  <2>2. ASSUME NEW q \in Requests, q # r PROVE HeldOf(q)'
    BY <1>1, <1>2, <2>2, OthersUntouched, HeldFrame DEF Held
  <2> QED
    BY <2>1, <2>2 DEF Held
<1>3. CASE Crash
  <2>1. UNCHANGED <<work, cookie, call, status, authAt>>
    BY <1>3 DEF Crash, Lose, input, history
  <2>2. ASSUME NEW q \in Requests PROVE HeldOf(q)'
    <3>1. \/ pc'[q] = pc[q] /\ tx'[q] = tx[q]
          \/ pc'[q] = "lost"
      BY <1>3 DEF Crash, Lose, TypeInv, TypeOK, RequestTypeOK, PostgresTypeOK
    <3>2. CASE pc'[q] = pc[q] /\ tx'[q] = tx[q]
      BY <1>1, <2>1, <3>2, HeldFrame DEF Held, Untouched
    <3>3. CASE pc'[q] = "lost"
      BY <1>1, <2>1, <3>3, HeldQuiet DEF Held, HeldOf, SessionSaved
    <3> QED
      BY <3>1, <3>2, <3>3
  <2> QED
    BY <2>2 DEF Held
<1>4. CASE Tick \/ CacheServer \/ Finished \/ UNCHANGED vars
  <2>1. UNCHANGED <<tx, pc, work, cookie, call, status, authAt>>
    BY <1>4 DEF Tick, CacheServer, Finished, vars, postgres, input, history
  <2> QED
    BY <1>1, <2>1, HeldFrame DEF Held, Untouched
<1> QED
  BY <1>2, <1>3, <1>4 DEF Next

-----------------------------------------------------------------------------
(* The invariant holds before any request: no row, entry or command.       *)
LEMMA SessionInit == Init => SessionInv
BY DEF Init, PostgresInit, ValkeyInit, SessionInv, ForeignKey, CacheMatchesSessions, Held,
       HeldOf, SessionSaved, NoTx, NULL

(* The clock never returns to the unset time: only Tick moves it, forward. *)
LEMMA ClockStep == TypeInv /\ now # NULL /\ [Next]_vars => now' # NULL
<1> SUFFICES ASSUME TypeInv, now # NULL, [Next]_vars PROVE now' # NULL
  OBVIOUS
<1>1. now' = now \/ now' = now + 1
  BY DEF Next, Receive, Step, ReceiveSignUp, ReceiveSignIn, ReceiveProtected, FindUser, BeginTx,
     SaveUser, SaveSession, WriteUserCreated, WriteSessionCreated, RevokeSession,
     WriteSessionRevoked, CommitTx, StatementFails, CacheSet, CacheDelete, CacheGet,
     FindSession, Refill, GetMe, Panic, Crash, Lose, Tick, CacheServer, Finished, vars
<1> QED
  BY <1>1 DEF TypeInv, TypeOK, RequestTypeOK, Time, NULL

(* SessionInv is an invariant of the service.                              *)
THEOREM SessionInvariant == Spec => [](TypeInv /\ SessionInv)
<1>1. Init => TypeInv /\ SessionInv
  BY TypeInit, SessionInit
<1>2. TypeInv /\ SessionInv /\ [Next]_vars => (TypeInv /\ SessionInv)'
  BY TypeStep, ForeignKeyStep, CacheStep, HeldStep, ClockStep DEF SessionInv
<1> QED
  BY <1>1, <1>2, PTL DEF Spec

(* The cache, and every command still under way, agrees with the table.    *)
THEOREM CacheAgrees == Spec => []CacheMatchesSessions
<1>1. TypeInv /\ SessionInv => CacheMatchesSessions
  BY DEF SessionInv
<1> QED
  BY <1>1, SessionInvariant, PTL

(* Whoever the session middleware lets through holds a real, unexpired     *)
(* session of an existing user and is taken for that user.                 *)
THEOREM GenuineAuthentication == Spec => []AuthenticationIsGenuine
<1>1. TypeInv /\ SessionInv => AuthenticationIsGenuine
  <2> SUFFICES ASSUME TypeInv, SessionInv, NEW r \in Requests, authAt[r] # NULL
               PROVE  \E s \in sessions, u \in users :
                        /\ s.hash = HashOf(cookie[r])
                        /\ s.id = work[r].session
                        /\ s.user = work[r].user /\ u.id = s.user
                        /\ authAt[r] < s.expires
    BY DEF AuthenticationIsGenuine
  <2>1. Backed(HashOf(cookie[r]), work[r]) /\ authAt[r] < work[r].expires
    BY DEF SessionInv, Held, HeldOf
  <2>2. PICK s \in sessions : /\ s.hash = HashOf(cookie[r]) /\ s.id = work[r].session
                              /\ s.user = work[r].user /\ s.expires = work[r].expires
    BY <2>1 DEF Backed
  <2>3. PICK u \in users : u.id = s.user
    BY DEF SessionInv, ForeignKey
  <2> QED
    BY <2>1, <2>2, <2>3
<1> QED
  BY <1>1, SessionInvariant, PTL
=============================================================================
