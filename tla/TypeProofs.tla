----------------------------- MODULE TypeProofs -----------------------------
(***************************************************************************)
(* Type correctness of the identity service, for every set of requests,    *)
(* every traffic and every combination of faults.  TypeOK is not inductive *)
(* alone: what a handler may write depends on how far it has come, so it   *)
(* is strengthened with Control, which ties each request's next call to    *)
(* what it is and to what it has found out.                                *)
(***************************************************************************)
EXTENDS Guarantees, TLAPS

Working == {"begin", "refill", "getMe", "cacheSet", "cacheDelete"} \cup TxSteps

ControlOf(r) ==
    /\ pc[r] # "idle" => call[r] \in Input
    /\ pc[r] = "findUser" => call[r].kind = "signIn"
    /\ pc[r] \in {"saveUser", "writeUserCreated"} => call[r].kind = "signUp"
    /\ pc[r] \in {"saveSession", "writeSessionCreated", "cacheSet"}
         => call[r].kind \in {"signUp", "signIn"}
    /\ pc[r] \in {"revoke", "writeSessionRevoked", "cacheDelete"} => call[r].kind = "signOut"
    /\ pc[r] \in {"begin", "commit"} => call[r].kind # "getMe"
    /\ pc[r] \in {"cacheGet", "findSession", "refill"} => call[r].kind \in {"signOut", "getMe"}
    /\ pc[r] = "getMe" => call[r].kind = "getMe"
    /\ pc[r] \in InFlight /\ call[r].kind \in {"signOut", "getMe"} => cookie[r] # None
    /\ pc[r] \in Working => work[r].user \in Requests /\ work[r].session \in Requests
    /\ pc[r] \in Working /\ call[r].kind \in {"signUp", "signIn"} => work[r].session = r

Control == \A r \in Requests : ControlOf(r)

TypeInv == TypeOK /\ Control

-----------------------------------------------------------------------------
(* The operators of Postgres keep its types.                               *)

(* A transaction token starts empty (UnitOfWork.Begin).                    *)
LEMMA NoTxType == NoTx \in Tx /\ \A at \in Time : [NoTx EXCEPT !.open = TRUE, !.at = at] \in Tx
BY DEF NoTx, Tx, NoUpdate, Update, Time, NULL

(* A row stays a row when a transaction's update is applied to it.         *)
LEMMA UpdatedType ==
    ASSUME NEW s \in Session, NEW update \in Update
    PROVE  Updated(s, update) \in Session
BY DEF Updated, Update, Session

(* UnitOfWork.Begin keeps the types.                                       *)
LEMMA BeginType ==
    ASSUME PostgresTypeOK, NEW r \in Requests, NEW at \in Time, Begin(r, at)
    PROVE  PostgresTypeOK'
BY NoTxType DEF PostgresTypeOK, Begin, tables

(* UnitOfWork.Rollback keeps the types.                                    *)
LEMMA RollbackType ==
    ASSUME PostgresTypeOK, NEW r \in Requests, Rollback(r)
    PROVE  PostgresTypeOK'
BY NoTxType DEF PostgresTypeOK, Rollback, tables

(* UnitOfWork.Commit keeps the types.                                      *)
LEMMA CommitType ==
    ASSUME PostgresTypeOK, NEW r \in Requests, Commit(r)
    PROVE  PostgresTypeOK'
<1>1. tx[r] \in Tx
  BY DEF PostgresTypeOK
<1>2. tx[r].users \subseteq User /\ tx[r].sessions \subseteq Session
        /\ tx[r].update \in Update /\ tx[r].outbox \subseteq Event
  BY <1>1 DEF Tx
<1>3. sessions' \subseteq Session
  BY <1>2, UpdatedType DEF PostgresTypeOK, Commit
<1>4. users' \subseteq User /\ outbox' \subseteq Event
  BY <1>2 DEF PostgresTypeOK, Commit
<1>5. tx' \in [Requests -> Tx]
  BY NoTxType DEF PostgresTypeOK, Commit
<1> QED
  BY <1>3, <1>4, <1>5 DEF PostgresTypeOK

(* UserRepository.SaveTx keeps the types.                                  *)
LEMMA InsertUserType ==
    ASSUME PostgresTypeOK, NEW r \in Requests, NEW u \in User, InsertUser(r, u)
    PROVE  PostgresTypeOK'
BY DEF PostgresTypeOK, InsertUser, tables, Tx

(* SessionRepository.SaveTx keeps the types.                               *)
LEMMA InsertSessionType ==
    ASSUME PostgresTypeOK, NEW r \in Requests, NEW s \in Session, InsertSession(r, s)
    PROVE  PostgresTypeOK'
BY DEF PostgresTypeOK, InsertSession, tables, Tx

(* SessionRepository.RevokeTx keeps the types.                             *)
LEMMA RevokeTxType ==
    ASSUME PostgresTypeOK, NEW r \in Requests, NEW id \in Requests, RevokeTx(r, id)
    PROVE  PostgresTypeOK'
BY DEF PostgresTypeOK, RevokeTx, tables, Tx, Update, Coalesce, Session

(* OutboxRepository.WriteTx keeps the types.                               *)
LEMMA WriteTxType ==
    ASSUME PostgresTypeOK, NEW r \in Requests, NEW e \in Event, WriteTx(r, e)
    PROVE  PostgresTypeOK'
BY DEF PostgresTypeOK, WriteTx, tables, Tx

-----------------------------------------------------------------------------
(* The operators of Valkey keep its types.                                 *)

(* Running a SET or a DEL leaves well-formed entries.                      *)
LEMMA RunType ==
    ASSUME ValkeyTypeOK, NEW c \in SetCommand \cup DelCommand, NEW at \in Time
    PROVE  Run(c, at) \subseteq Entry
<1>1. Others(c.key) \subseteq Entry
  BY DEF Others, ValkeyTypeOK
<1>2. CASE c \in SetCommand
  <2>1. Stored(c, at) \in Entry
    BY <1>2 DEF Stored, SetCommand, Entry, Time, NULL
  <2> QED
    BY <1>1, <2>1 DEF Run
<1>3. CASE c \in DelCommand
  BY <1>1, <1>3 DEF Run, DelCommand
<1> QED
  BY <1>2, <1>3

(* Whatever becomes of a command, the cache stays well-formed.             *)
LEMMA SendType ==
    ASSUME ValkeyTypeOK, NEW c \in SetCommand \cup DelCommand, NEW at \in Time, Send(c, at)
    PROVE  ValkeyTypeOK'
BY RunType DEF ValkeyTypeOK, Send

-----------------------------------------------------------------------------
(* The requests.                                                           *)

(* Nothing is known to hold of any request before it is sent.              *)
LEMMA TypeInit == Init => TypeInv
<1> SUFFICES ASSUME Init PROVE TypeInv
  OBVIOUS
<1>1. PostgresTypeOK
  BY NoTxType DEF Init, PostgresInit, PostgresTypeOK
<1>2. ValkeyTypeOK
  BY DEF Init, ValkeyInit, ValkeyTypeOK
<1>3. RequestTypeOK
  BY DEF Init, RequestTypeOK, Time, NULL, Cookie, Work, NoWork
<1>4. Control
  BY DEF Init, Control, ControlOf, InFlight, DbSteps, CacheSteps, TxSteps, Working
<1> QED
  BY <1>1, <1>2, <1>3, <1>4 DEF TypeInv, TypeOK

(* Arrival of a sign-up: validated, or given its identifiers and expiry.   *)
LEMMA ReceiveSignUpType ==
    ASSUME TypeInv, NEW r \in Requests, ReceiveSignUp(r)
    PROVE  TypeInv'
<1>1. PostgresTypeOK' /\ ValkeyTypeOK'
  BY DEF TypeInv, TypeOK, ReceiveSignUp, postgres, valkey, PostgresTypeOK, ValkeyTypeOK
<1>2. PICK in \in Traffic[r] :
        /\ in.kind = "signUp"
        /\ call' = [call EXCEPT ![r] = in]
        /\ \/ /\ SignUpRefusal(in) # NULL
              /\ Answer(r, SignUpRefusal(in))
              /\ work' = work
           \/ /\ work' = [work EXCEPT ![r] =
                            [user |-> r, session |-> r, expires |-> now + SessionTTL]]
              /\ Goto(r, "begin")
  BY DEF ReceiveSignUp
<1>3. in \in Input
  BY <1>2, TrafficAssumption
<1>4. SignUpRefusal(in) \in {403, 400, NULL}
  BY DEF SignUpRefusal
<1>5. UNCHANGED <<now, cookie, authAt, signedOut>>
  BY DEF ReceiveSignUp, history
<1>6. RequestTypeOK'
  BY <1>2, <1>3, <1>4, <1>5, TTLAssumption
     DEF TypeInv, TypeOK, RequestTypeOK, Answer, Goto, Work, Time, Statuses, NULL,
         InFlight, DbSteps, Ended
<1>7. Control'
  BY <1>2, <1>3, <1>5
     DEF TypeInv, TypeOK, RequestTypeOK, Control, ControlOf, Answer, Goto, Working, Work,
         InFlight, DbSteps, CacheSteps, TxSteps
<1> QED
  BY <1>1, <1>6, <1>7 DEF TypeInv, TypeOK

(* Arrival of a sign-in: validated, or on to the look-up of its user.      *)
LEMMA ReceiveSignInType ==
    ASSUME TypeInv, NEW r \in Requests, ReceiveSignIn(r)
    PROVE  TypeInv'
<1>1. PostgresTypeOK' /\ ValkeyTypeOK'
  BY DEF TypeInv, TypeOK, ReceiveSignIn, postgres, valkey, PostgresTypeOK, ValkeyTypeOK
<1>2. PICK in \in Traffic[r] :
        /\ in.kind = "signIn"
        /\ call' = [call EXCEPT ![r] = in]
        /\ \/ SignInRefusal(in) # NULL /\ Answer(r, SignInRefusal(in))
           \/ Goto(r, "findUser")
  BY DEF ReceiveSignIn
<1>3. in \in Input
  BY <1>2, TrafficAssumption
<1>4. SignInRefusal(in) \in {403, 400, 401, NULL}
  BY DEF SignInRefusal
<1>5. UNCHANGED <<now, cookie, work, authAt, signedOut>>
  BY DEF ReceiveSignIn, history
<1>6. RequestTypeOK' /\ Control'
  BY <1>2, <1>3, <1>4, <1>5
     DEF TypeInv, TypeOK, RequestTypeOK, Control, ControlOf, Answer, Goto, Is, Working, Work,
         InFlight, DbSteps, CacheSteps, TxSteps, Ended, Statuses, NULL
<1> QED
  BY <1>1, <1>6 DEF TypeInv, TypeOK

(* Arrival at a protected route: refused without a cookie.                 *)
LEMMA ReceiveProtectedType ==
    ASSUME TypeInv, NEW r \in Requests, ReceiveProtected(r)
    PROVE  TypeInv'
<1>1. PostgresTypeOK' /\ ValkeyTypeOK'
  BY DEF TypeInv, TypeOK, ReceiveProtected, postgres, valkey, PostgresTypeOK, ValkeyTypeOK
<1>2. PICK in \in Traffic[r], token \in Issued \cup {Forged, None} :
        /\ in.kind \in {"signOut", "getMe"}
        /\ call' = [call EXCEPT ![r] = in]
        /\ cookie' = [cookie EXCEPT ![r] = token]
        /\ signedOut' \in {signedOut \cup {r}, signedOut}
        /\ \/ token = None /\ Answer(r, 401)
           \/ token # None /\ Goto(r, "cacheGet")
  BY DEF ReceiveProtected
<1>3. in \in Input /\ token \in Cookie
  BY <1>2, TrafficAssumption DEF Issued, Cookie
<1>4. UNCHANGED <<now, work, authAt>>
  BY DEF ReceiveProtected
<1>5. RequestTypeOK' /\ Control'
  BY <1>2, <1>3, <1>4
     DEF TypeInv, TypeOK, RequestTypeOK, Control, ControlOf, Answer, Goto, Is, Working, Work,
         InFlight, DbSteps, CacheSteps, TxSteps, Ended, Statuses, NULL
<1> QED
  BY <1>1, <1>5 DEF TypeInv, TypeOK

(* Look-up of the user that signs in.                                      *)
LEMMA FindUserType ==
    ASSUME TypeInv, NEW r \in Requests, FindUser(r)
    PROVE  TypeInv'
<1>1. PostgresTypeOK' /\ ValkeyTypeOK'
  BY DEF TypeInv, TypeOK, FindUser, postgres, valkey, PostgresTypeOK, ValkeyTypeOK
<1>2. UNCHANGED <<now, call, cookie, authAt, signedOut>>
  BY DEF FindUser, input, history
<1>3. \/ \E id \in Requests :
            /\ work' = [work EXCEPT ![r] =
                          [user |-> id, session |-> r, expires |-> now + SessionTTL]]
            /\ Goto(r, "begin")
      \/ Answer(r, 401) /\ work' = work
  BY DEF FindUser, FindByEmail, TypeInv, TypeOK, PostgresTypeOK, User
<1>4. RequestTypeOK'
  <2>1. work' \in [Requests -> Work]
    BY <1>3, TTLAssumption DEF TypeInv, TypeOK, RequestTypeOK, Work, Time
  <2>2. pc' \in [Requests -> {"idle"} \cup InFlight \cup Ended]
          /\ status' \in [Requests -> Statuses \cup {NULL}]
    BY <1>3 DEF TypeInv, TypeOK, RequestTypeOK, Answer, Goto, Statuses, InFlight, DbSteps, Ended
  <2> QED
    BY <1>2, <2>1, <2>2 DEF TypeInv, TypeOK, RequestTypeOK
<1>5. pc[r] = "findUser"
  BY DEF FindUser
<1>6. Control'
  BY <1>2, <1>3, <1>5
     DEF TypeInv, TypeOK, RequestTypeOK, Control, ControlOf, Answer, Goto, Is, Working, Work,
         InFlight, DbSteps, CacheSteps, TxSteps, Ended, Statuses, NULL
<1> QED
  BY <1>1, <1>4, <1>6 DEF TypeInv, TypeOK

(* A transaction is opened, and its first statement comes next.            *)
LEMMA BeginTxType ==
    ASSUME TypeInv, NEW r \in Requests, BeginTx(r)
    PROVE  TypeInv'
<1>1. PostgresTypeOK'
  BY BeginType DEF TypeInv, TypeOK, RequestTypeOK, BeginTx
<1>2. ValkeyTypeOK'
  BY DEF TypeInv, TypeOK, BeginTx, valkey, ValkeyTypeOK
<1>3. UNCHANGED <<now, call, cookie, work, authAt, signedOut>>
  BY DEF BeginTx, input, history
<1>4. RequestTypeOK' /\ Control'
  BY <1>3
     DEF TypeInv, TypeOK, RequestTypeOK, Control, ControlOf, Answer, Goto, Is, Working, Work,
         InFlight, DbSteps, CacheSteps, TxSteps, Ended, Statuses, NULL,
         BeginTx, FirstStatement, Input, Kinds
<1> QED
  BY <1>1, <1>2, <1>4 DEF TypeInv, TypeOK

(* The user row is inserted, or its e-mail is taken.                       *)
LEMMA SaveUserType ==
    ASSUME TypeInv, NEW r \in Requests, SaveUser(r)
    PROVE  TypeInv'
<1>1. PostgresTypeOK'
  <2>1. call[r] \in Input
    BY DEF TypeInv, Control, ControlOf, SaveUser
  <2>2. NewUser(r, NewEmail(call[r].email), Hash(call[r].password)) \in User
    BY <2>1 DEF NewUser, NewEmail, Hash, User, Email, PasswordHash, Input, RawEmail
  <2> QED
    BY <2>2, InsertUserType, RollbackType DEF TypeInv, TypeOK, SaveUser, Abort
<1>2. ValkeyTypeOK'
  BY DEF TypeInv, TypeOK, SaveUser, valkey, ValkeyTypeOK
<1>3. UNCHANGED <<now, call, cookie, work, authAt, signedOut>>
  BY DEF SaveUser, input, history
<1>4. RequestTypeOK' /\ Control'
  BY <1>3
     DEF TypeInv, TypeOK, RequestTypeOK, Control, ControlOf, Answer, Goto, Is, Working, Work,
         InFlight, DbSteps, CacheSteps, TxSteps, Ended, Statuses, NULL,
         SaveUser, Abort
<1> QED
  BY <1>1, <1>2, <1>4 DEF TypeInv, TypeOK

(* The session row is inserted.                                            *)
LEMMA SaveSessionType ==
    ASSUME TypeInv, NEW r \in Requests, SaveSession(r)
    PROVE  TypeInv'
<1>1. PostgresTypeOK'
  <2>1. work[r].user \in Requests /\ work[r].expires \in Time
    BY DEF TypeInv, TypeOK, RequestTypeOK, Work, Control, ControlOf, SaveSession, Working, TxSteps
  <2>2. NewSession(r, work[r].user, HashOf(r), work[r].expires) \in Session
    BY <2>1 DEF NewSession, HashOf, Session, TokenHash, Time, NULL
  <2> QED
    BY <2>2, InsertSessionType DEF TypeInv, TypeOK, SaveSession
<1>2. ValkeyTypeOK'
  BY DEF TypeInv, TypeOK, SaveSession, valkey, ValkeyTypeOK
<1>3. UNCHANGED <<now, call, cookie, work, authAt, signedOut>>
  BY DEF SaveSession, input, history
<1>4. RequestTypeOK' /\ Control'
  BY <1>3
     DEF TypeInv, TypeOK, RequestTypeOK, Control, ControlOf, Answer, Goto, Is, Working, Work,
         InFlight, DbSteps, CacheSteps, TxSteps, Ended, Statuses, NULL,
         SaveSession
<1> QED
  BY <1>1, <1>2, <1>4 DEF TypeInv, TypeOK

(* identity.user.created.v1 is written.                                    *)
LEMMA WriteUserCreatedType ==
    ASSUME TypeInv, NEW r \in Requests, WriteUserCreated(r)
    PROVE  TypeInv'
<1>1. PostgresTypeOK'
  <2>1. NewEvent(r, TopicUserCreated, r) \in Event
    BY DEF NewEvent, Event, Topics, WriteUserCreated, TypeInv, Control, ControlOf, Working, TxSteps
  <2> QED
    BY <2>1, WriteTxType DEF TypeInv, TypeOK, WriteUserCreated
<1>2. ValkeyTypeOK'
  BY DEF TypeInv, TypeOK, WriteUserCreated, valkey, ValkeyTypeOK
<1>3. UNCHANGED <<now, call, cookie, work, authAt, signedOut>>
  BY DEF WriteUserCreated, input, history
<1>4. RequestTypeOK' /\ Control'
  BY <1>3
     DEF TypeInv, TypeOK, RequestTypeOK, Control, ControlOf, Answer, Goto, Is, Working, Work,
         InFlight, DbSteps, CacheSteps, TxSteps, Ended, Statuses, NULL,
         WriteUserCreated
<1> QED
  BY <1>1, <1>2, <1>4 DEF TypeInv, TypeOK

(* identity.session.created.v1 is written.                                 *)
LEMMA WriteSessionCreatedType ==
    ASSUME TypeInv, NEW r \in Requests, WriteSessionCreated(r)
    PROVE  TypeInv'
<1>1. PostgresTypeOK'
  <2>1. NewEvent(r, TopicSessionCreated, r) \in Event
    BY DEF NewEvent, Event, Topics, WriteSessionCreated, TypeInv, Control, ControlOf, Working, TxSteps
  <2> QED
    BY <2>1, WriteTxType DEF TypeInv, TypeOK, WriteSessionCreated
<1>2. ValkeyTypeOK'
  BY DEF TypeInv, TypeOK, WriteSessionCreated, valkey, ValkeyTypeOK
<1>3. UNCHANGED <<now, call, cookie, work, authAt, signedOut>>
  BY DEF WriteSessionCreated, input, history
<1>4. RequestTypeOK' /\ Control'
  BY <1>3
     DEF TypeInv, TypeOK, RequestTypeOK, Control, ControlOf, Answer, Goto, Is, Working, Work,
         InFlight, DbSteps, CacheSteps, TxSteps, Ended, Statuses, NULL,
         WriteSessionCreated
<1> QED
  BY <1>1, <1>2, <1>4 DEF TypeInv, TypeOK

(* identity.session.revoked.v1 is written.                                 *)
LEMMA WriteSessionRevokedType ==
    ASSUME TypeInv, NEW r \in Requests, WriteSessionRevoked(r)
    PROVE  TypeInv'
<1>1. PostgresTypeOK'
  <2>1. NewEvent(r, TopicSessionRevoked, work[r].session) \in Event
    BY DEF NewEvent, Event, Topics, WriteSessionRevoked, TypeInv, Control, ControlOf, Working, TxSteps
  <2> QED
    BY <2>1, WriteTxType DEF TypeInv, TypeOK, WriteSessionRevoked
<1>2. ValkeyTypeOK'
  BY DEF TypeInv, TypeOK, WriteSessionRevoked, valkey, ValkeyTypeOK
<1>3. UNCHANGED <<now, call, cookie, work, authAt, signedOut>>
  BY DEF WriteSessionRevoked, input, history
<1>4. RequestTypeOK' /\ Control'
  BY <1>3
     DEF TypeInv, TypeOK, RequestTypeOK, Control, ControlOf, Answer, Goto, Is, Working, Work,
         InFlight, DbSteps, CacheSteps, TxSteps, Ended, Statuses, NULL,
         WriteSessionRevoked
<1> QED
  BY <1>1, <1>2, <1>4 DEF TypeInv, TypeOK

(* The session row is locked and its revocation dated.                     *)
LEMMA RevokeSessionType ==
    ASSUME TypeInv, NEW r \in Requests, RevokeSession(r)
    PROVE  TypeInv'
<1>1. PostgresTypeOK'
  <2>1. work[r].session \in Requests
    BY DEF TypeInv, Control, ControlOf, RevokeSession, Working, TxSteps
  <2> QED
    BY <2>1, RevokeTxType DEF TypeInv, TypeOK, RevokeSession
<1>2. ValkeyTypeOK'
  BY DEF TypeInv, TypeOK, RevokeSession, valkey, ValkeyTypeOK
<1>3. UNCHANGED <<now, call, cookie, work, authAt, signedOut>>
  BY DEF RevokeSession, input, history
<1>4. RequestTypeOK' /\ Control'
  BY <1>3
     DEF TypeInv, TypeOK, RequestTypeOK, Control, ControlOf, Answer, Goto, Is, Working, Work,
         InFlight, DbSteps, CacheSteps, TxSteps, Ended, Statuses, NULL,
         RevokeSession
<1> QED
  BY <1>1, <1>2, <1>4 DEF TypeInv, TypeOK

(* The transaction commits, or its commit fails.                           *)
LEMMA CommitTxType ==
    ASSUME TypeInv, NEW r \in Requests, CommitTx(r)
    PROVE  TypeInv'
<1>1. PostgresTypeOK'
  BY CommitType, RollbackType DEF TypeInv, TypeOK, CommitTx, Abort
<1>2. ValkeyTypeOK'
  BY DEF TypeInv, TypeOK, CommitTx, valkey, ValkeyTypeOK
<1>3. UNCHANGED <<now, call, cookie, work, authAt, signedOut>>
  BY DEF CommitTx, input, history
<1>4. RequestTypeOK' /\ Control'
  BY <1>3
     DEF TypeInv, TypeOK, RequestTypeOK, Control, ControlOf, Answer, Goto, Is, Working, Work,
         InFlight, DbSteps, CacheSteps, TxSteps, Ended, Statuses, NULL,
         CommitTx, Abort, Input, Kinds
<1> QED
  BY <1>1, <1>2, <1>4 DEF TypeInv, TypeOK

(* A call to Postgres fails and the request is answered 500.               *)
LEMMA StatementFailsType ==
    ASSUME TypeInv, NEW r \in Requests, StatementFails(r) \/ Panic(r)
    PROVE  TypeInv'
<1>1. PostgresTypeOK'
  BY RollbackType DEF TypeInv, TypeOK, StatementFails, Panic, Abort
<1>2. ValkeyTypeOK'
  BY DEF TypeInv, TypeOK, StatementFails, Panic, valkey, ValkeyTypeOK
<1>3. UNCHANGED <<now, call, cookie, work, authAt, signedOut>>
  BY DEF StatementFails, Panic, input, history
<1>4. RequestTypeOK' /\ Control'
  BY <1>3
     DEF TypeInv, TypeOK, RequestTypeOK, Control, ControlOf, Answer, Goto, Is, Working, Work,
         InFlight, DbSteps, CacheSteps, TxSteps, Ended, Statuses, NULL,
         StatementFails, Panic, Abort
<1> QED
  BY <1>1, <1>2, <1>4 DEF TypeInv, TypeOK

(* A command built from well-typed parts is well-typed.                    *)
LEMMA CommandType ==
    /\ \A key \in TokenHash, session, user \in Requests, expires \in Time, ttl \in Int :
        Set(key, session, user, expires, ttl) \in SetCommand
    /\ \A key \in TokenHash : Delete(key) \in DelCommand
BY DEF Set, Delete, SetCommand, DelCommand, Payload

(* The new session is written through to the cache.                        *)
LEMMA CacheSetType ==
    ASSUME TypeInv, NEW r \in Requests, CacheSet(r)
    PROVE  TypeInv'
<1>1. PostgresTypeOK'
  BY DEF TypeInv, TypeOK, CacheSet, postgres, PostgresTypeOK
<1>2. ValkeyTypeOK'
  <2>1. work[r].user \in Requests /\ work[r].expires \in Time /\ now \in Time
    BY DEF TypeInv, TypeOK, RequestTypeOK, Work, Control, ControlOf, CacheSet, Working
  <2>2. work[r].expires - now \in Int
    BY <2>1 DEF Time
  <2>3. HashOf(r) \in TokenHash
    BY DEF HashOf, TokenHash
  <2> QED
    BY <2>1, <2>2, <2>3, CommandType, SendType DEF TypeInv, TypeOK, CacheSet, WriteThrough
<1>3. UNCHANGED <<now, call, cookie, work, authAt, signedOut>>
  BY DEF CacheSet, input, history
<1>4. RequestTypeOK' /\ Control'
  BY <1>3
     DEF TypeInv, TypeOK, RequestTypeOK, Control, ControlOf, Answer, Goto, Is, Working, Work,
         InFlight, DbSteps, CacheSteps, TxSteps, Ended, Statuses, NULL,
         CacheSet
<1> QED
  BY <1>1, <1>2, <1>4 DEF TypeInv, TypeOK

(* A cookie that reached the session middleware can be hashed.             *)
LEMMA CookieHashType ==
    ASSUME TypeInv, NEW r \in Requests,
           pc[r] \in {"cacheGet", "findSession", "refill", "cacheDelete"}
    PROVE  HashOf(cookie[r]) \in TokenHash
<1>1. cookie[r] \in Cookie /\ cookie[r] # None
  BY DEF TypeInv, TypeOK, RequestTypeOK, Control, ControlOf, InFlight, CacheSteps, DbSteps
<1> QED
  BY <1>1 DEF Cookie, HashOf, TokenHash

(* The signed-out session is dropped from the cache.                       *)
LEMMA CacheDeleteType ==
    ASSUME TypeInv, NEW r \in Requests, CacheDelete(r)
    PROVE  TypeInv'
<1>1. PostgresTypeOK'
  BY DEF TypeInv, TypeOK, CacheDelete, postgres, PostgresTypeOK
<1>2. ValkeyTypeOK'
  BY CookieHashType, CommandType, SendType DEF TypeInv, TypeOK, RequestTypeOK, CacheDelete
<1>3. UNCHANGED <<now, call, cookie, work, authAt, signedOut>>
  BY DEF CacheDelete, input, history
<1>4. RequestTypeOK' /\ Control'
  BY <1>3
     DEF TypeInv, TypeOK, RequestTypeOK, Control, ControlOf, Answer, Goto, Is, Working, Work,
         InFlight, DbSteps, CacheSteps, TxSteps, Ended, Statuses, NULL,
         CacheDelete
<1> QED
  BY <1>1, <1>2, <1>4 DEF TypeInv, TypeOK

(* The cache is asked for the session, and identifies it or not.           *)
LEMMA CacheGetType ==
    ASSUME TypeInv, NEW r \in Requests, CacheGet(r)
    PROVE  TypeInv'
<1>1. PostgresTypeOK' /\ ValkeyTypeOK'
  BY DEF TypeInv, TypeOK, CacheGet, postgres, valkey, PostgresTypeOK, ValkeyTypeOK
<1>2. UNCHANGED <<now, call, cookie, signedOut>> /\ pc[r] = "cacheGet"
  BY DEF CacheGet, input
<1>3. \/ \E session, user \in Requests, expires \in Time :
            Identify(r, session, user, expires) /\ Admit(r)
      \/ Goto(r, "findSession") /\ work' = work /\ authAt' = authAt
  BY DEF CacheGet, Hits, Live, TypeInv, TypeOK, ValkeyTypeOK, Entry, Payload
<1>4. work' \in [Requests -> Work] /\ authAt' \in [Requests -> Time]
  BY <1>3 DEF Identify, TypeInv, TypeOK, RequestTypeOK, Work
<1>5. pc' \in [Requests -> {"idle"} \cup InFlight \cup Ended]
        /\ status' \in [Requests -> Statuses \cup {NULL}]
  BY <1>3 DEF Admit, Goto, Answer, TypeInv, TypeOK, RequestTypeOK, Statuses, InFlight, DbSteps, Ended
<1>6. Control'
  BY <1>2, <1>3, <1>4, <1>5
     DEF TypeInv, TypeOK, RequestTypeOK, Control, ControlOf, Answer, Goto, Is, Working, Work,
         InFlight, DbSteps, CacheSteps, TxSteps, Ended, Statuses, NULL, Identify, Admit
<1> QED
  BY <1>1, <1>2, <1>4, <1>5, <1>6 DEF TypeInv, TypeOK, RequestTypeOK

(* Postgres is asked for the session, and identifies it or not.            *)
LEMMA FindSessionType ==
    ASSUME TypeInv, NEW r \in Requests, FindSession(r)
    PROVE  TypeInv'
<1>1. PostgresTypeOK' /\ ValkeyTypeOK'
  BY DEF TypeInv, TypeOK, FindSession, postgres, valkey, PostgresTypeOK, ValkeyTypeOK
<1>2. UNCHANGED <<now, call, cookie, signedOut>> /\ pc[r] = "findSession"
  BY DEF FindSession, input
<1>3. \/ \E session, user \in Requests, expires \in Time :
            Identify(r, session, user, expires) /\ Goto(r, "refill")
      \/ Answer(r, 401) /\ work' = work /\ authAt' = authAt
  BY DEF FindSession, FindByTokenHash, TypeInv, TypeOK, PostgresTypeOK, Session
<1>4. work' \in [Requests -> Work] /\ authAt' \in [Requests -> Time]
  BY <1>3 DEF Identify, TypeInv, TypeOK, RequestTypeOK, Work
<1>5. pc' \in [Requests -> {"idle"} \cup InFlight \cup Ended]
        /\ status' \in [Requests -> Statuses \cup {NULL}]
  BY <1>3 DEF Goto, Answer, TypeInv, TypeOK, RequestTypeOK, Statuses, InFlight, CacheSteps, Ended
<1>6. Control'
  BY <1>2, <1>3, <1>4, <1>5
     DEF TypeInv, TypeOK, RequestTypeOK, Control, ControlOf, Answer, Goto, Is, Working, Work,
         InFlight, DbSteps, CacheSteps, TxSteps, Ended, Statuses, NULL, Identify
<1> QED
  BY <1>1, <1>2, <1>4, <1>5, <1>6 DEF TypeInv, TypeOK, RequestTypeOK

(* The cache is refilled, if the session still has time left.              *)
LEMMA RefillType ==
    ASSUME TypeInv, NEW r \in Requests, Refill(r)
    PROVE  TypeInv'
<1>1. PostgresTypeOK'
  BY DEF TypeInv, TypeOK, Refill, postgres, PostgresTypeOK
<1>2. ValkeyTypeOK'
  <2>1. /\ work[r].user \in Requests /\ work[r].session \in Requests
        /\ work[r].expires \in Time /\ now \in Time
    BY DEF TypeInv, TypeOK, RequestTypeOK, Work, Control, ControlOf, Refill, Working
  <2>2. work[r].expires - now \in Int
    BY <2>1 DEF Time
  <2>3. HashOf(cookie[r]) \in TokenHash
    BY CookieHashType DEF Refill
  <2>4. Set(HashOf(cookie[r]), work[r].session, work[r].user,
            work[r].expires, work[r].expires - now) \in SetCommand
    BY <2>1, <2>2, <2>3, CommandType
  <2> QED
    BY <2>1, <2>4, SendType DEF TypeInv, TypeOK, Refill, valkey, ValkeyTypeOK
<1>3. UNCHANGED <<now, call, cookie, work, authAt, signedOut>>
  BY DEF Refill, input, history
<1>4. RequestTypeOK' /\ Control'
  BY <1>3
     DEF TypeInv, TypeOK, RequestTypeOK, Control, ControlOf, Answer, Goto, Is, Working, Work,
         InFlight, DbSteps, CacheSteps, TxSteps, Ended, Statuses, NULL,
         Refill, Admit
<1> QED
  BY <1>1, <1>2, <1>4 DEF TypeInv, TypeOK

(* The profile is looked up.                                               *)
LEMMA GetMeType ==
    ASSUME TypeInv, NEW r \in Requests, GetMe(r)
    PROVE  TypeInv'
<1>1. PostgresTypeOK' /\ ValkeyTypeOK'
  BY DEF TypeInv, TypeOK, GetMe, postgres, valkey, PostgresTypeOK, ValkeyTypeOK
<1>2. UNCHANGED <<now, call, cookie, work, authAt, signedOut>>
  BY DEF GetMe, input, history
<1>3. RequestTypeOK' /\ Control'
  BY <1>2
     DEF TypeInv, TypeOK, RequestTypeOK, Control, ControlOf, Answer, Goto, Is, Working, Work,
         InFlight, DbSteps, CacheSteps, TxSteps, Ended, Statuses, NULL,
         GetMe
<1> QED
  BY <1>1, <1>3 DEF TypeInv, TypeOK

(* The process crashes.                                                    *)
LEMMA CrashType ==
    ASSUME TypeInv, Crash
    PROVE  TypeInv'
<1>1. PostgresTypeOK' /\ ValkeyTypeOK'
  BY NoTxType DEF TypeInv, TypeOK, Crash, Lose, tables, valkey, PostgresTypeOK, ValkeyTypeOK
<1>2. UNCHANGED <<now, call, cookie, work, status, authAt, signedOut>>
  BY DEF Crash, Lose, input, history
<1>3. RequestTypeOK'
  BY <1>2 DEF TypeInv, TypeOK, RequestTypeOK, Crash, Lose, Ended
<1>4. Control'
  BY <1>2
     DEF TypeInv, TypeOK, RequestTypeOK, Control, ControlOf, Answer, Goto, Is, Working, Work,
         InFlight, DbSteps, CacheSteps, TxSteps, Ended, Statuses, NULL,
         Crash, Lose
<1> QED
  BY <1>1, <1>3, <1>4 DEF TypeInv, TypeOK

(* The clock ticks, or Valkey drops an entry or runs a late command.       *)
LEMMA EnvironmentType ==
    ASSUME TypeInv, Tick \/ CacheServer \/ UNCHANGED vars
    PROVE  TypeInv'
<1>1. PostgresTypeOK'
  BY DEF TypeInv, TypeOK, PostgresTypeOK, Tick, CacheServer, vars, postgres
<1>2. ValkeyTypeOK'
  <2>1. CASE CacheServer
    BY <2>1, RunType DEF TypeInv, TypeOK, RequestTypeOK, ValkeyTypeOK, CacheServer, Evict, ApplyLate
  <2>2. CASE Tick \/ UNCHANGED vars
    BY <2>2 DEF TypeInv, TypeOK, ValkeyTypeOK, Tick, vars, valkey
  <2> QED
    BY <2>1, <2>2
<1>3. UNCHANGED <<pc, call, cookie, work, status, authAt, signedOut>> /\ now' \in {now, now + 1}
  BY DEF Tick, CacheServer, vars, input, history
<1>4. RequestTypeOK'
  BY <1>3 DEF TypeInv, TypeOK, RequestTypeOK, Time
<1>5. Control'
  BY <1>3 DEF TypeInv, Control, ControlOf
<1> QED
  BY <1>1, <1>2, <1>4, <1>5 DEF TypeInv, TypeOK

(* Every step of the service keeps the types and the control invariant.    *)
LEMMA TypeStep == TypeInv /\ [Next]_vars => TypeInv'
<1> SUFFICES ASSUME TypeInv, [Next]_vars PROVE TypeInv'
  OBVIOUS
<1>1. ASSUME NEW r \in Requests, Receive(r) PROVE TypeInv'
  BY <1>1, ReceiveSignUpType, ReceiveSignInType, ReceiveProtectedType DEF Receive
<1>2. ASSUME NEW r \in Requests, Step(r) \/ Panic(r) PROVE TypeInv'
  BY <1>2, FindUserType, BeginTxType, SaveUserType, SaveSessionType, WriteUserCreatedType,
     WriteSessionCreatedType, RevokeSessionType, WriteSessionRevokedType, CommitTxType,
     StatementFailsType, CacheSetType, CacheDeleteType, CacheGetType, FindSessionType,
     RefillType, GetMeType
     DEF Step
<1>3. CASE Crash
  BY <1>3, CrashType
<1>4. CASE Tick \/ CacheServer \/ Finished \/ UNCHANGED vars
  BY <1>4, EnvironmentType DEF Finished
<1> QED
  BY <1>1, <1>2, <1>3, <1>4 DEF Next

(* Type correctness: rows, open transactions, cache entries, pending       *)
(* commands and every request's locals keep their types in all behaviours  *)
(* of the four handlers, under all faults.                                 *)
THEOREM TypeCorrect == Spec => []TypeOK
<1>1. TypeInv => TypeOK
  BY DEF TypeInv
<1> QED
  BY <1>1, TypeInit, TypeStep, PTL DEF Spec

(* How far a request has come determines what it is and what it knows.     *)
THEOREM TypeInvariant == Spec => []TypeInv
  BY TypeInit, TypeStep, PTL DEF Spec
=============================================================================
