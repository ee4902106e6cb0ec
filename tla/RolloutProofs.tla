---------------------------- MODULE RolloutProofs ----------------------------
(***************************************************************************)
(* A rolling deployment, for every set of requests and every traffic: it   *)
(* implements the service, so what is proved of the service holds while    *)
(* instances are stopped under it; and no stop makes a good cookie look    *)
(* like a bad one.                                                         *)
(***************************************************************************)
EXTENDS Rollout, AnswerProofs

-----------------------------------------------------------------------------
(* A 401 for a cookie that was issued.                                     *)

Spent(q) ==
    \E s \in sessions : s.hash = HashOf(cookie[q]) /\ (s.revoked # NULL \/ s.expires <= now)

TurnedAway(q) ==
    /\ cookie[q] \in Issued \cup {Forged, None}
    /\ cookie[q] # None => pc[q] # "idle" /\ call[q].kind \in {"signOut", "getMe"}
    /\ status[q] = 401 /\ cookie[q] \in Requests => Spent(q)

TurnedAwayInv == CoreInv /\ AnswerInv /\ \A q \in Requests : TurnedAway(q)

(* A session that is revoked or has expired stays so.                      *)
LEMMA SpentStays ==
    ASSUME CoreInv, [Next]_vars, NEW q \in Requests, cookie'[q] = cookie[q], Spent(q)
    PROVE  Spent(q)'
<1>1. Grows /\ now \in Nat /\ now' \in Nat /\ now <= now'
  BY GrowsStep, TimeStep DEF CoreInv
<1>2. PICK s \in sessions :
        s.hash = HashOf(cookie[q]) /\ (s.revoked # NULL \/ s.expires <= now)
  BY DEF Spent
<1>3. CASE s.revoked # NULL
  BY <1>2, <1>3, FinalStep DEF Spent
<1>4. CASE s.expires <= now
  <2>1. PICK t \in sessions' : t.hash = s.hash /\ t.expires = s.expires
    BY <1>1 DEF Grows, Same
  <2>2. s.expires \in Nat
    BY DEF CoreInv, TypeInv, TypeOK, PostgresTypeOK, Session, Time
  <2>3. t.expires <= now'
    BY <1>1, <1>4, <2>1, <2>2
  <2> QED
    BY <1>2, <2>1, <2>3 DEF Spent
<1> QED
  BY <1>2, <1>3, <1>4

(* The middleware's own answer: the row of an issued token is there, and   *)
(* it is not active.                                                       *)
LEMMA NotFoundIsSpent ==
    ASSUME TurnedAwayInv, NEW q \in Requests, cookie[q] \in Requests,
           {s \in FindByTokenHash(HashOf(cookie[q])) : IsActive(s, now)} = {}
    PROVE  Spent(q)
<1>1. cookie[q] \in Issued /\ AnswerOf(cookie[q])
  BY TokensAssumption DEF TurnedAwayInv, TurnedAway, AnswerInv
<1>2. Durable(cookie[q])
  BY <1>1 DEF AnswerOf, Issued, Is
<1>3. PICK s \in sessions : s.hash = HashOf(cookie[q])
  BY <1>2 DEF Durable
<1>4. ~IsActive(s, now)
  BY <1>3 DEF FindByTokenHash
<1>5. s.expires \in Nat /\ now \in Nat
  BY DEF TurnedAwayInv, CoreInv, TypeInv, TypeOK, PostgresTypeOK, Session, Time, RequestTypeOK
<1> QED
  BY <1>3, <1>4, <1>5 DEF Spent, IsActive

(* A request that does not become a 401 by this step.                      *)
LEMMA NotTurnedAwayNow ==
    ASSUME CoreInv, [Next]_vars, NEW q \in Requests, TurnedAway(q), pc[q] # "idle",
           status'[q] = status[q] \/ status'[q] # 401
    PROVE  TurnedAway(q)'
<1>1. pc'[q] # "idle" /\ call'[q] = call[q] /\ cookie'[q] = cookie[q]
  BY AnsweredStays
<1>2. cookie'[q] \in Issued' \cup {Forged, None}
  BY <1>1, IssuedStep DEF TurnedAway
<1>3. status'[q] = 401 /\ cookie'[q] \in Requests => Spent(q)'
  BY <1>1, SpentStays DEF TurnedAway
<1> QED
  BY <1>1, <1>2, <1>3 DEF TurnedAway

(* One step of the request itself.                                         *)
LEMMA TurnedAwayOwn ==
    ASSUME TurnedAwayInv, [Next]_vars, NEW q \in Requests, Step(q) \/ Panic(q)
    PROVE  TurnedAway(q)'
<1> USE DEF TypeInv, TypeOK, RequestTypeOK
<1>1. /\ CoreInv /\ AnswerInv /\ TurnedAway(q) /\ TypeInv /\ ControlOf(q) /\ AnswerOf(q)
      /\ AnswerOf(q)'
  BY AnswerStep DEF TurnedAwayInv, CoreInv, Control, AnswerInv
<1>2. pc[q] # "idle"
  BY DEF Step, FindUser, BeginTx, SaveUser, SaveSession, WriteUserCreated, WriteSessionCreated,
     RevokeSession, WriteSessionRevoked, CommitTx, StatementFails, CacheSet, CacheDelete, CacheGet,
     FindSession, Refill, GetMe, Panic, InFlight, DbSteps, TxSteps, CacheSteps
<1>3. pc'[q] # "idle" /\ call'[q] = call[q] /\ cookie'[q] = cookie[q]
  BY <1>1, <1>2, AnsweredStays
<1>4. cookie'[q] \in Issued' \cup {Forged, None}
  BY <1>1, <1>3, IssuedStep DEF TurnedAway
<1>5. ASSUME FindUser(q) PROVE TurnedAway(q)'
  BY <1>1, <1>3, <1>4, <1>5, TokensAssumption DEF FindUser, ControlOf, TurnedAway
<1>6. ASSUME FindSession(q) PROVE TurnedAway(q)'
  <2>1. CASE {s \in FindByTokenHash(HashOf(cookie[q])) : IsActive(s, now)} = {}
    <3>1. cookie[q] \in Requests => Spent(q)
      BY <2>1, NotFoundIsSpent
    <3> QED
      BY <1>1, <1>3, <1>4, <3>1, SpentStays DEF TurnedAway
  <2>2. CASE {s \in FindByTokenHash(HashOf(cookie[q])) : IsActive(s, now)} # {}
    <3>1. status' = status
      BY <1>6, <2>2 DEF FindSession, Goto
    <3> QED
      BY <1>1, <1>2, <3>1, NotTurnedAwayNow
  <2> QED
    BY <2>1, <2>2
<1>7. ASSUME GetMe(q) PROVE TurnedAway(q)'
  <2>1. authAt[q] # NULL /\ call[q].kind = "getMe" /\ authAt' = authAt
    BY <1>1, <1>7 DEF GetMe, ControlOf, AnswerOf, LetIn, history
  <2>2. status'[q] # 401
    BY <1>1, <1>3, <2>1 DEF AnswerOf
  <2> QED
    BY <1>1, <1>2, <2>2, NotTurnedAwayNow
<1>8. ASSUME \/ BeginTx(q) \/ SaveUser(q) \/ SaveSession(q) \/ WriteUserCreated(q)
             \/ WriteSessionCreated(q) \/ RevokeSession(q) \/ WriteSessionRevoked(q)
             \/ CommitTx(q) \/ StatementFails(q) \/ CacheSet(q) \/ CacheDelete(q)
             \/ CacheGet(q) \/ Refill(q) \/ Panic(q)
      PROVE  TurnedAway(q)'
  <2>1. status' = status \/ \E code \in {200, 201, 204, 403, 409, 500} : Answer(q, code)
    BY <1>8 DEF BeginTx, SaveUser, SaveSession, WriteUserCreated, WriteSessionCreated,
       RevokeSession, WriteSessionRevoked, CommitTx, StatementFails, CacheSet, CacheDelete,
       CacheGet, Refill, Panic, Abort, Admit, Goto
  <2>2. status'[q] = status[q] \/ status'[q] # 401
    BY <1>1, <2>1 DEF Answer
  <2> QED
    BY <1>1, <1>2, <2>2, NotTurnedAwayNow
<1> QED
  BY <1>5, <1>6, <1>7, <1>8 DEF Step

(* Arrival: only a request without a cookie is answered 401 at once.       *)
LEMMA TurnedAwayReceive ==
    ASSUME TurnedAwayInv, [Next]_vars, NEW q \in Requests, Receive(q)
    PROVE  TurnedAway(q)'
<1> USE DEF TypeInv, TypeOK, RequestTypeOK
<1>1. CoreInv /\ TurnedAway(q) /\ TypeInv /\ Issued \subseteq Issued'
  BY IssuedStep DEF TurnedAwayInv, CoreInv
<1>2. CASE ReceiveSignUp(q) \/ ReceiveSignIn(q)
  <2>1. cookie'[q] = None
    BY <1>1, <1>2 DEF ReceiveSignUp, ReceiveSignIn, TurnedAway
  <2> QED
    BY <2>1, TokensAssumption DEF TurnedAway
<1>3. CASE ReceiveProtected(q)
  <2>1. PICK in \in Traffic[q], token \in Issued \cup {Forged, None} :
          /\ in.kind \in {"signOut", "getMe"}
          /\ call' = [call EXCEPT ![q] = in]
          /\ cookie' = [cookie EXCEPT ![q] = token]
          /\ \/ token = None /\ Answer(q, 401)
             \/ token # None /\ Goto(q, "cacheGet")
    BY <1>3 DEF ReceiveProtected
  <2>2. pc[q] = "idle" /\ status[q] # 401
    BY <1>1, <1>3 DEF ReceiveProtected, CoreInv, LedgerInv, FreshOf, NULL
  <2>3. /\ cookie'[q] = token /\ call'[q] = in
        /\ pc'[q] # "idle" /\ (token # None => status'[q] # 401)
    BY <1>1, <2>1, <2>2 DEF Answer, Goto
  <2> QED
    BY <1>1, <2>1, <2>3, TokensAssumption DEF TurnedAway
<1> QED
  BY <1>2, <1>3 DEF Receive

(* Every step keeps it.                                                    *)
LEMMA TurnedAwayStep == TurnedAwayInv /\ [Next]_vars => TurnedAwayInv'
<1> SUFFICES ASSUME TurnedAwayInv, [Next]_vars PROVE TurnedAwayInv'
  OBVIOUS
<1>1. CoreInv /\ AnswerInv /\ TypeInv
  BY DEF TurnedAwayInv, CoreInv
<1>2. CoreInv' /\ AnswerInv'
  BY <1>1, CoreStep, AnswerStep
<1>3. ASSUME NEW q \in Requests PROVE TurnedAway(q)'
  <2>1. TurnedAway(q)
    BY DEF TurnedAwayInv
  <2>2. ASSUME cookie'[q] = cookie[q], call'[q] = call[q], status'[q] = status[q],
               pc[q] # "idle" => pc'[q] # "idle"
        PROVE  TurnedAway(q)'
    BY <1>1, <2>1, <2>2, IssuedStep, SpentStays DEF TurnedAway
  <2>3. ASSUME NEW r \in Requests, Receive(r) \/ Step(r) \/ Panic(r) PROVE TurnedAway(q)'
    <3>1. CASE q = r
      BY <2>3, <3>1, TurnedAwayReceive, TurnedAwayOwn
    <3>2. CASE q # r
      BY <1>1, <2>2, <2>3, <3>2, OthersUntouched DEF Untouched
    <3> QED
      BY <3>1, <3>2
  <2>4. CASE Crash \/ Tick \/ CacheServer \/ Finished \/ UNCHANGED vars
    <3>1. UNCHANGED <<call, cookie, status>> /\ pc'[q] \in {pc[q], "lost"}
      BY <2>4 DEF Crash, Lose, Tick, CacheServer, Finished, vars, input
    <3> QED
      BY <2>2, <3>1
  <2> QED
    BY <2>3, <2>4 DEF Next
<1> QED
  BY <1>2, <1>3 DEF TurnedAwayInv

(* No cookie that was issued is turned away while its session is good,     *)
(* whatever fails.                                                         *)
THEOREM GoodCookieIsNo401 == Spec => []ShutdownIsNo401
<1>1. Init => TurnedAwayInv
  <2> SUFFICES ASSUME Init PROVE TurnedAwayInv
    OBVIOUS
  <2>1. CoreInv /\ AnswerInv
    BY AnswerInit, TypeInit, EmailInit, SessionInit, LedgerInit DEF CoreInv
  <2>2. \A q \in Requests : TurnedAway(q)
    BY TokensAssumption DEF Init, TurnedAway
  <2> QED
    BY <2>1, <2>2 DEF TurnedAwayInv
<1>2. TurnedAwayInv => ShutdownIsNo401
  BY DEF TurnedAwayInv, TurnedAway, ShutdownIsNo401, Spent
<1> QED
  BY <1>1, <1>2, TurnedAwayStep, PTL DEF Spec

-----------------------------------------------------------------------------
(* The rollout is the service, as soon as calls may fail and processes die.*)

Stoppable == {"db", "cache", "crash"} \subseteq Faults

(* A request of a stopping instance: its calls fail.                       *)
LEMMA CancelledIsAFault ==
    ASSUME Stoppable, NEW r \in Requests, CancelledStep(r)
    PROVE  Step(r)
<1>1. "db" \in Faults /\ "cache" \in Faults
  BY DEF Stoppable
<1>2. CASE CancelledStatement(r)
  BY <1>1, <1>2 DEF CancelledStatement, StatementFails, Step
<1>3. CASE CancelledCommit(r)
  BY <1>1, <1>3 DEF CancelledCommit, CommitTx, Step
<1>4. CASE CancelledCache(r)
  <2>1. UNCHANGED valkey
    BY <1>4 DEF CancelledCache
  <2>2. \A c, at : Send(c, at)
    BY <1>1, <2>1 DEF Send, valkey
  <2>3. CASE pc[r] = "cacheSet"
    BY <1>4, <2>2, <2>3 DEF CancelledCache, CacheSet, WriteThrough, Step
  <2>4. CASE pc[r] = "cacheDelete"
    BY <1>4, <2>2, <2>4 DEF CancelledCache, CacheDelete, Step
  <2>5. CASE pc[r] = "cacheGet"
    BY <1>1, <1>4, <2>5 DEF CancelledCache, CacheGet, history, Step
  <2>6. CASE pc[r] = "refill"
    BY <1>4, <2>1, <2>2, <2>6 DEF CancelledCache, Refill, Step
  <2> QED
    BY <1>4, <2>3, <2>4, <2>5, <2>6 DEF CancelledCache
<1> QED
  BY <1>2, <1>3, <1>4 DEF CancelledStep

(* Every step of the rollout is a step of the service, or none.            *)
LEMMA RolloutStep ==
    ASSUME Stoppable, cancelled \subseteq Requests, [RolloutNext]_rolloutVars
    PROVE  [Next]_vars /\ cancelled' \subseteq Requests
<1>1. CASE \E r \in Requests : Receive(r) /\ UNCHANGED cancelled
  BY <1>1 DEF Next
<1>2. CASE \E r \in Requests : Serve(r) \/ CancelledStep(r)
  BY <1>2, CancelledIsAFault DEF Next, Serve, CancelledStep
<1>3. CASE Shutdown
  BY <1>3 DEF Shutdown
<1>4. CASE Exit
  <2>1. PICK dead \in SUBSET {r \in Draining : ~tx[r].open} : dead # {} /\ Lose(dead)
    BY <1>4 DEF Exit
  <2>2. dead \in SUBSET {r \in Requests : pc[r] \in InFlight}
    BY DEF Draining
  <2>3. Crash
    BY <2>1, <2>2 DEF Crash, Stoppable
  <2> QED
    BY <1>4, <2>3 DEF Next, Exit
<1>5. CASE (Tick \/ CacheServer \/ Finished) /\ UNCHANGED cancelled
  BY <1>5 DEF Next
<1>6. CASE UNCHANGED rolloutVars
  BY <1>6 DEF rolloutVars
<1> QED
  BY <1>1, <1>2, <1>3, <1>4, <1>5, <1>6 DEF RolloutNext

(* Stopping instances adds no behaviour to a service whose statements and  *)
(* cache commands may fail and whose processes may die.                    *)
THEOREM RolloutIsTheService ==
    ASSUME Stoppable
    PROVE  RolloutSpec => Spec
<1>1. RolloutInit => Init /\ cancelled \subseteq Requests
  BY DEF RolloutInit
<1>2. cancelled \subseteq Requests /\ [RolloutNext]_rolloutVars =>
        [Next]_vars /\ (cancelled \subseteq Requests)'
  BY RolloutStep
<1> QED
  BY <1>1, <1>2, PTL DEF RolloutSpec, Spec

(* Whatever instances are stopped and whenever, a success that was         *)
(* answered is durable.                                                    *)
THEOREM RolloutSuccessIsDurable ==
    ASSUME Stoppable
    PROVE  RolloutSpec => []AnswersAreDurable
  BY RolloutIsTheService, SuccessIsDurable, PTL

(* No stopped instance leaves a transaction open, a lock taken or the pool *)
(* overdrawn.                                                              *)
THEOREM RolloutNoLeak ==
    ASSUME Stoppable
    PROVE  RolloutSpec => []NoLeakedTransaction
  BY RolloutIsTheService, NoLeak, PTL

(* A stop is never reported to a client as an invalid session.             *)
THEOREM RolloutIsNo401 ==
    ASSUME Stoppable
    PROVE  RolloutSpec => []ShutdownIsNo401
  BY RolloutIsTheService, GoodCookieIsNo401, PTL

-----------------------------------------------------------------------------
(* For any faults of its own, the rollout is a service with all of them.   *)

(* The connections of the pool are the same, whatever the faults.          *)
LEMMA AnyFreeConn == FreeConn <=> AnyFaults!FreeConn
<1>1. \A S : Cardinality(S) = AnyFaults!Cardinality(S)
  BY DEF Cardinality, AnyFaults!Cardinality
<1> QED
  BY <1>1 DEF FreeConn, AnyFaults!FreeConn

(* Arrival does not depend on the faults.                                  *)
LEMMA AnyReceive ==
    ASSUME NEW r \in Requests, Receive(r)
    PROVE  AnyFaults!Receive(r)
<1> USE DEF Goto, AnyFaults!Goto, Answer, AnyFaults!Answer, NULL, AnyFaults!NULL,
      OriginCheck, AnyFaults!OriginCheck, WellFormed, AnyFaults!WellFormed,
      ValidEmail, AnyFaults!ValidEmail, postgres, AnyFaults!postgres,
      valkey, AnyFaults!valkey, history, AnyFaults!history
<1>1. ReceiveSignUp(r) => AnyFaults!ReceiveSignUp(r)
  BY DEF ReceiveSignUp, AnyFaults!ReceiveSignUp, SignUpRefusal, AnyFaults!SignUpRefusal,
     ValidatePasswordPolicy, AnyFaults!ValidatePasswordPolicy, PasswordMinLen,
     AnyFaults!PasswordMinLen, PasswordMaxLen, AnyFaults!PasswordMaxLen
<1>2. ReceiveSignIn(r) => AnyFaults!ReceiveSignIn(r)
  BY DEF ReceiveSignIn, AnyFaults!ReceiveSignIn, SignInRefusal, AnyFaults!SignInRefusal
<1>3. ReceiveProtected(r) => AnyFaults!ReceiveProtected(r)
  BY DEF ReceiveProtected, AnyFaults!ReceiveProtected, Issued, AnyFaults!Issued, Is,
     AnyFaults!Is, SignOutConfirmed, AnyFaults!SignOutConfirmed
<1> QED
  BY <1>1, <1>2, <1>3 DEF Receive, AnyFaults!Receive

(* A transaction's statements do not depend on the faults.                 *)
LEMMA AnyStatement ==
    ASSUME NEW r \in Requests,
           \/ BeginTx(r) \/ SaveUser(r) \/ SaveSession(r) \/ WriteUserCreated(r)
           \/ WriteSessionCreated(r) \/ RevokeSession(r) \/ WriteSessionRevoked(r)
    PROVE  AnyFaults!Step(r)
<1> USE DEF Goto, AnyFaults!Goto, Answer, AnyFaults!Answer, Abort, AnyFaults!Abort,
      Rollback, AnyFaults!Rollback, NoTx, AnyFaults!NoTx, NoUpdate, AnyFaults!NoUpdate,
      NULL, AnyFaults!NULL, tables, AnyFaults!tables, valkey, AnyFaults!valkey,
      history, AnyFaults!history, input, AnyFaults!input, Is, AnyFaults!Is,
      HashOf, AnyFaults!HashOf, NewEvent, AnyFaults!NewEvent, WriteTx, AnyFaults!WriteTx
<1>1. BeginTx(r) => AnyFaults!BeginTx(r)
  BY AnyFreeConn DEF BeginTx, AnyFaults!BeginTx, Begin, AnyFaults!Begin, FirstStatement,
     AnyFaults!FirstStatement
<1>2. SaveUser(r) => AnyFaults!SaveUser(r)
  BY DEF SaveUser, AnyFaults!SaveUser, InsertUser, AnyFaults!InsertUser, EmailStored,
     AnyFaults!EmailStored, EmailPending, AnyFaults!EmailPending, NewUser, AnyFaults!NewUser,
     NewEmail, AnyFaults!NewEmail, Hash, AnyFaults!Hash
<1>3. SaveSession(r) => AnyFaults!SaveSession(r)
  BY DEF SaveSession, AnyFaults!SaveSession, InsertSession, AnyFaults!InsertSession,
     UserVisible, AnyFaults!UserVisible, NewSession, AnyFaults!NewSession
<1>4. WriteUserCreated(r) => AnyFaults!WriteUserCreated(r)
  BY DEF WriteUserCreated, AnyFaults!WriteUserCreated, TopicUserCreated,
     AnyFaults!TopicUserCreated
<1>5. WriteSessionCreated(r) => AnyFaults!WriteSessionCreated(r)
  BY DEF WriteSessionCreated, AnyFaults!WriteSessionCreated, TopicSessionCreated,
     AnyFaults!TopicSessionCreated
<1>6. RevokeSession(r) => AnyFaults!RevokeSession(r)
  BY DEF RevokeSession, AnyFaults!RevokeSession, RevokeTx, AnyFaults!RevokeTx, SessionLocked,
     AnyFaults!SessionLocked, Coalesce, AnyFaults!Coalesce
<1>7. WriteSessionRevoked(r) => AnyFaults!WriteSessionRevoked(r)
  BY DEF WriteSessionRevoked, AnyFaults!WriteSessionRevoked, TopicSessionRevoked,
     AnyFaults!TopicSessionRevoked
<1> QED
  BY <1>1, <1>2, <1>3, <1>4, <1>5, <1>6, <1>7 DEF AnyFaults!Step

(* A commit or a statement that fails, for a fault or for a stop.          *)
LEMMA AnyFailure ==
    ASSUME NEW r \in Requests,
           \/ CommitTx(r) \/ StatementFails(r)
           \/ CancelledStatement(r) \/ CancelledCommit(r)
    PROVE  AnyFaults!Step(r)
<1> USE DEF Goto, AnyFaults!Goto, Answer, AnyFaults!Answer, Abort, AnyFaults!Abort,
      Rollback, AnyFaults!Rollback, NoTx, AnyFaults!NoTx, NoUpdate, AnyFaults!NoUpdate,
      NULL, AnyFaults!NULL, tables, AnyFaults!tables, valkey, AnyFaults!valkey,
      history, AnyFaults!history, input, AnyFaults!input, Is, AnyFaults!Is,
      FaultKinds, AnyFaults!FaultKinds
<1>1. Commit(r) => AnyFaults!Commit(r)
  BY DEF Commit, AnyFaults!Commit, Updated, AnyFaults!Updated
<1>2. CommitTx(r) \/ CancelledCommit(r) => AnyFaults!CommitTx(r)
  BY <1>1 DEF CommitTx, CancelledCommit, AnyFaults!CommitTx
<1>3. StatementFails(r) \/ CancelledStatement(r) => AnyFaults!StatementFails(r)
  BY DEF StatementFails, CancelledStatement, AnyFaults!StatementFails, DbSteps,
     AnyFaults!DbSteps, TxSteps, AnyFaults!TxSteps
<1> QED
  BY <1>2, <1>3 DEF AnyFaults!Step

(* A command that Valkey may run, lose or run late.                        *)
LEMMA AnySend ==
    ASSUME NEW c, NEW at
    PROVE  /\ Send(c, at) => AnyFaults!Send(c, at)
           /\ UNCHANGED valkey => AnyFaults!Send(c, at)
BY DEF Send, AnyFaults!Send, Run, AnyFaults!Run, Others, AnyFaults!Others, Stored,
   AnyFaults!Stored, NULL, AnyFaults!NULL, valkey, FaultKinds

(* The cache commands, and the answers that follow them.                   *)
LEMMA AnyCache ==
    ASSUME NEW r \in Requests,
           CacheSet(r) \/ CacheDelete(r) \/ CacheGet(r) \/ Refill(r) \/ CancelledCache(r)
    PROVE  AnyFaults!Step(r)
<1> USE DEF Goto, AnyFaults!Goto, Answer, AnyFaults!Answer, postgres, AnyFaults!postgres,
      history, AnyFaults!history, input, AnyFaults!input, Is, AnyFaults!Is,
      HashOf, AnyFaults!HashOf
<1>1. Admit(r) => AnyFaults!Admit(r)
  BY DEF Admit, AnyFaults!Admit, OriginCheck, AnyFaults!OriginCheck
<1>2. \A key, session, user, expires, ttl :
        Set(key, session, user, expires, ttl) = AnyFaults!Set(key, session, user, expires, ttl)
  BY DEF Set, AnyFaults!Set
<1>3. \A key : Delete(key) = AnyFaults!Delete(key)
  BY DEF Delete, AnyFaults!Delete
<1>4. CacheSet(r) \/ (CancelledCache(r) /\ pc[r] = "cacheSet") => AnyFaults!CacheSet(r)
  BY <1>2, AnySend DEF CacheSet, CancelledCache, AnyFaults!CacheSet, WriteThrough,
     AnyFaults!WriteThrough
<1>5. CacheDelete(r) \/ (CancelledCache(r) /\ pc[r] = "cacheDelete") => AnyFaults!CacheDelete(r)
  BY <1>3, AnySend DEF CacheDelete, CancelledCache, AnyFaults!CacheDelete
<1>6. Hits(r) = AnyFaults!Hits(r)
  BY DEF Hits, AnyFaults!Hits, Live, AnyFaults!Live, NULL, AnyFaults!NULL
<1>7. CacheGet(r) => AnyFaults!CacheGet(r)
  BY <1>1, <1>6, FaultsAssumption DEF CacheGet, AnyFaults!CacheGet, Identify,
     AnyFaults!Identify, valkey, AnyFaults!valkey, FaultKinds
<1>8. CancelledCache(r) /\ pc[r] = "cacheGet" => AnyFaults!CacheGet(r)
  BY DEF CancelledCache, AnyFaults!CacheGet, valkey, AnyFaults!valkey, FaultKinds
<1>9. Refill(r) \/ (CancelledCache(r) /\ pc[r] = "refill") => AnyFaults!Refill(r)
  BY <1>1, <1>2, AnySend DEF Refill, CancelledCache, AnyFaults!Refill, valkey, AnyFaults!valkey
<1> QED
  BY <1>4, <1>5, <1>7, <1>8, <1>9 DEF AnyFaults!Step, CancelledCache

(* The queries outside a transaction.                                      *)
LEMMA AnyQuery ==
    ASSUME NEW r \in Requests, FindUser(r) \/ FindSession(r) \/ GetMe(r)
    PROVE  AnyFaults!Step(r)
<1> USE DEF Goto, AnyFaults!Goto, Answer, AnyFaults!Answer, postgres, AnyFaults!postgres,
      valkey, AnyFaults!valkey, history, AnyFaults!history, input, AnyFaults!input
<1>1. FindUser(r) => AnyFaults!FindUser(r)
  BY AnyFreeConn DEF FindUser, AnyFaults!FindUser, FindByEmail, AnyFaults!FindByEmail, NewEmail,
     AnyFaults!NewEmail, Verify, AnyFaults!Verify, Hash, AnyFaults!Hash, PasswordMaxLen,
     AnyFaults!PasswordMaxLen
<1>2. FindSession(r) => AnyFaults!FindSession(r)
  BY AnyFreeConn DEF FindSession, AnyFaults!FindSession, FindByTokenHash, AnyFaults!FindByTokenHash,
     HashOf, AnyFaults!HashOf, IsActive, AnyFaults!IsActive, NULL, AnyFaults!NULL,
     Identify, AnyFaults!Identify
<1>3. GetMe(r) => AnyFaults!GetMe(r)
  BY AnyFreeConn DEF GetMe, AnyFaults!GetMe, FindByID, AnyFaults!FindByID
<1> QED
  BY <1>1, <1>2, <1>3 DEF AnyFaults!Step

(* The environment, and a process that exits.                              *)
LEMMA AnyEnvironment ==
    ASSUME cancelled \subseteq Requests, Exit \/ Tick \/ CacheServer \/ Finished
    PROVE  AnyFaults!Next
<1> USE DEF postgres, AnyFaults!postgres, tables, AnyFaults!tables, valkey, AnyFaults!valkey,
      history, AnyFaults!history, input, AnyFaults!input
<1>1. ASSUME Exit PROVE AnyFaults!Crash
  <2>1. PICK dead \in SUBSET {r \in Draining : ~tx[r].open} : dead # {} /\ Lose(dead)
    BY <1>1 DEF Exit
  <2>2. dead \in SUBSET {r \in Requests : pc[r] \in AnyFaults!InFlight}
    BY DEF Draining, InFlight, AnyFaults!InFlight, DbSteps, AnyFaults!DbSteps, TxSteps,
       AnyFaults!TxSteps, CacheSteps, AnyFaults!CacheSteps
  <2>3. AnyFaults!Lose(dead)
    BY <2>1 DEF Lose, AnyFaults!Lose, NoTx, AnyFaults!NoTx, NoUpdate, AnyFaults!NoUpdate,
       NULL, AnyFaults!NULL
  <2> QED
    BY <2>1, <2>2, <2>3 DEF AnyFaults!Crash, FaultKinds
<1>2. Tick => AnyFaults!Tick
  BY DEF Tick, AnyFaults!Tick
<1>3. CacheServer => AnyFaults!CacheServer
  <2>1. Evict => AnyFaults!Evict
    BY DEF Evict, AnyFaults!Evict, FaultKinds
  <2>2. ApplyLate(now) => AnyFaults!ApplyLate(now)
    BY DEF ApplyLate, AnyFaults!ApplyLate, Run, AnyFaults!Run, Others, AnyFaults!Others, Stored,
       AnyFaults!Stored, NULL, AnyFaults!NULL
  <2> QED
    BY <2>1, <2>2 DEF CacheServer, AnyFaults!CacheServer
<1>4. Finished => AnyFaults!Finished
  BY DEF Finished, AnyFaults!Finished, Ended, AnyFaults!Ended, vars, AnyFaults!vars
<1> QED
  BY <1>1, <1>2, <1>3, <1>4 DEF AnyFaults!Next

(* A rolling deployment implements the service with all its faults.        *)
THEOREM RolloutImplements == RolloutSpec => ImplementsIdentity
<1>1. RolloutInit => AnyFaults!Init /\ cancelled \subseteq Requests
  BY DEF RolloutInit, Init, AnyFaults!Init, PostgresInit, AnyFaults!PostgresInit, ValkeyInit,
     AnyFaults!ValkeyInit, NoTx, AnyFaults!NoTx, NoUpdate, AnyFaults!NoUpdate, NULL,
     AnyFaults!NULL, NoWork, AnyFaults!NoWork, Unsent, AnyFaults!Unsent
<1>2. cancelled \subseteq Requests /\ [RolloutNext]_rolloutVars =>
        [AnyFaults!Next]_(AnyFaults!vars) /\ (cancelled \subseteq Requests)'
  <2> SUFFICES ASSUME cancelled \subseteq Requests, [RolloutNext]_rolloutVars
               PROVE  [AnyFaults!Next]_(AnyFaults!vars) /\ cancelled' \subseteq Requests
    OBVIOUS
  <2>1. ASSUME NEW r \in Requests, Receive(r) /\ UNCHANGED cancelled PROVE AnyFaults!Next
    BY <2>1, AnyReceive DEF AnyFaults!Next
  <2>2. ASSUME NEW r \in Requests, Serve(r) \/ CancelledStep(r)
        PROVE  AnyFaults!Next /\ cancelled' = cancelled
    <3>1. Step(r) => AnyFaults!Step(r)
      BY AnyStatement, AnyFailure, AnyCache, AnyQuery DEF Step
    <3>2. CancelledStep(r) => AnyFaults!Step(r)
      BY AnyFailure, AnyCache DEF CancelledStep
    <3> QED
      BY <2>2, <3>1, <3>2 DEF Serve, CancelledStep, AnyFaults!Next
  <2>3. CASE Shutdown \/ UNCHANGED rolloutVars
    <3>1. UNCHANGED AnyFaults!vars
      BY <2>3 DEF Shutdown, rolloutVars, vars, AnyFaults!vars, postgres, AnyFaults!postgres,
         valkey, AnyFaults!valkey, history, AnyFaults!history, input, AnyFaults!input
    <3> QED
      BY <2>3, <3>1 DEF Shutdown, rolloutVars
  <2>4. CASE Exit \/ ((Tick \/ CacheServer \/ Finished) /\ UNCHANGED cancelled)
    BY <2>4, AnyEnvironment DEF Exit
  <2> QED
    BY <2>1, <2>2, <2>3, <2>4 DEF RolloutNext
<1> QED
  BY <1>1, <1>2, PTL DEF RolloutSpec, ImplementsIdentity, AnyFaults!Spec
=============================================================================
