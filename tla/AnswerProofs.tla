---------------------------- MODULE AnswerProofs ----------------------------
(***************************************************************************)
(* What a response says is true, for every set of requests, every traffic  *)
(* and every combination of faults: a success is durable, a refusal has    *)
(* left nothing behind, a 409 names an account that exists, and profile/me *)
(* serves everyone the middleware let through.                             *)
(*                                                                         *)
(* A response is computed calls after the state it speaks of was read or   *)
(* written, so AnswerOf says what each handler may rely on meanwhile.      *)
(***************************************************************************)
EXTENDS LedgerProofs

Taken(q) == \E u \in users : u.email.addr = call[q].email.addr /\ u.id # q

Durable(q) ==
    \E u \in users, s \in sessions :
        /\ u.email.addr = call[q].email.addr
        /\ u.hash = Hash(call[q].password)
        /\ s.id = q /\ s.hash = HashOf(q) /\ s.user = u.id
        /\ call[q].kind = "signUp" => u.id = q

SignedOff(q) == \E s \in sessions : s.hash = HashOf(cookie[q]) /\ s.revoked # NULL

LetIn == {"begin", "refill", "getMe", "cacheDelete"} \cup TxSteps

AnswerOf(q) ==
    /\ status[q] = 409 => Taken(q)
    /\ \/ pc[q] = "cacheSet"
       \/ status[q] \in {200, 201} /\ call[q].kind \in {"signUp", "signIn"}
       => Durable(q)
    /\ pc[q] = "cacheDelete" \/ status[q] = 204 => SignedOff(q)
    /\ pc[q] \in LetIn /\ call[q].kind \in {"signOut", "getMe"} => authAt[q] # NULL
    /\ pc[q] \in {"idle", "findUser", "cacheGet", "findSession"} => authAt[q] = NULL
    /\ authAt[q] # NULL /\ call[q].kind = "getMe" => status[q] # 401

AnswerInv == \A q \in Requests : AnswerOf(q)

-----------------------------------------------------------------------------
(* What is durable stays durable.                                          *)

(* An account, its session and a revocation outlive every later step.      *)
LEMMA DurableStays ==
    ASSUME CoreInv, [Next]_vars, NEW q \in Requests,
           call'[q] = call[q], cookie'[q] = cookie[q]
    PROVE  /\ Taken(q) => Taken(q)'
           /\ Durable(q) => Durable(q)'
           /\ SignedOff(q) => SignedOff(q)'
<1>1. Grows
  BY GrowsStep DEF CoreInv
<1>2. users \subseteq users' /\ \A s \in sessions : s.revoked # NULL => s \in sessions'
  BY FinalStep
<1>3. Taken(q) => Taken(q)'
  BY <1>2 DEF Taken
<1>4. Durable(q) => Durable(q)'
  BY <1>1 DEF Durable, Grows, Same
<1>5. SignedOff(q) => SignedOff(q)'
  BY <1>2 DEF SignedOff
<1> QED
  BY <1>3, <1>4, <1>5

(* Other requests' steps leave what this one may rely on true.             *)
LEMMA AnswerFrame ==
    ASSUME CoreInv, [Next]_vars, NEW q \in Requests, AnswerOf(q), Untouched(q)
    PROVE  AnswerOf(q)'
<1>1. call'[q] = call[q] /\ cookie'[q] = cookie[q]
  BY DEF Untouched
<1> QED
  BY <1>1, DurableStays DEF AnswerOf, Untouched

(* A request that ends with a plain error, or is lost.                     *)
LEMMA AnswerPlain ==
    ASSUME CoreInv, [Next]_vars, NEW q \in Requests, AnswerOf(q), pc'[q] \in Ended,
           status'[q] \in {NULL, 400, 403, 500}
    PROVE  AnswerOf(q)'
BY DEF AnswerOf, Ended, LetIn, TxSteps, NULL

-----------------------------------------------------------------------------
(* The steps of a request.                                                 *)

(* Arrival: at worst a refusal.                                            *)
LEMMA AnswerReceive ==
    ASSUME CoreInv, NEW r \in Requests, AnswerOf(r), Receive(r)
    PROVE  AnswerOf(r)'
<1> USE DEF CoreInv, TypeInv, TypeOK, RequestTypeOK
<1>1. pc[r] = "idle" /\ authAt'[r] = authAt[r]
  BY DEF Receive, ReceiveSignUp, ReceiveSignIn, ReceiveProtected, history
<1>2. status[r] = NULL /\ authAt'[r] = NULL
  BY <1>1 DEF LedgerInv, FreshOf, AnswerOf
<1>3. /\ pc'[r] \in {"done", "begin", "findUser", "cacheGet"}
      /\ pc'[r] = "begin" => call'[r].kind = "signUp"
      /\ status'[r] \in {NULL, 400, 401, 403}
  <2>1. CASE ReceiveSignUp(r)
    BY <1>2, <2>1 DEF ReceiveSignUp, SignUpRefusal, Goto, Answer, NULL
  <2>2. CASE ReceiveSignIn(r)
    BY <1>2, <2>2 DEF ReceiveSignIn, SignInRefusal, Goto, Answer, NULL
  <2>3. CASE ReceiveProtected(r)
    BY <1>2, <2>3 DEF ReceiveProtected, Goto, Answer, NULL
  <2> QED
    BY <2>1, <2>2, <2>3 DEF Receive
<1> QED
  BY <1>2, <1>3 DEF AnswerOf, LetIn, TxSteps, NULL

(* Inside a handler: nothing is answered yet.                              *)
LEMMA AnswerWorking ==
    ASSUME CoreInv, NEW r \in Requests, AnswerOf(r),
           \/ FindUser(r) \/ BeginTx(r) \/ SaveSession(r) \/ WriteUserCreated(r)
           \/ WriteSessionCreated(r) \/ RevokeSession(r) \/ WriteSessionRevoked(r)
    PROVE  AnswerOf(r)'
<1> USE DEF CoreInv, TypeInv, TypeOK, RequestTypeOK
<1>1. UNCHANGED <<call, authAt>> /\ ControlOf(r)
  BY DEF FindUser, BeginTx, SaveSession, WriteUserCreated, WriteSessionCreated, RevokeSession,
     WriteSessionRevoked, input, history, Control
<1>2. status[r] = NULL
  BY DEF FindUser, BeginTx, SaveSession, WriteUserCreated, WriteSessionCreated, RevokeSession,
     WriteSessionRevoked, LedgerInv, FreshOf
<1>3. CASE FindUser(r)
  <2>1. /\ call[r].kind = "signIn" /\ pc'[r] \in {"begin", "done"}
        /\ status'[r] \in {NULL, 401}
    BY <1>1, <1>2, <1>3 DEF FindUser, ControlOf, Goto, Answer
  <2> QED
    BY <1>1, <2>1 DEF AnswerOf, LetIn, TxSteps, NULL
<1>4. CASE ~FindUser(r)
  <2>1. pc[r] \in LetIn
    BY <1>4 DEF BeginTx, SaveSession, WriteUserCreated, WriteSessionCreated, RevokeSession,
       WriteSessionRevoked, LetIn, TxSteps
  <2>2. pc'[r] \in TxSteps /\ status'[r] = NULL
    <3>1. CASE BeginTx(r)
      BY <1>1, <1>2, <3>1 DEF BeginTx, FirstStatement, ControlOf, Input, Kinds, Goto, TxSteps
    <3>2. CASE ~BeginTx(r)
      BY <1>2, <1>4, <3>2 DEF SaveSession, WriteUserCreated, WriteSessionCreated,
         RevokeSession, WriteSessionRevoked, Goto, TxSteps
    <3> QED
      BY <3>1, <3>2
  <2> QED
    BY <1>1, <2>1, <2>2 DEF AnswerOf, LetIn, TxSteps, NULL
<1> QED
  BY <1>3, <1>4

(* The insert of a user: 409 only for an address that is stored, and by    *)
(* another request, for this one has written nothing yet.                  *)
LEMMA AnswerSaveUser ==
    ASSUME CoreInv, NEW r \in Requests, AnswerOf(r), SaveUser(r)
    PROVE  AnswerOf(r)'
<1> USE DEF CoreInv, TypeInv, TypeOK, RequestTypeOK
<1>1. /\ UNCHANGED <<call, authAt>> /\ users' = users
      /\ pc[r] = "saveUser" /\ call[r].kind = "signUp" /\ FreshOf(r)
  BY DEF SaveUser, InsertUser, Abort, Rollback, tables, input, history, Control, ControlOf,
     LedgerInv
<1>2. CASE Goto(r, "saveSession")
  BY <1>1, <1>2 DEF Goto, AnswerOf, LetIn, TxSteps, NULL, FreshOf
<1>3. CASE EmailStored(NewEmail(call[r].email)) /\ Abort(r, 409)
  <2>1. PICK u \in users : u.email = NewEmail(call[r].email)
    BY <1>3 DEF EmailStored
  <2>2. u.id # r
    BY <1>1 DEF FreshOf, Unwritten, InFlight, DbSteps, TxSteps
  <2>3. Taken(r)'
    BY <1>1, <2>1, <2>2 DEF Taken, NewEmail
  <2>4. pc'[r] = "done" /\ status'[r] = 409
    BY <1>3 DEF Abort, Answer, Statuses
  <2> QED
    BY <1>1, <2>3, <2>4 DEF AnswerOf, LetIn, TxSteps
<1> QED
  BY <1>2, <1>3 DEF SaveUser, NewUser

(* Commit: what the answer will say is now in the tables.                  *)
LEMMA AnswerCommit ==
    ASSUME CoreInv, [Next]_vars, NEW r \in Requests, AnswerOf(r), CommitTx(r)
    PROVE  AnswerOf(r)'
<1> USE DEF CoreInv, TypeInv, TypeOK, RequestTypeOK
<1>1. /\ UNCHANGED <<call, cookie, authAt, work>> /\ pc[r] = "commit" /\ status[r] = NULL
      /\ ControlOf(r) /\ OwnerOf(r) /\ Rows /\ HeldOf(r)
  BY DEF CommitTx, input, history, Control, LedgerInv, FreshOf, SessionInv, Held
<1>2. CASE Answer(r, 500)
  BY <1>2, AnswerPlain DEF Answer, Ended
<1>3. CASE Commit(r) /\ call[r].kind # "signOut" /\ Goto(r, "cacheSet")
  <2>1. pc'[r] = "cacheSet" /\ status'[r] = NULL
    BY <1>1, <1>3 DEF Goto
  <2>2. Outcome(r)
    BY <1>1, <1>3, CommitOutcome
  <2>3. SessionOf(r) \in sessions'
    BY <1>3, <2>2 DEF Outcome, Registers, OpensSession
  <2>4. SessionOf(r).id = r /\ SessionOf(r).hash = HashOf(r) /\ SessionOf(r).user = work[r].user
    BY DEF SessionOf, NewSession
  <2>5. CASE call[r].kind = "signUp" /\ Registers(r)
    <3>1. UserOf(r) \in users' /\ work[r].user = r
      BY <1>1, <2>5 DEF Registers, OwnerOf, Opening, TxSteps
    <3>2. /\ UserOf(r).email.addr = call[r].email.addr
          /\ UserOf(r).hash = Hash(call[r].password) /\ UserOf(r).id = r
      BY DEF UserOf, NewUser, NewEmail
    <3> QED
      BY <1>1, <2>1, <2>3, <2>4, <3>1, <3>2 DEF AnswerOf, Durable, LetIn, TxSteps, NULL
  <2>6. CASE call[r].kind = "signIn" /\ OpensSession(r)
    <3>1. PICK u \in users' : /\ u.id = work[r].user
                              /\ u.email.addr = call[r].email.addr
                              /\ u.hash = Hash(call[r].password)
      BY <1>1, <2>6 DEF OpensSession, OwnerOf, Opening, TxSteps
    <3> QED
      BY <1>1, <2>1, <2>3, <2>4, <2>6, <3>1 DEF AnswerOf, Durable, LetIn, TxSteps, NULL
  <2> QED
    BY <1>3, <2>2, <2>5, <2>6 DEF Outcome
<1>4. CASE Commit(r) /\ call[r].kind = "signOut" /\ Goto(r, "cacheDelete")
  <2>1. pc'[r] = "cacheDelete" /\ status'[r] = NULL
    BY <1>1, <1>4 DEF Goto
  <2>2. authAt[r] # NULL
    BY <1>1, <1>4 DEF AnswerOf, LetIn, TxSteps
  <2>3. PICK p \in sessions : p.hash = HashOf(cookie[r]) /\ p.id = work[r].session
    BY <1>1, <2>2 DEF HeldOf, Backed
  <2>4. PICK s \in sessions, t \in Session : Revokes(r, s, t)
    BY <1>1, <1>4, CommitOutcome DEF Outcome
  <2>5. s = p
    BY <1>1, <2>3, <2>4 DEF Rows, Revokes
  <2>6. t \in sessions' /\ t.revoked # NULL /\ t.hash = HashOf(cookie[r])
    BY <2>3, <2>4, <2>5 DEF Revokes, Same
  <2> QED
    BY <1>1, <2>1, <2>2, <2>6 DEF AnswerOf, SignedOff, LetIn, TxSteps, NULL
<1> QED
  BY <1>2, <1>3, <1>4 DEF CommitTx, Abort, Is

(* The last call of a success.                                             *)
LEMMA AnswerSuccess ==
    ASSUME CoreInv, [Next]_vars, NEW r \in Requests, AnswerOf(r), CacheSet(r) \/ CacheDelete(r)
    PROVE  AnswerOf(r)'
<1> USE DEF CoreInv, TypeInv, TypeOK, RequestTypeOK
<1>1. UNCHANGED <<call, cookie, authAt>> /\ ControlOf(r)
  BY DEF CacheSet, CacheDelete, input, history, Control
<1>2. CASE CacheSet(r)
  <2>1. Durable(r)'
    BY <1>1, <1>2, DurableStays DEF CacheSet, AnswerOf
  <2>2. /\ pc'[r] = "done" /\ status'[r] \in {200, 201}
        /\ call[r].kind \in {"signUp", "signIn"}
    BY <1>1, <1>2 DEF CacheSet, Answer, ControlOf
  <2> QED
    BY <1>1, <2>1, <2>2 DEF AnswerOf, LetIn, TxSteps
<1>3. CASE CacheDelete(r)
  <2>1. SignedOff(r)'
    BY <1>1, <1>3, DurableStays DEF CacheDelete, AnswerOf
  <2>2. pc'[r] = "done" /\ status'[r] = 204
    BY <1>3 DEF CacheDelete, Answer
  <2> QED
    BY <1>1, <2>1, <2>2 DEF AnswerOf, LetIn, TxSteps
<1> QED
  BY <1>2, <1>3

(* The session middleware, and profile/me behind it.                       *)
LEMMA AnswerMiddleware ==
    ASSUME CoreInv, NEW r \in Requests, AnswerOf(r),
           CacheGet(r) \/ FindSession(r) \/ Refill(r) \/ GetMe(r)
    PROVE  AnswerOf(r)'
<1> USE DEF CoreInv, TypeInv, TypeOK, RequestTypeOK
<1>1. /\ UNCHANGED call /\ status[r] = NULL /\ ControlOf(r) /\ now # NULL /\ HeldOf(r)
      /\ ForeignKey
  BY DEF CacheGet, FindSession, Refill, GetMe, input, Control, LedgerInv, FreshOf, SessionInv,
     Held
<1>2. CASE GetMe(r)
  <2>1. pc[r] = "getMe" /\ call[r].kind = "getMe" /\ pc'[r] = "done" /\ UNCHANGED authAt
    BY <1>1, <1>2 DEF GetMe, ControlOf, Answer, history
  <2>2. authAt[r] # NULL
    BY <2>1 DEF AnswerOf, LetIn
  <2>3. FindByID(work[r].user) # {}
    BY <1>1, <2>2 DEF HeldOf, Backed, ForeignKey, FindByID
  <2>4. status'[r] = 200
    BY <1>2, <2>3 DEF GetMe, Answer
  <2> QED
    BY <1>1, <2>1, <2>4 DEF AnswerOf, LetIn, TxSteps
<1>3. CASE authAt'[r] # NULL /\ Admit(r)
  <2>1. /\ pc'[r] \in {"getMe", "begin", "done"} /\ status'[r] \in {NULL, 403}
    BY <1>1, <1>3 DEF Admit, Goto, Answer
  <2> QED
    BY <1>1, <1>3, <2>1 DEF AnswerOf, LetIn, TxSteps, NULL
<1>4. CASE authAt'[r] # NULL /\ Goto(r, "refill")
  BY <1>1, <1>4 DEF Goto, AnswerOf, LetIn, TxSteps, NULL
<1>5. CASE /\ authAt' = authAt /\ authAt[r] = NULL
           /\ Goto(r, "findSession") \/ Answer(r, 401)
  <2>1. /\ pc'[r] \in {"findSession", "done"} /\ status'[r] \in {NULL, 401}
    BY <1>1, <1>5 DEF Goto, Answer
  <2> QED
    BY <1>1, <1>5, <2>1 DEF AnswerOf, LetIn, TxSteps, NULL
<1>6. \A session, user, expires : Identify(r, session, user, expires) => authAt'[r] = now
  BY DEF Identify
<1>7. CASE CacheGet(r)
  <2>1. authAt[r] = NULL
    BY <1>7 DEF CacheGet, AnswerOf
  <2> QED
    BY <1>1, <1>3, <1>5, <1>6, <1>7, <2>1 DEF CacheGet
<1>8. CASE FindSession(r)
  <2>1. authAt[r] = NULL
    BY <1>8 DEF FindSession, AnswerOf
  <2> QED
    BY <1>1, <1>4, <1>5, <1>6, <1>8, <2>1 DEF FindSession
<1>9. CASE Refill(r)
  BY <1>1, <1>3, <1>9 DEF Refill, HeldOf, history
<1> QED
  BY <1>2, <1>7, <1>8, <1>9

(* Every step keeps every answer true.                                     *)
LEMMA AnswerStep == CoreInv /\ AnswerInv /\ [Next]_vars => AnswerInv'
<1> SUFFICES ASSUME CoreInv, AnswerInv, [Next]_vars, NEW q \in Requests PROVE AnswerOf(q)'
  BY DEF AnswerInv
<1>1. AnswerOf(q) /\ TypeInv
  BY DEF AnswerInv, CoreInv
<1>2. ASSUME NEW r \in Requests, Receive(r) \/ Step(r) \/ Panic(r) PROVE AnswerOf(q)'
  <2>1. CASE q # r
    BY <1>1, <1>2, <2>1, OthersUntouched, AnswerFrame
  <2>2. CASE q = r /\ (StatementFails(r) \/ Panic(r))
    <3>1. pc'[q] = "done" /\ status'[q] = 500
      BY <1>1, <2>2 DEF StatementFails, Panic, Abort, Answer, TypeInv, TypeOK, RequestTypeOK
    <3> QED
      BY <1>1, <3>1, AnswerPlain DEF Ended
  <2> QED
    BY <1>1, <1>2, <2>1, <2>2, AnswerReceive, AnswerWorking, AnswerSaveUser, AnswerCommit,
       AnswerSuccess, AnswerMiddleware DEF Step
<1>3. CASE Crash
  <2>1. UNCHANGED <<work, cookie, call, status, authAt>>
    BY <1>3 DEF Crash, Lose, input, history
  <2>2. \/ pc'[q] = pc[q] /\ tx'[q] = tx[q]
        \/ pc'[q] = "lost" /\ pc[q] # "done"
    BY <1>3 DEF Crash, Lose, InFlight, DbSteps, CacheSteps, TxSteps
  <2>3. pc[q] # "done" => status[q] = NULL
    BY DEF CoreInv, LedgerInv, FreshOf
  <2> QED
    BY <1>1, <2>1, <2>2, <2>3, AnswerFrame, AnswerPlain DEF Untouched, Ended
<1>4. CASE Tick \/ CacheServer \/ Finished \/ UNCHANGED vars
  <2>1. UNCHANGED <<tx, pc, work, cookie, call, status, authAt>>
    BY <1>4 DEF Tick, CacheServer, Finished, vars, postgres, input, history
  <2> QED
    BY <1>1, <2>1, AnswerFrame DEF Untouched
<1> QED
  BY <1>2, <1>3, <1>4 DEF Next

(* Nothing has been answered before anything was asked.                    *)
LEMMA AnswerInit == Init => AnswerInv
BY DEF Init, AnswerInv, AnswerOf, LetIn, TxSteps, NULL

(* What every handler may rely on, and every answer says, is true.         *)
THEOREM AnswerInvariant == Spec => [](CoreInv /\ AnswerInv)
  BY AnswerInit, AnswerStep, CoreInvariant, PTL DEF Spec

(* 200, 201 and 204 are answered only for what Postgres holds, and hold    *)
(* ever after.                                                             *)
THEOREM SuccessIsDurable == Spec => []AnswersAreDurable
<1>1. AnswerInv => AnswersAreDurable
  BY DEF AnswerInv, AnswerOf, Durable, SignedOff, AnswersAreDurable
<1> QED
  BY <1>1, AnswerInvariant, PTL

(* A request refused with a 4xx code has no user, session or event.        *)
THEOREM RefusalIsClean == Spec => []RefusalLeavesNothing
<1>1. CoreInv => RefusalLeavesNothing
  BY DEF CoreInv, LedgerInv, FreshOf, Unwritten, Refusals, RefusalLeavesNothing
<1> QED
  BY <1>1, CoreInvariant, PTL

(* 409 email_taken is answered only for an address of another account.     *)
THEOREM TakenIsTaken == Spec => []EmailTakenIsTrue
<1>1. AnswerInv => EmailTakenIsTrue
  BY DEF AnswerInv, AnswerOf, Taken, EmailTakenIsTrue
<1> QED
  BY <1>1, AnswerInvariant, PTL

(* profile/me never answers 401 to a caller the middleware let through.    *)
THEOREM MeIsServed == Spec => []AuthenticatedIsServed
<1>1. AnswerInv => AuthenticatedIsServed
  BY DEF AnswerInv, AnswerOf, AuthenticatedIsServed
<1> QED
  BY <1>1, AnswerInvariant, PTL

-----------------------------------------------------------------------------
(* Sign-out, with a Valkey that answers every command and loses no entry.  *)
(*                                                                         *)
(* The cache then covers every session a client may present, so nobody     *)
(* looks an active session up in Postgres, nobody refills, and the DEL of  *)
(* a sign-out is the last word on its key.                                 *)

CacheIsReliable == Faults \cap {"cache", "late", "evict"} = {}

Covers(e, s) ==
    /\ e.key = s.hash /\ e.payload.expires = s.expires
    /\ e.dies = NULL \/ e.dies >= s.expires

Covered ==
    \A s \in sessions : s.id \in Issued /\ s.revoked = NULL => \E e \in cache : Covers(e, s)

SignOutOf(q) ==
    /\ cookie[q] \in Issued \cup {Forged, None}
    /\ pc[q] # "refill"
    /\ pc[q] = "findSession" =>
        \A s \in sessions : s.hash = HashOf(cookie[q]) => ~IsActive(s, now)
    /\ call[q].kind = "signOut" /\ status[q] = 204 =>
        \A e \in cache : e.key # HashOf(cookie[q])
    /\ q \in signedOut => pc[q] # "idle" /\ SignOutConfirmed(cookie[q]) /\ authAt[q] = NULL

SignOutInv == CoreInv /\ AnswerInv /\ late = {} /\ Covered /\ \A q \in Requests : SignOutOf(q)

(* A request keeps what it was sent with; an answer is never changed.      *)
LEMMA AnsweredStays ==
    ASSUME CoreInv, [Next]_vars, NEW q \in Requests
    PROVE  /\ pc[q] # "idle" => pc'[q] # "idle" /\ call'[q] = call[q] /\ cookie'[q] = cookie[q]
           /\ status[q] # NULL => pc[q] = "done" /\ status'[q] = status[q]
<1>1. TypeInv /\ FreshOf(q)
  BY DEF CoreInv, LedgerInv
<1>2. status[q] # NULL => pc[q] = "done"
  BY <1>1 DEF FreshOf
<1>3. ASSUME NEW r \in Requests, Receive(r) \/ Step(r) \/ Panic(r), pc[q] # "idle"
      PROVE  /\ pc'[q] # "idle" /\ call'[q] = call[q] /\ cookie'[q] = cookie[q]
             /\ pc[q] = "done" => status'[q] = status[q]
  <2>1. CASE q # r
    BY <1>1, <1>3, <2>1, OthersUntouched DEF Untouched
  <2>2. CASE q = r
    <3> USE DEF TypeInv, TypeOK, RequestTypeOK
    <3>1. ~Receive(r)
      BY <1>3, <2>2 DEF Receive, ReceiveSignUp, ReceiveSignIn, ReceiveProtected
    <3>2. CASE FindUser(r) \/ CacheGet(r) \/ FindSession(r) \/ Refill(r) \/ GetMe(r)
      BY <1>1, <2>2, <3>2 DEF FindUser, CacheGet, FindSession, Refill, GetMe, Admit, Goto, Answer,
         input
    <3>3. CASE \/ BeginTx(r) \/ SaveUser(r) \/ SaveSession(r) \/ WriteUserCreated(r)
               \/ WriteSessionCreated(r) \/ RevokeSession(r) \/ WriteSessionRevoked(r)
      <4>1. pc[r] # "done" /\ UNCHANGED <<call, cookie>>
        BY <3>3 DEF BeginTx, SaveUser, SaveSession, WriteUserCreated, WriteSessionCreated,
           RevokeSession, WriteSessionRevoked, input
      <4>2. pc'[r] # "idle"
        <5>1. CASE BeginTx(r)
          BY <1>1, <5>1 DEF BeginTx, FirstStatement, Control, ControlOf, Input, Kinds, Goto
        <5>2. CASE ~BeginTx(r)
          BY <1>1, <3>3, <5>2 DEF SaveUser, SaveSession, WriteUserCreated,
             WriteSessionCreated, RevokeSession, WriteSessionRevoked, Abort, Goto, Answer
        <5> QED
          BY <5>1, <5>2
      <4> QED
        BY <2>2, <4>1, <4>2
    <3>4. CASE CacheSet(r) \/ CacheDelete(r) \/ CommitTx(r) \/ StatementFails(r) \/ Panic(r)
      BY <1>1, <2>2, <3>4 DEF CacheSet, CacheDelete, CommitTx, StatementFails, Panic, Abort,
         Goto, Answer, input, InFlight, DbSteps, CacheSteps, TxSteps
    <3> QED
      BY <1>3, <3>1, <3>2, <3>3, <3>4 DEF Step
  <2> QED
    BY <2>1, <2>2
<1>4. CASE Crash \/ Tick \/ CacheServer \/ Finished \/ UNCHANGED vars
  <2>1. UNCHANGED <<call, cookie, status>> /\ pc'[q] \in {pc[q], "lost"}
    BY <1>4 DEF Crash, Lose, Tick, CacheServer, Finished, vars, input
  <2> QED
    BY <1>2, <2>1
<1> QED
  BY <1>2, <1>3, <1>4 DEF Next

(* A token is issued by the answer that ends CacheSet, and for ever.       *)
LEMMA IssuedStep ==
    ASSUME CoreInv, [Next]_vars
    PROVE  /\ Issued \subseteq Issued'
           /\ \A q \in Issued' \ Issued : CacheSet(q)
<1>1. TypeInv /\ \A q \in Requests : FreshOf(q)
  BY DEF CoreInv, LedgerInv
<1>2. Issued \subseteq Issued'
  BY AnsweredStays DEF Issued, Is, NULL
<1>3. ASSUME NEW q \in Issued' \ Issued PROVE CacheSet(q)
  <2>1. /\ q \in Requests /\ status'[q] \in {200, 201}
        /\ call'[q].kind \in {"signUp", "signIn"}
    BY <1>3 DEF Issued, Is
  <2>2. ~(status'[q] = status[q] /\ call'[q] = call[q])
    BY <1>3 DEF Issued, Is
  <2>3. status[q] = NULL
    BY <1>1, <2>1, <2>2, AnsweredStays
  <2>4. status'[q] # status[q]
    BY <2>1, <2>3 DEF NULL
  <2>5. ASSUME NEW r \in Requests, Receive(r) \/ Step(r) \/ Panic(r) PROVE CacheSet(q)
    <3> USE DEF TypeInv, TypeOK, RequestTypeOK
    <3>1. q = r
      BY <1>1, <2>1, <2>4, <2>5, OthersUntouched DEF Untouched
    <3>2. CASE Receive(r)
      <4>1. status'[r] \in {status[r], 400, 401, 403}
        BY <1>1, <3>2 DEF Receive, ReceiveSignUp, ReceiveSignIn, ReceiveProtected, SignUpRefusal,
           SignInRefusal, Goto, Answer
      <4> QED
        BY <2>1, <2>4, <3>1, <4>1
    <3>3. CASE FindUser(r) \/ CacheGet(r) \/ FindSession(r) \/ Refill(r) \/ CacheDelete(r)
      <4>1. status'[r] \in {status[r], 401, 403, 204}
        BY <1>1, <3>3 DEF FindUser, CacheGet, FindSession, Refill, CacheDelete, Admit, Goto, Answer
      <4> QED
        BY <2>1, <2>4, <3>1, <4>1
    <3>4. CASE GetMe(r)
      BY <1>1, <2>1, <3>1, <3>4 DEF GetMe, Control, ControlOf, input
    <3>5. CASE \/ BeginTx(r) \/ SaveUser(r) \/ SaveSession(r) \/ WriteUserCreated(r)
               \/ WriteSessionCreated(r) \/ RevokeSession(r) \/ WriteSessionRevoked(r)
               \/ CommitTx(r) \/ StatementFails(r) \/ Panic(r)
      <4>1. status'[r] \in {status[r], 409, 500}
        BY <1>1, <3>5 DEF BeginTx, SaveUser, SaveSession, WriteUserCreated, WriteSessionCreated,
           RevokeSession, WriteSessionRevoked, CommitTx, StatementFails, Panic, Abort, Goto, Answer
      <4> QED
        BY <2>1, <2>4, <3>1, <4>1
    <3> QED
      BY <2>5, <3>1, <3>2, <3>3, <3>4, <3>5 DEF Step
  <2>6. ~(Crash \/ Tick \/ CacheServer \/ Finished \/ UNCHANGED vars)
    BY <2>4 DEF Crash, Lose, Tick, CacheServer, Finished, vars
  <2> QED
    BY <2>5, <2>6 DEF Next
<1> QED
  BY <1>2, <1>3

(* With a reliable cache nothing but the write-through of a new session    *)
(* and the DEL of a sign-out changes the cache, and each at once.          *)
LEMMA ReliableCache ==
    ASSUME CacheIsReliable, SignOutInv, [Next]_vars
    PROVE  /\ late' = {}
           /\ \A r \in Requests :
                /\ CacheSet(r) =>
                    cache' = Others(HashOf(r)) \cup
                               {Stored(Set(HashOf(r), r, work[r].user, work[r].expires,
                                           work[r].expires - now), now)}
                /\ CacheDelete(r) => cache' = Others(HashOf(cookie[r]))
           /\ cache' = cache \/ \E r \in Requests : CacheSet(r) \/ CacheDelete(r)
<1>1. /\ "cache" \notin Faults /\ "late" \notin Faults /\ "evict" \notin Faults
      /\ late = {}
  BY DEF CacheIsReliable, SignOutInv
<1>2. \A c, at : Send(c, at) => cache' = Run(c, at) /\ late' = late
  BY <1>1 DEF Send
<1>3. ASSUME NEW r \in Requests, Receive(r) PROVE UNCHANGED valkey
  BY <1>3 DEF Receive, ReceiveSignUp, ReceiveSignIn, ReceiveProtected
<1>4. ASSUME NEW r \in Requests,
             \/ FindUser(r) \/ CacheGet(r) \/ FindSession(r) \/ GetMe(r)
             \/ BeginTx(r) \/ SaveUser(r) \/ SaveSession(r) \/ WriteUserCreated(r)
             \/ WriteSessionCreated(r) \/ RevokeSession(r) \/ WriteSessionRevoked(r)
             \/ StatementFails(r) \/ Panic(r) \/ CommitTx(r)
      PROVE  UNCHANGED valkey
  BY <1>4 DEF FindUser, CacheGet, FindSession, GetMe, BeginTx, SaveUser, SaveSession,
     WriteUserCreated, WriteSessionCreated, RevokeSession, WriteSessionRevoked,
     StatementFails, Panic, CommitTx
<1>5. ASSUME NEW r \in Requests PROVE ~Refill(r)
  BY DEF SignOutInv, SignOutOf, Refill
<1>6. ASSUME NEW r \in Requests, CacheSet(r)
      PROVE  /\ late' = late
             /\ cache' = Others(HashOf(r)) \cup
                   {Stored(Set(HashOf(r), r, work[r].user, work[r].expires,
                               work[r].expires - now), now)}
  <2> DEFINE c == Set(HashOf(r), r, work[r].user, work[r].expires, work[r].expires - now)
  <2>1. c.op = "SET" /\ c.key = HashOf(r)
    BY DEF Set
  <2>2. Send(c, now)
    BY <1>6 DEF CacheSet, WriteThrough
  <2> HIDE DEF c
  <2>3. cache' = Run(c, now) /\ late' = late
    BY <1>2, <2>2
  <2>4. cache' = Others(HashOf(r)) \cup {Stored(c, now)}
    BY <2>1, <2>3 DEF Run
  <2> QED
    BY <2>3, <2>4 DEF c
<1>7. ASSUME NEW r \in Requests, CacheDelete(r)
      PROVE  late' = late /\ cache' = Others(HashOf(cookie[r]))
  BY <1>2, <1>7 DEF CacheDelete, Delete, Run
<1>8. ~CacheServer
  BY <1>1 DEF CacheServer, Evict, ApplyLate
<1>9. ASSUME Crash \/ Tick \/ Finished \/ UNCHANGED vars PROVE UNCHANGED valkey
  BY <1>9 DEF Crash, Lose, Tick, Finished, vars, valkey
<1>10. \/ cache' = cache /\ late' = late
       \/ \E r \in Requests : CacheSet(r) \/ CacheDelete(r)
  BY <1>3, <1>4, <1>5, <1>8, <1>9 DEF Next, Step, valkey
<1>11. late' = late
  BY <1>6, <1>7, <1>10
<1> QED
  BY <1>1, <1>6, <1>7, <1>10, <1>11

(* The session of a request that may still be refused, or has not been     *)
(* answered, is not one that a client can present.                         *)
LEMMA NotYetIssued ==
    ASSUME CoreInv, NEW r \in Requests, pc[r] # "done"
    PROVE  r \notin Issued
BY DEF CoreInv, LedgerInv, FreshOf, Issued, NULL

(* A row of an issued token: its cookie names it.                          *)
LEMMA RowOfCookie ==
    ASSUME CoreInv, NEW token, NEW s \in sessions, s.hash = HashOf(token)
    PROVE  s.id = token /\ token \in Requests
<1>1. s.hash = HashOf(s.id) /\ s.id \in Requests
  BY DEF CoreInv, LedgerInv, Rows, TypeInv, TypeOK, PostgresTypeOK, Session
<1> QED
  BY <1>1 DEF HashOf

(* The cache keeps covering the sessions clients may present.              *)
LEMMA CoveredStep ==
    ASSUME CacheIsReliable, SignOutInv, [Next]_vars
    PROVE  Covered'
<1>1. /\ CoreInv /\ AnswerInv /\ Covered /\ Rows /\ Rows' /\ TypeInv
      /\ \A q \in Requests : HeldOf(q)
  BY CoreStep DEF SignOutInv, CoreInv, LedgerInv, SessionInv, Held
<1>2. Issued \subseteq Issued' /\ \A q \in Issued' \ Issued : CacheSet(q)
  BY <1>1, IssuedStep
<1> SUFFICES ASSUME NEW t \in sessions', t.id \in Issued', t.revoked = NULL
             PROVE  \E e \in cache' : Covers(e, t)
  BY DEF Covered
<1>3. PICK s \in sessions : s.id = t.id /\ s.hash = t.hash /\ s.expires = t.expires
                               /\ s.revoked = NULL
  <2>1. CASE UNCHANGED tables
    BY <2>1 DEF tables
  <2>2. ASSUME NEW r \in Requests, CommitTx(r), Commit(r)
        PROVE  \E s \in sessions : /\ s.id = t.id /\ s.hash = t.hash /\ s.expires = t.expires
                                   /\ s.revoked = NULL
    <3>1. Outcome(r) /\ r \notin Issued
      BY <1>1, <2>2, CommitOutcome, NotYetIssued DEF CommitTx
    <3>2. r \notin Issued'
      BY <1>2, <2>2, <3>1 DEF CommitTx, CacheSet
    <3>3. t # SessionOf(r)
      BY <3>2 DEF SessionOf, NewSession
    <3> QED
      BY <3>1, <3>3 DEF Outcome, Registers, OpensSession, Revokes
  <2> QED
    BY <2>1, <2>2, TablesStep
<1>4. ASSUME NEW r \in Requests, CacheSet(r), r = s.id,
             cache' = Others(HashOf(r)) \cup
                        {Stored(Set(HashOf(r), r, work[r].user, work[r].expires,
                                    work[r].expires - now), now)}
      PROVE  \E e \in cache' : Covers(e, t)
  <2> DEFINE c == Set(HashOf(r), r, work[r].user, work[r].expires, work[r].expires - now)
             e == Stored(c, now)
  <2>1. PICK p \in sessions : p.hash = HashOf(r) /\ p.id = work[r].session
                                 /\ p.expires = work[r].expires
    BY <1>1, <1>4 DEF CacheSet, HeldOf, Backed
  <2>2. p = s
    BY <1>1, <1>4, <2>1, RowOfCookie DEF Rows
  <2>3. c.key = HashOf(r) /\ c.payload.expires = work[r].expires /\ c.ttl = work[r].expires - now
    BY DEF Set
  <2>4. work[r].expires \in Nat /\ now \in Nat
    BY <1>1 DEF TypeInv, TypeOK, RequestTypeOK, Work, Time
  <2> HIDE DEF c
  <2>5. /\ e.key = HashOf(r) /\ e.payload.expires = work[r].expires
        /\ e.dies = NULL \/ e.dies >= work[r].expires
    BY <2>3, <2>4 DEF Stored
  <2>6. e \in cache'
    BY <1>4 DEF c
  <2> HIDE DEF e
  <2> QED
    BY <1>3, <2>1, <2>2, <2>5, <2>6 DEF Covers
<1>5. CASE s.id \in Issued
  <2>1. PICK e \in cache : Covers(e, s)
    BY <1>1, <1>3, <1>5 DEF Covered
  <2>2. Covers(e, t)
    BY <1>3, <2>1 DEF Covers
  <2>3. e.key = HashOf(s.id)
    BY <1>1, <2>1 DEF Covers, Rows
  <2>4. ASSUME NEW r \in Requests, CacheSet(r) PROVE e \in Others(HashOf(r))
    <3>1. r # s.id
      BY <1>1, <1>5, <2>4, NotYetIssued DEF CacheSet
    <3> QED
      BY <2>3, <3>1 DEF Others, HashOf
  <2>5. ASSUME NEW r \in Requests, CacheDelete(r) PROVE e \in Others(HashOf(cookie[r]))
    <3>1. PICK p \in sessions : p.hash = HashOf(cookie[r]) /\ p.revoked # NULL
      BY <1>1, <2>5 DEF AnswerInv, AnswerOf, CacheDelete, SignedOff
    <3>2. s.hash # HashOf(cookie[r])
      BY <1>1, <1>3, <3>1, RowOfCookie DEF Rows
    <3> QED
      BY <2>1, <3>2 DEF Others, Covers
  <2> QED
    BY <2>1, <2>2, <2>4, <2>5, ReliableCache
<1>6. CASE s.id \notin Issued
  <2>1. CacheSet(s.id) /\ s.id \in Requests
    BY <1>2, <1>3, <1>6 DEF Issued
  <2> QED
    BY <1>4, <2>1, ReliableCache
<1> QED
  BY <1>5, <1>6

(* A confirmed sign-out leaves no entry for its token, and none comes back *)
(* under it.                                                               *)
LEMMA NoEntryStep ==
    ASSUME CacheIsReliable, SignOutInv, [Next]_vars, NEW q \in Requests,
           call'[q].kind = "signOut", status'[q] = 204
    PROVE  \A e \in cache' : e.key # HashOf(cookie'[q])
<1>1. CoreInv /\ SignOutOf(q) /\ TypeInv
  BY DEF SignOutInv, CoreInv
<1>2. CASE status[q] = 204
  <2>1. /\ call'[q] = call[q] /\ cookie'[q] = cookie[q]
    BY <1>1, <1>2, AnsweredStays DEF NULL
  <2>2. \A e \in cache : e.key # HashOf(cookie[q])
    BY <1>1, <1>2, <2>1 DEF SignOutOf
  <2>3. ASSUME NEW r \in Requests, CacheSet(r) PROVE HashOf(r) # HashOf(cookie[q])
    BY <1>1, <2>3, NotYetIssued, TokensAssumption DEF SignOutOf, CacheSet, HashOf
  <2>4. \A c, at : Stored(c, at).key = c.key
    BY DEF Stored
  <2>5. \A key, session, user, expires, ttl : Set(key, session, user, expires, ttl).key = key
    BY DEF Set
  <2> QED
    BY <2>1, <2>2, <2>3, <2>4, <2>5, ReliableCache DEF Others
<1>3. CASE status[q] # 204
  <2>1. CacheDelete(q)
    <3>1. ASSUME NEW r \in Requests, Receive(r) \/ Step(r) \/ Panic(r) PROVE CacheDelete(q)
      <4> USE DEF TypeInv, TypeOK, RequestTypeOK
      <4>1. q = r
        BY <1>1, <1>3, <3>1, OthersUntouched DEF Untouched
      <4>2. CASE Receive(r)
        <5>1. status'[r] \in {status[r], 400, 401, 403}
          BY <1>1, <4>2 DEF Receive, ReceiveSignUp, ReceiveSignIn, ReceiveProtected, SignUpRefusal,
             SignInRefusal, Goto, Answer
        <5> QED
          BY <1>3, <4>1, <5>1
      <4>3. CASE FindUser(r) \/ CacheGet(r) \/ FindSession(r) \/ Refill(r) \/ CacheSet(r) \/ GetMe(r)
        <5>1. status'[r] \in {status[r], 200, 201, 401, 403}
          BY <1>1, <4>3 DEF FindUser, CacheGet, FindSession, Refill, CacheSet, GetMe, Admit, Goto,
             Answer
        <5> QED
          BY <1>3, <4>1, <5>1
      <4>4. CASE \/ BeginTx(r) \/ SaveUser(r) \/ SaveSession(r) \/ WriteUserCreated(r)
                 \/ WriteSessionCreated(r) \/ RevokeSession(r) \/ WriteSessionRevoked(r)
                 \/ CommitTx(r) \/ StatementFails(r) \/ Panic(r)
        <5>1. status'[r] \in {status[r], 409, 500}
          BY <1>1, <4>4 DEF BeginTx, SaveUser, SaveSession, WriteUserCreated, WriteSessionCreated,
             RevokeSession, WriteSessionRevoked, CommitTx, StatementFails, Panic, Abort, Goto,
             Answer
        <5> QED
          BY <1>3, <4>1, <5>1
      <4> QED
        BY <3>1, <4>1, <4>2, <4>3, <4>4 DEF Step
    <3>2. ~(Crash \/ Tick \/ CacheServer \/ Finished \/ UNCHANGED vars)
      BY <1>3 DEF Crash, Lose, Tick, CacheServer, Finished, vars
    <3> QED
      BY <3>1, <3>2 DEF Next
  <2>2. cache' = Others(HashOf(cookie[q])) /\ cookie' = cookie
    BY <2>1, ReliableCache DEF CacheDelete, input
  <2> QED
    BY <2>2 DEF Others
<1> QED
  BY <1>2, <1>3

(* Time only moves on.                                                     *)
LEMMA TimeStep ==
    ASSUME TypeInv, [Next]_vars
    PROVE  now \in Nat /\ now' \in Nat /\ now <= now'
<1>1. now' = now \/ now' = now + 1
  BY DEF Next, Receive, Step, ReceiveSignUp, ReceiveSignIn, ReceiveProtected, FindUser, BeginTx,
     SaveUser, SaveSession, WriteUserCreated, WriteSessionCreated, RevokeSession,
     WriteSessionRevoked, CommitTx, StatementFails, CacheSet, CacheDelete, CacheGet,
     FindSession, Refill, GetMe, Panic, Crash, Lose, Tick, CacheServer, Finished, vars
<1> QED
  BY <1>1 DEF TypeInv, TypeOK, RequestTypeOK, Time

(* A session no request may authenticate with stays so: a token's row is   *)
(* there before the token is issued, and neither comes back to life.       *)
LEMMA InactiveStays ==
    ASSUME CoreInv, [Next]_vars, NEW token \in Issued \cup {Forged, None},
           \A s \in sessions : s.hash = HashOf(token) => ~IsActive(s, now),
           NEW t \in sessions', t.hash = HashOf(token)
    PROVE  ~IsActive(t, now')
<1>1. CASE UNCHANGED tables
  <2>1. t \in sessions /\ t.expires \in Nat
    BY <1>1 DEF tables, CoreInv, TypeInv, TypeOK, PostgresTypeOK, Session, Time
  <2> QED
    BY <2>1, TimeStep DEF CoreInv, IsActive
<1>2. ASSUME NEW r \in Requests, CommitTx(r), Commit(r) PROVE ~IsActive(t, now')
  <2>1. Outcome(r) /\ r \notin Issued /\ now' = now
    BY <1>2, CommitOutcome, NotYetIssued DEF CommitTx
  <2>2. token # r
    BY <2>1, TokensAssumption
  <2>3. t # SessionOf(r)
    BY <2>2 DEF SessionOf, NewSession, HashOf
  <2>4. CASE t \in sessions
    BY <2>1, <2>4
  <2>5. ASSUME NEW s \in sessions, NEW n \in Session, Revokes(r, s, n), t = n
        PROVE  ~IsActive(t, now')
    BY <2>5 DEF Revokes, IsActive
  <2> QED
    BY <2>1, <2>3, <2>4, <2>5 DEF Outcome, Registers, OpensSession, Revokes
<1> QED
  BY <1>1, <1>2, TablesStep

(* A miss means that the session is not active.                            *)
LEMMA MissMeansInactive ==
    ASSUME SignOutInv, NEW q \in Requests, Hits(q) = {}, pc[q] = "cacheGet",
           NEW s \in sessions, s.hash = HashOf(cookie[q])
    PROVE  ~IsActive(s, now)
<1>1. CoreInv /\ Covered /\ SignOutOf(q)
  BY DEF SignOutInv
<1>2. s.id = cookie[q] /\ cookie[q] \in Requests
  BY <1>1, RowOfCookie
<1>3. s.id \in Issued
  BY <1>1, <1>2, TokensAssumption DEF SignOutOf
<1> SUFFICES ASSUME s.revoked = NULL, now < s.expires PROVE FALSE
  BY DEF IsActive
<1>4. PICK e \in cache : Covers(e, s)
  BY <1>1, <1>3 DEF Covered
<1>5. e.dies \in Nat /\ s.expires \in Nat /\ now \in Nat
  BY <1>1 DEF CoreInv, TypeInv, TypeOK, ValkeyTypeOK, Entry, PostgresTypeOK, Session, RequestTypeOK,
     Time
<1>6. e \in Hits(q)
  BY <1>4, <1>5 DEF Hits, Live, Covers
<1> QED
  BY <1>6

(* The step of one request, as far as sign-out is concerned.               *)
LEMMA SignOutStep ==
    ASSUME CacheIsReliable, SignOutInv, [Next]_vars, NEW q \in Requests
    PROVE  SignOutOf(q)'
<1>1. /\ CoreInv /\ AnswerInv /\ SignOutOf(q) /\ TypeInv /\ ControlOf(q) /\ AnswerOf(q)
      /\ \A p \in Requests : SignOutOf(p)
  BY DEF SignOutInv, CoreInv, TypeInv, Control, AnswerInv
<1>2. Issued \subseteq Issued'
  BY <1>1, IssuedStep
<1>3. call'[q].kind = "signOut" /\ status'[q] = 204 =>
        \A e \in cache' : e.key # HashOf(cookie'[q])
  BY NoEntryStep
<1>4. ASSUME NEW token, SignOutConfirmed(token) PROVE SignOutConfirmed(token)'
  BY <1>1, <1>4, AnsweredStays DEF SignOutConfirmed, Is, NULL
<1>5. ASSUME pc[q] = "findSession", pc'[q] = "findSession"
      PROVE  \A s \in sessions' : s.hash = HashOf(cookie'[q]) => ~IsActive(s, now')
  BY <1>1, <1>5, AnsweredStays, InactiveStays DEF SignOutOf
<1>6. ASSUME pc'[q] = pc[q] \/ pc'[q] \notin {"idle", "refill", "findSession"},
             cookie'[q] = cookie[q], authAt'[q] = authAt[q],
             q \in signedOut' => q \in signedOut
      PROVE  SignOutOf(q)'
  BY <1>1, <1>2, <1>3, <1>4, <1>5, <1>6 DEF SignOutOf
<1>7. ASSUME NEW r \in Requests, Receive(r) \/ Step(r) \/ Panic(r), q # r PROVE SignOutOf(q)'
  <2>1. q \in signedOut' => q \in signedOut
    <3>1. CASE ReceiveProtected(r)
      BY <1>7, <3>1 DEF ReceiveProtected
    <3>2. CASE ~ReceiveProtected(r)
      BY <1>7, <3>2 DEF Receive, ReceiveSignUp, ReceiveSignIn, Step, FindUser, BeginTx,
         SaveUser, SaveSession, WriteUserCreated, WriteSessionCreated, RevokeSession,
         WriteSessionRevoked, CommitTx, StatementFails, CacheSet, CacheDelete, CacheGet,
         FindSession, Refill, GetMe, Panic, history
    <3> QED
      BY <3>1, <3>2
  <2> QED
    BY <1>1, <1>6, <1>7, <2>1, OthersUntouched DEF Untouched
<1>8. ASSUME Receive(q) PROVE SignOutOf(q)'
  <2> USE DEF TypeInv, TypeOK, RequestTypeOK
  <2>1. CASE ReceiveSignUp(q) \/ ReceiveSignIn(q)
    BY <1>1, <1>6, <2>1 DEF ReceiveSignUp, ReceiveSignIn, Goto, Answer, history
  <2>2. CASE ReceiveProtected(q)
    <3>1. PICK token \in Issued \cup {Forged, None} :
            /\ cookie' = [cookie EXCEPT ![q] = token]
            /\ signedOut' = IF SignOutConfirmed(token) THEN signedOut \cup {q} ELSE signedOut
            /\ Answer(q, 401) \/ Goto(q, "cacheGet")
      BY <2>2 DEF ReceiveProtected
    <3>2. /\ cookie'[q] = token /\ pc'[q] \in {"done", "cacheGet"} /\ pc[q] = "idle"
          /\ authAt'[q] = NULL
      BY <1>1, <2>2, <3>1 DEF ReceiveProtected, Answer, Goto, AnswerOf
    <3>3. q \notin signedOut
      BY <1>1, <3>2 DEF SignOutOf
    <3>4. q \in signedOut' => SignOutConfirmed(token)'
      BY <1>4, <3>1, <3>3
    <3>5. q \in signedOut' => SignOutConfirmed(cookie[q])'
      BY <3>2, <3>4 DEF SignOutConfirmed
    <3>6. cookie'[q] \in Issued' \cup {Forged, None}
      BY <1>2, <3>1, <3>2
    <3> QED
      BY <1>3, <3>2, <3>5, <3>6 DEF SignOutOf
  <2> QED
    BY <1>8, <2>1, <2>2 DEF Receive
<1>9. CASE CacheGet(q)
  <2> USE DEF TypeInv, TypeOK, RequestTypeOK
  <2>1. UNCHANGED <<cookie, signedOut, sessions, now>> /\ pc[q] = "cacheGet"
    BY <1>9 DEF CacheGet, input, postgres
  <2>2. CASE Hits(q) = {} /\ Goto(q, "findSession") /\ authAt' = authAt
    <3>1. \A s \in sessions : s.hash = HashOf(cookie[q]) => ~IsActive(s, now)
      BY <2>1, <2>2, MissMeansInactive
    <3>2. pc'[q] = "findSession"
      BY <1>1, <2>2 DEF Goto
    <3> QED
      BY <1>1, <1>2, <1>3, <1>4, <2>1, <2>2, <3>1, <3>2 DEF SignOutOf
  <2>3. CASE Hits(q) # {} /\ Admit(q)
    <3>1. q \notin signedOut
      <4>1. PICK e \in cache : e.key = HashOf(cookie[q])
        BY <2>3 DEF Hits, Live
      <4>2. ~SignOutConfirmed(cookie[q])
        BY <1>1, <4>1 DEF SignOutOf, SignOutConfirmed, Is
      <4> QED
        BY <1>1, <4>2 DEF SignOutOf
    <3>2. pc'[q] \in {"getMe", "begin", "done"}
      BY <1>1, <2>3 DEF Admit, Goto, Answer
    <3> QED
      BY <1>1, <1>2, <1>3, <2>1, <3>1, <3>2 DEF SignOutOf
  <2> QED
    BY <1>9, <2>2, <2>3 DEF CacheGet, CacheIsReliable
<1>10. CASE FindSession(q)
  <2> USE DEF TypeInv, TypeOK, RequestTypeOK
  <2>1. {s \in FindByTokenHash(HashOf(cookie[q])) : IsActive(s, now)} = {}
    BY <1>1, <1>10 DEF FindSession, FindByTokenHash, SignOutOf
  <2>2. pc'[q] = "done" /\ UNCHANGED <<cookie, signedOut, authAt>>
    BY <1>1, <1>10, <2>1 DEF FindSession, Answer, input
  <2> QED
    BY <1>6, <2>2
<1>11. ASSUME \/ FindUser(q) \/ BeginTx(q) \/ SaveUser(q) \/ SaveSession(q)
              \/ WriteUserCreated(q) \/ WriteSessionCreated(q) \/ RevokeSession(q)
              \/ WriteSessionRevoked(q) \/ CommitTx(q) \/ StatementFails(q) \/ Panic(q)
              \/ CacheSet(q) \/ CacheDelete(q) \/ Refill(q) \/ GetMe(q)
       PROVE  SignOutOf(q)'
  <2> USE DEF TypeInv, TypeOK, RequestTypeOK
  <2>1. UNCHANGED <<cookie, authAt, signedOut>>
    BY <1>11 DEF FindUser, BeginTx, SaveUser, SaveSession, WriteUserCreated, WriteSessionCreated,
       RevokeSession, WriteSessionRevoked, CommitTx, StatementFails, CacheSet, CacheDelete,
       Refill, GetMe, Panic, input, history
  <2>2. pc'[q] \notin {"idle", "refill", "findSession"}
    <3>1. CASE BeginTx(q)
      BY <1>1, <3>1 DEF BeginTx, FirstStatement, ControlOf, Input, Kinds, Goto
    <3>2. CASE \/ SaveUser(q) \/ SaveSession(q) \/ WriteUserCreated(q) \/ WriteSessionCreated(q)
               \/ RevokeSession(q) \/ WriteSessionRevoked(q) \/ CommitTx(q)
      BY <1>1, <3>2 DEF SaveUser, SaveSession, WriteUserCreated, WriteSessionCreated,
         RevokeSession, WriteSessionRevoked, CommitTx, Abort, Goto, Answer
    <3>3. CASE \/ FindUser(q) \/ StatementFails(q) \/ Panic(q)
               \/ CacheSet(q) \/ CacheDelete(q) \/ Refill(q) \/ GetMe(q)
      BY <1>1, <3>3 DEF FindUser, StatementFails, CacheSet, CacheDelete, Refill, GetMe, Panic,
         Abort, Admit, Goto, Answer
    <3> QED
      BY <1>11, <3>1, <3>2, <3>3
  <2> QED
    BY <1>6, <2>1, <2>2
<1>12. CASE Crash \/ Tick \/ CacheServer \/ Finished \/ UNCHANGED vars
  <2>1. UNCHANGED <<cookie, authAt, signedOut>> /\ pc'[q] \in {pc[q], "lost"}
    BY <1>12 DEF Crash, Lose, Tick, CacheServer, Finished, vars, input, history
  <2> QED
    BY <1>6, <2>1
<1> QED
  BY <1>7, <1>8, <1>9, <1>10, <1>11, <1>12 DEF Next, Step

(* Once a sign-out is confirmed, the token is dead: while Valkey answers   *)
(* every command and loses no entry, no later request is let through with  *)
(* it, however requests interleave, Postgres fails or processes crash.     *)
THEOREM SignOutIsFinal ==
    ASSUME CacheIsReliable
    PROVE  Spec => []SignedOutStaysOut
<1>1. Init => SignOutInv
  <2> SUFFICES ASSUME Init PROVE SignOutInv
    OBVIOUS
  <2>1. CoreInv /\ AnswerInv
    BY AnswerInit, TypeInit, EmailInit, SessionInit, LedgerInit DEF CoreInv
  <2>2. late = {} /\ Covered
    BY DEF Init, PostgresInit, ValkeyInit, Covered
  <2>3. \A q \in Requests : SignOutOf(q)
    BY DEF Init, ValkeyInit, SignOutOf, NULL
  <2> QED
    BY <2>1, <2>2, <2>3 DEF SignOutInv
<1>2. SignOutInv /\ [Next]_vars => SignOutInv'
  <2> SUFFICES ASSUME SignOutInv, [Next]_vars PROVE SignOutInv'
    OBVIOUS
  <2>1. CoreInv' /\ AnswerInv'
    BY CoreStep, AnswerStep DEF SignOutInv
  <2>2. late' = {} /\ Covered' /\ \A q \in Requests : SignOutOf(q)'
    BY ReliableCache, CoveredStep, SignOutStep
  <2> QED
    BY <2>1, <2>2 DEF SignOutInv
<1>3. SignOutInv => SignedOutStaysOut
  BY DEF SignOutInv, SignOutOf, SignedOutStaysOut, CoreInv, TypeInv, TypeOK, RequestTypeOK
<1> QED
  BY <1>1, <1>2, <1>3, PTL DEF Spec
=============================================================================
