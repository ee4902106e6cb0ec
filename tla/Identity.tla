------------------------------ MODULE Identity ------------------------------
(***************************************************************************)
(* The identity service: HTTP requests for sign-up, sign-in, sign-out and  *)
(* profile/me running concurrently against one Postgres and one Valkey.    *)
(*                                                                         *)
(* A request runs in a goroutine of its own.  Between two calls to         *)
(* Postgres or Valkey it touches nothing shared, so one action takes it    *)
(* from one call to the next, with everything the code does in between.    *)
(* pc[r] names the call r makes next.                                      *)
(***************************************************************************)
EXTENDS Postgres, Valkey

CONSTANTS MaxTime,      \* the clock stops here
          Traffic       \* what each request may be

Kinds == {"signUp", "signIn", "signOut", "getMe"}
Headers == {"allowed", "foreign", "malformed", "absent"}
Bodies == {"json", "oversized", "malformed"}

Input == [kind : Kinds, body : Bodies, email : RawEmail, password : Passwords,
          origin : Headers, referer : Headers]

ASSUME TimeAssumption == MaxTime \in Nat \ {0}
ASSUME TrafficAssumption == Traffic \in [Requests -> SUBSET Input]

VARIABLES now,          \* the clock of the service, of Postgres and of Valkey
          pc,           \* the call each request makes next
          call,         \* what the client sent
          cookie,       \* the session cookie it sent
          work,         \* the identifiers and the expiry the handler works with
          status,       \* the status code of the response
          authAt,       \* history: when the session middleware let r through
          signedOut     \* history: requests that came after their cookie's sign-out

postgres == <<users, sessions, outbox, tx>>
valkey == <<cache, late>>
history == <<authAt, signedOut>>
input == <<call, cookie>>
vars == <<postgres, valkey, now, pc, input, work, status, history>>

TxSteps == {"saveUser", "saveSession", "writeUserCreated", "writeSessionCreated",
            "revoke", "writeSessionRevoked", "commit"}
DbSteps == {"findUser", "findSession", "getMe", "begin"} \cup (TxSteps \ {"commit"})
CacheSteps == {"cacheGet", "refill", "cacheSet", "cacheDelete"}
InFlight == DbSteps \cup CacheSteps \cup {"commit"}
Ended == {"done", "lost"}

Work == [user : Requests \cup {None}, session : Requests \cup {None}, expires : Time]
NoWork == [user |-> None, session |-> None, expires |-> NULL]
Unsent == [kind |-> "unsent"]

Statuses == {200, 201, 204, 400, 401, 403, 409, 500}

RequestTypeOK ==
    /\ now \in Time
    /\ pc \in [Requests -> {"idle"} \cup InFlight \cup Ended]
    /\ call \in [Requests -> Input \cup {Unsent}]
    /\ cookie \in [Requests -> Cookie]
    /\ work \in [Requests -> Work]
    /\ status \in [Requests -> Statuses \cup {NULL}]
    /\ authAt \in [Requests -> Time]
    /\ signedOut \subseteq Requests

\* Every variable, row, transaction and cache entry has its type.
TypeOK == PostgresTypeOK /\ ValkeyTypeOK /\ RequestTypeOK

Init ==
    /\ PostgresInit
    /\ ValkeyInit
    /\ now = 1
    /\ pc = [r \in Requests |-> "idle"]
    /\ call = [r \in Requests |-> Unsent]
    /\ cookie = [r \in Requests |-> None]
    /\ work = [r \in Requests |-> NoWork]
    /\ status = [r \in Requests |-> NULL]
    /\ authAt = [r \in Requests |-> NULL]
    /\ signedOut = {}

-----------------------------------------------------------------------------
(* Moving a request on, and answering it.                                  *)
Goto(r, step) ==
    /\ pc' = [pc EXCEPT ![r] = step]
    /\ status' = status

Answer(r, code) ==
    /\ pc' = [pc EXCEPT ![r] = "done"]
    /\ status' = [status EXCEPT ![r] = code]

Is(r, kind) == call[r].kind = kind

(* The Origin middleware: an Origin header decides; the Referer is looked  *)
(* at only when there is none.                                             *)
OriginCheck(in) ==
    IF in.origin # "absent" THEN in.origin = "allowed" ELSE in.referer = "allowed"

(* The handlers' own check of a body: at most maxBodyBytes of JSON.        *)
WellFormed(in) == in.body = "json"

(* Tokens clients hold: the cookies of successful sign-ups and sign-ins.   *)
Issued == {q \in Requests : \/ Is(q, "signUp") /\ status[q] = 201
                            \/ Is(q, "signIn") /\ status[q] = 200}

SignOutConfirmed(token) ==
    \E q \in Requests : Is(q, "signOut") /\ status[q] = 204 /\ cookie[q] = token

-----------------------------------------------------------------------------
(* Arrival.  Sign-up and sign-in are validated before any remote call.     *)
SignUpRefusal(in) ==
    IF ~OriginCheck(in) THEN 403
    ELSE IF ~WellFormed(in) \/ ~ValidEmail(in.email) \/ ~ValidatePasswordPolicy(in.password)
    THEN 400
    ELSE NULL

ReceiveSignUp(r) ==
    /\ pc[r] = "idle"
    /\ \E in \in Traffic[r] :
        /\ in.kind = "signUp"
        /\ call' = [call EXCEPT ![r] = in]
        /\ \/ /\ SignUpRefusal(in) # NULL
              /\ Answer(r, SignUpRefusal(in))
              /\ work' = work
           \/ /\ SignUpRefusal(in) = NULL
              /\ work' = [work EXCEPT ![r] =
                            [user |-> r, session |-> r, expires |-> now + SessionTTL]]
              /\ Goto(r, "begin")
    /\ UNCHANGED <<postgres, valkey, now, cookie, history>>

\* A malformed address is answered like a wrong password.
SignInRefusal(in) ==
    IF ~OriginCheck(in) THEN 403
    ELSE IF ~WellFormed(in) THEN 400
    ELSE IF ~ValidEmail(in.email) THEN 401
    ELSE NULL

ReceiveSignIn(r) ==
    /\ pc[r] = "idle"
    /\ \E in \in Traffic[r] :
        /\ in.kind = "signIn"
        /\ call' = [call EXCEPT ![r] = in]
        /\ \/ SignInRefusal(in) # NULL /\ Answer(r, SignInRefusal(in))
           \/ SignInRefusal(in) = NULL /\ Goto(r, "findUser")
    /\ UNCHANGED <<postgres, valkey, now, cookie, work, history>>

\* The session middleware runs first on both protected routes.
ReceiveProtected(r) ==
    /\ pc[r] = "idle"
    /\ \E in \in Traffic[r], token \in Issued \cup {Forged, None} :
        /\ in.kind \in {"signOut", "getMe"}
        /\ call' = [call EXCEPT ![r] = in]
        /\ cookie' = [cookie EXCEPT ![r] = token]
        /\ signedOut' = IF SignOutConfirmed(token) THEN signedOut \cup {r} ELSE signedOut
        /\ \/ token = None /\ Answer(r, 401)
           \/ token # None /\ Goto(r, "cacheGet")
    /\ UNCHANGED <<postgres, valkey, now, work, authAt>>

-----------------------------------------------------------------------------
(* Sign-in: look the user up, verify, draw the token, read the clock.      *)
FindUser(r) ==
    /\ pc[r] = "findUser"
    /\ FreeConn
    /\ \/ \E u \in FindByEmail(NewEmail(call[r].email)) :
            /\ Verify(u.hash, call[r].password)
            /\ work' = [work EXCEPT ![r] =
                          [user |-> u.id, session |-> r, expires |-> now + SessionTTL]]
            /\ Goto(r, "begin")
       \/ /\ \A u \in FindByEmail(NewEmail(call[r].email)) : ~Verify(u.hash, call[r].password)
          /\ Answer(r, 401)
          /\ work' = work
    /\ UNCHANGED <<postgres, valkey, now, input, history>>

-----------------------------------------------------------------------------
(* The transactions.  Every early return after Begin runs the deferred     *)
(* Rollback.                                                               *)
Abort(r, code) == Rollback(r) /\ Answer(r, code)

FirstStatement == [signUp |-> "saveUser", signIn |-> "saveSession", signOut |-> "revoke"]

BeginTx(r) ==
    /\ pc[r] = "begin"
    /\ Begin(r, now)
    /\ Goto(r, FirstStatement[call[r].kind])
    /\ UNCHANGED <<valkey, now, input, work, history>>

HastySaveUser(r) ==                  \* (mutant) a pending e-mail counts as taken
    /\ pc[r] = "saveUser"
    /\ LET u == NewUser(r, NewEmail(call[r].email), Hash(call[r].password))
       IN \/ InsertUser(r, u) /\ Goto(r, "saveSession")
          \/ (EmailStored(u.email) \/ EmailPending(r, u.email)) /\ Abort(r, 409)
    /\ UNCHANGED <<valkey, now, input, work, history>>
SaveUser(r) ==
    /\ pc[r] = "saveUser"
    /\ LET u == NewUser(r, NewEmail(call[r].email), Hash(call[r].password))
       IN \/ InsertUser(r, u) /\ Goto(r, "saveSession")
          \/ EmailStored(u.email) /\ Abort(r, 409)
    /\ UNCHANGED <<valkey, now, input, work, history>>

NestedSaveSession(r) ==              \* (mutant) reads through the pool inside the transaction
    /\ pc[r] = "saveSession"
    /\ FreeConn
    /\ InsertSession(r, NewSession(r, work[r].user, HashOf(r), work[r].expires))
    /\ Goto(r, IF Is(r, "signUp") THEN "writeUserCreated" ELSE "writeSessionCreated")
    /\ UNCHANGED <<valkey, now, input, work, history>>
SaveSession(r) ==
    /\ pc[r] = "saveSession"
    /\ InsertSession(r, NewSession(r, work[r].user, HashOf(r), work[r].expires))
    /\ Goto(r, IF Is(r, "signUp") THEN "writeUserCreated" ELSE "writeSessionCreated")
    /\ UNCHANGED <<valkey, now, input, work, history>>

WriteUserCreated(r) ==
    /\ pc[r] = "writeUserCreated"
    /\ WriteTx(r, NewEvent(r, TopicUserCreated, r))
    /\ Goto(r, "writeSessionCreated")
    /\ UNCHANGED <<valkey, now, input, work, history>>

WriteSessionCreated(r) ==
    /\ pc[r] = "writeSessionCreated"
    /\ WriteTx(r, NewEvent(r, TopicSessionCreated, r))
    /\ Goto(r, "commit")
    /\ UNCHANGED <<valkey, now, input, work, history>>

RevokeSession(r) ==
    /\ pc[r] = "revoke"
    /\ RevokeTx(r, work[r].session)
    /\ Goto(r, "writeSessionRevoked")
    /\ UNCHANGED <<valkey, now, input, work, history>>

WriteSessionRevoked(r) ==
    /\ pc[r] = "writeSessionRevoked"
    /\ WriteTx(r, NewEvent(r, TopicSessionRevoked, work[r].session))
    /\ Goto(r, "commit")
    /\ UNCHANGED <<valkey, now, input, work, history>>

ConflictCommitTx(r) ==               \* (mutant) a failed commit is taken for a conflict
    /\ pc[r] = "commit"
    /\ \/ Commit(r) /\ Goto(r, IF Is(r, "signOut") THEN "cacheDelete" ELSE "cacheSet")
       \/ "db" \in Faults /\ Commit(r) /\ Answer(r, 409)
       \/ "db" \in Faults /\ Abort(r, 409)
    /\ UNCHANGED <<valkey, now, input, work, history>>
\* An error from Commit does not say whether Postgres committed.
CommitTx(r) ==
    /\ pc[r] = "commit"
    /\ \/ Commit(r) /\ Goto(r, IF Is(r, "signOut") THEN "cacheDelete" ELSE "cacheSet")
       \/ "db" \in Faults /\ Commit(r) /\ Answer(r, 500)
       \/ "db" \in Faults /\ Abort(r, 500)
    /\ UNCHANGED <<valkey, now, input, work, history>>

\* What Postgres itself turns down: a session without its user, the revocation
\* of a session that is not there.
Rejected(r) ==
    \/ pc[r] = "saveSession" /\ ~UserVisible(r, work[r].user)
    \/ pc[r] = "revoke" /\ \A s \in sessions : s.id # work[r].session

\* A statement, a query or Begin returns an error: ErrInternal.  A failure of
\* the random source just before Begin ends the request in the same way.
StatementFails(r) ==
    /\ pc[r] \in DbSteps
    /\ "db" \in Faults \/ Rejected(r)
    /\ Abort(r, 500)
    /\ UNCHANGED <<valkey, now, input, work, history>>

-----------------------------------------------------------------------------
(* After the commit: write the session through to the cache, or drop it.   *)
(* An error is logged and the request succeeds all the same.               *)
WriteThrough(r) ==
    Send(Set(HashOf(r), r, work[r].user, work[r].expires, work[r].expires - now), now)

CacheSet(r) ==
    /\ pc[r] = "cacheSet"
    /\ WriteThrough(r)
    /\ Answer(r, IF Is(r, "signUp") THEN 201 ELSE 200)
    /\ UNCHANGED <<postgres, now, input, work, history>>

CacheDelete(r) ==
    /\ pc[r] = "cacheDelete"
    /\ Send(Delete(HashOf(cookie[r])), now)
    /\ Answer(r, 204)
    /\ UNCHANGED <<postgres, now, input, work, history>>

-----------------------------------------------------------------------------
(* The session middleware, and what runs behind it.                        *)
Admit(r) ==
    \/ Is(r, "getMe") /\ Goto(r, "getMe")
    \/ Is(r, "signOut") /\ OriginCheck(call[r]) /\ Goto(r, "begin")
    \/ Is(r, "signOut") /\ ~OriginCheck(call[r]) /\ Answer(r, 403)

Identify(r, session, user, expires) ==
    /\ work' = [work EXCEPT ![r] = [user |-> user, session |-> session, expires |-> expires]]
    /\ authAt' = [authAt EXCEPT ![r] = now]

StaleHits(r) == {e \in Live(now) : e.key = HashOf(cookie[r])}     \* (mutant)
Hits(r) == {e \in Live(now) : e.key = HashOf(cookie[r]) /\ e.payload.expires > now}

CacheGet(r) ==
    /\ pc[r] = "cacheGet"
    /\ \/ \E e \in Hits(r) :
            /\ Identify(r, e.payload.session, e.payload.user, e.payload.expires)
            /\ Admit(r)
       \/ /\ Hits(r) = {} \/ {"cache", "late"} \cap Faults # {}
          /\ Goto(r, "findSession")
          /\ UNCHANGED <<work, authAt>>
    /\ UNCHANGED <<postgres, valkey, now, input, signedOut>>

FindSession(r) ==
    /\ pc[r] = "findSession"
    /\ FreeConn
    /\ LET found == {s \in FindByTokenHash(HashOf(cookie[r])) : IsActive(s, now)}
       IN \/ \E s \in found :
               /\ Identify(r, s.id, s.user, s.expires)
               /\ Goto(r, "refill")
          \/ /\ found = {}
             /\ Answer(r, 401)
             /\ UNCHANGED <<work, authAt>>
    /\ UNCHANGED <<postgres, valkey, now, input, signedOut>>

SlidingRefill(r) ==                  \* (mutant) a refill renews the expiry
    /\ pc[r] = "refill"
    /\ Send(Set(HashOf(cookie[r]), work[r].session, work[r].user,
                now + SessionTTL, SessionTTL), now)
    /\ Admit(r)
    /\ UNCHANGED <<postgres, now, input, work, history>>
Refill(r) ==
    /\ pc[r] = "refill"
    /\ LET remaining == work[r].expires - now
       IN IF remaining > 0
          THEN Send(Set(HashOf(cookie[r]), work[r].session, work[r].user,
                        work[r].expires, remaining), now)
          ELSE UNCHANGED valkey
    /\ Admit(r)
    /\ UNCHANGED <<postgres, now, input, work, history>>

MixedUpGetMe(r) ==                   \* (mutant) looks the user up by the session's id
    /\ pc[r] = "getMe"
    /\ FreeConn
    /\ Answer(r, IF FindByID(work[r].session) # {} THEN 200 ELSE 401)
    /\ UNCHANGED <<postgres, valkey, now, input, work, history>>
GetMe(r) ==
    /\ pc[r] = "getMe"
    /\ FreeConn
    /\ Answer(r, IF FindByID(work[r].user) # {} THEN 200 ELSE 401)
    /\ UNCHANGED <<postgres, valkey, now, input, work, history>>

-----------------------------------------------------------------------------
\* Code between two calls panics: the deferred Rollback runs as the stack
\* unwinds, and Recover, outermost in every chain, answers 500.
Panic(r) ==
    /\ "panic" \in Faults
    /\ pc[r] \in InFlight
    /\ Abort(r, 500)
    /\ UNCHANGED <<valkey, now, input, work, history>>

-----------------------------------------------------------------------------
(* The environment.                                                        *)

\* A process dies: the requests it served are lost and Postgres rolls their
\* transactions back.  Nothing else was in memory.  Several instances share the
\* stores, so any of the requests in flight may be the ones that die together.
Lose(dead) ==
    /\ pc' = [r \in Requests |-> IF r \in dead THEN "lost" ELSE pc[r]]
    /\ tx' = [r \in Requests |-> IF r \in dead THEN NoTx ELSE tx[r]]
    /\ UNCHANGED <<tables, valkey, now, input, work, status, history>>

Crash ==
    /\ "crash" \in Faults
    /\ \E dead \in SUBSET {r \in Requests : pc[r] \in InFlight} : dead # {} /\ Lose(dead)

Tick ==
    /\ now < MaxTime
    /\ now' = now + 1
    /\ UNCHANGED <<postgres, valkey, pc, input, work, status, history>>

CacheServer ==
    /\ Evict \/ ApplyLate(now)
    /\ UNCHANGED <<postgres, now, pc, input, work, status, history>>

\* Every request has been dealt with.
Finished ==
    /\ \A r \in Requests : pc[r] \in Ended
    /\ UNCHANGED vars

Receive(r) == ReceiveSignUp(r) \/ ReceiveSignIn(r) \/ ReceiveProtected(r)

Step(r) ==
    \/ FindUser(r) \/ BeginTx(r) \/ SaveUser(r) \/ SaveSession(r)
    \/ WriteUserCreated(r) \/ WriteSessionCreated(r)
    \/ RevokeSession(r) \/ WriteSessionRevoked(r)
    \/ CommitTx(r) \/ StatementFails(r)
    \/ CacheSet(r) \/ CacheDelete(r)
    \/ CacheGet(r) \/ FindSession(r) \/ Refill(r) \/ GetMe(r)

Next ==
    \/ \E r \in Requests : Receive(r) \/ Step(r) \/ Panic(r)
    \/ Crash \/ Tick \/ CacheServer \/ Finished

Spec == Init /\ [][Next]_vars
=============================================================================
