----------------------------- MODULE Guarantees -----------------------------
(***************************************************************************)
(* What the identity service guarantees, over the state of module Identity *)
(***************************************************************************)
EXTENDS Identity

(* One account per mailbox, however its address was spelt and however many *)
(* sign-ups ran at once: NewEmail normalises (domain/user/email.go) and    *)
(* users_tenant_email_uq serialises the inserts of SaveTx.                 *)
UniqueEmail ==
    \A u, v \in users : u.email.addr = v.email.addr => u = v

(* The outbox tells the truth: a row is there if and only if the event     *)
(* that announces it is, whatever failed or crashed on the way, because    *)
(* each use case writes both in one transaction.                           *)
OutboxMatchesTables ==
    /\ {u.id : u \in users} = {e.aggregate : e \in {f \in outbox : f.topic = TopicUserCreated}}
    /\ {s.id : s \in sessions} = {e.aggregate : e \in {f \in outbox : f.topic = TopicSessionCreated}}
    /\ {s.id : s \in {t \in sessions : t.revoked # NULL}}
         = {e.aggregate : e \in {f \in outbox : f.topic = TopicSessionRevoked}}

(* A success is answered only for what Postgres holds: 201 for a user with *)
(* the address and the password sent, and its session; 200 on sign-in for  *)
(* a session of the user whose address and password were sent; 204 for a   *)
(* session that is revoked (the three use cases answer after Commit).      *)
AnswersAreDurable ==
    \A r \in Requests :
        /\ status[r] \in {200, 201} /\ call[r].kind \in {"signUp", "signIn"} =>
            \E u \in users, s \in sessions :
                /\ u.email.addr = call[r].email.addr
                /\ u.hash = Hash(call[r].password)
                /\ s.id = r /\ s.hash = HashOf(r) /\ s.user = u.id
                /\ call[r].kind = "signUp" => u.id = r
        /\ status[r] = 204 =>
            \E s \in sessions : s.hash = HashOf(cookie[r]) /\ s.revoked # NULL

(* A request refused with a 4xx code has written nothing: no user, session *)
(* or event of its own, and no revocation (the early returns of the use    *)
(* cases come before Commit).                                              *)
RefusalLeavesNothing ==
    \A r \in Requests :
        status[r] \in {400, 401, 403, 409} =>
            /\ \A u \in users : u.id # r
            /\ \A s \in sessions : s.id # r
            /\ \A e \in outbox : e.by # r

(* 409 email_taken is answered only when another, committed account has    *)
(* the address: a sign-up that lost a race to one that then rolled back    *)
(* must go through (UserRepository.SaveTx waits in the unique index).      *)
EmailTakenIsTrue ==
    \A r \in Requests :
        status[r] = 409 => \E u \in users : u.email.addr = call[r].email.addr /\ u.id # r

(* Whoever is let through the session middleware held the token of a real  *)
(* session, was identified as its owner, an existing user, and at that     *)
(* moment the session had not expired: whether the answer came from the    *)
(* cache or from Postgres, and whatever became of cache commands.          *)
AuthenticationIsGenuine ==
    \A r \in Requests :
        authAt[r] # NULL =>
            \E s \in sessions, u \in users :
                /\ s.hash = HashOf(cookie[r])
                /\ s.id = work[r].session
                /\ s.user = work[r].user /\ u.id = s.user
                /\ authAt[r] < s.expires

(* profile/me never tells an authenticated caller that the session is      *)
(* invalid: FindByID finds the user a session belongs to (get_me, with the *)
(* foreign key of sessions.user_id).                                       *)
AuthenticatedIsServed ==
    \A r \in Requests :
        authAt[r] # NULL /\ call[r].kind = "getMe" => status[r] # 401

(* A committed session the payload of a cache entry agrees with.           *)
Backed(key, payload) ==
    \E s \in sessions :
        /\ s.hash = key /\ s.id = payload.session
        /\ s.user = payload.user /\ s.expires = payload.expires

(* Everything the cache holds, or may still be told by a command the       *)
(* client gave up on, is what Postgres holds for that token: written       *)
(* through only after Commit, refilled only from a row.                    *)
CacheMatchesSessions ==
    /\ \A e \in cache : Backed(e.key, e.payload)
    /\ \A c \in late : c.op = "SET" => Backed(c.key, c.payload)

(* A request that came after the sign-out of its session was confirmed     *)
(* with 204 is not let through.  True as long as Valkey answers every      *)
(* command and loses no entry.                                             *)
SignedOutStaysOut ==
    \A r \in signedOut : authAt[r] = NULL

(* A transaction is open exactly while its request is between Begin and    *)
(* Commit or the deferred Rollback, so no ended request keeps a connection *)
(* or a lock, and the pool is never overdrawn (UnitOfWork).                *)
NoLeakedTransaction ==
    /\ \A r \in Requests : IF pc[r] \in TxSteps THEN tx[r].open ELSE tx[r] = NoTx
    /\ Cardinality({r \in Requests : tx[r].open}) <= PoolSize

(* Committed state only grows: users and events stay, a session keeps its  *)
(* identity and expiry, and the time of its first revocation is never      *)
(* moved or cleared (COALESCE in RevokeTx, under the row lock).            *)
RevocationIsFinal ==
    [][ /\ users \subseteq users' /\ outbox \subseteq outbox'
        /\ \A s \in sessions : \E t \in sessions' :
            /\ t = [s EXCEPT !.revoked = t.revoked]
            /\ s.revoked # NULL => t = s ]_vars

(* The service implements the ledger: whatever interleaves, fails or       *)
(* crashes, the committed tables change only by whole ledger steps.        *)
LedgerOf == INSTANCE Ledger WITH accounts <- users, events <- outbox
ImplementsLedger == LedgerOf!LedgerSpec

(* Every request that arrives is answered, or lost to a crash: no wait for *)
(* a connection, for an e-mail or for a row lock lasts for ever.           *)
EveryRequestAnswered ==
    \A r \in Requests : pc[r] \in InFlight ~> pc[r] \in Ended

-----------------------------------------------------------------------------
(* What the repository says of sign-out, and the code does not do.         *)

(* "Execute revokes the session and writes the outbox event. Idempotent."  *)
(* (usecase/sign_out/sign_out_usecase.go): one revocation, one event.      *)
RevokedOnce ==
    \A e, f \in outbox :
        e.topic = TopicSessionRevoked /\ f.topic = TopicSessionRevoked
        /\ e.aggregate = f.aggregate => e = f
=============================================================================
