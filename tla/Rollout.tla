------------------------------ MODULE Rollout ------------------------------
(***************************************************************************)
(* A rolling deployment: an instance is told to stop while it serves       *)
(* requests, and others keep serving.  main calls ShutdownWithContext,     *)
(* which closes fasthttp's done channel before it waits.  RequestCtx is    *)
(* the context of every use case, repository and cache call, so from then  *)
(* on each remote call of the instance fails at once: a statement, Commit, *)
(* even the Rollback of the deferred function (pgx then drops the          *)
(* connection, and Postgres rolls back), a cache command.  A call that     *)
(* still succeeds while the channel closes came before Shutdown.           *)
(***************************************************************************)
EXTENDS Guarantees

VARIABLE cancelled      \* requests of instances that are shutting down

rolloutVars == <<vars, cancelled>>

RolloutInit == Init /\ cancelled = {}

Draining == {r \in cancelled : pc[r] \in InFlight}

-----------------------------------------------------------------------------
\* SIGTERM: the requests the instance is serving lose their context.
Shutdown ==
    /\ \E served \in SUBSET ({r \in Requests : pc[r] \in InFlight} \ cancelled) :
        served # {} /\ cancelled' = cancelled \cup served
    /\ UNCHANGED vars

DetachedStatement(r) ==              \* (mutant) statements run under context.Background()
    /\ \/ pc[r] \in {"revoke", "saveUser"} /\ (SaveUser(r) \/ RevokeSession(r))
       \/ pc[r] \in DbSteps \ {"revoke", "saveUser"} /\ Abort(r, 500)
    /\ UNCHANGED <<valkey, now, input, work, history>>
KeptStatement(r) ==                  \* (mutant) Rollback needs a live context, the connection stays
    /\ pc[r] \in DbSteps
    /\ Answer(r, 500)
    /\ UNCHANGED <<postgres, valkey, now, input, work, history>>
\* "context canceled" from a statement, a query or Begin, also while it waits
\* for a lock or for a connection: ErrInternal.
CancelledStatement(r) ==
    /\ pc[r] \in DbSteps
    /\ Abort(r, 500)
    /\ UNCHANGED <<valkey, now, input, work, history>>

IgnoredCancelledCommit(r) ==         \* (mutant) the error of Commit is not looked at
    /\ pc[r] = "commit"
    /\ \/ Commit(r) /\ Answer(r, 500)
       \/ Abort(r, IF Is(r, "signOut") THEN 204 ELSE IF Is(r, "signUp") THEN 201 ELSE 200)
    /\ UNCHANGED <<valkey, now, input, work, history>>
\* The COMMIT may have been on its way when the context ended.
CancelledCommit(r) ==
    /\ pc[r] = "commit"
    /\ \/ Commit(r) /\ Answer(r, 500)
       \/ Abort(r, 500)
    /\ UNCHANGED <<valkey, now, input, work, history>>

BlockingCancelledCache(r) ==         \* (mutant) a failing cache refuses the caller
    /\ \/ pc[r] = "cacheSet" /\ Answer(r, IF Is(r, "signUp") THEN 201 ELSE 200)
       \/ pc[r] = "cacheDelete" /\ Answer(r, 204)
       \/ pc[r] = "cacheGet" /\ Goto(r, "findSession")
       \/ pc[r] = "refill" /\ Answer(r, 401)
    /\ UNCHANGED <<postgres, valkey, now, input, work, history>>
\* A cache command is not sent; its error is logged.
CancelledCache(r) ==
    /\ \/ pc[r] = "cacheSet" /\ Answer(r, IF Is(r, "signUp") THEN 201 ELSE 200)
       \/ pc[r] = "cacheDelete" /\ Answer(r, 204)
       \/ pc[r] = "cacheGet" /\ Goto(r, "findSession")
       \/ pc[r] = "refill" /\ Admit(r)
    /\ UNCHANGED <<postgres, valkey, now, input, work, history>>

CancelledStep(r) ==
    /\ r \in cancelled
    /\ CancelledStatement(r) \/ CancelledCommit(r) \/ CancelledCache(r)
    /\ UNCHANGED cancelled

\* The grace period is over (or every connection is idle) and main returns.
\* pool.Close waits for the connections that transactions hold; a handler that
\* holds none, busy computing a hash, ends with the process.
Exit ==
    /\ \E dead \in SUBSET {r \in Draining : ~tx[r].open} : dead # {} /\ Lose(dead)
    /\ UNCHANGED cancelled

Serve(r) == r \notin cancelled /\ Step(r) /\ UNCHANGED cancelled

RolloutNext ==
    \/ \E r \in Requests : Receive(r) /\ UNCHANGED cancelled
    \/ \E r \in Requests : Serve(r) \/ CancelledStep(r)
    \/ Shutdown \/ Exit
    \/ (Tick \/ CacheServer \/ Finished) /\ UNCHANGED cancelled

RolloutSpec == RolloutInit /\ [][RolloutNext]_rolloutVars

(* Only the instance that shuts down is scheduled fairly: the others may   *)
(* sit on their locks and connections.                                     *)
RolloutFairSpec == RolloutSpec /\ \A r \in Requests : WF_rolloutVars(CancelledStep(r))

-----------------------------------------------------------------------------
(* A shutdown does nothing that failing calls and dying processes could    *)
(* not do: the rollout implements the service with all its faults, so what *)
(* is proved of the service for every set of faults holds of it too        *)
(* (cmd/server/main.go, the shutdown; the error returns of the use cases). *)
AnyFaults == INSTANCE Identity WITH Faults <- FaultKinds
ImplementsIdentity == AnyFaults!Spec

(* An instance that was told to stop drains, whatever the other instances  *)
(* do: no request of it keeps waiting for a row lock, an e-mail or a       *)
(* connection somebody else holds, so pool.Close returns.                  *)
Drains == \A r \in Requests : r \in cancelled ~> pc[r] \in Ended

(* If the runtime runs every goroutine that can run and the pool hands a   *)
(* freed connection to a waiter, every request that arrives is answered,   *)
(* or lost with its process: no wait for a connection, for an e-mail or    *)
(* for a row lock lasts for ever, with instances stopping or without.      *)
AllAnswered == (\A r \in Requests : WF_rolloutVars(Serve(r))) => EveryRequestAnswered

(* A request that was let through, or held a good cookie, is never told    *)
(* that its session is invalid because the server is stopping: it gets its *)
(* answer or a 500 (session middleware: "auth is NEVER blocked on cache    *)
(* outage").                                                               *)
ShutdownIsNo401 ==
    \A r \in Requests :
        status[r] = 401 /\ cookie[r] \in Requests =>
            \E s \in sessions : s.hash = HashOf(cookie[r]) /\ (s.revoked # NULL \/ s.expires <= now)
=============================================================================
