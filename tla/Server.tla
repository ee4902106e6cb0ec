------------------------------- MODULE Server -------------------------------
(***************************************************************************)
(* main of cmd/server: it loads the configuration, opens the pool, may     *)
(* migrate, opens and pings the cache, wires the use cases, serves until a *)
(* signal or a listener error, shuts fasthttp down within a grace period   *)
(* and runs its deferred calls: the cache closes, then the pool, which     *)
(* waits for the connections that are out.  A request computes, and may    *)
(* hold a connection of the pool while Postgres works.                     *)
(***************************************************************************)
EXTENDS Config

CONSTANTS Environments,     \* environments the process may be started in
          Clients           \* one request each

VARIABLES env, cfg,
          pc,               \* where main is
          code,             \* its exit status
          signalled,        \* the context of NotifyContext is done
          migrated,         \* this process has applied the migrations
          listener,         \* fasthttp's: none, unbound, up, failed, closed, or up too late
          stopping,         \* fasthttp's done channel is closed: no RequestCtx is live
          request

serverVars == <<env, cfg, pc, code, signalled, migrated, listener, stopping, request>>

NoConfig == <<>>
NotExited == -1

ServerInit ==
    /\ env \in Environments /\ cfg = NoConfig
    /\ pc = "load" /\ code = NotExited
    /\ signalled = FALSE /\ migrated = FALSE
    /\ listener = "none" /\ stopping = FALSE
    /\ request = [c \in Clients |-> "none"]

Proceed(step) == pc' = step /\ UNCHANGED code
Exit(status) == pc' = "exited" /\ code' = status
Serving == UNCHANGED <<listener, stopping, request>>

-----------------------------------------------------------------------------
\* os.Exit(1) skips the deferred calls.
LoadConfig ==
    /\ pc = "load"
    /\ \/ LoadFails(env) /\ Exit(1) /\ UNCHANGED cfg
       \/ ~LoadFails(env) /\ Proceed("pool") /\ cfg' = Load(env)
    /\ Serving /\ UNCHANGED <<env, signalled, migrated>>

\* pgxpool.New refuses a malformed URL; it does not connect.
NewPool ==
    /\ pc = "pool"
    /\ \/ Exit(1)
       \/ Proceed(IF cfg.runMigrationsOnBoot THEN "migrate" ELSE "cache")
    /\ Serving /\ UNCHANGED <<env, cfg, signalled, migrated>>

\* A signal ends the context of the migrations and of the ping.
RunMigrations ==
    /\ pc = "migrate"
    /\ \/ Exit(1) /\ UNCHANGED migrated
       \/ ~signalled /\ migrated' = TRUE /\ Proceed("cache")
    /\ Serving /\ UNCHANGED <<env, cfg, signalled>>

NewCache ==
    /\ pc = "cache"
    /\ \/ Exit(1)
       \/ Proceed("ping")
    /\ Serving /\ UNCHANGED <<env, cfg, signalled, migrated>>

Ping ==
    /\ pc = "ping"
    /\ \/ Exit(1)
       \/ ~signalled /\ Proceed("wire")
    /\ Serving /\ UNCHANGED <<env, cfg, signalled, migrated>>

\* argon2.IDKey panics when the number of passes or of threads is below one.
HasherWorks == cfg.number["ARGON2_TIME"] >= 1 /\ cfg.number["ARGON2_PARALLELISM"] >= 1

LazyWire ==                          \* (mutant) sign_in.New hashes its dummy password on first use
    /\ pc = "wire"
    /\ Proceed("serve")
    /\ Serving /\ UNCHANGED <<env, cfg, signalled, migrated>>
\* sign_in.New hashes its dummy password with the configured parameters; it
\* fails when there is no randomness for the salt.
Wire ==
    /\ pc = "wire"
    /\ \/ Exit(1)
       \/ ~HasherWorks /\ Exit(2)
       \/ HasherWorks /\ Proceed("serve")
    /\ Serving /\ UNCHANGED <<env, cfg, signalled, migrated>>

-----------------------------------------------------------------------------
\* The listening goroutine.  When main has already looked for a listener to
\* close, this one comes too late to be closed.
Listen ==
    /\ listener = "none" /\ pc \in {"serve", "closeCache", "closePool"}
    /\ listener' \in {"unbound", IF pc = "serve" THEN "up" ELSE "late"}
    /\ UNCHANGED <<env, cfg, pc, code, signalled, migrated, stopping, request>>

\* Accept fails for good: errCh.
ListenerError ==
    /\ listener = "up" /\ pc = "serve"
    /\ listener' = "failed"
    /\ UNCHANGED <<env, cfg, pc, code, signalled, migrated, stopping, request>>

Alive == pc # "exited"

\* A request takes a connection from the pool, or ends without one: it needs
\* none, its context is done, the pool is closed.
Accept(c) ==
    /\ Alive /\ listener \in {"up", "late"} /\ request[c] = "none"
    /\ request' = [request EXCEPT ![c] = "computing"]
    /\ UNCHANGED <<env, cfg, pc, code, signalled, migrated, listener, stopping>>

Compute(c) ==
    /\ Alive /\ request[c] = "computing"
    /\ \/ ~stopping /\ pc # "closePool" /\ request' = [request EXCEPT ![c] = "holding"]
       \/ request' = [request EXCEPT ![c] = "answered"]
    /\ UNCHANGED <<env, cfg, pc, code, signalled, migrated, listener, stopping>>

\* Postgres answers, or the context ends the call.
Release(c) ==
    /\ Alive /\ request[c] = "holding"
    /\ request' = [request EXCEPT ![c] = "answered"]
    /\ UNCHANGED <<env, cfg, pc, code, signalled, migrated, listener, stopping>>

-----------------------------------------------------------------------------
\* Before NotifyContext a signal kills the process.
Signal ==
    /\ Alive /\ ~signalled
    /\ IF pc = "load" THEN Exit(143) ELSE UNCHANGED <<pc, code>>
    /\ signalled' = TRUE
    /\ UNCHANGED <<env, cfg, migrated, listener, stopping, request>>

DetachedShutdown ==                  \* (mutant) closes its listener itself, so that requests keep their context
    /\ pc = "serve" /\ signalled
    /\ \/ listener \in {"none", "unbound"} /\ Proceed("closeCache") /\ UNCHANGED <<listener, stopping>>
       \/ /\ listener \in {"up", "failed"}
          /\ Proceed("drain") /\ listener' = "closed" /\ UNCHANGED stopping
    /\ UNCHANGED <<env, cfg, signalled, migrated, request>>
\* The select's ctx.Done case and the start of ShutdownWithContext: without a
\* listener it returns at once; otherwise it closes listener and done channel.
\* A listener that does not close is an error.
Shutdown ==
    /\ pc = "serve" /\ signalled
    /\ \/ listener \in {"none", "unbound"} /\ Proceed("closeCache") /\ UNCHANGED <<listener, stopping>>
       \/ /\ listener \in {"up", "failed"}
          /\ Proceed("drain") /\ listener' = "closed" /\ stopping' = TRUE
       \/ listener \in {"up", "failed"} /\ Exit(1) /\ UNCHANGED <<listener, stopping>>
    /\ UNCHANGED <<env, cfg, signalled, migrated, request>>

ReturningServerError ==              \* (mutant) returns, and runs the deferred calls, instead of os.Exit
    /\ pc = "serve" /\ listener \in {"unbound", "failed"}
    /\ Proceed("closeCache")
    /\ Serving /\ UNCHANGED <<env, cfg, signalled, migrated>>
\* The select's errCh case.
ServerError ==
    /\ pc = "serve" /\ listener \in {"unbound", "failed"}
    /\ Exit(1)
    /\ Serving /\ UNCHANGED <<env, cfg, signalled, migrated>>

Open == {c \in Clients : request[c] \in {"computing", "holding"}}

\* Every connection is done, or the grace period is over, which is no error.
Drain ==
    /\ pc = "drain"
    /\ Proceed("closeCache")
    /\ Serving /\ UNCHANGED <<env, cfg, signalled, migrated>>

CloseCache ==
    /\ pc = "closeCache"
    /\ Proceed("closePool")
    /\ Serving /\ UNCHANGED <<env, cfg, signalled, migrated>>

ClosePool ==
    /\ pc = "closePool"
    /\ \A c \in Clients : request[c] # "holding"
    /\ Exit(0)
    /\ Serving /\ UNCHANGED <<env, cfg, signalled, migrated>>

Boot == LoadConfig \/ NewPool \/ RunMigrations \/ NewCache \/ Ping \/ Wire
Stop == Shutdown \/ ServerError \/ Drain \/ CloseCache \/ ClosePool
Gone == pc = "exited" /\ UNCHANGED serverVars

ServerNext ==
    \/ Boot \/ Listen \/ ListenerError \/ Signal \/ Stop
    \/ \E c \in Clients : Accept(c) \/ Compute(c) \/ Release(c)
    \/ Gone

\* main runs, a KDF ends, and a call ends whose context has ended.  Nothing is
\* assumed of Postgres, of clients or of the listening goroutine.
ServerFairness ==
    /\ WF_serverVars(Boot \/ Stop)
    /\ \A c \in Clients :
        WF_serverVars(Compute(c)) /\ WF_serverVars(stopping /\ Release(c))

ServerSpec == ServerInit /\ [][ServerNext]_serverVars /\ ServerFairness

-----------------------------------------------------------------------------
(* No request meets a hasher that panics: a number of passes that wraps to *)
(* zero ends the process at boot, in sign_in.New, and is not left for the  *)
(* first sign-up.                                                          *)
RequestsCanHash == Open # {} => HasherWorks

\* The number fits the type it is converted to.
Fits(name, n) ==
    CASE name \in Durations -> n * Unit(name) <= MaxInt
      [] name = "ARGON2_PARALLELISM" -> TRUE
      [] OTHER -> n < Uint32

(* A process that got past Load uses every number that fits its type as it *)
(* was given, and refuses a parallelism that does not fit.                 *)
FittingSettingsAreUsed ==
    pc \notin {"load", "exited"} =>
        \A name \in Numeric :
            LET v == env.number[name]
            IN v # Unset /\ Fits(name, v) =>
                cfg.number[name] = IF name \in Durations THEN v * Unit(name) ELSE v

ClosingSteps == {"drain", "closeCache", "closePool"}

(* While main drains and closes cache and pool, every request that is left *)
(* has lost its context, so that Close waits only for calls that are       *)
(* ending, also when the grace period ran out or a listener error came     *)
(* first.  Requests of a listener that came up after Shutdown had looked   *)
(* for one keep theirs.                                                    *)
ClosesBehindShutdown ==
    pc \in ClosingSteps /\ Open # {} => stopping \/ listener = "late"

(* A signal ends the process, even when Postgres answers nothing, unless   *)
(* the listener came up after Shutdown had looked for one.                 *)
StopsOnSignal == signalled ~> (pc = "exited" \/ listener = "late")
=============================================================================
