# Verification of 1klas-identity

TLA+ modules for the identity service, the TLC runs that check them on small
instances, and TLAPS proofs of the results that matter for every instance.
`PROJECT.json` ties every definition to the lines it models, every property to a
mutation of the code that breaks it, and every hazard to the properties that
watch it.

    tlc -workers 2 -config service.cfg MC       # likewise for the other .cfg files
    tlc -workers 2 -config migrate.cfg MCMigrate
    tlapm SessionProofs.tla                     # likewise the other …Proofs modules

The module that goes with each `.cfg` is in the table of section 3.

## 1. Inventory

| Component | State | Operations | Talks to |
|---|---|---|---|
| domain (`domain/user`, `session`, `outbox`) | immutable values, aggregates | `NewEmail`, password policy, `HashOf`, `Session.IsActive`, event topics | nobody |
| argon2id hasher, token generator | none | `Hash`, `Verify`, `NewToken` | random source |
| Postgres adapter | tables `users`, `sessions`, `outbox_events`; open transactions; pool | `Begin/Commit/Rollback`, `SaveTx`, `RevokeTx`, `WriteTx`, `FindBy…` | Postgres |
| session cache adapter | one entry per token hash, with a TTL | `Set`, `Get`, `Delete`, `Ping`, `Close` | Valkey |
| use cases sign_up, sign_in, sign_out, get_me | none between requests | `Execute` | repositories, unit of work, cache |
| session middleware | none | cache probe, Postgres fallback, refill | cache, `SessionRepository`, next handler |
| origin middleware, handlers, error mapper, router | none | accept or refuse a request, status codes | use cases |
| recover, access log, request id, tenancy, tracing middleware | the request's `RequestCtx` | wrap a handler | logger, tracer |
| session cookie | in the browser: up to two cookie names | set, clear, read | browser |
| configuration | settings parsed once | `Load` | environment |
| migrations (`cmd/migrate`, boot flag) | goose version table | up, up-to, down, status, version | Postgres |
| server (`cmd/server`) | the process | boot, serve, shut down | all of the above |

All lasting state is in Postgres and Valkey. The server is one goroutine per
request; two requests meet only in the two stores, and so do several instances of
the server.

What is hard here:

* **Two stores, no common transaction.** Postgres is the truth, Valkey answers most
  requests. The cache is written after the commit, deleted after the commit, and
  refilled from a row read earlier. Each order of those steps, each failure between
  them and each late execution of a timed-out command must leave something sound.
* **Races decided by Postgres.** Two sign-ups for one mailbox meet in a unique
  index, two sign-outs in a row lock; the loser waits while it holds a connection.
* **Several statements, one transaction.** Row and event must come together, though
  any statement may fail, `Commit` may fail after having committed, and the process
  may die between two calls.
* **Deployments.** Instances stop while they serve, and others serve meanwhile. At shutdown
  every request's context ends between two calls, the cache and the pool are closed, settings
  (argon2id parameters, cookie name) change, and migrations run, fail and are run again.
* **Ways out of a handler.** A request may be refused by any layer or panic in any of them;
  only what is deferred still runs.
* **Time.** Expiry is checked by the middleware, by Valkey and in the payload, at
  different moments of a request.

What makes it right: one account per mailbox; answers that are true of the tables;
tables and outbox in agreement; nobody authenticated on anything but a real and
unexpired session; a sign-out that takes effect and stays; no request that waits
for ever. Around it: a log that tells what the client was told; guards that stand before every
handler; a browser that sends the session it was last given; a version table that agrees with
the schema; a process that refuses to serve with a broken configuration and ends when told to.

## 2. The modules

```
Domain ── Postgres ─┐
   └───── Valkey ───┴─ Identity ── Guarantees ── MC                      (TLC)
   └───── Ledger ················· (INSTANCE)  ├─ Rollout ── MCRollout   (TLC)
                      Identity ···· (INSTANCE) ┘      │
                                               │      │
                     TypeProofs ───────────────┘      └─ RolloutProofs
                        └─ SessionProofs ── LedgerProofs ── AnswerProofs ─┘

Transport ── MCTransport                Transport ── TransportProofs
Credentials ── MCCredentials            Credentials ─┬─ CredentialProofs
SessionCookie ── MCSessionCookie        SessionCookie ┘
Config ── Server ── MCServer            Server ─┬─ DeployProofs
Migrate ── MCMigrate                    Migrate ┘
```

The first group is the core. The others look at one part each, at the detail at which that part
is hard, and meet the core through what they abstract: Transport's handlers and session layer
are Identity's requests, Server's requests are the ones Rollout follows call by call.

* **Domain**: values. An e-mail is an address plus a spelling; `NewEmail` maps every
  spelling to the canonical one. A password is its length, which is all the policy
  and `Verify`'s length test look at; two different passwords have different
  lengths. A PHC string is determined by its password (the salt only makes two
  strings for one password differ). A token hash is `[sha256 |-> token]`. What a
  request draws at random (user id, session id, token, event ids) is named after the
  request: draws never collide. The tenant is always `tenant.DefaultID` and is
  left out.
* **Postgres**: the committed rows `users, sessions, outbox`, and `tx[r]`, what the
  transaction of request r holds. The operators are those of the adapter. They wait
  where Postgres makes them wait: `FreeConn` (the pool), `EmailPending` (a concurrent
  insert of the same unique key), `SessionLocked` (the row lock of an `UPDATE`).
  Isolation is READ COMMITTED, the default the code relies on; `now()` is the start of the
  transaction, `tx[r].at`. The context the handlers pass on is fasthttp's, which ends
  only when the server shuts down (see Rollout), so no deadline cuts a wait short.
* **Valkey**: the entries, each with the server's deadline `dies`, and `late`, the
  commands whose client gave up although the server may still run them. go-redis sends
  `SET` without an expiry when the TTL is not positive; such an entry never dies. A
  command that go-redis retries runs for the last time at the last attempt, or late.
* **Identity**: the service. `pc[r]` is the remote call request r makes next. An
  action is one remote call and all the code up to the next one, since that code
  touches nothing shared. Clients choose what they send from `Traffic[r]` and may
  send any cookie the service issued, a forged one or none. `work[r]` is what the
  handler holds: the session and user the middleware put in the request context, or
  the ones the use case is about to store. `authAt` and `signedOut` are history
  variables.
* **Ledger**: the abstract specification: registration, opening and revocation of a
  session as single steps together with their events. No requests in flight, no
  transactions, no cache, no failures.
* **Guarantees**: every property, and the refinement mapping
  (`accounts <- users, events <- outbox`).
* **MC**: the traffic of the small instances.
* **Rollout**: Identity while instances shut down. `cancelled` are the requests of instances
  that were told to stop: fasthttp closes the channel behind `RequestCtx.Done` before it
  waits, and `RequestCtx` is the context of every store call. From then on each
  remote call of such a request fails at once: a statement or `Begin`, also one that waits for a lock
  (`CancelledStatement`; the deferred `Rollback` runs under the same ended context, whereupon pgx drops
  the connection and Postgres rolls back), `Commit` (which may have been on its way), a cache
  command (not sent). `Exit` ends the handlers that hold no transaction when the
  process ends. `ImplementsIdentity` is a refinement: a rollout is a behaviour of
  Identity with all faults allowed, and so inherits what is proved of it.
* **Transport**: the chains of `router.go`, one layer at a time: down to the handler,
  up again (`Return`: access log, span), turned back with a status (`Answer`), or unwound by a panic (`Unwind`,
  deferred calls only). `ctx` is what the layers share through `RequestCtx`. The tenant goes round: `Tenancy` sets
  it, a sign-up or sign-in opens its session under it (`tenantOf`), and on a later request `Session` overwrites it
  with the session's. Otherwise Session and handlers are reduced to what they may answer, whatever the stores say.
* **SessionCookie**: one browser with several tabs whose requests overlap and whose
  responses arrive in any order; the jar holds both cookie names. `Flip` is a restart with the
  other `COOKIE_SECURE`. Over TLS, so that the browser accepts and sends both. Which sessions work is left open: a
  sign-out of an issued token may be let through and answered with 204 and `ClearFast` (`cleared`), or get no cookie:
  refused by a layer, or the handler's 500, after which the session may or may not be revoked.
* **Config**: `config.Load` as an operator. The widths of `int`, `time.Duration`, `uint32` and
  `uint8` and the units are constants.
* **Server**: `main` of `cmd/server`, call by call: boot with every early exit, the listening
  goroutine, a signal at any moment (before `NotifyContext` it kills), the `select`, the
  shutdown, the grace period, and the deferred calls in their order: cache, then pool, whose
  `Close` waits for connections that are out. A listener error exits without any of it. Time is not modelled: the grace period may end at once
  or after every request has ended. A listener that comes up after `Shutdown` found
  none to close is `late`.
* **Migrate**: runs of the migration runner, each from database call to database call,
  in turn or overlapping. `CutShort` ends a run at any of them: an error, the
  deadline, a kill. From goose 3.20 the model takes: the plan is made once, from the
  latest recorded version, and refused if a version below it is missing; a migration and its version
  row are one transaction; rows are numbered and `down` takes the newest, by its version; the version table is created with a plain
  `CREATE TABLE`. A race of two `CREATE SCHEMA IF NOT EXISTS` that Postgres reports as an error is
  a `CutShort`.
* **Credentials**: hashes, the dummy hash and the checks around the KDF, with instances
  that are redeployed with other argon2id parameters. A PHC string is its parameters and the
  password; the work of a check is the set of parameter sets the KDF ran with.

Call by call, in the code's order:

| Request | Actions |
|---|---|
| sign-up | `ReceiveSignUp` · `BeginTx` · `SaveUser` · `SaveSession` · `WriteUserCreated` · `WriteSessionCreated` · `CommitTx` · `CacheSet` |
| sign-in | `ReceiveSignIn` · `FindUser` · `BeginTx` · `SaveSession` · `WriteSessionCreated` · `CommitTx` · `CacheSet` |
| protected routes | `ReceiveProtected` · `CacheGet` · (`FindSession` · `Refill`) · then `Admit` |
| … sign-out | `BeginTx` · `RevokeSession` · `WriteSessionRevoked` · `CommitTx` · `CacheDelete` |
| … profile/me | `GetMe` |

`StatementFails` is the error return of every Postgres call but `Commit`, with the
deferred `Rollback`; it also stands for a failing random source, which ends a request
at the same place with the same answer. `CommitTx` has the third outcome: an error although
Postgres committed. `Panic` is a panic anywhere between two calls: the deferred `Rollback` runs and `Recover`
answers 500. On sign-out the session middleware runs before the origin check, as the router
chains them. `Crash` is the end of one or more instances with the requests they served; `Finished` lets a behaviour whose
requests have all ended stutter, so that TLC's deadlock check means something.

Two points on atomicity. The sign-in clock is read after argon2, some time
after the user was read; the model reads both at once, which loses nothing, because users
are never changed or removed: reading the user later gives the same. The
middleware's test of the cached expiry and of `IsActive` follow their call at once
and are read at the same tick.

Constants: `Faults` says which of these the environment commits: `db` (any Postgres call
fails), `cache` (a command fails without effect), `late` (a command times out and
may run later), `evict` (Valkey loses an entry), `crash`, `panic`.

## 3. The runs

Bounds: `Requests` (3 or 4) and `PoolSize` = 2. Time begins at 1. In `sessions` a lifetime is 2 ticks and time runs
to 3, in `service` they are 1 and 2: in both a session opened at the start expires. In the others time stands still.
One address suffices: requests for different addresses share only the pool. Two ticks of lifetime give a
session a time at which it is fresh, one at which it is older than the request that
opened it, and one at which it is gone. A pool of 2 is exhausted by two open transactions
while the third request waits.

| Run (module) | Instance | Properties | Distinct states |
|---|---|---|---|
| `service` (MC) | 4 requests: up to 3 sign-ups or sign-ins, all refusals, up to 3 reads or sign-outs of what they opened; `db`, `crash`, `panic` | `TypeOK`, `UniqueEmail`, `EmailTakenIsTrue`, `RefusalLeavesNothing`, `AnswersAreDurable`, `SignedOutStaysOut`, `OutboxMatchesTables`, `NoLeakedTransaction`, `AuthenticatedIsServed`, `ImplementsLedger`, `RevocationIsFinal` | 1,325,647 |
| `sessions` (MC) | sign-up, then 2 reads or sign-outs past expiry; `cache`, `late`, `evict`, `crash` | `AuthenticationIsGenuine`, `CacheMatchesSessions` | 186,541 |
| `rollout` (MCRollout) | 3 requests, 2 connections, one e-mail, one row lock; shutdowns, `evict`; only stopping instances are fair | `AnswersAreDurable`, `NoLeakedTransaction`, `ShutdownIsNo401`, `ImplementsIdentity`, `Drains`, `AllAnswered` | 55,222 |
| `transport` (MCTransport) | 2 requests on a connection, every route, panics; fair | `TransportTypeOK`, `LogIsTrue`, `Guarded`, `SpansEnd`, `EveryRequestWritten` | 103,855 |
| `cookies` (MCSessionCookie) | 3 overlapping tabs, either setting, up to two changes of `COOKIE_SECURE` | `LastResponseDecides`, `NoDeadCookie` | 458,411 |
| `migrate` (MCMigrate) | 4 runs, at most 2 at a time, each cut short anywhere | `VersionsMatchSchema`, `LoneRunSucceeds`, `SuccessMeansComplete` | 268,095 |
| `server` (MCServer) | one or two numbers at their edges, or settings missing; 2 requests, a signal or listener error at any moment; fair | `RequestsCanHash`, `FittingSettingsAreUsed`, `ClosesBehindShutdown`, `StopsOnSignal` | 96,763 |
| `credentials` (MCCredentials) | 2 instances, 2 parameter sets, 3 addresses, passwords of 11, 12, 37, 256 and 257 bytes | `OnlyTheChosenPassword`, `SameWorkForUnknownAddress` | 1,372 |

Four more runs show a disagreement (section 4), each a violation of one property: `stale_refill` and
`revoked_twice` (MC), `shutdown_signout` (MCRollout), `missing_log_line` (MCTransport).

Three requests are the least in which one of them can be overtaken by the other two:
a pending insert, a committed one and a loser; a sign-up, the reader of its session and the
one that signs it out. `stale_refill` needs a fourth, the request that is let through
afterwards, and `service` has four so that it would find the same if it were there.

`service` and `stale_refill` check the same `SignedOutStaysOut`. It holds while Valkey answers every
command and keeps every entry, and fails as soon as one entry may be lost.

The other bounds. Two requests on a connection are the least in which one may see what another
left in its `RequestCtx`. Three tabs and three tokens let a sign-in, a sign-out and a second
sign-in overlap; two changes of `COOKIE_SECURE` bring a name back that was in use before. Four runs of the migration runner are: something applied, cut short, rolled back, repaired, or
two that race and two that find what the race left. Commands are `up`, `up-to` the second version, `down` and `status` (`version` takes the
same steps as `status`). A `down` runs alone: it is started by hand, nothing runs one at boot or before a deployment.
Integers have 7 bits (`MaxInt` = 63, `Uint32` = 8, `MaxUint8` = 5) and the
settings 0, 1, 5, 6, 8, 13 and 40 lie on both sides of each edge: zero, the last that fits, the first that does not,
one that wraps to zero, one that wraps to something positive.

Deadlock is checked in every run: no reachable state leaves a request with nowhere to go.

### Fairness

`RolloutFairSpec` assumes little: only the requests of an instance that is shutting down are fair (their
calls fail at once); those of other instances may sit on locks and connections for ever, and `Drains` holds all the same.

`AllAnswered` states what more it needs as its hypothesis: weak fairness of `Serve(r)` for each request. The Go
runtime runs every goroutine that can run, Postgres grants a lock that is free, and pgxpool hands a
connection that is returned to a request that waits. Weak fairness is enough in the instance
because a request waits only for others that hold what it waits for, and once those have
ended nobody takes it again. Nothing is assumed of clients, the clock or the environment.

`TransportSpec` has weak fairness of the code of a request, which runs in one goroutine.
`ServerSpec` has weak fairness of `main`, of a computation that needs nobody, and of calls whose
context has ended; Postgres need never answer.

## 4. Where code and words differ

Shown by a run:

1. **A refill can undo a sign-out** (`middleware/session.go:99`, run `stale_refill`). Request A misses the
   cache and reads an active row. Request B signs the session out: commit, then `Delete`. A
   now writes the row it read to the cache. Until the session expires, requests with the
   cookie are served from the cache. One evicted entry suffices. The middleware's
   comment and the end-to-end test promise 401.
2. **Sign-out writes an event per call** (`sign_out_usecase.go:90`, run `revoked_twice`). The comment says
   `Idempotent`; the row is (`COALESCE`), the outbox is not: two concurrent sign-outs
   leave two `session.revoked` events.
3. **A shutdown can undo a sign-out** (`cmd/server/main.go:159`, run `shutdown_signout`). The server is told to stop
   between a sign-out's `Commit` and its `Delete`: the `Delete` has an ended context and is not sent, the
   client gets 204, and other instances keep serving the session from the cache. The comment on the `Delete`
   relies on cache misses; this is a hit. Another comment (`sign_out_usecase.go:30`) accepts a failed `Delete`,
   since "the cache entry will expire naturally": that is when the session would have. No store fails.
4. **A panic leaves no access log line** (`access_log.go:70`, run `missing_log_line`). "AccessLog emits one JSON line
   per request" (line 29), but after `next` has returned and not deferred; `Recover` stands outside it. The client gets
   500. `LogIsTrue` says that this is the only way to lose a line on a known route; unknown routes, answered
   outside every chain, have none.

Met while modelling; the models do what the code does, and the properties named say how far the words hold:

* **A repeated sign-out is a 401** (`middleware/session.go:83`). The API document (`api/openapi.yaml:97`) and
  the error mapper (`mapper.go:88`) promise 204; the middleware in front refuses a revoked session first.
* **Sign-out after a change of `COOKIE_SECURE`** (`session_cookie.go:56`) clears the cookie of the
  configured name, not the one it read. When the setting went from true to false, the
  `__Host-` cookie that is left shadows every later sign-in until it expires. `LastResponseDecides`
  therefore speaks of a setting that stays, and `NoDeadCookie` of the name the sign-out's answer clears.
* **A sign-out that ends in 500 keeps the cookie** (`sign_out_handler.go:29`), although its commit may have gone
  through and the session be revoked. `NoDeadCookie` speaks of sign-outs that were answered with 204.
* **`migrate down` cannot undo the first migration**: its Down section drops the table goose
  records it in. It is an exception in `LoneRunSucceeds`.
* **`migrate down` can get stuck above the first migration.** Two `up`s start on an empty database and plan 1 to 4;
  one applies all of them, the other then repeats 1 (`CREATE SCHEMA IF NOT EXISTS`), which inserts a second row of
  version 1, and fails at 2. The newest row is now that of version 1, `down` takes it, and every `down` fails as above
  although 2 to 4 are applied, against "roll back the most recent migration" (`cmd/migrate/main.go:63`).
  `LoneRunSucceeds` says that it takes two overlapping runs; an `up` works all the same.
* **`migrate up` is not atomic** (`cmd/migrate/main.go:139`): each migration is. What an interrupted run leaves
  satisfies `VersionsMatchSchema`, and the next run goes on from there.
* **Migrations are not applied at service start** (`cmd/server/main.go:54`) unless asked for; the README
  (line 83) says they are.
* **Large settings wrap** (`config.go:95`). Accepted values of `SESSION_TTL_HOURS`, the timeouts,
  `ARGON2_MEMORY_KIB` and `ARGON2_TIME` need not be what the server uses; `FittingSettingsAreUsed` holds for those
  that fit their type. A number of passes that wraps to zero ends the process at boot (`RequestsCanHash`); the
  others go unnoticed.
* **`Verify` does not always run the KDF** (`hasher.go:78`): a password above 256 bytes returns first,
  alike for known and unknown addresses (`SameWorkForUnknownAddress`).

## 5. The proofs

Every safety invariant and every action property the passing runs check is also a theorem, for every value
of the constants: any requests, traffic, lifetime, pool and faults; any number of tabs, clients, migration
runs and requests on a connection; any integer widths. So are both refinements. The inductive invariants
were first checked by TLC on the instances of section 3.

### What they assume

The named assumptions of the modules give constants their types: cookies that were not drawn are not
requests (`TokensAssumption`), spellings, passwords, traffic, arrivals and commands have their
types, bounds are positive, and model values that stand for "none" or for a class of cookie differ from real
ones (`AbsentAssumption`, `CookieAssumption`, `TransportAssumption`). Sets of requests, clients, runs and tabs
need not be finite. Two kinds of theorem have a hypothesis of their own:

* `SignOutIsFinal` assumes `CacheIsReliable`: no cache command fails or is late and no entry is lost. The run
  `stale_refill` shows that it cannot be dropped.
* The `Rollout…` theorems but `RolloutImplements` assume `Stoppable`: `db`, `cache` and `crash` are among the faults. This takes
  nothing away. A rollout with fewer faults has fewer behaviours; the hypothesis is there because the
  service's theorems speak of one set of faults, and a shutdown is made of these three.

### The core

* **`TypeProofs`**: `TypeCorrect` (`TypeOK`). Not inductive: the user id a
  handler stores is a user id only because the handler got that far. `Control` ties a
  request's next call to its kind, its cookie and what it has found out;
  `TypeInv == TypeOK /\ Control` is inductive. One lemma per action.
* **`SessionProofs`**: `CacheAgrees` (`CacheMatchesSessions`) and
  `GenuineAuthentication` (`AuthenticationIsGenuine`). What the middleware finds in the cache was
  sent by a request that may have ended long before, which had itself read it from, or
  committed it to, Postgres some calls earlier. `SessionInv` follows the session
  all the way:
  * `ForeignKey`: a session, committed or pending, has its user;
  * `Held`: a handler past `SaveSession` has its session in its transaction; past
    `Commit`, and once authenticated, what it holds agrees with a row; whoever was
    let through was so before that row's expiry;
  * `CacheMatchesSessions`: so does every entry, and every command still under way.

  `GrowsStep` (rows are never removed and keep all but `revoked`) carries each agreement
  across every other request's step.
* **`LedgerProofs`**: `OneAccountPerMailbox`, `OutboxTellsTheTruth`, `NoLeak`, `FirstRevocationStands` and the
  refinement `ServiceIsALedger`. For the first, `EmailInv` says that an e-mail occurs once among
  committed *and pending* users; `InsertUser` keeps it because of its two guards, `Commit` because
  it only moves users. For the others, `LedgerInv`:
  * `TxOf`: exactly what a transaction holds at each call of its handler, event for event, and nothing outside;
  * `FreshOf`: identifiers a request has drawn are unused until it commits, and stay so if it is refused;
  * `OwnerOf`: whose session a handler is opening, and that it saw the right password;
  * `LockOf`: the revocation a sign-out has prepared is still right when it commits. `COALESCE` kept an
    earlier time, and the row lock keeps any other sign-out away until then;
  * `Rows`, `Pool`: ids and hashes are keys, open transactions fit the pool.

  A commit is then a whole ledger step: registration, opening or revocation with its events.
  All other steps leave the tables alone.
* **`AnswerProofs`**: `SuccessIsDurable`, `RefusalIsClean`, `TakenIsTaken`, `MeIsServed`. A response is computed calls after
  the state it speaks of was read or written. `AnswerOf` says what each handler may rely on meanwhile, and
  `DurableStays` that later steps of anybody leave it true.
  `SignOutIsFinal` needs more (`SignOutInv`): a cache that loses nothing covers every session a client may
  present until it expires (`Covered`), so nobody finds an active row in Postgres, nobody is at `Refill`, and
  the `DEL` of a sign-out is the last word on its key.
* **`RolloutProofs`**: `GoodCookieIsNo401` from `TurnedAway` (clients present only issued tokens, whose rows are
  committed). `RolloutImplements` maps every rollout step to a step of Identity with all faults: a cancelled
  call is a failing one, `Exit` is a `Crash`, `Shutdown` a stutter. `RolloutIsTheService` says the same of one
  set of faults, and the three rollout invariants follow from it.

### The other parts

* **`CredentialProofs`**: passwords and cookies. `Stored`: a stored hash is that of the password chosen at sign-up and of a length `Verify`
  will look at, and every dummy hash carries its instance's parameters. `CookieInv`: while the setting stays only one name
  is in use (`OneName`); a token on its way to the browser is in nobody's hands yet (`Unused`), so that no cleared cookie
  ever returns; a cleared cookie in the jar has its clearing response under way, name by name (`Clearing`), which a
  change of the setting leaves as it is.
* **`TransportProofs`**: `TransportInv` says, layer by layer, what holds on the way down, up or while unwinding:
  which guards have been passed (`Admission`), that the request's and every session's tenant are the default one or not
  yet set (`Tenanted`), that a span is open exactly between its layers (`Spans`), and what the
  access log has of the request being served (`Logged`). `Layers` gives each chain's layers by position, once; the steps
  are then arithmetic on `layer`.
* **`DeployProofs`**: Server and Migrate. `ServerInv`: the listener comes up behind `sign_in.New` (`Tried`), settings are those
  of `Load` (`Settings`), and main gets to its deferred calls only through `Shutdown`, which found no listener or ended
  all contexts (`Closing`). `FittingIsKept` does the modular arithmetic of the conversions. `MigrateInv`: a version
  above the first is only ever inserted above all others (`Table`), so the row a `down` takes is the highest, or a
  repeated row of version 1; the migrations a run has left are those up to its target, and the one before them is recorded
  (`Plans`), although other runs may have applied them meanwhile; whoever runs beside another has been noted
  (`Lone`), so that a run which met nobody finds what it read still true; and as long as nobody met anybody every
  version is recorded once, in order, so that the newest row is the highest (`NewestIsHighest`).

### Only model-checked

Liveness: `AllAnswered`, `Drains`, `EveryRequestWritten` and `StopsOnSignal`, since fairness and `ENABLED` are out of the prover's
reach. And the four violations of section 4, which are facts about an instance.

## 6. Not modelled

* The wording of responses and logs, JSON and PHC formats, cookie attributes: no property is about them.
* Timing: which KDF runs is modelled (Credentials), how long anything takes is not. After a change of the
  argon2id settings an account keeps the parameters of its hash, so that `SameWorkForUnknownAddress`
  speaks of accounts made under the instance's settings.
* A corrupt cache payload: `Get` reports a miss, the same step as a failing `Get`.
* Fractions of a tick: Postgres keeps microseconds, the payload a sign-up caches keeps
  nanoseconds, so "the same expiry" in `CacheMatchesSessions` means to the microsecond.
* The tracing set-up and the embedded API document: no state. The `With…`/`…From` helpers on
  `context.Context`: nothing in the service calls them.
* The 3 s deadline of the boot ping and the 60 s one of boot migrations: they only make those calls fail.
* A nil cache: the server always wires one.
* The outbox drainer: not part of this repository.

## 7. Plan

Done, in this order: Domain, Postgres, Valkey, Identity with all four requests, the ledger and
its refinement and the first proofs of the core; then panics and the death of single instances,
Rollout, Transport, SessionCookie, Migrate, Config and Server, Credentials; then the proofs of all their
invariants, action properties and refinements.

Next: state what the ledger's own steps promise (one account per address, a revoked session stays
revoked) and prove it of Ledger, so that it reaches the service through the refinement; follow the outbox
rows that a drainer outside this repository would read.
