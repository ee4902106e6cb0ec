----------------------------- MODULE Transport -----------------------------
(***************************************************************************)
(* The middleware chains of the router.  A connection's requests are       *)
(* served one after the other; each goes down through the layers of its    *)
(* route to the handler and back up, or is turned back by a layer.  Code   *)
(* may panic on the way down, in the handler and on the way up: then the   *)
(* layers are unwound, running only what they deferred.                    *)
(***************************************************************************)
EXTENDS Integers, Sequences, FiniteSets

CONSTANTS MaxRequests,  \* requests on the connection
          Arrivals,     \* what a request may be: a route and its headers
          Users,        \* whom a session, and its cookie, may belong to
          Panics        \* whether code may panic

VARIABLES mode,         \* "idle", "down", "up" or "panic"
          route, in,    \* the request: its route and what its headers say
          layer,        \* the layer to run next, 0 outside the chain
          ctx,          \* RequestCtx: user values, response status and header
          tenantOf,     \* sessions: the tenant each user's was opened under
          span,         \* requests whose span is open
          log,          \* access log lines
          sent,         \* history: the responses
          ran, panicked \* history: whether this request's handler ran, and some code panicked

transportVars == <<mode, route, in, layer, ctx, tenantOf, span, log, sent, ran, panicked>>

-----------------------------------------------------------------------------
(* The chains, outermost layer first.  Every route of the table but the    *)
(* unknown one has one; publicReadChain has no route.                      *)
Base == <<"recover", "accessLog">>
Traced == Base \o <<"otel", "requestID", "tenancy">>

UnguardedChain(r) ==                 \* (mutant) sign-out behind the read-only chain
    CASE r \in {"signUp", "signIn"} -> Append(Traced, "origin")
      [] r \in {"signOut", "getMe"} -> Append(Traced, "session")
      [] r \in {"healthz", "openapi"} -> Base
      [] r = "unknown" -> <<>>
OpenChain(r) ==                      \* (mutant) sign-up without a Recover
    CASE r = "signUp" -> Append(Tail(Traced), "origin")
      [] r = "signIn" -> Append(Traced, "origin")
      [] r = "signOut" -> Traced \o <<"session", "origin">>
      [] r = "getMe" -> Append(Traced, "session")
      [] r \in {"healthz", "openapi"} -> Base
      [] r = "unknown" -> <<>>
Chain(r) ==
    CASE r \in {"signUp", "signIn"} -> Append(Traced, "origin")
      [] r = "signOut" -> Traced \o <<"session", "origin">>
      [] r = "getMe" -> Append(Traced, "session")
      [] r \in {"healthz", "openapi"} -> Base
      [] r = "unknown" -> <<>>

Routes == {"signUp", "signIn", "signOut", "getMe", "healthz", "openapi", "unknown"}

(* What a handler may answer.                                              *)
HandlerStatus(r) ==
    CASE r = "signUp" -> {201, 400, 409, 500}
      [] r = "signIn" -> {200, 400, 401, 500}
      [] r = "signOut" -> {204, 500}
      [] r = "getMe" -> {200, 401, 500}
      [] r \in {"healthz", "openapi"} -> {200}
      [] r = "unknown" -> {404}

NoOne == "no one"
Empty == "empty"                     \* the empty string: a header that is absent or blank

Headers == [id : {Empty, "theirs"}, trusted : BOOLEAN,
            cookie : Users \cup {"absent", "forged"}]

ASSUME TransportAssumption ==
    /\ MaxRequests \in Nat \ {0} /\ Panics \in BOOLEAN
    /\ Arrivals \subseteq [route : Routes, headers : Headers]
    /\ Users \cap {"absent", "forged", NoOne} = {}

Tenants == {Empty, "default"}        \* none, or tenant.DefaultID

Ctx == [status : Nat, id : {Empty, "theirs", "ours"}, header : {Empty, "theirs", "ours"},
        tenant : Tenants, user : Users \cup {NoOne}]

\* fasthttp hands out a ctx without user values and with status 200.
FreshCtx == [status |-> 200, id |-> Empty, header |-> Empty, tenant |-> Empty, user |-> NoOne]

(* The variables have their types.  Requests run and sessions are opened   *)
(* under no tenant but the default one: Tenancy sets it, the handlers pass *)
(* it on to the session they open, Session takes it from there again.      *)
TransportTypeOK ==
    /\ mode \in {"idle", "down", "up", "panic"}
    /\ route \in Routes /\ in \in Headers
    /\ layer \in 0..8
    /\ ctx \in Ctx /\ tenantOf \in [Users -> Tenants]
    /\ span \subseteq 1..MaxRequests
    /\ Len(sent) <= MaxRequests

TransportInit ==
    /\ mode = "idle" /\ route = "unknown" /\ layer = 0
    /\ in = [id |-> Empty, trusted |-> FALSE, cookie |-> "absent"]
    /\ ctx = FreshCtx /\ tenantOf = [u \in Users |-> Empty]
    /\ span = {} /\ log = {} /\ sent = <<>> /\ ran = FALSE /\ panicked = FALSE

This == Len(sent) + 1                \* the number of the request being served

-----------------------------------------------------------------------------
\* The router picks the chain by method and path.
Accept ==
    /\ mode = "idle" /\ Len(sent) < MaxRequests
    /\ \E a \in Arrivals : route' = a.route /\ in' = a.headers
    /\ mode' = "down" /\ layer' = 1
    /\ ctx' = FreshCtx /\ ran' = FALSE /\ panicked' = FALSE
    /\ UNCHANGED <<tenantOf, span, log, sent>>

At(name) == layer \in 1..Len(Chain(route)) /\ Chain(route)[layer] = name

\* next(ctx) is called, or a response is written and the layer returns.
Deeper == mode' = "down" /\ layer' = layer + 1
Answer(status) ==
    /\ mode' = "up" /\ layer' = layer - 1
    /\ ctx' = [ctx EXCEPT !.status = status]

Down == mode = "down" /\ UNCHANGED <<route, in, tenantOf, log, sent, ran, panicked>>

Wrap ==
    /\ Down /\ (At("recover") \/ At("accessLog"))
    /\ Deeper
    /\ UNCHANGED <<ctx, span>>

StartSpan ==
    /\ Down /\ At("otel")
    /\ span' = span \cup {This}
    /\ Deeper
    /\ UNCHANGED ctx

UnechoedRequestID ==                 \* (mutant) the generated id is not put in the context
    /\ Down /\ At("requestID")
    /\ LET id == IF in.id # Empty THEN in.id ELSE "ours"
       IN ctx' = [ctx EXCEPT !.id = in.id, !.header = id]
    /\ Deeper
    /\ UNCHANGED span
RequestID ==
    /\ Down /\ At("requestID")
    /\ LET id == IF in.id # Empty THEN in.id ELSE "ours"
       IN ctx' = [ctx EXCEPT !.id = id, !.header = id]
    /\ Deeper
    /\ UNCHANGED span

HeaderTenancy ==                     \* (mutant) the tenant is taken from a header
    /\ Down /\ At("tenancy")
    /\ ctx' = [ctx EXCEPT !.tenant = in.id]
    /\ Deeper
    /\ UNCHANGED span
Tenancy ==
    /\ Down /\ At("tenancy")
    /\ ctx' = [ctx EXCEPT !.tenant = "default"]
    /\ Deeper
    /\ UNCHANGED span

\* A session found in the cache or in Postgres: its user (here also for its id
\* and token hash) and its tenant, which replaces Tenancy's.  401 without a
\* cookie, and for a session that is unknown, expired or revoked; 500 when
\* Postgres fails.
Session ==
    /\ Down /\ At("session")
    /\ \/ /\ in.cookie \in Users /\ tenantOf[in.cookie] # Empty
          /\ ctx' = [ctx EXCEPT !.user = in.cookie, !.tenant = tenantOf[in.cookie]]
          /\ Deeper
       \/ Answer(401)
       \/ in.cookie # "absent" /\ Answer(500)
    /\ UNCHANGED span

Origin ==
    /\ Down /\ At("origin")
    /\ \/ in.trusted /\ Deeper /\ UNCHANGED ctx
       \/ ~in.trusted /\ Answer(403)
    /\ UNCHANGED span

\* mustTenant: the default tenant when none is set.
MustTenant == IF ctx.tenant = Empty THEN "default" ELSE ctx.tenant

\* A sign-up or sign-in that succeeds has opened a session under its tenant.
Handle ==
    /\ mode = "down" /\ layer = Len(Chain(route)) + 1
    /\ ran' = TRUE
    /\ \E status \in HandlerStatus(route) :
        /\ Answer(status)
        /\ IF route \in {"signUp", "signIn"} /\ status < 400
           THEN \E u \in Users : tenantOf' = [tenantOf EXCEPT ![u] = MustTenant]
           ELSE UNCHANGED tenantOf
    /\ UNCHANGED <<route, in, span, log, sent, panicked>>

-----------------------------------------------------------------------------
(* The way up.  AccessLog writes its line, OTelTrace ends the span; the    *)
(* other layers have nothing to do.                                        *)
Outward == mode' = "up" /\ layer' = layer - 1

Line == [number |-> This, status |-> ctx.status, id |-> ctx.id, user |-> ctx.user,
         tenant |-> ctx.tenant]

Return ==
    /\ mode = "up" /\ layer > 0
    /\ log' = IF At("accessLog") THEN log \cup {Line} ELSE log
    /\ span' = IF At("otel") THEN span \ {This} ELSE span
    /\ Outward
    /\ UNCHANGED <<route, in, ctx, tenantOf, sent, ran, panicked>>

\* A panic in the code of a layer below Recover, or in a handler.
Panic ==
    /\ Panics
    /\ mode \in {"down", "up"} /\ layer > 1 /\ Chain(route) # <<>>
    /\ mode' = "panic"
    /\ layer' = IF mode = "down" THEN layer - 1 ELSE layer
    /\ ran' = (ran \/ layer = Len(Chain(route)) + 1) /\ panicked' = TRUE
    /\ UNCHANGED <<route, in, ctx, tenantOf, span, log, sent>>

UndeferredUnwind ==                  \* (mutant) span.End() called after next, not deferred
    /\ mode = "panic" /\ layer > 0
    /\ \/ At("recover") /\ ctx' = [ctx EXCEPT !.status = 500] /\ Outward
       \/ ~At("recover") /\ layer' = layer - 1 /\ UNCHANGED <<mode, ctx>>
    /\ UNCHANGED <<route, in, tenantOf, span, log, sent, ran, panicked>>
\* Only deferred calls run: span.End, and Recover's recover, which writes 500.
Unwind ==
    /\ mode = "panic" /\ layer > 0
    /\ \/ At("recover") /\ ctx' = [ctx EXCEPT !.status = 500] /\ Outward
       \/ ~At("recover") /\ layer' = layer - 1 /\ UNCHANGED <<mode, ctx>>
    /\ span' = IF At("otel") THEN span \ {This} ELSE span
    /\ UNCHANGED <<route, in, tenantOf, log, sent, ran, panicked>>

\* fasthttp writes the response once the outermost layer has returned.
Write ==
    /\ mode = "up" /\ layer = 0
    /\ sent' = Append(sent, [route |-> route, in |-> in, ran |-> ran, panicked |-> panicked,
                             status |-> ctx.status, header |-> ctx.header, user |-> ctx.user])
    /\ mode' = "idle"
    /\ UNCHANGED <<route, in, layer, ctx, tenantOf, span, log, ran, panicked>>

\* The connection is used up; or a panic nobody recovered ended the process.
Over == (mode = "idle" /\ Len(sent) = MaxRequests) \/ (mode = "panic" /\ layer = 0)
Closed == Over /\ UNCHANGED transportVars

Serve ==
    \/ Wrap \/ StartSpan \/ RequestID \/ Tenancy \/ Session \/ Origin
    \/ Handle \/ Return \/ Unwind \/ Write

TransportNext == Accept \/ Serve \/ Panic \/ Closed

TransportSpec == TransportInit /\ [][TransportNext]_transportVars /\ WF_transportVars(Serve)

-----------------------------------------------------------------------------
LinesOf(i) == {line \in log : line.number = i}

(* The access log tells what the client was told: the status and the       *)
(* X-Request-Id that were sent, the user that was authenticated and the    *)
(* tenant, though AccessLog runs outside the layers that set them, on a    *)
(* reused RequestCtx.  Every request that reached AccessLog and did not    *)
(* panic has one line, a 500 of its handler included.                      *)
LogIsTrue ==
    \A i \in 1..Len(sent) :
        /\ \A line \in LinesOf(i) :
            /\ line.status = sent[i].status /\ line.id = sent[i].header
            /\ line.user = sent[i].user
            /\ line.tenant = IF sent[i].route \in {"healthz", "openapi"} THEN Empty ELSE "default"
        /\ Cardinality(LinesOf(i)) =
            IF sent[i].route = "unknown" \/ sent[i].panicked THEN 0 ELSE 1

(* A response below 400 comes from a handler that ran, and a handler ran   *)
(* behind its guards: the Origin check on sign-up, sign-in and sign-out,   *)
(* the session of the cookie's owner on sign-out and profile/me.  Nobody   *)
(* is authenticated but there, and as nobody else.                         *)
Guarded ==
    \A i \in 1..Len(sent) :
        /\ sent[i].status < 400 => sent[i].ran
        /\ sent[i].ran /\ sent[i].route \in {"signUp", "signIn", "signOut"} => sent[i].in.trusted
        /\ sent[i].ran /\ sent[i].route \in {"signOut", "getMe"} => sent[i].user # NoOne
        /\ sent[i].user # NoOne =>
            sent[i].user = sent[i].in.cookie /\ sent[i].route \in {"signOut", "getMe"}

(* Once a request has been answered its span has ended, by whatever way    *)
(* the request left the chain: OTelTrace defers span.End.                  *)
SpansEnd == \A n \in span : n > Len(sent)

(* No panic gets past Recover: every request that was accepted is answered.*)
EveryRequestWritten == \A n \in 1..MaxRequests : mode # "idle" /\ This = n ~> Len(sent) >= n

-----------------------------------------------------------------------------
(* What the repository says of the access log, and the code does not do.   *)

(* "AccessLog emits one JSON line per request with stable fields."         *)
(* (middleware/access_log.go): every request of a known route has a line.  *)
OneLinePerRequest ==
    \A i \in 1..Len(sent) : sent[i].route # "unknown" => LinesOf(i) # {}
=============================================================================
