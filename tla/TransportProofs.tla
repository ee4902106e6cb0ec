--------------------------- MODULE TransportProofs ---------------------------
(***************************************************************************)
(* The middleware chains, for any number of requests on a connection, any  *)
(* traffic and any users, with panics or without.                          *)
(*                                                                         *)
(* A response, a log line and a span are made in different layers, and     *)
(* what a layer has done must still be true when a layer further out       *)
(* relies on it, on the way up or while a panic unwinds.  TransportInv     *)
(* says, layer by layer, what has been established on the way.             *)
(***************************************************************************)
EXTENDS Transport, FiniteSetTheorems, TLAPS

TracedRoutes == {"signUp", "signIn", "signOut", "getMe"}
Depth(r) == Len(Chain(r))

\* The layers that guard a handler have let the request through.
SessionPassed == route \in {"signOut", "getMe"} /\ layer > 6
OriginPassed ==
    \/ route \in {"signUp", "signIn"} /\ layer > 6
    \/ route = "signOut" /\ layer > 7

Responses == [route : Routes, in : Headers, ran : BOOLEAN, panicked : BOOLEAN, status : Nat,
              header : {Empty, "theirs", "ours"}, user : Users \cup {NoOne}]
Response == [route |-> route, in |-> in, ran |-> ran, panicked |-> panicked,
             status |-> ctx.status, header |-> ctx.header, user |-> ctx.user]

\* The tenant the access log should name.
TenantFor(r) == IF r \in {"healthz", "openapi"} THEN Empty ELSE "default"

Matches(line, s) ==
    /\ line.status = s.status /\ line.id = s.header
    /\ line.user = s.user /\ line.tenant = TenantFor(s.route)

Told(i, s) ==
    /\ \A line \in LinesOf(i) : Matches(line, s)
    /\ IF s.route = "unknown" \/ s.panicked THEN LinesOf(i) = {}
       ELSE \E line \in log : LinesOf(i) = {line}

GuardedAnswer(s) ==
    /\ s.status < 400 => s.ran
    /\ s.ran /\ s.route \in {"signUp", "signIn", "signOut"} => s.in.trusted
    /\ s.ran /\ s.route \in {"signOut", "getMe"} => s.user # NoOne
    /\ s.user # NoOne => s.user = s.in.cookie /\ s.route \in {"signOut", "getMe"}

Way ==
    /\ ran \in BOOLEAN /\ panicked \in BOOLEAN /\ sent \in Seq(Responses)
    /\ IF mode = "idle" THEN layer = 0 ELSE Len(sent) < MaxRequests
    /\ mode = "down" => layer \in 1..(Depth(route) + 1) /\ ~ran /\ ~panicked
    /\ mode = "up" => layer \in 0..Depth(route) /\ (layer > 0 => ~panicked)
    /\ mode = "panic" => layer \in 1..Depth(route) /\ panicked

Admission ==
    /\ mode = "down" /\ OriginPassed => in.trusted
    /\ mode = "down" => (ctx.user # NoOne <=> SessionPassed)
    /\ ctx.user # NoOne => ctx.user = in.cookie /\ route \in {"signOut", "getMe"}
    /\ mode = "up" /\ ctx.status < 400 => ran
    /\ mode # "idle" /\ ran =>
        /\ route \in {"signUp", "signIn", "signOut"} => in.trusted
        /\ route \in {"signOut", "getMe"} => ctx.user # NoOne
    /\ \A i \in 1..Len(sent) : GuardedAnswer(sent[i])

\* Whatever layer set it, the tenant is the default one from Tenancy on.
Tenanted ==
    /\ mode = "down" =>
        ctx.tenant = IF route \in TracedRoutes /\ layer > 5 THEN "default" ELSE Empty
    /\ mode = "up" /\ layer > 0 =>
        ctx.tenant = IF route \in TracedRoutes THEN "default" ELSE Empty

Spans ==
    /\ span \subseteq {This}
    /\ span # {} => /\ route \in TracedRoutes
                    /\ IF mode = "down" THEN layer > 3 ELSE layer >= 3

Logged ==
    /\ ctx.id = ctx.header
    /\ \A line \in log : line.number \in 1..This
    /\ mode # "up" \/ layer > 1 => LinesOf(This) = {}
    /\ mode = "up" /\ layer = 1 =>
        \E line \in log : LinesOf(This) = {line} /\ Matches(line, Response)
    /\ mode = "up" /\ layer = 0 => Told(This, Response)
    /\ \A i \in 1..Len(sent) : Told(i, sent[i])

TransportInv == TransportTypeOK /\ Way /\ Admission /\ Tenanted /\ Spans /\ Logged

-----------------------------------------------------------------------------
(* The chains, layer by layer.                                             *)

(* The layers every traced route has, outermost first.                     *)
LEMMA TracedLayers ==
    ASSUME NEW c, \/ c = Append(Traced, "origin") \/ c = Append(Traced, "session")
                  \/ c = Traced \o <<"session", "origin">>
    PROVE  /\ c[1] = "recover" /\ c[2] = "accessLog" /\ c[3] = "otel"
           /\ c[4] = "requestID" /\ c[5] = "tenancy"
BY DEF Traced, Base

(* The chain of every route, layer by layer.                               *)
LEMMA Chains ==
    /\ \A r \in TracedRoutes :
        /\ Chain(r)[1] = "recover" /\ Chain(r)[2] = "accessLog" /\ Chain(r)[3] = "otel"
        /\ Chain(r)[4] = "requestID" /\ Chain(r)[5] = "tenancy"
    /\ \A r \in {"signUp", "signIn"} : Len(Chain(r)) = 6 /\ Chain(r)[6] = "origin"
    /\ Len(Chain("getMe")) = 6 /\ Chain("getMe")[6] = "session"
    /\ /\ Len(Chain("signOut")) = 7
       /\ Chain("signOut")[6] = "session" /\ Chain("signOut")[7] = "origin"
    /\ \A r \in {"healthz", "openapi"} :
        Len(Chain(r)) = 2 /\ Chain(r)[1] = "recover" /\ Chain(r)[2] = "accessLog"
    /\ Chain("unknown") = << >> /\ Len(Chain("unknown")) = 0
<1>1. /\ Chain("signUp") = Append(Traced, "origin") /\ Chain("signIn") = Append(Traced, "origin")
      /\ Chain("getMe") = Append(Traced, "session")
      /\ Chain("signOut") = Traced \o <<"session", "origin">>
      /\ Chain("healthz") = Base /\ Chain("openapi") = Base /\ Chain("unknown") = << >>
  BY DEF Chain
<1>2. Len(Append(Traced, "origin")) = 6 /\ Append(Traced, "origin")[6] = "origin"
  BY DEF Traced, Base
<1>3. Len(Append(Traced, "session")) = 6 /\ Append(Traced, "session")[6] = "session"
  BY DEF Traced, Base
<1>4. Len(Traced \o <<"session", "origin">>) = 7
  BY DEF Traced, Base
<1>5. /\ (Traced \o <<"session", "origin">>)[6] = "session"
      /\ (Traced \o <<"session", "origin">>)[7] = "origin"
  BY DEF Traced, Base
<1>6. Len(Base) = 2 /\ Base[1] = "recover" /\ Base[2] = "accessLog" /\ Len(<< >>) = 0
  BY DEF Base
<1> QED
  BY <1>1, <1>2, <1>3, <1>4, <1>5, <1>6, TracedLayers DEF TracedRoutes

(* How many layers there are.                                              *)
LEMMA Depths ==
    ASSUME NEW r \in Routes
    PROVE  Depth(r) = IF r = "unknown" THEN 0
                      ELSE IF r \in {"healthz", "openapi"} THEN 2
                      ELSE IF r = "signOut" THEN 7 ELSE 6
BY Chains DEF Depth, Routes

(* Which layer is next.                                                    *)
LEMMA Layers ==
    ASSUME route \in Routes, layer \in Nat
    PROVE  /\ At("recover") <=> route # "unknown" /\ layer = 1
           /\ At("accessLog") <=> route # "unknown" /\ layer = 2
           /\ At("otel") <=> route \in TracedRoutes /\ layer = 3
           /\ At("requestID") <=> route \in TracedRoutes /\ layer = 4
           /\ At("tenancy") <=> route \in TracedRoutes /\ layer = 5
           /\ At("session") <=> route \in {"signOut", "getMe"} /\ layer = 6
           /\ At("origin") <=> \/ route \in {"signUp", "signIn"} /\ layer = 6
                               \/ route = "signOut" /\ layer = 7
<1> DEFINE c == Chain(route)
<1>1. route \in TracedRoutes => /\ c[1] = "recover" /\ c[2] = "accessLog" /\ c[3] = "otel"
                               /\ c[4] = "requestID" /\ c[5] = "tenancy"
  BY Chains
<1>2. /\ route \in {"signUp", "signIn"} => Len(c) = 6 /\ c[6] = "origin"
      /\ route = "getMe" => Len(c) = 6 /\ c[6] = "session"
      /\ route = "signOut" => Len(c) = 7 /\ c[6] = "session" /\ c[7] = "origin"
      /\ route \in {"healthz", "openapi"} => Len(c) = 2 /\ c[1] = "recover" /\ c[2] = "accessLog"
      /\ route = "unknown" => Len(c) = 0
  BY Chains
<1> HIDE DEF c
<1>3. \A name : At(name) <=> layer \in 1..Len(c) /\ c[layer] = name
  BY DEF At, c
<1>4. CASE route \in {"signUp", "signIn"}
  BY <1>1, <1>2, <1>3, <1>4 DEF TracedRoutes
<1>5. CASE route = "signOut"
  <2>1. /\ c[1] = "recover" /\ c[2] = "accessLog" /\ c[3] = "otel" /\ c[4] = "requestID"
        /\ c[5] = "tenancy" /\ Len(c) = 7 /\ c[6] = "session" /\ c[7] = "origin"
    BY <1>1, <1>2, <1>5 DEF TracedRoutes
  <2> QED
    BY <1>3, <1>5, <2>1 DEF TracedRoutes
<1>6. CASE route = "getMe"
  <2>1. /\ c[1] = "recover" /\ c[2] = "accessLog" /\ c[3] = "otel" /\ c[4] = "requestID"
        /\ c[5] = "tenancy" /\ Len(c) = 6 /\ c[6] = "session"
    BY <1>1, <1>2, <1>6 DEF TracedRoutes
  <2> QED
    BY <1>3, <1>6, <2>1 DEF TracedRoutes
<1>7. CASE route \in {"healthz", "openapi"}
  BY <1>2, <1>3, <1>7 DEF TracedRoutes
<1>8. CASE route = "unknown"
  BY <1>2, <1>3, <1>8 DEF TracedRoutes
<1> QED
  BY <1>4, <1>5, <1>6, <1>7, <1>8 DEF Routes

-----------------------------------------------------------------------------
(* The steps.  Each layer's action is looked at through what it does to    *)
(* the request's way, its guards, its span and its log line.               *)

(* The connection starts quiet.                                            *)
LEMMA TransportStarts == TransportInit => TransportInv
<1> SUFFICES ASSUME TransportInit PROVE TransportInv
  OBVIOUS
<1> USE DEF TransportInit
<1>1. TransportTypeOK
  BY TransportAssumption DEF TransportTypeOK, Routes, Headers, Ctx, FreshCtx, Tenants
<1>2. Way
  <2>1. sent \in Seq(Responses)
    OBVIOUS
  <2> QED
    BY <2>1 DEF Way
<1>3. Admission
  BY DEF Admission, FreshCtx
<1>4. Tenanted
  BY DEF Tenanted
<1>5. Spans
  BY DEF Spans
<1>6. Logged
  BY DEF Logged, LinesOf, FreshCtx
<1> QED
  BY <1>1, <1>2, <1>3, <1>4, <1>5, <1>6 DEF TransportInv

(* While nothing is logged and nothing is sent, the record of the requests *)
(* that have been answered stays as it is.                                 *)
LEMMA RecordKept ==
    ASSUME TransportInv, UNCHANGED <<log, sent>>
    PROVE  /\ This' = This
           /\ \A i : LinesOf(i)' = LinesOf(i)
           /\ \A i, s : Told(i, s)' <=> Told(i, s)
           /\ \A i \in 1..Len(sent') : GuardedAnswer(sent'[i]) /\ Told(i, sent'[i])
           /\ \A line \in log' : line.number \in 1..This'
<1>1. \A i : LinesOf(i)' = LinesOf(i)
  BY DEF LinesOf
<1>2. \A i, s : Told(i, s)' <=> Told(i, s)
  BY <1>1 DEF Told
<1>3. \A i \in 1..Len(sent') : GuardedAnswer(sent'[i]) /\ Told(i, sent'[i])
  BY DEF TransportInv, Admission, Logged
<1>4. \A line \in log' : line.number \in 1..This'
  BY DEF TransportInv, This, Logged
<1> QED
  BY <1>1, <1>2, <1>3, <1>4 DEF This

(* The number of the request being served.                                 *)
LEMMA Numbers ==
    ASSUME TransportInv
    PROVE  /\ Len(sent) \in Nat /\ This = Len(sent) + 1 /\ This \in Nat
           /\ mode # "idle" => This \in 1..MaxRequests
<1>1. Len(sent) \in Nat /\ This = Len(sent) + 1
  BY DEF TransportInv, Way, This
<1>2. mode # "idle" => Len(sent) < MaxRequests
  BY DEF TransportInv, Way
<1> QED
  BY <1>1, <1>2, TransportAssumption

(* A new request.                                                          *)
LEMMA AcceptKeeps ==
    ASSUME TransportInv, Accept
    PROVE  TransportInv'
<1> USE DEF TransportInv
<1>1. PICK a \in Arrivals : route' = a.route /\ in' = a.headers
  BY DEF Accept
<1>2. route' \in Routes /\ in' \in Headers
  BY <1>1, TransportAssumption
<1>3. /\ mode = "idle" /\ mode' = "down" /\ layer' = 1 /\ ctx' = FreshCtx
      /\ ran' = FALSE /\ panicked' = FALSE
      /\ UNCHANGED <<tenantOf, span, log, sent>>
  BY DEF Accept
<1>4. TransportTypeOK'
  BY <1>2, <1>3 DEF TransportTypeOK, FreshCtx, Ctx, Tenants
<1>5. Depth(route') \in Nat
  BY <1>2, Depths
<1>6. Way'
  <2>1. sent' \in Seq(Responses)
    BY <1>3 DEF Way
  <2>2. layer' \in 1..(Depth(route') + 1)
    BY <1>3, <1>5
  <2>3. Len(sent') < MaxRequests
    BY DEF Accept
  <2> QED
    BY <1>3, <2>1, <2>2, <2>3 DEF Way
<1>7. Admission'
  BY <1>3, RecordKept DEF Admission, OriginPassed, SessionPassed, FreshCtx
<1>8. Tenanted'
  BY <1>3 DEF Tenanted, FreshCtx
<1>9. Spans'
  BY <1>3 DEF Spans, Way, This
<1>10. Logged'
  BY <1>3, RecordKept DEF Logged, FreshCtx
<1> QED
  BY <1>4, <1>6, <1>7, <1>8, <1>9, <1>10

(* A layer that calls the next one.                                        *)
LEMMA DeeperKeeps ==
    ASSUME TransportInv, Down, Deeper, layer <= Depth(route),
           ctx' \in Ctx, ctx'.id = ctx'.header,
           OriginPassed' => in.trusted, ctx'.user # NoOne <=> SessionPassed',
           ctx'.user # NoOne => ctx'.user = in.cookie,
           ctx'.tenant = IF route \in TracedRoutes /\ layer > 4 THEN "default" ELSE Empty,
           \/ span' = span
           \/ span' = span \cup {This} /\ route \in TracedRoutes /\ layer = 3
    PROVE  TransportInv'
<1> USE DEF TransportInv
<1>1. /\ mode = "down" /\ mode' = "down" /\ layer' = layer + 1
      /\ UNCHANGED <<route, in, tenantOf, log, sent, ran, panicked>>
  BY DEF Down, Deeper
<1>2. layer \in 1..Depth(route) /\ Depth(route) \in 0..7
  BY <1>1, Depths DEF Way, TransportTypeOK
<1>3. /\ This' = This /\ LinesOf(This)' = LinesOf(This)
      /\ \A i \in 1..Len(sent') : GuardedAnswer(sent'[i]) /\ Told(i, sent[i])'
      /\ \A line \in log' : line.number \in 1..This'
  BY <1>1, RecordKept
<1>4. span' \subseteq {This} /\ This \in 1..MaxRequests
  BY <1>1, Numbers DEF Spans
<1>5. TransportTypeOK'
  BY <1>1, <1>2, <1>4 DEF TransportTypeOK
<1>6. Way'
  BY <1>1, <1>2 DEF Way
<1>7. Admission'
  BY <1>1, <1>3 DEF Admission, Way, SessionPassed
<1>8. Tenanted'
  BY <1>1, <1>2 DEF Tenanted
<1>9. Spans'
  BY <1>1, <1>2, <1>3, <1>4 DEF Spans
<1>10. Logged'
  BY <1>1, <1>3 DEF Logged
<1> QED
  BY <1>5, <1>6, <1>7, <1>8, <1>9, <1>10

(* The layers on the way down, when they let the request through.          *)
LEMMA LayersKeep ==
    ASSUME TransportInv,
           \/ Wrap \/ StartSpan \/ RequestID \/ Tenancy
           \/ Session /\ Deeper
           \/ Origin /\ in.trusted
    PROVE  TransportInv'
<1> USE DEF TransportInv
<1>1. /\ route \in Routes /\ layer \in Nat /\ ctx \in Ctx /\ ctx.id = ctx.header /\ in \in Headers
      /\ Depth(route) = IF route = "unknown" THEN 0
                        ELSE IF route \in {"healthz", "openapi"} THEN 2
                        ELSE IF route = "signOut" THEN 7 ELSE 6
  BY Depths DEF TransportTypeOK, Logged
<1>2. /\ Down /\ Deeper /\ mode = "down" /\ layer' = layer + 1 /\ route' = route
  <2>1. Down
    BY DEF Wrap, StartSpan, RequestID, Tenancy, Session, Origin
  <2>2. Deeper
    <3>1. CASE Wrap \/ StartSpan \/ RequestID \/ Tenancy
      BY <3>1 DEF Wrap, StartSpan, RequestID, Tenancy
    <3>2. CASE Session /\ Deeper
      BY <3>2
    <3>3. CASE Origin /\ in.trusted
      BY <3>3 DEF Origin
    <3> QED
      BY <3>1, <3>2, <3>3
  <2> QED
    BY <2>1, <2>2 DEF Down, Deeper
<1>3. /\ OriginPassed => in.trusted
      /\ ctx.user # NoOne <=> SessionPassed
      /\ ctx.user # NoOne => ctx.user = in.cookie
      /\ ctx.tenant = IF route \in TracedRoutes /\ layer > 5 THEN "default" ELSE Empty
  BY <1>2 DEF Admission, Tenanted
<1>4. CASE Wrap
  <2>1. layer \in {1, 2} /\ route # "unknown" /\ UNCHANGED <<ctx, span>>
    BY <1>1, <1>4, Layers DEF Wrap
  <2> QED
    BY <1>1, <1>2, <1>3, <2>1, DeeperKeeps DEF OriginPassed, SessionPassed
<1>5. CASE StartSpan
  <2>1. layer = 3 /\ route \in TracedRoutes /\ ctx' = ctx /\ span' = span \cup {This}
    BY <1>1, <1>5, Layers DEF StartSpan
  <2> QED
    BY <1>1, <1>2, <1>3, <2>1, DeeperKeeps DEF OriginPassed, SessionPassed, TracedRoutes
<1>6. CASE RequestID
  <2>1. layer = 4 /\ route \in TracedRoutes /\ span' = span
    BY <1>1, <1>6, Layers DEF RequestID
  <2>2. /\ ctx' \in Ctx /\ ctx'.id = ctx'.header /\ ctx'.user = ctx.user
        /\ ctx'.tenant = ctx.tenant
    BY <1>1, <1>6 DEF RequestID, Ctx, Headers
  <2> QED
    BY <1>1, <1>2, <1>3, <2>1, <2>2, DeeperKeeps DEF OriginPassed, SessionPassed, TracedRoutes
<1>7. CASE Tenancy
  <2>1. layer = 5 /\ route \in TracedRoutes /\ span' = span
    BY <1>1, <1>7, Layers DEF Tenancy
  <2>2. /\ ctx' \in Ctx /\ ctx'.id = ctx'.header /\ ctx'.user = ctx.user
        /\ ctx'.tenant = "default"
    BY <1>1, <1>7 DEF Tenancy, Ctx, Tenants
  <2> QED
    BY <1>1, <1>2, <1>3, <2>1, <2>2, DeeperKeeps DEF OriginPassed, SessionPassed, TracedRoutes
<1>8. CASE Session /\ Deeper
  <2>1. layer = 6 /\ route \in {"signOut", "getMe"} /\ span' = span
    BY <1>1, <1>8, Layers DEF Session
  <2>2. /\ in.cookie \in Users /\ tenantOf[in.cookie] # Empty
        /\ ctx' = [ctx EXCEPT !.user = in.cookie, !.tenant = tenantOf[in.cookie]]
    BY <1>2, <1>8 DEF Session, Answer, Deeper
  <2>3. tenantOf[in.cookie] = "default" /\ in.cookie # NoOne
    BY <2>2, TransportAssumption DEF TransportTypeOK, Tenants
  <2>4. /\ ctx' \in Ctx /\ ctx'.id = ctx'.header /\ ctx'.user = in.cookie
        /\ ctx'.tenant = "default"
    BY <1>1, <2>2, <2>3 DEF Ctx, Tenants
  <2>5. ~OriginPassed' /\ SessionPassed'
    BY <1>2, <2>1 DEF OriginPassed, SessionPassed
  <2> QED
    BY <1>1, <1>2, <2>1, <2>3, <2>4, <2>5, DeeperKeeps DEF TracedRoutes
<1>9. CASE Origin /\ in.trusted
  <2>1. /\ \/ route \in {"signUp", "signIn"} /\ layer = 6
           \/ route = "signOut" /\ layer = 7
        /\ span' = span
    BY <1>1, <1>9, Layers DEF Origin
  <2>2. ctx' = ctx
    BY <1>9 DEF Origin
  <2> QED
    BY <1>1, <1>2, <1>3, <1>9, <2>1, <2>2, DeeperKeeps DEF OriginPassed, SessionPassed
<1> QED
  BY <1>4, <1>5, <1>6, <1>7, <1>8, <1>9

(* A layer that turns the request back, and the handler.                   *)
LEMMA AnswerKeeps ==
    ASSUME TransportInv, mode = "down", NEW status \in Nat, Answer(status),
           UNCHANGED <<route, in, span, log, sent, panicked>>,
           tenantOf' \in [Users -> Tenants], ran' \in BOOLEAN,
           status < 400 => ran',
           ran' => /\ route \in {"signUp", "signIn", "signOut"} => in.trusted
                   /\ route \in {"signOut", "getMe"} => ctx.user # NoOne,
           IF route = "unknown" THEN layer = 1 ELSE layer > 2,
           route \in TracedRoutes => layer > 5
    PROVE  TransportInv'
<1> USE DEF TransportInv
<1>1. /\ mode' = "up" /\ layer' = layer - 1 /\ ctx' = [ctx EXCEPT !.status = status]
  BY DEF Answer
<1>2. layer \in 1..(Depth(route) + 1) /\ Depth(route) \in 0..7 /\ (route = "unknown" => layer = 1)
  BY Depths DEF Way, TransportTypeOK
<1>3. /\ ctx' \in Ctx /\ ctx'.id = ctx.id /\ ctx'.header = ctx.header /\ ctx'.user = ctx.user
      /\ ctx'.tenant = ctx.tenant /\ ctx'.status = status
  BY <1>1 DEF TransportTypeOK, Ctx
<1>4. /\ This' = This /\ LinesOf(This)' = LinesOf(This)
      /\ \A i \in 1..Len(sent') : GuardedAnswer(sent'[i]) /\ Told(i, sent[i])'
      /\ \A line \in log' : line.number \in 1..This'
  BY RecordKept
<1>5. LinesOf(This) = {} /\ ctx.id = ctx.header
  BY DEF Logged
<1>6. TransportTypeOK'
  BY <1>1, <1>2, <1>3 DEF TransportTypeOK
<1>7. Way'
  BY <1>1, <1>2 DEF Way
<1>8. Admission'
  BY <1>1, <1>3, <1>4 DEF Admission
<1>9. Tenanted'
  BY <1>1, <1>3 DEF Tenanted
<1>10. Spans'
  BY <1>1, <1>2, <1>4 DEF Spans
<1>11. Logged'
  <2>1. layer' = 0 => Told(This, Response)'
    BY <1>1, <1>2, <1>4, <1>5 DEF Told, Response
  <2> QED
    BY <1>1, <1>2, <1>3, <1>4, <1>5, <2>1 DEF Logged
<1> QED
  BY <1>6, <1>7, <1>8, <1>9, <1>10, <1>11

(* A session or an origin that is not accepted.                            *)
LEMMA RefusalsKeep ==
    ASSUME TransportInv, (Session /\ ~Deeper) \/ (Origin /\ ~in.trusted)
    PROVE  TransportInv'
<1> USE DEF TransportInv
<1>1. /\ route \in Routes /\ layer \in Nat /\ mode = "down" /\ ~ran
      /\ UNCHANGED <<route, in, tenantOf, span, log, sent, ran, panicked>>
  BY DEF TransportTypeOK, Session, Origin, Down, Way
<1>2. ran' \in BOOLEAN /\ ~ran' /\ tenantOf' \in [Users -> Tenants]
  BY <1>1 DEF Way, TransportTypeOK
<1>3. layer \in {6, 7} /\ route # "unknown"
  BY <1>1, Layers DEF Session, Origin
<1>4. PICK status \in {401, 403, 500} : Answer(status)
  BY DEF Session, Origin
<1>5. status \in Nat /\ ~(status < 400)
  BY <1>4
<1> QED
  BY <1>1, <1>2, <1>3, <1>4, <1>5, AnswerKeeps

(* At the handler every guard of the route has been passed.                *)
LEMMA AtTheHandler ==
    ASSUME TransportInv, mode = "down", layer = Depth(route) + 1
    PROVE  /\ route \in {"signUp", "signIn", "signOut"} => in.trusted
           /\ route \in {"signOut", "getMe"} => ctx.user # NoOne
           /\ IF route = "unknown" THEN layer = 1 ELSE layer > 2
           /\ route \in TracedRoutes => layer > 5
<1>1. /\ route \in Routes
      /\ OriginPassed => in.trusted
      /\ ctx.user # NoOne <=> SessionPassed
  BY DEF TransportInv, TransportTypeOK, Admission
<1>2. /\ route \in {"signUp", "signIn", "signOut"} => OriginPassed
      /\ route \in {"signOut", "getMe"} => SessionPassed
      /\ IF route = "unknown" THEN layer = 1 ELSE layer > 2
      /\ route \in TracedRoutes => layer > 5
  BY <1>1, Depths DEF OriginPassed, SessionPassed, Routes, TracedRoutes
<1> QED
  BY <1>1, <1>2

(* The handler answers, and may have opened a session under its tenant.    *)
LEMMA HandleKeeps ==
    ASSUME TransportInv, Handle
    PROVE  TransportInv'
<1>1. PICK status \in HandlerStatus(route) :
        /\ Answer(status)
        /\ \/ \E u \in Users : tenantOf' = [tenantOf EXCEPT ![u] = MustTenant]
           \/ tenantOf' = tenantOf
  BY DEF Handle
<1>2. route \in Routes /\ tenantOf \in [Users -> Tenants] /\ MustTenant \in Tenants
  BY DEF TransportInv, TransportTypeOK, Ctx, MustTenant, Tenants
<1>3. status \in Nat
  BY <1>1, <1>2 DEF HandlerStatus, Routes
<1>4. /\ mode = "down" /\ layer = Depth(route) + 1 /\ ran' = TRUE
      /\ UNCHANGED <<route, in, span, log, sent, panicked>>
  BY DEF Handle, Depth
<1>5. tenantOf' \in [Users -> Tenants]
  BY <1>1, <1>2
<1> QED
  BY <1>1, <1>3, <1>4, <1>5, AtTheHandler, AnswerKeeps

(* A layer returns: the access log writes its line, the span ends.         *)
LEMMA ReturnKeeps ==
    ASSUME TransportInv, Return
    PROVE  TransportInv'
<1> USE DEF TransportInv
<1>1. /\ mode = "up" /\ layer > 0 /\ mode' = "up" /\ layer' = layer - 1
      /\ UNCHANGED <<route, in, ctx, tenantOf, sent, ran, panicked>>
  BY DEF Return, Outward
<1>2. /\ route \in Routes /\ layer \in 1..Depth(route) /\ Depth(route) \in 0..7
      /\ (route \in {"healthz", "openapi"} => Depth(route) = 2) /\ route # "unknown"
  BY <1>1, Depths DEF TransportTypeOK, Way
<1>3. /\ log' = IF layer = 2 THEN log \cup {Line} ELSE log
      /\ span' = IF route \in TracedRoutes /\ layer = 3 THEN span \ {This} ELSE span
  BY <1>2, Layers DEF Return
<1>4. This' = This /\ Len(sent) \in Nat /\ This = Len(sent) + 1 /\ Response' = Response
  BY <1>1, Numbers DEF This, Response
<1>5. Line.number = This /\ Matches(Line, Response)
  <2>1. ctx.tenant = TenantFor(route)
    BY <1>1, <1>2 DEF Tenanted, TenantFor, TracedRoutes, Routes
  <2> QED
    BY <2>1 DEF Line, Matches, Response, Logged
<1>6. \A i \in 1..Len(sent) : LinesOf(i)' = LinesOf(i)
  BY <1>3, <1>4, <1>5 DEF LinesOf
<1>7. TransportTypeOK'
  <2>1. span' \subseteq span /\ layer' \in 0..8
    BY <1>1, <1>2, <1>3
  <2> QED
    BY <1>1, <2>1 DEF TransportTypeOK
<1>8. Way'
  BY <1>1, <1>2 DEF Way
<1>9. Admission'
  BY <1>1, <1>2 DEF Admission
<1>10. Spans'
  <2>1. span' \subseteq span
    BY <1>3
  <2>2. span' # {} => layer > 3
    BY <1>1, <1>2, <1>3 DEF Spans
  <2>3. span' # {} => route \in TracedRoutes
    BY <2>1 DEF Spans
  <2>4. span \subseteq {This}
    BY DEF Spans
  <2> QED
    BY <1>1, <1>2, <1>4, <2>1, <2>2, <2>3, <2>4 DEF Spans
<1>11. Tenanted'
  BY <1>1, <1>2 DEF Tenanted
<1>12. Logged'
  <2>1. \A line \in log' : line.number \in 1..This'
    BY <1>3, <1>4, <1>5 DEF Logged
  <2>2. \A i \in 1..Len(sent') : Told(i, sent[i])'
    <3> SUFFICES ASSUME NEW i \in 1..Len(sent) PROVE Told(i, sent[i])'
      BY <1>1
    <3>1. Told(i, sent[i]) /\ LinesOf(i)' = LinesOf(i) /\ sent' = sent
      BY <1>1, <1>6 DEF Logged
    <3>2. \A line \in log : line \in log'
      BY <1>3
    <3> QED
      BY <3>1, <3>2 DEF Told
  <2>3. CASE layer > 2
    <3>1. LinesOf(This)' = {}
      <4>1. log' = log /\ LinesOf(This) = {}
        BY <1>1, <1>2, <1>3, <2>3 DEF Logged
      <4> QED
        BY <1>4, <4>1 DEF LinesOf
    <3> QED
      BY <1>1, <1>4, <2>1, <2>2, <2>3, <3>1, <1>2 DEF Logged
  <2>4. CASE layer = 2
    <3>1. LinesOf(This)' = {Line} /\ Line \in log'
      BY <1>1, <1>3, <1>4, <1>5, <2>4 DEF Logged, LinesOf
    <3> QED
      BY <1>1, <1>4, <1>5, <2>1, <2>2, <2>4, <3>1 DEF Logged
  <2>5. CASE layer = 1
    <3>1. PICK line \in log : LinesOf(This) = {line} /\ Matches(line, Response)
      BY <1>1, <2>5 DEF Logged
    <3>2. LinesOf(This)' = {line} /\ line \in log'
      BY <1>3, <1>4, <2>5, <3>1 DEF LinesOf
    <3>3. Response.route # "unknown" /\ ~Response.panicked
      BY <1>1, <1>2 DEF Response, Way
    <3>4. Told(This, Response)'
      BY <1>4, <3>1, <3>2, <3>3 DEF Told
    <3> QED
      BY <1>1, <1>4, <2>1, <2>2, <2>5, <3>4 DEF Logged
  <2> QED
    BY <1>2, <2>3, <2>4, <2>5
<1> QED
  BY <1>7, <1>8, <1>9, <1>10, <1>11, <1>12

(* Code panics below Recover: the layers it leaves behind have logged      *)
(* nothing yet.                                                            *)
LEMMA PanicKeeps ==
    ASSUME TransportInv, Panic
    PROVE  TransportInv'
<1> USE DEF TransportInv
<1>1. /\ mode \in {"down", "up"} /\ layer > 1 /\ mode' = "panic"
      /\ layer' = IF mode = "down" THEN layer - 1 ELSE layer
      /\ ran' = (ran \/ layer = Depth(route) + 1) /\ panicked' = TRUE
      /\ UNCHANGED <<route, in, ctx, tenantOf, span, log, sent>>
  BY DEF Panic, Depth
<1>2. /\ Depth(route) \in 0..7 /\ ran \in BOOLEAN
      /\ mode = "down" => layer \in 1..(Depth(route) + 1)
      /\ mode = "up" => layer \in 0..Depth(route)
  BY Depths DEF TransportTypeOK, Way
<1>3. /\ This' = This /\ LinesOf(This)' = LinesOf(This)
      /\ \A i \in 1..Len(sent') : GuardedAnswer(sent'[i]) /\ Told(i, sent[i])'
      /\ \A line \in log' : line.number \in 1..This'
  BY <1>1, RecordKept
<1>4. layer' \in 1..Depth(route) /\ layer' \in 0..8
  BY <1>1, <1>2
<1>5. ran' \in BOOLEAN
  BY <1>1, <1>2
<1>6. TransportTypeOK'
  BY <1>1, <1>4 DEF TransportTypeOK
<1>7. Way'
  BY <1>1, <1>4, <1>5 DEF Way
<1>8. Admission'
  <2>1. ran' => /\ route \in {"signUp", "signIn", "signOut"} => in.trusted
                /\ route \in {"signOut", "getMe"} => ctx.user # NoOne
    <3>1. CASE ran
      BY <1>1, <3>1 DEF Admission
    <3>2. CASE layer = Depth(route) + 1
      <4>1. mode = "down"
        BY <1>1, <1>2, <3>2
      <4> QED
        BY <3>2, <4>1, AtTheHandler
    <3> QED
      BY <1>1, <3>1, <3>2
  <2> QED
    BY <1>1, <1>3, <2>1 DEF Admission
<1>9. Spans'
  BY <1>1, <1>2, <1>3 DEF Spans
<1>10. Tenanted'
  BY <1>1 DEF Tenanted
<1>11. Logged'
  BY <1>1, <1>3 DEF Logged
<1> QED
  BY <1>6, <1>7, <1>8, <1>9, <1>10, <1>11

(* A layer is unwound: the span ends, and Recover answers 500.             *)
LEMMA UnwindKeeps ==
    ASSUME TransportInv, Unwind
    PROVE  TransportInv'
<1> USE DEF TransportInv
<1>1. mode = "panic" /\ layer > 0 /\ UNCHANGED <<route, in, tenantOf, log, sent, ran, panicked>>
  BY DEF Unwind
<1>2. /\ route \in Routes /\ layer \in 1..Depth(route) /\ Depth(route) \in 0..7
      /\ route # "unknown" /\ ctx \in Ctx /\ ran \in BOOLEAN /\ panicked = TRUE
  BY <1>1, Depths DEF TransportTypeOK, Way
<1>3. /\ layer' = layer - 1
      /\ IF layer = 1 THEN mode' = "up" /\ ctx' = [ctx EXCEPT !.status = 500]
         ELSE UNCHANGED <<mode, ctx>>
      /\ span' = IF route \in TracedRoutes /\ layer = 3 THEN span \ {This} ELSE span
  BY <1>2, Layers DEF Unwind, Outward
<1>4. /\ ctx' \in Ctx /\ ctx'.id = ctx.id /\ ctx'.header = ctx.header
      /\ ctx'.user = ctx.user
      /\ (layer = 1 => ctx'.status = 500)
  BY <1>2, <1>3 DEF Ctx
<1>5. /\ This' = This /\ LinesOf(This)' = LinesOf(This)
      /\ \A i \in 1..Len(sent') : GuardedAnswer(sent'[i]) /\ Told(i, sent[i])'
      /\ \A line \in log' : line.number \in 1..This'
  BY <1>1, RecordKept
<1>6. TransportTypeOK'
  BY <1>1, <1>2, <1>3, <1>4 DEF TransportTypeOK
<1>7. Way'
  BY <1>1, <1>2, <1>3 DEF Way
<1>8. Admission'
  BY <1>1, <1>2, <1>3, <1>4, <1>5 DEF Admission
<1>9. Spans'
  BY <1>1, <1>2, <1>3, <1>5 DEF Spans
<1>10. Tenanted'
  BY <1>1, <1>2, <1>3 DEF Tenanted
<1>11. Logged'
  <2>1. LinesOf(This)' = {} /\ ctx.id = ctx.header
    BY <1>1, <1>5 DEF Logged
  <2>2. layer = 1 => Told(This, Response)'
    BY <1>1, <1>2, <1>3, <1>4, <1>5, <2>1 DEF Told, Response
  <2> QED
    BY <1>2, <1>3, <1>4, <1>5, <2>1, <2>2, <1>1 DEF Logged
<1> QED
  BY <1>6, <1>7, <1>8, <1>9, <1>10, <1>11

(* The response is written: what was told of it becomes the record.        *)
LEMMA WriteKeeps ==
    ASSUME TransportInv, Write
    PROVE  TransportInv'
<1> USE DEF TransportInv
<1>1. /\ mode = "up" /\ layer = 0 /\ mode' = "idle" /\ sent' = Append(sent, Response)
      /\ UNCHANGED <<route, in, layer, ctx, tenantOf, span, log, ran, panicked>>
  BY DEF Write, Response
<1>2. Response \in Responses
  BY DEF Response, Responses, TransportTypeOK, Ctx, Way
<1>3. sent \in Seq(Responses) /\ Len(sent) < MaxRequests /\ Len(sent) \in Nat
  BY <1>1, Numbers DEF Way
<1>4. /\ sent' \in Seq(Responses) /\ Len(sent') = Len(sent) + 1
      /\ \A i \in 1..Len(sent) : sent'[i] = sent[i]
      /\ sent'[Len(sent) + 1] = Response
  BY <1>1, <1>2, <1>3
<1>5. This' = This + 1 /\ This = Len(sent) + 1
  BY <1>3, <1>4 DEF This
<1>6. /\ \A i : LinesOf(i)' = LinesOf(i)
      /\ \A i, s : Told(i, s)' <=> Told(i, s)
  <2>1. \A i : LinesOf(i)' = LinesOf(i)
    BY <1>1 DEF LinesOf
  <2> QED
    BY <1>1, <2>1 DEF Told
<1>7. TransportTypeOK'
  BY <1>1, <1>3, <1>4, TransportAssumption DEF TransportTypeOK
<1>8. Way'
  BY <1>1, <1>4 DEF Way
<1>9. Admission'
  <2>1. GuardedAnswer(Response)
    BY <1>1 DEF GuardedAnswer, Response, Admission
  <2>2. \A i \in 1..Len(sent') : GuardedAnswer(sent'[i])
    BY <1>3, <1>4, <2>1 DEF Admission
  <2> QED
    BY <1>1, <2>2 DEF Admission
<1>10. Spans'
  BY <1>1 DEF Spans
<1>11. Tenanted'
  BY <1>1 DEF Tenanted
<1>12. Logged'
  <2>1. Told(This, Response)
    BY <1>1 DEF Logged
  <2>2. \A i \in 1..Len(sent') : Told(i, sent'[i])
    BY <1>3, <1>4, <1>5, <1>6, <2>1 DEF Logged
  <2>3. LinesOf(This + 1) = {}
    BY <1>1, <1>3, <1>5 DEF LinesOf, Logged
  <2>4. \A line \in log' : line.number \in 1..This'
    BY <1>1, <1>3, <1>5 DEF Logged
  <2> QED
    BY <1>1, <1>5, <1>6, <2>2, <2>3, <2>4 DEF Logged
<1> QED
  BY <1>7, <1>8, <1>9, <1>10, <1>11, <1>12

(* Every step keeps the invariant.                                         *)
LEMMA TransportStep == TransportInv /\ [TransportNext]_transportVars => TransportInv'
<1> SUFFICES ASSUME TransportInv, [TransportNext]_transportVars PROVE TransportInv'
  OBVIOUS
<1>1. CASE Session
  <2>1. CASE Deeper
    BY <1>1, <2>1, LayersKeep
  <2>2. CASE ~Deeper
    BY <1>1, <2>2, RefusalsKeep
  <2> QED
    BY <2>1, <2>2
<1>2. CASE Origin
  <2>1. CASE in.trusted
    BY <1>2, <2>1, LayersKeep
  <2>2. CASE ~in.trusted
    BY <1>2, <2>2, RefusalsKeep
  <2> QED
    BY <2>1, <2>2
<1>3. CASE UNCHANGED transportVars
  BY <1>3 DEF transportVars, TransportInv, TransportTypeOK, Way, Admission,
     Tenanted, Spans, Logged,     This, LinesOf, Told, Response, SessionPassed, OriginPassed
<1>4. CASE Closed
  BY <1>3, <1>4 DEF Closed
<1> QED
  BY <1>1, <1>2, <1>3, <1>4, AcceptKeeps, LayersKeep, HandleKeeps, ReturnKeeps, PanicKeeps,
     UnwindKeeps, WriteKeeps DEF TransportNext, Serve

-----------------------------------------------------------------------------
(* What a layer relies on has been established by the layers before it,    *)
(* and stays so while the request leaves the chain, by whatever way.       *)
THEOREM TransportInvariant == TransportSpec => []TransportInv
BY TransportStarts, TransportStep, PTL DEF TransportSpec

(* Whatever the requests and wherever code panics, the values have their   *)
(* types, and no request or session has a tenant but the default one.      *)
THEOREM TransportTyped == TransportSpec => []TransportTypeOK
<1>1. TransportInv => TransportTypeOK
  BY DEF TransportInv
<1> QED
  BY <1>1, TransportInvariant, PTL

(* A response below 400 comes from a handler, and a handler ran behind the *)
(* guards its route asks for: the Origin check before it changes anything, *)
(* the session before it knows who is asking.                              *)
THEOREM HandlersAreGuarded == TransportSpec => []Guarded
<1>1. TransportInv => Guarded
  BY DEF TransportInv, Admission, GuardedAnswer, Guarded
<1> QED
  BY <1>1, TransportInvariant, PTL

(* A request that was answered has no span left open, whether its layers   *)
(* returned or were unwound.                                               *)
THEOREM SpansAreEnded == TransportSpec => []SpansEnd
<1>1. TransportInv => SpansEnd
  BY Numbers DEF TransportInv, Spans, SpansEnd
<1> QED
  BY <1>1, TransportInvariant, PTL

(* The access log tells what the client was told, under the right tenant,  *)
(* and has one line of every request that no panic cut short.              *)
THEOREM TheLogIsTrue == TransportSpec => []LogIsTrue
<1>1. TransportInv => LogIsTrue
  <2> SUFFICES ASSUME TransportInv, NEW i \in 1..Len(sent)
               PROVE  /\ \A line \in LinesOf(i) : Matches(line, sent[i])
                      /\ Cardinality(LinesOf(i)) =
                            IF sent[i].route = "unknown" \/ sent[i].panicked THEN 0 ELSE 1
    BY DEF LogIsTrue, Matches, TenantFor
  <2>1. Told(i, sent[i])
    BY DEF TransportInv, Logged
  <2>2. CASE sent[i].route = "unknown" \/ sent[i].panicked
    BY <2>1, <2>2, FS_EmptySet DEF Told
  <2>3. CASE ~(sent[i].route = "unknown" \/ sent[i].panicked)
    <3>1. PICK line \in log : LinesOf(i) = {line}
      BY <2>1, <2>3 DEF Told
    <3>2. Cardinality(LinesOf(i)) = 1
      BY <3>1, FS_Singleton
    <3> QED
      BY <2>1, <2>3, <3>2 DEF Told
  <2> QED
    BY <2>2, <2>3
<1> QED
  BY <1>1, TransportInvariant, PTL
=============================================================================
