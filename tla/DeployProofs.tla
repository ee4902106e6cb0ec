---------------------------- MODULE DeployProofs ----------------------------
(***************************************************************************)
(* A deployment, for any number of overlapping migration runs, and any     *)
(* environment, word sizes and clients of a server: the schema the runs    *)
(* leave behind, and the settings and the exit of the process.             *)
(***************************************************************************)
EXTENDS Server, Migrate, TLAPS

-----------------------------------------------------------------------------
(* The server process.                                                     *)

BootSteps == {"load", "pool", "migrate", "cache", "ping", "wire"}
ServeSteps == {"serve", "drain", "closeCache", "closePool"}

\* The listener comes up behind sign_in.New, which has tried the hasher.
Tried ==
    /\ pc \in BootSteps \cup ServeSteps \cup {"exited"}
    /\ pc \in BootSteps => listener = "none"
    /\ listener = "none" => \A c \in Clients : request[c] = "none"
    /\ pc \in ServeSteps \/ listener # "none" => HasherWorks

Settings == pc \notin {"load", "exited"} => cfg.number = Used(env) /\ ~LoadFails(env)

\* A request comes in by a listener; main gets to closing by way of Shutdown, which
\* finds none or ends the contexts of all requests.
Closing ==
    /\ listener = "unbound" => \A c \in Clients : request[c] = "none"
    /\ pc \in ClosingSteps => stopping \/ listener \in {"none", "unbound", "late"}

ServerInv == Tried /\ Settings /\ Closing

(* A remainder that changes nothing.                                       *)
LEMMA SmallMod ==
    ASSUME NEW a \in Nat, NEW b \in Nat, a < b
    PROVE  a % b = a
OBVIOUS

(* A number that was not refused and fits its type is not changed by the   *)
(* conversion to it.                                                       *)
LEMMA FittingIsKept ==
    ASSUME NEW name \in Numeric, NEW v, v # Unset, ~Refused(name, v), Fits(name, v)
    PROVE  Convert(name, v) = IF name \in Durations THEN v * Unit(name) ELSE v
<1>1. v \in Nat /\ (name = "ARGON2_PARALLELISM" => v <= MaxUint8)
  BY ConfigAssumption DEF Refused
<1>2. CASE name \in Durations
  <2> DEFINE x == v * Unit(name)
  <2>1. x \in Nat /\ x <= MaxInt
    <3>1. Unit(name) \in Nat
      BY ConfigAssumption DEF Unit
    <3>2. x <= MaxInt
      BY <1>2 DEF Fits, Durations
    <3> QED
      BY <1>1, <3>1, <3>2
  <2>2. Convert(name, v) = Duration(x)
    BY <1>2 DEF Convert, Durations
  <2> HIDE DEF x
  <2>3. (x + MaxInt + 1) % (2 * (MaxInt + 1)) = x + MaxInt + 1
    BY <2>1, ConfigAssumption, SmallMod
  <2>4. Duration(x) = x
    BY <2>1, <2>3, ConfigAssumption DEF Duration
  <2> QED
    BY <1>2, <2>2, <2>4 DEF x
<1>3. CASE name = "ARGON2_PARALLELISM"
  <2>1. name \notin Durations
    BY <1>3 DEF Durations
  <2>2. v % (MaxUint8 + 1) = v
    BY <1>1, <1>3, ConfigAssumption, SmallMod
  <2> QED
    BY <1>3, <2>1, <2>2 DEF Convert
<1>4. CASE name \notin Durations /\ name # "ARGON2_PARALLELISM"
  <2>1. v < Uint32
    BY <1>4 DEF Fits
  <2>2. v % Uint32 = v
    BY <1>1, <2>1, ConfigAssumption, SmallMod
  <2> QED
    BY <1>4, <2>2 DEF Convert
<1> QED
  BY <1>2, <1>3, <1>4

(* A process starts without a listener and without requests.               *)
LEMMA ServerStarts == ServerInit => ServerInv
BY DEF ServerInit, ServerInv, Tried, Settings, Closing, ClosingSteps, BootSteps,
   ServeSteps

(* The steps of main: its settings are those of the environment, and it    *)
(* gets to serving past a hash.                                            *)
LEMMA MainKeeps ==
    ASSUME ServerInv, Boot \/ Stop
    PROVE  ServerInv'
<1> USE DEF ServerInv, Proceed, Exit, Serving
<1>1. CASE LoadConfig
  <2>1. /\ pc = "load" /\ pc' \in {"pool", "exited"}
        /\ UNCHANGED <<env, listener, request>>
    BY <1>1 DEF LoadConfig
  <2>2. pc' = "pool" => cfg'.number = Used(env) /\ ~LoadFails(env)
    BY <1>1 DEF LoadConfig, Load
  <2> QED
    BY <2>1, <2>2 DEF Tried, Settings, Closing, ClosingSteps, BootSteps,
       ServeSteps
<1>2. CASE NewPool
  BY <1>2 DEF NewPool, Tried, Settings, Closing, ClosingSteps,
     BootSteps, ServeSteps, HasherWorks
<1>3. CASE RunMigrations
  BY <1>3 DEF RunMigrations, Tried, Settings, Closing, ClosingSteps,
     BootSteps, ServeSteps, HasherWorks
<1>4. CASE NewCache \/ Ping
  BY <1>4 DEF NewCache, Ping, Tried, Settings, Closing, ClosingSteps,
     BootSteps, ServeSteps, HasherWorks
<1>5. CASE Wire
  BY <1>5 DEF Wire, Tried, Settings, Closing, ClosingSteps,
     BootSteps, ServeSteps, HasherWorks
<1>6. CASE Shutdown
  BY <1>6 DEF Shutdown, Tried, Settings, Closing, ClosingSteps,
     BootSteps, ServeSteps, HasherWorks
<1>7. CASE ServerError
  BY <1>7 DEF ServerError, Tried, Settings, Closing, ClosingSteps,
     BootSteps, ServeSteps, HasherWorks
<1>8. CASE Drain \/ CloseCache
  BY <1>8 DEF Drain, CloseCache, Tried, Settings, Closing, ClosingSteps,
     BootSteps, ServeSteps, HasherWorks
<1>9. CASE ClosePool
  BY <1>9 DEF ClosePool, Tried, Settings, Closing, ClosingSteps,
     BootSteps, ServeSteps, HasherWorks
<1> QED
  BY <1>1, <1>2, <1>3, <1>4, <1>5, <1>6, <1>7, <1>8, <1>9 DEF Boot, Stop

(* The steps of the listening goroutine, of requests and of signals.       *)
LEMMA OthersKeep ==
    ASSUME ServerInv,
           \/ Listen \/ ListenerError \/ Signal \/ Gone \/ UNCHANGED serverVars
           \/ \E c \in Clients : Accept(c) \/ Compute(c) \/ Release(c)
    PROVE  ServerInv'
<1> USE DEF ServerInv
<1>1. CASE Listen \/ ListenerError
  BY <1>1 DEF Listen, ListenerError, Tried, Settings, Closing, ClosingSteps,
     BootSteps, ServeSteps, HasherWorks
<1>2. CASE Signal
  BY <1>2 DEF Signal, Exit, Tried, Settings, Closing, ClosingSteps,
     BootSteps, ServeSteps, HasherWorks
<1>3. CASE Gone \/ UNCHANGED serverVars
  BY <1>3 DEF Gone, serverVars, Tried, Settings, Closing, ClosingSteps,
     HasherWorks
<1>4. CASE \E c \in Clients : Accept(c) \/ Compute(c) \/ Release(c)
  <2>1. PICK c \in Clients : Accept(c) \/ Compute(c) \/ Release(c)
    BY <1>4
  <2>2. /\ UNCHANGED <<env, cfg, pc, listener, stopping>>
        /\ \E r \in {"computing", "holding", "answered"} : request' = [request EXCEPT ![c] = r]
        /\ listener \notin {"none", "unbound"}
    BY <2>1 DEF Accept, Compute, Release, Tried, Closing
  <2> QED
    BY <2>2 DEF Tried, Settings, Closing, ClosingSteps, HasherWorks
<1> QED
  BY <1>1, <1>2, <1>3, <1>4

(* Whatever fails and whenever a signal comes, main serves with the        *)
(* settings it was given and behind a hash it has made.                    *)
THEOREM ServerInvariant == ServerSpec => []ServerInv
<1>1. ServerInv /\ [ServerNext]_serverVars => ServerInv'
  BY MainKeeps, OthersKeep DEF ServerNext
<1> QED
  BY <1>1, ServerStarts, PTL DEF ServerSpec

(* No request meets a hasher that panics, for any settings and any width   *)
(* of the integers they are converted to.                                  *)
THEOREM RequestsHash == ServerSpec => []RequestsCanHash
<1>1. ServerInv => RequestsCanHash
  BY DEF ServerInv, Tried, RequestsCanHash, Open
<1> QED
  BY <1>1, ServerInvariant, PTL

(* A number that fits its type is used as it was given, on a machine of    *)
(* any width.                                                              *)
THEOREM SettingsAreUsed == ServerSpec => []FittingSettingsAreUsed
<1>1. ServerInv => FittingSettingsAreUsed
  <2> SUFFICES ASSUME ServerInv, pc \notin {"load", "exited"}, NEW name \in Numeric,
                      env.number[name] # Unset, Fits(name, env.number[name])
               PROVE  cfg.number[name] = IF name \in Durations THEN env.number[name] * Unit(name)
                                         ELSE env.number[name]
    BY DEF FittingSettingsAreUsed
  <2>1. cfg.number = Used(env) /\ ~Refused(name, env.number[name])
    BY DEF ServerInv, Settings, LoadFails
  <2>2. cfg.number[name] = Convert(name, env.number[name])
    BY <2>1 DEF Used
  <2> QED
    BY <2>1, <2>2, FittingIsKept
<1> QED
  BY <1>1, ServerInvariant, PTL

(* For any number of clients, main closes cache and pool only behind a     *)
(* Shutdown that ended the contexts of all requests.                       *)
THEOREM NothingOutlivesShutdown == ServerSpec => []ClosesBehindShutdown
<1>1. ServerInv => ClosesBehindShutdown
  BY DEF ServerInv, Tried, Closing, ClosingSteps, ClosesBehindShutdown, Open
<1> QED
  BY <1>1, ServerInvariant, PTL

-----------------------------------------------------------------------------
(* Migrations.                                                             *)

States == Calls \cup {"unborn", "ok", "failed"}
Working == {"read", "apply", "rollBack"}   \* calls that need goose's version table

Runners ==
    /\ command \in [Runs -> AllCommands \cup {NoCommand}]
    /\ at \in [Runs -> States]
    /\ plan \in [Runs -> Seq(0..4)]
    /\ \A p \in Running : command[p] \in AllCommands

\* A version above the first is only ever inserted when it is higher than all
\* that are there; goose's version 0 comes with the table.
Table ==
    /\ rows \subseteq [id : Nat, version : 0..4]
    /\ \E n \in Nat : \A i \in Nat : (\E row \in rows : row.id = i) <=> i \in 1..n
    /\ \A r, s \in rows : r.id = s.id => r = s
    /\ \A r, s \in rows : r.id < s.id /\ s.version >= 2 => r.version < s.version
    /\ \A row \in rows : row.id = 1 => row.version = 0
    /\ rows = {} <=> "goose_db_version" \notin objects

Schema ==
    /\ VersionsMatchSchema
    /\ \A p \in Running : at[p] # "schema" => "schema" \in objects
    /\ \A p \in Running : at[p] \in Working => "goose_db_version" \in objects

\* The migrations that are left are the last ones up to the target, and the
\* one before them is recorded.
Left(p) == Target(p) - Len(plan[p])
Plans ==
    \A p \in Runs :
        /\ at[p] = "apply" =>
            /\ Does(p, {"up", "up-to"})
            /\ Len(plan[p]) > 0 /\ Left(p) \in Recorded
            /\ \A i \in 1..Len(plan[p]) : plan[p][i] = Left(p) + i
        /\ at[p] = "rollBack" =>
            /\ command[p] = <<"down">>
            /\ plan[p] = <<Newest.version>> /\ Newest.version # 0

\* A run that met no other finds what it read still true.  As long as none has met
\* another, every version is recorded once, in order.
Lone ==
    /\ \A p, q \in Running : p # q => p \in met
    /\ \A p, q \in Running : command[p] = <<"down">> => q = p
    /\ \A p \in Running \ met :
        /\ at[p] = "create" => "goose_db_version" \notin objects
        /\ at[p] = "apply" => Left(p) + 1 \notin Recorded
    /\ met = {} => \A r, s \in rows : r.id < s.id => r.version < s.version

MigrateInv == Runners /\ Table /\ Schema /\ Plans /\ Lone

(* What the migrations create.                                             *)
LEMMA CreatesEach ==
    /\ Creates[1] = "schema" /\ Creates[2] = "users" /\ Creates[3] = "sessions"
    /\ Creates[4] = "outbox_events" /\ Versions = 1..4
BY DEF Creates, Versions

(* The commands, by their first word.                                      *)
LEMMA CommandWords ==
    ASSUME NEW c \in AllCommands
    PROVE  /\ Head(c) \in {"up", "up-to", "down", "status", "version"}
           /\ Head(c) = "down" <=> c = <<"down">>
           /\ Head(c) = "up-to" => c[2] \in 1..4
           /\ c = <<"up">> => Head(c) = "up"
<1>1. CASE c \in {<<"up">>, <<"down">>, <<"status">>, <<"version">>}
  BY <1>1
<1>2. CASE c \in {<<"up-to", v>> : v \in Versions}
  <2>1. PICK v \in Versions : c = <<"up-to", v>>
    BY <1>2
  <2> QED
    BY <2>1 DEF Versions
<1> QED
  BY <1>1, <1>2 DEF AllCommands

(* The newest row of the version table.                                    *)
LEMMA NewestIsLast ==
    ASSUME Table, rows # {}
    PROVE  Newest \in rows /\ \A row \in rows : row.id \in Nat /\ row.id <= Newest.id
<1>1. PICK n \in Nat : \A i \in Nat : (\E row \in rows : row.id = i) <=> i \in 1..n
  BY DEF Table
<1>2. \A row \in rows : row.id \in 1..n
  BY <1>1 DEF Table
<1>3. PICK last \in rows : last.id = n
  BY <1>1, <1>2
<1>4. \A row \in rows : row.id <= last.id
  BY <1>2, <1>3
<1> QED
  BY <1>2, <1>4 DEF Newest

(* The recorded versions are those up to the latest.                       *)
LEMMA RecordedUpTo ==
    ASSUME Table, VersionsMatchSchema, rows # {}
    PROVE  /\ MaxRecorded \in 0..4 /\ Missing = {} /\ Recorded \subseteq 0..4
           /\ \A v \in 0..4 : v \in Recorded <=> v <= MaxRecorded
<1>1. Recorded \subseteq 0..4
  BY DEF Recorded, Table
<1>2. 0 \in Recorded
  <2>1. PICK n \in Nat : \A i \in Nat : (\E row \in rows : row.id = i) <=> i \in 1..n
    BY DEF Table
  <2>2. \E row \in rows : row.id = 1
    BY <2>1 DEF Table
  <2> QED
    BY <2>2 DEF Table, Recorded
<1>3. \A v, w \in 1..4 : v \in Recorded /\ w < v => w \in Recorded
  BY DEF VersionsMatchSchema, Versions
<1>4. \E v \in Recorded : \A w \in Recorded : w <= v
  BY <1>1, <1>2
<1>5. MaxRecorded \in Recorded /\ \A w \in Recorded : w <= MaxRecorded
  BY <1>4 DEF MaxRecorded
<1>6. \A v \in 0..4 : v \in Recorded <=> v <= MaxRecorded
  BY <1>1, <1>2, <1>3, <1>5
<1> QED
  BY <1>1, <1>5, <1>6 DEF Missing, Versions

(* A step that leaves the version table alone: what the run has still to   *)
(* do must be right for the call it makes next.                            *)
LEMMA QuietKeeps ==
    ASSUME MigrateInv, NEW p \in Running, NEW c \in States, Goto(p, c),
           UNCHANGED <<rows, command>>,
           objects' \in {objects, objects \cup {"schema"}},
           NEW s \in Seq(0..4), plan' = [plan EXCEPT ![p] = s],
           met' = met,
           c # "schema",
           c \in Calls => "schema" \in objects',
           c \in Working => "goose_db_version" \in objects,
           c = "create" /\ p \notin met => "goose_db_version" \notin objects,
           c = "apply" =>
             /\ Does(p, {"up", "up-to"})
             /\ Len(s) > 0 /\ Target(p) - Len(s) \in Recorded
             /\ \A i \in 1..Len(s) : s[i] = Target(p) - Len(s) + i
             /\ p \notin met => Target(p) - Len(s) + 1 \notin Recorded,
           c = "rollBack" =>
             command[p] = <<"down">> /\ s = <<Newest.version>> /\ Newest.version # 0
    PROVE  MigrateInv'
<1> USE DEF MigrateInv
<1>1. /\ p \in Runs /\ at[p] \in Calls /\ at \in [Runs -> States] /\ plan \in [Runs -> Seq(0..4)]
      /\ command \in [Runs -> AllCommands \cup {NoCommand}] /\ command[p] \in AllCommands
  BY DEF Running, Runners
<1>2. /\ at' \in [Runs -> States] /\ at'[p] = c /\ \A q \in Runs : q # p => at'[q] = at[q]
      /\ plan' \in [Runs -> Seq(0..4)] /\ plan'[p] = s
      /\ \A q \in Runs : q # p => plan'[q] = plan[q]
  BY <1>1 DEF Goto
<1>3. Running' \subseteq Running /\ (p \in Running' => c \in Calls)
  BY <1>1, <1>2 DEF Running
<1>4. /\ Recorded' = Recorded /\ Newest' = Newest /\ \A q : Target(q)' = Target(q)
      /\ \A q, w : Does(q, w)' <=> Does(q, w)
      /\ \A q \in Runs : q # p => Left(q)' = Left(q)
      /\ Left(p)' = Target(p) - Len(s)
  BY <1>2 DEF Recorded, Newest, Target, Does, Left
<1>5. Runners'
  BY <1>1, <1>2, <1>3 DEF Runners
<1>6. Table'
  BY DEF Table
<1>7. Schema'
  <2>1. VersionsMatchSchema'
    BY <1>4, CreatesEach DEF Schema, VersionsMatchSchema
  <2> QED
    BY <1>2, <1>3, <2>1 DEF Schema, Running, Working
<1>8. Plans'
  BY <1>2, <1>4 DEF Plans
<1>9. Lone'
  <2>1. \A q, r \in Running' : q # r => q \in met'
    BY <1>3 DEF Lone
  <2>2. \A q, r \in Running' : command'[q] = <<"down">> => r = q
    BY <1>3 DEF Lone
  <2>3. ASSUME NEW q \in Running' \ met'
        PROVE  /\ at'[q] = "create" => "goose_db_version" \notin objects'
               /\ at'[q] = "apply" => Left(q)' + 1 \notin Recorded'
    BY <1>2, <1>3, <1>4 DEF Lone, Running
  <2>4. met' = {} => \A r, t \in rows' : r.id < t.id => r.version < t.version
    BY DEF Lone
  <2> QED
    BY <2>1, <2>2, <2>3, <2>4 DEF Lone
<1> QED
  BY <1>5, <1>6, <1>7, <1>8, <1>9

(* The calls that only look, and a run that ends early.                    *)
LEMMA LookingKeeps ==
    ASSUME MigrateInv, NEW p \in Runs,
           \/ BootstrapSchema(p) \/ EnsureDBVersion(p) \/ CutShort(p)
           \/ CreateVersionTable(p) /\ "goose_db_version" \in objects
    PROVE  MigrateInv'
<1>1. /\ p \in Running /\ plan[p] \in Seq(0..4) /\ plan = [plan EXCEPT ![p] = plan[p]]
      /\ plan' = plan /\ UNCHANGED <<rows, command>>
      /\ at[p] # "schema" => "schema" \in objects
      /\ p \notin met /\ at[p] = "create" => "goose_db_version" \notin objects
  BY DEF MigrateInv, Runners, Schema, Lone, Running, Calls, BootstrapSchema, EnsureDBVersion,
     CutShort, CreateVersionTable
<1>2. CASE BootstrapSchema(p)
  <2>1. Goto(p, "ensure") /\ objects' = objects \cup {"schema"} /\ met' = met
    BY <1>2 DEF BootstrapSchema
  <2> QED
    BY <1>1, <2>1, QuietKeeps DEF States, Calls, Working
<1>3. CASE EnsureDBVersion(p)
  <2>1. /\ at[p] = "ensure" /\ UNCHANGED <<objects, met>>
        /\ Goto(p, IF "goose_db_version" \in objects THEN "read" ELSE "create")
    BY <1>3 DEF EnsureDBVersion
  <2> QED
    BY <1>1, <2>1, QuietKeeps DEF States, Calls, Working
<1>4. CASE CutShort(p)
  <2>1. Goto(p, "failed") /\ UNCHANGED <<objects, met>>
    BY <1>4 DEF CutShort
  <2> QED
    BY <1>1, <2>1, QuietKeeps DEF States, Calls, Working
<1>5. CASE CreateVersionTable(p) /\ "goose_db_version" \in objects
  <2>1. at[p] = "create" /\ Goto(p, "failed") /\ UNCHANGED <<objects, met>>
    BY <1>5 DEF CreateVersionTable
  <2> QED
    BY <1>1, <1>5, <2>1, QuietKeeps DEF States, Calls, Working
<1> QED
  BY <1>2, <1>3, <1>4, <1>5

(* What an up plans: the versions above the latest, up to its target.      *)
LEMMA PendingIs ==
    ASSUME NEW p, MaxRecorded \in 0..4, Target(p) \in 1..4
    PROVE  /\ Pending(p) \in Seq(0..4)
           /\ Len(Pending(p)) = IF Target(p) > MaxRecorded THEN Target(p) - MaxRecorded ELSE 0
           /\ \A i \in 1..Len(Pending(p)) : Pending(p)[i] = MaxRecorded + i
           /\ Pending(p) = << >> <=> Target(p) <= MaxRecorded
<1> DEFINE n == Target(p) - MaxRecorded
<1>1. CASE Target(p) > MaxRecorded
  <2>1. n \in Nat /\ n > 0 /\ \A i \in 1..n : MaxRecorded + i \in 0..4
    BY <1>1
  <2> HIDE DEF n
  <2>2. Pending(p) = [i \in 1..n |-> MaxRecorded + i]
    BY DEF Pending, n
  <2>3. Pending(p) \in Seq(0..4) /\ Len(Pending(p)) = n
    BY <2>1, <2>2
  <2> QED
    BY <1>1, <2>1, <2>2, <2>3 DEF n
<1>2. CASE Target(p) <= MaxRecorded
  <2>1. 1..n = {}
    BY <1>2
  <2>2. Pending(p) = << >>
    BY <2>1 DEF Pending
  <2> QED
    BY <1>2, <2>2
<1> QED
  BY <1>1, <1>2

(* A run that has read the version table.                                  *)
LEMMA HasRead ==
    ASSUME MigrateInv, NEW p \in Runs, at[p] \in Working
    PROVE  /\ p \in Running /\ rows # {} /\ "schema" \in objects
           /\ "goose_db_version" \in objects
           /\ Newest \in rows /\ \A row \in rows : row.id \in Nat /\ row.id <= Newest.id
           /\ MaxRecorded \in 0..4 /\ Missing = {} /\ Recorded \subseteq 0..4
           /\ \A v \in 0..4 : v \in Recorded <=> v <= MaxRecorded
           /\ command[p] \in AllCommands /\ Target(p) \in 1..4
           /\ command[p] = <<"up">> => Target(p) = 4
<1>1. p \in Running /\ at[p] # "schema"
  BY DEF Running, Calls, Working
<1>2. /\ rows # {} /\ "schema" \in objects /\ "goose_db_version" \in objects
      /\ VersionsMatchSchema /\ Table /\ command[p] \in AllCommands
  BY <1>1 DEF MigrateInv, Schema, Table, Runners
<1>3. Target(p) \in 1..4 /\ (command[p] = <<"up">> => Target(p) = 4)
  BY <1>2, CommandWords DEF Target
<1> QED
  BY <1>1, <1>2, <1>3, NewestIsLast, RecordedUpTo

(* What a run decides on from what it read.                                *)
LEMMA ReadKeeps ==
    ASSUME MigrateInv, NEW p \in Runs, ReadVersions(p)
    PROVE  MigrateInv'
<1>1. at[p] = "read" /\ at[p] \in Working /\ UNCHANGED <<objects, rows, command, met>>
  BY DEF ReadVersions, Working
<1>2. /\ p \in Running /\ rows # {} /\ "schema" \in objects
      /\ "goose_db_version" \in objects /\ Newest \in rows
      /\ MaxRecorded \in 0..4 /\ Missing = {}
      /\ \A v \in 0..4 : v \in Recorded <=> v <= MaxRecorded
      /\ command[p] \in AllCommands /\ Target(p) \in 1..4
  BY <1>1, HasRead
<1>3. /\ {"ok", "failed", "apply", "rollBack"} \subseteq States
      /\ {"apply", "rollBack"} \subseteq Calls /\ {"apply", "rollBack"} \subseteq Working
      /\ {"ok", "failed"} \cap (Calls \cup Working) = {}
  BY DEF States, Calls, Working
<1>4. p \in Running /\ objects' \in {objects, objects \cup {"schema"}} /\ met' = met
      /\ "schema" \in objects' /\ "goose_db_version" \in objects /\ UNCHANGED <<rows, command>>
  BY <1>1, <1>2
<1>5. CASE Does(p, {"up", "up-to"}) /\ plan' = [plan EXCEPT ![p] = Pending(p)]
           /\ Goto(p, IF Missing # {} THEN "failed"
                      ELSE IF Pending(p) = << >> THEN "ok" ELSE "apply")
  <2>1. /\ Pending(p) \in Seq(0..4)
        /\ Len(Pending(p)) = IF Target(p) > MaxRecorded THEN Target(p) - MaxRecorded ELSE 0
        /\ \A i \in 1..Len(Pending(p)) : Pending(p)[i] = MaxRecorded + i
        /\ Pending(p) = << >> <=> Target(p) <= MaxRecorded
    BY <1>2, PendingIs
  <2>2. CASE Pending(p) = << >>
    <3>1. Goto(p, "ok")
      BY <1>2, <1>5, <2>2
    <3> QED
      BY <1>3, <1>4, <1>5, <2>1, <3>1, QuietKeeps
  <2>3. CASE Pending(p) # << >>
    <3>1. Goto(p, "apply")
      BY <1>2, <1>5, <2>3
    <3>2. Target(p) - Len(Pending(p)) = MaxRecorded /\ Len(Pending(p)) > 0
      BY <1>2, <2>1, <2>3
    <3>3. MaxRecorded \in Recorded /\ MaxRecorded + 1 \notin Recorded
      BY <1>2, <2>1, <2>3
    <3> QED
      BY <1>3, <1>4, <1>5, <2>1, <3>1, <3>2, <3>3, QuietKeeps
  <2> QED
    BY <2>2, <2>3
<1>6. CASE Does(p, {"down"}) /\ plan' = [plan EXCEPT ![p] = <<Newest.version>>]
           /\ Goto(p, IF Newest.version = 0 THEN "failed" ELSE "rollBack")
  <2>1. command[p] = <<"down">>
    BY <1>2, <1>6, CommandWords DEF Does
  <2>2. <<Newest.version>> \in Seq(0..4)
    BY <1>2 DEF MigrateInv, Table
  <2> QED
    BY <1>3, <1>4, <1>6, <2>1, <2>2, QuietKeeps
<1>7. CASE Goto(p, "ok") /\ UNCHANGED plan
  <2>1. PICK s \in Seq(0..4) : plan' = [plan EXCEPT ![p] = s]
    BY <1>7 DEF MigrateInv, Runners
  <2> QED
    BY <1>3, <1>4, <1>7, <2>1, QuietKeeps
<1> QED
  BY <1>5, <1>6, <1>7 DEF ReadVersions

(* The next migration of a plan.                                           *)
LEMMA NextOfPlan ==
    ASSUME MigrateInv, NEW p \in Runs, at[p] = "apply"
    PROVE  LET v == Head(plan[p])
           IN /\ v = Left(p) + 1 /\ v \in 1..4 /\ v - 1 \in Recorded
              /\ plan[p] \in Seq(0..4) /\ Len(plan[p]) \in Nat \ {0}
              /\ Target(p) = v + Len(plan[p]) - 1
              /\ p \notin met => v \notin Recorded
<1>1. /\ p \in Running /\ Target(p) \in 1..4 /\ Recorded \subseteq 0..4
  BY HasRead DEF Working
<1>2. /\ plan[p] \in Seq(0..4) /\ Len(plan[p]) > 0 /\ Left(p) \in Recorded
      /\ \A i \in 1..Len(plan[p]) : plan[p][i] = Left(p) + i
  BY DEF MigrateInv, Plans, Runners
<1>3. Len(plan[p]) \in Nat \ {0} /\ Head(plan[p]) = plan[p][1] /\ Left(p) = Target(p) - Len(plan[p])
  BY <1>2 DEF Left
<1>4. p \notin met => Left(p) + 1 \notin Recorded
  BY <1>1 DEF MigrateInv, Lone
<1> QED
  BY <1>1, <1>2, <1>3, <1>4

(* A migration fails only for a run that met another.                      *)
LEMMA FailedUpMet ==
    ASSUME MigrateInv, NEW p \in Runs, at[p] = "apply", ~UpWorks(Head(plan[p]))
    PROVE  p \in met
<1> DEFINE v == Head(plan[p])
<1>1. v \in 1..4 /\ v - 1 \in Recorded /\ (p \notin met => v \notin Recorded)
  BY NextOfPlan
<1>2. "schema" \in objects
  BY HasRead DEF Working
<1>3. v > 1 /\ v \notin Recorded => Creates[v] \notin objects
  BY <1>1 DEF MigrateInv, Schema, VersionsMatchSchema, Versions
<1>4. v = 3 => "users" \in objects
  BY <1>1, CreatesEach DEF MigrateInv, Schema, VersionsMatchSchema
<1> QED
  BY <1>1, <1>2, <1>3, <1>4 DEF UpWorks

(* A rollback fails only when the newest row is one of the first migration. *)
LEMMA FailedDownFirst ==
    ASSUME MigrateInv, NEW p \in Runs, at[p] = "rollBack", ~DownWorks(Head(plan[p]))
    PROVE  command[p] = <<"down">> /\ plan[p] = << 1 >> /\ Newest.version = 1
<1>1. /\ command[p] = <<"down">> /\ plan[p] = <<Newest.version>> /\ Newest.version # 0
      /\ Head(plan[p]) = Newest.version
  BY DEF MigrateInv, Plans
<1>2. Newest \in rows /\ \A row \in rows : row.id \in Nat /\ row.id <= Newest.id
  BY HasRead DEF Working
<1>3. CASE Newest.version = 2
  <2>1. 3 \in Recorded
    BY <1>1, <1>3, CreatesEach DEF DownWorks, MigrateInv, Schema, VersionsMatchSchema
  <2>2. PICK row \in rows : row.version = 3
    BY <2>1 DEF Recorded
  <2>3. row.id # Newest.id
    BY <1>2, <1>3, <2>2 DEF MigrateInv, Table
  <2> QED
    BY <1>2, <1>3, <2>2, <2>3 DEF MigrateInv, Table
<1> QED
  BY <1>1, <1>3 DEF DownWorks

(* While no run has met another, nothing above the newest row is applied.  *)
LEMMA NewestIsHighest ==
    ASSUME MigrateInv, rows # {}, met = {}, Newest.version <= 1
    PROVE  \A v \in Versions \ {1} : Creates[v] \notin objects
<1>1. Newest \in rows /\ \A row \in rows : row.id \in Nat /\ row.id <= Newest.id
  BY NewestIsLast DEF MigrateInv
<1>2. \A row \in rows : row.version <= 1
  BY <1>1 DEF MigrateInv, Lone, Table
<1> QED
  BY <1>2 DEF MigrateInv, Schema, VersionsMatchSchema, Recorded, Versions

(* A migration or rollback that fails leaves nothing.                      *)
LEMMA FailedKeeps ==
    ASSUME MigrateInv, NEW p \in Running, Goto(p, "failed"),
           UNCHANGED <<objects, rows, plan, command, met>>
    PROVE  MigrateInv'
<1>1. PICK s \in Seq(0..4) : plan' = [plan EXCEPT ![p] = s]
  BY DEF MigrateInv, Runners, Running
<1>2. "failed" \in States /\ "failed" \notin Calls /\ "failed" \notin Working
  BY DEF States, Calls, Working
<1> QED
  BY <1>1, <1>2, QuietKeeps

(* A run begins: it meets whoever is running.                              *)
LEMMA StartKeeps ==
    ASSUME MigrateInv, NEW p \in Runs, Start(p)
    PROVE  MigrateInv'
<1> USE DEF MigrateInv
<1>1. PICK c \in Commands : /\ c = <<"down">> => Running = {}
                            /\ command' = [command EXCEPT ![p] = c]
  BY DEF Start
<1>2. /\ at[p] = "unborn" /\ at' = [at EXCEPT ![p] = "schema"]
      /\ \A q \in Running : command[q] # <<"down">>
      /\ met' = IF Running = {} THEN met ELSE met \cup Running \cup {p}
      /\ UNCHANGED <<objects, rows, plan>>
  BY DEF Start, Goto
<1>3. c \in AllCommands
  BY MigrateAssumption
<1>4. /\ at \in [Runs -> States] /\ command \in [Runs -> AllCommands \cup {NoCommand}]
      /\ plan \in [Runs -> Seq(0..4)]
  BY DEF Runners
<1>5. /\ at'[p] = "schema" /\ \A q \in Runs : q # p => at'[q] = at[q]
      /\ command'[p] = c /\ \A q \in Runs : q # p => command'[q] = command[q]
  BY <1>1, <1>2, <1>4
<1>6. p \notin Running /\ Running' = Running \cup {p}
  BY <1>2, <1>4, <1>5 DEF Running, Calls
<1>7. /\ Recorded' = Recorded /\ Newest' = Newest
      /\ \A q \in Runs : q # p => Target(q)' = Target(q) /\ Left(q)' = Left(q)
      /\ \A q \in Runs : \A w : q # p => (Does(q, w)' <=> Does(q, w))
  BY <1>2, <1>5 DEF Recorded, Newest, Target, Left, Does
<1>8. Runners'
  <2>1. at' \in [Runs -> States] /\ command' \in [Runs -> AllCommands \cup {NoCommand}]
    BY <1>1, <1>2, <1>3, <1>4 DEF States, Calls
  <2>2. \A q \in Running' : command'[q] \in AllCommands
    BY <1>3, <1>5, <1>6 DEF Runners, Running
  <2> QED
    BY <1>2, <1>4, <2>1, <2>2 DEF Runners
<1>9. Table'
  BY <1>2 DEF Table
<1>10. Schema'
  <2>1. VersionsMatchSchema'
    BY <1>2, <1>7 DEF Schema, VersionsMatchSchema
  <2> QED
    BY <1>2, <1>5, <1>6, <2>1 DEF Schema, Running, Working
<1>11. Plans'
  BY <1>2, <1>5, <1>7 DEF Plans
<1>12. Lone'
  <2>1. \A q, r \in Running' : q # r => q \in met'
    BY <1>2, <1>6
  <2>2. \A q, r \in Running' : command'[q] = <<"down">> => r = q
    BY <1>1, <1>2, <1>5, <1>6 DEF Running
  <2>3. ASSUME NEW q \in Running' \ met'
        PROVE  /\ at'[q] = "create" => "goose_db_version" \notin objects'
               /\ at'[q] = "apply" => Left(q)' + 1 \notin Recorded'
    BY <1>2, <1>5, <1>6, <1>7 DEF Lone, Running
  <2>4. met' = {} => \A r, t \in rows' : r.id < t.id => r.version < t.version
    BY <1>2 DEF Lone
  <2> QED
    BY <2>1, <2>2, <2>3, <2>4 DEF Lone
<1> QED
  BY <1>8, <1>9, <1>10, <1>11, <1>12

(* What a step of a run leaves to the others.                              *)
LEMMA OthersUnmoved ==
    ASSUME MigrateInv, NEW p \in Running, NEW c \in States, Goto(p, c), UNCHANGED command,
           NEW s \in Seq(0..4), plan' = [plan EXCEPT ![p] = s]
    PROVE  /\ Runners' /\ p \in Runs
           /\ at'[p] = c /\ plan'[p] = s
           /\ \A q \in Runs : q # p => at'[q] = at[q] /\ plan'[q] = plan[q] /\ Left(q)' = Left(q)
           /\ Left(p)' = Target(p) - Len(s)
           /\ \A q : Target(q)' = Target(q)
           /\ \A q, w : Does(q, w)' <=> Does(q, w)
           /\ Running' \subseteq Running /\ (p \in Running' => c \in Calls)
<1>1. /\ p \in Runs /\ at \in [Runs -> States] /\ plan \in [Runs -> Seq(0..4)]
      /\ at[p] \in Calls
  BY DEF MigrateInv, Running, Runners
<1>2. /\ at' \in [Runs -> States] /\ at'[p] = c /\ plan' \in [Runs -> Seq(0..4)] /\ plan'[p] = s
      /\ \A q \in Runs : q # p => at'[q] = at[q] /\ plan'[q] = plan[q]
  BY <1>1 DEF Goto
<1>3. (\A q : Target(q)' = Target(q)) /\ (\A q, w : Does(q, w)' <=> Does(q, w))
  BY DEF Target, Does
<1>4. Running' \subseteq Running /\ (p \in Running' => c \in Calls)
  BY <1>1, <1>2 DEF Running
<1>5. /\ \A q \in Runs : q # p => Left(q)' = Left(q)
      /\ Left(p)' = Target(p) - Len(s)
  BY <1>2, <1>3 DEF Left
<1>6. Runners'
  BY <1>2, <1>4 DEF MigrateInv, Runners
<1> QED
  BY <1>1, <1>2, <1>3, <1>4, <1>5, <1>6

(* The version table is created, with its row 0.                           *)
LEMMA CreateKeeps ==
    ASSUME MigrateInv, NEW p \in Runs, CreateVersionTable(p), "goose_db_version" \notin objects
    PROVE  MigrateInv'
<1>1. /\ at[p] = "create" /\ objects' = objects \cup {"goose_db_version"}
      /\ rows' = {[id |-> 1, version |-> 0]} /\ Goto(p, "read")
      /\ UNCHANGED <<command, plan, met>>
  BY DEF CreateVersionTable
<1>2. p \in Running /\ "schema" \in objects /\ rows = {}
  BY <1>1 DEF MigrateInv, Running, Calls, Schema, Table
<1>3. PICK s \in Seq(0..4) : plan' = [plan EXCEPT ![p] = s]
  BY <1>1 DEF MigrateInv, Runners
<1>4. "read" \in States /\ "read" \in Calls
  BY DEF States, Calls
<1>5. /\ Runners' /\ at'[p] = "read" /\ Running' \subseteq Running
      /\ \A q \in Runs : q # p => at'[q] = at[q]
  <2>1. p \in Running /\ Goto(p, "read") /\ UNCHANGED command
    BY <1>1, <1>2
  <2> QED
    BY <1>3, <1>4, <2>1, OthersUnmoved
<1>6. Recorded = {} /\ Recorded' = {0}
  BY <1>1, <1>2 DEF Recorded
<1>7. Table'
  <2>1. \A i \in Nat : (\E row \in rows' : row.id = i) <=> i \in 1..1
    BY <1>1
  <2>2. rows' \subseteq [id : Nat, version : 0..4] /\ rows' # {} /\ 1 \in Nat
    BY <1>1
  <2>3. \A r \in rows' : r.id = 1 /\ r.version = 0 /\ \A t \in rows' : r = t
    BY <1>1
  <2>4. \E n \in Nat : \A i \in Nat : (\E row \in rows' : row.id = i) <=> i \in 1..n
    BY <2>1, <2>2
  <2>5. "goose_db_version" \in objects'
    BY <1>1
  <2>6. /\ \A r, t \in rows' : r.id = t.id => r = t
        /\ \A r, t \in rows' : r.id < t.id /\ t.version >= 2 => r.version < t.version
        /\ \A row \in rows' : row.id = 1 => row.version = 0
    BY <2>3
  <2> QED
    BY <2>2, <2>4, <2>5, <2>6 DEF Table
<1>8. Schema'
  <2>1. VersionsMatchSchema'
    BY <1>1, <1>6, CreatesEach DEF MigrateInv, Schema, VersionsMatchSchema
  <2> QED
    BY <1>1, <1>2, <2>1 DEF Schema
<1>9. \A q \in Runs : at'[q] \notin {"apply", "rollBack"}
  <2>1. \A q \in Runs : at[q] \in {"apply", "rollBack"} => q \in Running /\ at[q] \in Working
    BY DEF Running, Calls, Working
  <2> QED
    BY <1>5, <2>1 DEF MigrateInv, Schema
<1>10. Plans'
  BY <1>9 DEF Plans
<1>11. Lone'
  <2>1. \A q \in Running' : q # p => q \in met'
    BY <1>1, <1>2, <1>5 DEF MigrateInv, Lone
  <2>2. \A r, t \in rows' : ~(r.id < t.id)
    BY <1>1
  <2> QED
    BY <1>1, <1>2, <1>5, <1>9, <2>1, <2>2 DEF MigrateInv, Lone, Running
<1> QED
  BY <1>5, <1>7, <1>8, <1>10, <1>11 DEF MigrateInv

(* What is left of a plan after its first migration.                       *)
LEMMA RestOfPlan ==
    ASSUME NEW s \in Seq(0..4), Len(s) # 0
    PROVE  /\ Tail(s) \in Seq(0..4) /\ Len(Tail(s)) = Len(s) - 1
           /\ Len(s) # 1 => Len(Tail(s)) > 0
           /\ \A i \in 1..Len(Tail(s)) : Tail(s)[i] = s[i + 1] /\ i + 1 \in 1..Len(s)
<1>1. Len(s) \in Nat /\ s # << >>
  OBVIOUS
<1>2. Tail(s) \in Seq(0..4) /\ Len(Tail(s)) = Len(s) - 1
  BY <1>1
<1>3. \A i \in 1..(Len(s) - 1) : Tail(s)[i] = s[i + 1]
  BY <1>1
<1>4. \A i \in 1..(Len(s) - 1) : i + 1 \in 1..Len(s)
  BY <1>1
<1> QED
  BY <1>1, <1>2, <1>3, <1>4

(* A migration is applied and recorded in one transaction.                 *)
LEMMA UpKeeps ==
    ASSUME MigrateInv, NEW p \in Runs, ApplyUp(p), UpWorks(Head(plan[p]))
    PROVE  MigrateInv'
<1> DEFINE v == Head(plan[p])
           new == [id |-> Newest.id + 1, version |-> v]
           c == IF Len(plan[p]) = 1 THEN "ok" ELSE "apply"
<1>1. /\ at[p] = "apply" /\ objects' = objects \cup {Creates[v]} /\ rows' = rows \cup {new}
      /\ plan' = [plan EXCEPT ![p] = Tail(plan[p])] /\ Goto(p, c)
      /\ UNCHANGED <<command, met>>
  BY DEF ApplyUp, Advance, Insert
<1>2. /\ v = Left(p) + 1 /\ v \in 1..4 /\ v - 1 \in Recorded /\ plan[p] \in Seq(0..4)
      /\ Len(plan[p]) \in Nat \ {0} /\ Target(p) = v + Len(plan[p]) - 1
      /\ p \notin met => v \notin Recorded
  BY <1>1, NextOfPlan
<1>3. /\ p \in Running /\ rows # {} /\ "schema" \in objects /\ "goose_db_version" \in objects
      /\ Newest \in rows /\ \A row \in rows : row.id \in Nat /\ row.id <= Newest.id
      /\ MaxRecorded \in 0..4 /\ Recorded \subseteq 0..4
      /\ \A w \in 0..4 : w \in Recorded <=> w <= MaxRecorded
  BY <1>1, HasRead DEF Working
<1>4. v > 1 => v \notin Recorded
  BY <1>2 DEF UpWorks, MigrateInv, Schema, VersionsMatchSchema, Versions
<1>5. new.id = Newest.id + 1 /\ new.version = v /\ new \in [id : Nat, version : 0..4]
  BY <1>2, <1>3
<1>6. Recorded' = Recorded \cup {v}
  BY <1>1, <1>5 DEF Recorded
<1>7. /\ Tail(plan[p]) \in Seq(0..4) /\ Len(Tail(plan[p])) = Len(plan[p]) - 1
      /\ Len(plan[p]) # 1 => Len(Tail(plan[p])) > 0
      /\ \A i \in 1..Len(Tail(plan[p])) :
            Tail(plan[p])[i] = plan[p][i + 1] /\ i + 1 \in 1..Len(plan[p])
  BY <1>2, RestOfPlan
<1>8. c \in States /\ (c = "apply" \/ c = "ok") /\ (c = "apply" <=> Len(plan[p]) # 1)
  BY DEF States, Calls
<1>9. c # "create" /\ c # "failed" /\ c # "rollBack" /\ c # "schema"
  BY <1>8
<1> HIDE DEF v, new, c
<1>10. /\ Runners' /\ at'[p] = c /\ plan'[p] = Tail(plan[p])
       /\ \A q \in Runs : q # p => at'[q] = at[q] /\ plan'[q] = plan[q] /\ Left(q)' = Left(q)
       /\ Left(p)' = Target(p) - Len(Tail(plan[p]))
       /\ \A q : Target(q)' = Target(q)
       /\ \A q, w : Does(q, w)' <=> Does(q, w)
       /\ Running' \subseteq Running
  BY <1>1, <1>3, <1>7, <1>8, OthersUnmoved
<1>11. Left(p)' = v
  BY <1>2, <1>7, <1>10
<1>12. Table'
  <2>1. PICK n \in Nat : \A i \in Nat : (\E row \in rows : row.id = i) <=> i \in 1..n
    BY DEF MigrateInv, Table
  <2>2. Newest.id = n
    <3>1. Newest.id \in 1..n /\ n \in 1..n
      BY <1>3, <2>1
    <3>2. \E row \in rows : row.id = n
      BY <2>1, <3>1
    <3> QED
      BY <1>3, <3>1, <3>2
  <2>3. \A i \in Nat : (\E row \in rows' : row.id = i) <=> i \in 1..(n + 1)
    BY <1>1, <1>5, <2>1, <2>2
  <2>4. \A row \in rows : row.id < new.id /\ (v >= 2 => row.version < v)
    <3>1. \A w \in Recorded : v >= 2 => w < v
      BY <1>2, <1>3, <1>4
    <3> QED
      BY <1>3, <1>5, <3>1 DEF Recorded
  <2>5. rows' \subseteq [id : Nat, version : 0..4]
    BY <1>1, <1>5 DEF MigrateInv, Table
  <2>6. \A r, t \in rows' : r.id = t.id => r = t
    BY <1>1, <1>3, <1>5, <2>4 DEF MigrateInv, Table
  <2>7. \A r, t \in rows' : r.id < t.id /\ t.version >= 2 => r.version < t.version
    BY <1>1, <1>3, <1>5, <2>4 DEF MigrateInv, Table
  <2>8. \A row \in rows' : row.id = 1 => row.version = 0
    BY <1>1, <1>3, <1>5, <2>2, <2>1 DEF MigrateInv, Table
  <2> QED
    <3>1. rows' # {} /\ "goose_db_version" \in objects'
      BY <1>1, <1>3
    <3>2. \E m \in Nat : \A i \in Nat : (\E row \in rows' : row.id = i) <=> i \in 1..m
      <4>1. n + 1 \in Nat
        BY <2>1
      <4> QED
        BY <2>3, <4>1
    <3> QED
      BY <2>5, <2>6, <2>7, <2>8, <3>1, <3>2 DEF Table
<1>13. Schema'
  <2>1. VersionsMatchSchema'
    <3>1. \A w \in Versions \ {1} : w \in Recorded' <=> Creates[w] \in objects'
      BY <1>1, <1>2, <1>6, CreatesEach DEF MigrateInv, Schema, VersionsMatchSchema
    <3>2. \A w, x \in Versions : w \in Recorded' /\ x < w => x \in Recorded'
      BY <1>2, <1>3, <1>6, CreatesEach
    <3> QED
      BY <3>1, <3>2 DEF VersionsMatchSchema
  <2> QED
    BY <1>1, <1>3, <2>1 DEF Schema
<1>14. Plans'
  <2> SUFFICES ASSUME NEW q \in Runs
               PROVE  /\ at'[q] = "apply" =>
                          /\ Does(q, {"up", "up-to"})
                          /\ Len(plan'[q]) > 0 /\ Left(q)' \in Recorded'
                          /\ \A i \in 1..Len(plan'[q]) : plan'[q][i] = Left(q)' + i
                      /\ at'[q] # "rollBack"
    BY <1>10 DEF Plans
  <2>1. CASE q = p
    <3>1. Does(p, {"up", "up-to"}) /\ \A i \in 1..Len(plan[p]) : plan[p][i] = Left(p) + i
      BY <1>1 DEF MigrateInv, Plans
    <3>2. c = "apply" => Len(Tail(plan[p])) > 0
      BY <1>7, <1>8
    <3>3. ASSUME NEW i \in 1..Len(Tail(plan[p])) PROVE Tail(plan[p])[i] = v + i
      <4>1. Tail(plan[p])[i] = plan[p][i + 1] /\ i + 1 \in 1..Len(plan[p])
        BY <1>7
      <4>2. plan[p][i + 1] = Left(p) + (i + 1)
        BY <3>1, <4>1
      <4>3. Left(p) \in Int
        BY <1>2 DEF Left
      <4> QED
        BY <1>2, <4>1, <4>2, <4>3
    <3> QED
      BY <1>6, <1>9, <1>10, <1>11, <2>1, <3>1, <3>2, <3>3
  <2>2. CASE q # p
    <3>1. at[q] # "rollBack"
      <4>1. at[q] = "rollBack" => q \in Running /\ command[q] = <<"down">>
        BY DEF MigrateInv, Plans, Running, Calls
      <4> QED
        BY <1>3, <2>2, <4>1 DEF MigrateInv, Lone
    <3> QED
      BY <1>6, <1>10, <2>2, <3>1 DEF MigrateInv, Plans
  <2> QED
    BY <2>1, <2>2
<1>15. Lone'
  <2>1. \A q, r \in Running' : q # r => q \in met'
    BY <1>1, <1>10 DEF MigrateInv, Lone
  <2>2. \A q, r \in Running' : command'[q] = <<"down">> => r = q
    BY <1>1, <1>10 DEF MigrateInv, Lone
  <2>3. ASSUME NEW q \in Running' \ met'
        PROVE  /\ at'[q] = "create" => "goose_db_version" \notin objects'
               /\ at'[q] = "apply" => Left(q)' + 1 \notin Recorded'
    <3>1. q = p /\ p \notin met
      BY <1>1, <1>3, <1>10 DEF MigrateInv, Lone
    <3>2. v + 1 \notin Recorded'
      BY <1>2, <1>3, <1>6, <3>1
    <3> QED
      BY <1>9, <1>10, <1>11, <3>1, <3>2
  <2>4. met' = {} => \A r, t \in rows' : r.id < t.id => r.version < t.version
    <3> SUFFICES ASSUME met = {}
                 PROVE  \A r, t \in rows' : r.id < t.id => r.version < t.version
      BY <1>1
    <3>1. \A w \in Recorded : w < v
      BY <1>2, <1>3
    <3>2. \A row \in rows : row.id < new.id /\ row.version < new.version
      BY <1>3, <1>5, <3>1 DEF Recorded
    <3>3. \A r, t \in rows : r.id < t.id => r.version < t.version
      BY DEF MigrateInv, Lone
    <3> QED
      BY <1>1, <1>3, <1>5, <3>2, <3>3
  <2> QED
    BY <2>1, <2>2, <2>3, <2>4 DEF Lone
<1> QED
  BY <1>10, <1>12, <1>13, <1>14, <1>15 DEF MigrateInv

(* The migration inserted last is rolled back and its row deleted.         *)
LEMMA DownKeeps ==
    ASSUME MigrateInv, NEW p \in Runs, ApplyDown(p), DownWorks(Head(plan[p]))
    PROVE  MigrateInv'
<1> DEFINE v == Newest.version
<1>1. /\ at[p] = "rollBack" /\ command[p] = <<"down">> /\ plan[p] = <<v>> /\ v # 0
      /\ Head(plan[p]) = v
  BY DEF ApplyDown, MigrateInv, Plans
<1>2. /\ objects' = objects \ {Creates[v]} /\ rows' = {row \in rows : row.version # v}
      /\ Goto(p, "ok") /\ UNCHANGED <<command, plan, met>>
  BY <1>1 DEF ApplyDown
<1>3. /\ p \in Running /\ rows # {} /\ "schema" \in objects /\ "goose_db_version" \in objects
      /\ Newest \in rows /\ \A row \in rows : row.id \in Nat /\ row.id <= Newest.id
      /\ MaxRecorded \in 0..4 /\ Recorded \subseteq 0..4
      /\ \A w \in 0..4 : w \in Recorded <=> w <= MaxRecorded
  BY <1>1, HasRead DEF Working
<1>4. v \in 2..4
  BY <1>1, <1>3 DEF DownWorks, MigrateInv, Table
<1>5. \A row \in rows : row # Newest => row.id < Newest.id /\ row.version < v
  <2> SUFFICES ASSUME NEW row \in rows, row # Newest PROVE row.id < Newest.id /\ row.version < v
    OBVIOUS
  <2>1. row.id < Newest.id
    BY <1>3 DEF MigrateInv, Table
  <2> QED
    BY <1>3, <1>4, <2>1 DEF MigrateInv, Table
<1>6. rows' = rows \ {Newest} /\ Newest.version = v
  <2>1. \A row \in rows : row.version # v <=> row # Newest
    BY <1>4, <1>5 DEF MigrateInv, Table
  <2> QED
    BY <1>2, <2>1
<1>7. Recorded' = Recorded \ {v} /\ \A w \in Recorded : w <= v
  <2>1. Recorded' = Recorded \ {v}
    BY <1>2 DEF Recorded
  <2>2. \A row \in rows : row.version <= v
    BY <1>3, <1>4, <1>5 DEF MigrateInv, Table
  <2> QED
    BY <2>1, <2>2 DEF Recorded
<1> HIDE DEF v
<1>8. PICK s \in Seq(0..4) : plan' = [plan EXCEPT ![p] = s]
  BY <1>2 DEF MigrateInv, Runners
<1>9. "ok" \in States /\ "ok" \notin Calls
  BY DEF States, Calls
<1>10. /\ Runners' /\ at'[p] = "ok" /\ Running' \subseteq Running /\ p \notin Running'
       /\ \A q \in Runs : q # p => at'[q] = at[q]
  BY <1>2, <1>3, <1>8, <1>9, OthersUnmoved
<1>11. Running' = {}
  BY <1>1, <1>3, <1>10 DEF MigrateInv, Lone
<1>12. Table'
  <2>1. PICK n \in Nat : \A i \in Nat : (\E row \in rows : row.id = i) <=> i \in 1..n
    BY DEF MigrateInv, Table
  <2>2. \A row \in rows : row.id \in 1..n
    BY <1>3, <2>1
  <2>3. Newest.id = n
    <3>1. n \in 1..n
      BY <1>3, <2>2
    <3>2. \E row \in rows : row.id = n
      BY <2>1, <3>1
    <3> QED
      BY <1>3, <2>2, <3>2
  <2>4. n # 1
    BY <1>3, <1>4, <1>6, <2>3 DEF MigrateInv, Table
  <2>5. n - 1 \in Nat /\ n - 1 > 0
    BY <1>3, <2>2, <2>4
  <2>6. \A i \in Nat : (\E row \in rows' : row.id = i) <=> i \in 1..(n - 1)
    <3> SUFFICES ASSUME NEW i \in Nat
                 PROVE  (\E row \in rows' : row.id = i) <=> i \in 1..(n - 1)
      OBVIOUS
    <3>1. \A row \in rows' : row.id \in 1..(n - 1)
      BY <1>5, <1>6, <2>2, <2>3
    <3>2. CASE i \in 1..(n - 1)
      <4>1. PICK row \in rows : row.id = i
        BY <2>1, <3>2
      <4>2. row # Newest
        BY <2>3, <3>2, <4>1
      <4> QED
        BY <1>6, <3>2, <4>1, <4>2
    <3>3. CASE i \notin 1..(n - 1)
      BY <3>1, <3>3
    <3> QED
      BY <3>2, <3>3
  <2>7. rows' # {}
    <3>1. 1 \in 1..(n - 1)
      BY <2>5
    <3> QED
      BY <2>6, <3>1
  <2>8. "goose_db_version" \in objects'
    BY <1>2, <1>3, <1>4, CreatesEach
  <2>9. \E m \in Nat : \A i \in Nat : (\E row \in rows' : row.id = i) <=> i \in 1..m
    BY <2>5, <2>6
  <2>10. /\ rows' \subseteq [id : Nat, version : 0..4]
         /\ \A r, t \in rows' : r.id = t.id => r = t
         /\ \A r, t \in rows' : r.id < t.id /\ t.version >= 2 => r.version < t.version
         /\ \A row \in rows' : row.id = 1 => row.version = 0
    BY <1>6 DEF MigrateInv, Table
  <2> QED
    BY <2>7, <2>8, <2>9, <2>10 DEF Table
<1>13. Schema'
  <2>1. \A w \in Versions \ {1} : w \in Recorded' <=> Creates[w] \in objects'
    BY <1>2, <1>4, <1>7, CreatesEach DEF MigrateInv, Schema, VersionsMatchSchema
  <2>2. \A w, x \in Versions : w \in Recorded' /\ x < w => x \in Recorded'
    BY <1>3, <1>4, <1>7, CreatesEach
  <2> QED
    BY <1>11, <2>1, <2>2 DEF Schema, VersionsMatchSchema
<1>14. Plans'
  <2>1. \A q \in Runs : at'[q] \notin Calls
    BY <1>11 DEF Running
  <2> QED
    BY <2>1 DEF Plans, Calls
<1>15. Lone'
  <2>1. met' = {} => \A r, t \in rows' : r.id < t.id => r.version < t.version
    BY <1>2, <1>6 DEF MigrateInv, Lone
  <2> QED
    BY <1>11, <2>1 DEF Lone
<1> QED
  BY <1>10, <1>12, <1>13, <1>14, <1>15 DEF MigrateInv

(* The database starts empty and nothing runs.                             *)
LEMMA MigrateStarts == MigrateInit => MigrateInv
<1> SUFFICES ASSUME MigrateInit PROVE MigrateInv
  OBVIOUS
<1> USE DEF MigrateInit
<1>1. Running = {} /\ Recorded = {} /\ \A p \in Runs : at[p] = "unborn"
  BY DEF Running, Calls, Recorded
<1>2. Runners
  BY <1>1 DEF Runners, States
<1>3. Table
  <2>1. 0 \in Nat /\ \A i \in Nat : (\E row \in rows : row.id = i) <=> i \in 1..0
    OBVIOUS
  <2> QED
    BY <2>1 DEF Table
<1>4. Schema
  BY <1>1 DEF Schema, VersionsMatchSchema
<1>5. Plans
  BY <1>1 DEF Plans
<1>6. Lone
  BY <1>1 DEF Lone
<1> QED
  BY <1>2, <1>3, <1>4, <1>5, <1>6 DEF MigrateInv

(* Every call of every run keeps the invariant.                            *)
LEMMA MigrateStep == MigrateInv /\ [MigrateNext]_migrateVars => MigrateInv'
<1> SUFFICES ASSUME MigrateInv, [MigrateNext]_migrateVars PROVE MigrateInv'
  OBVIOUS
<1>1. ASSUME NEW p \in Runs, ApplyUp(p) PROVE MigrateInv'
  <2>1. CASE UpWorks(Head(plan[p]))
    BY <1>1, <2>1, UpKeeps
  <2>2. CASE ~UpWorks(Head(plan[p]))
    BY <1>1, <2>2, FailedKeeps DEF ApplyUp, Running, Calls
  <2> QED
    BY <2>1, <2>2
<1>2. ASSUME NEW p \in Runs, ApplyDown(p) PROVE MigrateInv'
  <2>1. CASE DownWorks(Head(plan[p]))
    BY <1>2, <2>1, DownKeeps
  <2>2. CASE ~DownWorks(Head(plan[p]))
    BY <1>2, <2>2, FailedKeeps DEF ApplyDown, Running, Calls
  <2> QED
    BY <2>1, <2>2
<1>3. ASSUME NEW p \in Runs, CreateVersionTable(p) PROVE MigrateInv'
  <2>1. CASE "goose_db_version" \in objects
    BY <1>3, <2>1, LookingKeeps
  <2>2. CASE "goose_db_version" \notin objects
    BY <1>3, <2>2, CreateKeeps
  <2> QED
    BY <2>1, <2>2
<1>4. CASE UNCHANGED migrateVars
  <2>1. UNCHANGED <<objects, rows, command, at, plan, met>>
    BY <1>4 DEF migrateVars
  <2>2. UNCHANGED <<Running, Recorded, Newest>>
    BY <2>1 DEF Running, Recorded, Newest
  <2>3. /\ \A q : Left(q)' = Left(q)
        /\ \A q, w : Does(q, w)' <=> Does(q, w)
    BY <2>1 DEF Left, Target, Does
  <2>4. Runners' /\ Table'
    BY <2>1, <2>2 DEF MigrateInv, Runners, Table
  <2>5. Schema'
    BY <2>1, <2>2 DEF MigrateInv, Schema, VersionsMatchSchema
  <2>6. Plans'
    BY <2>1, <2>2, <2>3 DEF MigrateInv, Plans
  <2>7. Lone'
    BY <2>1, <2>2, <2>3 DEF MigrateInv, Lone
  <2> QED
    BY <2>4, <2>5, <2>6, <2>7 DEF MigrateInv
<1>5. CASE Over
  BY <1>4, <1>5 DEF Over
<1>6. ASSUME NEW p \in Runs, Start(p) PROVE MigrateInv'
  BY <1>6, StartKeeps
<1>7. ASSUME NEW p \in Runs, BootstrapSchema(p) \/ EnsureDBVersion(p) \/ CutShort(p)
      PROVE MigrateInv'
  BY <1>7, LookingKeeps
<1>8. ASSUME NEW p \in Runs, ReadVersions(p) PROVE MigrateInv'
  BY <1>8, ReadKeeps
<1> QED
  BY <1>1, <1>2, <1>3, <1>4, <1>5, <1>6, <1>7, <1>8 DEF MigrateNext

-----------------------------------------------------------------------------
(* However many runs overlap, what is recorded is what is there.           *)
THEOREM MigrateInvariant == MigrateSpec => []MigrateInv
BY MigrateStarts, MigrateStep, PTL DEF MigrateSpec

(* However many runs overlap, fail, die or roll back, the version table    *)
(* and the schema agree.                                                   *)
THEOREM VersionsAreTrue == MigrateSpec => []VersionsMatchSchema
<1>1. MigrateInv => VersionsMatchSchema
  BY DEF MigrateInv, Schema
<1> QED
  BY <1>1, MigrateInvariant, PTL

(* Whatever happened before it, a run left to itself succeeds, but for a   *)
(* down that finds version 0 or 1 in the newest row.  Nothing is applied   *)
(* then that could be rolled back, as long as no two runs overlapped.      *)
THEOREM LoneRunsSucceed == MigrateSpec => LoneRunSucceeds
<1> DEFINE Failing(p) == at'[p] = "failed" /\ p \notin met' \cup cut'
           Excused(p) ==
             /\ command[p] = <<"down">> /\ plan'[p] \in {<< 0 >>, << 1 >>}
             /\ met' = {} => \A v \in Versions \ {1} : Creates[v] \notin objects'
<1>1. ASSUME MigrateInv, MigrateNext, NEW p \in Running, Failing(p) PROVE Excused(p)
  <2>1. /\ p \in Runs /\ at[p] \in Calls /\ at \in [Runs -> States] /\ at'[p] # at[p]
        /\ "failed" \notin Calls
    BY <1>1 DEF Running, MigrateInv, Runners, Calls
  <2>2. \/ CreateVersionTable(p) \/ ReadVersions(p) \/ ApplyUp(p) \/ ApplyDown(p)
    <3>1. ~CutShort(p)
      BY <1>1 DEF CutShort
    <3>2. ~(BootstrapSchema(p) \/ EnsureDBVersion(p) \/ Start(p))
      BY <1>1, <2>1 DEF BootstrapSchema, EnsureDBVersion, Start, Goto
    <3>3. ASSUME NEW q \in Runs, q # p,
                 \/ Start(q) \/ BootstrapSchema(q) \/ EnsureDBVersion(q) \/ CreateVersionTable(q)
                 \/ ReadVersions(q) \/ ApplyUp(q) \/ ApplyDown(q) \/ CutShort(q)
          PROVE  FALSE
      <4>1. \E c : Goto(q, c)
        BY <3>3 DEF Start, BootstrapSchema, EnsureDBVersion, CreateVersionTable, ReadVersions,
           ApplyUp, Advance, ApplyDown, CutShort
      <4> QED
        BY <2>1, <3>3, <4>1 DEF Goto
    <3>4. ~Over
      BY <2>1 DEF Over, migrateVars
    <3> QED
      BY <1>1, <3>1, <3>2, <3>3, <3>4 DEF MigrateNext
  <2>3. ~CreateVersionTable(p)
    BY <1>1, <2>1 DEF CreateVersionTable, MigrateInv, Lone, Goto
  <2>4. CASE ReadVersions(p)
    <3>1. /\ at[p] = "read" /\ UNCHANGED <<objects, rows, command, met>>
          /\ \A c : Goto(p, c) => c = "failed"
      BY <1>1, <2>1, <2>4 DEF ReadVersions, Goto
    <3>2. /\ Missing = {} /\ rows # {} /\ command[p] \in AllCommands /\ plan \in [Runs -> Seq(0..4)]
      BY <1>1, <2>1, <3>1, HasRead DEF Working, MigrateInv, Runners
    <3>3. /\ Does(p, {"down"}) /\ Newest.version = 0
          /\ plan' = [plan EXCEPT ![p] = <<Newest.version>>]
      <4>1. ~Goto(p, "ok") /\ ~Goto(p, "apply") /\ ~Goto(p, "rollBack")
        BY <3>1
      <4>2. ~(Goto(p, IF Missing # {} THEN "failed" ELSE IF Pending(p) = << >> THEN "ok" ELSE "apply"))
        BY <3>2, <4>1
      <4>3. Goto(p, IF Newest.version = 0 THEN "failed" ELSE "rollBack") => Newest.version = 0
        BY <4>1
      <4> QED
        BY <2>4, <4>1, <4>2, <4>3 DEF ReadVersions
    <3>4. command[p] = <<"down">> /\ plan'[p] = << 0 >>
      BY <2>1, <3>2, <3>3, CommandWords DEF Does
    <3>5. met' = {} => \A v \in Versions \ {1} : Creates[v] \notin objects'
      BY <1>1, <3>1, <3>2, <3>3, NewestIsHighest
    <3> QED
      BY <3>4, <3>5
  <2>5. CASE ApplyUp(p)
    <3>1. at[p] = "apply" /\ met' = met /\ \A c : Goto(p, c) => c = "failed"
      BY <1>1, <2>1, <2>5 DEF ApplyUp, Goto
    <3>2. ~UpWorks(Head(plan[p]))
      BY <2>5, <3>1 DEF ApplyUp, Advance
    <3> QED
      BY <1>1, <2>1, <3>1, <3>2, FailedUpMet
  <2>6. CASE ApplyDown(p)
    <3>1. at[p] = "rollBack" /\ UNCHANGED <<plan, met>> /\ \A c : Goto(p, c) => c = "failed"
      BY <1>1, <2>1, <2>6 DEF ApplyDown, Goto
    <3>2. ~DownWorks(Head(plan[p])) /\ objects' = objects
      BY <2>6, <3>1 DEF ApplyDown
    <3>3. command[p] = <<"down">> /\ plan[p] = << 1 >> /\ Newest.version = 1 /\ rows # {}
      BY <1>1, <2>1, <3>1, <3>2, FailedDownFirst, HasRead DEF Working
    <3>4. met' = {} => \A v \in Versions \ {1} : Creates[v] \notin objects'
      BY <1>1, <3>1, <3>2, <3>3, NewestIsHighest
    <3> QED
      BY <3>1, <3>3, <3>4
  <2> QED
    BY <2>2, <2>3, <2>4, <2>5, <2>6
<1>2. MigrateInv /\ [MigrateNext]_migrateVars =>
        [\A p \in Running : Failing(p) => Excused(p)]_migrateVars
  BY <1>1
<1> QED
  BY <1>2, MigrateInvariant, PTL DEF MigrateSpec, LoneRunSucceeds

(* An up that reports success leaves every table of the schema, even with  *)
(* any number of others under way.                                         *)
THEOREM UpMeansComplete == MigrateSpec => SuccessMeansComplete
<1>1. ASSUME MigrateInv, MigrateNext, NEW q \in Runs
      PROVE  at[q] # "ok" /\ at'[q] = "ok" /\ command[q] = <<"up">> =>
                {Creates[v] : v \in Versions} \subseteq objects'
  <2> SUFFICES ASSUME at[q] # "ok", at'[q] = "ok", command[q] = <<"up">>
               PROVE  \A v \in 1..4 : Creates[v] \in objects'
    BY CreatesEach
  <2>1. at \in [Runs -> States] /\ VersionsMatchSchema
    BY <1>1 DEF MigrateInv, Runners, Schema
  <2>2. \A w \in 2..4 : w \in Recorded <=> Creates[w] \in objects
    BY <2>1 DEF VersionsMatchSchema, Versions
  <2>3. CASE ReadVersions(q)
    <3>1. /\ at[q] \in Working /\ objects' = objects
          /\ Goto(q, "ok") \/ Pending(q) = << >> \/ Does(q, {"down"})
      BY <2>1, <2>3 DEF ReadVersions, Working, Goto
    <3>2. /\ MaxRecorded \in 0..4 /\ Target(q) = 4 /\ "schema" \in objects
          /\ \A v \in 0..4 : v \in Recorded <=> v <= MaxRecorded
      BY <1>1, <3>1, HasRead
    <3>3. Pending(q) = << >>
      <4>1. Head(command[q]) = "up" /\ Missing = {}
        BY <1>1, <3>1, HasRead, CommandWords
      <4>2. at' = [at EXCEPT ![q] = IF Pending(q) = << >> THEN "ok" ELSE "apply"]
        BY <2>3, <4>1 DEF ReadVersions, Does, Goto
      <4> QED
        BY <2>1, <4>2
    <3>4. 4 <= MaxRecorded
      BY <3>2, <3>3, PendingIs
    <3> QED
      BY <2>2, <3>1, <3>2, <3>4, CreatesEach
  <2>4. CASE ApplyUp(q)
    <3>1. at[q] = "apply" /\ at[q] \in Working
      BY <2>4 DEF ApplyUp, Working
    <3> DEFINE v == Head(plan[q])
    <3>2. /\ UpWorks(v) /\ objects' = objects \cup {Creates[v]} /\ Len(plan[q]) = 1
      <4>1. ~UpWorks(v) => at' = [at EXCEPT ![q] = "failed"]
        BY <2>4 DEF ApplyUp, Goto
      <4>2. UpWorks(v) => /\ objects' = objects \cup {Creates[v]}
                         /\ at' = [at EXCEPT ![q] = IF Len(plan[q]) = 1 THEN "ok" ELSE "apply"]
        BY <2>4 DEF ApplyUp, Advance, Goto
      <4> QED
        BY <2>1, <4>1, <4>2
    <3>3. /\ "schema" \in objects /\ Target(q) = 4 /\ MaxRecorded \in 0..4
          /\ \A w \in 0..4 : w \in Recorded <=> w <= MaxRecorded
      BY <1>1, <3>1, HasRead
    <3>4. v - 1 \in Recorded /\ Target(q) = v + Len(plan[q]) - 1 /\ v \in 1..4
      BY <1>1, <3>1, NextOfPlan
    <3> HIDE DEF v
    <3>5. v = 4 /\ 3 \in Recorded
      BY <3>2, <3>3, <3>4
    <3> QED
      BY <2>2, <3>2, <3>3, <3>5, CreatesEach
  <2>5. CASE ~ReadVersions(q) /\ ~ApplyUp(q)
    <3>1. PICK p \in Runs :
            \/ Start(p) \/ BootstrapSchema(p) \/ EnsureDBVersion(p) \/ CreateVersionTable(p)
            \/ ReadVersions(p) \/ ApplyUp(p) \/ ApplyDown(p) \/ CutShort(p)
      BY <1>1 DEF MigrateNext, Over, migrateVars
    <3>2. \E c : at' = [at EXCEPT ![p] = c]
      BY <3>1 DEF Start, BootstrapSchema, EnsureDBVersion, CreateVersionTable, ReadVersions,
         ApplyUp, Advance, ApplyDown, CutShort, Goto
    <3>3. p = q
      BY <2>1, <3>2
    <3>4. ApplyDown(q)
      BY <2>1, <2>5, <3>1, <3>3 DEF Start, BootstrapSchema, EnsureDBVersion, CreateVersionTable,
         CutShort, Goto
    <3> QED
      BY <1>1, <3>4 DEF ApplyDown, MigrateInv, Plans
  <2> QED
    BY <2>3, <2>4, <2>5
<1>2. MigrateInv /\ [MigrateNext]_migrateVars
        => [\A p \in Runs :
              at[p] # "ok" /\ at'[p] = "ok" /\ command[p] = <<"up">> =>
                {Creates[v] : v \in Versions} \subseteq objects']_migrateVars
  BY <1>1
<1> QED
  BY <1>2, MigrateInvariant, PTL DEF MigrateSpec, SuccessMeansComplete
=============================================================================
