------------------------------ MODULE Migrate ------------------------------
(***************************************************************************)
(* Schema migrations: runs of cmd/migrate (up, up-to, down, status,        *)
(* version) and of postgres.Migrate at boot (an up), against one database. *)
(* A run goes from database call to database call; goose applies a         *)
(* migration and its version row in one transaction.  A run may end at any *)
(* call: an error, the deadline, or its process dying.                     *)
(***************************************************************************)
EXTENDS Integers, Sequences, FiniteSets

CONSTANTS Runs,         \* the runs there will be
          MaxRunning,   \* how many of them overlap
          Commands      \* what they may be; a down runs alone

\* The embedded migrations and the object each creates.
Versions == 1..4
Creates == <<"schema", "users", "sessions", "outbox_events">>

AllCommands == {<<"up">>, <<"down">>, <<"status">>, <<"version">>}
                 \cup {<<"up-to", v>> : v \in Versions}

ASSUME MigrateAssumption ==
    MaxRunning \in Nat \ {0} /\ Commands \subseteq AllCommands

VARIABLES objects,      \* schema objects that exist
          rows,         \* goose_db_version: a version and the order it was inserted in
          command,      \* what each run was asked to do
          at,           \* the call it makes next
          plan,         \* the migrations it has still to apply
          met, cut      \* history: runs that overlapped another; runs cut short

migrateVars == <<objects, rows, command, at, plan, met, cut>>

Calls == {"schema", "ensure", "create", "read", "apply", "rollBack"}
NoCommand == <<>>

Recorded == {row.version : row \in rows}
Newest == CHOOSE row \in rows : \A other \in rows : other.id <= row.id
Insert(v) == rows \cup {[id |-> Newest.id + 1, version |-> v]}

MigrateInit ==
    /\ objects = {} /\ rows = {}
    /\ command = [p \in Runs |-> NoCommand]
    /\ at = [p \in Runs |-> "unborn"]
    /\ plan = [p \in Runs |-> <<>>]
    /\ met = {} /\ cut = {}

Goto(p, call) == at' = [at EXCEPT ![p] = call]
Running == {p \in Runs : at[p] \in Calls}

-----------------------------------------------------------------------------
\* parseArgs: no argument means up.  Server boots and jobs go up whenever they
\* like; a rollback is started by hand when nothing else runs.
Start(p) ==
    /\ at[p] = "unborn"
    /\ Cardinality(Running) < MaxRunning
    /\ \A q \in Running : command[q] # <<"down">>
    /\ \E c \in Commands :
        /\ c = <<"down">> => Running = {}
        /\ command' = [command EXCEPT ![p] = c]
    /\ Goto(p, "schema")
    /\ met' = IF Running = {} THEN met ELSE met \cup Running \cup {p}
    /\ UNCHANGED <<objects, rows, plan, cut>>

\* CREATE SCHEMA IF NOT EXISTS, before goose runs.
BootstrapSchema(p) ==
    /\ at[p] = "schema"
    /\ objects' = objects \cup {"schema"}
    /\ Goto(p, "ensure")
    /\ UNCHANGED <<rows, command, plan, met, cut>>

\* goose looks for its version table; down reads the current version with it.
EnsureDBVersion(p) ==
    /\ at[p] = "ensure"
    /\ Goto(p, IF "goose_db_version" \in objects THEN "read" ELSE "create")
    /\ UNCHANGED <<objects, rows, command, plan, met, cut>>

\* CREATE TABLE without IF NOT EXISTS: whoever comes second fails.
CreateVersionTable(p) ==
    /\ at[p] = "create"
    /\ \/ /\ "goose_db_version" \notin objects
          /\ objects' = objects \cup {"goose_db_version"}
          /\ rows' = {[id |-> 1, version |-> 0]}
          /\ Goto(p, "read")
       \/ /\ "goose_db_version" \in objects
          /\ Goto(p, "failed") /\ UNCHANGED <<objects, rows>>
    /\ UNCHANGED <<command, plan, met, cut>>

MaxRecorded == CHOOSE v \in Recorded : \A w \in Recorded : w <= v
Target(p) == IF Head(command[p]) = "up-to" THEN command[p][2] ELSE 4

ShortPending(p) ==                   \* (mutant) stops one version short of the target
    [i \in 1..(Target(p) - MaxRecorded - 1) |-> MaxRecorded + i]
Pending(p) ==
    [i \in 1..(Target(p) - MaxRecorded) |-> MaxRecorded + i]

\* Versions below the latest that are not recorded make goose refuse.
Missing == {v \in Versions : v < MaxRecorded /\ v \notin Recorded}

Does(p, commands) == Head(command[p]) \in commands

\* up plans every version above the latest, down the one inserted last; status
\* and version only print.
ReadVersions(p) ==
    /\ at[p] = "read"
    /\ \/ /\ Does(p, {"up", "up-to"})
          /\ plan' = [plan EXCEPT ![p] = Pending(p)]
          /\ Goto(p, IF Missing # {} THEN "failed"
                     ELSE IF Pending(p) = <<>> THEN "ok" ELSE "apply")
       \/ /\ Does(p, {"down"})
          /\ plan' = [plan EXCEPT ![p] = <<Newest.version>>]
          /\ Goto(p, IF Newest.version = 0 THEN "failed" ELSE "rollBack")
       \/ Does(p, {"status", "version"}) /\ Goto(p, "ok") /\ UNCHANGED plan
    /\ UNCHANGED <<objects, rows, command, met, cut>>

\* The Up section of a migration: 1 is CREATE SCHEMA IF NOT EXISTS, the others
\* create a table; sessions refers to users.
UpWorks(v) ==
    /\ "schema" \in objects
    /\ v > 1 => Creates[v] \notin objects
    /\ v = 3 => "users" \in objects

Advance(p) ==
    /\ plan' = [plan EXCEPT ![p] = Tail(@)]
    /\ Goto(p, IF Len(plan[p]) = 1 THEN "ok" ELSE "apply")

TornApplyUp(p) ==                    \* (mutant) the migration and its row are not one transaction
    /\ at[p] = "apply"
    /\ LET v == Head(plan[p])
       IN \/ /\ UpWorks(v)
             /\ objects' = objects \cup {Creates[v]} /\ rows' = Insert(v)
             /\ Advance(p) /\ cut' = cut
          \/ /\ UpWorks(v)
             /\ objects' = objects \cup {Creates[v]} /\ cut' = cut \cup {p}
             /\ Goto(p, "failed") /\ UNCHANGED <<rows, plan>>
          \/ ~UpWorks(v) /\ Goto(p, "failed") /\ UNCHANGED <<objects, rows, plan, cut>>
    /\ UNCHANGED <<command, met>>
\* One transaction: the statements of the Up section and the version row.
ApplyUp(p) ==
    /\ at[p] = "apply"
    /\ LET v == Head(plan[p])
       IN \/ /\ UpWorks(v)
             /\ objects' = objects \cup {Creates[v]} /\ rows' = Insert(v)
             /\ Advance(p)
          \/ ~UpWorks(v) /\ Goto(p, "failed") /\ UNCHANGED <<objects, rows, plan>>
    /\ UNCHANGED <<command, met, cut>>

\* The Down section drops the table; users is held by the foreign key of
\* sessions.  That of migration 1 drops the schema with all it holds, goose's
\* version table included, so that goose's DELETE of the version row fails and
\* takes the transaction back.
DownWorks(v) == v # 1 /\ (v = 2 => "sessions" \notin objects)

StickyApplyDown(p) ==                \* (mutant) the version row is kept
    /\ at[p] = "rollBack"
    /\ LET v == Head(plan[p])
       IN \/ /\ DownWorks(v)
             /\ objects' = objects \ {Creates[v]} /\ rows' = rows
             /\ Goto(p, "ok")
          \/ ~DownWorks(v) /\ Goto(p, "failed") /\ UNCHANGED <<objects, rows>>
    /\ UNCHANGED <<command, plan, met, cut>>
ApplyDown(p) ==
    /\ at[p] = "rollBack"
    /\ LET v == Head(plan[p])
       IN \/ /\ DownWorks(v)
             /\ objects' = objects \ {Creates[v]}
             /\ rows' = {row \in rows : row.version # v}
             /\ Goto(p, "ok")
          \/ ~DownWorks(v) /\ Goto(p, "failed") /\ UNCHANGED <<objects, rows>>
    /\ UNCHANGED <<command, plan, met, cut>>

\* Ping fails, a statement fails, the deadline passes, the process is killed:
\* the transaction under way, if any, leaves nothing.
CutShort(p) ==
    /\ at[p] \in Calls
    /\ Goto(p, "failed") /\ cut' = cut \cup {p}
    /\ UNCHANGED <<objects, rows, command, plan, met>>

Over == (\A p \in Runs : at[p] \in {"ok", "failed"}) /\ UNCHANGED migrateVars

MigrateNext ==
    \/ \E p \in Runs :
        \/ Start(p) \/ BootstrapSchema(p) \/ EnsureDBVersion(p) \/ CreateVersionTable(p)
        \/ ReadVersions(p) \/ ApplyUp(p) \/ ApplyDown(p) \/ CutShort(p)
    \/ Over

MigrateSpec == MigrateInit /\ [][MigrateNext]_migrateVars

-----------------------------------------------------------------------------
(* The version table tells the truth, however runs overlap, fail or are    *)
(* rolled back: a table is there if and only if its migration is recorded, *)
(* and nothing is recorded without the migrations it builds on.            *)
VersionsMatchSchema ==
    /\ \A v \in Versions \ {1} : v \in Recorded <=> Creates[v] \in objects
    /\ \A v, w \in Versions : v \in Recorded /\ w < v => w \in Recorded

(* A run that meets no other and is not cut short succeeds: no earlier     *)
(* failure, race, partial run or rollback leaves a database the pre-deploy *)
(* job cannot migrate.  Only a down can fail, when the row inserted last   *)
(* is that of version 0 or 1.  As long as no two runs ever overlapped, no  *)
(* later migration is then applied; after two ups that did, the row        *)
(* inserted last may be a second one of version 1, with 2..4 applied, and  *)
(* no down works any more ("roll back the most recent migration").         *)
LoneRunSucceeds ==
    [][\A p \in Running :
        at'[p] = "failed" /\ p \notin met' \cup cut' =>
            /\ command[p] = <<"down">> /\ plan'[p] \in {<<0>>, <<1>>}
            /\ met' = {} => \A v \in Versions \ {1} : Creates[v] \notin objects']_migrateVars

(* When an up reports success the schema is complete, even with other ups  *)
(* running: the server that starts next finds all its tables.              *)
SuccessMeansComplete ==
    [][\A p \in Runs :
        at[p] # "ok" /\ at'[p] = "ok" /\ command[p] = <<"up">> =>
            {Creates[v] : v \in Versions} \subseteq objects']_migrateVars
=============================================================================
