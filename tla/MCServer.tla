------------------------------ MODULE MCServer ------------------------------
(***************************************************************************)
(* Environments for TLC: integers of a few bits, and settings on both      *)
(* sides of every edge.                                                    *)
(***************************************************************************)
EXTENDS Server, TLC

CONSTANTS c1, c2

Defaults == [name \in Numeric |-> 1]
Numbers == {Unset, Malformed, 0, 1, 5, 6, 8, 13, 40}

Complete ==
    [postgresURL |-> "postgres", valkeyURL |-> "redis", allowedOrigins |-> <<"app", "blank">>,
     runMigrationsOnBoot |-> "unset", number |-> [name \in Numeric |-> Unset]]

\* One or two numbers set; or something required missing; or migrations on.
Numbered ==
    {[Complete EXCEPT !.number = (a :> v @@ b :> w) @@ Complete.number] :
        a \in Numeric, b \in Numeric, v \in Numbers, w \in Numbers}
Partial ==
    {[Complete EXCEPT !.postgresURL = p, !.valkeyURL = v, !.allowedOrigins = o] :
        p \in {Empty, "postgres"}, v \in {Empty, "redis"},
        o \in {<<"blank">>, <<"blank", "blank">>, <<"blank", "app">>}}
Migrating ==
    {[Complete EXCEPT !.runMigrationsOnBoot = m] : m \in {"true", "false", "maybe"}}

AnyEnvironment == Numbered \cup Partial \cup Migrating
=============================================================================
