----------------------------- MODULE MCMigrate -----------------------------
(***************************************************************************)
(* A few runs of the migration runner, for TLC.                            *)
(***************************************************************************)
EXTENDS Migrate, TLC

CONSTANTS p1, p2, p3, p4

SomeCommands == {<<"up">>, <<"up-to", 2>>, <<"down">>, <<"status">>}

AnyRun == Permutations(Runs)
=============================================================================
