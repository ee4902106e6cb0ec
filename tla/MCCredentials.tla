--------------------------- MODULE MCCredentials ---------------------------
(***************************************************************************)
(* A few instances, settings and addresses, and passwords on both sides of *)
(* the length limits, for TLC.                                             *)
(***************************************************************************)
EXTENDS Credentials

CONSTANTS i1, i2, weak, strong, ann, bob, cyd,
          tooShort, shortest, dummyPassword, longest, tooLong

LengthOf(raw) ==
    CASE raw = tooShort -> 11 [] raw = shortest -> 12 [] raw = dummyPassword -> 37
      [] raw = longest -> 256 [] raw = tooLong -> 257
=============================================================================
