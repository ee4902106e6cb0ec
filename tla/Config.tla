------------------------------- MODULE Config -------------------------------
(***************************************************************************)
(* config.Load: what the server makes of its environment.  The widths of   *)
(* the machine's integers are parameters, so that TLC meets their edges.   *)
(***************************************************************************)
EXTENDS Integers, Sequences

CONSTANTS MaxInt,               \* largest int and time.Duration: 2^63 - 1
          Uint32, MaxUint8,     \* 2^32 and 255
          Millisecond, Hour,    \* in nanoseconds
          Default,              \* value of each numeric variable when it is not set
          Unset, Malformed      \* the variable is empty, or Atoi refuses it

Durations == {"VALKEY_DIAL_TIMEOUT_MS", "VALKEY_OP_TIMEOUT_MS", "SESSION_TTL_HOURS"}
Numeric == Durations \cup {"ARGON2_MEMORY_KIB", "ARGON2_TIME", "ARGON2_PARALLELISM"}

ASSUME ConfigAssumption ==
    /\ MaxInt \in Nat /\ Uint32 \in Nat \ {0} /\ MaxUint8 \in Nat
    /\ Millisecond \in Nat \ {0} /\ Hour \in Nat \ {0}
    /\ Default \in [Numeric -> Nat \ {0}]
    /\ Default["ARGON2_TIME"] < Uint32

-----------------------------------------------------------------------------
Unit(name) == IF name = "SESSION_TTL_HOURS" THEN Hour ELSE Millisecond

\* The product of two int64s.
Duration(n) == ((n + MaxInt + 1) % (2 * (MaxInt + 1))) - (MaxInt + 1)

\* time.Duration(n) * unit, uint32(n), uint8(n).
Convert(name, n) ==
    CASE name \in Durations -> Duration(n * Unit(name))
      [] name = "ARGON2_PARALLELISM" -> n % (MaxUint8 + 1)
      [] OTHER -> n % Uint32

UncheckedRefused(name, v) ==         \* (mutant) ARGON2_PARALLELISM has no upper limit
    v # Unset /\ v \notin 1..MaxInt
\* Atoi refuses what is not an int, the check after it what is not positive.
Refused(name, v) ==
    v # Unset /\ v \notin 1..(IF name = "ARGON2_PARALLELISM" THEN MaxUint8 ELSE MaxInt)

\* strings.Split, TrimSpace, and only what is left of a part counts.
Origins(parts) == SelectSeq(parts, LAMBDA p : p # "blank")

\* envBool: what it does not know is the fallback.
EnvBool(v, fallback) == IF v \in {"true", "false"} THEN v = "true" ELSE fallback

Empty == "empty"                     \* the empty string: a variable that is not set

LoadFails(env) ==
    \/ env.postgresURL = Empty \/ env.valkeyURL = Empty
    \/ \E name \in Numeric : Refused(name, env.number[name])
    \/ Origins(env.allowedOrigins) = <<>>

Used(env) == [name \in Numeric |->
                IF env.number[name] = Unset THEN Default[name]
                ELSE Convert(name, env.number[name])]

Load(env) ==
    [number |-> Used(env), allowedOrigins |-> Origins(env.allowedOrigins),
     runMigrationsOnBoot |-> EnvBool(env.runMigrationsOnBoot, FALSE)]
=============================================================================
