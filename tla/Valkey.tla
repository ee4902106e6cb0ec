------------------------------- MODULE Valkey -------------------------------
(***************************************************************************)
(* The session cache (src/internal/infrastructure/valkey): one entry per   *)
(* token hash.  A command either runs, or fails without effect, or times   *)
(* out at the client while the server may still run it later.              *)
(***************************************************************************)
EXTENDS Domain

VARIABLES cache,        \* the entries the server holds
          late          \* commands the client gave up on and the server may run

Payload == [session : Requests, user : Requests, expires : Time]

\* dies is the server's own deadline for the key, NULL for a key without one.
Entry == [key : TokenHash, payload : Payload, dies : Time]

SetCommand == [op : {"SET"}, key : TokenHash, payload : Payload, ttl : Int]
DelCommand == [op : {"DEL"}, key : TokenHash]

ValkeyTypeOK ==
    /\ cache \subseteq Entry
    /\ late \subseteq SetCommand \cup DelCommand

ValkeyInit == cache = {} /\ late = {}

-----------------------------------------------------------------------------
Set(key, session, user, expires, ttl) ==
    [op |-> "SET", key |-> key, ttl |-> ttl,
     payload |-> [session |-> session, user |-> user, expires |-> expires]]

Delete(key) == [op |-> "DEL", key |-> key]

\* A SET without a positive TTL is sent without one: the key never dies.
Others(key) == {e \in cache : e.key # key}
Stored(c, at) ==
    [key |-> c.key, payload |-> c.payload, dies |-> IF c.ttl > 0 THEN at + c.ttl ELSE NULL]

Run(c, at) == Others(c.key) \cup IF c.op = "SET" THEN {Stored(c, at)} ELSE {}

Send(c, at) ==
    \/ cache' = Run(c, at) /\ late' = late
    \/ "cache" \in Faults /\ UNCHANGED <<cache, late>>
    \/ "late" \in Faults /\ late' = late \cup {c} /\ cache' = cache

\* What a GET can find: the server drops a key at its deadline.
Live(at) == {e \in cache : e.dies = NULL \/ e.dies > at}

-----------------------------------------------------------------------------
ApplyLate(at) ==
    \E c \in late : cache' = Run(c, at) /\ late' = late \ {c}

Evict ==
    /\ "evict" \in Faults
    /\ \E e \in cache : cache' = cache \ {e}
    /\ late' = late
=============================================================================
