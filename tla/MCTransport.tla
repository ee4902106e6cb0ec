---------------------------- MODULE MCTransport ----------------------------
(***************************************************************************)
(* One connection with a few requests, for TLC.                            *)
(***************************************************************************)
EXTENDS Transport

CONSTANTS alice

Sends(r, ids, trusts, cookies) ==
    {[route |-> r, headers |-> [id |-> i, trusted |-> t, cookie |-> c]] :
        i \in ids, t \in trusts, c \in cookies}

Both == {Empty, "theirs"}
AnyCookie == {alice, "absent", "forged"}

\* Every route, with every header some layer of its chain looks at.
EveryRoute ==
    Sends("signUp", Both, BOOLEAN, {alice}) \cup Sends("signIn", {Empty}, BOOLEAN, {"absent"})
    \cup Sends("signOut", Both, BOOLEAN, AnyCookie) \cup Sends("getMe", {Empty}, {FALSE}, AnyCookie)
    \cup UNION {Sends(q, {"theirs"}, {FALSE}, {alice}) : q \in {"healthz", "openapi", "unknown"}}
=============================================================================
