-------------------------- MODULE MCSessionCookie --------------------------
(***************************************************************************)
(* A browser with a few tabs and sign-ins, for TLC.                        *)
(***************************************************************************)
EXTENDS SessionCookie, TLC

CONSTANTS tab1, tab2, tab3, t1, t2, t3

Symmetric == Permutations(Tabs) \cup Permutations(Tokens)
=============================================================================
