--------------------------------- MODULE MC ---------------------------------
(***************************************************************************)
(* Small instances of the identity service for TLC.                        *)
(***************************************************************************)
EXTENDS Guarantees, TLC

CONSTANTS r1, r2, r3, r4, alice

Mail(form) == [addr |-> alice, form |-> form]

Post(kind, form, password) ==
    [kind |-> kind, body |-> "json", email |-> Mail(form), password |-> password,
     origin |-> "allowed", referer |-> "absent"]

Protected(kind) == Post(kind, "canonical", 12)

SignUpAlice == Post("signUp", "canonical", 12)
SignInAlice == Post("signIn", "mixedCase", 12)

\* Every way the handlers refuse a sign-up, one that goes through by its Referer,
\* and sign-ins with the right and with the wrong password; up to three sign-ups
\* for one mailbox; and the sessions they open are used and signed out.
ServiceTraffic ==
    LET first == {SignUpAlice,
                  [SignUpAlice EXCEPT !.origin = "absent", !.referer = "allowed"],
                  [SignUpAlice EXCEPT !.origin = "foreign", !.referer = "allowed"],
                  [SignUpAlice EXCEPT !.body = "oversized"],
                  [SignInAlice EXCEPT !.body = "malformed"],
                  [SignInAlice EXCEPT !.origin = "absent"],
                  Post("signUp", "canonical", 11), Post("signUp", "canonical", 257),
                  Post("signUp", "malformed", 12), Post("signIn", "malformed", 12)}
        second == {Post("signUp", "mixedCase", 256), SignInAlice,
                   Post("signIn", "canonical", 256), Post("signIn", "canonical", 257),
                   Protected("getMe")}
        third == {SignUpAlice, Protected("getMe"), Protected("signOut")}
    IN [r \in Requests |-> IF r = r1 THEN first
                           ELSE IF r = r2 THEN second
                           ELSE IF r = r3 THEN third
                           ELSE {Protected("signOut")}]

\* Alice signs up; her session is then used and signed out concurrently.
SessionTraffic ==
    [r \in Requests |->
        IF r = r1 THEN {SignUpAlice}
        ELSE {Protected("getMe"), Protected("signOut"),
              [Protected("signOut") EXCEPT !.origin = "foreign"]}]

\* As above, from trusted pages only, and Alice may sign in again.
SignOutTraffic ==
    [r \in Requests |->
        IF r = r1 THEN {SignUpAlice}
        ELSE IF r = r2 THEN {SignInAlice, Protected("getMe")}
        ELSE {Protected("getMe"), Protected("signOut")}]

\* Contention for the e-mail, for the row lock of one session and for the pool.
WaitingTraffic ==
    [r \in Requests |->
        IF r = r1 THEN {SignUpAlice}
        ELSE {Post("signUp", "mixedCase", 12), SignInAlice,
              Protected("signOut"), Protected("getMe")}]

OnlySignOuts ==
    [r \in Requests |-> IF r = r1 THEN {SignUpAlice} ELSE {Protected("signOut")}]
=============================================================================
