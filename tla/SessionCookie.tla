--------------------------- MODULE SessionCookie ---------------------------
(***************************************************************************)
(* The session cookie in one browser with several tabs.  The cookie has    *)
(* two possible names, chosen by COOKIE_SECURE; a restart may change the   *)
(* setting.  Requests of different tabs overlap, and their responses       *)
(* arrive in any order.  All of it over TLS.                               *)
(***************************************************************************)
EXTENDS Naturals

CONSTANTS Tabs, Tokens,
          MaxFlips      \* how often COOKIE_SECURE is changed

ASSUME FlipsAssumption == MaxFlips \in Nat

NameSecure == "__Host-session"
NameInsecure == "session"
Names == {NameSecure, NameInsecure}

NoToken == "none"

\* The value of a session cookie is never empty.
ASSUME CookieAssumption == NoToken \notin Tokens

VARIABLES secure, flips,     \* the setting, and how often it changed
          issued,            \* the tokens of sign-ins so far
          cleared,           \* history: the tokens whose sign-out was answered with
                             \* 204, by the name the answer clears
          jar,               \* the browser's cookies
          tab,               \* each tab's request or response under way
          last               \* history: what the last response received left behind

cookieVars == <<secure, flips, issued, cleared, jar, tab, last>>

Quiet == [at |-> "quiet"]

CookieInit ==
    /\ secure \in BOOLEAN /\ flips = 0
    /\ issued = {} /\ cleared = [n \in Names |-> {}]
    /\ jar = [n \in Names |-> NoToken]
    /\ tab = [t \in Tabs |-> Quiet]
    /\ last = NoToken

-----------------------------------------------------------------------------
(* The three operations of package cookies.                                *)
Name == IF secure THEN NameSecure ELSE NameInsecure

SetFast(token) == [at |-> "answered", name |-> Name, token |-> token]

FixedClearFast == [at |-> "answered", name |-> NameSecure, token |-> NoToken]  \* (mutant)
ClearFast == [at |-> "answered", name |-> Name, token |-> NoToken]

ReadSessionCookieFast(cookies) ==
    IF cookies[NameSecure] # NoToken THEN cookies[NameSecure] ELSE cookies[NameInsecure]

NoCookie == [at |-> "answered", name |-> NoToken, token |-> NoToken]

-----------------------------------------------------------------------------
\* A page sends a request; the browser adds every cookie it has.
Send(t) ==
    /\ tab[t] = Quiet
    /\ \E kind \in {"signIn", "signOut", "getMe"} :
        tab' = [tab EXCEPT ![t] = [at |-> "sent", kind |-> kind, cookies |-> jar]]
    /\ UNCHANGED <<secure, flips, issued, cleared, jar, last>>

Reaches(t, kind) == tab[t].at = "sent" /\ tab[t].kind = kind
Respond(t, response) == tab' = [tab EXCEPT ![t] = response]

\* A new session and its cookie; a new session and the 500 of a commit whose answer was
\* lost; or a refusal.
SignIn(t) ==
    /\ Reaches(t, "signIn")
    /\ \/ \E token \in Tokens \ issued :
            /\ issued' = issued \cup {token}
            /\ Respond(t, SetFast(token)) \/ Respond(t, NoCookie)
       \/ issued' = issued /\ Respond(t, NoCookie)
    /\ UNCHANGED <<secure, flips, cleared, jar, last>>

Confirmed(token) == cleared' = [cleared EXCEPT ![Name] = @ \cup {token}]

KeepingSignOut(t) ==                 \* (mutant) the handler does not clear the cookie
    /\ Reaches(t, "signOut")
    /\ LET token == ReadSessionCookieFast(tab[t].cookies)
       IN token \in issued /\ Confirmed(token)
    /\ Respond(t, NoCookie)
    /\ UNCHANGED <<secure, flips, issued, jar, last>>
\* 204 with the cleared cookie for a token the middleware let through (a revoked one too,
\* while the cache serves it).  No cookie for what it refused, nor for the 500 of a use
\* case that failed: the session is then revoked if the commit went through after all.
SignOut(t) ==
    /\ Reaches(t, "signOut")
    /\ LET token == ReadSessionCookieFast(tab[t].cookies)
       IN \/ token \in issued /\ Confirmed(token) /\ Respond(t, ClearFast)
          \/ Respond(t, NoCookie) /\ UNCHANGED cleared
    /\ UNCHANGED <<secure, flips, issued, jar, last>>

GetMe(t) ==
    /\ Reaches(t, "getMe")
    /\ Respond(t, NoCookie)
    /\ UNCHANGED <<secure, flips, issued, cleared, jar, last>>

Receive(t) ==
    /\ tab[t].at = "answered"
    /\ tab' = [tab EXCEPT ![t] = Quiet]
    /\ \/ tab[t].name = NoToken /\ UNCHANGED <<jar, last>>
       \/ /\ tab[t].name \in Names
          /\ jar' = [jar EXCEPT ![tab[t].name] = tab[t].token]
          /\ last' = tab[t].token
    /\ UNCHANGED <<secure, flips, issued, cleared>>

\* The service is restarted with the other setting.
Flip ==
    /\ flips < MaxFlips
    /\ flips' = flips + 1 /\ secure' = ~secure
    /\ UNCHANGED <<issued, cleared, jar, tab, last>>

CookieNext ==
    \/ \E t \in Tabs : Send(t) \/ SignIn(t) \/ SignOut(t) \/ GetMe(t) \/ Receive(t)
    \/ Flip

CookieSpec == CookieInit /\ [][CookieNext]_cookieVars

-----------------------------------------------------------------------------
(* While the setting stays, the session the server finds in a request is   *)
(* the one of the last response the browser received: that of a sign-in    *)
(* ("SetFast writes the session cookie"), or none after a sign-out         *)
(* ("ClearFast emits a Set-Cookie that overwrites the existing one").      *)
LastResponseDecides == flips = 0 => ReadSessionCookieFast(jar) = last

(* A cookie whose sign-out was answered with 204 stays in the browser only *)
(* until that answer comes in, and never returns: whichever tab signed     *)
(* out, in whatever order the responses of all tabs come in, and however   *)
(* often the setting changes.  It speaks of the name the answer clears     *)
(* (ClearFast uses the setting of the instance that answers): a cookie set *)
(* under the other name before a change stays, as does one whose sign-out  *)
(* was answered with 500.                                                  *)
NoDeadCookie ==
    \A n \in Names : jar[n] \in cleared[n] =>
        \E t \in Tabs : tab[t] = [at |-> "answered", name |-> n, token |-> NoToken]
=============================================================================
