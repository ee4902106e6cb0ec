-------------------------- MODULE CredentialProofs --------------------------
(***************************************************************************)
(* What clients prove who they are with: the password, for any instances,  *)
(* settings and accounts, and the session cookie, for any tabs and tokens. *)
(***************************************************************************)
EXTENDS Credentials, SessionCookie, TLAPS

-----------------------------------------------------------------------------
(* Passwords.                                                              *)

\* A stored hash is that of the password the address chose, made under some
\* instance's settings, and never of one that is too long to be verified.
Stored ==
    /\ params \in [Instances -> Params]
    /\ account \in [Emails -> PHC \cup {Absent}]
    /\ chosen \in [Emails -> SUBSET Passwords]
    /\ dummy = [i \in Instances |-> NewSignIn(params[i])]
    /\ \A e \in Emails :
        IF account[e] = Absent THEN chosen[e] = NoPassword
        ELSE /\ chosen[e] = {account[e].key}
             /\ Length(account[e].key) <= PasswordMaxLen

(* Every instance starts with a dummy hash of its own settings.            *)
LEMMA StoredInit == CredentialInit => Stored
  BY DEF CredentialInit, Stored, NoPassword, PHC, Hash, NewSignIn

(* Sign-up and redeployment keep hash and chosen password together.        *)
LEMMA StoredNext == Stored /\ [CredentialNext]_credentialVars => Stored'
<1> SUFFICES ASSUME Stored, [CredentialNext]_credentialVars PROVE Stored'
  OBVIOUS
<1>1. ASSUME NEW i \in Instances, NEW p \in Params, Deploy(i, p) PROVE Stored'
  BY <1>1 DEF Deploy, Stored, NewSignIn
<1>2. ASSUME NEW i \in Instances, NEW e \in Emails, NEW raw \in Passwords, SignUp(i, e, raw)
      PROVE Stored'
  <2> DEFINE made == Hash(params[i], raw)
  <2>1. made \in PHC /\ made.key = raw /\ made # Absent
    BY AbsentAssumption DEF Stored, Hash, PHC
  <2>2. /\ account' = [account EXCEPT ![e] = made] /\ chosen' = [chosen EXCEPT ![e] = {raw}]
        /\ Length(raw) <= PasswordMaxLen /\ UNCHANGED <<params, dummy>>
    BY <1>2 DEF SignUp, ValidatePasswordPolicy
  <2> HIDE DEF made
  <2>3. account' \in [Emails -> PHC \cup {Absent}] /\ chosen' \in [Emails -> SUBSET Passwords]
    BY <2>1, <2>2 DEF Stored
  <2>4. \A f \in Emails :
          IF account'[f] = Absent THEN chosen'[f] = NoPassword
          ELSE chosen'[f] = {account'[f].key} /\ Length(account'[f].key) <= PasswordMaxLen
    <3> TAKE f \in Emails
    <3>1. CASE f = e
      BY <2>1, <2>2, <3>1 DEF Stored
    <3>2. CASE f # e
      BY <2>2, <3>2 DEF Stored
    <3> QED BY <3>1, <3>2
  <2> QED BY <2>2, <2>3, <2>4 DEF Stored
<1>3. CASE UNCHANGED credentialVars
  BY <1>3 DEF credentialVars, Stored
<1> QED BY <1>1, <1>2, <1>3 DEF CredentialNext

(* From the stored hashes alone: right password or wrong, at any instance. *)
LEMMA StoredAnswers == Stored => OnlyTheChosenPassword
<1> SUFFICES ASSUME Stored, NEW i \in Instances, NEW e \in Emails, NEW raw \in Passwords
             PROVE Check(i, e, raw).ok <=> chosen[e] = {raw}
  BY DEF OnlyTheChosenPassword
<1>1. Length(raw) \in Nat
  BY CredentialsAssumption
<1>2. CASE account[e] = Absent
  <2>1. ~Check(i, e, raw).ok
    BY <1>2 DEF Check, Verify
  <2>2. chosen[e] = {}
    BY <1>2 DEF Stored, NoPassword
  <2> QED BY <2>1, <2>2
<1>3. CASE account[e] # Absent
  <2>1. chosen[e] = {account[e].key} /\ Length(account[e].key) <= PasswordMaxLen
    BY <1>3 DEF Stored
  <2>2. CASE Length(raw) > PasswordMaxLen
    <3>1. account[e].key # raw
      BY <1>1, <2>1, <2>2 DEF PasswordMaxLen
    <3> QED BY <1>3, <2>1, <2>2, <3>1 DEF Check, Verify
  <2>3. CASE ~(Length(raw) > PasswordMaxLen)
    BY <1>3, <2>1, <2>3 DEF Check, Verify
  <2> QED BY <2>2, <2>3
<1> QED BY <1>2, <1>3

(* From the dummy hashes: they carry the settings of their instance.       *)
LEMMA StoredWork == Stored => SameWorkForUnknownAddress
<1> SUFFICES ASSUME Stored,
                    NEW i \in Instances, NEW known \in Emails, NEW unknown \in Emails,
                    NEW raw \in Passwords,
                    account[unknown] = Absent, account[known] # Absent,
                    account[known].params = params[i]
             PROVE Check(i, unknown, raw).work = Check(i, known, raw).work
  BY DEF SameWorkForUnknownAddress
<1>1. dummy[i].params = params[i]
  BY DEF Stored, NewSignIn, Hash
<1>2. Check(i, known, raw) = Verify(params[i], account[known], raw)
  BY DEF Check
<1>3. Check(i, unknown, raw) = [Verify(params[i], dummy[i], raw) EXCEPT !.ok = FALSE]
  BY DEF Check
<1>4. CASE Length(raw) > PasswordMaxLen
  BY <1>2, <1>3, <1>4 DEF Verify
<1>5. CASE ~(Length(raw) > PasswordMaxLen)
  <2>1. Verify(params[i], dummy[i], raw) = [ok |-> dummy[i].key = raw, work |-> {params[i]}]
    BY <1>1, <1>5 DEF Verify
  <2>2. Verify(params[i], account[known], raw).work = {params[i]}
    BY <1>5 DEF Verify
  <2> QED BY <1>2, <1>3, <2>1, <2>2
<1> QED BY <1>4, <1>5

(* However instances are redeployed and whatever their settings, the       *)
(* password chosen at sign-up signs in and no other does.                  *)
THEOREM OnlyTheChosenPasswordHolds == CredentialSpec => []OnlyTheChosenPassword
  BY StoredInit, StoredNext, StoredAnswers, PTL DEF CredentialSpec

(* However instances are redeployed, a sign-in for an unknown address runs *)
(* the derivation that an account made under the same settings would.      *)
THEOREM SameWorkHolds == CredentialSpec => []SameWorkForUnknownAddress
  BY StoredInit, StoredNext, StoredWork, PTL DEF CredentialSpec

-----------------------------------------------------------------------------
(* The session cookie.                                                     *)

Responses == [at : {"answered"}, name : Names \cup {NoToken}, token : Tokens \cup {NoToken}]
Jars == [Names -> Tokens \cup {NoToken}]
Sent == [at : {"sent"}, kind : {"signIn", "signOut", "getMe"}, cookies : Jars]

\* The tab's response sets, under name n, a token; the tab's request carries one.
Brings(t, n, token) == tab[t] \in Responses /\ tab[t].name = n /\ tab[t].token = token
Carries(t, token) == tab[t] \in Sent /\ \E n \in Names : tab[t].cookies[n] = token

CookieTypeOK ==
    /\ secure \in BOOLEAN /\ flips \in Nat
    /\ issued \subseteq Tokens /\ cleared \in [Names -> SUBSET Tokens]
    /\ jar \in Jars
    /\ tab \in [Tabs -> {Quiet} \cup Sent \cup Responses]

\* While the setting stays, nothing has used the other name.
OneName ==
    flips = 0 =>
        /\ jar[Name] = last
        /\ \A n \in Names \ {Name} :
            /\ jar[n] = NoToken
            /\ \A t \in Tabs : tab[t] \in Responses => tab[t].name # n

\* What the browser has, was sent or is to receive, the server has made.
Made ==
    /\ \A n \in Names : jar[n] \in issued \cup {NoToken} /\ cleared[n] \subseteq issued
    /\ \A t \in Tabs, token \in Tokens, n \in Names \cup {NoToken} :
        Brings(t, n, token) \/ Carries(t, token) => token \in issued

\* A token on its way to the browser is not yet in use.
Unused ==
    \A t \in Tabs, n \in Names \cup {NoToken}, token \in Tokens : Brings(t, n, token) =>
        /\ \A m \in Names : token \notin cleared[m] /\ jar[m] # token
        /\ \A u \in Tabs : ~Carries(u, token)
        /\ \A u \in Tabs \ {t}, m \in Names \cup {NoToken} : ~Brings(u, m, token)

\* A cleared cookie is in the jar only until a response that clears it comes in.
Clearing ==
    \A n \in Names : jar[n] \in cleared[n] => \E t \in Tabs : Brings(t, n, NoToken)

CookieInv == CookieTypeOK /\ OneName /\ Made /\ Unused /\ Clearing

(* The three states of a tab are different.                                *)
LEMMA TabStates ==
    /\ Quiet \notin Sent /\ Quiet \notin Responses
    /\ \A x \in Sent : x.at = "sent" /\ x \notin Responses
    /\ \A x \in Responses : x.at = "answered"
BY DEF Quiet, Sent, Responses

(* A new browser has no cookies.                                           *)
LEMMA CookieInvInit == CookieInit => CookieInv
<1> SUFFICES ASSUME CookieInit PROVE CookieInv
  OBVIOUS
<1>1. CookieTypeOK
  BY DEF CookieInit, CookieTypeOK, Jars
<1>2. \A t \in Tabs : tab[t] \notin Sent /\ tab[t] \notin Responses
  BY TabStates DEF CookieInit
<1>3. OneName
  BY <1>2 DEF CookieInit, OneName, Name, Names, NameSecure, NameInsecure
<1>4. Made /\ Unused
  BY <1>2 DEF CookieInit, Made, Unused, Brings, Carries
<1>5. Clearing
  BY DEF CookieInit, Clearing
<1> QED
  BY <1>1, <1>3, <1>4, <1>5 DEF CookieInv

(* A request that has reached the server was sent, with the jar of then.   *)
LEMMA ReachesSent ==
    ASSUME CookieTypeOK, NEW t \in Tabs, tab[t].at = "sent" \/ tab[t].at = "answered"
    PROVE  /\ tab[t].at = "sent" => tab[t] \in Sent /\ tab[t] \notin Responses
           /\ tab[t].at = "answered" => tab[t] \in Responses /\ tab[t] \notin Sent
BY DEF CookieTypeOK, Quiet, Sent, Responses

(* What moves when one tab changes: only what that tab brings or carries.  *)
LEMMA TabChanges ==
    ASSUME CookieTypeOK, NEW t \in Tabs, NEW x, tab' = [tab EXCEPT ![t] = x]
    PROVE  /\ tab'[t] = x
           /\ \A u \in Tabs \ {t} : tab'[u] = tab[u]
BY DEF CookieTypeOK

(* A page sends a request with the cookies of the jar.                     *)
LEMMA SendKeeps ==
    ASSUME CookieInv, NEW t \in Tabs, Send(t)
    PROVE  CookieInv'
<1> USE DEF CookieInv
<1>1. PICK kind \in {"signIn", "signOut", "getMe"} :
        tab' = [tab EXCEPT ![t] = [at |-> "sent", kind |-> kind, cookies |-> jar]]
  BY DEF Send
<1> DEFINE x == [at |-> "sent", kind |-> kind, cookies |-> jar]
<1>2. x \in Sent /\ x \notin Responses /\ x.cookies = jar
  BY TabStates DEF CookieTypeOK, Sent
<1> HIDE DEF x
<1>3. tab'[t] = x /\ \A u \in Tabs \ {t} : tab'[u] = tab[u]
  BY <1>1, TabChanges DEF x
<1>4. tab[t] \notin Responses /\ tab[t] \notin Sent
  BY TabStates DEF Send
<1>5. UNCHANGED <<secure, flips, issued, cleared, jar, last>>
  BY DEF Send
<1>6. CookieTypeOK'
  BY <1>1, <1>2, <1>5 DEF CookieTypeOK, x
<1>7. \A u \in Tabs : \A n, token : Brings(u, n, token)' <=> Brings(u, n, token)
  BY <1>2, <1>3, <1>4 DEF Brings
<1>8. \A u \in Tabs : \A token : Carries(u, token)' =>
        Carries(u, token) \/ \E n \in Names : jar[n] = token
  BY <1>2, <1>3 DEF Carries
<1>9. OneName'
  BY <1>2, <1>3, <1>5 DEF OneName, Name
<1>10. Made'
  BY <1>5, <1>7, <1>8, CookieAssumption DEF Made
<1>11. Unused'
  BY <1>5, <1>7, <1>8 DEF Unused
<1>12. Clearing'
  BY <1>5, <1>7 DEF Clearing, Name
<1> QED
  BY <1>6, <1>9, <1>10, <1>11, <1>12

(* A response that sets no cookie, or clears the configured one.           *)
LEMMA AnswerKeeps ==
    ASSUME CookieInv, NEW t \in Tabs, tab[t].at = "sent", NEW x \in {NoCookie, ClearFast},
           Respond(t, x), UNCHANGED <<secure, flips, jar, last>>,
           issued' \subseteq Tokens, issued \subseteq issued',
           \/ cleared' = cleared
           \/ x = ClearFast /\ \E token \in Tokens : Confirmed(token) /\ Carries(t, token)
    PROVE  CookieInv'
<1> USE DEF CookieInv
<1>1. /\ x \in Responses /\ x \notin Sent /\ x.token = NoToken /\ x.name \in {Name, NoToken}
      /\ x = ClearFast => x.name = Name
  BY DEF NoCookie, ClearFast, Responses, Sent, Name, Names
<1>2. tab'[t] = x /\ \A u \in Tabs \ {t} : tab'[u] = tab[u]
  BY TabChanges DEF Respond
<1>3. tab[t] \in Sent /\ tab[t] \notin Responses
  BY ReachesSent
<1>4. CookieTypeOK'
  BY <1>1 DEF CookieTypeOK, Respond, Confirmed
<1>5. \A u \in Tabs, token \in Tokens : \A n :
        Brings(u, n, token)' <=> Brings(u, n, token)
  BY <1>1, <1>2, <1>3, CookieAssumption DEF Brings
<1>6. \A u \in Tabs : \A token : Carries(u, token)' => Carries(u, token)
  BY <1>1, <1>2 DEF Carries
<1>7. OneName'
  <2>1. Name \in Names /\ NoToken \notin Names /\ Name' = Name
    BY DEF Name, Names, NameSecure, NameInsecure, NoToken
  <2> QED
    BY <1>1, <1>2, <2>1 DEF OneName
<1>8. Made'
  <2>1. \A n \in Names : cleared'[n] \subseteq issued
    BY DEF Made, Confirmed, CookieTypeOK
  <2> QED
    BY <1>5, <1>6, <2>1 DEF Made
<1>9. Unused'
  <2>1. \A u \in Tabs, n \in Names \cup {NoToken}, token \in Tokens :
          Brings(u, n, token) => \A m \in Names : token \notin cleared'[m]
    BY DEF Unused, Confirmed, CookieTypeOK
  <2> QED
    BY <1>5, <1>6, <2>1 DEF Unused
<1>10. Clearing'
  <2> SUFFICES ASSUME NEW n \in Names, jar[n] \in cleared'[n]
               PROVE  \E u \in Tabs : Brings(u, n, NoToken)'
    BY DEF Clearing
  <2>1. CASE x = ClearFast /\ n = Name
    BY <1>1, <1>2, <2>1 DEF Brings
  <2>2. CASE ~(x = ClearFast /\ n = Name)
    <3>1. jar[n] \in cleared[n]
      BY <2>2 DEF Confirmed, CookieTypeOK
    <3>2. \A u \in Tabs : Brings(u, n, NoToken) => Brings(u, n, NoToken)'
      BY <1>2, <1>3 DEF Brings
    <3> QED
      BY <3>1, <3>2 DEF Clearing
  <2> QED
    BY <2>1, <2>2
<1> QED
  BY <1>4, <1>7, <1>8, <1>9, <1>10

(* A sign-in sets a token that nobody has had.                             *)
LEMMA SignInKeeps ==
    ASSUME CookieInv, NEW t \in Tabs, SignIn(t)
    PROVE  CookieInv'
<1> USE DEF CookieInv
<1>1. tab[t].at = "sent" /\ UNCHANGED <<secure, flips, cleared, jar, last>>
  BY DEF SignIn, Reaches
<1>2. ASSUME issued' \subseteq Tokens, issued \subseteq issued', Respond(t, NoCookie)
      PROVE  CookieInv'
  BY <1>1, <1>2, AnswerKeeps
<1>3. ASSUME NEW new \in Tokens \ issued, issued' = issued \cup {new}, Respond(t, SetFast(new))
      PROVE  CookieInv'
  <2> DEFINE x == SetFast(new)
  <2>1. x \in Responses /\ x \notin Sent /\ x.token = new /\ x.name = Name /\ Name \in Names
    BY DEF SetFast, Responses, Sent, Name, Names
  <2>2. tab' = [tab EXCEPT ![t] = x]
    BY <1>3 DEF Respond
  <2> HIDE DEF x
  <2>3. tab'[t] = x /\ \A u \in Tabs \ {t} : tab'[u] = tab[u]
    BY <2>2, TabChanges
  <2>4. tab[t] \in Sent /\ tab[t] \notin Responses
    BY <1>1, ReachesSent
  <2>5. CookieTypeOK'
    BY <1>1, <1>3, <2>1, <2>2 DEF CookieTypeOK
  <2>6. \A u \in Tabs : \A n, token :
          Brings(u, n, token)' <=> Brings(u, n, token) \/ (u = t /\ n = Name /\ token = new)
    BY <2>1, <2>3, <2>4 DEF Brings
  <2>7. \A u \in Tabs : \A token : Carries(u, token)' => Carries(u, token)
    BY <2>1, <2>3 DEF Carries
  <2>8. OneName'
    BY <1>1, <2>1, <2>3 DEF OneName, Name
  <2>9. Made'
    BY <1>1, <1>3, <2>6, <2>7 DEF Made
  <2>10. /\ \A u \in Tabs : ~Carries(u, new) /\ \A n \in Names \cup {NoToken} : ~Brings(u, n, new)
         /\ \A n \in Names : jar[n] # new /\ new \notin cleared[n]
    BY <1>3, CookieAssumption DEF Made
  <2>11. Unused'
    BY <1>1, <1>3, <2>4, <2>6, <2>7, <2>10 DEF Unused
  <2>12. Clearing'
    BY <1>1, <2>6 DEF Clearing, Name
  <2> QED
    BY <2>5, <2>8, <2>9, <2>11, <2>12
<1> QED
  BY <1>2, <1>3 DEF SignIn, CookieTypeOK

(* A sign-out confirms what the request carried and clears the cookie.      *)
LEMMA SignOutKeeps ==
    ASSUME CookieInv, NEW t \in Tabs, SignOut(t)
    PROVE  CookieInv'
<1> DEFINE token == ReadSessionCookieFast(tab[t].cookies)
<1>1. CookieTypeOK /\ tab[t].at = "sent" /\ UNCHANGED <<secure, flips, issued, jar, last>>
  BY DEF CookieInv, SignOut, Reaches
<1>2. Carries(t, token)
  BY <1>1, ReachesSent DEF Carries, ReadSessionCookieFast, Names
<1> HIDE DEF token
<1>3. CASE token \in issued /\ Confirmed(token) /\ Respond(t, ClearFast)
  BY <1>1, <1>2, <1>3, AnswerKeeps DEF CookieTypeOK
<1>4. CASE Respond(t, NoCookie) /\ UNCHANGED cleared
  BY <1>1, <1>4, AnswerKeeps DEF CookieTypeOK
<1> QED
  BY <1>3, <1>4 DEF SignOut, token

(* The browser takes the response in.                                      *)
LEMMA ReceiveKeeps ==
    ASSUME CookieInv, NEW t \in Tabs, Receive(t)
    PROVE  CookieInv'
<1> USE DEF CookieInv
<1>1. tab'[t] = Quiet /\ \A u \in Tabs \ {t} : tab'[u] = tab[u]
  BY TabChanges DEF Receive
<1>2. tab[t] \in Responses /\ Quiet \notin Responses /\ Quiet \notin Sent
  BY ReachesSent, TabStates DEF Receive
<1>3. UNCHANGED <<secure, flips, issued, cleared>> /\ Name \in Names /\ Name' = Name
  BY DEF Receive, Name, Names
<1>4. \A u \in Tabs : \A n, token : Brings(u, n, token)' <=> u # t /\ Brings(u, n, token)
  BY <1>1, <1>2 DEF Brings
<1>5. \A u \in Tabs : \A token : Carries(u, token)' => Carries(u, token)
  BY <1>1, <1>2 DEF Carries
<1>6. tab' \in [Tabs -> {Quiet} \cup Sent \cup Responses]
  BY DEF CookieTypeOK, Receive
<1>7. CASE tab[t].name = NoToken /\ UNCHANGED <<jar, last>>
  <2>1. CookieTypeOK' /\ OneName' /\ Made' /\ Unused'
    BY <1>1, <1>2, <1>3, <1>4, <1>5, <1>6, <1>7 DEF CookieTypeOK, OneName, Made, Unused
  <2>2. \A n \in Names : ~Brings(t, n, NoToken)
    BY <1>7 DEF Brings, Names, NameSecure, NameInsecure, NoToken
  <2>3. Clearing'
    BY <1>3, <1>4, <1>7, <2>2 DEF Clearing
  <2> QED
    BY <2>1, <2>3
<1>8. ASSUME NEW n \in Names, NEW token, tab[t].name = n, tab[t].token = token,
             jar' = [jar EXCEPT ![n] = token], last' = token
      PROVE  CookieInv'
  <2>1. token \in Tokens \cup {NoToken} /\ Brings(t, n, token)
    BY <1>2, <1>8 DEF Brings, Responses
  <2>2. jar'[n] = token /\ \A m \in Names \ {n} : jar'[m] = jar[m]
    BY <1>8 DEF CookieTypeOK, Jars
  <2>3. CookieTypeOK'
    BY <1>3, <1>6, <1>8, <2>1 DEF CookieTypeOK, Jars
  <2>4. OneName'
    BY <1>1, <1>2, <1>3, <1>8, <2>2 DEF OneName
  <2>5. Made'
    BY <1>3, <1>4, <1>5, <2>1, <2>2 DEF Made
  <2>6. Unused'
    BY <1>3, <1>4, <1>5, <2>1, <2>2 DEF Unused
  <2>7. token \notin cleared[n]
    BY <2>1, CookieAssumption DEF Unused, CookieTypeOK
  <2>8. Clearing'
    <3> SUFFICES ASSUME NEW m \in Names, jar'[m] \in cleared[m]
                 PROVE  \E u \in Tabs : Brings(u, m, NoToken)'
      BY <1>3 DEF Clearing
    <3>1. m # n /\ jar[m] \in cleared[m]
      BY <2>2, <2>7
    <3>2. ~Brings(t, m, NoToken)
      BY <1>8, <3>1 DEF Brings
    <3> QED
      BY <1>4, <3>1, <3>2 DEF Clearing
  <2> QED
    BY <2>3, <2>4, <2>5, <2>6, <2>8
<1> QED
  BY <1>7, <1>8 DEF Receive

(* A restart with the other setting leaves the browser as it is.           *)
LEMMA FlipKeeps ==
    ASSUME CookieInv, Flip
    PROVE  CookieInv'
<1> USE DEF CookieInv, Flip
<1>1. flips \in Nat /\ flips' = flips + 1 /\ secure' = ~secure
      /\ UNCHANGED <<issued, cleared, jar, tab, last>>
  BY DEF CookieTypeOK
<1> QED
  BY <1>1 DEF CookieTypeOK, OneName, Made, Unused, Clearing, Brings, Carries

(* Every step keeps the invariant.                                         *)
LEMMA CookieStep == CookieInv /\ [CookieNext]_cookieVars => CookieInv'
<1> SUFFICES ASSUME CookieInv, [CookieNext]_cookieVars PROVE CookieInv'
  OBVIOUS
<1>1. ASSUME NEW t \in Tabs, GetMe(t) PROVE CookieInv'
  BY <1>1, AnswerKeeps DEF GetMe, Reaches, CookieInv, CookieTypeOK
<1>2. CASE UNCHANGED cookieVars
  BY <1>2 DEF cookieVars, CookieInv, CookieTypeOK, OneName, Made, Unused, Clearing, Name, Brings,
     Carries
<1> QED
  BY <1>1, <1>2, SendKeeps, SignInKeeps, SignOutKeeps, ReceiveKeeps, FlipKeeps DEF CookieNext

(* For any number of tabs, and responses in any order: while COOKIE_SECURE *)
(* stays, the session of a request is that of the last response received.  *)
THEOREM LastResponseCounts == CookieSpec => []LastResponseDecides
<1>1. CookieInv => LastResponseDecides
  BY DEF CookieInv, OneName, LastResponseDecides, ReadSessionCookieFast, Name, Names, NameSecure,
     NameInsecure
<1> QED
  BY <1>1, CookieInvInit, CookieStep, PTL DEF CookieSpec

(* For any number of tabs, responses in any order and any number of        *)
(* changes of COOKIE_SECURE: a cookie whose sign-out was answered with 204 *)
(* stays under the name that answer clears only until it comes in.         *)
THEOREM SignedOutCookieIsCleared == CookieSpec => []NoDeadCookie
<1>1. \A x \in Responses : x = [at |-> "answered", name |-> x.name, token |-> x.token]
  BY DEF Responses
<1>2. CookieInv => NoDeadCookie
  BY <1>1 DEF CookieInv, Clearing, Brings, NoDeadCookie
<1> QED
  BY <1>2, CookieInvInit, CookieStep, PTL DEF CookieSpec
=============================================================================
