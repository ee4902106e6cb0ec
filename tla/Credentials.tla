---------------------------- MODULE Credentials ----------------------------
(***************************************************************************)
(* Password hashes across deployments: argon2id.Hasher, the dummy hash     *)
(* that sign_in.New makes, and the checks of sign-up and sign-in that      *)
(* decide whether the key derivation runs and with which parameters.       *)
(* Instances may run with different ARGON2_* settings, side by side while  *)
(* a deployment rolls out; the accounts they share outlive them.           *)
(***************************************************************************)
EXTENDS Naturals

CONSTANTS Instances,
          Params,           \* argon2id parameters an instance may be given
          Emails, Passwords,
          Dummy,            \* the password that sign_in.New hashes; anyone may use it
          Length(_)         \* length of a password in bytes

PasswordMinLen == 12
PasswordMaxLen == 256

ASSUME CredentialsAssumption ==
    /\ \A raw \in Passwords \cup {Dummy} : Length(raw) \in Nat
    /\ PasswordMinLen <= Length(Dummy) /\ Length(Dummy) <= PasswordMaxLen

VARIABLES params,           \* the parameters each instance was started with
          dummy,            \* the hash it made then
          account,          \* the password hash stored for an address
          chosen            \* history: the password the address signed up with

credentialVars == <<params, dummy, account, chosen>>

\* A PHC string carries its parameters; salt and key stand for the password.
PHC == [params : Params, key : Passwords \cup {Dummy}]
Absent == [params |-> {}, key |-> {}]
NoPassword == {}
NoWork == {}

ASSUME AbsentAssumption == Absent \notin PHC

-----------------------------------------------------------------------------
Hash(p, raw) == [params |-> p, key |-> raw]

TrustingVerify(p, hash, raw) ==      \* (mutant) derives the key with the instance's own parameters
    IF Length(raw) > PasswordMaxLen THEN [ok |-> FALSE, work |-> NoWork]
    ELSE [ok |-> hash = Hash(p, raw), work |-> {p}]
\* The parameters are those of the hash, p is not used.  Every hash there is
\* was made by Hash, so that the PHC string parses.
Verify(p, hash, raw) ==
    IF Length(raw) > PasswordMaxLen THEN [ok |-> FALSE, work |-> NoWork]
    ELSE [ok |-> hash.key = raw, work |-> {hash.params}]

\* sign_in.New
NewSignIn(p) == Hash(p, Dummy)

CredentialInit ==
    /\ params \in [Instances -> Params]
    /\ dummy = [i \in Instances |-> NewSignIn(params[i])]
    /\ account = [e \in Emails |-> Absent]
    /\ chosen = [e \in Emails |-> NoPassword]

\* An instance is replaced, with the same or other settings.
Deploy(i, p) ==
    /\ params' = [params EXCEPT ![i] = p]
    /\ dummy' = [dummy EXCEPT ![i] = NewSignIn(p)]
    /\ UNCHANGED <<account, chosen>>

ValidatePasswordPolicy(raw) ==
    PasswordMinLen <= Length(raw) /\ Length(raw) <= PasswordMaxLen

\* The address is free and the password within policy; otherwise nothing is
\* stored.
SignUp(i, e, raw) ==
    /\ ValidatePasswordPolicy(raw) /\ account[e] = Absent
    /\ account' = [account EXCEPT ![e] = Hash(params[i], raw)]
    /\ chosen' = [chosen EXCEPT ![e] = {raw}]
    /\ UNCHANGED <<params, dummy>>

\* Sign-in changes nothing here: what it answers, and the key derivation it
\* runs.  For a malformed or unknown address the dummy hash is verified and the
\* outcome dropped.
SkippingCheck(i, e, raw) ==          \* (mutant) no verification for an unknown address
    IF account[e] = Absent THEN [ok |-> FALSE, work |-> NoWork]
    ELSE Verify(params[i], account[e], raw)
Check(i, e, raw) ==
    IF account[e] = Absent
    THEN [Verify(params[i], dummy[i], raw) EXCEPT !.ok = FALSE]
    ELSE Verify(params[i], account[e], raw)

CredentialNext ==
    \E i \in Instances :
        \/ \E p \in Params : Deploy(i, p)
        \/ \E e \in Emails, raw \in Passwords : SignUp(i, e, raw)

CredentialSpec == CredentialInit /\ [][CredentialNext]_credentialVars

-----------------------------------------------------------------------------
(* The password chosen at sign-up signs in at every instance, whatever     *)
(* settings it was deployed with since, and no other password does, the    *)
(* dummy password on an unknown address included.                          *)
OnlyTheChosenPassword ==
    \A i \in Instances, e \in Emails, raw \in Passwords :
        Check(i, e, raw).ok <=> chosen[e] = {raw}

(* A sign-in runs the same key derivation for an unknown address as for an *)
(* account made under the instance's settings, right password or wrong:    *)
(* what the dummy hash of sign_in.New is for.                              *)
SameWorkForUnknownAddress ==
    \A i \in Instances, known, unknown \in Emails, raw \in Passwords :
        /\ account[unknown] = Absent /\ account[known] # Absent
        /\ account[known].params = params[i]
        => Check(i, unknown, raw).work = Check(i, known, raw).work
=============================================================================
