------------------------------- MODULE Domain -------------------------------
(***************************************************************************)
(* The values the identity service handles: e-mail addresses, passwords,   *)
(* tokens, users, sessions and outbox events (src/internal/domain, with    *)
(* the argon2id hasher and the token generator behind its ports).          *)
(*                                                                         *)
(* An HTTP request draws every identifier and token it needs from a        *)
(* cryptographic source, so draws never collide: the model names what a    *)
(* request draws after the request itself.  The user, the session, the     *)
(* token and the outbox row ids drawn by request r are all written r.      *)
(* The only tenant is tenant.DefaultID; it is left out of every record.    *)
(***************************************************************************)
EXTENDS Integers, FiniteSets

CONSTANTS Requests,     \* the HTTP requests of a behaviour
          Forged,       \* a cookie value no request ever drew
          None,         \* no cookie, no identifier
          Addresses,    \* mailboxes, whatever their spelling
          Forms,        \* spellings of an address clients use
          Passwords,    \* passwords, each named by its length in bytes
          SessionTTL,   \* SESSION_TTL_HOURS, in clock ticks
          Faults        \* the faults the environment commits

Spellings == {"canonical", "mixedCase", "malformed"}
FaultKinds == {"db", "cache", "late", "crash", "evict", "panic"}

ASSUME TokensAssumption == Forged \notin Requests /\ None \notin Requests /\ Forged # None
ASSUME FormsAssumption == Forms \subseteq Spellings
ASSUME PasswordsAssumption == Passwords \subseteq Nat
ASSUME TTLAssumption == SessionTTL \in Nat \ {0}
ASSUME FaultsAssumption == Faults \subseteq FaultKinds

-----------------------------------------------------------------------------
(* Time.  Clocks start at 1, so 0 stands for an unset timestamp.           *)
Time == Nat
NULL == 0

-----------------------------------------------------------------------------
(* E-mail: NewEmail trims and lower-cases, so every spelling of an address *)
(* becomes the canonical one.                                              *)
RawEmail == [addr : Addresses, form : Forms]
Email == [addr : Addresses, form : {"canonical"}]

ValidEmail(raw) == raw.form # "malformed"
RawNewEmail(raw) == raw                         \* (mutant) forgets to normalise
NewEmail(raw) == [addr |-> raw.addr, form |-> "canonical"]

-----------------------------------------------------------------------------
(* Passwords.  A PHC string determines the password it accepts; the salt   *)
(* only makes two strings for one password differ.                         *)
PasswordMinLen == 12
PasswordMaxLen == 256

ValidatePasswordPolicy(raw) == raw >= PasswordMinLen /\ raw <= PasswordMaxLen

PasswordHash == [phc : Passwords]
Hash(raw) == [phc |-> raw]
LaxVerify(hash, raw) == raw <= PasswordMaxLen   \* (mutant) only checks the length
Verify(hash, raw) == raw <= PasswordMaxLen /\ hash = Hash(raw)

-----------------------------------------------------------------------------
(* Tokens.  Only the SHA-256 of a token is stored or used as a cache key.  *)
Cookie == Requests \cup {Forged, None}
TokenHash == [sha256 : Requests \cup {Forged}]
HashOf(token) == [sha256 |-> token]

-----------------------------------------------------------------------------
(* Aggregates and outbox events.                                           *)
User == [id : Requests, email : Email, hash : PasswordHash]
Session == [id : Requests, user : Requests, hash : TokenHash,
            expires : Time, revoked : Time]

NewUser(id, email, hash) == [id |-> id, email |-> email, hash |-> hash]

NewSession(id, user, hash, expires) ==
    [id |-> id, user |-> user, hash |-> hash, expires |-> expires, revoked |-> NULL]

RevocationBlindIsActive(s, now) == now < s.expires       \* (mutant)
IsActive(s, now) == s.revoked = NULL /\ now < s.expires

TopicUserCreated == "identity.user.created.v1"
TopicSessionCreated == "identity.session.created.v1"
TopicSessionRevoked == "identity.session.revoked.v1"

Topics == {TopicUserCreated, TopicSessionCreated, TopicSessionRevoked}

\* "by" is the row id, drawn by the request that writes the event.
Event == [topic : Topics, aggregate : Requests, by : Requests]
NewEvent(by, topic, aggregate) == [topic |-> topic, aggregate |-> aggregate, by |-> by]
=============================================================================
