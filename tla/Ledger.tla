------------------------------- MODULE Ledger -------------------------------
(***************************************************************************)
(* What the service promises its consumers about the accounts it keeps: a  *)
(* ledger in which a registration, an opened session and a revocation each *)
(* happen in one indivisible step together with the events that announce   *)
(* them, and in which an address belongs to one account for ever.  There   *)
(* are no transactions, requests in flight, failures or caches here.       *)
(***************************************************************************)
EXTENDS Domain

VARIABLES accounts, sessions, events

ledger == <<accounts, sessions, events>>

LedgerInit == accounts = {} /\ sessions = {} /\ events = {}

\* A session opened by r for the account named id.
Opens(s, r, id) == s.id = r /\ s.user = id /\ s.hash = HashOf(r) /\ s.revoked = NULL

Register(r) ==
    \E u \in accounts' \ accounts, s \in sessions' \ sessions :
        /\ u.id = r
        /\ \A a \in accounts : a.email # u.email
        /\ Opens(s, r, r)
        /\ accounts' = accounts \cup {u}
        /\ sessions' = sessions \cup {s}
        /\ events' = events \cup {NewEvent(r, TopicUserCreated, r),
                                  NewEvent(r, TopicSessionCreated, r)}

OpenSession(r) ==
    \E u \in accounts, s \in sessions' \ sessions :
        /\ Opens(s, r, u.id)
        /\ sessions' = sessions \cup {s}
        /\ events' = events \cup {NewEvent(r, TopicSessionCreated, r)}
        /\ accounts' = accounts

\* The first revocation dates the session; a later one only announces itself.
Revoke(r) ==
    \E s \in sessions, t \in sessions' :
        /\ t = [s EXCEPT !.revoked = t.revoked]
        /\ t.revoked # NULL
        /\ s.revoked # NULL => t = s
        /\ sessions' = (sessions \ {s}) \cup {t}
        /\ events' = events \cup {NewEvent(r, TopicSessionRevoked, s.id)}
        /\ accounts' = accounts

LedgerNext == \E r \in Requests : Register(r) \/ OpenSession(r) \/ Revoke(r)

LedgerSpec == LedgerInit /\ [][LedgerNext]_ledger
=============================================================================
