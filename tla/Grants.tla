------------------------------- MODULE Grants --------------------------------
(***************************************************************************)
(* The grant store of the daemon (crates/bitty-daemon/src/service/         *)
(* grants.rs) as operators over `table`, a function from grant ids to      *)
(* records.  A host grant is the consent to create sessions and belongs to *)
(* no session; an observer grant admits one observer to one session.       *)
(* Every peer has the uid of the daemon, and the correlation digest of a   *)
(* bearer is part of what makes it unusable elsewhere: a bearer presented  *)
(* by the wrong connection is an unknown bearer, which is a refusal.       *)
(***************************************************************************)
EXTENDS Integers, FiniteSets

CONSTANTS
    Session,
    HostGrant,          \* ids of host grants
    ObserverGrant,      \* ids of observer grants
    NoGrant,            \* no record, no id
    HostSession,        \* the session of a host grant: none
    HostCap,            \* max_host
    ObserverCap,        \* max_observer_per_session
    GrantCap            \* MAX_GRANT_RECORDS

Grant == HostGrant \cup ObserverGrant

GrantRecord ==
    [session : Session \cup {HostSession},
     state : {"unused", "consumed", "revoked"},
     expired : BOOLEAN]
Tables == [Grant -> GrantRecord \cup {NoGrant}]

ASSUME GrantAssumption ==
    /\ HostGrant \cap ObserverGrant = {}
    /\ HostSession \notin Session
    /\ NoGrant \notin Grant /\ NoGrant \notin GrantRecord

EmptyTable == [g \in Grant |-> NoGrant]
Known(table) == {g \in Grant : table[g] # NoGrant}
Active(rec) == rec.state = "unused" /\ ~rec.expired
ActiveIn(table, s) ==
    {g \in Known(table) : table[g].session = s /\ Active(table[g])}

\* A consumed host grant still backs the connection that consumed it.
HostBound(table, g) ==
    g \in Known(table) /\ table[g].state # "revoked" /\ ~table[g].expired

\* `evict_expired`: an observer grant goes when it can no longer be used, a
\* host grant when it expires.
Kept(table) ==
    {g \in Known(table) :
       IF g \in HostGrant THEN ~table[g].expired ELSE Active(table[g])}
Evicted(table) == [g \in Grant |-> IF g \in Kept(table) THEN table[g] ELSE NoGrant]

\* Sessions one of whose grants expired without having been used or revoked:
\* `expired_sessions`.
Lapsed(table) ==
    {table[g].session : g \in {h \in Known(table) \cap ObserverGrant :
                                 table[h].state = "unused" /\ table[h].expired}}

\* `mint`: the cap of the kind counts active grants and is checked first, the
\* cap of the table after the sweep.
CapOf(s) == IF s = HostSession THEN HostCap ELSE ObserverCap
Mintable(table, s) ==
    /\ Cardinality(ActiveIn(table, s)) < CapOf(s)
    /\ Cardinality(Kept(table)) < GrantCap
Minted(table, g, s) ==
    [Evicted(table) EXCEPT ![g] = [session |-> s, state |-> "unused", expired |-> FALSE]]

\* A refusal by the table's cap has swept; one by the kind's cap has not.
RefusedMint(table, s) ==
    IF Cardinality(ActiveIn(table, s)) < CapOf(s) THEN Evicted(table) ELSE table

Consumed(table, g) == [table EXCEPT ![g].state = "consumed"]

\* `revoke_kind`: a consumed host grant can be revoked until it expires.
Revocable(table, g) ==
    /\ g \in Known(table)
    /\ \/ Active(table[g])
       \/ g \in HostGrant /\ table[g].state = "consumed" /\ ~table[g].expired
Revoked(table, g) == [table EXCEPT ![g].state = "revoked"]
=============================================================================
