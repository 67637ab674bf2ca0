------------------------------ MODULE Admission ------------------------------
(***************************************************************************)
(* How the service admits a request (crates/bitty-daemon/src/service/      *)
(* dispatch.rs): the idempotency key that makes a retry a replay, the      *)
(* single-use grant that authorises it and the audit sink that must be     *)
(* writable before it takes effect.  Composes Idempotency, Grants and      *)
(* AuditSink.                                                              *)
(*                                                                         *)
(* The service is single threaded and a handler is one action.  A client   *)
(* may send any request again, over any connection: whether an answer was  *)
(* lost makes no difference here.  A request that is refused before it     *)
(* touches a store or a grant, and a replay, change nothing but the sink:  *)
(* Refusal stands for all of them.                                         *)
(*                                                                         *)
(* Of the session host the module keeps the life of a session and who      *)
(* holds its control:                                                      *)
(*   "initial"   vacant, the token is the one create issued;               *)
(*   "vacant"    vacant, the token has changed since;                      *)
(*   "held"      by the lease of some connection;                          *)
(*   "revoked"   vacant for good (SessionHost).                            *)
(* What the host refuses for reasons of its own it may refuse at any time. *)
(* Leases, revisions and events are SessionHost's and Delivery's subjects: *)
(* a revision caused by a grant appears as the set of grants `announced`,  *)
(* and revision counters do not run out here.                              *)
(***************************************************************************)
EXTENDS Idempotency, Grants, AuditSink

CONSTANTS
    NoKey,              \* no create key is remembered
    CreateCall,         \* what a create may ask for
    CreateCapacity,     \* max_create_idempotency_keys
    SessionCapacity,    \* max_idempotency_keys_per_session
    CreateScope         \* the store of session.create; every session has its own

ASSUME StoreAssumption ==
    /\ CreateCapacity \in Nat /\ SessionCapacity \in Nat
    /\ CreateScope \notin Session /\ NoKey \notin Key

VARIABLES
    life,               \* life of each session
    control,            \* who holds control of it
    keys,               \* idempotency store of every scope
    createKey,          \* initial_tokens and create_key_by_session: same domain
    named,              \* observer_grant_ids: full ids for a replay
    table,              \* GrantStore::grants
    lapsed,             \* GrantStore::expired_sessions
    consent,            \* host grant of each connection
    sink,               \* AuditSink
    used,               \* history: keys that took effect
    minted,             \* history: session of every observer grant
    announced,          \* history: observer grants whose end has a revision
    admissions          \* history: how often a grant admitted somebody

sessions == <<life, control, createKey, named>>
grants == <<table, lapsed, consent, minted, announced, admissions>>
vars == <<sessions, keys, grants, sink, used>>

SessionCall == {"attach", "grant", "transfer"}
Scope == Session \cup {CreateScope}
Slots == Scope \X Key
Capacity(x) == IF x = CreateScope THEN CreateCapacity ELSE SessionCapacity
Exists(s) == life[s] \in {"live", "terminal"}

-----------------------------------------------------------------------------
(* The audited, keyed handler.                                             *)

\* An admitted mutation, and one the sink refuses: dispatch records a refusal
\* of every handler.
Admits(after) == \E a \in Admit(sink) : a.ok /\ sink' \in Record(a.sink, after)
AdmissionFails == \E a \in Admit(sink) : ~a.ok /\ sink' \in Record(a.sink, "other")

\* Admitted, then refused by the handler that also recorded it itself.
RefusedTwice ==
    \E a \in Admit(sink) :
        a.ok /\ \E s \in Record(a.sink, "other") : sink' \in Record(s, "other")
RefusedOnce == Admits("other")

\* The key of a request that is to be executed, refused or applied.
Executes(x, k, call, c) == Begin(keys[x], Capacity(x), k, call, c).verdict = "execute"
Reservation(x, k, call, c) == Begin(keys[x], Capacity(x), k, call, c).store

RefuseKey(x, k, call, c) ==
    /\ keys' = [keys EXCEPT ![x] = Refuse(Reservation(x, k, call, c), k)]
    /\ UNCHANGED used

\* The effect takes place and the key remembers it.  `claims` are the sessions
\* whose control it claims: mark_control_claimed on their create keys.
Claimed(store, claims) ==
    [i \in DOMAIN store |->
       IF \E s \in claims : createKey[s] = store[i].key
       THEN MarkControlClaimed(store, store[i].key)[i] ELSE store[i]]

ApplyKey(x, k, call, c, result, claims) ==
    LET applied == [keys EXCEPT ![x] = Apply(Reservation(x, k, call, c), k, result)]
    IN /\ keys' = [applied EXCEPT ![CreateScope] = Claimed(@, claims)]
       /\ used' = used \cup {<<x, k>>}

\* A refusal before any store or grant is touched, or a replay.
Refusal ==
    /\ sink' \in Record(sink, "other") \/ AdmissionFails
    /\ UNCHANGED <<sessions, keys, grants, used>>

\* A keyless mutation of something that is not modelled here.
Mutate ==
    /\ Admits("applied")
    /\ UNCHANGED <<sessions, keys, grants, used>>

-----------------------------------------------------------------------------
(* session.create.                                                         *)

Consents(c) == HostBound(table, consent[c])

CreateRefused(c, k, call) ==
    /\ Consents(c)
    /\ Executes(CreateScope, k, call, NoConn)
    /\ RefuseKey(CreateScope, k, call, NoConn)
    /\ AdmissionFails \/ RefusedTwice
    /\ UNCHANGED <<sessions, grants>>

\* A session whose spawn failed is answered as created, and terminal: the state
\* of the service was retired before its key is completed.
Create(c, k, call, s) ==
    /\ Consents(c) /\ life[s] = "unused"
    /\ Executes(CreateScope, k, call, NoConn)
    /\ ApplyKey(CreateScope, k, call, NoConn, s, {})
    /\ \/ /\ life' = [life EXCEPT ![s] = "live"]
          /\ createKey' = [createKey EXCEPT ![s] = k]
       \/ /\ life' = [life EXCEPT ![s] = "terminal"]
          /\ UNCHANGED createKey
    /\ Admits("applied")
    /\ UNCHANGED <<control, named, grants>>

-----------------------------------------------------------------------------
(* Control: attach as controller, transfer, loss.                          *)

\* A former leaseholder may still present a key at a terminal session.
KeyRefused(c, s, k, call) ==
    /\ IF call = "attach" THEN Exists(s) ELSE life[s] = "live"
    /\ Executes(s, k, call, c)
    /\ RefuseKey(s, k, call, c)
    /\ \/ AdmissionFails
       \/ call = "attach" /\ RefusedTwice
       \/ call = "transfer" /\ RefusedOnce
    /\ UNCHANGED <<sessions, grants>>

\* Mutant of ClaimControl: the initial token stays with the service.
ClaimControlKeepsToken(s) ==
    /\ control' = [control EXCEPT ![s] = "held"]
    /\ UNCHANGED <<life, createKey, named>>

\* Control moves with a fresh token: the one create issued is forgotten.
ClaimControl(s) ==
    /\ control' = [control EXCEPT ![s] = "held"]
    /\ createKey' = [createKey EXCEPT ![s] = NoKey]
    /\ UNCHANGED <<life, named>>

AttachController(c, s, k) ==
    /\ life[s] = "live" /\ control[s] \in {"initial", "vacant"}
    /\ Executes(s, k, "attach", c)
    /\ ApplyKey(s, k, "attach", c, NoResult, {s})
    /\ ClaimControl(s)
    /\ Admits("applied")
    /\ UNCHANGED grants

\* By the controller, or with the token while control is vacant.
Transfer(c, s, k) ==
    /\ life[s] = "live" /\ control[s] # "revoked"
    /\ Executes(s, k, "transfer", c)
    /\ ApplyKey(s, k, "transfer", c, NoResult, {s})
    /\ ClaimControl(s)
    /\ Admits("applied")
    /\ UNCHANGED grants

\* The controller's lease ends: detached (by itself or, which revokes control,
\* by an operator), or expired or closed, which nobody asked the sink about.
ReleaseControl(s) ==
    /\ life[s] = "live" /\ control[s] = "held"
    /\ \/ control' = [control EXCEPT ![s] = "vacant"] /\ (Admits("applied") \/ UNCHANGED sink)
       \/ control' = [control EXCEPT ![s] = "revoked"] /\ Admits("applied")
    /\ UNCHANGED <<life, createKey, named, keys, grants, used>>

-----------------------------------------------------------------------------
(* The end of a session: retire_session and collect_retained.              *)

Retire(s) ==
    /\ keys' = [keys EXCEPT ![s] = <<>>, ![CreateScope] = Claimed(@, {s})]
    /\ createKey' = [createKey EXCEPT ![s] = NoKey]
    /\ named' = [named EXCEPT ![s] = <<>>]

\* The worker exits, or a stop that finds none completes at once.
EndSession(s) ==
    /\ life[s] = "live"
    /\ life' = [life EXCEPT ![s] = "terminal"]
    /\ Retire(s)
    /\ Admits("applied") \/ UNCHANGED sink
    /\ UNCHANGED <<control, grants, used>>

CollectRetained(s) ==
    /\ life[s] = "terminal"
    /\ life' = [life EXCEPT ![s] = "collected"]
    /\ Retire(s)
    /\ UNCHANGED <<control, grants, used, sink>>

\* create_idempotency_ttl_ms has passed since the key of a session that is
\* over was inserted; for the key of a live session it makes no difference.
FloorPasses(k) ==
    /\ k \in KeysOf(keys[CreateScope])
    /\ LET e == EntryOf(keys[CreateScope], k)
       IN /\ e.state \in AppliedState /\ ~e.aged /\ life[e.result] # "live"
          /\ keys' = [keys EXCEPT ![CreateScope] = Updated(@, [e EXCEPT !.aged = TRUE])]
    /\ UNCHANGED <<sessions, grants, sink, used>>

-----------------------------------------------------------------------------
(* Grants.                                                                 *)

\* Evicting notes the sessions whose grants lapsed; the sweep of the loop gives
\* each live one a revision.
Evict == lapsed' = lapsed \cup Lapsed(table)
Gone(t, s) == {g \in ObserverGrant : minted[g] = s /\ g \notin Known(t)}

\* Mutant of MintObserver: the sweep of a mint forgets the lapsed sessions.
MintObserverForgets(c, s, k, g) ==
    /\ life[s] = "live" /\ minted[g] = HostSession
    /\ Executes(s, k, "grant", c) /\ Mintable(table, s)
    /\ ApplyKey(s, k, "grant", c, g, {})
    /\ table' = Minted(table, g, s)
    /\ minted' = [minted EXCEPT ![g] = s]
    /\ named' = [named EXCEPT ![s] = Append(@, g)]
    /\ Admits("applied")
    /\ UNCHANGED <<life, control, createKey, lapsed, consent, announced, admissions>>

\* session.grant, keyed.  The full id is remembered for a replay, as many as
\* the store has room for keys.
Remember(ids, g) ==
    LET all == Append(ids, g)
    IN IF Len(all) > SessionCapacity THEN Tail(all) ELSE all

MintObserver(c, s, k, g) ==
    /\ life[s] = "live" /\ minted[g] = HostSession
    /\ Executes(s, k, "grant", c) /\ Mintable(table, s)
    /\ ApplyKey(s, k, "grant", c, g, {})
    /\ Evict
    /\ table' = Minted(table, g, s)
    /\ minted' = [minted EXCEPT ![g] = s]
    /\ named' = [named EXCEPT ![s] = Remember(@, g)]
    /\ Admits("applied")
    /\ UNCHANGED <<life, control, createKey, consent, announced, admissions>>

MintObserverRefused(c, s, k) ==
    /\ life[s] = "live"
    /\ Executes(s, k, "grant", c) /\ ~Mintable(table, s)
    /\ RefuseKey(s, k, "grant", c)
    /\ table' = RefusedMint(table, s)
    /\ lapsed' = IF table' = table THEN lapsed ELSE lapsed \cup Lapsed(table)
    /\ RefusedOnce
    /\ UNCHANGED <<sessions, consent, minted, announced, admissions>>

\* session.grant.revoke, keyless.
RevokeObserver(g) ==
    /\ g \in Known(table) \cap ObserverGrant
    /\ life[table[g].session] = "live"
    /\ IF Revocable(table, g)
       THEN /\ table' = Revoked(table, g)
            /\ announced' = announced \cup {g}
            /\ Admits("applied")
       ELSE UNCHANGED <<table, announced>> /\ RefusedOnce
    /\ UNCHANGED <<sessions, keys, lapsed, consent, minted, admissions, used>>

\* Mutant of AttachObserver: the grant is consumed before the host is asked.
AttachObserverConsumes(s, g) ==
    /\ g \in ActiveIn(table, s) \cap ObserverGrant
    /\ table' = Consumed(table, g)
    /\ announced' = announced \cup {g}
    /\ \/ /\ life[s] = "live"
          /\ admissions' = [admissions EXCEPT ![g] = @ + 1]
          /\ Admits("applied")
       \/ UNCHANGED admissions /\ RefusedOnce
    /\ UNCHANGED <<sessions, keys, lapsed, consent, minted, used>>

\* session.attach as observer: validate, admit, attach, consume.
AttachObserver(s, g) ==
    /\ g \in ActiveIn(table, s) \cap ObserverGrant
    /\ \/ /\ life[s] = "live"
          /\ table' = Consumed(table, g)
          /\ announced' = announced \cup {g}
          /\ admissions' = [admissions EXCEPT ![g] = @ + 1]
          /\ Admits("applied")
       \/ /\ Exists(s)
          /\ UNCHANGED <<table, announced, admissions>>
          /\ RefusedOnce
    /\ UNCHANGED <<sessions, keys, lapsed, consent, minted, used>>

MintHost(g) ==
    /\ \/ /\ admissions[g] = 0 /\ g \notin Known(table)
          /\ Mintable(table, HostSession)
          /\ table' = Minted(table, g, HostSession)
          /\ Evict
          /\ Admits("applied")
       \/ /\ ~Mintable(table, HostSession)
          /\ table' = RefusedMint(table, HostSession)
          /\ lapsed' = IF table' = table THEN lapsed ELSE lapsed \cup Lapsed(table)
          /\ RefusedOnce
    /\ UNCHANGED <<sessions, keys, consent, minted, announced, admissions, used>>

RevokeHost(g) ==
    /\ Revocable(table, g)
    /\ table' = Revoked(table, g)
    /\ Admits("applied")
    /\ UNCHANGED <<sessions, keys, lapsed, consent, minted, announced, admissions, used>>

\* daemon.negotiate consumes the host grant it is given, and is recorded
\* without having been admitted.
Negotiate(c, g) ==
    /\ consent[c] = NoGrant
    /\ g \in Known(table) /\ Active(table[g])
    /\ table' = Consumed(table, g)
    /\ consent' = [consent EXCEPT ![c] = g]
    /\ admissions' = [admissions EXCEPT ![g] = @ + 1]
    /\ sink' \in Record(sink, "other")
    /\ UNCHANGED <<sessions, keys, lapsed, minted, announced, used>>

Disconnect(c) ==
    /\ consent[c] # NoGrant
    /\ consent' = [consent EXCEPT ![c] = NoGrant]
    /\ UNCHANGED <<sessions, keys, table, lapsed, minted, announced, admissions, sink, used>>

Expire(g) ==
    /\ g \in Known(table) /\ ~table[g].expired
    /\ table' = [table EXCEPT ![g].expired = TRUE]
    /\ UNCHANGED <<sessions, keys, lapsed, consent, minted, announced, admissions, sink, used>>

\* sweep_grants, on the tick of the loop.
SweepGrants ==
    /\ Known(table) # Kept(table) \/ lapsed # {}
    /\ table' = Evicted(table)
    /\ lapsed' = {}
    /\ announced' = announced \cup
         UNION {Gone(table', s) : s \in {x \in lapsed \cup Lapsed(table) : life[x] = "live"}}
    /\ UNCHANGED <<sessions, keys, consent, minted, admissions, sink, used>>

-----------------------------------------------------------------------------
Init ==
    /\ life = [s \in Session |-> "unused"]
    /\ control = [s \in Session |-> "initial"]
    /\ keys = [x \in Scope |-> <<>>]
    /\ createKey = [s \in Session |-> NoKey]
    /\ named = [s \in Session |-> <<>>]
    /\ table = EmptyTable
    /\ lapsed = {}
    /\ consent = [c \in Conn |-> NoGrant]
    /\ sink = EmptySink
    /\ used = {}
    /\ minted = [g \in Grant |-> HostSession]
    /\ announced = {}
    /\ admissions = [g \in Grant |-> 0]

KeyedSession(s) ==
    \E c \in Conn, k \in Key :
        \/ AttachController(c, s, k) \/ Transfer(c, s, k) \/ MintObserverRefused(c, s, k)
        \/ \E call \in SessionCall : KeyRefused(c, s, k, call)
        \/ \E g \in ObserverGrant : MintObserver(c, s, k, g)

Next ==
    \/ Refusal \/ Mutate \/ SweepGrants
    \/ \E c \in Conn : Disconnect(c) \/ \E g \in HostGrant : Negotiate(c, g)
    \/ \E c \in Conn, k \in Key, call \in CreateCall :
         CreateRefused(c, k, call) \/ \E s \in Session : Create(c, k, call, s)
    \/ \E k \in Key : FloorPasses(k)
    \/ \E s \in Session :
         \/ KeyedSession(s) \/ ReleaseControl(s) \/ EndSession(s) \/ CollectRetained(s)
         \/ \E g \in ObserverGrant : AttachObserver(s, g)
    \/ \E g \in ObserverGrant : RevokeObserver(g)
    \/ \E g \in HostGrant : MintHost(g) \/ RevokeHost(g)
    \/ \E g \in Grant : Expire(g)

Spec == Init /\ [][Next]_vars

-----------------------------------------------------------------------------
EntryType ==
    [key : Key, call : SessionCall \cup CreateCall, conn : Conn \cup {NoConn},
     state : EntryState, result : Session \cup ObserverGrant \cup {NoResult},
     claimed : BOOLEAN, aged : BOOLEAN]

\* Every store, table and buffer within its bound, and no reservation left
\* behind by a handler.
TypeOK ==
    /\ life \in [Session -> {"unused", "live", "terminal", "collected"}]
    /\ control \in [Session -> {"initial", "vacant", "held", "revoked"}]
    /\ \A x \in Scope :
         /\ Len(keys[x]) <= Capacity(x)
         /\ Entries(keys[x]) \subseteq EntryType
         /\ Cardinality(KeysOf(keys[x])) = Len(keys[x])
         /\ \A e \in Entries(keys[x]) : e.state # "in_flight"
    /\ createKey \in [Session -> Key \cup {NoKey}]
    /\ \A s \in Session : named[s] \in BoundedSeq(ObserverGrant, SessionCapacity)
    /\ table \in Tables
    /\ Cardinality(Known(table)) <= GrantCap
    /\ lapsed \subseteq Session
    /\ consent \in [Conn -> HostGrant \cup {NoGrant}]
    /\ sink \in Sinks
    /\ used \subseteq Slots
    /\ minted \in [Grant -> Session \cup {HostSession}]
    /\ announced \subseteq ObserverGrant
    /\ admissions \in [Grant -> 0 .. 2]

(***************************************************************************)
(* idempotency.rs: "the executor does not run twice", through evictions,   *)
(* refusals, retries of either and the end of the session.  `outcome` is   *)
(* what the stores and the effects say of a key; an effect whose key is    *)
(* free again, or remembers a refusal, while the session lives is no       *)
(* outcome at all.                                                         *)
(***************************************************************************)
Remembered(x, k) == IF k \in KeysOf(keys[x]) THEN EntryOf(keys[x], k).state ELSE "none"
Outcome(x, k) ==
    LET state == Remembered(x, k)
        over == x \in Session /\ life[x] # "live"
    IN CASE <<x, k>> \in used /\ state \in AppliedState -> "applied"
         [] <<x, k>> \in used /\ state \notin AppliedState /\ over -> "spent"
         [] <<x, k>> \notin used /\ state \in {"none", "refused"} -> state
         [] OTHER -> "broken"

Promise == INSTANCE AtMostOnce
             WITH Slot <- Slots, outcome <- [slot \in Slots |-> Outcome(slot[1], slot[2])]
AppliesAtMostOnce == Promise!Spec

\* dispatch.rs, create_replay and session_grant: a replayed create hands out
\* the control token exactly while it is the session's current token and
\* control was never claimed, and a replayed mint still knows its grant.
ReplaysResolve ==
    /\ \A s \in Session : createKey[s] # NoKey =>
         /\ life[s] = "live" /\ control[s] = "initial"
         /\ \E e \in Entries(keys[CreateScope]) :
              e.key = createKey[s] /\ e.result = s /\ e.state = "live" /\ ~e.claimed
    /\ \A e \in Entries(keys[CreateScope]) :
         e.state \in AppliedState /\ life[e.result] = "live" =>
           /\ e.claimed <=> control[e.result] # "initial"
           /\ e.claimed <=> createKey[e.result] # e.key
    /\ \A s \in Session : \A e \in Entries(keys[s]) :
         e.call = "grant" /\ e.state \in AppliedState => e.result \in ToSet(named[s])

\* grants.rs: a grant admits one observer or one connection, and is consumed
\* by exactly that: "a refused attach does not burn it".
SingleUse ==
    /\ \A g \in Grant : admissions[g] <= 1
    /\ \A g \in Known(table) :
         /\ table[g].state = "consumed" => admissions[g] = 1
         /\ table[g].state = "unused" => admissions[g] = 0
    /\ \A c, d \in Conn : c # d /\ consent[c] # NoGrant => consent[c] # consent[d]

\* dispatch.rs, sweep_grants (D-03): the end of an observer grant is visible as
\* a revision of its live session, whichever sweep drops the record.
GrantEndsAnnounced ==
    \A g \in ObserverGrant : minted[g] # HostSession /\ life[minted[g]] = "live" =>
        IF g \in Known(table)
        THEN table[g].state = "unused" \/ g \in announced
        ELSE g \in announced \/ minted[g] \in lapsed

\* audit_sink.rs: the record of an admitted mutation is written or waits in the
\* batch that is retried, never in the ring, which drops; and what waits shows
\* as `audit_degraded`.
AppliedIsAudited ==
    /\ "applied" \notin ToSet(sink.ring)
    /\ Pending(sink) # <<>> => sink.degraded

\* idempotency.rs: at capacity the store evicts "a create key whose session is
\* terminal and whose retention floor has passed".
TerminalKeysYield ==
    (/\ Len(keys[CreateScope]) = CreateCapacity
     /\ \E e \in Entries(keys[CreateScope]) :
          e.state \in AppliedState /\ life[e.result] # "live" /\ e.aged)
    => \E e \in Entries(keys[CreateScope]) : Retirable(e)
=============================================================================
