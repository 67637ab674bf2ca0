----------------------------- MODULE Idempotency -----------------------------
(***************************************************************************)
(* The idempotency stores of the daemon (crates/bitty-daemon/src/          *)
(* idempotency.rs) as operators: a store is the sequence of its entries,   *)
(* oldest first, which is the map and the insertion order of the code in   *)
(* one.  There is one store per session and one for session.create.        *)
(*                                                                         *)
(* A request names its key, what it asks for (`call`: method, target and   *)
(* fingerprint, compared as a whole) and its connection.  The byte bound   *)
(* and the key bound of a store are one bound, its capacity.  The sequence *)
(* number that ties a reservation to its entry is left out: a reservation  *)
(* is completed by the handler that made it, before any other runs.        *)
(***************************************************************************)
EXTENDS Integers, Sequences, SequencesExt

CONSTANTS
    Key,                \* idempotency keys
    Conn,               \* connections
    NoConn,             \* the entry replays on every connection
    NoResult            \* an entry that applied nothing

\* "live" and "terminal" are applied entries.  `retire_session` on the create
\* store would turn the first into the second; the service never calls it.
EntryState == {"in_flight", "refused", "live", "terminal"}
AppliedState == {"live", "terminal"}

Entries(store) == ToSet(store)
KeysOf(store) == {e.key : e \in Entries(store)}
EntryOf(store, k) == CHOOSE e \in Entries(store) : e.key = k

\* Mutant of Retirable: whatever is no longer in flight.
Completed(e) == e.state # "in_flight"

\* The retention floor of an entry has passed: `aged`.
Retirable(e) == e.state = "refused" \/ (e.state = "terminal" /\ e.aged)

EvictOldest(store) ==
    LET at == CHOOSE i \in DOMAIN store :
                /\ Retirable(store[i])
                /\ \A j \in 1 .. i - 1 : ~Retirable(store[j])
    IN RemoveAt(store, at)

Reserved(k, call, c) ==
    [key |-> k, call |-> call, conn |-> c, state |-> "in_flight",
     result |-> NoResult, claimed |-> FALSE, aged |-> FALSE]

Decision(verdict, store) == [verdict |-> verdict, store |-> store]

\* `begin`.  A create result is replayed on any connection: no connection is
\* kept for it.
Begin(store, capacity, k, call, c) ==
    IF k \in KeysOf(store)
    THEN LET e == EntryOf(store, k)
             verdict == IF e.call # call THEN "conflict"
                        ELSE IF e.conn # c THEN "other_connection"
                        ELSE IF e.state = "in_flight" THEN "in_flight" ELSE "replay"
         IN Decision(verdict, store)
    ELSE CASE Len(store) < capacity ->
                Decision("execute", Append(store, Reserved(k, call, c)))
           [] Len(store) >= capacity /\ (\E e \in Entries(store) : Retirable(e)) ->
                Decision("execute", Append(EvictOldest(store), Reserved(k, call, c)))
           [] OTHER -> Decision("capacity", store)

\* The store with entry e for its key.
Updated(store, e) == [i \in DOMAIN store |-> IF store[i].key = e.key THEN e ELSE store[i]]

\* `complete`, for an outcome that applied nothing and for one that did.
Refuse(store, k) == Updated(store, [EntryOf(store, k) EXCEPT !.state = "refused"])
Apply(store, k, result) ==
    Updated(store, [EntryOf(store, k) EXCEPT !.state = "live", !.result = result])

MarkControlClaimed(store, k) ==
    LET e == EntryOf(store, k)
    IN IF e.state \in AppliedState THEN Updated(store, [e EXCEPT !.claimed = TRUE]) ELSE store
=============================================================================
