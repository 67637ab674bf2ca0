------------------------------- MODULE EventBus -------------------------------
(***************************************************************************)
(* The delivery state of one session                                       *)
(* (src/crates/bitty-daemon/src/events/bus.rs, lease.rs, backlog.rs): the   *)
(* retained ring, one bounded queue per attached lease and the pinned       *)
(* terminal event.  The operations are operators on that state; the        *)
(* service loop that calls them is the module Delivery.                     *)
(*                                                                         *)
(* Abstracted: every frame is accounted the same size in the code          *)
(* (Event::accounted_bytes is a constant), so the event and the byte bound  *)
(* of a queue or of the ring are one bound, counted in frames.  A frame is  *)
(* its kind and revision; the envelope, the detail and the terminal marker  *)
(* are left out.                                                           *)
(***************************************************************************)
EXTENDS Integers, Sequences, FiniteSets, FiniteSetsExt

CONSTANTS
    AttachId,   \* lease handles
    QueueCap,   \* max_lease_queue_events
    RingCap     \* max_event_backlog_events

ASSUME BusAssumption ==
    /\ IsFiniteSet(AttachId)
    /\ QueueCap \in Nat \ {0}
    /\ RingCap \in Nat \ {0}

Kind == {"session_state", "session_terminal", "lease_revoked", "daemon_stopping"}
Frame == [kind : Kind, revision : Nat]

\* The kinds that announce a revision of their own; lease_revoked and
\* daemon_stopping repeat the current one.
Announces(frame) == frame.kind \in {"session_state", "session_terminal"}

\* SessionEvents, with its presence in the bus: `pending` is the set of the
\* terminal pin, empty when nothing is pinned.
Untracked == [tracked |-> FALSE, revision |-> 0, terminalized |-> FALSE, ring |-> <<>>,
              leases |-> {}, queue |-> [a \in AttachId |-> <<>>], pending |-> {}]

Bus == [tracked : BOOLEAN, revision : Nat, terminalized : BOOLEAN, ring : Seq(Nat),
        leases : SUBSET AttachId, queue : [AttachId -> Seq(Frame)], pending : SUBSET AttachId]

\* EventBus::register
Registered == [Untracked EXCEPT !.tracked = TRUE]

-----------------------------------------------------------------------------
\* Mutant of Room: the queue bound is off by one.
RoomPastBound(q) == QueueCap + 1 - Len(q)

\* What LeaseQueue::fits leaves for further frames.
Room(q) == QueueCap - Len(q)

\* LeaseQueue::admit for one frame after the other: a frame that does not fit
\* is lost, and so is every later one.
Admitted(q, frames) == q \o SubSeq(frames, 1, Min({Len(frames), Room(q)}))

\* The leases that lose one of the next n frames.
Losing(b, n) == {a \in b.leases : n > Room(b.queue[a])}

Offer(b, frames) ==
    [b EXCEPT !.queue = [a \in AttachId |->
                           IF a \in b.leases THEN Admitted(@[a], frames) ELSE @[a]]]

\* The canonical frames of the revisions after b.revision up to `revision`.
FramesUpTo(b, revision, kind) ==
    [i \in 1 .. (revision - b.revision) |->
        [kind |-> IF b.revision + i = revision THEN kind ELSE "session_state",
         revision |-> b.revision + i]]

\* Backlog::append and trim: the newest RingCap revisions are kept.
Retain(ring, frames) ==
    LET all == ring \o [i \in DOMAIN frames |-> frames[i].revision]
    IN SubSeq(all, Max({1, Len(all) - RingCap + 1}), Len(all))

\* EventBus::emit: announce every revision up to `revision`, the last one with
\* `kind`.  A revision that is not ahead is refused.  The terminal event pins
\* every attached lease and frees the ring.
Emit(b, revision, kind) ==
    IF ~b.tracked \/ revision <= b.revision THEN b
    ELSE LET frames == FramesUpTo(b, revision, kind)
             final == kind = "session_terminal"
         IN Offer([b EXCEPT !.revision = revision,
                            !.terminalized = @ \/ final,
                            !.ring = IF final THEN <<>> ELSE Retain(@, frames),
                            !.pending = IF final THEN b.leases ELSE @],
                  frames)

\* EventBus::emit_scoped: one frame at the current revision, no bump.
EmitScoped(b, kind) == Offer(b, <<[kind |-> kind, revision |-> b.revision]>>)

-----------------------------------------------------------------------------
\* EventBus::attach: an empty queue.
AttachLease(b, a) == [b EXCEPT !.leases = @ \cup {a}, !.queue[a] = <<>>]

\* Mutant of DetachLeases: the pin keeps waiting for a lease that left.
DetachKeepsPin(b, A) ==
    [b EXCEPT !.leases = @ \ A,
              !.queue = [a \in AttachId |-> IF a \in A THEN <<>> ELSE @[a]]]

\* EventBus::detach, for every lease of A.
DetachLeases(b, A) == [DetachKeepsPin(b, A) EXCEPT !.pending = @ \ A]

\* EventBus::drain_next until the queues of A are empty, with
\* EventBus::ack_terminal for each terminal frame taken.
Drained(b, A) ==
    LET observed == {a \in A : \E i \in DOMAIN b.queue[a] : b.queue[a][i].kind = "session_terminal"}
    IN [b EXCEPT !.queue = [a \in AttachId |-> IF a \in A THEN <<>> ELSE @[a]],
                 !.pending = @ \ observed]
=============================================================================
