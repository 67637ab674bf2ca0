------------------------------- MODULE Delivery -------------------------------
(***************************************************************************)
(* The served loop of bittyd and the delivery of session events            *)
(* (src/crates/bitty-daemon/src/service/server.rs, service/dispatch.rs,     *)
(* service/protocol.rs), over the per-session buses of EventBus.           *)
(*                                                                         *)
(* The loop is single threaded.  A turn of a connection reads frames, each *)
(* followed by a delivery pass, then writes; between turns run the ticks   *)
(* (supervision, grant sweep, collection) and the timers.  The order of    *)
(* the turns of one iteration, which the poll decides, is arbitrary.       *)
(*                                                                         *)
(* Abstracted: the session host (module SessionHost) is reduced to what    *)
(* the delivery reads of it, its lifecycle, revision and lease table; who  *)
(* is authorised is decided there, so a request here names its effect.     *)
(* Every encoded frame or reply is one unit of the outbound buffer.        *)
(* Accept stands for accept and handshake: before it a connection holds no *)
(* lease.  Terminal content frames, audit and rate limits are left out.    *)
(***************************************************************************)
EXTENDS EventBus

CONSTANTS
    Session,        \* session ids
    Conn,           \* connection slots
    NoSession,      \* absence of a session
    NoConn,         \* absence of a connection
    MaxRetained,    \* max_retained_terminal_records
    OutCap,         \* max_connection_outbound_bytes, in frames
    OptIn,          \* bound: the opt-ins to events that the clients send
    MaxRevision     \* bound: the revision past which no request is sent

ASSUME DeliveryAssumption ==
    /\ IsFiniteSet(Session)
    /\ NoSession \notin Session
    /\ NoConn \notin Conn
    /\ MaxRetained \in Nat \ {0}
    /\ OutCap \in Nat \ {0}
    /\ OptIn \subseteq BOOLEAN
    /\ MaxRevision \in Nat

VARIABLES
    host,           \* the session host, per session
    retained,       \* terminal records, oldest first
    bus,            \* EventBus::sessions
    closedLeases,   \* Service::closed_leases
    finals,         \* Service::pending_frames
    peer,           \* PeerIo and its Connection
    turn,           \* the connection the loop is at
    daemon,         \* DaemonState, and whether the loop has returned
    sessionOf,      \* history: the session a handle was issued for
    view            \* history: what the connection of a handle has been handed

serviceVars == <<host, retained, bus, closedLeases, finals, sessionOf>>
vars == <<serviceVars, peer, turn, daemon, view>>

-----------------------------------------------------------------------------
HostState == [life : {"absent", "live", "terminal", "gone"}, revision : Nat,
              leases : SUBSET AttachId, expired : SUBSET AttachId]
Absent == [life |-> "absent", revision |-> 0, leases |-> {}, expired |-> {}]

Peer == [phase : {"gone", "open", "retired", "closed"}, events : BOOLEAN,
         owned : SUBSET AttachId, finals : Nat, output : Nat,
         deadline : {"none", "armed", "passed"}]
NoPeer == [phase |-> "gone", events |-> FALSE, owned |-> {}, finals |-> 0,
           output |-> 0, deadline |-> "none"]
Opened(events) == [NoPeer EXCEPT !.phase = "open", !.events = events]

\* Mutant of Retire: the connection is not marked to close after its writes.
RetireForgotten(p) == p

\* PeerIo::retire, PeerIo::close
Retire(p) == [p EXCEPT !.phase = "retired"]
Shut(p) == [p EXCEPT !.phase = "closed", !.output = 0]

Idle == [stage |-> "idle", peer |-> NoConn]
Turn(c, stage) == [stage |-> stage, peer |-> c]

Open(c) == peer[c].phase = "open"
Connected(c) == peer[c].phase \in {"open", "retired"}
Owner(a) == {c \in Conn : a \in peer[c].owned}

-----------------------------------------------------------------------------
(* One session as the handlers see it: its host state, its bus and the     *)
(* leases closed for lost frames on the way.                               *)

At(s) == [host |-> host[s], bus |-> bus[s], lost |-> {}]
IsLive(l) == l.host.life = "live"

\* The leases of A that SessionHost::detach would remove.
Detachable(l, A) == IF IsLive(l) THEN (A \cap l.host.leases) \ l.host.expired ELSE {}

HostDetach(l, A) ==
    [l EXCEPT !.host.leases = @ \ Detachable(l, A),
              !.host.revision = @ + Cardinality(Detachable(l, A))]

\* SessionHost sweep: expired leases leave the table, one revision each.
HostSweep(l, A) ==
    [l EXCEPT !.host.leases = @ \ A, !.host.expired = @ \ A,
              !.host.revision = @ + Cardinality(A)]

HostBump(l, n) == [l EXCEPT !.host.revision = @ + n]

\* SessionHost::finish_terminal after `bumps` revisions of the stop itself.
HostTerminate(l, bumps) ==
    [l EXCEPT !.host = [life |-> "terminal", leases |-> {}, expired |-> {},
                        revision |-> @.revision + bumps + Cardinality(@.leases) + 1]]

\* Service::maybe_forget_events
MaybeForget(l) ==
    IF l.bus.leases = {} /\ ~IsLive(l) THEN [l EXCEPT !.bus = Untracked] ELSE l

\* Mutant of CloseLeases: the host keeps the lease whose queue is gone.
CloseKeepsHost(l, A) ==
    MaybeForget([l EXCEPT !.bus = DetachLeases(@, A), !.lost = @ \cup A])

\* Service::close_lease_now for every lease of A.
CloseLeases(l, A) ==
    IF A = {} THEN l
    ELSE LET detached == HostDetach(l, A)
         IN MaybeForget([detached EXCEPT !.bus = DetachLeases(@, A), !.lost = @ \cup A])

\* The leases flush_events loses: a lease closed for a lost frame is detached,
\* which is one more revision the others must still take.
FlushLosses(l) ==
    LET Short(A) == Losing(l.bus, l.host.revision + Cardinality(Detachable(l, A))
                                      - l.bus.revision)
    IN {a \in l.bus.leases : \A A \in SUBSET l.bus.leases : Short(A) \subseteq A => a \in A}

\* Mutant of FlushEvents: the detach of a lost lease is not announced.
FlushOnce(l) ==
    IF l.host.life \notin {"live", "terminal"} \/ l.bus.revision >= l.host.revision THEN l
    ELSE LET kind == IF IsLive(l) THEN "session_state" ELSE "session_terminal"
         IN CloseLeases([l EXCEPT !.bus = Emit(@, l.host.revision, kind)],
                        Losing(l.bus, l.host.revision - l.bus.revision))

\* Service::flush_events: every revision of the host the bus has not announced
\* yet, the last one of a terminal record as the pinned session_terminal.
FlushEvents(l) ==
    IF l.host.life \notin {"live", "terminal"} \/ l.bus.revision >= l.host.revision THEN l
    ELSE LET lost == FlushLosses(l)
             target == l.host.revision + Cardinality(Detachable(l, lost))
             kind == IF IsLive(l) THEN "session_state" ELSE "session_terminal"
         IN CloseLeases([l EXCEPT !.bus = Emit(@, target, kind)], lost)

\* retire_session after the terminal event is reserved, as far as delivery goes.
Finish(l) == MaybeForget(FlushEvents(l))

\* publish_daemon_stopping on one session: it announces no revision.
Announce(l) == CloseLeases([l EXCEPT !.bus = EmitScoped(@, "daemon_stopping")], Losing(l.bus, 1))

Commit(s, l) ==
    /\ host' = [host EXCEPT ![s] = l.host]
    /\ bus' = [bus EXCEPT ![s] = l.bus]
    /\ closedLeases' = closedLeases \cup l.lost

\* The loop's take_closed_leases_for over every peer: the owners retire.
CommitTick(s, l) ==
    LET lost == closedLeases \cup l.lost
    IN /\ host' = [host EXCEPT ![s] = l.host]
       /\ bus' = [bus EXCEPT ![s] = l.bus]
       /\ closedLeases' = {a \in lost : \A c \in Owner(a) : ~Connected(c)}
       /\ peer' = [c \in Conn |->
                     IF Connected(c) /\ peer[c].owned \cap lost # {} THEN Retire(peer[c])
                     ELSE peer[c]]

-----------------------------------------------------------------------------
(* Terminal records and their retention.                                    *)

LiveSessions == {s \in Session : IsLive(At(s))}

Orders(S) == {order \in [1 .. Cardinality(S) -> S] : \A s \in S : \E i \in DOMAIN order : order[i] = s}

\* SessionRegistry::enforce_retention_cap after records in this order.
Kept(records) ==
    SubSeq(records, Max({1, Len(records) - MaxRetained + 1}), Len(records))
Evicted(records) ==
    {records[i] : i \in 1 .. Max({0, Len(records) - MaxRetained})}

Gone(l) == [l EXCEPT !.host = [Absent EXCEPT !.life = "gone"]]

\* Every live session of S ends as `ended` gives and its record is retained.
EndAll(order, ended) ==
    LET records == retained \o order
        Final(s) == LET l == IF \E i \in DOMAIN order : order[i] = s THEN ended[s] ELSE At(s)
                    IN IF s \in Evicted(records) THEN Gone(l) ELSE l
    IN /\ retained' = Kept(records)
       /\ host' = [s \in Session |-> Final(s).host]
       /\ bus' = [s \in Session |-> Final(s).bus]

LostOf(S, ended) == UNION {ended[s].lost : s \in S}

\* Service::spawn_failed: the record ends before anybody listened to it.
SpawnFailed == [host |-> [Absent EXCEPT !.life = "terminal", !.revision = 1],
                bus |-> Untracked, lost |-> {}]

-----------------------------------------------------------------------------
Init ==
    /\ host = [s \in Session |-> Absent]
    /\ retained = <<>>
    /\ bus = [s \in Session |-> Untracked]
    /\ closedLeases = {}
    /\ finals = [a \in AttachId |-> <<>>]
    /\ peer = [c \in Conn |-> NoPeer]
    /\ turn = Idle
    /\ daemon = "running"
    /\ sessionOf = [a \in AttachId |-> NoSession]
    /\ view = [a \in AttachId |-> [revision |-> 0, ended |-> FALSE]]

\* accept_peer, then a negotiate that opts in to events or not.
Accept(c, events) ==
    /\ daemon = "running"
    /\ turn = Idle
    /\ peer[c].phase = "gone"
    /\ peer' = [peer EXCEPT ![c] = Opened(events)]
    /\ UNCHANGED <<serviceVars, turn, daemon, view>>

-----------------------------------------------------------------------------
(* One frame of a connection (read_peer, dispatch).  A turn reads while its *)
(* connection stays open; the reply is queued before the delivery pass.     *)

CanRead(c) ==
    /\ daemon # "exited"
    /\ Open(c)
    /\ turn \in {Idle, Turn(c, "write")}

\* A stopping daemon refuses every mutation.
Reading(c) ==
    /\ CanRead(c)
    /\ daemon = "running"
    /\ turn' = Turn(c, "read")

Replied(p) == [p EXCEPT !.output = @ + 1]
Reply(c) == peer' = [peer EXCEPT ![c] = Replied(@)]

\* A read, a repeated or a refused request; some refusals retire the peer.
Answer(c) ==
    /\ CanRead(c)
    /\ turn' = Turn(c, "read")
    /\ peer' \in {[peer EXCEPT ![c] = Replied(@)], [peer EXCEPT ![c] = Retire(Replied(@))]}
    /\ UNCHANGED <<serviceVars, daemon, view>>

\* The stream ends or fails; a bad frame retires the connection instead.
ReadFails(c) ==
    /\ CanRead(c)
    /\ turn' = Turn(c, "write")
    /\ peer' \in {[peer EXCEPT ![c] = Shut(@)], [peer EXCEPT ![c] = Retire(@)]}
    /\ UNCHANGED <<serviceVars, daemon, view>>

\* session.create: a bound worker is revision 1, no worker revision 0; a spawn
\* that fails leaves a terminal record that nobody ever listened to.
Create(c, s) ==
    /\ Reading(c)
    /\ host[s] = Absent
    /\ \/ \E revision \in {0, 1} :
            /\ Commit(s, FlushEvents([host |-> [Absent EXCEPT !.life = "live",
                                                              !.revision = revision],
                                      bus |-> Registered, lost |-> {}]))
            /\ UNCHANGED retained
       \/ /\ EndAll(<<s>>, [r \in {s} |-> SpawnFailed])
          /\ UNCHANGED closedLeases
    /\ Reply(c)
    /\ UNCHANGED <<finals, sessionOf, daemon, view>>

\* Mutant of Attach: the queue is registered before the attach is announced.
AttachThenFlush(c, s, a) ==
    /\ Reading(c)
    /\ IsLive(At(s))
    /\ host[s].revision < MaxRevision
    /\ sessionOf[a] = NoSession
    /\ LET attached == HostBump(At(s), 1)
           queued == IF peer[c].events THEN AttachLease(bus[s], a) ELSE bus[s]
           flushed == FlushEvents([attached EXCEPT !.bus = queued])
       IN /\ Commit(s, [flushed EXCEPT !.host.leases = @ \cup {a}])
          /\ view' = [view EXCEPT ![a] = [revision |-> flushed.bus.revision, ended |-> FALSE]]
    /\ sessionOf' = [sessionOf EXCEPT ![a] = s]
    /\ peer' = [peer EXCEPT ![c] = [Replied(peer[c]) EXCEPT !.owned = @ \cup {a}]]
    /\ UNCHANGED <<retained, finals, daemon>>

\* session.attach: a controller claim takes one revision and vacates at most
\* one expired lease; an observer attach takes two (the grant is consumed) and
\* sweeps every expired lease.  Both are announced before the new queue exists,
\* so the replay of the reply is the new lease's only copy.
Attach(c, s, a) ==
    /\ Reading(c)
    /\ IsLive(At(s))
    /\ host[s].revision < MaxRevision
    /\ sessionOf[a] = NoSession
    /\ \E swept \in SUBSET host[s].expired, bumps \in {1, 2} :
         LET role == IF bumps = 1 THEN Cardinality(swept) <= 1 ELSE swept = host[s].expired
             attached == HostBump(HostSweep(At(s), swept), bumps)
             flushed == FlushEvents([attached EXCEPT !.host.leases = @ \cup {a}])
             queued == IF peer[c].events
                       THEN [flushed EXCEPT !.bus = AttachLease(@, a)] ELSE flushed
         IN /\ role
            /\ Commit(s, queued)
            /\ view' = [view EXCEPT ![a] = [revision |-> flushed.bus.revision, ended |-> FALSE]]
    /\ sessionOf' = [sessionOf EXCEPT ![a] = s]
    /\ peer' = [peer EXCEPT ![c] = [Replied(peer[c]) EXCEPT !.owned = @ \cup {a}]]
    /\ UNCHANGED <<retained, finals, daemon>>

\* Nobody remembers what was handed over for the leases of A.
Nothing == [revision |-> 0, ended |-> FALSE]
Forgotten(A) == [a \in AttachId |-> IF a \in A THEN Nothing ELSE view[a]]

\* The frames a detach hands over before the queue disappears.
Undelivered(s, a) == IF a \in bus[s].leases THEN bus[s].queue[a] ELSE <<>>

\* session.detach of a lease of this connection: a terminal record and an
\* expired lease answer not_attached, a swept lease is refused (see Answer).
\* Its queued frames stay with the connection.
DetachOwn(c, a) ==
    LET s == sessionOf[a]
    IN /\ Reading(c)
       /\ a \in peer[c].owned
       /\ host[s].life = "terminal" \/ a \in host[s].leases
       /\ LET left == HostDetach(At(s), {a})
          IN Commit(s, FlushEvents([left EXCEPT !.bus = DetachLeases(@, {a})]))
       /\ peer' = [peer EXCEPT ![c] = [Replied(peer[c]) EXCEPT !.owned = @ \ {a},
                                         !.finals = @ + Len(Undelivered(s, a))]]
       /\ view' = Forgotten({a})
       /\ UNCHANGED <<retained, finals, sessionOf, daemon>>

\* Mutant of DetachOther: the target's queued frames are dropped.
RevokeUntold(c, a) ==
    LET s == sessionOf[a]
    IN /\ Reading(c)
       /\ a \notin peer[c].owned
       /\ s # NoSession
       /\ a \in host[s].leases
       /\ LET left == HostDetach(At(s), {a})
          IN Commit(s, FlushEvents([left EXCEPT !.bus = DetachLeases(@, {a})]))
       /\ Reply(c)
       /\ UNCHANGED <<retained, finals, sessionOf, daemon, view>>

\* session.detach of another connection's lease: the queued frames and, when
\* control revoked it, lease_revoked wait for the owner.  An expired target is
\* a no-op in the host, except that an operator revokes an expired controller.
DetachOther(c, a) ==
    LET s == sessionOf[a]
    IN /\ Reading(c)
       /\ a \notin peer[c].owned
       /\ s # NoSession
       /\ IsLive(At(s))
       /\ a \in host[s].leases
       /\ \E revoked \in BOOLEAN :
            /\ a \notin host[s].expired => revoked
            /\ LET left == IF a \notin host[s].expired THEN HostDetach(At(s), {a})
                           ELSE IF revoked THEN HostSweep(At(s), {a}) ELSE At(s)
                   revocation == [kind |-> "lease_revoked", revision |-> left.host.revision]
                   last == IF revoked THEN <<revocation>> ELSE <<>>
               IN /\ Commit(s, FlushEvents([left EXCEPT !.bus = DetachLeases(@, {a})]))
                  /\ finals' = [finals EXCEPT ![a] = Undelivered(s, a) \o last]
       /\ Reply(c)
       /\ UNCHANGED <<retained, sessionOf, daemon, view>>

\* The other mutations of a live session (claim recovery, transfer, resize,
\* stop, abort, kill, grant mint and revoke): one revision each; a transfer may
\* vacate an expired controller first.
Mutate(c, s) ==
    /\ Reading(c)
    /\ IsLive(At(s))
    /\ host[s].revision < MaxRevision
    /\ \E swept \in SUBSET host[s].expired :
         /\ Cardinality(swept) <= 1
         /\ Commit(s, FlushEvents(HostBump(HostSweep(At(s), swept), 1)))
    /\ Reply(c)
    /\ UNCHANGED <<retained, finals, sessionOf, daemon, view>>

-----------------------------------------------------------------------------
(* Terminal transitions.                                                    *)

\* Mutant of Stopped: the record is retired before the event is reserved.
StoppedUnflushed(s, bumps, drain) ==
    MaybeForget(HostTerminate(IF drain THEN Announce(At(s)) ELSE At(s), bumps))

\* daemon.stop and the signal: a drain announces itself first; a session that
\* is not stopping yet takes one revision for the stop.
Stopped(s, bumps, drain) ==
    Finish(HostTerminate(IF drain THEN Announce(At(s)) ELSE At(s), bumps))

\* daemon.stop; mode refuse passes only without a live session.
DaemonStop(c, drain) ==
    /\ Reading(c)
    /\ \E order \in Orders(LiveSessions), bumps \in [LiveSessions -> {0, 1}] :
         LET ended == [s \in LiveSessions |-> Stopped(s, bumps[s], drain)]
         IN /\ EndAll(order, ended)
            /\ closedLeases' = closedLeases \cup LostOf(LiveSessions, ended)
    /\ daemon' = "stopping"
    /\ Reply(c)
    /\ UNCHANGED <<finals, sessionOf, view>>

\* The signal drain runs between turns; its closes are taken in the next turns.
SignalStop ==
    /\ turn = Idle
    /\ daemon # "exited"
    /\ \E order \in Orders(LiveSessions), bumps \in [LiveSessions -> {0, 1}] :
         LET ended == [s \in LiveSessions |-> Stopped(s, bumps[s], TRUE)]
         IN /\ EndAll(order, ended)
            /\ closedLeases' = closedLeases \cup LostOf(LiveSessions, ended)
    /\ daemon' = "stopping"
    /\ UNCHANGED <<finals, sessionOf, peer, turn, view>>

\* session.stop of a session whose worker never bound ends it in the request.
CancelPreBind(c, s) ==
    /\ Reading(c)
    /\ IsLive(At(s))
    /\ LET ended == [r \in {s} |-> Stopped(s, 0, FALSE)]
       IN /\ EndAll(<<s>>, ended)
          /\ closedLeases' = closedLeases \cup ended[s].lost
    /\ Reply(c)
    /\ UNCHANGED <<finals, sessionOf, daemon, view>>

\* Service::supervise: every worker whose exit is observed in one tick is
\* recorded first (WorkerPool::supervise), so a record the retention cap evicts
\* on the way has no snapshot left when its terminal event is due.
Supervise(order) ==
    LET finished == {order[i] : i \in DOMAIN order}
        early == Evicted(retained \o order)
        Recorded(s) == HostTerminate(At(s), 0)
        ended == [s \in finished |-> Finish(IF s \in early THEN Gone(Recorded(s)) ELSE Recorded(s))]
        lost == closedLeases \cup LostOf(finished, ended)
    IN /\ turn = Idle
       /\ daemon # "exited"
       /\ EndAll(order, ended)
       /\ closedLeases' = {a \in lost : \A c \in Owner(a) : ~Connected(c)}
       /\ peer' = [c \in Conn |->
                     IF Connected(c) /\ peer[c].owned \cap lost # {} THEN Retire(peer[c])
                     ELSE peer[c]]
       /\ UNCHANGED <<finals, sessionOf, turn, daemon, view>>

\* Service::collect_retained past the retention interval: the queues go with
\* the record and every lease still attached is reported lost.
Collect ==
    LET s == Head(retained)
    IN /\ turn = Idle
       /\ daemon # "exited"
       /\ retained # <<>>
       /\ retained' = Tail(retained)
       /\ CommitTick(s, [Gone(At(s)) EXCEPT !.bus = Untracked, !.lost = bus[s].leases])
       /\ UNCHANGED <<finals, sessionOf, turn, daemon, view>>

\* Service::sweep_grants: an expired grant is one revision of its session.
SweepGrants(s) ==
    /\ turn = Idle
    /\ daemon # "exited"
    /\ IsLive(At(s))
    /\ host[s].revision < MaxRevision
    /\ CommitTick(s, FlushEvents(HostBump(At(s), 1)))
    /\ UNCHANGED <<retained, finals, sessionOf, turn, daemon, view>>

\* The TTL of a lease lapses; nothing in the loop acts on it.
LeaseExpires(s, a) ==
    /\ turn = Idle
    /\ a \in host[s].leases \ host[s].expired
    /\ host' = [host EXCEPT ![s].expired = @ \cup {a}]
    /\ UNCHANGED <<retained, bus, closedLeases, finals, peer, turn, daemon, sessionOf, view>>

-----------------------------------------------------------------------------
(* Delivery, writing and the timers.                                        *)

Streams(c) == {a \in peer[c].owned : Undelivered(sessionOf[a], a) # <<>>}

\* How many frames there are in the queues of A.
Total(A, Frames(_)) == Cardinality(UNION {{a} \X DOMAIN Frames(a) : a \in A})
FinalFrames(c) ==
    LET Frames(a) == finals[a] IN peer[c].finals + Total(peer[c].owned, Frames)
QueuedFrames(c) ==
    LET Frames(a) == Undelivered(sessionOf[a], a) IN Total(Streams(c), Frames)

Ends(frames) == \E i \in DOMAIN frames : frames[i].kind \in {"session_terminal", "lease_revoked"}
Revisions(frames) == {frames[i].revision : i \in {j \in DOMAIN frames : Announces(frames[j])}}

\* Revisions are announced in order, each once.
InOrder(frames) ==
    \A i, j \in DOMAIN frames :
        i < j /\ Announces(frames[i]) /\ Announces(frames[j])
            => frames[i].revision < frames[j].revision

Seen(v, frames) == [revision |-> Max(Revisions(frames) \cup {v.revision}),
                    ended |-> v.ended \/ Ends(frames)]

\* What deliver_events leaves of the peer: nothing is taken while the buffer is
\* full, and a frame that does not fit closes the connection (push_event).  The
\* queues of a connection that closes here are left as they are: it releases
\* them, or nobody reads them again.
Full(p) == p.output >= OutCap
Pushed(p, n) == IF p.output + n > OutCap THEN Shut(p) ELSE [p EXCEPT !.output = @ + n]
Delivered(c) ==
    LET p == peer[c]
        routed == [p EXCEPT !.finals = 0]
        n == FinalFrames(c) + IF p.phase = "open" THEN QueuedFrames(c) ELSE 0
    IN IF Full(p) THEN p ELSE IF ~p.events THEN routed ELSE Pushed(routed, n)

\* Service::route_final_frames, drain_next_event and ack_terminal.
Hand(c) ==
    LET p == peer[c]
        taken == ~Full(p)
        written == taken /\ p.events /\ Delivered(c).phase # "closed"
        drained == IF written /\ p.phase = "open" THEN Streams(c) ELSE {}
        Handed(a) == (IF written /\ a \in p.owned THEN finals[a] ELSE <<>>)
                     \o (IF a \in drained THEN Undelivered(sessionOf[a], a) ELSE <<>>)
    IN /\ finals' = [a \in AttachId |-> IF taken /\ a \in p.owned THEN <<>> ELSE finals[a]]
       /\ bus' = [s \in Session |-> Drained(bus[s], drained \cap bus[s].leases)]
       /\ view' = [a \in AttachId |-> Seen(view[a], Handed(a))]
       /\ UNCHANGED <<host, retained, closedLeases, sessionOf, daemon>>

\* After a frame was read: a buffer past its bound closes an open connection.
Deliver(c) ==
    /\ turn = Turn(c, "read")
    /\ Hand(c)
    /\ LET p == Delivered(c)
           over == p.phase = "open" /\ p.output > OutCap
       IN peer' = [peer EXCEPT ![c] = IF over THEN Shut(p) ELSE p]
    /\ turn' = Turn(c, "write")

\* Mutant of Pass: only a connection that waits to write is visited.
PassWhenWriting(c) ==
    /\ daemon # "exited"
    /\ turn = Idle
    /\ Connected(c)
    /\ peer[c].output > 0
    /\ Hand(c)
    /\ peer' = [peer EXCEPT ![c] = Delivered(c)]
    /\ turn' = Turn(c, "write")

\* A turn without input; a retired connection only writes.
Pass(c) ==
    /\ daemon # "exited"
    /\ turn = Idle
    /\ \/ Open(c) /\ Hand(c) /\ peer' = [peer EXCEPT ![c] = Delivered(c)]
       \/ peer[c].phase = "retired" /\ UNCHANGED <<serviceVars, peer, daemon, view>>
    /\ turn' = Turn(c, "write")

\* Service::close_connection_leases
Release(c) ==
    LET owned == peer[c].owned
        left == [s \in Session |->
                   LET l == HostDetach(At(s), owned)
                       A == owned \cap bus[s].leases
                   IN IF \E a \in owned : sessionOf[a] = s
                      THEN MaybeForget(FlushEvents([l EXCEPT !.bus = DetachLeases(@, A)]))
                      ELSE l]
    IN /\ host' = [s \in Session |-> left[s].host]
       /\ bus' = [s \in Session |-> left[s].bus]
       /\ closedLeases' = (closedLeases \ owned) \cup LostOf(Session, left)
       /\ finals' = [a \in AttachId |-> IF a \in owned THEN <<>> ELSE finals[a]]
       /\ UNCHANGED <<retained, sessionOf>>

\* flush_peer wrote `n` frames.
Flushed(p, n) == [p EXCEPT !.output = @ - n]

\* The end of a turn after flush_peer: a drained retired connection closes, the
\* owner of a closed lease retires, a closed connection releases its leases.
EndTurn(c, flushed) ==
    LET drained == flushed.phase = "retired" /\ flushed.output = 0
        armed == IF flushed.phase = "retired" /\ flushed.deadline = "none"
                 THEN [flushed EXCEPT !.deadline = "armed"] ELSE flushed
        lost == closedLeases \cap peer[c].owned
    IN /\ turn = Turn(c, "write")
       /\ turn' = Idle
       /\ \/ /\ drained \/ flushed.phase = "closed"
             /\ Release(c)
             /\ peer' = [peer EXCEPT ![c] = NoPeer]
             /\ view' = Forgotten(peer[c].owned)
          \/ /\ ~drained /\ flushed.phase # "closed"
             /\ closedLeases' = closedLeases \ lost
             /\ peer' = [peer EXCEPT ![c] = IF lost # {} THEN Retire(armed) ELSE armed]
             /\ UNCHANGED <<host, retained, bus, finals, sessionOf, view>>
       /\ UNCHANGED daemon

\* The client read n frames since the last turn, or its socket is broken.
Write(c, n) == n <= peer[c].output /\ EndTurn(c, Flushed(peer[c], n))
WriteFails(c) == peer[c].output > 0 /\ EndTurn(c, Shut(peer[c]))

\* peer_timer decides Close for a connection without input and output for
\* transport_idle_ms: queued events are written first, otherwise the connection
\* closes here, after the turn that releases leases.
IdleTimeout(c) ==
    /\ daemon # "exited"
    /\ turn = Idle
    /\ Open(c)
    /\ peer[c].output = 0
    /\ Hand(c)
    /\ LET p == Delivered(c)
       IN peer' = [peer EXCEPT ![c] = IF p.output > 0 THEN Retire(p) ELSE NoPeer]
    /\ UNCHANGED turn

DeadlinePasses(c) ==
    /\ turn = Idle
    /\ peer[c].phase = "retired"
    /\ peer[c].deadline = "armed"
    /\ peer' = [peer EXCEPT ![c].deadline = "passed"]
    /\ UNCHANGED <<serviceVars, turn, daemon, view>>

\* peer_timer decides Close for a retired connection past its drain deadline:
\* what it still has to write keeps it (the timer arm retires it again).
DrainTimeout(c) ==
    /\ daemon # "exited"
    /\ turn = Idle
    /\ peer[c].phase = "retired"
    /\ peer[c].deadline = "passed"
    /\ Hand(c)
    /\ LET p == Delivered(c)
       IN peer' = [peer EXCEPT ![c] = IF p.output > 0 THEN p ELSE NoPeer]
    /\ UNCHANGED turn

\* The loop returns once no connection has anything left to write; what the
\* daemon held goes with the process.
Exit ==
    /\ daemon = "stopping"
    /\ turn = Idle
    /\ \A c \in Conn : Connected(c) =>
          peer[c].output = 0 /\ (Open(c) /\ peer[c].events => FinalFrames(c) + QueuedFrames(c) = 0)
    /\ daemon' = "exited"
    /\ peer' = [c \in Conn |-> NoPeer]
    /\ host' = [s \in Session |-> Absent]
    /\ retained' = <<>>
    /\ bus' = [s \in Session |-> Untracked]
    /\ closedLeases' = {}
    /\ finals' = [a \in AttachId |-> <<>>]
    /\ view' = Forgotten(AttachId)
    /\ UNCHANGED <<sessionOf, turn>>

-----------------------------------------------------------------------------
Request(c) ==
    \/ Answer(c)
    \/ ReadFails(c)
    \/ \E s \in Session : Create(c, s) \/ Mutate(c, s) \/ CancelPreBind(c, s)
    \/ \E s \in Session, a \in AttachId : Attach(c, s, a)
    \/ \E a \in AttachId : DetachOwn(c, a) \/ DetachOther(c, a)
    \/ \E drain \in BOOLEAN : DaemonStop(c, drain)

Ticks ==
    \/ SignalStop
    \/ Collect
    \/ \E S \in SUBSET LiveSessions \ {{}} : \E order \in Orders(S) : Supervise(order)
    \/ \E s \in Session : SweepGrants(s)
    \/ \E s \in Session, a \in AttachId : LeaseExpires(s, a)

Loop(c) ==
    \/ Pass(c)
    \/ Deliver(c)
    \/ \E n \in 0 .. OutCap + 1 : Write(c, n)
    \/ WriteFails(c)
    \/ IdleTimeout(c)
    \/ DeadlinePasses(c)
    \/ DrainTimeout(c)

Next ==
    \/ \E c \in Conn : Request(c) \/ Loop(c) \/ \E events \in OptIn : Accept(c, events)
    \/ Ticks
    \/ Exit

Spec == Init /\ [][Next]_vars

EndsTurn(c) == Deliver(c) \/ WriteFails(c) \/ \E n \in 0 .. OutCap + 1 : Write(c, n)

\* The poll loop visits every connection and ends the turn it began.
LoopFairness == \A c \in Conn : SF_vars(Pass(c)) /\ WF_vars(EndsTurn(c))

\* The timer of a retired connection, evaluated in every iteration.
TimerFairness == \A c \in Conn : SF_vars(DrainTimeout(c))

\* A client that keeps reading its socket and now and then waits for events.
ClientReads(c) == peer[c].output > 0 /\ Write(c, peer[c].output)
ClientPauses(c) == peer[c].output = 0 /\ Pass(c)
ClientFairness == \A c \in Conn : SF_vars(ClientReads(c)) /\ SF_vars(ClientPauses(c))

LoopSpec == Spec /\ LoopFairness /\ TimerFairness
FairSpec == Spec /\ LoopFairness /\ ClientFairness

-----------------------------------------------------------------------------
(* Invariants.                                                              *)

TypeOK ==
    /\ host \in [Session -> HostState]
    /\ retained \in Seq(Session)
    /\ bus \in [Session -> Bus]
    /\ closedLeases \subseteq AttachId
    /\ finals \in [AttachId -> Seq(Frame)]
    /\ peer \in [Conn -> Peer]
    /\ turn \in {Idle} \cup {Turn(c, stage) : c \in Conn, stage \in {"read", "write"}}
    /\ daemon \in {"running", "stopping", "exited"}
    /\ sessionOf \in [AttachId -> Session \cup {NoSession}]
    /\ view \in [AttachId -> [revision : Nat, ended : BOOLEAN]]

\* D-10: what a client has been handed and what waits in its queue are together
\* every revision the bus announced, in order and without a gap, however its
\* attach, the losses of other leases and the delivery passes interleave; the
\* retained ring is a gap-free suffix too.
StreamGapFree ==
    \A s \in Session :
        /\ \A a \in bus[s].leases :
             /\ view[a].revision <= bus[s].revision
             /\ Revisions(bus[s].queue[a]) = view[a].revision + 1 .. bus[s].revision
             /\ InOrder(bus[s].queue[a])
        /\ \A i \in DOMAIN bus[s].ring :
             bus[s].ring[i] = bus[s].revision - Len(bus[s].ring) + i

\* D-10: a revision a client can read from the host is one the bus has already
\* announced, the detaches of leases closed on the way included.
EventsKeepUp ==
    \A s \in Session :
        bus[s].tracked /\ host[s].life \in {"live", "terminal"} => bus[s].revision = host[s].revision

\* D-10: the terminal event stays pinned exactly for the leases whose copy is
\* still queued, and a lease that is not pinned any more has been handed it.
TerminalPinned ==
    \A s \in Session :
        /\ bus[s].pending \subseteq bus[s].leases
        /\ \A a \in bus[s].leases :
             /\ a \in bus[s].pending <=> Ends(bus[s].queue[a])
             /\ bus[s].terminalized => a \in bus[s].pending \/ view[a].ended

\* A lease the host would let act is one that receives events: the lease table
\* and the queues do not drift apart when leases are closed, swept or revoked.
AttachedLeaseIsServed ==
    \A c \in Conn : Connected(c) /\ peer[c].events =>
        \A a \in peer[c].owned :
            LET s == sessionOf[a]
            IN a \in host[s].leases \ host[s].expired => a \in bus[s].leases

\* Every queue, ring and outbound buffer of a connection the loop still reads
\* keeps its bound; one reply may top a buffer that is about to close.
MemoryBounded ==
    /\ \A s \in Session :
         /\ Len(bus[s].ring) <= RingCap
         /\ \A a \in AttachId : Len(bus[s].queue[a]) <= QueueCap
    /\ \A c \in Conn :
         /\ peer[c].output <= OutCap + 1
         /\ Open(c) /\ turn.peer # c => peer[c].output <= OutCap

\* dispatch.rs: "Release every lease a disconnecting connection held."
LeasesHaveOwner ==
    \A s \in Session : \A a \in bus[s].leases : Owner(a) # {}

\* lease/host.rs, expire_due: "the returned entries are the exact detach
\* mutations the event layer must publish": a lease swept from the table of a
\* live session is no recipient any more.
SweptLeaseIsDetached ==
    \A s \in Session :
        host[s].life = "live" => bus[s].leases \subseteq host[s].leases

-----------------------------------------------------------------------------
(* Action properties.                                                       *)

\* D-10: a lease never loses its queue behind the back of its connection: the
\* owner detached it or is gone, retires because of it, or is told that it was
\* revoked.  An expired lease is detached already and is not reported.
Reported(s, a) ==
    \/ \A c \in Owner(a) : a \notin peer'[c].owned
    \/ a \in closedLeases'
    \/ \E c \in Owner(a) : peer'[c].phase = "retired"
    \/ Ends(finals'[a])
    \/ a \in host[s].expired

LeavingIsReported ==
    [][\A s \in Session : \A a \in bus[s].leases \ bus'[s].leases : Reported(s, a)]_vars

\* D-10: no step leaves a lease that outlives the record of its session without
\* a terminal event reserved for it, evictions of older records included.  One
\* exception is of the code: a tick in which more sessions end than records are
\* retained may evict a record it has just made before its event is reserved.
Unreserved(s) ==
    /\ host[s].life \in {"terminal", "gone"}
    /\ bus[s].leases # {}
    /\ ~bus[s].terminalized

Ended == {s \in LiveSessions : host'[s].life # "live"}
Overfull == Cardinality(Ended) > MaxRetained

TerminalEventReserved ==
    [][\A s \in Session :
         Unreserved(s)' => Unreserved(s) \/ (host'[s].life = "gone" /\ Overfull)]_vars

\* The same without the exception: an overfull tick refutes it.
TerminalAlwaysReserved == \A s \in Session : ~Unreserved(s)

\* server.rs, deliver_events: "a full outbound buffer leaves the rest of the lease
\* queue intact for the next pass": handing out events closes no connection.
DeliveryKeepsConnection ==
    [][\A c \in Conn :
         /\ turn = Turn(c, "read") /\ turn' = Turn(c, "write")
         /\ Open(c) /\ peer[c].output <= OutCap
         => peer'[c].phase # "closed"]_vars

-----------------------------------------------------------------------------
(* Liveness.                                                                *)

Listens(c, a) == Open(c) /\ peer[c].events /\ a \in peer[c].owned

\* D-10: a connection that listens to a session that ended is handed its
\* terminal event, or stops being served.
TerminalReported ==
    \A c \in Conn, a \in AttachId, s \in Session :
        (bus[s].terminalized /\ a \in bus[s].leases /\ Listens(c, a))
            ~> (view[a].ended \/ ~Listens(c, a))

\* A connection one of whose leases was closed for a lost frame is retired.
LossRetiresOwner ==
    \A c \in Conn, a \in AttachId :
        (a \in closedLeases /\ Listens(c, a)) ~> ~Listens(c, a)

\* README.md, Close drain: "a retired connection that cannot drain its refusal
\* frame is closed".
CloseDrainBounded ==
    \A c \in Conn : (peer[c].deadline = "passed") ~> (peer[c].phase = "gone")
=============================================================================
