--------------------------- MODULE DeliveryInvariant ---------------------------
(***************************************************************************)
(* The inductive invariant of Delivery: what holds of one session whenever  *)
(* a handler may look at it, and what relates the sessions, the leases and  *)
(* the connections.                                                         *)
(***************************************************************************)
EXTENDS Delivery

\* One session between two operations of a handler.
Local == [host : HostState, bus : Bus, lost : SUBSET AttachId]

\* The queue of a lease and what its connection has been handed (v) make up
\* the stream; the pin is there exactly while its terminal event is queued.
LeaseOK(b, a, v) ==
    /\ v.revision <= b.revision
    /\ Revisions(b.queue[a]) = v.revision + 1 .. b.revision
    /\ InOrder(b.queue[a])
    /\ \A i \in DOMAIN b.queue[a] : b.queue[a][i].kind # "lease_revoked"
    /\ a \in b.pending <=> Ends(b.queue[a])
    /\ b.terminalized => a \in b.pending \/ v.ended

\* The retained ring is the newest revisions, without a gap.
RingOK(ring, revision) ==
    /\ Len(ring) <= RingCap
    /\ \A i \in DOMAIN ring : ring[i] = revision - Len(ring) + i

BusOK(b) ==
    /\ b.tracked \/ (b.leases = {} /\ b.revision = 0 /\ ~b.terminalized)
    /\ b.pending \subseteq b.leases
    /\ RingOK(b.ring, b.revision)
    /\ \A a \in AttachId : Len(b.queue[a]) <= QueueCap

\* Host and bus of a session: the bus never announces a revision the host does
\* not have, and a record that ended has either reserved its terminal event for
\* the leases still attached or is about to.
HostFits(l) ==
    /\ l.host.expired \subseteq l.host.leases
    /\ ~IsLive(l) => l.host.leases = {}
    /\ l.host.life = "absent" => ~l.bus.tracked
    /\ IsLive(l) => l.bus.tracked /\ ~l.bus.terminalized
    /\ l.host.life \in {"live", "terminal"} /\ l.bus.tracked => l.bus.revision <= l.host.revision
    /\ l.host.life = "terminal" /\ l.bus.leases # {} =>
          l.bus.terminalized \/ l.bus.revision < l.host.revision

Sound(l, v) ==
    /\ l \in Local
    /\ BusOK(l.bus)
    /\ \A a \in l.bus.leases : LeaseOK(l.bus, a, v[a])
    /\ HostFits(l)

\* Between two handlers nothing is left to announce.
Announced(l) ==
    l.bus.tracked /\ l.host.life \in {"live", "terminal"} => l.bus.revision = l.host.revision

\* The leases the host would let act and the bus does not serve.
Unserved(l) == (l.host.leases \ l.host.expired) \ l.bus.leases

-----------------------------------------------------------------------------
SessionsSound == \A s \in Session : Sound(At(s), view) /\ Announced(At(s))

\* A handle is issued once, for one session, to one connection.
Belong ==
    /\ \A s \in Session : \A a \in bus[s].leases \cup host[s].leases : sessionOf[a] = s
    /\ \A c \in Conn : \A a \in peer[c].owned : sessionOf[a] # NoSession
    /\ \A c, d \in Conn : c # d => peer[c].owned \cap peer[d].owned = {}

\* Frames wait for the owner only after the lease has left its bus.
FinalsLast ==
    \A a \in AttachId : finals[a] # <<>> =>
        sessionOf[a] # NoSession /\ \A s \in Session : a \notin bus[s].leases

Served ==
    \A c \in Conn : peer[c].phase # "closed" /\ peer[c].events =>
        \A a \in peer[c].owned : a \notin Unserved(At(sessionOf[a]))

Buffered ==
    \A c \in Conn :
        /\ peer[c].output <= OutCap + 1
        /\ Open(c) /\ turn # Turn(c, "read") => peer[c].output <= OutCap

\* The retained records are those of ended sessions, each once.
RetainedOK ==
    /\ \A i \in DOMAIN retained : host[retained[i]].life = "terminal"
    /\ \A i, j \in DOMAIN retained : retained[i] = retained[j] => i = j

DeliveryInv ==
    /\ TypeOK
    /\ SessionsSound
    /\ Belong
    /\ FinalsLast
    /\ Served
    /\ Buffered
    /\ RetainedOK

=============================================================================
