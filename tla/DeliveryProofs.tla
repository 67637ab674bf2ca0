----------------------------- MODULE DeliveryProofs -----------------------------
(***************************************************************************)
(* Proofs about Delivery: its inductive invariant, step by step, and the    *)
(* theorems that follow from it.                                            *)
(***************************************************************************)
EXTENDS DeliveryLemmas

-----------------------------------------------------------------------------
(* From one session to all of them.                                         *)

\* A session after a step.
After(s) == [host |-> host'[s], bus |-> bus'[s], lost |-> {}]

\* What may be lost of a session without losing what the host lets act.
Shrinks(l, r) ==
    /\ r.bus.leases \subseteq l.bus.leases
    /\ r.host.leases \subseteq l.host.leases
    /\ Unserved(r) \subseteq Unserved(l)
    /\ l.bus.terminalized /\ r.bus.leases # {} => r.bus.terminalized

\* A step in which every session is left in order, and one in which it loses
\* at most leases.
SessionsStep ==
    /\ host' \in [Session -> HostState]
    /\ bus' \in [Session -> Bus]
    /\ \A s \in Session : Sound(After(s), view') /\ Announced(After(s))
SessionsShrink == SessionsStep /\ \A s \in Session : Shrinks(At(s), After(s))

\* A step that neither ends a session that has a record nor evicts one.
RecordsStay ==
    \A s \in Session :
        /\ host[s].life = "terminal" => host'[s].life = "terminal"
        /\ host'[s].life = "gone" => host[s].life = "gone"
        /\ host[s].life = "gone" => Shrinks(At(s), After(s))

\* Every lease that leaves is reported.
Leaves == \A s \in Session : \A a \in bus[s].leases \ bus'[s].leases : Reported(s, a)

\* Every record that goes had its terminal event reserved.
GoneReserved ==
    \A s \in Session :
        host'[s].life = "gone" =>
            \/ bus'[s].leases = {} \/ bus'[s].terminalized
            \/ host[s].life = "gone" /\ bus[s].leases # {} /\ ~bus[s].terminalized

\* The turn after a step.
TurnTyped == turn' \in {Idle} \cup {Turn(c, stage) : c \in Conn, stage \in {"read", "write"}}

\* Everything but the connections and the turn stays.
OnlyPeers == UNCHANGED <<serviceVars, view>> /\ daemon' = daemon

\* What is left besides the sessions.
RestTyped ==
    /\ retained' \in Seq(Session)
    /\ closedLeases' \subseteq AttachId
    /\ finals' \in [AttachId -> Seq(Frame)]
    /\ peer' \in [Conn -> Peer]
    /\ TurnTyped
    /\ daemon' \in {"running", "stopping", "exited"}
    /\ sessionOf' \in [AttachId -> Session \cup {NoSession}]
    /\ view' \in Views

\* What every step keeps.
Preserved == DeliveryInv' /\ Leaves /\ GoneReserved

\* A session as a handler sees it.
LEMMA AtIs ==
    ASSUME TypeOK, NEW s \in Session
    PROVE  /\ At(s) \in Local /\ At(s).host = host[s] /\ At(s).bus = bus[s] /\ At(s).lost = {}
           /\ host[s] \in HostState /\ bus[s] \in Bus
BY DEF TypeOK, At, Local

\* A session after a step, as a handler would see it.
LEMMA AfterIs ==
    ASSUME NEW s \in Session, NEW l, host'[s] = l.host, bus'[s] = l.bus, l \in Local
    PROVE  After(s) \in Local /\ After(s).host = l.host /\ After(s).bus = l.bus
BY DEF After, Local

\* What was lost on the way does not matter to what a session is.
LEMMA Settled ==
    ASSUME NEW l, NEW v, Sound(l, v), NEW r, r.host = l.host, r.bus = l.bus, r \in Local
    PROVE  Sound(r, v) /\ (Announced(l) => Announced(r)) /\ Unserved(r) = Unserved(l)
BY DEF Sound, HostFits, IsLive, Announced, Unserved

\* Only the views of the leases still attached matter.
LEMMA SameViews ==
    ASSUME NEW l, NEW v, NEW w, Sound(l, v), \A a \in l.bus.leases : w[a] = v[a]
    PROVE  Sound(l, w)
BY DEF Sound

\* Nothing is lost twice.
LEMMA NarrowsShrinks ==
    ASSUME NEW l, NEW r, Narrows(l, r)
    PROVE  Shrinks(l, r)
BY DEF Narrows, Shrinks

\* A session the step leaves alone.
LEMMA SessionStays ==
    ASSUME TypeOK, SessionsSound, NEW s \in Session, host'[s] = host[s], bus'[s] = bus[s],
           \A a \in bus[s].leases : view'[a] = view[a]
    PROVE  Sound(After(s), view') /\ Announced(After(s)) /\ Shrinks(At(s), After(s))
<1>1. After(s) = At(s)
  BY DEF At, After
<1>2. Sound(At(s), view) /\ Announced(At(s)) /\ At(s).bus = bus[s]
  BY AtIs DEF SessionsSound
<1>3. Sound(At(s), view')
  BY <1>2, SameViews
<1> QED BY <1>1, <1>2, <1>3 DEF Shrinks

\* A session the step leaves as the handler computed it.
LEMMA SessionBecomes ==
    ASSUME TypeOK, NEW s \in Session, NEW l, host'[s] = l.host, bus'[s] = l.bus,
           Sound(l, view), Announced(l), Shrinks(At(s), l),
           \A a \in l.bus.leases : view'[a] = view[a]
    PROVE  Sound(After(s), view') /\ Announced(After(s)) /\ Shrinks(At(s), After(s))
<1>1. l \in Local
  BY DEF Sound
<1>2. After(s) \in Local /\ After(s).host = l.host /\ After(s).bus = l.bus
  BY <1>1, AfterIs
<1>3. Sound(After(s), view) /\ Announced(After(s)) /\ Unserved(After(s)) = Unserved(l)
  BY <1>2, Settled
<1>4. Sound(After(s), view')
  BY <1>2, <1>3, SameViews
<1> QED BY <1>2, <1>3, <1>4 DEF Shrinks

\* A step that commits one session and leaves the views of its leases alone.
LEMMA Commits ==
    ASSUME TypeOK, SessionsSound, NEW s \in Session, NEW l,
           host' = [host EXCEPT ![s] = l.host], bus' = [bus EXCEPT ![s] = l.bus],
           Sound(l, view), Announced(l), Shrinks(At(s), l),
           \A r \in Session : \A a \in bus'[r].leases : view'[a] = view[a]
    PROVE  /\ SessionsShrink
           /\ \A r \in Session : r # s => bus'[r] = bus[r] /\ host'[r] = host[r]
           /\ bus'[s] = l.bus /\ host'[s] = l.host
<1>0. l.host \in HostState /\ l.bus \in Bus
  BY LocalFields DEF Sound
<1>1. host' \in [Session -> HostState] /\ bus' \in [Session -> Bus]
  BY <1>0 DEF TypeOK
<1>2. host'[s] = l.host /\ bus'[s] = l.bus
  BY DEF TypeOK
<1>3. \A r \in Session : r # s => host'[r] = host[r] /\ bus'[r] = bus[r]
  BY DEF TypeOK
<1>4. ASSUME NEW r \in Session
      PROVE  Sound(After(r), view') /\ Announced(After(r)) /\ Shrinks(At(r), After(r))
  <2>1. CASE r = s
    BY <1>2, <2>1, SessionBecomes
  <2>2. CASE r # s
    BY <1>3, <2>2, SessionStays
  <2> QED BY <2>1, <2>2
<1> QED BY <1>1, <1>2, <1>3, <1>4 DEF SessionsShrink, SessionsStep

\* The invariant of the sessions after a step.
LEMMA SessionsAfter ==
    ASSUME \A s \in Session : Sound(After(s), view') /\ Announced(After(s))
    PROVE  SessionsSound'
<1>1. \A s \in Session : At(s)' = After(s)
  BY DEF At, After
<1> QED BY <1>1 DEF SessionsSound

\* A step that shrinks the sessions keeps what relates leases, sessions and
\* connections, when no connection gains a lease or starts to listen.
LEMMA ShrinkKeeps ==
    ASSUME TypeOK, Belong, FinalsLast, Served, SessionsShrink, sessionOf' = sessionOf,
           \A c \in Conn : peer'[c].owned \subseteq peer[c].owned,
           \A c \in Conn : peer'[c].phase # "closed" /\ peer'[c].events /\ peer'[c].owned # {} =>
                              peer[c].phase # "closed" /\ peer[c].events,
           \A a \in AttachId : finals'[a] # <<>> =>
                \/ finals[a] # <<>>
                \/ sessionOf[a] # NoSession /\ \A s \in Session : a \notin bus'[s].leases
    PROVE  Belong' /\ FinalsLast' /\ Served'
<1>1. \A s \in Session : bus'[s].leases \subseteq bus[s].leases /\ host'[s].leases \subseteq host[s].leases
  BY AtIs DEF SessionsShrink, Shrinks, After
<1>2. Belong'
  BY <1>1 DEF Belong
<1>3. FinalsLast'
  BY <1>1 DEF FinalsLast
<1>4. Served'
  <2> SUFFICES ASSUME NEW c \in Conn, peer'[c].phase # "closed", peer'[c].events,
                      NEW a \in peer'[c].owned
               PROVE  a \notin Unserved(After(sessionOf[a]))
    BY DEF Served, At, After
  <2>1. a \in peer[c].owned /\ a \in AttachId
    BY DEF TypeOK, Peer
  <2>2. sessionOf[a] \in Session
    BY <2>1 DEF Belong, TypeOK
  <2>3. a \notin Unserved(At(sessionOf[a]))
    BY <2>1 DEF Served
  <2> QED BY <2>2, <2>3 DEF SessionsShrink, Shrinks
<1> QED BY <1>2, <1>3, <1>4

\* The invariant after a step, from its parts.
LEMMA InvAfter ==
    ASSUME SessionsStep, RestTyped, Belong', FinalsLast', Served', Buffered', RetainedOK'
    PROVE  DeliveryInv'
<1>1. TypeOK'
  BY DEF SessionsStep, RestTyped, TurnTyped, TypeOK, Views, View
<1>2. SessionsSound'
  BY SessionsAfter DEF SessionsStep
<1> QED BY <1>1, <1>2 DEF DeliveryInv

\* The records after a step that ends no session.
LEMMA RecordsAfter ==
    ASSUME TypeOK, RetainedOK, RecordsStay, retained' = retained
    PROVE  RetainedOK' /\ GoneReserved
<1>1. \A i \in DOMAIN retained : retained[i] \in Session
  BY DEF TypeOK
<1>2. RetainedOK'
  BY <1>1 DEF RetainedOK, RecordsStay
<1>3. GoneReserved
  BY DEF GoneReserved, RecordsStay, Shrinks, At, After
<1> QED BY <1>2, <1>3

-----------------------------------------------------------------------------
(* The connections.                                                         *)

\* What the handlers make of a connection.
LEMMA PeerFields ==
    ASSUME NEW p \in Peer
    PROVE  /\ p.output \in Nat /\ p.finals \in Nat /\ p.owned \in SUBSET AttachId
           /\ p.events \in BOOLEAN /\ p.phase \in {"gone", "open", "retired", "closed"}
           /\ Retire(p) \in Peer /\ Retire(p).output = p.output /\ Retire(p).owned = p.owned
           /\ Retire(p).events = p.events /\ Retire(p).phase = "retired"
           /\ Shut(p) \in Peer /\ Shut(p).output = 0 /\ Shut(p).owned = p.owned
           /\ Shut(p).events = p.events /\ Shut(p).phase = "closed"
           /\ Replied(p) \in Peer /\ Replied(p).output = p.output + 1
           /\ Replied(p).owned = p.owned /\ Replied(p).events = p.events
           /\ Replied(p).phase = p.phase
<1>1. /\ p.output \in Nat /\ p.finals \in Nat /\ p.owned \in SUBSET AttachId
      /\ p.events \in BOOLEAN /\ p.phase \in {"gone", "open", "retired", "closed"}
  BY DEF Peer
<1>2. /\ Retire(p) \in Peer /\ Retire(p).output = p.output /\ Retire(p).owned = p.owned
      /\ Retire(p).events = p.events /\ Retire(p).phase = "retired"
  BY DEF Peer, Retire
<1>3. /\ Shut(p) \in Peer /\ Shut(p).output = 0 /\ Shut(p).owned = p.owned
      /\ Shut(p).events = p.events /\ Shut(p).phase = "closed"
  BY DEF Peer, Shut
<1>4. /\ Replied(p) \in Peer /\ Replied(p).output = p.output + 1
      /\ Replied(p).owned = p.owned /\ Replied(p).events = p.events
      /\ Replied(p).phase = p.phase
  BY <1>1 DEF Peer, Replied
<1> QED BY <1>1, <1>2, <1>3, <1>4

\* A slot without a connection, and a new connection.
LEMMA FreshPeer ==
    /\ NoPeer \in Peer /\ NoPeer.output = 0 /\ NoPeer.owned = {} /\ NoPeer.phase = "gone"
    /\ ~NoPeer.events
    /\ \A e \in BOOLEAN :
          /\ Opened(e) \in Peer /\ Opened(e).output = 0 /\ Opened(e).owned = {}
          /\ Opened(e).phase = "open"
BY DEF NoPeer, Peer, Opened

\* Only the connection of the turn is in its turn.
LEMMA TurnIs ==
    /\ \A d : Turn(d, "read") # Idle /\ Turn(d, "write") # Idle
    /\ \A c, d : Turn(c, "write") # Turn(d, "read")
    /\ \A c, d, x, y : c # d => Turn(c, x) # Turn(d, y)
    /\ Idle.peer = NoConn /\ \A c, x : Turn(c, x).peer = c
BY DEF Turn, Idle

\* A step that changes one connection.
LEMMA OnePeer ==
    ASSUME TypeOK, Buffered, NEW c \in Conn, NEW p \in Peer, peer' = [peer EXCEPT ![c] = p],
           p.output <= OutCap + 1,
           p.phase = "open" /\ turn' # Turn(c, "read") => p.output <= OutCap,
           \A d \in Conn : d # c => turn # Turn(d, "read")
    PROVE  /\ peer' \in [Conn -> Peer] /\ Buffered' /\ peer'[c] = p
           /\ \A d \in Conn : d # c => peer'[d] = peer[d]
<1>1. peer' \in [Conn -> Peer] /\ peer'[c] = p /\ \A d \in Conn : d # c => peer'[d] = peer[d]
  BY DEF TypeOK
<1>2. Buffered'
  BY <1>1 DEF Buffered, Open
<1> QED BY <1>1, <1>2

\* A turn that read a request and replied.
LEMMA RequestTurn ==
    ASSUME TypeOK, Buffered, NEW c \in Conn, CanRead(c), turn' = Turn(c, "read"),
           NEW q \in Peer, q.output = peer[c].output + 1, peer' = [peer EXCEPT ![c] = q]
    PROVE  /\ peer' \in [Conn -> Peer] /\ Buffered' /\ peer'[c] = q
           /\ \A d \in Conn : d # c => peer'[d] = peer[d]
<1>1. \A d \in Conn : turn # Turn(d, "read")
  BY TurnIs DEF CanRead
<1>2. peer[c].output \in Nat
  BY PeerFields DEF TypeOK
<1>3. peer[c].output <= OutCap
  BY <1>1 DEF CanRead, Buffered
<1>4. q.output <= OutCap + 1
  BY <1>2, <1>3, DeliveryAssumption
<1>6. \A d \in Conn : d # c => turn # Turn(d, "read")
  BY <1>1
<1>7. q.phase = "open" /\ turn' # Turn(c, "read") => q.output <= OutCap
  OBVIOUS
<1> QED BY <1>4, <1>6, <1>7, OnePeer, Zenon

\* The invariant after a request that shrinks the sessions.
LEMMA RequestKeeps ==
    ASSUME DeliveryInv, SessionsShrink, NEW c \in Conn, CanRead(c), turn' = Turn(c, "read"),
           NEW q \in Peer, q.output = peer[c].output + 1, peer' = [peer EXCEPT ![c] = q],
           q.owned \subseteq peer[c].owned, q.events = peer[c].events,
           sessionOf' = sessionOf, closedLeases' \subseteq AttachId,
           retained' \in Seq(Session), RetainedOK',
           daemon' \in {"running", "stopping", "exited"}, view' \in Views,
           finals' \in [AttachId -> Seq(Frame)],
           \A a \in AttachId : finals'[a] # <<>> =>
                \/ finals[a] # <<>>
                \/ sessionOf[a] # NoSession /\ \A s \in Session : a \notin bus'[s].leases
    PROVE  DeliveryInv' /\ peer'[c] = q /\ \A d \in Conn : d # c => peer'[d] = peer[d]
<1>0. TypeOK /\ Belong /\ FinalsLast /\ Served /\ Buffered
  BY DEF DeliveryInv
<1>1. /\ peer' \in [Conn -> Peer] /\ Buffered' /\ peer'[c] = q
      /\ TurnTyped
      /\ \A d \in Conn : d # c => peer'[d] = peer[d]
  <2>1. TypeOK /\ Buffered
    BY <1>0
  <2>2. /\ peer' \in [Conn -> Peer] /\ Buffered' /\ peer'[c] = q
        /\ \A d \in Conn : d # c => peer'[d] = peer[d]
    BY <2>1, RequestTurn, Zenon
  <2>5. TurnTyped
    BY DEF TurnTyped
  <2> QED BY <2>2, <2>5
<1>2. /\ \A d \in Conn : peer'[d].owned \subseteq peer[d].owned
      /\ \A d \in Conn : peer'[d].phase # "closed" /\ peer'[d].events /\ peer'[d].owned # {} =>
                            peer[d].phase # "closed" /\ peer[d].events
  BY <1>1 DEF CanRead, Open
<1>3. Belong' /\ FinalsLast' /\ Served'
  BY <1>0, <1>2, ShrinkKeeps
<1>4. RestTyped
  BY <1>0, <1>1 DEF RestTyped, TypeOK
<1> QED BY <1>1, <1>3, <1>4, InvAfter DEF SessionsShrink

\* A step that leaves the sessions and the frames for the owners alone.
LEMMA SessionsStay ==
    ASSUME DeliveryInv, OnlyPeers
    PROVE  SessionsShrink /\ RecordsStay /\ RetainedOK' /\ GoneReserved /\ Leaves
           /\ view' \in Views /\ retained' \in Seq(Session) /\ closedLeases' \subseteq AttachId
           /\ finals' \in [AttachId -> Seq(Frame)] /\ sessionOf' = sessionOf
           /\ retained' = retained /\ finals' = finals
<1>0. TypeOK /\ SessionsSound /\ RetainedOK
      /\ host' = host /\ bus' = bus /\ view' = view /\ retained' = retained
      /\ finals' = finals /\ closedLeases' = closedLeases /\ sessionOf' = sessionOf
  BY DEF DeliveryInv, OnlyPeers, serviceVars
<1>1. \A s \in Session : Sound(After(s), view') /\ Announced(After(s)) /\ Shrinks(At(s), After(s))
  BY <1>0, SessionStays
<1>2. SessionsShrink
  BY <1>0, <1>1 DEF SessionsShrink, SessionsStep, TypeOK
<1>3. RecordsStay
  BY <1>0, <1>1 DEF RecordsStay
<1>4. Leaves
  BY <1>0 DEF Leaves
<1>5. RetainedOK' /\ GoneReserved
  BY <1>0, <1>3, RecordsAfter
<1> QED BY <1>0, <1>2, <1>3, <1>4, <1>5 DEF TypeOK, Views, View

\* The invariant after a step of one connection that leaves the sessions alone.
LEMMA PeerKeeps ==
    ASSUME DeliveryInv, OnlyPeers, NEW c \in Conn, NEW p \in Peer,
           peer' = [peer EXCEPT ![c] = p], p.output <= OutCap + 1,
           p.phase = "open" /\ turn' # Turn(c, "read") => p.output <= OutCap,
           \A d \in Conn : d # c => turn # Turn(d, "read"),
           p.owned \subseteq peer[c].owned,
           p.phase # "closed" /\ p.events /\ p.owned # {} => peer[c].phase # "closed" /\ peer[c].events,
           TurnTyped
    PROVE  Preserved
<1>0. TypeOK /\ Belong /\ FinalsLast /\ Served /\ Buffered
  BY DEF DeliveryInv
<1>1. /\ peer' \in [Conn -> Peer] /\ Buffered' /\ peer'[c] = p
      /\ \A d \in Conn : d # c => peer'[d] = peer[d]
  BY <1>0, OnePeer
<1>2. SessionsShrink /\ RetainedOK' /\ GoneReserved /\ Leaves
           /\ view' \in Views /\ retained' \in Seq(Session) /\ closedLeases' \subseteq AttachId
           /\ finals' \in [AttachId -> Seq(Frame)] /\ sessionOf' = sessionOf
           /\ finals' = finals
  BY SessionsStay
<1>3. /\ \A d \in Conn : peer'[d].owned \subseteq peer[d].owned
      /\ \A d \in Conn : peer'[d].phase # "closed" /\ peer'[d].events /\ peer'[d].owned # {} =>
                            peer[d].phase # "closed" /\ peer[d].events
  BY <1>1
<1>4. Belong' /\ FinalsLast' /\ Served'
  BY <1>0, <1>2, <1>3, ShrinkKeeps
<1>5. RestTyped
  BY <1>0, <1>1, <1>2 DEF RestTyped, TypeOK, OnlyPeers
<1> QED BY <1>1, <1>2, <1>4, <1>5, InvAfter DEF Preserved, SessionsShrink

-----------------------------------------------------------------------------
(* Turns that leave the sessions alone.                                     *)

\* accept_peer keeps the invariant.
LEMMA AcceptStep ==
    ASSUME DeliveryInv, NEW c \in Conn, NEW events \in OptIn, Accept(c, events)
    PROVE  Preserved
<1> DEFINE q == Opened(events)
<1>1. q \in Peer /\ q.output = 0 /\ q.owned = {}
  BY FreshPeer, DeliveryAssumption
<1> HIDE DEF q
<1>2. 0 <= OutCap /\ 0 <= OutCap + 1
  BY DeliveryAssumption
<1>3. OnlyPeers /\ turn' = turn
      /\ peer' = [peer EXCEPT ![c] = q] /\ turn = Idle
  BY DEF Accept, OnlyPeers, q
<1>4. \A d \in Conn : d # c => turn # Turn(d, "read")
  BY <1>3, TurnIs
<1>5. TurnTyped
  BY <1>3 DEF TurnTyped
<1>6. q.output <= OutCap /\ q.output <= OutCap + 1 /\ q.owned \subseteq peer[c].owned
  BY <1>1, <1>2
<1> QED BY <1>1, <1>3, <1>4, <1>5, <1>6, PeerKeeps, Zenon

\* A repeated, refused or reading request keeps the invariant.
LEMMA AnswerStep ==
    ASSUME DeliveryInv, NEW c \in Conn, Answer(c)
    PROVE  Preserved
<1>0. TypeOK /\ Buffered
  BY DEF DeliveryInv
<1>1. PICK q \in {Replied(peer[c]), Retire(Replied(peer[c]))} : peer' = [peer EXCEPT ![c] = q]
  BY DEF Answer
<1>2. peer[c] \in Peer /\ peer[c].output \in Nat
  BY <1>0, PeerFields DEF TypeOK
<1>3. /\ q \in Peer /\ q.output = peer[c].output + 1 /\ q.owned = peer[c].owned
      /\ q.events = peer[c].events
  <2>1. CASE q = Replied(peer[c])
    BY <1>2, <2>1, PeerFields
  <2>2. CASE q = Retire(Replied(peer[c]))
    <3>1. /\ Replied(peer[c]) \in Peer /\ Replied(peer[c]).output = peer[c].output + 1
          /\ Replied(peer[c]).owned = peer[c].owned /\ Replied(peer[c]).events = peer[c].events
      BY <1>2, PeerFields
    <3> QED BY <2>2, <3>1, PeerFields
  <2> QED BY <1>1, <2>1, <2>2
<1>4. /\ OnlyPeers /\ turn' = Turn(c, "read")
      /\ Open(c) /\ turn \in {Idle, Turn(c, "write")}
  BY DEF Answer, CanRead, OnlyPeers
<1>5. \A d \in Conn : turn # Turn(d, "read")
  BY <1>4, TurnIs
<1>6. q.output <= OutCap + 1
  BY <1>0, <1>2, <1>3, <1>4, <1>5, DeliveryAssumption DEF Buffered
<1>7. TurnTyped
  BY <1>4 DEF TurnTyped
<1>8. peer[c].phase # "closed"
  BY <1>4 DEF Open
<1>9. q.owned \subseteq peer[c].owned
  BY <1>3
<1> QED BY <1>1, <1>3, <1>4, <1>5, <1>6, <1>7, <1>8, <1>9, PeerKeeps, Zenon

\* The end of a stream and a bad frame keep the invariant.
LEMMA ReadFailsStep ==
    ASSUME DeliveryInv, NEW c \in Conn, ReadFails(c)
    PROVE  Preserved
<1>0. TypeOK /\ Buffered
  BY DEF DeliveryInv
<1>1. PICK q \in {Shut(peer[c]), Retire(peer[c])} : peer' = [peer EXCEPT ![c] = q]
  BY DEF ReadFails
<1>2. peer[c] \in Peer /\ peer[c].output \in Nat
  BY <1>0, PeerFields DEF TypeOK
<1>3. /\ q \in Peer /\ q.output \in {0, peer[c].output} /\ q.owned = peer[c].owned
      /\ q.events = peer[c].events /\ q.phase # "open"
  <2>1. CASE q = Shut(peer[c])
    BY <1>2, <2>1, PeerFields
  <2>2. CASE q = Retire(peer[c])
    BY <1>2, <2>2, PeerFields
  <2> QED BY <1>1, <2>1, <2>2
<1>4. /\ OnlyPeers /\ turn' = Turn(c, "write")
      /\ Open(c) /\ turn \in {Idle, Turn(c, "write")}
  BY DEF ReadFails, CanRead, OnlyPeers
<1>5. \A d \in Conn : turn # Turn(d, "read")
  BY <1>4, TurnIs
<1>6. q.output <= OutCap + 1
  BY <1>0, <1>2, <1>3, DeliveryAssumption DEF Buffered
<1>7. TurnTyped
  BY <1>4 DEF TurnTyped
<1>8. peer[c].phase # "closed"
  BY <1>4 DEF Open
<1>9. q.owned \subseteq peer[c].owned
  BY <1>3
<1> QED BY <1>1, <1>3, <1>4, <1>5, <1>6, <1>7, <1>8, <1>9, PeerKeeps, Zenon

\* The drain deadline keeps the invariant.
LEMMA DeadlineStep ==
    ASSUME DeliveryInv, NEW c \in Conn, DeadlinePasses(c)
    PROVE  Preserved
<1> DEFINE q == [peer[c] EXCEPT !.deadline = "passed"]
<1>0. TypeOK /\ Buffered
  BY DEF DeliveryInv
<1>1. peer' = [peer EXCEPT ![c] = q]
  BY DEF DeadlinePasses
<1>2. /\ q \in Peer /\ q.output = peer[c].output /\ q.owned = peer[c].owned
      /\ q.events = peer[c].events /\ q.phase = peer[c].phase
  <2>1. peer[c] \in Peer
    BY <1>0 DEF TypeOK
  <2> QED BY <2>1 DEF Peer
<1> HIDE DEF q
<1>3. /\ OnlyPeers /\ turn' = turn /\ turn = Idle
      /\ peer[c].phase = "retired"
  BY DEF DeadlinePasses, OnlyPeers
<1>4. \A d \in Conn : d # c => turn # Turn(d, "read")
  BY <1>3, TurnIs
<1>5. q.output <= OutCap + 1
  BY <1>0, <1>2 DEF Buffered
<1>6. TurnTyped
  BY <1>3 DEF TurnTyped
<1>7. q.phase # "open" /\ peer[c].phase # "closed" /\ q.owned \subseteq peer[c].owned
  BY <1>2, <1>3
<1> QED BY <1>1, <1>2, <1>3, <1>4, <1>5, <1>6, <1>7, PeerKeeps, Zenon

-----------------------------------------------------------------------------
(* Requests that commit one session.                                        *)

\* The invariant after a request that commits one session.
LEMMA RequestCommits ==
    ASSUME DeliveryInv, NEW c \in Conn, CanRead(c), turn' = Turn(c, "read"),
           NEW q \in Peer, q.output = peer[c].output + 1, peer' = [peer EXCEPT ![c] = q],
           q.owned \subseteq peer[c].owned, q.events = peer[c].events,
           NEW s \in Session, NEW l, Commit(s, l),
           Sound(l, view), Announced(l), Shrinks(At(s), l),
           host[s].life = "terminal" => l.host.life = "terminal",
           l.host.life = "gone" => host[s].life = "gone",
           retained' = retained, sessionOf' = sessionOf, daemon' = daemon, view' \in Views,
           \A r \in Session : \A a \in bus'[r].leases : view'[a] = view[a],
           \A a \in bus[s].leases \ l.bus.leases : a \in l.lost \/ Reported(s, a),
           finals' \in [AttachId -> Seq(Frame)],
           \A a \in AttachId : finals'[a] # <<>> =>
                \/ finals[a] # <<>>
                \/ sessionOf[a] # NoSession /\ \A r \in Session : a \notin bus'[r].leases
    PROVE  Preserved
<1>0. TypeOK /\ SessionsSound /\ RetainedOK
  BY DEF DeliveryInv
<1>1. host' = [host EXCEPT ![s] = l.host] /\ bus' = [bus EXCEPT ![s] = l.bus]
      /\ closedLeases' = closedLeases \cup l.lost
  BY DEF Commit
<1>2. /\ SessionsShrink
      /\ \A r \in Session : r # s => bus'[r] = bus[r] /\ host'[r] = host[r]
      /\ bus'[s] = l.bus /\ host'[s] = l.host
  BY <1>0, <1>1, Commits
<1>3. RecordsStay
  BY <1>2 DEF RecordsStay, SessionsShrink
<1>4. RetainedOK' /\ GoneReserved
  BY <1>0, <1>3, RecordsAfter
<1>5. Leaves
  <2> SUFFICES ASSUME NEW r \in Session, NEW a \in bus[r].leases \ bus'[r].leases
               PROVE  Reported(r, a)
    BY DEF Leaves
  <2>1. r = s /\ a \in bus[s].leases \ l.bus.leases
    BY <1>2
  <2>2. a \in l.lost => Reported(s, a)
    BY <1>1 DEF Reported
  <2> QED BY <2>1, <2>2
<1>6. l.lost \in SUBSET AttachId
  BY LocalFields DEF Sound
<1>7. closedLeases' \subseteq AttachId /\ retained' \in Seq(Session)
      /\ daemon' \in {"running", "stopping", "exited"}
  BY <1>0, <1>1, <1>6 DEF TypeOK
<1>8. DeliveryInv'
  BY <1>2, <1>4, <1>7, RequestKeeps, Zenon
<1> QED BY <1>4, <1>5, <1>8 DEF Preserved

\* What is lost twice is lost.
LEMMA ShrinksTwice ==
    ASSUME NEW l, NEW m, NEW r, Shrinks(l, m), Shrinks(m, r)
    PROVE  Shrinks(l, r)
BY DEF Shrinks

\* A session between two handlers.
LEMMA AtSound ==
    ASSUME DeliveryInv, NEW s \in Session
    PROVE  /\ Sound(At(s), view) /\ Announced(At(s)) /\ view \in Views
           /\ At(s) \in Local /\ At(s).host = host[s] /\ At(s).bus = bus[s] /\ At(s).lost = {}
           /\ host[s] \in HostState /\ bus[s] \in Bus /\ bus[s].leases \in SUBSET AttachId
<1>1. TypeOK /\ SessionsSound
  BY DEF DeliveryInv
<1>2. view \in Views
  BY <1>1 DEF TypeOK, Views, View
<1> QED BY <1>1, <1>2, AtIs, LocalFields DEF SessionsSound

\* A lease that leaves the bus and has nothing to lose in the host.
LEMMA Unqueues ==
    ASSUME NEW l, NEW v, Sound(l, v), NEW A \in SUBSET AttachId,
           A \cap (l.host.leases \ l.host.expired) = {}
    PROVE  LET r == [l EXCEPT !.bus = DetachLeases(@, A)] IN
           /\ Sound(r, v) /\ Shrinks(l, r)
           /\ r.host = l.host /\ r.lost = l.lost /\ r.bus.leases = l.bus.leases \ A
<1> DEFINE b == DetachLeases(l.bus, A)
           r == [l EXCEPT !.bus = DetachLeases(@, A)]
<1>0. l \in Local /\ l.bus \in Bus /\ BusOK(l.bus)
  BY LocalFields DEF Sound
<1>1. /\ b \in Bus /\ BusOK(b)
      /\ b.tracked = l.bus.tracked /\ b.revision = l.bus.revision
      /\ b.terminalized = l.bus.terminalized /\ b.leases = l.bus.leases \ A
      /\ \A a \in l.bus.leases \ A : \A w : LeaseOK(l.bus, a, w) => LeaseOK(b, a, w)
  BY <1>0, DetachIs
<1>2. r = [l EXCEPT !.bus = b]
  BY <1>0 DEF Local
<1> HIDE DEF b, r
<1>3. r \in Local /\ r.host = l.host /\ r.bus = b /\ r.lost = l.lost
  BY <1>0, <1>1, <1>2, NewBus
<1>4. HostFits(r)
  BY <1>1, <1>3 DEF Sound, HostFits, IsLive
<1>5. Sound(r, v)
  BY <1>1, <1>3, <1>4 DEF Sound
<1>6. Shrinks(l, r)
  BY <1>1, <1>3 DEF Shrinks, Unserved
<1> QED BY <1>1, <1>3, <1>5, <1>6 DEF r

\* A mutation of a live session, announced.
LEMMA MutationIs ==
    ASSUME DeliveryInv, NEW s \in Session, IsLive(At(s)), NEW n \in Nat,
           NEW swept \in SUBSET host[s].expired
    PROVE  LET r == FlushEvents(HostBump(HostSweep(At(s), swept), n)) IN
           /\ Sound(r, view) /\ Announced(r) /\ Narrows(At(s), r)
           /\ r.host.life = "live"
<1> DEFINE m == HostSweep(At(s), swept)
           k == HostBump(m, n)
<1>0. Sound(At(s), view) /\ view \in Views /\ At(s).host = host[s]
  BY AtSound
<1>1. Sound(m, view) /\ Narrows(At(s), m) /\ m.host.life = At(s).host.life
  BY <1>0, Sweeps
<1> HIDE DEF m
<1>2. Sound(k, view) /\ Narrows(m, k) /\ k.host.life = m.host.life
  BY <1>1, Bumps
<1> HIDE DEF k
<1>3. Sound(FlushEvents(k), view) /\ Announced(FlushEvents(k)) /\ Narrows(k, FlushEvents(k))
      /\ FlushEvents(k).host.life = k.host.life
  BY <1>0, <1>2, Flushes
<1>4. Narrows(At(s), FlushEvents(k))
  BY <1>1, <1>2, <1>3, NarrowsTwice
<1>5. FlushEvents(k).host.life = "live"
  BY <1>1, <1>2, <1>3 DEF IsLive
<1> QED BY <1>3, <1>4, <1>5 DEF k, m

\* A grant that expires, announced.
LEMMA BumpIs ==
    ASSUME DeliveryInv, NEW s \in Session, NEW n \in Nat
    PROVE  LET r == FlushEvents(HostBump(At(s), n)) IN
           /\ Sound(r, view) /\ Announced(r) /\ Narrows(At(s), r)
           /\ r.host.life = host[s].life
<1> DEFINE k == HostBump(At(s), n)
<1>0. Sound(At(s), view) /\ view \in Views /\ At(s).host = host[s]
  BY AtSound
<1>2. Sound(k, view) /\ Narrows(At(s), k) /\ k.host.life = At(s).host.life
  BY <1>0, Bumps
<1> HIDE DEF k
<1>3. Sound(FlushEvents(k), view) /\ Announced(FlushEvents(k)) /\ Narrows(k, FlushEvents(k))
      /\ FlushEvents(k).host.life = k.host.life
  BY <1>0, <1>2, Flushes
<1>4. Narrows(At(s), FlushEvents(k))
  BY <1>2, <1>3, NarrowsTwice
<1> QED BY <1>0, <1>2, <1>3, <1>4 DEF k

\* A mutation of a live session keeps the invariant.
LEMMA MutateStep ==
    ASSUME DeliveryInv, NEW c \in Conn, NEW s \in Session, Mutate(c, s)
    PROVE  Preserved
<1> DEFINE q == Replied(peer[c])
<1>0. TypeOK /\ FinalsLast
  BY DEF DeliveryInv
<1>1. PICK swept \in SUBSET host[s].expired :
          Commit(s, FlushEvents(HostBump(HostSweep(At(s), swept), 1)))
  BY DEF Mutate
<1> DEFINE l == FlushEvents(HostBump(HostSweep(At(s), swept), 1))
<1>2. IsLive(At(s)) /\ CanRead(c) /\ turn' = Turn(c, "read") /\ peer' = [peer EXCEPT ![c] = q]
      /\ retained' = retained /\ finals' = finals /\ sessionOf' = sessionOf /\ daemon' = daemon
      /\ view' = view
  BY DEF Mutate, Reading, Reply
<1>3. Sound(l, view) /\ Announced(l) /\ Narrows(At(s), l) /\ l.host.life = "live"
  BY <1>2, MutationIs
<1>4. Commit(s, l)
  BY <1>1
<1> HIDE DEF l
<1>5. Shrinks(At(s), l)
  BY <1>3, NarrowsShrinks
<1>6. q \in Peer /\ q.output = peer[c].output + 1 /\ q.owned = peer[c].owned
      /\ q.events = peer[c].events
  BY <1>0, PeerFields DEF TypeOK
<1> HIDE DEF q
<1>7. host[s].life = "terminal" => l.host.life = "terminal"
  BY <1>2, AtSound DEF IsLive
<1>8. \A a \in bus[s].leases \ l.bus.leases : a \in l.lost
  BY <1>3, AtSound DEF Narrows
<1>9. view' \in Views /\ finals' \in [AttachId -> Seq(Frame)]
      /\ \A r \in Session : \A a \in bus'[r].leases : view'[a] = view[a]
  BY <1>0, <1>2 DEF TypeOK, Views, View
<1>10. q.owned \subseteq peer[c].owned
  BY <1>6
<1>11. \A a \in AttachId : finals'[a] # <<>> => finals[a] # <<>>
  BY <1>2
<1>12. l.host.life = "gone" => host[s].life = "gone"
  BY <1>3
<1> QED BY <1>2, <1>3, <1>4, <1>5, <1>6, <1>7, <1>8, <1>9, <1>10, <1>11, <1>12, RequestCommits, Zenon

\* A new session, announced.
LEMMA CreationIs ==
    ASSUME DeliveryInv, NEW s \in Session, host[s] = Absent, NEW n \in Nat
    PROVE  LET r == FlushEvents([host |-> [Absent EXCEPT !.life = "live", !.revision = n],
                                 bus |-> Registered, lost |-> {}]) IN
           Sound(r, view) /\ Announced(r) /\ Shrinks(At(s), r) /\ r.host.life = "live"
           /\ bus[s].leases = {}
<1> DEFINE h == [Absent EXCEPT !.life = "live", !.revision = n]
           m == [host |-> h, bus |-> Registered, lost |-> {}]
           r == FlushEvents(m)
<1>1. /\ h \in HostState /\ h.life = "live" /\ h.revision = n /\ h.leases = {} /\ h.expired = {}
  BY DEF HostState, Absent
<1> HIDE DEF h
<1>2. m \in Local /\ m.host = h /\ m.bus = Registered
  BY <1>1, FreshBus DEF Local
<1>3. HostFits(m)
  BY <1>1, <1>2, FreshBus DEF HostFits, IsLive
<1>4. Sound(m, view)
  BY <1>2, <1>3, FreshBus DEF Sound
<1> HIDE DEF m
<1>5. view \in Views
  BY AtSound
<1>6. Sound(r, view) /\ Announced(r) /\ Narrows(m, r) /\ r.host.life = m.host.life
  BY <1>4, <1>5, Flushes
<1> HIDE DEF r
<1>7. r.bus.leases = {} /\ r.host.leases = {} /\ Unserved(r) = {}
  BY <1>1, <1>2, <1>6, FreshBus DEF Narrows, Unserved
<1>8. host[s].life = "absent" /\ host[s].leases = {}
  BY DEF Absent
<1>9. ~bus[s].terminalized /\ bus[s].leases = {}
  BY <1>8, AtSound DEF Sound, HostFits, BusOK
<1>10. Shrinks(At(s), r)
  BY <1>7, <1>8, <1>9, AtSound DEF Shrinks
<1> QED BY <1>1, <1>2, <1>6, <1>9, <1>10 DEF r, m, h

\* A session whose worker was spawned keeps the invariant.
LEMMA CreatedStep ==
    ASSUME DeliveryInv, NEW c \in Conn, NEW s \in Session, Reading(c), host[s] = Absent,
           NEW n \in {0, 1},
           Commit(s, FlushEvents([host |-> [Absent EXCEPT !.life = "live", !.revision = n],
                                  bus |-> Registered, lost |-> {}])),
           UNCHANGED retained, Reply(c), UNCHANGED <<finals, sessionOf, daemon, view>>
    PROVE  Preserved
<1> DEFINE q == Replied(peer[c])
           l == FlushEvents([host |-> [Absent EXCEPT !.life = "live", !.revision = n],
                             bus |-> Registered, lost |-> {}])
<1>0. TypeOK /\ FinalsLast
  BY DEF DeliveryInv
<1>2. CanRead(c) /\ turn' = Turn(c, "read") /\ peer' = [peer EXCEPT ![c] = q]
      /\ retained' = retained /\ finals' = finals /\ sessionOf' = sessionOf /\ daemon' = daemon
      /\ view' = view
  BY DEF Reading, Reply
<1>3. Sound(l, view) /\ Announced(l) /\ Shrinks(At(s), l) /\ l.host.life = "live"
      /\ bus[s].leases = {}
  <2>1. n \in Nat
    OBVIOUS
  <2> QED BY <2>1, CreationIs, Zenon
<1>4. Commit(s, l)
  OBVIOUS
<1> HIDE DEF l
<1>6. q \in Peer /\ q.output = peer[c].output + 1 /\ q.owned = peer[c].owned
      /\ q.events = peer[c].events
  BY <1>0, PeerFields DEF TypeOK
<1> HIDE DEF q
<1>7. host[s].life # "terminal"
  BY DEF Absent
<1>8. \A a \in bus[s].leases \ l.bus.leases : a \in l.lost
  BY <1>3
<1>9. view' \in Views /\ finals' \in [AttachId -> Seq(Frame)]
      /\ \A r \in Session : \A a \in bus'[r].leases : view'[a] = view[a]
  BY <1>0, <1>2 DEF TypeOK, Views, View
<1>10. q.owned \subseteq peer[c].owned
  BY <1>6
<1>11. \A a \in AttachId : finals'[a] # <<>> => finals[a] # <<>>
  BY <1>2
<1>12. l.host.life # "gone"
  BY <1>3
<1> QED BY <1>2, <1>3, <1>4, <1>6, <1>7, <1>8, <1>9, <1>10, <1>11, <1>12, RequestCommits, Zenon

\* The frames a lease leaves behind.
LEMMA UndeliveredIs ==
    ASSUME TypeOK, NEW s \in Session, NEW a \in AttachId
    PROVE  Undelivered(s, a) \in Seq(Frame) /\ Len(Undelivered(s, a)) \in Nat
BY EmptyQueue DEF TypeOK, Bus, Undelivered

\* A lease leaves the session it was issued for and no other.
LEMMA LeavesOne ==
    ASSUME TypeOK, Belong, NEW a \in AttachId, NEW s \in Session, sessionOf[a] = s,
           NEW l, Commit(s, l), l.bus.leases \subseteq bus[s].leases \ {a}
    PROVE  \A r \in Session : a \notin bus'[r].leases
BY DEF TypeOK, Belong, Commit

\* A session without the leases of A in the host and of B in the bus.
Without(l, A, B) == [HostDetach(l, A) EXCEPT !.bus = DetachLeases(@, B)]

\* What is left when leases depart, before it is announced.
LEMMA WithoutIs ==
    ASSUME NEW l, NEW v \in Views, NEW A \in SUBSET AttachId, Sound(l, v),
           NEW B \in SUBSET A, A \cap l.bus.leases \subseteq B
    PROVE  /\ Sound(Without(l, A, B), v)
           /\ Without(l, A, B).host.life = l.host.life
           /\ Without(l, A, B).bus.leases = l.bus.leases \ A
           /\ Without(l, A, B).lost = l.lost
           /\ Shrinks(l, Without(l, A, B))
<1>1. Closing(l, v, A)
  BY SoundCloses
<1> DEFINE r == [HostDetach(l, A) EXCEPT !.bus = DetachLeases(@, B)]
<1>2. /\ Sound(r, v)
      /\ r.lost = l.lost /\ r.host.life = l.host.life /\ r.host.leases \subseteq l.host.leases
      /\ r.host.revision = l.host.revision + Cardinality(Detachable(l, A))
      /\ r.bus.revision = l.bus.revision /\ r.bus.tracked = l.bus.tracked
      /\ r.bus.terminalized = l.bus.terminalized
      /\ r.bus.leases = l.bus.leases \ A
      /\ Unserved(r) \subseteq Unserved(l)
  BY <1>1, Departed, Zenon
<1>3. Without(l, A, B) = r
  BY DEF Without
<1> HIDE DEF r
<1> QED BY <1>2, <1>3 DEF Shrinks

\* session.detach of an own lease keeps the invariant.
LEMMA DetachOwnStep ==
    ASSUME DeliveryInv, NEW c \in Conn, NEW a \in AttachId, DetachOwn(c, a)
    PROVE  Preserved
<1> DEFINE s == sessionOf[a]
           m == [HostDetach(At(s), {a}) EXCEPT !.bus = DetachLeases(@, {a})]
           l == FlushEvents(m)
           q == [Replied(peer[c]) EXCEPT !.owned = @ \ {a}, !.finals = @ + Len(Undelivered(s, a))]
<1>0. TypeOK /\ Belong /\ FinalsLast
  BY DEF DeliveryInv
<1>1. /\ CanRead(c) /\ turn' = Turn(c, "read") /\ a \in peer[c].owned
      /\ Commit(s, l) /\ peer' = [peer EXCEPT ![c] = q] /\ view' = Forgotten({a})
      /\ retained' = retained /\ finals' = finals /\ sessionOf' = sessionOf /\ daemon' = daemon
  BY DEF DetachOwn, Reading
<1>2. s \in Session
  BY <1>0, <1>1 DEF Belong, TypeOK
<1>3. s = sessionOf[a]
  OBVIOUS
<1> HIDE DEF s
<1>4. Sound(At(s), view) /\ view \in Views /\ At(s).host = host[s] /\ At(s).bus = bus[s]
  BY <1>2, AtSound
<1>5. /\ Sound(m, view) /\ m.host.life = At(s).host.life
      /\ m.bus.leases = At(s).bus.leases \ {a} /\ Shrinks(At(s), m)
  <2>1. m = Without(At(s), {a}, {a})
    BY DEF Without
  <2> DEFINE A == {a}
  <2>2. A \in SUBSET A /\ A \cap At(s).bus.leases \subseteq A /\ A \in SUBSET AttachId
    OBVIOUS
  <2> HIDE DEF m, A
  <2>3. /\ Sound(Without(At(s), A, A), view)
        /\ Without(At(s), A, A).host.life = At(s).host.life
        /\ Without(At(s), A, A).bus.leases = At(s).bus.leases \ A
        /\ Shrinks(At(s), Without(At(s), A, A))
    BY <1>4, <2>2, WithoutIs
  <2> QED BY <2>1, <2>3 DEF A
<1> HIDE DEF m
<1>7. Sound(l, view) /\ Announced(l) /\ Narrows(m, l) /\ l.host.life = m.host.life
  BY <1>4, <1>5, Flushes
<1> HIDE DEF l
<1>8. Shrinks(At(s), l)
  BY <1>5, <1>7, NarrowsShrinks, ShrinksTwice
<1>9. l.host.life = host[s].life
  BY <1>4, <1>5, <1>7
<1>10. /\ q \in Peer /\ q.output = peer[c].output + 1 /\ q.owned = peer[c].owned \ {a}
       /\ q.events = peer[c].events
  <2>1. peer[c] \in Peer /\ Replied(peer[c]) \in Peer /\ Replied(peer[c]).output = peer[c].output + 1
        /\ Replied(peer[c]).owned = peer[c].owned /\ Replied(peer[c]).events = peer[c].events
    BY <1>0, PeerFields DEF TypeOK
  <2>2. Len(Undelivered(s, a)) \in Nat
    BY <1>0, <1>2, UndeliveredIs
  <2>3. Replied(peer[c]).finals \in Nat /\ Replied(peer[c]).owned \ {a} \in SUBSET AttachId
    BY <2>1, PeerFields
  <2>4. Replied(peer[c]).finals + Len(Undelivered(s, a)) \in Nat
    BY <2>2, <2>3
  <2> QED BY <2>1, <2>3, <2>4 DEF Peer
<1> HIDE DEF q
<1>11. l.bus.leases \subseteq bus[s].leases \ {a}
  BY <1>4, <1>5, <1>7 DEF Narrows
<1>12. \A r \in Session : a \notin bus'[r].leases
  BY <1>0, <1>1, <1>2, <1>3, <1>11, LeavesOne
<1>13. /\ view' \in Views /\ finals' \in [AttachId -> Seq(Frame)]
       /\ \A r \in Session : \A b \in bus'[r].leases : view'[b] = view[b]
  <2>1. view' \in Views /\ \A b \in AttachId : b # a => view'[b] = view[b]
    BY <1>1, <1>4 DEF Forgotten, Nothing, Views, View
  <2>2. \A r \in Session : \A b \in bus'[r].leases : b \in AttachId
    <3>1. l.bus.leases \in SUBSET AttachId
      BY <1>7, LocalFields DEF Sound
    <3> QED BY <1>0, <1>1, <1>2, <3>1 DEF Commit, TypeOK, Bus
  <2>3. finals' \in [AttachId -> Seq(Frame)]
    BY <1>0, <1>1 DEF TypeOK
  <2> QED BY <1>12, <2>1, <2>2, <2>3
<1>14. Reported(s, a)
  <2>1. \A d \in Owner(a) : a \notin peer'[d].owned
    BY <1>0, <1>1, <1>10 DEF Owner, Belong, TypeOK
  <2> QED BY <2>1 DEF Reported
<1>15. \A b \in bus[s].leases \ l.bus.leases : b \in l.lost \/ Reported(s, b)
  BY <1>4, <1>5, <1>7, <1>14 DEF Narrows
<1>16. q.owned \subseteq peer[c].owned
  BY <1>10
<1>17. \A b \in AttachId : finals'[b] # <<>> => finals[b] # <<>>
  BY <1>1
<1>18. (host[s].life = "terminal" => l.host.life = "terminal")
       /\ (l.host.life = "gone" => host[s].life = "gone")
  BY <1>9
<1> QED BY <1>1, <1>2, <1>7, <1>8, <1>10, <1>13, <1>15, <1>16, <1>17, <1>18, RequestCommits, Zenon

\* The session after another connection detached or revoked a lease of it.
Revoked(l, a, revoked) ==
    IF a \notin l.host.expired THEN HostDetach(l, {a})
    ELSE IF revoked THEN HostSweep(l, {a}) ELSE l

RevokedAndGone(l, a, revoked) ==
    [Revoked(l, a, revoked) EXCEPT !.bus = DetachLeases(@, {a})]

\* Whatever the host made of it, the lease leaves the bus and stays behind in
\* the host only when it has expired.
LEMMA RevokedIs ==
    ASSUME NEW l, NEW v \in Views, Sound(l, v), IsLive(l), NEW a \in AttachId,
           NEW revoked \in BOOLEAN
    PROVE  /\ Sound(RevokedAndGone(l, a, revoked), v)
           /\ Shrinks(l, RevokedAndGone(l, a, revoked))
           /\ RevokedAndGone(l, a, revoked).host.life = l.host.life
           /\ RevokedAndGone(l, a, revoked).bus.leases = l.bus.leases \ {a}
           /\ Revoked(l, a, revoked).host.revision \in Nat
<1> DEFINE A == {a}
           m == Revoked(l, a, revoked)
           r == [m EXCEPT !.bus = DetachLeases(@, A)]
<1>0. A \in SUBSET AttachId /\ A \in SUBSET A /\ A \cap l.bus.leases \subseteq A
  OBVIOUS
<1>10. r = RevokedAndGone(l, a, revoked)
  BY DEF RevokedAndGone
<1>1. CASE a \notin l.host.expired
  <2>1. m = HostDetach(l, A) /\ r = Without(l, A, A)
    BY <1>1 DEF Revoked, Without
  <2>2. HostDetach(l, A) \in Local
    <3> HIDE DEF A
    <3> QED BY <1>0, HostDetachIs DEF Sound
  <2> HIDE DEF r, A, m
  <2>3. /\ Sound(r, v) /\ r.host.life = l.host.life
        /\ r.bus.leases = l.bus.leases \ A /\ Shrinks(l, r)
    <3>1. /\ Sound(Without(l, A, A), v)
          /\ Without(l, A, A).host.life = l.host.life
          /\ Without(l, A, A).bus.leases = l.bus.leases \ A
          /\ Shrinks(l, Without(l, A, A))
      <4>1. Sound(l, v) /\ v \in Views /\ A \in SUBSET AttachId /\ A \in SUBSET A
            /\ A \cap l.bus.leases \subseteq A
        BY <1>0
      <4>2. Sound(Without(l, A, A), v)
        BY <4>1, WithoutIs
      <4>3. Without(l, A, A).host.life = l.host.life
        BY <4>1, WithoutIs
      <4>4. Without(l, A, A).bus.leases = l.bus.leases \ A
        BY <4>1, WithoutIs
      <4>5. Shrinks(l, Without(l, A, A))
        BY <4>1, WithoutIs
      <4> QED BY <4>2, <4>3, <4>4, <4>5
    <3> QED BY <2>1, <3>1
  <2>4. m.host.revision \in Nat
    BY <2>1, <2>2, LocalFields
  <2> QED BY <1>10, <2>3, <2>4 DEF m, A
<1>2. CASE a \in l.host.expired
  <2>1. Sound(m, v) /\ Narrows(l, m) /\ m.bus = l.bus /\ m.host.life = l.host.life
        /\ a \notin m.host.leases \ m.host.expired
    <3>1. CASE revoked
      <4>1. m = HostSweep(l, A) /\ A \in SUBSET l.host.expired
        BY <1>2, <3>1 DEF Revoked
      <4>2. a \in A
        OBVIOUS
      <4> HIDE DEF A, m
      <4> QED BY <4>1, <4>2, Sweeps
    <3>2. CASE ~revoked
      <4>1. m = l
        BY <1>2, <3>2 DEF Revoked
      <4> QED BY <1>2, <4>1 DEF Narrows
    <3> QED BY <3>1, <3>2
  <2>2. A \cap (m.host.leases \ m.host.expired) = {}
    BY <2>1
  <2> HIDE DEF A, m
  <2>3. /\ Sound(r, v) /\ Shrinks(m, r)
        /\ r.host = m.host /\ r.bus.leases = m.bus.leases \ A
    BY <1>0, <2>1, <2>2, Unqueues
  <2>4. m.host.revision \in Nat
    BY <2>1, LocalFields DEF Sound
  <2> HIDE DEF r
  <2>5. Shrinks(l, r)
    BY <2>1, <2>3, NarrowsShrinks, ShrinksTwice
  <2> QED BY <1>10, <2>1, <2>3, <2>4, <2>5 DEF m, A
<1> QED BY <1>1, <1>2

\* session.detach of another connection's lease keeps the invariant.
LEMMA DetachOtherStep ==
    ASSUME DeliveryInv, NEW c \in Conn, NEW a \in AttachId, DetachOther(c, a)
    PROVE  Preserved
<1> DEFINE s == sessionOf[a]
           q == Replied(peer[c])
<1>0. TypeOK /\ Belong /\ FinalsLast
  BY DEF DeliveryInv
<1>1. /\ CanRead(c) /\ turn' = Turn(c, "read") /\ a \notin peer[c].owned
      /\ s # NoSession /\ IsLive(At(s)) /\ a \in host[s].leases
      /\ peer' = [peer EXCEPT ![c] = q] /\ view' = view
      /\ retained' = retained /\ sessionOf' = sessionOf /\ daemon' = daemon
  BY DEF DetachOther, Reading, Reply
<1>2. s \in Session
  BY <1>0, <1>1 DEF TypeOK
<1>4. Sound(At(s), view) /\ view \in Views /\ At(s).host = host[s] /\ At(s).bus = bus[s]
  BY <1>2, AtSound
<1>3. PICK revoked \in BOOLEAN :
          /\ a \notin host[s].expired => revoked
          /\ LET left == Revoked(At(s), a, revoked)
                 revocation == [kind |-> "lease_revoked", revision |-> left.host.revision]
                 last == IF revoked THEN <<revocation>> ELSE <<>>
             IN /\ Commit(s, FlushEvents([left EXCEPT !.bus = DetachLeases(@, {a})]))
                /\ finals' = [finals EXCEPT ![a] = Undelivered(s, a) \o last]
  BY <1>4 DEF DetachOther, Revoked
<1> DEFINE left == Revoked(At(s), a, revoked)
           revocation == [kind |-> "lease_revoked", revision |-> left.host.revision]
           last == IF revoked THEN <<revocation>> ELSE <<>>
           m == RevokedAndGone(At(s), a, revoked)
           l == FlushEvents(m)
           frames == Undelivered(s, a)
<1>5. Commit(s, l) /\ finals' = [finals EXCEPT ![a] = frames \o last] /\ s = sessionOf[a]
  BY <1>3 DEF RevokedAndGone
<1>6. frames \in Seq(Frame)
  BY <1>0, <1>2, UndeliveredIs
<1> HIDE DEF s, frames
<1>7. Sound(m, view) /\ Shrinks(At(s), m) /\ m.host.life = At(s).host.life
      /\ m.bus.leases = At(s).bus.leases \ {a} /\ left.host.revision \in Nat
  <2>1. Sound(m, view) /\ Shrinks(At(s), m)
    BY <1>1, <1>4, RevokedIs, Zenon
  <2>2. m.host.life = At(s).host.life
    BY <1>1, <1>4, RevokedIs, Zenon
  <2>3. m.bus.leases = At(s).bus.leases \ {a}
    BY <1>1, <1>4, RevokedIs
  <2>4. left.host.revision \in Nat
    BY <1>1, <1>4, RevokedIs, Zenon
  <2> QED BY <2>1, <2>2, <2>3, <2>4
<1> HIDE DEF left, m
<1>8. Sound(l, view) /\ Announced(l) /\ Narrows(m, l) /\ l.host.life = m.host.life
  BY <1>4, <1>7, Flushes
<1> HIDE DEF l
<1>9. Shrinks(At(s), l)
  BY <1>7, <1>8, NarrowsShrinks, ShrinksTwice
<1>10. q \in Peer /\ q.output = peer[c].output + 1 /\ q.owned = peer[c].owned
      /\ q.events = peer[c].events
  BY <1>0, PeerFields DEF TypeOK
<1> HIDE DEF q
<1>11. l.bus.leases \subseteq bus[s].leases \ {a}
  BY <1>4, <1>7, <1>8 DEF Narrows
<1>12. \A r \in Session : a \notin bus'[r].leases
  BY <1>0, <1>2, <1>5, <1>11, LeavesOne
<1>13. last \in Seq(Frame) /\ (revoked => Ends(last))
  <2>1. revocation \in Frame /\ revocation.kind = "lease_revoked"
    BY <1>7 DEF Frame, Kind
  <2> HIDE DEF revocation
  <2>2. <<revocation>> \in Seq(Frame) /\ DOMAIN <<revocation>> = {1} /\ <<revocation>>[1] = revocation
    BY <2>1
  <2>3. Ends(<<revocation>>)
    BY <2>1, <2>2 DEF Ends
  <2> QED BY <2>2, <2>3, EmptyQueue
<1> HIDE DEF last
<1>14. frames \o last \in Seq(Frame) /\ (Ends(frames \o last) <=> Ends(frames) \/ Ends(last))
  BY <1>6, <1>13, ConcatFrames, ConcatRevisions
<1>15. /\ finals' \in [AttachId -> Seq(Frame)] /\ finals'[a] = frames \o last
       /\ \A b \in AttachId : b # a => finals'[b] = finals[b]
  BY <1>0, <1>5, <1>14 DEF TypeOK
<1>16. Reported(s, a)
  BY <1>3, <1>13, <1>14, <1>15 DEF Reported, s
<1>17. \A b \in bus[s].leases \ l.bus.leases : b \in l.lost \/ Reported(s, b)
  BY <1>4, <1>7, <1>8, <1>16 DEF Narrows
<1>18. \A b \in AttachId : finals'[b] # <<>> =>
                \/ finals[b] # <<>>
                \/ sessionOf[b] # NoSession /\ \A r \in Session : b \notin bus'[r].leases
  BY <1>1, <1>12, <1>15 DEF s
<1>19. (host[s].life = "terminal" => l.host.life = "terminal")
       /\ (l.host.life = "gone" => host[s].life = "gone")
  BY <1>4, <1>7, <1>8
<1>20. view' \in Views /\ \A r \in Session : \A b \in bus'[r].leases : view'[b] = view[b]
  BY <1>1, <1>4
<1>21. q.owned \subseteq peer[c].owned
  BY <1>10
<1>22. /\ CanRead(c) /\ turn' = Turn(c, "read") /\ peer' = [peer EXCEPT ![c] = q]
       /\ retained' = retained /\ sessionOf' = sessionOf /\ daemon' = daemon
  BY <1>1
<1> QED BY <1>2, <1>5, <1>8, <1>9, <1>10, <1>15, <1>17, <1>18, <1>19, <1>20, <1>21, <1>22, RequestCommits, Zenon

-----------------------------------------------------------------------------
(* session.attach: the one step that adds a lease.                          *)

\* A session whose host has one lease more.
Leased(l, a) == [l EXCEPT !.host.leases = @ \cup {a}]

\* A new lease in the host does not disturb the bus.
LEMMA LeasedIs ==
    ASSUME NEW l, NEW v, Sound(l, v), IsLive(l), NEW a \in AttachId
    PROVE  /\ Sound(Leased(l, a), v) /\ Leased(l, a).bus = l.bus
           /\ Leased(l, a).lost = l.lost
           /\ Leased(l, a).host.life = "live"
           /\ Leased(l, a).host.leases = l.host.leases \cup {a}
           /\ Unserved(Leased(l, a)) \subseteq Unserved(l) \cup {a}
<1> DEFINE h == [l.host EXCEPT !.leases = @ \cup {a}]
           r == Leased(l, a)
<1>0. l \in Local /\ l.host \in HostState /\ l.host.leases \in SUBSET AttachId
  BY LocalFields DEF Sound
<1>1. /\ h \in HostState /\ h.life = l.host.life /\ h.leases = l.host.leases \cup {a}
      /\ h.expired = l.host.expired /\ h.revision = l.host.revision
  <2>1. l.host.leases \cup {a} \in SUBSET AttachId
    BY <1>0
  <2> QED BY <1>0, <2>1 DEF HostState
<1>2. r = [l EXCEPT !.host = h]
  BY <1>0 DEF Leased, Local, HostState
<1> HIDE DEF h, r
<1>3. r \in Local /\ r.host = h /\ r.bus = l.bus /\ r.lost = l.lost
  BY <1>0, <1>1, <1>2, NewHost
<1>4. HostFits(r)
  BY <1>1, <1>3 DEF HostFits, IsLive, Sound
<1>5. Sound(r, v)
  BY <1>3, <1>4 DEF Sound
<1>6. Unserved(r) \subseteq Unserved(l) \cup {a}
  BY <1>1, <1>3 DEF Unserved
<1>7. r.host.life = "live"
  BY <1>1, <1>3 DEF IsLive
<1> QED BY <1>1, <1>3, <1>5, <1>6, <1>7 DEF r

\* A session to whose bus a lease is added when its connection listens.
Queued(l, a, events) == IF events THEN [l EXCEPT !.bus = AttachLease(@, a)] ELSE l
Fresh(l) == [revision |-> l.bus.revision, ended |-> FALSE]

\* The new queue starts where the reply ends.
LEMMA QueuedIs ==
    ASSUME NEW l, NEW v \in Views, Sound(l, v), Announced(l), IsLive(l), NEW a \in AttachId,
           a \notin l.bus.leases, NEW events \in BOOLEAN,
           NEW w, w = [v EXCEPT ![a] = Fresh(l)]
    PROVE  /\ w \in Views /\ Sound(Queued(l, a, events), w) /\ Announced(Queued(l, a, events))
           /\ Queued(l, a, events).host = l.host /\ Queued(l, a, events).lost = l.lost
           /\ Queued(l, a, events).bus.leases = l.bus.leases \cup (IF events THEN {a} ELSE {})
<1> DEFINE b == AttachLease(l.bus, a)
           r == Queued(l, a, events)
<1>0. l \in Local /\ l.bus \in Bus /\ BusOK(l.bus) /\ l.bus.revision \in Nat
      /\ l.bus.tracked /\ ~l.bus.terminalized
  BY LocalFields DEF Sound, HostFits
<1>1. w \in Views /\ w[a] = Fresh(l) /\ \A o \in l.bus.leases : w[o] = v[o]
  <2>1. Fresh(l) \in View
    BY <1>0 DEF Fresh, View
  <2>2. l.bus.leases \in SUBSET AttachId
    BY <1>0, LocalFields
  <2> QED BY <2>1, <2>2 DEF Views
<1>2. Sound(l, w)
  BY <1>1, SameViews
<1>3. CASE events
  <2>1. /\ b \in Bus /\ BusOK(b)
        /\ b.tracked = l.bus.tracked /\ b.revision = l.bus.revision
        /\ b.terminalized = l.bus.terminalized /\ b.leases = l.bus.leases \cup {a}
        /\ LeaseOK(b, a, [revision |-> l.bus.revision, ended |-> FALSE])
        /\ \A o \in l.bus.leases : \A x : LeaseOK(l.bus, o, x) => LeaseOK(b, o, x)
    BY <1>0, AttachIs
  <2>2. r = [l EXCEPT !.bus = b]
    BY <1>0, <1>3 DEF Local, Queued
  <2> HIDE DEF b, r
  <2>3. r \in Local /\ r.host = l.host /\ r.bus = b /\ r.lost = l.lost
    BY <1>0, <2>1, <2>2, NewBus
  <2>4. \A o \in b.leases : LeaseOK(b, o, w[o])
    BY <1>1, <1>2, <2>1 DEF Sound, Fresh
  <2>5. HostFits(r)
    BY <1>0, <2>1, <2>3 DEF Sound, HostFits, IsLive
  <2>6. Sound(r, w)
    BY <2>1, <2>3, <2>4, <2>5 DEF Sound
  <2>7. Announced(r)
    BY <2>1, <2>3 DEF Announced
  <2> QED BY <1>1, <1>3, <2>1, <2>3, <2>6, <2>7 DEF r
<1>4. CASE ~events
  BY <1>1, <1>2, <1>4 DEF Queued
<1> QED BY <1>3, <1>4

\* A session after an attach.
LEMMA AttachedIs ==
    ASSUME DeliveryInv, NEW s \in Session, NEW a \in AttachId, IsLive(At(s)),
           sessionOf[a] = NoSession, NEW swept \in SUBSET host[s].expired, NEW n \in Nat,
           NEW events \in BOOLEAN, NEW flushed,
           flushed = FlushEvents(Leased(HostBump(HostSweep(At(s), swept), n), a)),
           NEW l, l = Queued(flushed, a, events)
    PROVE  /\ \A w : w = [view EXCEPT ![a] = Fresh(flushed)] => w \in Views /\ Sound(l, w)
           /\ Announced(l)
           /\ l.host.life = "live"
           /\ l.host.leases \subseteq host[s].leases \cup {a}
           /\ l.bus.leases \subseteq bus[s].leases \cup {a}
           /\ bus[s].leases \ l.bus.leases \subseteq l.lost
           /\ Unserved(l) \subseteq Unserved(At(s)) \cup (IF events THEN {} ELSE {a})
<1> DEFINE m == HostSweep(At(s), swept)
           k == HostBump(m, n)
           j == Leased(k, a)
<1>0. Sound(At(s), view) /\ view \in Views /\ At(s).host = host[s] /\ At(s).bus = bus[s]
  BY AtSound
<1>1. Sound(m, view) /\ Narrows(At(s), m) /\ m.host.life = At(s).host.life
  BY <1>0, Sweeps
<1> HIDE DEF m
<1>2. Sound(k, view) /\ Narrows(m, k) /\ k.host.life = m.host.life
  BY <1>1, Bumps
<1> HIDE DEF k
<1>3. IsLive(k) /\ Narrows(At(s), k)
  BY <1>1, <1>2, NarrowsTwice DEF IsLive
<1>4. /\ Sound(j, view) /\ j.bus = k.bus /\ j.lost = k.lost /\ j.host.life = "live"
      /\ j.host.leases = k.host.leases \cup {a}
      /\ Unserved(j) \subseteq Unserved(k) \cup {a}
  BY <1>2, <1>3, LeasedIs
<1>5. flushed = FlushEvents(j)
  BY DEF k, m
<1> HIDE DEF j
<1>6. Sound(flushed, view) /\ Announced(flushed) /\ Narrows(j, flushed)
      /\ flushed.host.life = "live"
  BY <1>0, <1>4, <1>5, Flushes
<1>7. a \notin bus[s].leases
  BY DeliveryAssumption DEF DeliveryInv, Belong
<1>8. /\ flushed.bus.leases \subseteq bus[s].leases
      /\ flushed.host.leases \subseteq host[s].leases \cup {a}
      /\ bus[s].leases \ flushed.bus.leases \subseteq flushed.lost
      /\ Unserved(flushed) \subseteq Unserved(At(s)) \cup {a}
  BY <1>0, <1>3, <1>4, <1>6 DEF Narrows
<1>9. a \notin flushed.bus.leases /\ IsLive(flushed)
  BY <1>6, <1>7, <1>8 DEF IsLive
<1>10. /\ \A w : w = [view EXCEPT ![a] = Fresh(flushed)] => w \in Views /\ Sound(l, w)
       /\ Announced(l)
       /\ l.host = flushed.host /\ l.lost = flushed.lost
       /\ l.bus.leases = flushed.bus.leases \cup (IF events THEN {a} ELSE {})
  <2> DEFINE q == Queued(flushed, a, events)
             u == [view EXCEPT ![a] = Fresh(flushed)]
  <2>0. u = [view EXCEPT ![a] = Fresh(flushed)]
    OBVIOUS
  <2> HIDE DEF u
  <2>1. u \in Views /\ Sound(q, u) /\ Announced(q)
    BY <1>0, <1>6, <1>9, <2>0, QueuedIs
  <2>2. q.host = flushed.host /\ q.lost = flushed.lost
    BY <1>0, <1>6, <1>9, <2>0, QueuedIs
  <2>3. q.bus.leases = flushed.bus.leases \cup (IF events THEN {a} ELSE {})
    BY <1>0, <1>6, <1>9, <2>0, QueuedIs
  <2> QED BY <2>0, <2>1, <2>2, <2>3
<1>11. Unserved(l) \subseteq Unserved(At(s)) \cup (IF events THEN {} ELSE {a})
  BY <1>8, <1>10 DEF Unserved
<1> QED BY <1>6, <1>8, <1>10, <1>11

\* session.attach keeps the invariant.
LEMMA AttachStep ==
    ASSUME DeliveryInv, NEW c \in Conn, NEW s \in Session, NEW a \in AttachId, Attach(c, s, a)
    PROVE  Preserved
<1> DEFINE q == [Replied(peer[c]) EXCEPT !.owned = @ \cup {a}]
           events == peer[c].events
<1>0. TypeOK /\ SessionsSound /\ Belong /\ FinalsLast /\ Served /\ Buffered /\ RetainedOK
  BY DEF DeliveryInv
<1>1. /\ CanRead(c) /\ turn' = Turn(c, "read") /\ IsLive(At(s)) /\ sessionOf[a] = NoSession
      /\ sessionOf' = [sessionOf EXCEPT ![a] = s]
      /\ peer' = [peer EXCEPT ![c] = q]
      /\ retained' = retained /\ finals' = finals /\ daemon' = daemon
  BY DEF Attach, Reading
<1>2. PICK swept \in SUBSET host[s].expired, n \in {1, 2} :
         LET flushed == FlushEvents(Leased(HostBump(HostSweep(At(s), swept), n), a))
         IN /\ Commit(s, Queued(flushed, a, events))
            /\ view' = [view EXCEPT ![a] = Fresh(flushed)]
  BY DEF Attach, Leased, Queued, Fresh
<1> DEFINE flushed == FlushEvents(Leased(HostBump(HostSweep(At(s), swept), n), a))
           l == Queued(flushed, a, events)
<1>3. Commit(s, l) /\ view' = [view EXCEPT ![a] = Fresh(flushed)]
  BY <1>2
<1>4. events \in BOOLEAN /\ n \in Nat
  BY <1>0 DEF TypeOK, Peer
<1>5. /\ view' \in Views /\ Sound(l, view') /\ Announced(l)
      /\ l.host.life = "live"
      /\ l.host.leases \subseteq host[s].leases \cup {a}
      /\ l.bus.leases \subseteq bus[s].leases \cup {a}
      /\ bus[s].leases \ l.bus.leases \subseteq l.lost
      /\ Unserved(l) \subseteq Unserved(At(s)) \cup (IF events THEN {} ELSE {a})
  <2>1. l = Queued(flushed, a, events)
        /\ flushed = FlushEvents(Leased(HostBump(HostSweep(At(s), swept), n), a))
    OBVIOUS
  <2> HIDE DEF l, flushed, events
  <2>2. IsLive(At(s)) /\ sessionOf[a] = NoSession /\ events \in BOOLEAN /\ n \in Nat
        /\ view' = [view EXCEPT ![a] = Fresh(flushed)]
    BY <1>1, <1>3, <1>4
  <2>3. Announced(l) /\ \A w : w = [view EXCEPT ![a] = Fresh(flushed)] => w \in Views /\ Sound(l, w)
    BY <2>1, <2>2, AttachedIs
  <2>7. view' \in Views /\ Sound(l, view')
    BY <2>2, <2>3, Zenon
  <2>4. l.host.life = "live" /\ l.host.leases \subseteq host[s].leases \cup {a}
    BY <2>1, <2>2, AttachedIs
  <2>5. l.bus.leases \subseteq bus[s].leases \cup {a} /\ bus[s].leases \ l.bus.leases \subseteq l.lost
    BY <2>1, <2>2, AttachedIs
  <2>6. Unserved(l) \subseteq Unserved(At(s)) \cup (IF events THEN {} ELSE {a})
    BY <2>1, <2>2, AttachedIs
  <2> QED BY <2>3, <2>4, <2>5, <2>6, <2>7
<1> HIDE DEF l, flushed
<1>6. l.host \in HostState /\ l.bus \in Bus /\ l.lost \in SUBSET AttachId /\ l \in Local
  BY <1>5, LocalFields DEF Sound
<1>7. /\ host' \in [Session -> HostState] /\ bus' \in [Session -> Bus]
      /\ host'[s] = l.host /\ bus'[s] = l.bus /\ closedLeases' = closedLeases \cup l.lost
      /\ \A r \in Session : r # s => host'[r] = host[r] /\ bus'[r] = bus[r]
  BY <1>0, <1>3, <1>6 DEF Commit, TypeOK
<1>8. \A r \in Session : a \notin bus[r].leases /\ a \notin host[r].leases
  BY <1>0, <1>1, DeliveryAssumption DEF Belong
<1>9. \A d \in Conn : a \notin peer[d].owned
  BY <1>0, <1>1 DEF Belong
<1>10. SessionsStep
  <2> SUFFICES ASSUME NEW r \in Session PROVE Sound(After(r), view') /\ Announced(After(r))
    BY <1>7 DEF SessionsStep
  <2>1. CASE r = s
    <3>1. After(s) \in Local /\ After(s).host = l.host /\ After(s).bus = l.bus
      BY <1>6, <1>7, AfterIs
    <3>2. Sound(After(s), view') /\ Announced(After(s))
      BY <1>5, <3>1, Settled
    <3> QED BY <2>1, <3>2
  <2>2. CASE r # s
    <3>1. \A b \in bus[r].leases : view'[b] = view[b]
      BY <1>0, <1>3, <1>8 DEF TypeOK, Bus
    <3> QED BY <1>0, <1>7, <2>2, <3>1, SessionStays
  <2> QED BY <2>1, <2>2
<1>11. /\ q \in Peer /\ q.output = peer[c].output + 1 /\ q.owned = peer[c].owned \cup {a}
       /\ q.events = events /\ q.phase = peer[c].phase
  <2>1. peer[c] \in Peer /\ Replied(peer[c]) \in Peer /\ Replied(peer[c]).output = peer[c].output + 1
        /\ Replied(peer[c]).owned = peer[c].owned /\ Replied(peer[c]).events = peer[c].events
        /\ Replied(peer[c]).phase = peer[c].phase
    BY <1>0, PeerFields DEF TypeOK
  <2>2. Replied(peer[c]).owned \cup {a} \in SUBSET AttachId
    BY <2>1, PeerFields
  <2> QED BY <2>1, <2>2 DEF Peer
<1> HIDE DEF q
<1>12. /\ peer' \in [Conn -> Peer] /\ Buffered' /\ peer'[c] = q
       /\ \A d \in Conn : d # c => peer'[d] = peer[d]
  BY <1>0, <1>1, <1>11, RequestTurn, Zenon
<1>13. sessionOf' \in [AttachId -> Session \cup {NoSession}] /\ sessionOf'[a] = s
       /\ \A b \in AttachId : b # a => sessionOf'[b] = sessionOf[b]
  BY <1>0, <1>1 DEF TypeOK
<1>14. RestTyped
  BY <1>0, <1>1, <1>5, <1>6, <1>7, <1>12, <1>13 DEF RestTyped, TurnTyped, TypeOK
<1>15. Belong'
  <2>1. \A r \in Session : \A b \in bus'[r].leases \cup host'[r].leases : sessionOf'[b] = r
    <3> SUFFICES ASSUME NEW r \in Session, NEW b \in bus'[r].leases \cup host'[r].leases
                 PROVE  sessionOf'[b] = r
      OBVIOUS
    <3>1. b \in AttachId
      BY <1>7 DEF Bus, HostState
    <3>2. CASE b = a
      BY <1>7, <1>8, <1>13, <3>2
    <3>3. CASE b # a
      <4>1. b \in bus[r].leases \cup host[r].leases
        BY <1>5, <1>7, <3>3
      <4> QED BY <1>0, <1>13, <3>1, <3>3, <4>1 DEF Belong
    <3> QED BY <3>2, <3>3
  <2>2. \A d \in Conn : \A b \in peer'[d].owned : sessionOf'[b] # NoSession
    <3> SUFFICES ASSUME NEW d \in Conn, NEW b \in peer'[d].owned PROVE sessionOf'[b] # NoSession
      OBVIOUS
    <3>1. b \in AttachId /\ (b # a => b \in peer[d].owned)
      BY <1>11, <1>12 DEF Peer
    <3> QED BY <1>0, <1>13, <3>1, DeliveryAssumption DEF Belong
  <2>3. \A d, e \in Conn : d # e => peer'[d].owned \cap peer'[e].owned = {}
    BY <1>0, <1>9, <1>11, <1>12 DEF Belong
  <2> QED BY <2>1, <2>2, <2>3 DEF Belong
<1>16. FinalsLast'
  <2> SUFFICES ASSUME NEW b \in AttachId, finals[b] # <<>>
               PROVE  sessionOf'[b] # NoSession /\ \A r \in Session : b \notin bus'[r].leases
    BY <1>1 DEF FinalsLast
  <2>1. sessionOf[b] # NoSession /\ b # a /\ \A r \in Session : b \notin bus[r].leases
    BY <1>0, <1>1 DEF FinalsLast
  <2> QED BY <1>5, <1>7, <1>13, <2>1
<1>17. Served'
  <2> SUFFICES ASSUME NEW d \in Conn, peer'[d].phase # "closed", peer'[d].events,
                      NEW b \in peer'[d].owned
               PROVE  b \notin Unserved(After(sessionOf'[b]))
    BY DEF Served, At, After
  <2>0. b \in AttachId
    BY <1>12 DEF Peer
  <2>1. Unserved(After(s)) = Unserved(l)
    BY <1>5, <1>6, <1>7, AfterIs, Settled
  <2>2. CASE b = a
    <3>1. d = c /\ events
      BY <1>9, <1>11, <1>12, <2>2
    <3>2. a \notin Unserved(At(s))
      BY <1>0, <1>8, AtIs DEF Unserved
    <3> QED BY <1>5, <1>13, <2>1, <2>2, <3>1, <3>2
  <2>3. CASE b # a
    <3>1. b \in peer[d].owned /\ peer[d].phase # "closed" /\ peer[d].events
      BY <1>11, <1>12, <2>3
    <3>2. b \notin Unserved(At(sessionOf[b])) /\ sessionOf[b] \in Session
      BY <1>0, <2>0, <3>1 DEF Served, Belong, TypeOK
    <3>3. CASE sessionOf[b] = s
      BY <1>5, <1>13, <2>0, <2>1, <2>3, <3>2, <3>3
    <3>4. CASE sessionOf[b] # s
      <4>1. After(sessionOf[b]) = At(sessionOf[b])
        BY <1>7, <3>2, <3>4 DEF After, At
      <4> QED BY <1>13, <2>0, <2>3, <3>2, <4>1
    <3> QED BY <3>3, <3>4
  <2> QED BY <2>2, <2>3
<1>18. RecordsStay
  <2> SUFFICES ASSUME NEW r \in Session
               PROVE  /\ host[r].life = "terminal" => host'[r].life = "terminal"
                      /\ host'[r].life = "gone" => host[r].life = "gone"
                      /\ host[r].life = "gone" => Shrinks(At(r), After(r))
    BY DEF RecordsStay
  <2>1. CASE r = s
    BY <1>1, <1>5, <1>7, <2>1, AtSound DEF IsLive
  <2>2. CASE r # s
    <3>1. After(r) = At(r) /\ host'[r] = host[r]
      BY <1>7, <2>2 DEF After, At
    <3> QED BY <3>1 DEF Shrinks
  <2> QED BY <2>1, <2>2
<1>19. RetainedOK' /\ GoneReserved
  BY <1>0, <1>1, <1>18, RecordsAfter
<1>20. Leaves
  BY <1>5, <1>7 DEF Leaves, Reported
<1> QED BY <1>10, <1>12, <1>14, <1>15, <1>16, <1>17, <1>19, <1>20, InvAfter DEF Preserved

-----------------------------------------------------------------------------
(* The end of sessions and the retention of their records.                  *)

\* Each element once.
Distinct(records) == \A i, j \in DOMAIN records : records[i] = records[j] => i = j

\* What is kept of the records and what goes.
LEMMA RetentionIs ==
    ASSUME NEW records \in Seq(Session), Distinct(records)
    PROVE  /\ Kept(records) \in Seq(Session) /\ Distinct(Kept(records))
           /\ \A i \in DOMAIN Kept(records) : \E j \in DOMAIN records :
                 Kept(records)[i] = records[j] /\ records[j] \notin Evicted(records)
           /\ \A s \in Evicted(records) : \E j \in DOMAIN records : s = records[j]
           /\ \A j \in DOMAIN records : j > Len(records) - MaxRetained => records[j] \notin Evicted(records)
<1> DEFINE n == Len(records)
           k == n - MaxRetained
           first == Max({1, n - MaxRetained + 1})
           last == Max({0, n - MaxRetained})
<1>1. n \in Nat /\ DOMAIN records = 1 .. n /\ MaxRetained \in Nat \ {0} /\ k \in Int /\ k < n
  BY DeliveryAssumption
<1>2. first = (IF 1 <= k + 1 THEN k + 1 ELSE 1) /\ last = (IF 0 <= k THEN k ELSE 0)
  <2>1. 1 \in Int /\ 0 \in Int /\ n - MaxRetained + 1 \in Int /\ n - MaxRetained \in Int
    BY <1>1
  <2>2. first = IF 1 <= n - MaxRetained + 1 THEN n - MaxRetained + 1 ELSE 1
    BY <2>1, Extrema, Zenon
  <2>3. last = IF 0 <= n - MaxRetained THEN n - MaxRetained ELSE 0
    BY <2>1, Extrema, Zenon
  <2> HIDE DEF first, last
  <2> QED BY <1>1, <2>2, <2>3
<1>3. Kept(records) = SubSeq(records, first, n) /\ Evicted(records) = {records[i] : i \in 1 .. last}
  BY DEF Kept, Evicted
<1> HIDE DEF first, last
<1>4. first \in 1 .. n + 1 /\ last \in 0 .. n /\ last = first - 1
  <2> HIDE DEF n, k
  <2>1. CASE 0 <= k
    <3>1. first = k + 1 /\ last = k
      BY <1>1, <1>2, <2>1
    <3> QED BY <1>1, <2>1, <3>1
  <2>2. CASE k < 0
    <3>1. first = 1 /\ last = 0
      BY <1>1, <1>2, <2>2
    <3> QED BY <1>1, <2>2, <3>1
  <2> QED BY <1>1, <2>1, <2>2
<1>5. \A i \in first .. n : records[i] \in Session
  BY <1>1, <1>4
<1>6. /\ Kept(records) \in Seq(Session)
      /\ Len(Kept(records)) = n - first + 1
      /\ \A i \in 1 .. n - first + 1 : Kept(records)[i] = records[first + i - 1]
  <2>1. first \in Int /\ n \in Int
    BY <1>1, <1>4
  <2>2. /\ SubSeq(records, first, n) \in Seq(Session)
        /\ Len(SubSeq(records, first, n)) = IF first <= n THEN n - first + 1 ELSE 0
        /\ \A i \in 1 .. n - first + 1 : SubSeq(records, first, n)[i] = records[first + i - 1]
    BY <1>5, <2>1, SubSeqProperties
  <2> HIDE DEF n
  <2> QED BY <1>1, <1>3, <1>4, <2>2
<1>7. DOMAIN Kept(records) = 1 .. n - first + 1
  BY <1>6
<1>8. \A j \in 1 .. n : records[j] \in Evicted(records) => j < first
  <2> SUFFICES ASSUME NEW j \in 1 .. n, NEW i \in 1 .. last, records[j] = records[i] PROVE j < first
    BY <1>3
  <2>1. i \in DOMAIN records /\ j \in DOMAIN records
    BY <1>1, <1>4
  <2>2. i = j
    BY <2>1 DEF Distinct
  <2> QED BY <1>1, <1>4, <2>2
<1>9. Distinct(Kept(records))
  <2> SUFFICES ASSUME NEW i \in 1 .. n - first + 1, NEW j \in 1 .. n - first + 1,
                      Kept(records)[i] = Kept(records)[j]
               PROVE  i = j
    BY <1>7 DEF Distinct
  <2>1. first + i - 1 \in 1 .. n /\ first + j - 1 \in 1 .. n
    BY <1>1, <1>4
  <2>2. records[first + i - 1] = records[first + j - 1]
    BY <1>6
  <2>3. first + i - 1 = first + j - 1
    BY <1>1, <2>1, <2>2 DEF Distinct
  <2> QED BY <1>1, <1>4, <2>3
<1>10. \A i \in DOMAIN Kept(records) : \E j \in DOMAIN records :
                 Kept(records)[i] = records[j] /\ records[j] \notin Evicted(records)
  <2> TAKE i \in DOMAIN Kept(records)
  <2>1. first + i - 1 \in 1 .. n /\ ~(first + i - 1 < first) /\ Kept(records)[i] = records[first + i - 1]
    BY <1>1, <1>4, <1>6, <1>7
  <2>2. records[first + i - 1] \notin Evicted(records)
    BY <1>8, <2>1
  <2> QED BY <1>1, <2>1, <2>2
<1>11. \A s \in Evicted(records) : \E j \in DOMAIN records : s = records[j]
  BY <1>1, <1>3, <1>4
<1>12. \A j \in DOMAIN records : j > Len(records) - MaxRetained => records[j] \notin Evicted(records)
  <2> TAKE j \in DOMAIN records
  <2>1. j > k => ~(j < first)
    <3>1. first = k + 1 \/ first = 1
      BY <1>2
    <3>2. j \in Int /\ j >= 1
      BY <1>1
    <3> HIDE DEF n, k
    <3> QED BY <1>1, <3>1, <3>2
  <2> QED BY <1>1, <1>8, <2>1
<1> QED BY <1>6, <1>9, <1>10, <1>11, <1>12

\* A record that has ended in order has its terminal event reserved.
LEMMA EndedReserves ==
    ASSUME NEW l, NEW v, Sound(l, v), Announced(l), l.host.life = "terminal"
    PROVE  l.bus.leases = {} \/ l.bus.terminalized
BY LocalFields DEF Sound, BusOK, HostFits, Announced

\* The records and the sessions that end after them.
LEMMA RecordsJoin ==
    ASSUME TypeOK, RetainedOK, NEW order \in Seq(Session), Distinct(order),
           \A i \in DOMAIN order : host[order[i]].life # "terminal"
    PROVE  /\ retained \o order \in Seq(Session) /\ Distinct(retained \o order)
           /\ Len(retained \o order) = Len(retained) + Len(order)
           /\ \A i \in DOMAIN order : Len(retained) + i \in DOMAIN (retained \o order)
                                      /\ (retained \o order)[Len(retained) + i] = order[i]
           /\ \A j \in DOMAIN (retained \o order) :
                 \/ \E i \in DOMAIN order : (retained \o order)[j] = order[i]
                 \/ host[(retained \o order)[j]].life = "terminal"
<1> DEFINE m == Len(retained)
           n == Len(order)
           all == retained \o order
<1>1. retained \in Seq(Session) /\ m \in Nat /\ n \in Nat /\ DOMAIN retained = 1 .. m
      /\ DOMAIN order = 1 .. n
  BY DEF TypeOK
<1>2. /\ all \in Seq(Session) /\ Len(all) = m + n
      /\ \A j \in 1 .. m + n : all[j] = IF j <= m THEN retained[j] ELSE order[j - m]
  BY <1>1, ConcatProperties
<1>3. DOMAIN all = 1 .. m + n
  BY <1>2
<1> HIDE DEF m, n, all
<1>4. \A j \in 1 .. m + n :
        \/ j <= m /\ j \in DOMAIN retained /\ all[j] = retained[j] /\ host[all[j]].life = "terminal"
        \/ j > m /\ j - m \in DOMAIN order /\ all[j] = order[j - m] /\ host[all[j]].life # "terminal"
  <2> TAKE j \in 1 .. m + n
  <2>1. CASE j <= m
    BY <1>1, <1>2, <2>1 DEF RetainedOK
  <2>2. CASE j > m
    <3>1. j - m \in 1 .. n
      BY <1>1, <2>2
    <3> QED BY <1>1, <1>2, <2>2, <3>1
  <2> QED BY <1>1, <2>1, <2>2
<1>5. Distinct(all)
  <2> SUFFICES ASSUME NEW i \in 1 .. m + n, NEW j \in 1 .. m + n, all[i] = all[j] PROVE i = j
    BY <1>3 DEF Distinct
  <2>1. CASE i <= m
    BY <1>1, <1>4, <2>1 DEF RetainedOK
  <2>2. CASE i > m
    <3>1. i - m = j - m
      BY <1>1, <1>4, <2>2 DEF Distinct
    <3> QED BY <1>1, <3>1
  <2> QED BY <1>1, <2>1, <2>2
<1>6. \A i \in DOMAIN order : m + i \in DOMAIN all /\ all[m + i] = order[i]
  <2>1. \A i \in 1 .. n : m + i \in 1 .. m + n /\ ~(m + i <= m) /\ (m + i) - m = i
    BY <1>1
  <2>2. \A i \in 1 .. n : all[m + i] = order[i]
    BY <1>2, <2>1
  <2> QED BY <1>1, <1>3, <2>1, <2>2
<1> QED BY <1>2, <1>3, <1>4, <1>5, <1>6 DEF m, n, all

\* What a step that ends sessions in order leaves.
Ending(order, ended) ==
    /\ order \in Seq(Session) /\ Distinct(order)
    /\ \A i \in DOMAIN order : host[order[i]].life # "terminal"
    /\ \A i \in DOMAIN order :
          /\ Sound(ended[order[i]], view) /\ Announced(ended[order[i]])
          /\ Shrinks(At(order[i]), ended[order[i]])
          /\ \/ ended[order[i]].host.life = "terminal"
             \/ order[i] \in Evicted(retained \o order)

\* The sessions that end are left in order, their records and the earlier ones
\* are retained or go.
LEMMA EndsAll ==
    ASSUME DeliveryInv, NEW order, NEW ended, Ending(order, ended), EndAll(order, ended),
           view' = view
    PROVE  /\ SessionsShrink /\ RetainedOK' /\ retained' \in Seq(Session)
           /\ \A s \in Session : \A a \in bus[s].leases \ bus'[s].leases :
                 \E i \in DOMAIN order : s = order[i] /\ a \notin ended[s].bus.leases
           /\ (\A i \in DOMAIN order : order[i] \in Evicted(retained \o order) =>
                  \/ ended[order[i]].host.life = "terminal"
                  \/ ended[order[i]].bus.leases = {}
                  \/ ended[order[i]].bus.terminalized)
              => GoneReserved
<1> DEFINE records == retained \o order
           In(s) == \E i \in DOMAIN order : order[i] = s
           L(s) == IF In(s) THEN ended[s] ELSE At(s)
           F(s) == IF s \in Evicted(records) THEN Gone(L(s)) ELSE L(s)
<1>0. TypeOK /\ SessionsSound /\ RetainedOK
  BY DEF DeliveryInv
<1>1. /\ retained' = Kept(records)
      /\ host' = [s \in Session |-> F(s).host]
      /\ bus' = [s \in Session |-> F(s).bus]
  BY DEF EndAll
<1>2. /\ records \in Seq(Session) /\ Distinct(records)
      /\ \A j \in DOMAIN records : In(records[j]) \/ host[records[j]].life = "terminal"
  <2>1. order \in Seq(Session) /\ Distinct(order) /\ \A i \in DOMAIN order : host[order[i]].life # "terminal"
    BY DEF Ending
  <2>2. records \in Seq(Session) /\ Distinct(records)
    BY <1>0, <2>1, RecordsJoin
  <2>3. \A j \in DOMAIN records :
                 \/ \E i \in DOMAIN order : records[j] = order[i]
                 \/ host[records[j]].life = "terminal"
    BY <1>0, <2>1, RecordsJoin
  <2> QED BY <2>2, <2>3
<1>3. /\ Kept(records) \in Seq(Session) /\ Distinct(Kept(records))
      /\ \A i \in DOMAIN Kept(records) : \E j \in DOMAIN records :
            Kept(records)[i] = records[j] /\ records[j] \notin Evicted(records)
      /\ \A s \in Evicted(records) : \E j \in DOMAIN records : s = records[j]
  BY <1>2, RetentionIs
<1> HIDE DEF records
<1>4. ASSUME NEW s \in Session
      PROVE  Sound(L(s), view) /\ Announced(L(s)) /\ Shrinks(At(s), L(s))
  <2>1. CASE In(s)
    BY <2>1 DEF Ending
  <2>2. CASE ~In(s)
    BY <2>2, AtSound DEF Shrinks
  <2> QED BY <2>1, <2>2
<1>5. ASSUME NEW s \in Session
      PROVE  Sound(F(s), view) /\ Announced(F(s)) /\ Shrinks(At(s), F(s)) /\ F(s).bus = L(s).bus
  <2> HIDE DEF L
  <2>1. CASE s \in Evicted(records)
    <3>1. Sound(Gone(L(s)), view) /\ Announced(Gone(L(s))) /\ Narrows(L(s), Gone(L(s)))
          /\ Gone(L(s)).bus = L(s).bus
      BY <1>4, Goes
    <3>2. Shrinks(At(s), Gone(L(s)))
      BY <1>4, <3>1, NarrowsShrinks, ShrinksTwice
    <3> QED BY <2>1, <3>1, <3>2
  <2>2. CASE s \notin Evicted(records)
    BY <1>4, <2>2
  <2> QED BY <2>1, <2>2
<1>6. \A s \in Session : host'[s] = F(s).host /\ bus'[s] = F(s).bus
  BY <1>1
<1>7. \A s \in Session : F(s).host \in HostState /\ F(s).bus \in Bus
  <2> HIDE DEF F
  <2> QED BY <1>5, LocalFields DEF Sound
<1>8. SessionsShrink
  <2>1. host' \in [Session -> HostState] /\ bus' \in [Session -> Bus]
    <3> HIDE DEF F
    <3> QED BY <1>1, <1>7
  <2>2. ASSUME NEW s \in Session
        PROVE  Sound(After(s), view') /\ Announced(After(s)) /\ Shrinks(At(s), After(s))
    <3> HIDE DEF F
    <3> QED BY <1>0, <1>5, <1>6, SessionBecomes
  <2> QED BY <2>1, <2>2 DEF SessionsShrink, SessionsStep
<1>9. \A j \in DOMAIN records : records[j] \in Session
  BY <1>2
<1>10. RetainedOK'
  <2>1. \A i \in DOMAIN retained' : host'[retained'[i]].life = "terminal"
    <3> SUFFICES ASSUME NEW i \in DOMAIN Kept(records)
                 PROVE  host'[Kept(records)[i]].life = "terminal"
      BY <1>1
    <3>1. PICK j \in DOMAIN records : Kept(records)[i] = records[j] /\ records[j] \notin Evicted(records)
      BY <1>3
    <3>2. host'[records[j]] = L(records[j]).host
      BY <1>6, <1>9, <3>1
    <3>3. L(records[j]).host.life = "terminal"
      <4>1. CASE In(records[j])
        BY <3>1, <4>1 DEF Ending, records
      <4>2. CASE ~In(records[j])
        BY <1>2, <1>9, <4>2, AtSound
      <4> QED BY <4>1, <4>2
    <3> QED BY <3>1, <3>2, <3>3
  <2>2. \A i, j \in DOMAIN retained' : retained'[i] = retained'[j] => i = j
    BY <1>1, <1>3 DEF Distinct
  <2> QED BY <2>1, <2>2 DEF RetainedOK
<1>11. \A s \in Session : \A a \in bus[s].leases \ bus'[s].leases :
                 \E i \in DOMAIN order : s = order[i] /\ a \notin ended[s].bus.leases
  <2> SUFFICES ASSUME NEW s \in Session, NEW a \in bus[s].leases \ bus'[s].leases
               PROVE  In(s) /\ a \notin ended[s].bus.leases
    OBVIOUS
  <2>1. bus'[s] = L(s).bus
    <3> HIDE DEF F, L
    <3> QED BY <1>5, <1>6
  <2> QED BY <2>1, AtSound
<1>12. ASSUME \A i \in DOMAIN order : order[i] \in Evicted(retained \o order) =>
                  \/ ended[order[i]].host.life = "terminal"
                  \/ ended[order[i]].bus.leases = {}
                  \/ ended[order[i]].bus.terminalized
       PROVE  GoneReserved
  <2> SUFFICES ASSUME NEW s \in Session, host'[s].life = "gone", host[s].life # "gone"
               PROVE  bus'[s].leases = {} \/ bus'[s].terminalized
    <3>1. \A s \in Session : Shrinks(At(s), After(s))
      BY <1>8 DEF SessionsShrink
    <3> QED BY <3>1 DEF GoneReserved, Shrinks, At, After
  <2>1. bus'[s] = L(s).bus
    <3> HIDE DEF F, L
    <3> QED BY <1>5, <1>6
  <2>2. CASE s \in Evicted(records)
    <3>1. \/ L(s).host.life = "terminal" \/ L(s).bus.leases = {} \/ L(s).bus.terminalized
      <4>1. CASE In(s)
        BY <1>12, <2>2, <4>1 DEF records
      <4>2. CASE ~In(s)
        BY <1>2, <1>3, <2>2, <4>2, AtSound
      <4> QED BY <4>1, <4>2
    <3> HIDE DEF L
    <3> QED BY <1>4, <2>1, <3>1, EndedReserves
  <2>3. CASE s \notin Evicted(records)
    <3>1. host'[s] = L(s).host
      BY <1>6, <2>3
    <3>2. CASE In(s)
      BY <2>3, <3>1, <3>2 DEF Ending, records
    <3>3. CASE ~In(s)
      BY <3>1, <3>3, AtSound
    <3> QED BY <3>2, <3>3
  <2> QED BY <2>2, <2>3
<1> QED BY <1>1, <1>3, <1>8, <1>10, <1>11, <1>12

\* The sessions that end together, each once.
LEMMA OrdersAre ==
    ASSUME NEW S \in SUBSET Session, NEW order \in Orders(S)
    PROVE  /\ order \in Seq(Session) /\ Distinct(order)
           /\ \A i \in DOMAIN order : order[i] \in S
           /\ \A s \in S : \E i \in DOMAIN order : order[i] = s
           /\ Len(order) = Cardinality(S)
<1> DEFINE n == Cardinality(S)
<1>1. IsFiniteSet(S) /\ n \in Nat
  BY DeliveryAssumption, FS_Subset, FS_CardinalityType
<1>2. /\ order \in [1 .. n -> S] /\ DOMAIN order = 1 .. n
      /\ \A s \in S : \E i \in 1 .. n : order[i] = s
  BY DEF Orders
<1>3. IsFiniteSet(1 .. n) /\ Cardinality(1 .. n) = n
  <2> HIDE DEF n
  <2>1. 1 \in Int /\ n \in Int
    BY <1>1
  <2>2. IsFiniteSet(1 .. n) /\ Cardinality(1 .. n) = IF 1 > n THEN 0 ELSE n - 1 + 1
    BY <2>1, FS_Interval
  <2> QED BY <1>1, <2>2
<1>4. order \in Surjection(1 .. n, S)
  BY <1>2 DEF Surjection
<1>5. order \in Injection(1 .. n, S)
  BY <1>1, <1>3, <1>4, FS_SurjSameCardinalityImpliesInj
<1>6. Distinct(order)
  BY <1>2, <1>5 DEF Injection, IsInjective, Distinct
<1>7. order \in Seq(Session) /\ Len(order) = n
  <2> HIDE DEF n
  <2> QED BY <1>1, <1>2
<1> QED BY <1>2, <1>6, <1>7

\* A session that ended, with everything it had to announce.
LEMMA Finishes ==
    ASSUME NEW l, NEW v \in Views, Sound(l, v)
    PROVE  /\ Sound(Finish(l), v) /\ Announced(Finish(l)) /\ Narrows(l, Finish(l))
           /\ Finish(l).host.life = l.host.life
<1> DEFINE m == FlushEvents(l)
<1>1. Sound(m, v) /\ Announced(m) /\ Narrows(l, m) /\ m.host.life = l.host.life
  BY Flushes
<1>2. Finish(l) = MaybeForget(m)
  BY DEF Finish
<1> HIDE DEF m
<1>3. Sound(MaybeForget(m), v) /\ Narrows(m, MaybeForget(m)) /\ MaybeForget(m).host = m.host
      /\ Announced(MaybeForget(m))
  BY <1>1, Forgets
<1>4. Narrows(l, MaybeForget(m))
  BY <1>1, <1>3, NarrowsTwice
<1> QED BY <1>1, <1>2, <1>3, <1>4

\* A live session that is stopped.
LEMMA Stops ==
    ASSUME DeliveryInv, NEW s \in Session, IsLive(At(s)), NEW n \in Nat, NEW drain \in BOOLEAN
    PROVE  /\ Sound(Stopped(s, n, drain), view) /\ Announced(Stopped(s, n, drain))
           /\ Narrows(At(s), Stopped(s, n, drain))
           /\ Stopped(s, n, drain).host.life = "terminal"
<1> DEFINE m == IF drain THEN Announce(At(s)) ELSE At(s)
           k == HostTerminate(m, n)
<1>0. Sound(At(s), view) /\ view \in Views
  BY AtSound
<1>1. Sound(m, view) /\ Narrows(At(s), m) /\ IsLive(m)
  <2>1. CASE drain
    <3>1. Sound(Announce(At(s)), view) /\ Narrows(At(s), Announce(At(s)))
          /\ Announce(At(s)).host.life = At(s).host.life
      BY <1>0, Announces1
    <3> QED BY <2>1, <3>1 DEF IsLive
  <2>2. CASE ~drain
    BY <1>0, <2>2 DEF Narrows
  <2> QED BY <2>1, <2>2
<1>2. Stopped(s, n, drain) = Finish(k)
  BY DEF Stopped
<1> HIDE DEF m
<1>3. Sound(k, view) /\ Narrows(m, k) /\ k.host.life = "terminal"
  BY <1>1, Terminates
<1> HIDE DEF k
<1>4. Sound(Finish(k), view) /\ Announced(Finish(k)) /\ Narrows(k, Finish(k))
      /\ Finish(k).host.life = k.host.life
  BY <1>0, <1>3, Finishes
<1>5. Narrows(At(s), Finish(k))
  BY <1>1, <1>3, <1>4, NarrowsTwice
<1> QED BY <1>2, <1>3, <1>4, <1>5

\* The sessions that a stop ends.
LEMMA StopEnds ==
    ASSUME DeliveryInv, NEW S \in SUBSET LiveSessions, NEW order \in Orders(S),
           NEW bumps \in [S -> {0, 1}], NEW drain \in BOOLEAN,
           NEW ended, ended = [s \in S |-> Stopped(s, bumps[s], drain)]
    PROVE  /\ Ending(order, ended)
           /\ \A s \in S : bus[s].leases \ ended[s].bus.leases \subseteq ended[s].lost
           /\ \A s \in S : ended[s].lost \in SUBSET AttachId
           /\ \A i \in DOMAIN order : order[i] \in S /\ ended[order[i]].host.life = "terminal"
<1>1. S \in SUBSET Session /\ \A s \in S : IsLive(At(s)) /\ host[s].life = "live"
  BY DEF LiveSessions, IsLive, At
<1>2. order \in Seq(Session) /\ Distinct(order) /\ \A i \in DOMAIN order : order[i] \in S
  BY <1>1, OrdersAre
<1>3. ASSUME NEW s \in S
      PROVE  /\ Sound(ended[s], view) /\ Announced(ended[s]) /\ Narrows(At(s), ended[s])
             /\ ended[s].host.life = "terminal"
  <2>1. ended[s] = Stopped(s, bumps[s], drain) /\ s \in Session /\ bumps[s] \in Nat
    BY <1>1
  <2> QED BY <1>1, <2>1, Stops
<1>4. Ending(order, ended)
  BY <1>1, <1>2, <1>3, NarrowsShrinks DEF Ending
<1>5. \A s \in S : bus[s].leases \ ended[s].bus.leases \subseteq ended[s].lost
  BY <1>1, <1>3, AtSound DEF Narrows
<1>6. \A s \in S : ended[s].lost \in SUBSET AttachId
  BY <1>3, LocalFields DEF Sound
<1> QED BY <1>2, <1>3, <1>4, <1>5, <1>6

\* The invariant after a request that ends sessions.
LEMMA RequestEnds ==
    ASSUME DeliveryInv, NEW c \in Conn, CanRead(c), turn' = Turn(c, "read"), Reply(c),
           NEW order, NEW ended, Ending(order, ended), EndAll(order, ended),
           \A i \in DOMAIN order : ended[order[i]].host.life = "terminal",
           closedLeases' \subseteq AttachId,
           \A i \in DOMAIN order :
                bus[order[i]].leases \ ended[order[i]].bus.leases \subseteq closedLeases',
           daemon' \in {"running", "stopping", "exited"},
           finals' = finals, sessionOf' = sessionOf, view' = view
    PROVE  Preserved
<1> DEFINE q == Replied(peer[c])
<1>0. TypeOK
  BY DEF DeliveryInv
<1>1. SessionsShrink /\ RetainedOK' /\ retained' \in Seq(Session)
  BY EndsAll
<1>2. \A s \in Session : \A a \in bus[s].leases \ bus'[s].leases :
                 \E i \in DOMAIN order : s = order[i] /\ a \notin ended[s].bus.leases
  BY EndsAll
<1>3. GoneReserved
  BY EndsAll
<1>4. q \in Peer /\ q.output = peer[c].output + 1 /\ q.owned \subseteq peer[c].owned
      /\ q.events = peer[c].events
  <2>1. q \in Peer /\ q.output = peer[c].output + 1 /\ q.owned = peer[c].owned
        /\ q.events = peer[c].events
    BY <1>0, PeerFields DEF TypeOK
  <2> HIDE DEF q
  <2> QED BY <2>1
<1>5. peer' = [peer EXCEPT ![c] = q]
  BY DEF Reply
<1> HIDE DEF q
<1>6. view' \in Views /\ finals' \in [AttachId -> Seq(Frame)]
      /\ \A a \in AttachId : finals'[a] # <<>> => finals[a] # <<>>
  BY <1>0, AtSound DEF TypeOK, Views, View
<1>7. DeliveryInv'
  BY <1>1, <1>4, <1>5, <1>6, RequestKeeps, Zenon
<1>8. Leaves
  BY <1>2 DEF Leaves, Reported
<1> QED BY <1>3, <1>7, <1>8 DEF Preserved

\* daemon.stop keeps the invariant.
LEMMA DaemonStopStep ==
    ASSUME DeliveryInv, NEW c \in Conn, NEW drain \in BOOLEAN, DaemonStop(c, drain)
    PROVE  Preserved
<1>1. PICK order \in Orders(LiveSessions), bumps \in [LiveSessions -> {0, 1}] :
         LET ended == [s \in LiveSessions |-> Stopped(s, bumps[s], drain)]
         IN /\ EndAll(order, ended)
            /\ closedLeases' = closedLeases \cup LostOf(LiveSessions, ended)
  BY DEF DaemonStop
<1> DEFINE ended == [s \in LiveSessions |-> Stopped(s, bumps[s], drain)]
<1>2. EndAll(order, ended) /\ closedLeases' = closedLeases \cup LostOf(LiveSessions, ended)
  BY <1>1
<1>3. /\ Ending(order, ended)
      /\ \A s \in LiveSessions : bus[s].leases \ ended[s].bus.leases \subseteq ended[s].lost
      /\ \A s \in LiveSessions : ended[s].lost \in SUBSET AttachId
      /\ \A i \in DOMAIN order : order[i] \in LiveSessions /\ ended[order[i]].host.life = "terminal"
  <2>1. LiveSessions \in SUBSET LiveSessions /\ ended = [s \in LiveSessions |-> Stopped(s, bumps[s], drain)]
    OBVIOUS
  <2> HIDE DEF ended
  <2> QED BY <2>1, StopEnds
<1> HIDE DEF ended
<1>4. CanRead(c) /\ turn' = Turn(c, "read") /\ Reply(c) /\ daemon' = "stopping"
      /\ finals' = finals /\ sessionOf' = sessionOf /\ view' = view
  BY DEF DaemonStop, Reading
<1>5. closedLeases' \subseteq AttachId
  BY <1>2, <1>3 DEF DeliveryInv, TypeOK, LostOf
<1>6. \A i \in DOMAIN order :
                bus[order[i]].leases \ ended[order[i]].bus.leases \subseteq closedLeases'
  BY <1>2, <1>3 DEF LostOf
<1>7. daemon' \in {"running", "stopping", "exited"}
      /\ \A i \in DOMAIN order : ended[order[i]].host.life = "terminal"
  BY <1>3, <1>4
<1> QED BY <1>2, <1>3, <1>4, <1>5, <1>6, <1>7, RequestEnds, Zenon

\* session.stop of a session whose worker never bound keeps the invariant.
LEMMA CancelPreBindStep ==
    ASSUME DeliveryInv, NEW c \in Conn, NEW s \in Session, CancelPreBind(c, s)
    PROVE  Preserved
<1> DEFINE ended == [r \in {s} |-> Stopped(s, 0, FALSE)]
           order == <<s>>
<1>1. /\ EndAll(order, ended) /\ closedLeases' = closedLeases \cup ended[s].lost
      /\ IsLive(At(s)) /\ CanRead(c) /\ turn' = Turn(c, "read") /\ Reply(c) /\ daemon' = daemon
      /\ finals' = finals /\ sessionOf' = sessionOf /\ view' = view
  BY DEF CancelPreBind, Reading
<1>2. /\ Sound(ended[s], view) /\ Announced(ended[s])
      /\ Narrows(At(s), ended[s])
      /\ ended[s].host.life = "terminal"
  <2>1. ended[s] = Stopped(s, 0, FALSE)
    OBVIOUS
  <2> HIDE DEF ended
  <2> QED BY <1>1, <2>1, Stops
<1>3. order \in Seq(Session) /\ DOMAIN order = {1} /\ order[1] = s
  OBVIOUS
<1> HIDE DEF ended, order
<1>4. host[s].life = "live"
  BY <1>1, AtSound DEF IsLive
<1>5. Ending(order, ended)
  BY <1>2, <1>3, <1>4, NarrowsShrinks DEF Ending, Distinct
<1>6. \A i \in DOMAIN order : ended[order[i]].host.life = "terminal"
  BY <1>2, <1>3
<1>7. closedLeases' \subseteq AttachId
  BY <1>1, <1>2, LocalFields DEF DeliveryInv, TypeOK, Sound
<1>8. \A i \in DOMAIN order :
                bus[order[i]].leases \ ended[order[i]].bus.leases \subseteq closedLeases'
  BY <1>1, <1>2, <1>3, AtSound DEF Narrows
<1>9. daemon' \in {"running", "stopping", "exited"}
  BY <1>1 DEF DeliveryInv, TypeOK
<1> QED BY <1>1, <1>5, <1>6, <1>7, <1>8, <1>9, RequestEnds, Zenon

\* A record that ends before anybody listened to it.
LEMMA SpawnFailedIs ==
    ASSUME NEW v
    PROVE  /\ Sound(SpawnFailed, v) /\ Announced(SpawnFailed)
           /\ SpawnFailed.host.life = "terminal" /\ SpawnFailed.bus.leases = {}
           /\ SpawnFailed.host.leases = {}
<1> DEFINE h == [Absent EXCEPT !.life = "terminal", !.revision = 1]
<1>1. h \in HostState /\ h.life = "terminal" /\ h.leases = {} /\ h.expired = {}
  BY DEF HostState, Absent
<1>2. SpawnFailed = [host |-> h, bus |-> Untracked, lost |-> {}]
  BY DEF SpawnFailed
<1> HIDE DEF h
<1>3. SpawnFailed \in Local /\ SpawnFailed.host = h /\ SpawnFailed.bus = Untracked
  BY <1>1, <1>2, FreshBus DEF Local
<1>4. HostFits(SpawnFailed)
  BY <1>1, <1>3, FreshBus DEF HostFits, IsLive
<1> QED BY <1>1, <1>3, <1>4, FreshBus DEF Sound, Announced

\* session.create keeps the invariant, whether the spawn succeeds or fails.
LEMMA CreateStep ==
    ASSUME DeliveryInv, NEW c \in Conn, NEW s \in Session, Create(c, s)
    PROVE  Preserved
<1>1. /\ Reading(c) /\ host[s] = Absent /\ Reply(c)
      /\ UNCHANGED <<finals, sessionOf, daemon, view>>
  BY DEF Create
<1>2. CASE \E n \in {0, 1} :
            /\ Commit(s, FlushEvents([host |-> [Absent EXCEPT !.life = "live", !.revision = n],
                                      bus |-> Registered, lost |-> {}]))
            /\ UNCHANGED retained
  BY <1>1, <1>2, CreatedStep, Zenon
<1>3. CASE EndAll(<<s>>, [r \in {s} |-> SpawnFailed]) /\ UNCHANGED closedLeases
  <2> DEFINE ended == [r \in {s} |-> SpawnFailed]
             order == <<s>>
  <2>1. /\ EndAll(order, ended) /\ closedLeases' = closedLeases
        /\ CanRead(c) /\ turn' = Turn(c, "read") /\ daemon' = daemon
        /\ finals' = finals /\ sessionOf' = sessionOf /\ view' = view
    BY <1>1, <1>3 DEF Reading
  <2>2. order \in Seq(Session) /\ DOMAIN order = {1} /\ order[1] = s /\ ended[s] = SpawnFailed
    OBVIOUS
  <2> HIDE DEF ended, order
  <2>3. /\ Sound(ended[s], view) /\ Announced(ended[s])
        /\ ended[s].host.life = "terminal" /\ ended[s].bus.leases = {} /\ ended[s].host.leases = {}
    BY <2>2, SpawnFailedIs
  <2>4. host[s].life = "absent"
    BY <1>1 DEF Absent
  <2>5. bus[s].leases = {} /\ ~bus[s].terminalized
    BY <2>4, AtSound DEF Sound, HostFits, BusOK
  <2>6. Shrinks(At(s), ended[s])
    BY <2>3, <2>5, AtSound DEF Shrinks, Unserved
  <2>7. Ending(order, ended)
    BY <2>2, <2>3, <2>4, <2>6 DEF Ending, Distinct
  <2>8. \A i \in DOMAIN order : ended[order[i]].host.life = "terminal"
    BY <2>2, <2>3
  <2>9. closedLeases' \subseteq AttachId /\ daemon' \in {"running", "stopping", "exited"}
    BY <2>1 DEF DeliveryInv, TypeOK
  <2>10. \A i \in DOMAIN order :
                bus[order[i]].leases \ ended[order[i]].bus.leases \subseteq closedLeases'
    BY <2>2, <2>5
  <2> QED BY <1>1, <2>1, <2>7, <2>8, <2>9, <2>10, RequestEnds, Zenon
<1> QED BY <1>2, <1>3 DEF Create

-----------------------------------------------------------------------------
(* The ticks between the turns.                                             *)

\* A tick leaves a connection as it is or retires it.
Ticked ==
    /\ peer' \in [Conn -> Peer]
    /\ \A c \in Conn : peer'[c] = peer[c] \/ (Connected(c) /\ peer'[c] = Retire(peer[c]))

\* The invariant after a tick.
LEMMA TickKeeps ==
    ASSUME DeliveryInv, SessionsShrink, turn = Idle, turn' = turn, Ticked,
           sessionOf' = sessionOf, finals' = finals, view' = view,
           daemon' \in {"running", "stopping", "exited"}, closedLeases' \subseteq AttachId,
           retained' \in Seq(Session), RetainedOK'
    PROVE  DeliveryInv'
<1>0. TypeOK /\ Belong /\ FinalsLast /\ Served /\ Buffered
  BY DEF DeliveryInv
<1>1. \A c \in Conn : /\ peer'[c].owned = peer[c].owned /\ peer'[c].output = peer[c].output
                      /\ peer'[c].events = peer[c].events
                      /\ peer'[c].phase = peer[c].phase \/ (Connected(c) /\ peer'[c].phase = "retired")
  <2> TAKE c \in Conn
  <2>1. peer[c] \in Peer
    BY <1>0 DEF TypeOK
  <2>2. /\ Retire(peer[c]).output = peer[c].output /\ Retire(peer[c]).owned = peer[c].owned
        /\ Retire(peer[c]).events = peer[c].events /\ Retire(peer[c]).phase = "retired"
    BY <2>1, PeerFields
  <2> QED BY <2>2 DEF Ticked
<1>2. \A c \in Conn : peer'[c].phase # "closed" => peer[c].phase # "closed"
  BY <1>1 DEF Connected
<1>3. Buffered'
  BY <1>0, <1>1, TurnIs DEF Buffered, Open
<1>4. \A c \in Conn : peer'[c].owned \subseteq peer[c].owned
  BY <1>1
<1>5. \A c \in Conn : peer'[c].phase # "closed" /\ peer'[c].events /\ peer'[c].owned # {} =>
                              peer[c].phase # "closed" /\ peer[c].events
  BY <1>1, <1>2
<1>6. Belong' /\ FinalsLast' /\ Served'
  BY <1>0, <1>4, <1>5, ShrinkKeeps
<1>7. TurnTyped
  BY DEF TurnTyped
<1>8. RestTyped
  BY <1>0, <1>7 DEF RestTyped, TypeOK, Ticked, Views, View
<1> QED BY <1>3, <1>6, <1>8, InvAfter DEF SessionsShrink

\* The signal drain keeps the invariant.
LEMMA SignalStopStep ==
    ASSUME DeliveryInv, SignalStop
    PROVE  Preserved
<1>1. PICK order \in Orders(LiveSessions), bumps \in [LiveSessions -> {0, 1}] :
         LET ended == [s \in LiveSessions |-> Stopped(s, bumps[s], TRUE)]
         IN /\ EndAll(order, ended)
            /\ closedLeases' = closedLeases \cup LostOf(LiveSessions, ended)
  BY DEF SignalStop
<1> DEFINE ended == [s \in LiveSessions |-> Stopped(s, bumps[s], TRUE)]
           drain == TRUE
<1>2. EndAll(order, ended) /\ closedLeases' = closedLeases \cup LostOf(LiveSessions, ended)
  BY <1>1
<1>3. /\ Ending(order, ended)
      /\ \A s \in LiveSessions : bus[s].leases \ ended[s].bus.leases \subseteq ended[s].lost
      /\ \A s \in LiveSessions : ended[s].lost \in SUBSET AttachId
      /\ \A i \in DOMAIN order : order[i] \in LiveSessions /\ ended[order[i]].host.life = "terminal"
  <2>1. LiveSessions \in SUBSET LiveSessions /\ drain \in BOOLEAN
        /\ ended = [s \in LiveSessions |-> Stopped(s, bumps[s], drain)]
    OBVIOUS
  <2> HIDE DEF ended, drain
  <2> QED BY <2>1, StopEnds
<1> HIDE DEF ended
<1>4. /\ turn = Idle /\ turn' = turn /\ daemon' = "stopping" /\ peer' = peer
      /\ finals' = finals /\ sessionOf' = sessionOf /\ view' = view
  BY DEF SignalStop
<1>5. closedLeases' \subseteq AttachId
  BY <1>2, <1>3 DEF DeliveryInv, TypeOK, LostOf
<1>6. SessionsShrink /\ RetainedOK' /\ retained' \in Seq(Session)
  BY <1>2, <1>3, <1>4, EndsAll
<1>7. \A s \in Session : \A a \in bus[s].leases \ bus'[s].leases :
                 \E i \in DOMAIN order : s = order[i] /\ a \notin ended[s].bus.leases
  BY <1>2, <1>3, <1>4, EndsAll
<1>8. GoneReserved
  BY <1>2, <1>3, <1>4, EndsAll
<1>9. Leaves
  BY <1>2, <1>3, <1>7 DEF Leaves, Reported, LostOf
<1>10. Ticked
  BY <1>4 DEF Ticked, DeliveryInv, TypeOK
<1>11. DeliveryInv'
  BY <1>4, <1>5, <1>6, <1>10, TickKeeps
<1> QED BY <1>8, <1>9, <1>11 DEF Preserved

\* A lease that a tick loses is reported: its owner retires, or has gone and
\* nobody is left to be told.
LEMMA TickReports ==
    ASSUME TypeOK, NEW lost,
           closedLeases' = {a \in lost : \A c \in Owner(a) : ~Connected(c)},
           peer' = [c \in Conn |->
                     IF Connected(c) /\ peer[c].owned \cap lost # {} THEN Retire(peer[c])
                     ELSE peer[c]]
    PROVE  Ticked /\ \A s : \A a \in lost : Reported(s, a)
<1>0. \A c \in Conn : peer[c] \in Peer /\ Retire(peer[c]) \in Peer /\ Retire(peer[c]).phase = "retired"
  <2> TAKE c \in Conn
  <2>1. peer[c] \in Peer
    BY DEF TypeOK
  <2> QED BY <2>1, PeerFields
<1>1. Ticked
  BY <1>0 DEF Ticked
<1>2. ASSUME NEW s, NEW a \in lost
      PROVE  Reported(s, a)
  <2>1. CASE \A c \in Owner(a) : ~Connected(c)
    BY <2>1 DEF Reported
  <2>2. CASE \E c \in Owner(a) : Connected(c)
    <3>1. PICK c \in Owner(a) : Connected(c)
      BY <2>2
    <3>2. c \in Conn /\ peer'[c] = Retire(peer[c])
      BY <3>1 DEF Owner
    <3>3. peer'[c].phase = "retired"
      BY <1>0, <3>2
    <3> QED BY <3>1, <3>3 DEF Reported
  <2> QED BY <2>1, <2>2
<1> QED BY <1>1, <1>2

\* A tick that commits one session keeps the invariant, when its records do.
LEMMA TickCommits ==
    ASSUME DeliveryInv, turn = Idle, turn' = turn, NEW s \in Session, NEW l, CommitTick(s, l),
           Sound(l, view), Announced(l), Shrinks(At(s), l),
           bus[s].leases \ l.bus.leases \subseteq l.lost,
           sessionOf' = sessionOf, finals' = finals, view' = view, daemon' = daemon,
           retained' \in Seq(Session),
           (RetainedOK' /\ GoneReserved) \/ (retained' = retained /\ l.host.life = host[s].life)
    PROVE  Preserved
<1>0. TypeOK /\ SessionsSound /\ RetainedOK
  BY DEF DeliveryInv
<1> DEFINE lost == closedLeases \cup l.lost
<1>1. /\ host' = [host EXCEPT ![s] = l.host] /\ bus' = [bus EXCEPT ![s] = l.bus]
      /\ closedLeases' = {a \in lost : \A c \in Owner(a) : ~Connected(c)}
      /\ peer' = [c \in Conn |->
                     IF Connected(c) /\ peer[c].owned \cap lost # {} THEN Retire(peer[c])
                     ELSE peer[c]]
  BY DEF CommitTick
<1>2. l.lost \in SUBSET AttachId
  BY LocalFields DEF Sound
<1>3. closedLeases' \subseteq AttachId
  BY <1>0, <1>1, <1>2 DEF TypeOK
<1>4. l.lost \subseteq lost
  OBVIOUS
<1> HIDE DEF lost
<1>5. Ticked /\ \A r : \A a \in lost : Reported(r, a)
  BY <1>0, <1>1, TickReports
<1>6. /\ SessionsShrink
      /\ \A r \in Session : r # s => bus'[r] = bus[r] /\ host'[r] = host[r]
      /\ bus'[s] = l.bus /\ host'[s] = l.host
  BY <1>0, <1>1, Commits
<1>7. RetainedOK' /\ GoneReserved
  <2>1. CASE retained' = retained /\ l.host.life = host[s].life
    <3>1. RecordsStay
      BY <1>6, <2>1 DEF RecordsStay, SessionsShrink
    <3> QED BY <1>0, <2>1, <3>1, RecordsAfter
  <2> QED BY <2>1
<1>8. Leaves
  BY <1>4, <1>5, <1>6 DEF Leaves
<1>9. daemon' \in {"running", "stopping", "exited"}
  BY <1>0 DEF TypeOK
<1>10. DeliveryInv'
  BY <1>3, <1>5, <1>6, <1>7, <1>9, TickKeeps, Zenon
<1> QED BY <1>7, <1>8, <1>10 DEF Preserved

\* The sweep of the grants keeps the invariant.
LEMMA SweepGrantsStep ==
    ASSUME DeliveryInv, NEW s \in Session, SweepGrants(s)
    PROVE  Preserved
<1> DEFINE l == FlushEvents(HostBump(At(s), 1))
<1>1. /\ turn = Idle /\ turn' = turn /\ CommitTick(s, l) /\ sessionOf' = sessionOf
      /\ finals' = finals /\ view' = view /\ daemon' = daemon /\ retained' = retained
  BY DEF SweepGrants
<1>2. Sound(l, view) /\ Announced(l) /\ Narrows(At(s), l) /\ l.host.life = host[s].life
  BY BumpIs
<1> HIDE DEF l
<1>3. Shrinks(At(s), l)
  BY <1>2, NarrowsShrinks
<1>4. bus[s].leases \ l.bus.leases \subseteq l.lost
  BY <1>2, AtSound DEF Narrows
<1>5. retained' \in Seq(Session)
  BY <1>1 DEF DeliveryInv, TypeOK
<1> QED BY <1>1, <1>2, <1>3, <1>4, <1>5, TickCommits

\* The lapse of a lease keeps the invariant.
LEMMA LeaseExpiresStep ==
    ASSUME DeliveryInv, NEW s \in Session, NEW a \in AttachId, LeaseExpires(s, a)
    PROVE  Preserved
<1> DEFINE h == [host[s] EXCEPT !.expired = @ \cup {a}]
           l == [At(s) EXCEPT !.host = h]
<1>0. TypeOK /\ SessionsSound /\ RetainedOK
  BY DEF DeliveryInv
<1>1. /\ turn = Idle /\ turn' = turn /\ a \in host[s].leases \ host[s].expired
      /\ host' = [host EXCEPT ![s] = h] /\ bus' = bus /\ closedLeases' = closedLeases
      /\ retained' = retained /\ finals' = finals /\ sessionOf' = sessionOf /\ view' = view
      /\ peer' = peer /\ daemon' = daemon
  BY <1>0 DEF LeaseExpires, TypeOK
<1>2. /\ Sound(At(s), view) /\ Announced(At(s)) /\ At(s) \in Local
      /\ At(s).host = host[s] /\ At(s).bus = bus[s]
      /\ host[s] \in HostState /\ host[s].expired \in SUBSET AttachId
  BY AtSound, LocalFields
<1>3. /\ h \in HostState /\ h.life = host[s].life /\ h.leases = host[s].leases
      /\ h.expired = host[s].expired \cup {a} /\ h.revision = host[s].revision
  <2>1. host[s].expired \cup {a} \in SUBSET AttachId
    BY <1>2
  <2> QED BY <1>2, <2>1 DEF HostState
<1> HIDE DEF h
<1>4. l \in Local /\ l.host = h /\ l.bus = bus[s]
  BY <1>2, <1>3, NewHost
<1> HIDE DEF l
<1>5. HostFits(l)
  BY <1>1, <1>2, <1>3, <1>4 DEF Sound, HostFits, IsLive
<1>6. Sound(l, view) /\ Announced(l)
  BY <1>2, <1>3, <1>4, <1>5 DEF Sound, Announced
<1>7. Shrinks(At(s), l)
  BY <1>2, <1>3, <1>4 DEF Shrinks, Unserved
<1>8. bus' = [bus EXCEPT ![s] = l.bus] /\ host' = [host EXCEPT ![s] = l.host]
  BY <1>0, <1>1, <1>4 DEF TypeOK
<1>9. /\ SessionsShrink
      /\ \A r \in Session : r # s => bus'[r] = bus[r] /\ host'[r] = host[r]
      /\ bus'[s] = l.bus /\ host'[s] = l.host
  <2>1. \A r \in Session : \A b \in bus'[r].leases : view'[b] = view[b]
    BY <1>1
  <2> QED BY <1>0, <1>6, <1>7, <1>8, <2>1, Commits
<1>10. RecordsStay
  BY <1>3, <1>4, <1>9 DEF RecordsStay, SessionsShrink
<1>11. RetainedOK' /\ GoneReserved
  BY <1>0, <1>1, <1>10, RecordsAfter
<1>12. Leaves
  BY <1>1 DEF Leaves
<1>13. Ticked /\ daemon' \in {"running", "stopping", "exited"} /\ closedLeases' \subseteq AttachId
       /\ retained' \in Seq(Session)
  BY <1>0, <1>1 DEF Ticked, TypeOK
<1>14. DeliveryInv'
  BY <1>1, <1>9, <1>11, <1>13, TickKeeps
<1> QED BY <1>11, <1>12, <1>14 DEF Preserved

\* The collection of a record keeps the invariant.
LEMMA CollectStep ==
    ASSUME DeliveryInv, Collect
    PROVE  Preserved
<1> DEFINE s == Head(retained)
           g == Gone(At(s))
           m == [g EXCEPT !.bus = Untracked]
           l == [Gone(At(s)) EXCEPT !.bus = Untracked, !.lost = bus[s].leases]
<1>0. TypeOK /\ SessionsSound /\ RetainedOK
  BY DEF DeliveryInv
<1>1. /\ turn = Idle /\ turn' = turn /\ retained # <<>> /\ retained' = Tail(retained)
      /\ CommitTick(s, l) /\ sessionOf' = sessionOf
      /\ finals' = finals /\ view' = view /\ daemon' = daemon
  BY DEF Collect
<1>2. /\ s \in Session /\ Tail(retained) \in Seq(Session)
      /\ Len(Tail(retained)) = Len(retained) - 1
      /\ \A i \in 1 .. Len(Tail(retained)) : Tail(retained)[i] = retained[i + 1]
      /\ s = retained[1] /\ Len(retained) \in Nat /\ DOMAIN retained = 1 .. Len(retained)
      /\ Len(retained) # 0
  <2>1. retained \in Seq(Session)
    BY <1>0 DEF TypeOK
  <2>2. /\ s \in Session /\ Tail(retained) \in Seq(Session)
        /\ Len(Tail(retained)) = Len(retained) - 1
        /\ \A i \in 1 .. Len(Tail(retained)) : Tail(retained)[i] = retained[i + 1]
    BY <1>1, <2>1, HeadTailProperties
  <2> QED BY <1>1, <2>1, <2>2
<1> HIDE DEF s
<1>3. /\ Sound(At(s), view) /\ At(s).host = host[s] /\ At(s).bus = bus[s]
      /\ bus[s].leases \in SUBSET AttachId
  BY <1>2, AtSound
<1>4. Sound(g, view) /\ g.host.life = "gone" /\ Narrows(At(s), g) /\ g \in Local
  BY <1>3, Goes DEF Sound
<1>5. g.host.leases = {}
  BY <1>4 DEF Sound, HostFits, IsLive
<1>6. l = [m EXCEPT !.lost = bus[s].leases]
  BY <1>4 DEF Local
<1> HIDE DEF g
<1>7. m \in Local /\ m.host = g.host /\ m.bus = Untracked
  BY <1>4, FreshBus, NewBus
<1> HIDE DEF m, l
<1>8. l \in Local /\ l.host = g.host /\ l.bus = Untracked /\ l.lost = bus[s].leases
  BY <1>3, <1>6, <1>7 DEF Local
<1>9. HostFits(l)
  BY <1>4, <1>5, <1>8, FreshBus DEF HostFits, IsLive, Sound
<1>10. Sound(l, view) /\ Announced(l)
  BY <1>8, <1>9, FreshBus DEF Sound, Announced
<1>11. Shrinks(At(s), l)
  BY <1>5, <1>8, FreshBus DEF Shrinks, Unserved
<1>12. bus[s].leases \ l.bus.leases \subseteq l.lost
  BY <1>8
<1>13. /\ \A r \in Session : r # s => bus'[r] = bus[r] /\ host'[r] = host[r]
       /\ bus'[s] = l.bus /\ host'[s] = l.host
  BY <1>0, <1>1, <1>2 DEF CommitTick, TypeOK
<1>14. GoneReserved
  BY <1>8, <1>13, FreshBus DEF GoneReserved
<1>15. RetainedOK'
  <2>1. DOMAIN retained' = 1 .. Len(retained) - 1
    BY <1>1, <1>2
  <2>2. \A i \in DOMAIN retained' : /\ i + 1 \in DOMAIN retained /\ i + 1 # 1
                                    /\ retained'[i] = retained[i + 1]
    BY <1>1, <1>2, <2>1
  <2>3. 1 \in DOMAIN retained
    BY <1>2
  <2>4. ASSUME NEW i \in DOMAIN retained' PROVE host'[retained'[i]].life = "terminal"
    <3>1. retained[i + 1] # s /\ retained[i + 1] \in Session
      BY <1>0, <1>2, <2>2, <2>3 DEF RetainedOK, TypeOK
    <3> QED BY <1>0, <1>13, <2>2, <3>1 DEF RetainedOK
  <2>5. ASSUME NEW i \in DOMAIN retained', NEW j \in DOMAIN retained', retained'[i] = retained'[j]
        PROVE  i = j
    <3>1. i + 1 = j + 1
      BY <1>0, <2>2, <2>5 DEF RetainedOK
    <3> QED BY <2>1, <3>1
  <2> QED BY <2>4, <2>5 DEF RetainedOK
<1>16. retained' \in Seq(Session)
  BY <1>1, <1>2
<1>17. RetainedOK' /\ GoneReserved
  BY <1>14, <1>15
<1> QED BY <1>1, <1>2, <1>10, <1>11, <1>12, <1>16, <1>17, TickCommits

\* The supervision tick keeps the invariant; the terminal event of every record
\* it evicts is reserved when no more sessions are live than are retained.
LEMMA SuperviseStep ==
    ASSUME DeliveryInv, NEW S \in SUBSET LiveSessions, NEW order \in Orders(S), Supervise(order)
    PROVE  DeliveryInv' /\ Leaves /\ (~Overfull => GoneReserved)
<1> DEFINE finished == {order[i] : i \in DOMAIN order}
           early == Evicted(retained \o order)
           Recorded(s) == HostTerminate(At(s), 0)
           E(s) == IF s \in early THEN Gone(Recorded(s)) ELSE Recorded(s)
           ended == [s \in finished |-> Finish(E(s))]
           lost == closedLeases \cup LostOf(finished, ended)
<1>0. TypeOK /\ RetainedOK
  BY DEF DeliveryInv
<1>1. /\ turn = Idle /\ turn' = turn /\ EndAll(order, ended)
      /\ closedLeases' = {a \in lost : \A c \in Owner(a) : ~Connected(c)}
      /\ peer' = [c \in Conn |->
                     IF Connected(c) /\ peer[c].owned \cap lost # {} THEN Retire(peer[c])
                     ELSE peer[c]]
      /\ sessionOf' = sessionOf /\ finals' = finals /\ view' = view /\ daemon' = daemon
  BY DEF Supervise
<1>2. S \in SUBSET Session /\ \A s \in S : IsLive(At(s)) /\ host[s].life = "live"
  BY DEF LiveSessions, IsLive, At
<1>3. order \in Seq(Session) /\ Distinct(order) /\ (\A i \in DOMAIN order : order[i] \in S)
      /\ Len(order) = Cardinality(S)
  BY <1>2, OrdersAre
<1>4. ASSUME NEW s \in S
      PROVE  /\ Sound(Finish(E(s)), view) /\ Announced(Finish(E(s)))
             /\ Narrows(At(s), Finish(E(s)))
             /\ s \notin early => Finish(E(s)).host.life = "terminal"
  <2>0. Sound(At(s), view) /\ view \in Views /\ 0 \in Nat
    BY <1>2, AtSound
  <2>1. Sound(Recorded(s), view) /\ Narrows(At(s), Recorded(s)) /\ Recorded(s).host.life = "terminal"
    <3> DEFINE n == 0
    <3>1. n \in Nat
      OBVIOUS
    <3> HIDE DEF n
    <3>2. Sound(HostTerminate(At(s), n), view) /\ Narrows(At(s), HostTerminate(At(s), n))
          /\ HostTerminate(At(s), n).host.life = "terminal"
      BY <1>2, <2>0, <3>1, Terminates
    <3> QED BY <3>2 DEF n
  <2> HIDE DEF Recorded
  <2>2. Sound(E(s), view) /\ Narrows(At(s), E(s)) /\ (s \notin early => E(s).host.life = "terminal")
    <3>1. CASE s \in early
      <4>1. Sound(Gone(Recorded(s)), view) /\ Narrows(Recorded(s), Gone(Recorded(s)))
        BY <2>1, Goes
      <4>2. Narrows(At(s), Gone(Recorded(s)))
        BY <2>1, <4>1, NarrowsTwice
      <4> QED BY <3>1, <4>1, <4>2
    <3>2. CASE s \notin early
      BY <2>1, <3>2
    <3> QED BY <3>1, <3>2
  <2> HIDE DEF E, early
  <2>3. Sound(Finish(E(s)), view) /\ Announced(Finish(E(s))) /\ Narrows(E(s), Finish(E(s)))
        /\ Finish(E(s)).host.life = E(s).host.life
    BY <2>0, <2>2, Finishes
  <2>4. Narrows(At(s), Finish(E(s)))
    BY <2>2, <2>3, NarrowsTwice
  <2> QED BY <2>2, <2>3, <2>4
<1>5. \A i \in DOMAIN order : order[i] \in finished /\ order[i] \in S
                              /\ ended[order[i]] = Finish(E(order[i]))
  BY <1>3
<1>6. finished \subseteq S
  BY <1>3
<1>7. \A s \in finished : s \in S /\ ended[s] = Finish(E(s))
  BY <1>6
<1> HIDE DEF E, ended
<1>8. Ending(order, ended)
  <2>1. \A i \in DOMAIN order : host[order[i]].life # "terminal"
    BY <1>2, <1>3
  <2>2. \A i \in DOMAIN order :
          /\ Sound(ended[order[i]], view) /\ Announced(ended[order[i]])
          /\ Shrinks(At(order[i]), ended[order[i]])
          /\ \/ ended[order[i]].host.life = "terminal"
             \/ order[i] \in Evicted(retained \o order)
    <3> TAKE i \in DOMAIN order
    <3>1. /\ Sound(ended[order[i]], view) /\ Announced(ended[order[i]])
          /\ Narrows(At(order[i]), ended[order[i]])
          /\ order[i] \notin early => ended[order[i]].host.life = "terminal"
      BY <1>4, <1>5
    <3> QED BY <3>1, NarrowsShrinks
  <2> QED BY <1>3, <2>1, <2>2 DEF Ending
<1>9. \A s \in finished : /\ bus[s].leases \ ended[s].bus.leases \subseteq ended[s].lost
                          /\ ended[s].lost \in SUBSET AttachId
  <2> TAKE s \in finished
  <2>1. s \in S /\ Sound(ended[s], view) /\ Narrows(At(s), ended[s])
    BY <1>4, <1>7
  <2>2. At(s).bus = bus[s]
    BY <1>2, <2>1, AtSound
  <2>3. ended[s].lost \in SUBSET AttachId
    BY <2>1, LocalFields DEF Sound
  <2> QED BY <2>1, <2>2, <2>3 DEF Narrows
<1>10. \A s \in finished : ended[s].lost \subseteq lost
  BY DEF LostOf
<1>11. lost \subseteq AttachId
  BY <1>0, <1>9 DEF TypeOK, LostOf
<1> HIDE DEF lost
<1>12. SessionsShrink /\ RetainedOK' /\ retained' \in Seq(Session)
  BY <1>1, <1>8, EndsAll
<1>13. \A s \in Session : \A a \in bus[s].leases \ bus'[s].leases :
                 \E i \in DOMAIN order : s = order[i] /\ a \notin ended[s].bus.leases
  BY <1>1, <1>8, EndsAll
<1>14. Ticked /\ \A s : \A a \in lost : Reported(s, a)
  BY <1>0, <1>1, TickReports
<1>15. Leaves
  <2> SUFFICES ASSUME NEW s \in Session, NEW a \in bus[s].leases \ bus'[s].leases
               PROVE  Reported(s, a)
    BY DEF Leaves
  <2>1. s \in finished /\ a \notin ended[s].bus.leases
    BY <1>13
  <2> HIDE DEF finished
  <2>2. a \in lost
    BY <1>9, <1>10, <2>1
  <2> QED BY <1>14, <2>2
<1>16. closedLeases' \subseteq AttachId /\ daemon' \in {"running", "stopping", "exited"}
  BY <1>0, <1>1, <1>11 DEF TypeOK
<1>17. DeliveryInv'
  BY <1>1, <1>12, <1>14, <1>16, TickKeeps
<1>18. ASSUME ~Overfull PROVE GoneReserved
  <2> DEFINE records == retained \o order
             m == Len(retained)
             n == Len(order)
  <2>1. /\ records \in Seq(Session) /\ Distinct(records) /\ Len(records) = m + n
        /\ \A i \in DOMAIN order : m + i \in DOMAIN records /\ records[m + i] = order[i]
    BY <1>0, <1>2, <1>3, RecordsJoin
  <2>2. \A j \in DOMAIN records : j > Len(records) - MaxRetained => records[j] \notin Evicted(records)
    BY <2>1, RetentionIs
  <2>3. m \in Nat /\ n \in Nat /\ MaxRetained \in Nat /\ n <= MaxRetained
    <3>1. \A s \in S : host'[s].life # "live"
      <4> TAKE s \in S
      <4>1. PICK i \in DOMAIN order : order[i] = s
        BY DEF Orders
      <4>2. \/ s \in Evicted(records) /\ host'[s] = Gone(ended[s]).host
            \/ s \notin Evicted(records) /\ host'[s] = ended[s].host
        BY <1>1, <1>2, <4>1 DEF EndAll
      <4>3. ended[s].host.life = "terminal" \/ s \in Evicted(records)
        BY <1>8, <4>1 DEF Ending
      <4>4. Gone(ended[s]).host.life = "gone"
        BY <1>8, <4>1, Goes DEF Ending
      <4> QED BY <4>2, <4>3, <4>4
    <3>2. S \subseteq Ended /\ Ended \in SUBSET Session
      BY <3>1 DEF Ended, LiveSessions
    <3>3. IsFiniteSet(Ended)
      BY <3>2, DeliveryAssumption, FS_Subset
    <3>4. Cardinality(S) <= Cardinality(Ended) /\ Cardinality(S) \in Nat
          /\ Cardinality(Ended) \in Nat
      BY <3>2, <3>3, FS_Subset, FS_CardinalityType
    <3>5. retained \in Seq(Session)
      BY <1>0 DEF TypeOK
    <3> QED BY <1>3, <1>18, <3>4, <3>5, DeliveryAssumption DEF Overfull
  <2> HIDE DEF records, m, n
  <2>4. \A i \in DOMAIN order : i \in Nat /\ i >= 1
    BY <1>3
  <2>5. \A i \in DOMAIN order : order[i] \notin Evicted(records)
    <3> TAKE i \in DOMAIN order
    <3>1. m + i > Len(records) - MaxRetained
      BY <2>1, <2>3, <2>4
    <3> QED BY <2>1, <2>2, <3>1
  <2>6. \A i \in DOMAIN order : order[i] \notin Evicted(retained \o order)
    BY <2>5 DEF records
  <2> QED BY <1>1, <1>8, <2>6, EndsAll
<1> QED BY <1>15, <1>17, <1>18

-----------------------------------------------------------------------------
(* Deliveries.                                                              *)

\* The frames in finitely many queues are finitely many.
LEMMA TotalIsFinite ==
    ASSUME NEW A \in SUBSET AttachId, NEW F \in [A -> Seq(Frame)]
    PROVE  Cardinality(UNION {{a} \X DOMAIN F[a] : a \in A}) \in Nat
<1> DEFINE G == [a \in A |-> {a} \X DOMAIN F[a]]
           Q == {{a} \X DOMAIN F[a] : a \in A}
<1>1. G \in Surjection(A, Q)
  <2>1. G \in [A -> Q] /\ \A T \in Q : \E a \in A : G[a] = T
    OBVIOUS
  <2> HIDE DEF G, Q
  <2> QED BY <2>1 DEF Surjection
<1>2. IsFiniteSet(A)
  BY FiniteCount
<1>3. IsFiniteSet(Q)
  <2> HIDE DEF G, Q
  <2> QED BY <1>1, <1>2, FS_Surjection
<1>4. \A a \in A : IsFiniteSet({a} \X DOMAIN F[a])
  <2> TAKE a \in A
  <2> DEFINE one == {a}
             places == DOMAIN F[a]
  <2>1. IsFiniteSet(one)
    BY FS_Singleton
  <2>2. IsFiniteSet(places)
    <3>1. places = 1 .. Len(F[a]) /\ Len(F[a]) \in Nat /\ 1 \in Int
      OBVIOUS
    <3> HIDE DEF places
    <3> QED BY <3>1, FS_Interval
  <2> HIDE DEF one, places
  <2>3. IsFiniteSet(one \X places)
    BY <2>1, <2>2, FS_Product
  <2> QED BY <2>3 DEF one, places
<1>5. \A T \in Q : IsFiniteSet(T)
  BY <1>4
<1> HIDE DEF Q
<1>6. IsFiniteSet(UNION Q)
  BY <1>3, <1>5, FS_UNION
<1>7. Cardinality(UNION Q) \in Nat
  BY <1>6, FS_CardinalityType
<1> QED BY <1>7 DEF Q

\* The frames a connection has to write are counted by a number.
LEMMA FramesAreCounted ==
    ASSUME TypeOK, Belong, NEW c \in Conn
    PROVE  FinalFrames(c) \in Nat /\ QueuedFrames(c) \in Nat
<1> DEFINE A == peer[c].owned
           B == Streams(c)
           F == [a \in A |-> finals[a]]
           G == [a \in B |-> Undelivered(sessionOf[a], a)]
<1>1. peer[c] \in Peer
  BY DEF TypeOK
<1>2. A \in SUBSET AttachId /\ peer[c].finals \in Nat
  BY <1>1, PeerFields
<1>3. B \in SUBSET AttachId /\ B \subseteq A
  BY <1>2 DEF Streams
<1>4. F \in [A -> Seq(Frame)]
  BY <1>2 DEF TypeOK
<1>5. G \in [B -> Seq(Frame)]
  <2> SUFFICES ASSUME NEW a \in B PROVE Undelivered(sessionOf[a], a) \in Seq(Frame)
    OBVIOUS
  <2>1. a \in AttachId /\ sessionOf[a] \in Session
    BY <1>2, <1>3 DEF Belong, TypeOK
  <2> QED BY <2>1, UndeliveredIs
<1>6. Cardinality(UNION {{a} \X DOMAIN F[a] : a \in A}) \in Nat
  <2> HIDE DEF A, F
  <2> QED BY <1>2, <1>4, TotalIsFinite
<1>7. Cardinality(UNION {{a} \X DOMAIN G[a] : a \in B}) \in Nat
  <2> HIDE DEF B, G
  <2> QED BY <1>3, <1>5, TotalIsFinite
<1>8. {{a} \X DOMAIN F[a] : a \in A} = {{a} \X DOMAIN finals[a] : a \in A}
  OBVIOUS
<1>9. {{a} \X DOMAIN G[a] : a \in B} = {{a} \X DOMAIN Undelivered(sessionOf[a], a) : a \in B}
  OBVIOUS
<1>10. QueuedFrames(c) = Cardinality(UNION {{a} \X DOMAIN G[a] : a \in B})
  BY <1>9 DEF QueuedFrames, Total
<1>11. FinalFrames(c) = peer[c].finals + Cardinality(UNION {{a} \X DOMAIN F[a] : a \in A})
  BY <1>8 DEF FinalFrames, Total
<1> HIDE DEF A, B, F, G
<1> QED BY <1>2, <1>6, <1>7, <1>10, <1>11

\* What a delivery leaves of the connection.
LEMMA DeliveredIs ==
    ASSUME TypeOK, Belong, NEW c \in Conn
    PROVE  /\ Delivered(c) \in Peer /\ Delivered(c).owned = peer[c].owned
           /\ Delivered(c).events = peer[c].events
           /\ Delivered(c).phase \in {peer[c].phase, "closed"}
           /\ Delivered(c).output <= OutCap \/ Delivered(c) = peer[c]
<1> DEFINE p == peer[c]
           routed == [p EXCEPT !.finals = 0]
           n == FinalFrames(c) + IF p.phase = "open" THEN QueuedFrames(c) ELSE 0
<1>1. p \in Peer
  BY DEF TypeOK
<1>2. n \in Nat
  BY FramesAreCounted
<1>3. Delivered(c) = IF Full(p) THEN p ELSE IF ~p.events THEN routed ELSE Pushed(routed, n)
  BY DEF Delivered
<1> HIDE DEF n
<1>4. /\ routed \in Peer /\ routed.owned = p.owned /\ routed.events = p.events
      /\ routed.phase = p.phase /\ routed.output = p.output
  BY <1>1 DEF Peer
<1>5. p.output \in Nat /\ (~Full(p) => p.output <= OutCap)
  <2>1. p.output \in Nat
    BY <1>1, PeerFields
  <2> QED BY <2>1, DeliveryAssumption DEF Full
<1> HIDE DEF routed
<1>6. /\ Pushed(routed, n) \in Peer /\ Pushed(routed, n).owned = p.owned
      /\ Pushed(routed, n).events = p.events
      /\ Pushed(routed, n).phase \in {p.phase, "closed"}
      /\ Pushed(routed, n).output <= OutCap
  <2>1. CASE routed.output + n > OutCap
    <3>1. Pushed(routed, n) = Shut(routed)
      BY <2>1 DEF Pushed
    <3>2. /\ Shut(routed) \in Peer /\ Shut(routed).output = 0 /\ Shut(routed).owned = routed.owned
          /\ Shut(routed).events = routed.events /\ Shut(routed).phase = "closed"
      BY <1>4, PeerFields
    <3>3. 0 <= OutCap
      BY DeliveryAssumption
    <3> QED BY <1>4, <3>1, <3>2, <3>3
  <2>2. CASE ~(routed.output + n > OutCap)
    <3> DEFINE q == [routed EXCEPT !.output = routed.output + n]
    <3>1. Pushed(routed, n) = q
      BY <1>4, <2>2 DEF Pushed, Peer
    <3>2. routed.output + n \in Nat /\ routed.output + n <= OutCap
      BY <1>2, <1>4, <1>5, <2>2, DeliveryAssumption
    <3>3. q \in Peer /\ q.owned = routed.owned /\ q.events = routed.events
          /\ q.phase = routed.phase /\ q.output = routed.output + n
      BY <1>4, <3>2 DEF Peer
    <3> HIDE DEF q
    <3> QED BY <1>4, <3>1, <3>2, <3>3
  <2> QED BY <2>1, <2>2
<1>7. CASE Full(p)
  BY <1>1, <1>3, <1>7
<1>8. CASE ~Full(p)
  BY <1>3, <1>4, <1>5, <1>6, <1>8
<1> QED BY <1>7, <1>8

\* What a delivery does to the sessions: queues empty into the views.
LEMMA HandIs ==
    ASSUME DeliveryInv, NEW c \in Conn, Hand(c)
    PROVE  /\ SessionsShrink /\ RetainedOK' /\ GoneReserved /\ Leaves
           /\ view' \in Views /\ retained' \in Seq(Session) /\ closedLeases' \subseteq AttachId
           /\ finals' \in [AttachId -> Seq(Frame)] /\ sessionOf' = sessionOf /\ daemon' = daemon
           /\ \A a \in AttachId : finals'[a] # <<>> => finals[a] # <<>>
<1> DEFINE p == peer[c]
           taken == ~Full(p)
           written == taken /\ p.events /\ Delivered(c).phase # "closed"
           drained == IF written /\ p.phase = "open" THEN Streams(c) ELSE {}
           First(a) == IF written /\ a \in p.owned THEN finals[a] ELSE <<>>
           Rest(a) == IF a \in drained THEN Undelivered(sessionOf[a], a) ELSE <<>>
<1>0. TypeOK /\ SessionsSound /\ RetainedOK /\ Belong /\ FinalsLast
  BY DEF DeliveryInv
<1>1. /\ finals' = [a \in AttachId |-> IF taken /\ a \in p.owned THEN <<>> ELSE finals[a]]
      /\ bus' = [s \in Session |-> Drained(bus[s], drained \cap bus[s].leases)]
      /\ view' = [a \in AttachId |-> Seen(view[a], First(a) \o Rest(a))]
      /\ host' = host /\ retained' = retained /\ closedLeases' = closedLeases
      /\ sessionOf' = sessionOf /\ daemon' = daemon
  BY DEF Hand
<1>2. drained \subseteq AttachId /\ \A a \in drained : sessionOf[a] \in Session
  <2>1. peer[c] \in Peer
    BY <1>0 DEF TypeOK
  <2>2. peer[c].owned \in SUBSET AttachId
    BY <2>1, PeerFields
  <2>3. Streams(c) \subseteq peer[c].owned
    BY DEF Streams
  <2>4. \A a \in peer[c].owned : sessionOf[a] \in Session
    BY <1>0, <2>2 DEF Belong, TypeOK
  <2> QED BY <2>2, <2>3, <2>4
<1> HIDE DEF written, taken, drained
<1>3. \A a \in AttachId : /\ First(a) \in Seq(Frame) /\ Rest(a) \in Seq(Frame)
                          /\ (finals[a] = <<>> => First(a) = <<>>)
  <2> TAKE a \in AttachId
  <2>1. finals[a] \in Seq(Frame)
    BY <1>0 DEF TypeOK
  <2>2. a \in drained => Undelivered(sessionOf[a], a) \in Seq(Frame)
    BY <1>0, <1>2, UndeliveredIs
  <2> QED BY <2>1, <2>2, EmptyQueue
<1> HIDE DEF First
<1>4. view' \in Views /\ \A a \in AttachId : view'[a] = Seen(view[a], First(a) \o Rest(a))
  <2> HIDE DEF Rest
  <2>1. ASSUME NEW a \in AttachId PROVE Seen(view[a], First(a) \o Rest(a)) \in View
    <3>1. view[a] \in View
      BY <1>0 DEF TypeOK, View
    <3>2. First(a) \o Rest(a) \in Seq(Frame)
      BY <1>3, ConcatFrames
    <3> QED BY <3>1, <3>2, SeenType
  <2> QED BY <1>1, <2>1 DEF Views
<1>5. ASSUME NEW s \in Session, NEW a \in bus[s].leases
      PROVE  /\ a \in AttachId /\ view[a] \in View
             /\ a \in drained => view'[a] = Seen(view[a], bus[s].queue[a])
             /\ a \notin drained => view'[a] = view[a]
  <2>1. a \in AttachId /\ view[a] \in View
    BY <1>0, AtSound DEF TypeOK, View
  <2>2. sessionOf[a] = s /\ finals[a] = <<>>
    BY <1>0, <2>1 DEF Belong, FinalsLast
  <2>3. First(a) = <<>> /\ Rest(a) \in Seq(Frame)
    BY <1>3, <2>1, <2>2
  <2>4. Rest(a) = IF a \in drained THEN bus[s].queue[a] ELSE <<>>
    BY <2>2 DEF Undelivered
  <2> HIDE DEF Rest
  <2>5. First(a) \o Rest(a) = Rest(a)
    BY <2>3, ConcatEmptySeq
  <2> QED BY <1>4, <2>1, <2>4, <2>5, SeenNothing
<1>6. \A s \in Session : bus'[s] = Drained(bus[s], drained \cap bus[s].leases)
  BY <1>1
<1> HIDE DEF Rest
<1>7. ASSUME NEW s \in Session
      PROVE  /\ bus'[s] \in Bus /\ Sound(After(s), view') /\ Announced(After(s))
             /\ Shrinks(At(s), After(s)) /\ bus'[s].leases = bus[s].leases
  <2> DEFINE A == drained \cap bus[s].leases
             e == Drained(bus[s], A)
  <2>0. A \in SUBSET bus[s].leases
    OBVIOUS
  <2>1. /\ Sound(At(s), view) /\ Announced(At(s)) /\ At(s) \in Local
        /\ At(s).host = host[s] /\ At(s).bus = bus[s] /\ bus[s] \in Bus /\ BusOK(bus[s])
        /\ host[s] \in HostState
    BY AtSound DEF Sound
  <2>2. \A a \in bus[s].leases \ A : a \notin drained
    OBVIOUS
  <2>3. \A a \in A : a \in drained
    OBVIOUS
  <2> HIDE DEF A
  <2>4. /\ e \in Bus /\ BusOK(e)
        /\ e.tracked = bus[s].tracked /\ e.revision = bus[s].revision
        /\ e.terminalized = bus[s].terminalized /\ e.leases = bus[s].leases
        /\ \A a \in bus[s].leases \ A : \A v : LeaseOK(bus[s], a, v) => LeaseOK(e, a, v)
        /\ \A a \in A : \A v \in View : LeaseOK(bus[s], a, v) => LeaseOK(e, a, Seen(v, bus[s].queue[a]))
    BY <2>0, <2>1, DrainedIs
  <2>5. bus'[s] = e /\ host'[s] = host[s]
    BY <1>1, <1>6 DEF A
  <2> HIDE DEF e
  <2>6. After(s) \in Local /\ After(s).host = host[s] /\ After(s).bus = e
    BY <2>1, <2>4, <2>5 DEF After, Local
  <2>7. \A a \in bus[s].leases : LeaseOK(bus[s], a, view[a])
    BY <2>1 DEF Sound
  <2>8. ASSUME NEW a \in bus[s].leases PROVE LeaseOK(e, a, view'[a])
    <3>1. CASE a \in A
      <4>1. view'[a] = Seen(view[a], bus[s].queue[a]) /\ view[a] \in View
        BY <1>5, <2>3, <3>1
      <4> QED BY <2>4, <2>7, <3>1, <4>1
    <3>2. CASE a \notin A
      <4>1. view'[a] = view[a]
        BY <1>5, <2>2, <3>2
      <4> QED BY <2>4, <2>7, <3>2, <4>1
    <3> QED BY <3>1, <3>2
  <2>9. HostFits(After(s)) /\ Announced(After(s))
    BY <2>1, <2>4, <2>6 DEF Sound, HostFits, Announced, IsLive
  <2>10. Sound(After(s), view')
    BY <2>4, <2>6, <2>8, <2>9 DEF Sound
  <2>11. Shrinks(At(s), After(s))
    BY <2>1, <2>4, <2>6 DEF Shrinks, Unserved
  <2> QED BY <2>4, <2>5, <2>9, <2>10, <2>11
<1>8. SessionsShrink
  <2>1. bus' \in [Session -> Bus]
    BY <1>1, <1>7
  <2>2. host' \in [Session -> HostState]
    BY <1>0, <1>1 DEF TypeOK
  <2> QED BY <1>7, <2>1, <2>2 DEF SessionsShrink, SessionsStep
<1>9. RecordsStay
  BY <1>1, <1>7 DEF RecordsStay
<1>10. RetainedOK' /\ GoneReserved
  BY <1>0, <1>1, <1>9, RecordsAfter
<1>11. Leaves
  BY <1>7 DEF Leaves
<1>12. finals' \in [AttachId -> Seq(Frame)]
  BY <1>0, <1>1, EmptyQueue DEF TypeOK
<1>13. \A a \in AttachId : finals'[a] # <<>> => finals[a] # <<>>
  BY <1>1
<1> QED BY <1>0, <1>1, <1>4, <1>8, <1>10, <1>11, <1>12, <1>13 DEF TypeOK

\* The invariant after a turn of a connection that delivers.
LEMMA HandKeeps ==
    ASSUME DeliveryInv, NEW c \in Conn, Hand(c), NEW q \in Peer,
           peer' = [peer EXCEPT ![c] = q], q.output <= OutCap + 1,
           q.phase = "open" /\ turn' # Turn(c, "read") => q.output <= OutCap,
           \A d \in Conn : d # c => turn # Turn(d, "read"),
           q.owned \subseteq peer[c].owned,
           q.phase # "closed" /\ q.events /\ q.owned # {} => peer[c].phase # "closed" /\ peer[c].events,
           TurnTyped
    PROVE  Preserved
<1>0. TypeOK /\ Belong /\ FinalsLast /\ Served /\ Buffered
  BY DEF DeliveryInv
<1>1. /\ peer' \in [Conn -> Peer] /\ Buffered' /\ peer'[c] = q
      /\ \A d \in Conn : d # c => peer'[d] = peer[d]
  BY <1>0, OnePeer
<1>2. /\ SessionsShrink /\ RetainedOK' /\ GoneReserved /\ Leaves
      /\ view' \in Views /\ retained' \in Seq(Session) /\ closedLeases' \subseteq AttachId
      /\ finals' \in [AttachId -> Seq(Frame)] /\ sessionOf' = sessionOf /\ daemon' = daemon
      /\ \A a \in AttachId : finals'[a] # <<>> => finals[a] # <<>>
  BY HandIs
<1>3. /\ \A d \in Conn : peer'[d].owned \subseteq peer[d].owned
      /\ \A d \in Conn : peer'[d].phase # "closed" /\ peer'[d].events /\ peer'[d].owned # {} =>
                            peer[d].phase # "closed" /\ peer[d].events
  BY <1>1
<1>4. Belong' /\ FinalsLast' /\ Served'
  BY <1>0, <1>2, <1>3, ShrinkKeeps
<1>5. RestTyped
  BY <1>0, <1>1, <1>2 DEF RestTyped, TypeOK
<1> QED BY <1>1, <1>2, <1>4, <1>5, InvAfter DEF Preserved, SessionsShrink

\* A delivery pass after a request keeps the invariant.
LEMMA DeliverStep ==
    ASSUME DeliveryInv, NEW c \in Conn, Deliver(c)
    PROVE  Preserved
<1> DEFINE p == Delivered(c)
           over == p.phase = "open" /\ p.output > OutCap
           q == IF over THEN Shut(p) ELSE p
<1>0. TypeOK /\ Belong /\ Buffered
  BY DEF DeliveryInv
<1>1. /\ Hand(c) /\ turn = Turn(c, "read") /\ turn' = Turn(c, "write")
      /\ peer' = [peer EXCEPT ![c] = q]
  BY DEF Deliver
<1>2. /\ p \in Peer /\ p.owned = peer[c].owned /\ p.events = peer[c].events
      /\ p.phase \in {peer[c].phase, "closed"}
      /\ p.output <= OutCap \/ p = peer[c]
  BY <1>0, DeliveredIs
<1> HIDE DEF p
<1>3. /\ Shut(p) \in Peer /\ Shut(p).output = 0 /\ Shut(p).owned = p.owned
      /\ Shut(p).events = p.events /\ Shut(p).phase = "closed" /\ p.output \in Nat
  BY <1>2, PeerFields
<1>4. p.output <= OutCap + 1
  BY <1>0, <1>2, <1>3, DeliveryAssumption DEF Buffered
<1>5. /\ q \in Peer /\ q.output <= OutCap + 1 /\ (q.phase = "open" => q.output <= OutCap)
      /\ q.owned \subseteq peer[c].owned /\ q.events = peer[c].events
      /\ (q.phase # "closed" => peer[c].phase # "closed")
  <2>1. CASE over
    BY <1>2, <1>3, <2>1, DeliveryAssumption
  <2>2. CASE ~over
    BY <1>2, <1>3, <1>4, <2>2, DeliveryAssumption
  <2> QED BY <2>1, <2>2
<1> HIDE DEF q
<1>6. \A d \in Conn : d # c => turn # Turn(d, "read")
  BY <1>1, TurnIs
<1>7. TurnTyped
  BY <1>1 DEF TurnTyped
<1> QED BY <1>1, <1>5, <1>6, <1>7, HandKeeps

\* A turn without input keeps the invariant.
LEMMA PassStep ==
    ASSUME DeliveryInv, NEW c \in Conn, Pass(c)
    PROVE  Preserved
<1> DEFINE p == Delivered(c)
<1>0. TypeOK /\ Belong /\ Buffered
  BY DEF DeliveryInv
<1>1. turn = Idle /\ turn' = Turn(c, "write")
  BY DEF Pass
<1>2. TurnTyped /\ \A d \in Conn : turn # Turn(d, "read")
  BY <1>1, TurnIs DEF TurnTyped
<1>3. peer[c] \in Peer /\ peer[c].output <= OutCap + 1 /\ (Open(c) => peer[c].output <= OutCap)
  BY <1>0, <1>2 DEF TypeOK, Buffered
<1>4. CASE Open(c) /\ Hand(c) /\ peer' = [peer EXCEPT ![c] = p]
  <2>1. /\ p \in Peer /\ p.owned = peer[c].owned /\ p.events = peer[c].events
        /\ p.phase \in {peer[c].phase, "closed"}
        /\ p.output <= OutCap \/ p = peer[c]
    BY <1>0, DeliveredIs
  <2> HIDE DEF p
  <2>2. p.output \in Nat
    BY <2>1, PeerFields
  <2>3. p.output <= OutCap + 1 /\ (p.phase = "open" => p.output <= OutCap)
    BY <1>3, <1>4, <2>1, <2>2, DeliveryAssumption
  <2>4. p.owned \subseteq peer[c].owned /\ peer[c].phase # "closed"
    BY <1>4, <2>1 DEF Open
  <2>5. Hand(c) /\ peer' = [peer EXCEPT ![c] = p]
    BY <1>4
  <2> QED BY <1>2, <2>1, <2>3, <2>4, <2>5, HandKeeps, Zenon
<1>5. CASE peer[c].phase = "retired" /\ UNCHANGED <<serviceVars, peer, daemon, view>>
  <2>1. OnlyPeers /\ peer' = peer
    BY <1>5 DEF OnlyPeers
  <2> DEFINE q == peer[c]
  <2>2. peer' = [peer EXCEPT ![c] = q]
    BY <1>0, <2>1 DEF TypeOK
  <2>3. q \in Peer /\ q.output <= OutCap + 1 /\ q.phase # "open" /\ q.phase # "closed"
        /\ q.owned \subseteq peer[c].owned /\ q.events = peer[c].events
    BY <1>3, <1>5
  <2>4. peer[c].phase # "closed"
    BY <1>5
  <2> HIDE DEF q
  <2> QED BY <1>2, <2>1, <2>2, <2>3, <2>4, PeerKeeps, Zenon
<1> QED BY <1>4, <1>5 DEF Pass

\* What a timer leaves of a connection.
LEMMA TimerKeeps ==
    ASSUME DeliveryInv, NEW c \in Conn, Hand(c), turn = Idle, turn' = turn, Connected(c),
           NEW q, peer' = [peer EXCEPT ![c] = q],
           \/ q = NoPeer
           \/ q = Retire(Delivered(c))
           \/ q = Delivered(c) /\ peer[c].phase = "retired"
    PROVE  Preserved
<1> DEFINE p == Delivered(c)
<1>0. TypeOK /\ Belong /\ Buffered
  BY DEF DeliveryInv
<1>1. TurnTyped /\ \A d \in Conn : turn # Turn(d, "read")
  BY TurnIs DEF TurnTyped
<1>2. peer[c].output <= OutCap + 1 /\ peer[c].phase # "closed"
  BY <1>0 DEF Buffered, Connected
<1>3. /\ p \in Peer /\ p.owned = peer[c].owned /\ p.events = peer[c].events
      /\ p.phase \in {peer[c].phase, "closed"}
      /\ p.output <= OutCap \/ p = peer[c]
  BY <1>0, DeliveredIs
<1>4. q = NoPeer \/ q = Retire(p) \/ (q = p /\ peer[c].phase = "retired")
  OBVIOUS
<1> HIDE DEF p
<1>5. /\ Retire(p) \in Peer /\ Retire(p).output = p.output /\ Retire(p).owned = p.owned
      /\ Retire(p).events = p.events /\ Retire(p).phase = "retired" /\ p.output \in Nat
  BY <1>3, PeerFields
<1>6. p.output <= OutCap + 1
  BY <1>2, <1>3, <1>5, DeliveryAssumption
<1>7. q \in Peer /\ q.output <= OutCap + 1 /\ q.phase # "open" /\ q.owned \subseteq peer[c].owned
      /\ (q.events => peer[c].events)
  <2>1. CASE q = NoPeer
    BY <2>1, FreshPeer, DeliveryAssumption
  <2>2. CASE q = Retire(p)
    BY <1>3, <1>5, <1>6, <2>2
  <2>3. CASE q = p /\ peer[c].phase = "retired"
    BY <1>3, <1>6, <2>3
  <2> QED BY <1>4, <2>1, <2>2, <2>3
<1> QED BY <1>1, <1>2, <1>7, HandKeeps, Zenon

\* The idle timer keeps the invariant.
LEMMA IdleTimeoutStep ==
    ASSUME DeliveryInv, NEW c \in Conn, IdleTimeout(c)
    PROVE  Preserved
<1> DEFINE q == IF Delivered(c).output > 0 THEN Retire(Delivered(c)) ELSE NoPeer
<1>1. /\ Hand(c) /\ turn = Idle /\ turn' = turn /\ Connected(c)
      /\ peer' = [peer EXCEPT ![c] = q]
  BY DEF IdleTimeout, Open, Connected
<1>2. q = NoPeer \/ q = Retire(Delivered(c))
  OBVIOUS
<1> HIDE DEF q
<1> QED BY <1>1, <1>2, TimerKeeps

\* The drain timer keeps the invariant.
LEMMA DrainTimeoutStep ==
    ASSUME DeliveryInv, NEW c \in Conn, DrainTimeout(c)
    PROVE  Preserved
<1> DEFINE q == IF Delivered(c).output > 0 THEN Delivered(c) ELSE NoPeer
<1>1. /\ Hand(c) /\ turn = Idle /\ turn' = turn /\ Connected(c) /\ peer[c].phase = "retired"
      /\ peer' = [peer EXCEPT ![c] = q]
  BY DEF DrainTimeout, Connected
<1>2. q = NoPeer \/ q = Delivered(c)
  OBVIOUS
<1> HIDE DEF q
<1> QED BY <1>1, <1>2, TimerKeeps

-----------------------------------------------------------------------------
(* The end of a turn.                                                       *)

\* A session none of whose leases the closing connection owns.
LEMMA NothingToDetach ==
    ASSUME NEW l \in Local, NEW A \in SUBSET AttachId, A \cap l.host.leases = {}
    PROVE  HostDetach(l, A) = l
<1>1. Detachable(l, A) = {}
  BY DetachableIs
<1>2. Cardinality(Detachable(l, A)) = 0
  BY <1>1, FS_EmptySet
<1>3. l.host.revision + 0 = l.host.revision
  BY LocalFields
<1> DEFINE D == Detachable(l, A)
           z == Cardinality(D)
<1>4. HostDetach(l, A) = [l EXCEPT !.host = [l.host EXCEPT !.leases = l.host.leases \ D,
                                                           !.revision = l.host.revision + z]]
  BY DEF HostDetach, Local, HostState
<1>5. D = {} /\ z = 0
  BY <1>1, <1>2
<1> HIDE DEF D, z
<1>6. l.host.leases \ D = l.host.leases /\ l.host.revision + z = l.host.revision
  BY <1>3, <1>5
<1> DEFINE h == [l.host EXCEPT !.leases = l.host.leases, !.revision = l.host.revision]
<1>7. h = l.host
  <2>1. l.host \in HostState
    BY LocalFields
  <2> QED BY <2>1 DEF HostState
<1>8. HostDetach(l, A) = [l EXCEPT !.host = l.host]
  BY <1>4, <1>6, <1>7
<1> QED BY <1>8 DEF Local

\* close_connection_leases on one session.
Released(l, A) == MaybeForget(FlushEvents(Without(l, A, A \cap l.bus.leases)))

\* What it leaves: the session without those leases, and what that lost.
Releases(l, r, v, A) ==
    /\ Sound(r, v) /\ Announced(r)
    /\ r.host.life = l.host.life
    /\ Shrinks(l, r)
    /\ r.bus.leases \cap A = {}
    /\ l.bus.leases \ A \subseteq r.bus.leases \cup r.lost

\* Releasing the leases of a connection keeps a session sound.
LEMMA ReleasedIs ==
    ASSUME NEW l, NEW v \in Views, NEW A \in SUBSET AttachId, Sound(l, v)
    PROVE  Releases(l, Released(l, A), v, A)
<1> DEFINE B == A \cap l.bus.leases
           m == Without(l, A, B)
           f == FlushEvents(m)
           r == MaybeForget(f)
<1>1. /\ Sound(l, v) /\ v \in Views /\ A \in SUBSET AttachId /\ B \in SUBSET A
      /\ A \cap l.bus.leases \subseteq B
  OBVIOUS
<1> HIDE DEF B
<1>2. /\ Sound(m, v) /\ m.host.life = l.host.life /\ m.bus.leases = l.bus.leases \ A
      /\ Shrinks(l, m)
  <2>1. Sound(Without(l, A, B), v)
    BY <1>1, WithoutIs
  <2>2. Without(l, A, B).host.life = l.host.life
    <3> DEFINE h == HostDetach(l, A)
               b == DetachLeases(h.bus, B)
    <3>1. h \in Local /\ h.host.life = l.host.life
      BY <1>1, HostDetachIs DEF Sound
    <3>2. Without(l, A, B) = [h EXCEPT !.bus = b]
      BY <3>1 DEF Without, Local
    <3> HIDE DEF h, b
    <3>3. Without(l, A, B).host = h.host
      BY <3>1, <3>2 DEF Local
    <3> QED BY <3>1, <3>3
  <2>3. Without(l, A, B).bus.leases = l.bus.leases \ A
    BY <1>1, WithoutIs
  <2>4. Shrinks(l, Without(l, A, B))
    BY <1>1, WithoutIs
  <2> QED BY <2>1, <2>2, <2>3, <2>4
<1> HIDE DEF m
<1>3. Sound(f, v) /\ Announced(f) /\ Narrows(m, f) /\ f.host.life = m.host.life
  BY <1>2, Flushes
<1> HIDE DEF f
<1>4. /\ Sound(r, v) /\ Narrows(f, r) /\ r.host = f.host /\ (Announced(f) => Announced(r))
  BY <1>3, Forgets
<1> HIDE DEF r
<1>5. Released(l, A) = r
  BY DEF Released, m, f, r, B
<1>6. Narrows(m, r)
  BY <1>3, <1>4, NarrowsTwice
<1>7. Shrinks(l, r)
  BY <1>2, <1>6, NarrowsShrinks, ShrinksTwice
<1>8. r.bus.leases \cap A = {} /\ l.bus.leases \ A \subseteq r.bus.leases \cup r.lost
  BY <1>2, <1>6 DEF Narrows
<1> QED BY <1>2, <1>3, <1>4, <1>5, <1>7, <1>8 DEF Releases

\* A connection that closes releases its leases.
LEMMA ReleaseKeeps ==
    ASSUME DeliveryInv, NEW c \in Conn, Release(c), turn = Turn(c, "write"), turn' = Idle,
           peer' = [peer EXCEPT ![c] = NoPeer], view' = Forgotten(peer[c].owned),
           daemon' = daemon
    PROVE  Preserved
<1> DEFINE owned == peer[c].owned
           Mine(s) == \E a \in owned : sessionOf[a] = s
           left == [s \in Session |->
                      LET l == HostDetach(At(s), owned)
                          A == owned \cap bus[s].leases
                      IN IF Mine(s)
                         THEN MaybeForget(FlushEvents([l EXCEPT !.bus = DetachLeases(@, A)]))
                         ELSE l]
<1>0. TypeOK /\ SessionsSound /\ RetainedOK /\ Belong /\ FinalsLast /\ Served /\ Buffered
  BY DEF DeliveryInv
<1>1. /\ host' = [s \in Session |-> left[s].host]
      /\ bus' = [s \in Session |-> left[s].bus]
      /\ closedLeases' = (closedLeases \ owned) \cup LostOf(Session, left)
      /\ finals' = [a \in AttachId |-> IF a \in owned THEN <<>> ELSE finals[a]]
      /\ retained' = retained /\ sessionOf' = sessionOf
  BY DEF Release
<1>2. owned \in SUBSET AttachId
  <2>1. peer[c] \in Peer
    BY <1>0 DEF TypeOK
  <2> QED BY <2>1, PeerFields
<1>3. \A s \in Session : left[s] =
          IF Mine(s) THEN Released(At(s), owned)
          ELSE HostDetach(At(s), owned)
  BY DEF Released, Without, At
<1> HIDE DEF left
<1>4. ASSUME NEW s \in Session
      PROVE  /\ Sound(left[s], view) /\ Announced(left[s]) /\ left[s].host.life = host[s].life
             /\ Shrinks(At(s), left[s]) /\ left[s].bus.leases \cap owned = {}
             /\ bus[s].leases \ owned \subseteq left[s].bus.leases \cup left[s].lost
  <2>0. /\ Sound(At(s), view) /\ Announced(At(s)) /\ view \in Views
        /\ At(s) \in Local /\ At(s).host = host[s] /\ At(s).bus = bus[s]
    BY AtSound
  <2>1. CASE Mine(s)
    <3> HIDE DEF owned
    <3>1. Releases(At(s), Released(At(s), owned), view, owned)
      BY <1>2, <2>0, ReleasedIs
    <3>2. Releases(At(s), left[s], view, owned)
      BY <1>3, <2>1, <3>1
    <3> HIDE DEF Mine
    <3> QED BY <2>0, <3>2 DEF Releases
  <2>2. CASE ~Mine(s)
    <3>1. owned \cap host[s].leases = {} /\ owned \cap bus[s].leases = {}
      BY <1>0, <1>2, <2>2 DEF Belong
    <3> HIDE DEF owned
    <3>2. left[s] = At(s)
      BY <1>2, <1>3, <2>0, <2>2, <3>1, NothingToDetach
    <3> QED BY <2>0, <3>1, <3>2 DEF Shrinks
  <2> QED BY <2>1, <2>2
<1> HIDE DEF Mine
<1>5. \A a \in AttachId : a \notin owned => view'[a] = view[a]
  BY DEF Forgotten
<1>6. view' \in Views
  <2>1. Nothing \in View
    BY DEF Nothing, View
  <2>2. \A a \in AttachId : view[a] \in View
    BY <1>0 DEF TypeOK, View
  <2> QED BY <2>1, <2>2 DEF Forgotten, Views
<1>7. \A s \in Session : host'[s] = left[s].host /\ bus'[s] = left[s].bus
                         /\ left[s].host \in HostState /\ left[s].bus \in Bus
                         /\ left[s].lost \in SUBSET AttachId /\ left[s].bus.leases \in SUBSET AttachId
  <2> TAKE s \in Session
  <2>1. left[s] \in Local
    BY <1>4 DEF Sound
  <2> QED BY <1>1, <2>1, LocalFields
<1>8. SessionsShrink
  <2>1. host' \in [Session -> HostState] /\ bus' \in [Session -> Bus]
    BY <1>1, <1>7
  <2>2. ASSUME NEW s \in Session
        PROVE  Sound(After(s), view') /\ Announced(After(s)) /\ Shrinks(At(s), After(s))
    <3>1. \A a \in left[s].bus.leases : view'[a] = view[a]
      BY <1>4, <1>5, <1>7
    <3> QED BY <1>0, <1>4, <1>7, <3>1, SessionBecomes
  <2> QED BY <2>1, <2>2 DEF SessionsShrink, SessionsStep
<1>9. RecordsStay
  BY <1>4, <1>7, <1>8 DEF RecordsStay, SessionsShrink
<1>10. RetainedOK' /\ GoneReserved
  BY <1>0, <1>1, <1>9, RecordsAfter
<1>11. /\ peer' \in [Conn -> Peer] /\ Buffered' /\ peer'[c] = NoPeer
       /\ \A d \in Conn : d # c => peer'[d] = peer[d]
  <2> DEFINE q == NoPeer
  <2>1. q \in Peer /\ q.output <= OutCap + 1 /\ (q.phase = "open" /\ turn' # Turn(c, "read") => q.output <= OutCap)
    BY FreshPeer, DeliveryAssumption
  <2>2. \A d \in Conn : d # c => turn # Turn(d, "read")
    BY TurnIs
  <2>3. peer' = [peer EXCEPT ![c] = q]
    OBVIOUS
  <2> HIDE DEF q
  <2>4. /\ peer' \in [Conn -> Peer] /\ Buffered' /\ peer'[c] = q
        /\ \A d \in Conn : d # c => peer'[d] = peer[d]
    BY <1>0, <2>1, <2>2, <2>3, OnePeer
  <2> QED BY <2>4 DEF q
<1>12. Leaves
  <2> SUFFICES ASSUME NEW s \in Session, NEW a \in bus[s].leases \ bus'[s].leases
               PROVE  Reported(s, a)
    BY DEF Leaves
  <2>1. CASE a \in owned
    <3>1. \A d \in Owner(a) : d = c
      BY <1>0, <2>1 DEF Belong, Owner
    <3> QED BY <1>11, <3>1, FreshPeer DEF Reported
  <2>2. CASE a \notin owned
    <3>1. a \in left[s].lost
      BY <1>4, <1>7, <2>2
    <3> QED BY <1>1, <3>1 DEF Reported, LostOf
  <2> QED BY <2>1, <2>2
<1>13. closedLeases' \subseteq AttachId
  BY <1>0, <1>1, <1>7 DEF TypeOK, LostOf
<1>14. /\ finals' \in [AttachId -> Seq(Frame)]
       /\ \A a \in AttachId : finals'[a] # <<>> => finals[a] # <<>>
  BY <1>0, <1>1, EmptyQueue DEF TypeOK
<1>15. /\ \A d \in Conn : peer'[d].owned \subseteq peer[d].owned
       /\ \A d \in Conn : peer'[d].phase # "closed" /\ peer'[d].events /\ peer'[d].owned # {} =>
                            peer[d].phase # "closed" /\ peer[d].events
  BY <1>11, FreshPeer
<1>16. Belong' /\ FinalsLast' /\ Served'
  BY <1>0, <1>1, <1>8, <1>14, <1>15, ShrinkKeeps
<1>17. RestTyped
  BY <1>0, <1>1, <1>6, <1>11, <1>13, <1>14 DEF RestTyped, TurnTyped, TypeOK
<1> QED BY <1>8, <1>10, <1>11, <1>12, <1>16, <1>17, InvAfter DEF Preserved, SessionsShrink

\* A turn that ends without closing: the owner of a closed lease retires.
LEMMA TurnKeeps ==
    ASSUME DeliveryInv, NEW c \in Conn, turn = Turn(c, "write"), turn' = Idle,
           NEW q \in Peer, peer' = [peer EXCEPT ![c] = q], q.owned = peer[c].owned,
           q.events = peer[c].events, q.output <= peer[c].output, peer[c].phase # "closed",
           q.phase = "open" => peer[c].phase = "open",
           closedLeases' \subseteq closedLeases,
           UNCHANGED <<host, retained, bus, finals, sessionOf, view, daemon>>
    PROVE  Preserved
<1>0. TypeOK /\ SessionsSound /\ RetainedOK /\ Belong /\ FinalsLast /\ Served /\ Buffered
      /\ host' = host /\ bus' = bus /\ view' = view /\ retained' = retained
      /\ finals' = finals /\ sessionOf' = sessionOf /\ daemon' = daemon
  BY DEF DeliveryInv
<1>1. \A s \in Session : Sound(After(s), view') /\ Announced(After(s)) /\ Shrinks(At(s), After(s))
  BY <1>0, SessionStays
<1>2. SessionsShrink
  BY <1>0, <1>1 DEF SessionsShrink, SessionsStep, TypeOK
<1>3. RecordsStay
  BY <1>0, <1>1 DEF RecordsStay
<1>4. RetainedOK' /\ GoneReserved
  BY <1>0, <1>3, RecordsAfter
<1>5. Leaves
  BY <1>0 DEF Leaves
<1>6. peer[c].output \in Nat /\ q.output \in Nat
  BY <1>0, PeerFields DEF TypeOK
<1>7. turn # Turn(c, "read") /\ \A d \in Conn : d # c => turn # Turn(d, "read")
  BY TurnIs
<1>8. q.output <= OutCap + 1 /\ (q.phase = "open" /\ turn' # Turn(c, "read") => q.output <= OutCap)
  BY <1>0, <1>6, <1>7, DeliveryAssumption DEF Buffered, Open
<1>9. /\ peer' \in [Conn -> Peer] /\ Buffered' /\ peer'[c] = q
      /\ \A d \in Conn : d # c => peer'[d] = peer[d]
  BY <1>0, <1>7, <1>8, OnePeer
<1>10. /\ \A d \in Conn : peer'[d].owned \subseteq peer[d].owned
       /\ \A d \in Conn : peer'[d].phase # "closed" /\ peer'[d].events /\ peer'[d].owned # {} =>
                            peer[d].phase # "closed" /\ peer[d].events
  BY <1>9
<1>11. Belong' /\ FinalsLast' /\ Served'
  BY <1>0, <1>2, <1>10, ShrinkKeeps
<1>12. RestTyped
  BY <1>0, <1>9 DEF RestTyped, TurnTyped, TypeOK, Views, View
<1> QED BY <1>2, <1>4, <1>5, <1>9, <1>11, <1>12, InvAfter DEF Preserved, SessionsShrink

\* The end of a turn keeps the invariant.
LEMMA EndTurnStep ==
    ASSUME DeliveryInv, NEW c \in Conn, NEW p \in Peer, EndTurn(c, p),
           p.owned = peer[c].owned, p.events = peer[c].events, p.output <= peer[c].output,
           p.phase \in {peer[c].phase, "closed"}
    PROVE  Preserved
<1> DEFINE drained == p.phase = "retired" /\ p.output = 0
           late == [p EXCEPT !.deadline = "armed"]
           armed == IF p.phase = "retired" /\ p.deadline = "none" THEN late ELSE p
           lost == closedLeases \cap peer[c].owned
           q == IF lost # {} THEN Retire(armed) ELSE armed
<1>1. turn = Turn(c, "write") /\ turn' = Idle /\ daemon' = daemon
  BY DEF EndTurn
<1>2. CASE /\ Release(c)
           /\ peer' = [peer EXCEPT ![c] = NoPeer]
           /\ view' = Forgotten(peer[c].owned)
  BY <1>1, <1>2, ReleaseKeeps
<1>3. CASE /\ p.phase # "closed"
           /\ closedLeases' = closedLeases \ lost
           /\ peer' = [peer EXCEPT ![c] = q]
           /\ UNCHANGED <<host, retained, bus, finals, sessionOf, view>>
  <2>1. /\ armed \in Peer /\ armed.owned = p.owned /\ armed.events = p.events
        /\ armed.output = p.output /\ armed.phase = p.phase
    BY DEF Peer
  <2> HIDE DEF armed, lost
  <2>2. /\ Retire(armed) \in Peer /\ Retire(armed).output = armed.output
        /\ Retire(armed).owned = armed.owned /\ Retire(armed).events = armed.events
        /\ Retire(armed).phase = "retired"
    BY <2>1, PeerFields
  <2>3. /\ q \in Peer /\ q.owned = peer[c].owned /\ q.events = peer[c].events
        /\ q.output <= peer[c].output /\ (q.phase = "open" => peer[c].phase = "open")
    BY <1>3, <2>1, <2>2
  <2> HIDE DEF q
  <2>4. peer[c].phase # "closed" /\ closedLeases' \subseteq closedLeases
        /\ peer' = [peer EXCEPT ![c] = q]
    BY <1>3
  <2>5. UNCHANGED <<host, retained, bus, finals, sessionOf, view, daemon>>
    BY <1>1, <1>3
  <2> QED BY <1>1, <2>3, <2>4, <2>5, TurnKeeps
<1> QED BY <1>2, <1>3 DEF EndTurn

\* A write keeps the invariant.
LEMMA WriteStep ==
    ASSUME DeliveryInv, NEW c \in Conn, NEW n \in 0 .. OutCap + 1, Write(c, n)
    PROVE  Preserved
<1> DEFINE p == [peer[c] EXCEPT !.output = peer[c].output - n]
<1>1. peer[c] \in Peer /\ peer[c].output \in Nat
  BY PeerFields DEF DeliveryInv, TypeOK
<1>2. n \in Nat /\ n <= peer[c].output
  BY DeliveryAssumption DEF Write
<1>3. EndTurn(c, p)
  BY <1>1 DEF Write, Flushed, Peer
<1>4. peer[c].output - n \in Nat /\ peer[c].output - n <= peer[c].output
  BY <1>1, <1>2
<1>5. /\ p \in Peer /\ p.owned = peer[c].owned /\ p.events = peer[c].events
      /\ p.output = peer[c].output - n /\ p.phase = peer[c].phase
  BY <1>1, <1>4 DEF Peer
<1> HIDE DEF p
<1>6. p.output <= peer[c].output /\ p.phase \in {peer[c].phase, "closed"}
  BY <1>4, <1>5
<1> QED BY <1>3, <1>5, <1>6, EndTurnStep

\* A write that fails keeps the invariant.
LEMMA WriteFailsStep ==
    ASSUME DeliveryInv, NEW c \in Conn, WriteFails(c)
    PROVE  Preserved
<1> DEFINE p == Shut(peer[c])
<1>1. peer[c] \in Peer
  BY DEF DeliveryInv, TypeOK
<1>2. /\ p \in Peer /\ p.output = 0 /\ p.owned = peer[c].owned /\ p.events = peer[c].events
      /\ p.phase = "closed" /\ peer[c].output \in Nat
  BY <1>1, PeerFields
<1>3. EndTurn(c, p)
  BY DEF WriteFails
<1> HIDE DEF p
<1>4. p.output <= peer[c].output /\ p.phase \in {peer[c].phase, "closed"}
  BY <1>2
<1> QED BY <1>2, <1>3, <1>4, EndTurnStep

-----------------------------------------------------------------------------
(* The end of the daemon, and every step.                                   *)

\* A session before anybody created it.
LEMMA FreshSession ==
    ASSUME NEW v
    PROVE  LET l == [host |-> Absent, bus |-> Untracked, lost |-> {}] IN
           l \in Local /\ Sound(l, v) /\ Announced(l) /\ Unserved(l) = {}
<1> DEFINE l == [host |-> Absent, bus |-> Untracked, lost |-> {}]
<1>1. Absent \in HostState /\ Absent.life = "absent" /\ Absent.leases = {} /\ Absent.expired = {}
  BY DEF Absent, HostState
<1>2. l \in Local /\ l.host = Absent /\ l.bus = Untracked
  BY <1>1, FreshBus DEF Local
<1> HIDE DEF l
<1>3. HostFits(l) /\ Announced(l) /\ Unserved(l) = {}
  BY <1>1, <1>2, FreshBus DEF HostFits, IsLive, Announced, Unserved
<1>4. Sound(l, v)
  BY <1>2, <1>3, FreshBus DEF Sound
<1> QED BY <1>2, <1>3, <1>4 DEF l

\* The exit of the daemon keeps the invariant: what it held goes with it.
LEMMA ExitStep ==
    ASSUME DeliveryInv, Exit
    PROVE  Preserved
<1>0. TypeOK
  BY DEF DeliveryInv
<1>1. /\ daemon' = "exited" /\ turn = Idle /\ turn' = turn
      /\ peer' = [c \in Conn |-> NoPeer]
      /\ host' = [s \in Session |-> Absent]
      /\ retained' = <<>>
      /\ bus' = [s \in Session |-> Untracked]
      /\ closedLeases' = {}
      /\ finals' = [a \in AttachId |-> <<>>]
      /\ view' = Forgotten(AttachId)
      /\ sessionOf' = sessionOf
  BY DEF Exit
<1>2. Absent \in HostState /\ Absent.life = "absent" /\ Absent.leases = {} /\ Absent.expired = {}
  BY DEF Absent, HostState
<1>3. SessionsStep
  <2>1. \A s \in Session : After(s) = [host |-> Absent, bus |-> Untracked, lost |-> {}]
    BY <1>1 DEF After
  <2>2. host' \in [Session -> HostState] /\ bus' \in [Session -> Bus]
    BY <1>1, <1>2, FreshBus
  <2> QED BY <2>1, <2>2, FreshSession DEF SessionsStep
<1>4. view' \in Views
  <2>1. Nothing \in View
    BY DEF Nothing, View
  <2> QED BY <1>1, <2>1 DEF Forgotten, Views
<1>5. peer' \in [Conn -> Peer] /\ \A c \in Conn : peer'[c] = NoPeer
  BY <1>1, FreshPeer
<1>6. finals' \in [AttachId -> Seq(Frame)] /\ \A a \in AttachId : finals'[a] = <<>>
  BY <1>1, EmptyQueue
<1>7. retained' \in Seq(Session)
  BY <1>1
<1>8. RestTyped
  BY <1>0, <1>1, <1>4, <1>5, <1>6, <1>7 DEF RestTyped, TurnTyped, TypeOK
<1>9. \A s \in Session : bus'[s].leases = {} /\ host'[s].leases = {} /\ host'[s].life = "absent"
  BY <1>1, <1>2, FreshBus
<1>10. Belong' /\ FinalsLast' /\ Served'
  BY <1>5, <1>6, <1>9, FreshPeer DEF Belong, FinalsLast, Served
<1>11. Buffered'
  BY <1>5, FreshPeer, DeliveryAssumption DEF Buffered, Open
<1>12. RetainedOK'
  BY <1>1 DEF RetainedOK
<1>13. DeliveryInv'
  BY <1>3, <1>8, <1>10, <1>11, <1>12, InvAfter
<1>14. Leaves
  BY <1>5, FreshPeer DEF Leaves, Reported, Owner
<1>15. GoneReserved
  BY <1>9 DEF GoneReserved
<1> QED BY <1>13, <1>14, <1>15 DEF Preserved

\* A step that changes nothing keeps the invariant.
LEMMA StutterStep ==
    ASSUME DeliveryInv, UNCHANGED vars
    PROVE  Preserved
<1>1. OnlyPeers /\ peer' = peer /\ turn' = turn
  BY DEF OnlyPeers, vars
<1>2. RetainedOK' /\ GoneReserved /\ Leaves
  BY <1>1, SessionsStay
<1>3. DeliveryInv'
  BY DEF vars, serviceVars, DeliveryInv, TypeOK, SessionsSound, Belong, FinalsLast, Served,
         Buffered, RetainedOK, At, Open
<1> QED BY <1>2, <1>3 DEF Preserved

\* Every step keeps the invariant and reports the leases that leave their
\* queue; a record that goes has its terminal event reserved unless one tick
\* ends more sessions than records are retained.
LEMMA StepKeeps ==
    ASSUME DeliveryInv, [Next]_vars
    PROVE  DeliveryInv' /\ Leaves /\ (~Overfull => GoneReserved)
<1> USE DEF Preserved
<1>1. ASSUME NEW c \in Conn, Request(c) PROVE Preserved
  <2>1. ASSUME NEW s \in Session, Create(c, s) \/ Mutate(c, s) \/ CancelPreBind(c, s)
        PROVE  Preserved
    BY <2>1, CreateStep, MutateStep, CancelPreBindStep
  <2>2. ASSUME NEW s \in Session, NEW a \in AttachId, Attach(c, s, a) PROVE Preserved
    BY <2>2, AttachStep
  <2>3. ASSUME NEW a \in AttachId, DetachOwn(c, a) \/ DetachOther(c, a) PROVE Preserved
    BY <2>3, DetachOwnStep, DetachOtherStep
  <2>4. ASSUME NEW drain \in BOOLEAN, DaemonStop(c, drain) PROVE Preserved
    BY <2>4, DaemonStopStep
  <2>5. Answer(c) \/ ReadFails(c) => Preserved
    BY AnswerStep, ReadFailsStep
  <2> QED BY <1>1, <2>1, <2>2, <2>3, <2>4, <2>5 DEF Request
<1>2. ASSUME NEW c \in Conn, Loop(c) PROVE Preserved
  BY <1>2, PassStep, DeliverStep, WriteStep, WriteFailsStep, IdleTimeoutStep, DeadlineStep,
     DrainTimeoutStep DEF Loop
<1>3. ASSUME NEW c \in Conn, NEW events \in OptIn, Accept(c, events) PROVE Preserved
  BY <1>3, AcceptStep
<1>4. ASSUME Ticks PROVE DeliveryInv' /\ Leaves /\ (~Overfull => GoneReserved)
  <2>1. ASSUME NEW S \in SUBSET LiveSessions, NEW order \in Orders(S), Supervise(order)
        PROVE  DeliveryInv' /\ Leaves /\ (~Overfull => GoneReserved)
    BY <2>1, SuperviseStep
  <2>2. ASSUME NEW s \in Session, SweepGrants(s) PROVE Preserved
    BY <2>2, SweepGrantsStep
  <2>3. ASSUME NEW s \in Session, NEW a \in AttachId, LeaseExpires(s, a) PROVE Preserved
    BY <2>3, LeaseExpiresStep
  <2>4. SignalStop \/ Collect => Preserved
    BY SignalStopStep, CollectStep
  <2> QED BY <1>4, <2>1, <2>2, <2>3, <2>4 DEF Ticks
<1>5. Exit => Preserved
  BY ExitStep
<1>6. UNCHANGED vars => Preserved
  BY StutterStep
<1> QED BY <1>1, <1>2, <1>3, <1>4, <1>5, <1>6 DEF Next

-----------------------------------------------------------------------------
(* The theorems.                                                            *)

\* The daemon starts without sessions, leases and connections.
LEMMA InitKeeps ==
    ASSUME Init
    PROVE  DeliveryInv
<1>1. Absent \in HostState /\ Absent.life = "absent" /\ Absent.leases = {} /\ Absent.expired = {}
  BY DEF Absent, HostState
<1>2. \A s \in Session : /\ host[s] = Absent /\ bus[s] = Untracked
                         /\ At(s) = [host |-> Absent, bus |-> Untracked, lost |-> {}]
  BY DEF Init, At
<1>3. \A c \in Conn : peer[c] = NoPeer
  BY DEF Init
<1>4. TypeOK
  <2>1. host \in [Session -> HostState] /\ bus \in [Session -> Bus]
    BY <1>1, FreshBus DEF Init
  <2>2. peer \in [Conn -> Peer]
    BY FreshPeer DEF Init
  <2>3. finals \in [AttachId -> Seq(Frame)] /\ retained \in Seq(Session)
    BY EmptyQueue DEF Init
  <2>4. /\ view \in [AttachId -> [revision : Nat, ended : BOOLEAN]]
        /\ sessionOf \in [AttachId -> Session \cup {NoSession}]
        /\ closedLeases \subseteq AttachId /\ daemon \in {"running", "stopping", "exited"}
        /\ turn \in {Idle} \cup {Turn(c, stage) : c \in Conn, stage \in {"read", "write"}}
    BY DEF Init
  <2> QED BY <2>1, <2>2, <2>3, <2>4 DEF TypeOK
<1>5. SessionsSound
  BY <1>2, FreshSession DEF SessionsSound
<1>6. Belong /\ FinalsLast /\ Served
  <2>1. \A a \in AttachId : finals[a] = <<>>
    BY DEF Init
  <2> QED BY <1>1, <1>2, <1>3, <2>1, FreshBus, FreshPeer DEF Belong, FinalsLast, Served
<1>7. Buffered
  BY <1>3, FreshPeer, DeliveryAssumption DEF Buffered, Open
<1>8. RetainedOK
  BY DEF Init, RetainedOK
<1> QED BY <1>4, <1>5, <1>6, <1>7, <1>8 DEF DeliveryInv

\* The invariant of the delivery: the buses, the queues, the leases and the
\* connections fit together whatever handlers, ticks and timers interleave.
THEOREM DeliveryHolds == Spec => []DeliveryInv
<1>1. Init => DeliveryInv
  BY InitKeeps
<1>2. DeliveryInv /\ [Next]_vars => DeliveryInv'
  BY StepKeeps
<1> QED BY <1>1, <1>2, PTL DEF Spec

\* Every variable of the loop keeps its type.
THEOREM TypeHolds == Spec => []TypeOK
<1>1. DeliveryInv => TypeOK
  BY DEF DeliveryInv
<1> QED BY <1>1, DeliveryHolds, PTL

\* D-10: a lease is handed every revision, in order and without a gap, for
\* every number of sessions, leases and connections and every queue bound.
THEOREM StreamsHaveNoGap == Spec => []StreamGapFree
<1>1. DeliveryInv => StreamGapFree
  <2> SUFFICES ASSUME DeliveryInv, NEW s \in Session
               PROVE  /\ \A a \in bus[s].leases :
                           /\ view[a].revision <= bus[s].revision
                           /\ Revisions(bus[s].queue[a]) = view[a].revision + 1 .. bus[s].revision
                           /\ InOrder(bus[s].queue[a])
                      /\ \A i \in DOMAIN bus[s].ring :
                           bus[s].ring[i] = bus[s].revision - Len(bus[s].ring) + i
    BY DEF StreamGapFree
  <2>1. Sound(At(s), view) /\ At(s).bus = bus[s]
    BY AtSound
  <2> QED BY <2>1 DEF Sound, LeaseOK, BusOK, RingOK
<1> QED BY <1>1, DeliveryHolds, PTL

\* D-10: the terminal event is pinned exactly for the leases that still have to
\* take it.
THEOREM PinsAreExact == Spec => []TerminalPinned
<1>1. DeliveryInv => TerminalPinned
  <2> SUFFICES ASSUME DeliveryInv, NEW s \in Session
               PROVE  /\ bus[s].pending \subseteq bus[s].leases
                      /\ \A a \in bus[s].leases :
                           /\ a \in bus[s].pending <=> Ends(bus[s].queue[a])
                           /\ bus[s].terminalized => a \in bus[s].pending \/ view[a].ended
    BY DEF TerminalPinned
  <2>1. Sound(At(s), view) /\ At(s).bus = bus[s]
    BY AtSound
  <2> QED BY <2>1 DEF Sound, LeaseOK, BusOK
<1> QED BY <1>1, DeliveryHolds, PTL

\* D-10: between two handlers the bus has announced every revision of the host.
THEOREM EventsFollowTheHost == Spec => []EventsKeepUp
<1>1. DeliveryInv => EventsKeepUp
  <2> SUFFICES ASSUME DeliveryInv, NEW s \in Session, bus[s].tracked,
                      host[s].life \in {"live", "terminal"}
               PROVE  bus[s].revision = host[s].revision
    BY DEF EventsKeepUp
  <2>1. Announced(At(s)) /\ At(s).bus = bus[s] /\ At(s).host = host[s]
    BY AtSound
  <2> QED BY <2>1 DEF Announced
<1> QED BY <1>1, DeliveryHolds, PTL

\* A lease that may act receives events.
THEOREM ActingLeasesAreServed == Spec => []AttachedLeaseIsServed
<1>1. DeliveryInv => AttachedLeaseIsServed
  <2> SUFFICES ASSUME DeliveryInv, NEW c \in Conn, Connected(c), peer[c].events,
                      NEW a \in peer[c].owned,
                      a \in host[sessionOf[a]].leases \ host[sessionOf[a]].expired
               PROVE  a \in bus[sessionOf[a]].leases
    BY DEF AttachedLeaseIsServed
  <2>1. a \notin Unserved(At(sessionOf[a]))
    BY DEF DeliveryInv, Served, Connected
  <2> QED BY <2>1 DEF Unserved, At
<1> QED BY <1>1, DeliveryHolds, PTL

\* Every queue, ring and outbound buffer keeps its bound.
THEOREM BuffersAreBounded == Spec => []MemoryBounded
<1>1. DeliveryInv => MemoryBounded
  <2> SUFFICES ASSUME DeliveryInv PROVE MemoryBounded
    OBVIOUS
  <2>1. ASSUME NEW s \in Session
        PROVE  /\ Len(bus[s].ring) <= RingCap
               /\ \A a \in AttachId : Len(bus[s].queue[a]) <= QueueCap
    <3>1. Sound(At(s), view) /\ At(s).bus = bus[s]
      BY AtSound
    <3> QED BY <3>1 DEF Sound, BusOK, RingOK
  <2>2. ASSUME NEW c \in Conn
        PROVE  /\ peer[c].output <= OutCap + 1
               /\ Open(c) /\ turn.peer # c => peer[c].output <= OutCap
    <3>1. turn.peer # c => turn # Turn(c, "read")
      BY TurnIs
    <3> QED BY <3>1 DEF DeliveryInv, Buffered
  <2> QED BY <2>1, <2>2 DEF MemoryBounded
<1> QED BY <1>1, DeliveryHolds, PTL

\* D-10: no step takes the queue of a lease behind the back of its connection.
THEOREM LossesAreReported == Spec => LeavingIsReported
<1> DEFINE Told == \A s \in Session : \A a \in bus[s].leases \ bus'[s].leases : Reported(s, a)
<1>1. DeliveryInv /\ [Next]_vars => [Told]_vars
  BY StepKeeps DEF Leaves
<1>2. LeavingIsReported <=> [][Told]_vars
  BY DEF LeavingIsReported
<1> HIDE DEF Told
<1> QED BY <1>1, <1>2, DeliveryHolds, PTL DEF Spec

\* D-10: a lease that outlives the record of its session has the terminal event
\* reserved, for every retention cap; only a tick that ends more sessions than
\* the cap may evict a record it has just made before that.
THEOREM EndsAreReserved == Spec => TerminalEventReserved
<1> DEFINE Reserving == \A s \in Session : host[s].life = "terminal" => ~Unreserved(s)
           Step == \A s \in Session :
                     Unreserved(s)' => Unreserved(s) \/ (host'[s].life = "gone" /\ Overfull)
<1>1. DeliveryInv => Reserving
  <2> SUFFICES ASSUME DeliveryInv, NEW s \in Session, host[s].life = "terminal", bus[s].leases # {}
               PROVE  bus[s].terminalized
    BY DEF Unreserved
  <2>1. Sound(At(s), view) /\ Announced(At(s)) /\ At(s).bus = bus[s] /\ At(s).host = host[s]
    BY AtSound
  <2> QED BY <2>1, EndedReserves
<1>2. DeliveryInv /\ Reserving' /\ [Next]_vars => [Step]_vars
  <2> SUFFICES ASSUME DeliveryInv, Reserving', [Next]_vars, NEW s \in Session, Unreserved(s)'
               PROVE  Unreserved(s) \/ (host'[s].life = "gone" /\ Overfull)
    OBVIOUS
  <2>1. host'[s].life = "gone" /\ bus'[s].leases # {} /\ ~bus'[s].terminalized
    BY DEF Unreserved
  <2>2. ~Overfull => GoneReserved
    BY StepKeeps
  <2> QED BY <2>1, <2>2 DEF GoneReserved, Unreserved
<1>3. TerminalEventReserved <=> [][Step]_vars
  BY DEF TerminalEventReserved
<1> HIDE DEF Reserving, Step
<1> QED BY <1>1, <1>2, <1>3, DeliveryHolds, PTL DEF Spec
=============================================================================
