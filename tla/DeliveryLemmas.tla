----------------------------- MODULE DeliveryLemmas -----------------------------
(***************************************************************************)
(* Proofs about the operators of EventBus and about one session of          *)
(* Delivery: what each operation keeps of the invariant DeliveryInvariant.  *)
(***************************************************************************)
EXTENDS DeliveryInvariant, FiniteSetTheorems, SequenceTheorems, WellFoundedInduction, TLAPS

-----------------------------------------------------------------------------
(* Counting and extrema.                                                    *)

\* A set of handles has a size.
LEMMA FiniteCount ==
    ASSUME NEW A \in SUBSET AttachId
    PROVE  IsFiniteSet(A) /\ Cardinality(A) \in Nat
BY BusAssumption, FS_Subset, FS_CardinalityType

\* More handles count at least as much.
LEMMA CountMonotone ==
    ASSUME NEW A \in SUBSET AttachId, NEW B \in SUBSET A
    PROVE  Cardinality(B) <= Cardinality(A)
BY FiniteCount, FS_Subset

\* The maximum is the member that no other exceeds.
LEMMA MaxIs ==
    ASSUME NEW S \in SUBSET Int, NEW m \in S, \A x \in S : x <= m
    PROVE  Max(S) = m
<1>1. \E x \in S : \A y \in S : x >= y
  OBVIOUS
<1>2. Max(S) \in S /\ \A y \in S : Max(S) >= y
  BY <1>1 DEF Max
<1>3. Max(S) \in Int /\ m \in Int /\ Max(S) >= m /\ Max(S) <= m
  BY <1>2
<1> QED BY <1>3

\* Max and Min of two numbers.
LEMMA Extrema ==
    ASSUME NEW i \in Int, NEW j \in Int
    PROVE  /\ Max({i, j}) = IF i <= j THEN j ELSE i
           /\ Min({i, j}) = IF i <= j THEN i ELSE j
<1>1. \E x \in {i, j} : \A y \in {i, j} : x >= y
  OBVIOUS
<1>2. \E x \in {i, j} : \A y \in {i, j} : x =< y
  OBVIOUS
<1>3. Max({i, j}) \in {i, j} /\ \A y \in {i, j} : Max({i, j}) >= y
  BY <1>1 DEF Max
<1>4. Min({i, j}) \in {i, j} /\ \A y \in {i, j} : Min({i, j}) =< y
  BY <1>2 DEF Min
<1> QED BY <1>3, <1>4

\* A set of numbers has a least member.
LEMMA LeastNumber ==
    ASSUME NEW T \in SUBSET Nat, T # {}
    PROVE  \E x \in T : \A y \in T : x <= y
<1> DEFINE R == OpToRel(<, Nat)
<1>1. IsWellFoundedOn(R, Nat)
  BY NatLessThanWellFounded, Zenon
<1>2. \A x, y \in Nat : <<y, x>> \in R <=> y < x
  BY DEF OpToRel
<1> HIDE DEF R
<1>3. PICK x \in T : \A y \in T : ~(<<y, x>> \in R)
  BY <1>1, WFMin
<1>4. \A y \in T : ~(y < x)
  BY <1>2, <1>3
<1> QED BY <1>4

\* A set with 0 and every successor is the set of all numbers.
LEMMA NatClosed ==
    ASSUME NEW B \in SUBSET Nat, 0 \in B, \A n \in B : n + 1 \in B
    PROVE  B = Nat
<1> SUFFICES ASSUME Nat \ B # {} PROVE FALSE
  OBVIOUS
<1>1. PICK x \in Nat \ B : \A y \in Nat \ B : x <= y
  BY LeastNumber
<1>2. x # 0
  OBVIOUS
<1>3. x - 1 \in Nat /\ x - 1 \in B /\ x = (x - 1) + 1
  BY <1>1, <1>2
<1> QED BY <1>3

-----------------------------------------------------------------------------
(* The queue of one lease.                                                  *)

\* The canonical frames are the revisions after the bus', in order.
LEMMA FramesAre ==
    ASSUME NEW b \in Bus, NEW r \in Nat, r > b.revision,
           NEW k \in {"session_state", "session_terminal"}
    PROVE  LET F == FramesUpTo(b, r, k) IN
           /\ F \in Seq(Frame)
           /\ Len(F) = r - b.revision
           /\ DOMAIN F = 1 .. r - b.revision
           /\ \A i \in 1 .. r - b.revision :
                /\ F[i].revision = b.revision + i
                /\ Announces(F[i])
                /\ F[i].kind = "session_terminal" <=> (i = r - b.revision /\ k = "session_terminal")
                /\ F[i].kind # "lease_revoked"
<1> DEFINE n == r - b.revision
           F == FramesUpTo(b, r, k)
<1>0. b.revision \in Nat /\ n \in Nat
  BY DEF Bus
<1> HIDE DEF n
<1>1. F = [i \in 1 .. n |-> [kind |-> IF b.revision + i = r THEN k ELSE "session_state",
                             revision |-> b.revision + i]]
  BY DEF FramesUpTo, n
<1>2. F \in [1 .. n -> Frame]
  BY <1>0, <1>1 DEF Frame, Kind
<1>3. F \in Seq(Frame) /\ Len(F) = n /\ DOMAIN F = 1 .. n
  BY <1>0, <1>2, SeqDef, LenProperties
<1>4. ASSUME NEW i \in 1 .. n
      PROVE /\ F[i].revision = b.revision + i
            /\ Announces(F[i])
            /\ F[i].kind = "session_terminal" <=> (i = n /\ k = "session_terminal")
            /\ F[i].kind # "lease_revoked"
  <2>1. F[i] = [kind |-> IF b.revision + i = r THEN k ELSE "session_state",
                revision |-> b.revision + i]
    BY <1>1
  <2>2. b.revision + i = r <=> i = n
    BY <1>0 DEF n
  <2> QED BY <2>1, <2>2 DEF Announces
<1> QED BY <1>3, <1>4 DEF n

\* Frames that fit are all admitted.
LEMMA AdmitsAll ==
    ASSUME NEW q \in Seq(Frame), NEW F \in Seq(Frame), Len(F) <= Room(q)
    PROVE  Admitted(q, F) = q \o F
<1>1. Len(F) \in Nat /\ Len(q) \in Nat /\ QueueCap \in Nat
  BY LenProperties, BusAssumption
<1>2. Room(q) \in Int
  BY <1>1 DEF Room
<1>4. Len(F) \in Int
  BY <1>1
<1>5. Min({Len(F), Room(q)}) = IF Len(F) <= Room(q) THEN Len(F) ELSE Room(q)
  BY <1>2, <1>4, Extrema, Zenon
<1>3. Min({Len(F), Room(q)}) = Len(F)
  BY <1>5
<1> QED BY <1>3, SubSeqFull DEF Admitted

\* Whatever is offered, a queue keeps its bound and its type.
LEMMA AdmittedBounded ==
    ASSUME NEW q \in Seq(Frame), NEW F \in Seq(Frame), Len(q) <= QueueCap
    PROVE  Admitted(q, F) \in Seq(Frame) /\ Len(Admitted(q, F)) <= QueueCap
<1> DEFINE m == Min({Len(F), Room(q)})
           G == SubSeq(F, 1, m)
<1>1. Len(F) \in Nat /\ Len(q) \in Nat /\ QueueCap \in Nat
  BY LenProperties, BusAssumption
<1>7. Room(q) \in Nat /\ Room(q) = QueueCap - Len(q)
  BY <1>1 DEF Room
<1>8. m = IF Len(F) <= Room(q) THEN Len(F) ELSE Room(q)
  <2>1. Len(F) \in Int /\ Room(q) \in Int
    BY <1>1, <1>7
  <2> QED BY <2>1, Extrema, Zenon DEF m
<1>2. m \in Nat /\ m <= Len(F) /\ m <= QueueCap - Len(q)
  BY <1>1, <1>7, <1>8
<1> HIDE DEF m
<1>3. \A i \in 1 .. m : F[i] \in Frame
  BY <1>1, <1>2, ElementOfSeq
<1>4. G \in Seq(Frame) /\ Len(G) = m
  BY <1>1, <1>2, <1>3, SubSeqProperties
<1>5. q \o G \in Seq(Frame) /\ Len(q \o G) = Len(q) + m
  BY <1>4, ConcatProperties
<1>6. Admitted(q, F) = q \o G
  BY DEF Admitted, m
<1> QED BY <1>1, <1>2, <1>5, <1>6

\* A frame of a concatenation is a frame of one of its parts.
LEMMA ConcatFrames ==
    ASSUME NEW q \in Seq(Frame), NEW F \in Seq(Frame)
    PROVE  /\ q \o F \in Seq(Frame)
           /\ DOMAIN (q \o F) = 1 .. Len(q) + Len(F)
           /\ DOMAIN q = 1 .. Len(q) /\ DOMAIN F = 1 .. Len(F)
           /\ Len(q) \in Nat /\ Len(F) \in Nat
           /\ \A i \in DOMAIN q : i \in DOMAIN (q \o F) /\ (q \o F)[i] = q[i]
           /\ \A i \in DOMAIN F : Len(q) + i \in DOMAIN (q \o F) /\ (q \o F)[Len(q) + i] = F[i]
           /\ \A i \in DOMAIN (q \o F) :
                \/ i \in DOMAIN q /\ (q \o F)[i] = q[i]
                \/ i > Len(q) /\ i - Len(q) \in DOMAIN F /\ (q \o F)[i] = F[i - Len(q)]
BY LenProperties, ConcatProperties

\* Revisions and last frames of a concatenation.
LEMMA ConcatRevisions ==
    ASSUME NEW q \in Seq(Frame), NEW F \in Seq(Frame)
    PROVE  /\ Revisions(q \o F) = Revisions(q) \cup Revisions(F)
           /\ Ends(q \o F) <=> Ends(q) \/ Ends(F)
<1> DEFINE s == q \o F
<1>1. /\ \A i \in DOMAIN q : i \in DOMAIN s /\ s[i] = q[i]
      /\ \A i \in DOMAIN F : Len(q) + i \in DOMAIN s /\ s[Len(q) + i] = F[i]
      /\ \A i \in DOMAIN s : \/ i \in DOMAIN q /\ s[i] = q[i]
                             \/ i - Len(q) \in DOMAIN F /\ s[i] = F[i - Len(q)]
  BY ConcatFrames
<1> HIDE DEF s
<1>2. Revisions(s) \subseteq Revisions(q) \cup Revisions(F)
  BY <1>1 DEF Revisions
<1>3. Revisions(q) \subseteq Revisions(s)
  BY <1>1 DEF Revisions
<1>4. Revisions(F) \subseteq Revisions(s)
  BY <1>1 DEF Revisions
<1>5. Ends(s) <=> Ends(q) \/ Ends(F)
  BY <1>1 DEF Ends
<1> QED BY <1>2, <1>3, <1>4, <1>5 DEF s

\* An empty queue announces nothing and ends nothing.
LEMMA EmptyQueue ==
    /\ Revisions(<<>>) = {}
    /\ ~Ends(<<>>)
    /\ InOrder(<<>>)
    /\ <<>> \in Seq(Frame)
    /\ Len(<<>>) = 0
    /\ \A i \in DOMAIN <<>> : FALSE
BY EmptySeq DEF Revisions, Ends, InOrder

\* What a client has seen.
View == [revision : Nat, ended : BOOLEAN]

\* A lease that has room for every frame of an emission keeps its stream.
LEMMA StreamGrows ==
    ASSUME NEW b \in Bus, NEW a \in AttachId, NEW v \in View, NEW r \in Nat, r > b.revision,
           NEW k \in {"session_state", "session_terminal"},
           LeaseOK(b, a, v), r - b.revision <= Room(b.queue[a])
    PROVE  LET q == Admitted(b.queue[a], FramesUpTo(b, r, k)) IN
           /\ Revisions(q) = v.revision + 1 .. r
           /\ InOrder(q)
           /\ \A i \in DOMAIN q : q[i].kind # "lease_revoked"
           /\ Ends(q) <=> Ends(b.queue[a]) \/ k = "session_terminal"
<1> DEFINE p == b.queue[a]
           F == FramesUpTo(b, r, k)
           s == p \o F
           n == r - b.revision
<1>0. p \in Seq(Frame) /\ b.revision \in Nat /\ v.revision \in Nat /\ n \in Nat /\ n > 0
  BY DEF Bus, View
<1>1. /\ F \in Seq(Frame) /\ Len(F) = n /\ DOMAIN F = 1 .. n
      /\ \A i \in 1 .. n : F[i].revision = b.revision + i /\ Announces(F[i])
      /\ \A i \in 1 .. n : F[i].kind = "session_terminal" <=> (i = n /\ k = "session_terminal")
      /\ \A i \in 1 .. n : F[i].kind # "lease_revoked"
  BY FramesAre
<1>2. Admitted(p, F) = s
  BY <1>0, <1>1, AdmitsAll
<1>5. Revisions(p) = v.revision + 1 .. b.revision /\ InOrder(p)
      /\ \A i \in DOMAIN p : p[i].kind # "lease_revoked"
  BY DEF LeaseOK
<1> HIDE DEF F, n, p
<1>3. /\ DOMAIN s = 1 .. Len(p) + n /\ DOMAIN p = 1 .. Len(p) /\ Len(p) \in Nat
      /\ \A i \in DOMAIN s : \/ i \in DOMAIN p /\ s[i] = p[i]
                             \/ i > Len(p) /\ i - Len(p) \in 1 .. n /\ s[i] = F[i - Len(p)]
  BY <1>0, <1>1, ConcatFrames
<1>4. Revisions(s) = Revisions(p) \cup Revisions(F) /\ (Ends(s) <=> Ends(p) \/ Ends(F))
  BY <1>0, <1>1, ConcatRevisions
<1> HIDE DEF s
<1>6. Revisions(F) = b.revision + 1 .. r
  <2>1. Revisions(F) = {F[i].revision : i \in 1 .. n}
    BY <1>1 DEF Revisions
  <2>2. ASSUME NEW x \in b.revision + 1 .. r PROVE x \in {F[i].revision : i \in 1 .. n}
    <3>1. x - b.revision \in 1 .. n /\ x = b.revision + (x - b.revision)
      BY <1>0 DEF n
    <3> QED BY <3>1, <1>1
  <2>3. ASSUME NEW i \in 1 .. n PROVE F[i].revision \in b.revision + 1 .. r
    BY <1>0, <1>1 DEF n
  <2> QED BY <2>1, <2>2, <2>3
<1>7. Revisions(s) = v.revision + 1 .. r
  <2>1. v.revision <= b.revision
    BY DEF LeaseOK
  <2> QED BY <1>0, <1>4, <1>5, <1>6, <2>1
<1>8. Ends(F) <=> k = "session_terminal"
  <2>1. ASSUME k = "session_terminal" PROVE Ends(F)
    <3>1. n \in DOMAIN F /\ F[n].kind = "session_terminal"
      BY <1>0, <1>1, <2>1
    <3> QED BY <3>1 DEF Ends
  <2>2. ASSUME Ends(F) PROVE k = "session_terminal"
    <3>1. PICK i \in DOMAIN F : F[i].kind \in {"session_terminal", "lease_revoked"}
      BY <2>2 DEF Ends
    <3> QED BY <1>1, <3>1
  <2> QED BY <2>1, <2>2
<1>9. \A i \in DOMAIN s : s[i].kind # "lease_revoked"
  BY <1>1, <1>3, <1>5
<1>10. InOrder(s)
  <2> SUFFICES ASSUME NEW i \in DOMAIN s, NEW j \in DOMAIN s, i < j,
                      Announces(s[i]), Announces(s[j])
               PROVE  s[i].revision < s[j].revision
    BY DEF InOrder
  <2>1. CASE j \in DOMAIN p
    <3>1. i \in DOMAIN p /\ s[i] = p[i] /\ s[j] = p[j]
      BY <1>3, <2>1
    <3>2. Announces(p[i]) /\ Announces(p[j])
      BY <3>1
    <3>3. p[i].revision < p[j].revision
      BY <2>1, <3>1, <3>2, <1>5, Zenon DEF InOrder
    <3> QED BY <3>1, <3>3
  <2>2. CASE j \notin DOMAIN p /\ i \in DOMAIN p
    <3>1. s[i] = p[i] /\ s[j] = F[j - Len(p)] /\ j - Len(p) \in 1 .. n
      BY <1>3, <2>2
    <3>2. s[i].revision \in Revisions(p)
      BY <2>2, <3>1 DEF Revisions
    <3>3. s[i].revision <= b.revision /\ s[i].revision \in Int
      BY <1>0, <1>5, <3>2
    <3>4. s[j].revision = b.revision + (j - Len(p))
      BY <1>1, <3>1
    <3> QED BY <1>0, <3>1, <3>3, <3>4
  <2>3. CASE i \notin DOMAIN p /\ j \notin DOMAIN p
    <3>1. /\ s[i] = F[i - Len(p)] /\ i - Len(p) \in 1 .. n
          /\ s[j] = F[j - Len(p)] /\ j - Len(p) \in 1 .. n
      BY <1>3, <2>3
    <3>2. s[i].revision = b.revision + (i - Len(p)) /\ s[j].revision = b.revision + (j - Len(p))
      BY <1>1, <3>1
    <3>3. i \in Nat /\ j \in Nat
      BY <1>0, <1>3
    <3> QED BY <1>0, <1>3, <3>2, <3>3
  <2>4. ~(i \notin DOMAIN p /\ j \in DOMAIN p)
    BY <1>0, <1>3
  <2> QED BY <2>1, <2>2, <2>3, <2>4
<1> QED BY <1>2, <1>4, <1>7, <1>8, <1>9, <1>10 DEF F, p

\* The retained ring stays the newest revisions.
LEMMA RingGrows ==
    ASSUME NEW ring \in Seq(Nat), NEW rev \in Nat, RingOK(ring, rev), NEW F \in Seq(Frame),
           \A i \in 1 .. Len(F) : F[i].revision = rev + i
    PROVE  /\ Retain(ring, F) \in Seq(Nat)
           /\ RingOK(Retain(ring, F), rev + Len(F))
<1> DEFINE G == [i \in DOMAIN F |-> F[i].revision]
           all == ring \o G
           m == Max({1, Len(all) - RingCap + 1})
           t == SubSeq(all, m, Len(all))
<1>0. Len(ring) \in Nat /\ DOMAIN ring = 1 .. Len(ring) /\ Len(F) \in Nat
      /\ DOMAIN F = 1 .. Len(F) /\ RingCap \in Nat /\ RingCap >= 1
  BY LenProperties, BusAssumption
<1>1. G \in Seq(Nat) /\ Len(G) = Len(F)
  <2>1. G = [i \in 1 .. Len(F) |-> F[i].revision]
    BY <1>0
  <2>2. G \in [1 .. Len(F) -> Nat]
    BY <1>0, <2>1
  <2>3. G \in Seq(Nat)
    BY <1>0, <2>2, SeqDef
  <2> QED BY <2>2, <2>3, <1>0, LenProperties
<1>2. \A i \in 1 .. Len(F) : G[i] = rev + i
  BY <1>0
<1> HIDE DEF G
<1>3. all \in Seq(Nat) /\ Len(all) = Len(ring) + Len(F) /\ Len(all) \in Nat
      /\ \A i \in 1 .. Len(ring) + Len(F) : all[i] = IF i <= Len(ring) THEN ring[i] ELSE G[i - Len(ring)]
  <2>1. all \in Seq(Nat) /\ Len(all) = Len(ring) + Len(G)
        /\ \A i \in 1 .. Len(ring) + Len(G) : all[i] = IF i <= Len(ring) THEN ring[i] ELSE G[i - Len(ring)]
    BY <1>1, ConcatProperties
  <2> QED BY <1>0, <1>1, <2>1
<1> HIDE DEF all
<1>4. \A i \in 1 .. Len(ring) + Len(F) : all[i] = rev + Len(F) - Len(all) + i
  <2> TAKE i \in 1 .. Len(ring) + Len(F)
  <2>1. CASE i <= Len(ring)
    <3>1. i \in 1 .. Len(ring) /\ all[i] = ring[i]
      BY <1>0, <1>3, <2>1
    <3>2. ring[i] = rev - Len(ring) + i
      BY <1>0, <3>1 DEF RingOK
    <3> QED BY <1>0, <1>3, <3>1, <3>2
  <2>2. CASE i > Len(ring)
    <3>1. i - Len(ring) \in 1 .. Len(F) /\ all[i] = G[i - Len(ring)]
      BY <1>0, <1>3, <2>2
    <3>2. G[i - Len(ring)] = rev + (i - Len(ring))
      BY <1>2, <3>1
    <3> QED BY <1>0, <1>3, <3>1, <3>2
  <2> QED BY <1>0, <2>1, <2>2
<1>5. m \in Int /\ m = IF 1 <= Len(all) - RingCap + 1 THEN Len(all) - RingCap + 1 ELSE 1
  <2>1. Len(all) - RingCap + 1 \in Int /\ 1 \in Int
    BY <1>0, <1>3
  <2>2. m = IF 1 <= Len(all) - RingCap + 1 THEN Len(all) - RingCap + 1 ELSE 1
    BY <2>1, Extrema, Zenon
  <2> QED BY <2>1, <2>2
<1> HIDE DEF m
<1>6. \A i \in m .. Len(all) : all[i] \in Nat
  <2> TAKE i \in m .. Len(all)
  <2>1. i \in 1 .. Len(all)
    BY <1>0, <1>3, <1>5
  <2> QED BY <1>3, <2>1, ElementOfSeq
<1>7. /\ t \in Seq(Nat)
      /\ Len(t) = IF m <= Len(all) THEN Len(all) - m + 1 ELSE 0
      /\ \A i \in 1 .. Len(all) - m + 1 : t[i] = all[m + i - 1]
  <2>1. Len(all) \in Int
    BY <1>3
  <2> QED BY <2>1, <1>5, <1>6, SubSeqProperties
<1>8. DOMAIN t = 1 .. Len(t) /\ Len(t) \in Nat
  BY <1>7, LenProperties
<1> HIDE DEF t
<1>9. Len(t) <= RingCap /\ Len(t) = Len(all) - m + 1
  <2>1. Len(all) \in Int /\ RingCap \in Int /\ Len(all) >= 0 /\ RingCap >= 1
    BY <1>0, <1>3
  <2>2. Len(t) = IF m <= Len(all) THEN Len(all) - m + 1 ELSE 0
    BY <1>7
  <2> HIDE <1>3, <1>7
  <2>3. CASE 1 <= Len(all) - RingCap + 1
    BY <1>5, <2>1, <2>2, <2>3
  <2>4. CASE ~(1 <= Len(all) - RingCap + 1)
    BY <1>5, <2>1, <2>2, <2>4
  <2> QED BY <2>3, <2>4
<1>10. \A i \in DOMAIN t : t[i] = rev + Len(F) - Len(t) + i
  <2> TAKE i \in DOMAIN t
  <2>1. i \in 1 .. Len(all) - m + 1 /\ m + i - 1 \in 1 .. Len(all)
    <3>1. Len(all) \in Int /\ RingCap \in Int /\ m \in Int /\ m >= 1
      BY <1>0, <1>3, <1>5
    <3>2. i \in 1 .. Len(all) - m + 1
      BY <1>8, <1>9
    <3> QED BY <3>1, <3>2
  <2>2. t[i] = all[m + i - 1]
    BY <1>7, <2>1
  <2>3. all[m + i - 1] = rev + Len(F) - Len(all) + (m + i - 1)
    <3>1. Len(all) = Len(ring) + Len(F)
      BY <1>3
    <3> QED BY <1>4, <2>1, <3>1
  <2>4. Len(all) \in Int /\ Len(F) \in Int /\ m \in Int /\ i \in Int /\ Len(t) = Len(all) - m + 1
    BY <1>0, <1>3, <1>5, <1>9, <2>1
  <2> QED BY <2>2, <2>3, <2>4
<1>11. Retain(ring, F) = t
  BY DEF Retain, t, m, all, G
<1> QED BY <1>7, <1>9, <1>10, <1>11 DEF RingOK

-----------------------------------------------------------------------------
(* The bus of one session.                                                  *)

\* The fields of a bus.
LEMMA BusFields ==
    ASSUME NEW b \in Bus
    PROVE  /\ b.tracked \in BOOLEAN /\ b.revision \in Nat /\ b.terminalized \in BOOLEAN
           /\ b.ring \in Seq(Nat) /\ b.leases \in SUBSET AttachId /\ b.pending \in SUBSET AttachId
           /\ b.queue \in [AttachId -> Seq(Frame)]
           /\ \A a \in AttachId : b.queue[a] \in Seq(Frame)
BY DEF Bus

\* The room in a queue is a number.
LEMMA RoomIsInt ==
    ASSUME NEW b \in Bus, NEW a \in AttachId
    PROVE  Room(b.queue[a]) \in Int
<1>1. b.queue[a] \in Seq(Frame)
  BY BusFields
<1>2. Len(b.queue[a]) \in Nat /\ QueueCap \in Nat
  BY <1>1, LenProperties, BusAssumption
<1> QED BY <1>2 DEF Room

\* Frames offered to every lease.
LEMMA OfferIs ==
    ASSUME NEW b \in Bus, NEW F \in Seq(Frame), \A a \in AttachId : Len(b.queue[a]) <= QueueCap
    PROVE  LET o == Offer(b, F) IN
           /\ o \in Bus
           /\ o.tracked = b.tracked /\ o.revision = b.revision /\ o.terminalized = b.terminalized
           /\ o.ring = b.ring /\ o.leases = b.leases /\ o.pending = b.pending
           /\ \A a \in b.leases : o.queue[a] = Admitted(b.queue[a], F)
           /\ \A a \in AttachId : Len(o.queue[a]) <= QueueCap
<1> DEFINE Q == [a \in AttachId |-> IF a \in b.leases THEN Admitted(b.queue[a], F) ELSE b.queue[a]]
           o == Offer(b, F)
<1>1. ASSUME NEW a \in AttachId PROVE Q[a] \in Seq(Frame) /\ Len(Q[a]) <= QueueCap
  <2>1. b.queue[a] \in Seq(Frame) /\ Len(b.queue[a]) <= QueueCap
    BY BusFields
  <2>2. Admitted(b.queue[a], F) \in Seq(Frame) /\ Len(Admitted(b.queue[a], F)) <= QueueCap
    BY <2>1, AdmittedBounded
  <2> QED BY <2>1, <2>2
<1>2. o = [b EXCEPT !.queue = Q]
  BY DEF Offer
<1>3. Q \in [AttachId -> Seq(Frame)]
  BY <1>1
<1>4. \A a \in b.leases : Q[a] = Admitted(b.queue[a], F)
  BY BusFields
<1> HIDE DEF Q, o
<1>5. o \in Bus
  BY <1>2, <1>3 DEF Bus
<1>6. o.queue = Q /\ o.tracked = b.tracked /\ o.revision = b.revision
      /\ o.terminalized = b.terminalized
      /\ o.ring = b.ring /\ o.leases = b.leases /\ o.pending = b.pending
  BY <1>2 DEF Bus
<1> QED BY <1>1, <1>4, <1>5, <1>6 DEF o

\* What an emission leaves of the bus.
LEMMA EmitIs ==
    ASSUME NEW b \in Bus, BusOK(b), b.tracked, NEW r \in Nat, r > b.revision,
           NEW k \in {"session_state", "session_terminal"}
    PROVE  LET e == Emit(b, r, k) IN
           /\ e \in Bus /\ BusOK(e)
           /\ e.tracked /\ e.revision = r
           /\ e.terminalized <=> b.terminalized \/ k = "session_terminal"
           /\ e.leases = b.leases
           /\ e.pending = IF k = "session_terminal" THEN b.leases ELSE b.pending
           /\ \A a \in b.leases : e.queue[a] = Admitted(b.queue[a], FramesUpTo(b, r, k))
<1> DEFINE F == FramesUpTo(b, r, k)
           final == k = "session_terminal"
           R == IF final THEN <<>> ELSE Retain(b.ring, F)
           P == IF final THEN b.leases ELSE b.pending
           m == [b EXCEPT !.revision = r, !.terminalized = @ \/ final, !.ring = R, !.pending = P]
           e == Emit(b, r, k)
<1>1. F \in Seq(Frame) /\ Len(F) = r - b.revision
      /\ \A i \in 1 .. Len(F) : F[i].revision = b.revision + i
  BY FramesAre
<1>2. e = Offer(m, F)
  BY BusFields DEF Emit
<1>3. R \in Seq(Nat) /\ RingOK(R, r)
  <2>1. CASE final
    BY <2>1, EmptySeq, BusAssumption DEF RingOK
  <2>2. CASE ~final
    <3>1. b.ring \in Seq(Nat) /\ b.revision \in Nat /\ RingOK(b.ring, b.revision)
      BY BusFields DEF BusOK
    <3>2. Retain(b.ring, F) \in Seq(Nat) /\ RingOK(Retain(b.ring, F), b.revision + Len(F))
      BY <1>1, <3>1, RingGrows
    <3>3. b.revision + Len(F) = r
      BY <1>1, <3>1
    <3> QED BY <2>2, <3>2, <3>3
  <2> QED BY <2>1, <2>2
<1>4. P \in SUBSET b.leases /\ P \in SUBSET AttachId
  BY BusFields DEF BusOK
<1> HIDE DEF R, P, F
<1>5. m \in Bus
  BY <1>3, <1>4 DEF Bus
<1>6. /\ m.tracked = b.tracked /\ m.revision = r /\ (m.terminalized <=> b.terminalized \/ final)
      /\ m.ring = R /\ m.leases = b.leases /\ m.pending = P /\ m.queue = b.queue
  BY DEF Bus
<1> HIDE DEF m, e
<1>7. \A a \in AttachId : Len(m.queue[a]) <= QueueCap
  BY <1>6 DEF BusOK
<1>8. /\ e \in Bus
      /\ e.tracked = m.tracked /\ e.revision = m.revision /\ e.terminalized = m.terminalized
      /\ e.ring = m.ring /\ e.leases = m.leases /\ e.pending = m.pending
      /\ \A a \in m.leases : e.queue[a] = Admitted(m.queue[a], F)
      /\ \A a \in AttachId : Len(e.queue[a]) <= QueueCap
  BY <1>1, <1>2, <1>5, <1>7, OfferIs
<1>9. BusOK(e)
  BY <1>3, <1>4, <1>6, <1>8 DEF BusOK
<1> QED BY <1>6, <1>8, <1>9 DEF e, F, P

\* A lease with room for it keeps its stream through an emission.
LEMMA EmitKeepsLease ==
    ASSUME NEW b \in Bus, BusOK(b), b.tracked, NEW r \in Nat, r > b.revision,
           NEW k \in {"session_state", "session_terminal"},
           NEW a \in b.leases, NEW v \in View, LeaseOK(b, a, v),
           r - b.revision <= Room(b.queue[a])
    PROVE  LeaseOK(Emit(b, r, k), a, v)
<1> DEFINE e == Emit(b, r, k)
           q == Admitted(b.queue[a], FramesUpTo(b, r, k))
<1>0. a \in AttachId /\ b.revision \in Nat /\ v.revision \in Nat /\ b.terminalized \in BOOLEAN
  BY BusFields DEF View
<1>1. /\ e.revision = r /\ (e.terminalized <=> b.terminalized \/ k = "session_terminal")
      /\ e.pending = IF k = "session_terminal" THEN b.leases ELSE b.pending
      /\ e.queue[a] = q
  BY EmitIs
<1>2. /\ Revisions(q) = v.revision + 1 .. r
      /\ InOrder(q)
      /\ \A i \in DOMAIN q : q[i].kind # "lease_revoked"
      /\ Ends(q) <=> Ends(b.queue[a]) \/ k = "session_terminal"
  <2>1. Revisions(q) = v.revision + 1 .. r
    BY <1>0, StreamGrows
  <2>2. InOrder(q)
    BY <1>0, StreamGrows
  <2>3. \A i \in DOMAIN q : q[i].kind # "lease_revoked"
    BY <1>0, StreamGrows
  <2>4. Ends(q) <=> Ends(b.queue[a]) \/ k = "session_terminal"
    BY <1>0, StreamGrows
  <2> QED BY <2>1, <2>2, <2>3, <2>4
<1> HIDE DEF e, q
<1>3. v.revision <= e.revision
  BY <1>0, <1>1 DEF LeaseOK
<1>4. a \in e.pending <=> Ends(q)
  BY <1>1, <1>2 DEF LeaseOK
<1>5. e.terminalized => a \in e.pending \/ v.ended
  BY <1>1 DEF LeaseOK
<1> QED BY <1>1, <1>2, <1>3, <1>4, <1>5 DEF LeaseOK, e

\* The frame that announces a stop leaves the bus and its streams.
LEMMA ScopedIs ==
    ASSUME NEW b \in Bus, BusOK(b)
    PROVE  LET e == EmitScoped(b, "daemon_stopping") IN
           /\ e \in Bus /\ BusOK(e)
           /\ e.tracked = b.tracked /\ e.revision = b.revision /\ e.terminalized = b.terminalized
           /\ e.leases = b.leases /\ e.pending = b.pending
           /\ \A a \in b.leases : \A v \in View :
                 LeaseOK(b, a, v) /\ 1 <= Room(b.queue[a]) => LeaseOK(e, a, v)
<1> DEFINE f == [kind |-> "daemon_stopping", revision |-> b.revision]
           F == <<f>>
           e == EmitScoped(b, "daemon_stopping")
<1>1. f \in Frame
  BY BusFields DEF Frame, Kind
<1>2. F \in Seq(Frame) /\ Len(F) = 1 /\ DOMAIN F = 1 .. 1 /\ F[1] = f
  BY <1>1
<1>3. ~Announces(f) /\ f.kind \notin {"session_terminal", "lease_revoked"}
  BY DEF Announces
<1>4. e = Offer(b, F)
  BY DEF EmitScoped
<1> HIDE DEF F, f, e
<1>5. \A a \in AttachId : Len(b.queue[a]) <= QueueCap
  BY DEF BusOK
<1>6. /\ e \in Bus
      /\ e.tracked = b.tracked /\ e.revision = b.revision /\ e.terminalized = b.terminalized
      /\ e.ring = b.ring /\ e.leases = b.leases /\ e.pending = b.pending
      /\ \A a \in b.leases : e.queue[a] = Admitted(b.queue[a], F)
      /\ \A a \in AttachId : Len(e.queue[a]) <= QueueCap
  BY <1>2, <1>4, <1>5, OfferIs
<1>7. BusOK(e)
  BY <1>6 DEF BusOK
<1>8. Revisions(F) = {} /\ ~Ends(F)
  BY <1>2, <1>3 DEF Revisions, Ends
<1>9. ASSUME NEW a \in b.leases, NEW v \in View, LeaseOK(b, a, v), 1 <= Room(b.queue[a])
      PROVE  LeaseOK(e, a, v)
  <2> DEFINE p == b.queue[a]
             s == p \o F
  <2>1. p \in Seq(Frame)
    BY BusFields
  <2>2. Revisions(p) = v.revision + 1 .. b.revision /\ InOrder(p)
        /\ (\A i \in DOMAIN p : p[i].kind # "lease_revoked") /\ Room(p) >= 1
    BY <1>9 DEF LeaseOK
  <2>3. e.queue[a] = Admitted(p, F)
    BY <1>6
  <2> HIDE DEF p
  <2>4. Admitted(p, F) = s
    BY <1>2, <2>1, <2>2, AdmitsAll
  <2>5. Revisions(s) = Revisions(p) /\ (Ends(s) <=> Ends(p))
    <3>1. Revisions(s) = Revisions(p) \cup Revisions(F) /\ (Ends(s) <=> Ends(p) \/ Ends(F))
      BY <1>2, <2>1, ConcatRevisions
    <3> QED BY <1>8, <3>1
  <2>6. \A i \in DOMAIN s : \/ i \in DOMAIN p /\ s[i] = p[i]
                            \/ s[i] = f
    BY <1>2, <2>1, ConcatFrames
  <2> HIDE DEF s
  <2>7. \A i \in DOMAIN s : s[i].kind # "lease_revoked"
    BY <1>3, <2>2, <2>6
  <2>8. InOrder(s)
    <3> SUFFICES ASSUME NEW i \in DOMAIN s, NEW j \in DOMAIN s, i < j,
                        Announces(s[i]), Announces(s[j])
                 PROVE  s[i].revision < s[j].revision
      BY DEF InOrder
    <3>1. i \in DOMAIN p /\ s[i] = p[i] /\ j \in DOMAIN p /\ s[j] = p[j]
      BY <1>3, <2>6
    <3>2. Announces(p[i]) /\ Announces(p[j])
      BY <3>1
    <3>3. p[i].revision < p[j].revision
      BY <2>2, <3>1, <3>2, Zenon DEF InOrder
    <3> QED BY <3>1, <3>3
  <2> QED BY <1>6, <1>9, <2>2, <2>3, <2>4, <2>5, <2>7, <2>8 DEF LeaseOK, p
<1> QED BY <1>6, <1>7, <1>9 DEF e

\* A bus nobody tracks and one that was just registered.
LEMMA FreshBus ==
    /\ Untracked \in Bus /\ BusOK(Untracked)
    /\ ~Untracked.tracked /\ Untracked.leases = {} /\ Untracked.revision = 0
    /\ ~Untracked.terminalized
    /\ Registered \in Bus /\ BusOK(Registered)
    /\ Registered.tracked /\ Registered.leases = {} /\ Registered.revision = 0
    /\ ~Registered.terminalized
<1>1. /\ <<>> \in Seq(Nat) /\ <<>> \in Seq(Frame) /\ Len(<<>>) = 0
      /\ QueueCap \in Nat /\ RingCap \in Nat
  BY BusAssumption
<1>2. RingOK(<<>>, 0)
  BY <1>1 DEF RingOK
<1>3. [a \in AttachId |-> <<>>] \in [AttachId -> Seq(Frame)]
  BY <1>1
<1>4. Untracked \in Bus /\ BusOK(Untracked)
  BY <1>1, <1>2, <1>3 DEF Untracked, Bus, BusOK
<1>5. Registered = [Untracked EXCEPT !.tracked = TRUE]
  BY DEF Registered
<1>6. /\ ~Untracked.tracked /\ Untracked.leases = {} /\ Untracked.revision = 0
      /\ ~Untracked.terminalized
  BY DEF Untracked
<1>7. /\ Registered \in Bus
      /\ Registered.tracked /\ Registered.leases = {} /\ Registered.revision = 0
      /\ ~Registered.terminalized
      /\ Registered.ring = Untracked.ring /\ Registered.queue = Untracked.queue
      /\ Registered.pending = Untracked.pending
  BY <1>4, <1>5, <1>6 DEF Bus
<1>8. BusOK(Registered)
  BY <1>4, <1>6, <1>7 DEF BusOK
<1> QED BY <1>4, <1>6, <1>7, <1>8

\* A detach takes leases away and touches no other.
LEMMA DetachIs ==
    ASSUME NEW b \in Bus, BusOK(b), NEW A \in SUBSET AttachId
    PROVE  LET e == DetachLeases(b, A) IN
           /\ e \in Bus /\ BusOK(e)
           /\ e.tracked = b.tracked /\ e.revision = b.revision /\ e.terminalized = b.terminalized
           /\ e.leases = b.leases \ A
           /\ \A a \in b.leases \ A : \A v : LeaseOK(b, a, v) => LeaseOK(e, a, v)
<1> DEFINE Q == [a \in AttachId |-> IF a \in A THEN <<>> ELSE b.queue[a]]
           e == DetachLeases(b, A)
<1>1. e = [b EXCEPT !.leases = b.leases \ A, !.queue = Q, !.pending = b.pending \ A]
  BY DEF DetachLeases, DetachKeepsPin, Bus
<1>2. Q \in [AttachId -> Seq(Frame)]
  BY BusFields, EmptyQueue
<1>3. \A a \in AttachId : Len(Q[a]) <= QueueCap
  BY EmptyQueue, BusAssumption DEF BusOK
<1>4. \A a \in AttachId \ A : Q[a] = b.queue[a]
  OBVIOUS
<1> HIDE DEF Q, e
<1>5. e \in Bus
  BY <1>1, <1>2, BusFields DEF Bus
<1>6. /\ e.tracked = b.tracked /\ e.revision = b.revision /\ e.terminalized = b.terminalized
      /\ e.ring = b.ring /\ e.leases = b.leases \ A /\ e.queue = Q /\ e.pending = b.pending \ A
  BY <1>1 DEF Bus
<1>7. BusOK(e)
  BY <1>3, <1>6 DEF BusOK
<1>8. ASSUME NEW a \in b.leases \ A, NEW v, LeaseOK(b, a, v) PROVE LeaseOK(e, a, v)
  <2>1. e.queue[a] = b.queue[a] /\ (a \in e.pending <=> a \in b.pending)
    BY <1>4, <1>6, BusFields
  <2> QED BY <1>6, <1>8, <2>1 DEF LeaseOK
<1> QED BY <1>5, <1>6, <1>7, <1>8 DEF e

\* A new lease begins at the revision its reply carries.
LEMMA AttachIs ==
    ASSUME NEW b \in Bus, BusOK(b), b.tracked, ~b.terminalized, NEW a \in AttachId, a \notin b.leases
    PROVE  LET e == AttachLease(b, a) IN
           /\ e \in Bus /\ BusOK(e)
           /\ e.tracked = b.tracked /\ e.revision = b.revision /\ e.terminalized = b.terminalized
           /\ e.leases = b.leases \cup {a}
           /\ LeaseOK(e, a, [revision |-> b.revision, ended |-> FALSE])
           /\ \A o \in b.leases : \A v : LeaseOK(b, o, v) => LeaseOK(e, o, v)
<1> DEFINE Q == [b.queue EXCEPT ![a] = <<>>]
           e == AttachLease(b, a)
<1>1. e = [b EXCEPT !.leases = b.leases \cup {a}, !.queue = Q]
  BY DEF AttachLease, Bus
<1>2. Q \in [AttachId -> Seq(Frame)]
  BY BusFields, EmptyQueue
<1>3. \A o \in AttachId : Len(Q[o]) <= QueueCap
  BY EmptyQueue, BusAssumption, BusFields DEF BusOK
<1>4. Q[a] = <<>> /\ \A o \in AttachId \ {a} : Q[o] = b.queue[o]
  BY BusFields
<1> HIDE DEF Q, e
<1>5. e \in Bus
  BY <1>1, <1>2, BusFields DEF Bus
<1>6. /\ e.tracked = b.tracked /\ e.revision = b.revision /\ e.terminalized = b.terminalized
      /\ e.ring = b.ring /\ e.leases = b.leases \cup {a} /\ e.queue = Q /\ e.pending = b.pending
  BY <1>1 DEF Bus
<1>7. BusOK(e)
  BY <1>3, <1>6 DEF BusOK
<1>8. ASSUME NEW o \in b.leases, NEW v, LeaseOK(b, o, v) PROVE LeaseOK(e, o, v)
  <2>1. e.queue[o] = b.queue[o]
    BY <1>4, <1>6, BusFields
  <2> QED BY <1>6, <1>8, <2>1 DEF LeaseOK
<1>9. LeaseOK(e, a, [revision |-> b.revision, ended |-> FALSE])
  <2>1. b.revision \in Nat /\ b.revision + 1 .. b.revision = {} /\ b.revision <= b.revision
    BY BusFields
  <2>2. a \notin b.pending
    BY DEF BusOK
  <2> QED BY <1>4, <1>6, <2>1, <2>2, EmptyQueue DEF LeaseOK
<1> QED BY <1>5, <1>6, <1>7, <1>8, <1>9 DEF e

\* A finite sequence of frames announces a last revision.
LEMMA RevisionsBounded ==
    ASSUME NEW q \in Seq(Frame)
    PROVE  \E m \in Nat : \A x \in Revisions(q) : x \in Nat /\ x <= m
<1> DEFINE Bounded(n) == \E m \in Nat : \A i \in DOMAIN q : i <= n => q[i].revision <= m
           B == {n \in Nat : Bounded(n)}
<1>1. Len(q) \in Nat /\ DOMAIN q = 1 .. Len(q) /\ \A i \in DOMAIN q : q[i].revision \in Nat
  <2>1. Len(q) \in Nat /\ DOMAIN q = 1 .. Len(q)
    BY LenProperties
  <2>2. ASSUME NEW i \in DOMAIN q PROVE q[i].revision \in Nat
    <3>1. q[i] \in Frame
      BY <2>1, ElementOfSeq
    <3> QED BY <3>1 DEF Frame
  <2> QED BY <2>1, <2>2
<1>2. 0 \in B
  <2>1. \A i \in DOMAIN q : i <= 0 => q[i].revision <= 0
    BY <1>1
  <2> QED BY <2>1
<1>3. ASSUME NEW n \in B PROVE n + 1 \in B
  <2>1. PICK m \in Nat : \A i \in DOMAIN q : i <= n => q[i].revision <= m
    OBVIOUS
  <2>2. CASE n + 1 \in DOMAIN q
    <3>1. PICK k \in Nat : m <= k /\ q[n + 1].revision <= k
      <4>1. q[n + 1].revision \in Nat
        BY <1>1, <2>2
      <4>2. CASE m <= q[n + 1].revision
        BY <4>1, <4>2
      <4>3. CASE ~(m <= q[n + 1].revision)
        BY <4>1, <4>3
      <4> QED BY <4>2, <4>3
    <3>2. \A i \in DOMAIN q : i <= n + 1 => q[i].revision <= k
      BY <1>1, <2>1, <3>1
    <3> QED BY <3>2
  <2>3. CASE n + 1 \notin DOMAIN q
    <3>1. \A i \in DOMAIN q : i <= n + 1 => q[i].revision <= m
      BY <1>1, <2>1, <2>3
    <3> QED BY <3>1
  <2> QED BY <2>2, <2>3
<1> HIDE DEF B, Bounded
<1>4. B \in SUBSET Nat
  BY DEF B
<1>5. B = Nat
  BY <1>2, <1>3, <1>4, NatClosed
<1>6. PICK m \in Nat : \A i \in DOMAIN q : i <= Len(q) => q[i].revision <= m
  BY <1>1, <1>5 DEF B, Bounded
<1>7. \A i \in DOMAIN q : q[i].revision \in Nat /\ q[i].revision <= m
  BY <1>1, <1>6
<1>8. ASSUME NEW x \in Revisions(q) PROVE x \in Nat /\ x <= m
  BY <1>7 DEF Revisions
<1> QED BY <1>8

\* A set of numbers below a bound has a maximum.
LEMMA MaxExists ==
    ASSUME NEW S \in SUBSET Nat, S # {}, NEW m \in Nat, \A x \in S : x <= m
    PROVE  Max(S) \in S
<1> DEFINE U == {n \in Nat : \A x \in S : x <= n}
<1>1. PICK u \in U : \A n \in U : u <= n
  <2>1. U \in SUBSET Nat /\ m \in U
    OBVIOUS
  <2> HIDE DEF U
  <2> QED BY <2>1, LeastNumber
<1>2. u \in S
  <2> SUFFICES ASSUME u \notin S PROVE FALSE
    OBVIOUS
  <2>1. u > 0
    <3>1. PICK x \in S : TRUE
      OBVIOUS
    <3>2. x \in Nat /\ u \in Nat /\ x <= u /\ x # u
      BY <1>1
    <3> QED BY <3>2
  <2>2. u - 1 \in U
    <3>1. \A x \in S : x <= u /\ x # u /\ x \in Nat
      OBVIOUS
    <3> QED BY <2>1, <3>1
  <2> QED BY <1>1, <2>2
<1>3. Max(S) = u
  <2>1. S \in SUBSET Int /\ \A x \in S : x <= u
    OBVIOUS
  <2> QED BY <1>2, <2>1, MaxIs
<1> QED BY <1>2, <1>3

\* A view stays a view, whatever frames are handed over.
LEMMA SeenType ==
    ASSUME NEW v \in View, NEW q \in Seq(Frame)
    PROVE  Seen(v, q) \in View
<1> DEFINE S == Revisions(q) \cup {v.revision}
<1>1. v.revision \in Nat /\ v.ended \in BOOLEAN
  BY DEF View
<1>2. PICK m \in Nat : \A x \in Revisions(q) : x \in Nat /\ x <= m
  BY RevisionsBounded
<1>3. PICK k \in Nat : m <= k /\ v.revision <= k
  <2>1. CASE m <= v.revision
    BY <1>1, <2>1
  <2>2. CASE ~(m <= v.revision)
    BY <1>1, <2>2
  <2> QED BY <2>1, <2>2
<1>4. S \in SUBSET Nat /\ S # {} /\ \A x \in S : x <= k
  BY <1>1, <1>2, <1>3
<1> HIDE DEF S
<1>5. Max(S) \in Nat
  BY <1>4, MaxExists
<1>6. (v.ended \/ Ends(q)) \in BOOLEAN
  BY DEF Ends
<1> QED BY <1>5, <1>6 DEF Seen, View, S

\* A lease that is handed its whole queue has seen every revision.
LEMMA SeenAll ==
    ASSUME NEW v \in View, NEW n \in Nat, v.revision <= n, NEW q,
           Revisions(q) = v.revision + 1 .. n
    PROVE  Seen(v, q).revision = n /\ (Seen(v, q).ended <=> v.ended \/ Ends(q))
<1> DEFINE S == Revisions(q) \cup {v.revision}
<1>1. v.revision \in Nat
  BY DEF View
<1>2. S = v.revision .. n
  BY <1>1
<1>3. S \in SUBSET Int /\ n \in S /\ \A x \in S : x <= n
  BY <1>1, <1>2
<1> HIDE DEF S
<1>4. Max(S) = n
  BY <1>3, MaxIs
<1> QED BY <1>4 DEF Seen, S

\* Nothing handed over, nothing seen.
LEMMA SeenNothing ==
    ASSUME NEW v \in View
    PROVE  Seen(v, <<>>) = v
<1>1. v.revision \in Int /\ v.ended \in BOOLEAN
      /\ v = [revision |-> v.revision, ended |-> v.ended]
  BY DEF View
<1>2. Max({v.revision}) = v.revision
  BY <1>1, MaxIs
<1>3. Revisions(<<>>) \cup {v.revision} = {v.revision} /\ ~Ends(<<>>)
  BY EmptyQueue
<1>4. Seen(v, <<>>) = [revision |-> v.revision, ended |-> v.ended]
  BY <1>1, <1>2, <1>3 DEF Seen
<1> QED BY <1>1, <1>4

\* A drained lease has seen what was queued; the others are left alone.
LEMMA DrainedIs ==
    ASSUME NEW b \in Bus, BusOK(b), NEW A \in SUBSET b.leases
    PROVE  LET e == Drained(b, A) IN
           /\ e \in Bus /\ BusOK(e)
           /\ e.tracked = b.tracked /\ e.revision = b.revision /\ e.terminalized = b.terminalized
           /\ e.leases = b.leases
           /\ \A a \in b.leases \ A : \A v : LeaseOK(b, a, v) => LeaseOK(e, a, v)
           /\ \A a \in A : \A v \in View : LeaseOK(b, a, v) => LeaseOK(e, a, Seen(v, b.queue[a]))
<1> DEFINE Q == [a \in AttachId |-> IF a \in A THEN <<>> ELSE b.queue[a]]
           O == {a \in A : \E i \in DOMAIN b.queue[a] : b.queue[a][i].kind = "session_terminal"}
           e == Drained(b, A)
<1>1. e = [b EXCEPT !.queue = Q, !.pending = b.pending \ O]
  BY DEF Drained, Bus
<1>2. Q \in [AttachId -> Seq(Frame)]
  BY BusFields, EmptyQueue
<1>3. \A a \in AttachId : Len(Q[a]) <= QueueCap
  BY EmptyQueue, BusAssumption DEF BusOK
<1>4. (\A a \in AttachId \ A : Q[a] = b.queue[a]) /\ \A a \in A : a \in AttachId /\ Q[a] = <<>>
  BY BusFields
<1>10. O \subseteq A
  OBVIOUS
<1>11. ASSUME NEW a \in A, NEW v, LeaseOK(b, a, v) PROVE a \in O <=> Ends(b.queue[a])
  BY <1>11 DEF LeaseOK, Ends
<1> HIDE DEF Q, e, O
<1>5. e \in Bus
  BY <1>1, <1>2, BusFields DEF Bus
<1>6. /\ e.tracked = b.tracked /\ e.revision = b.revision /\ e.terminalized = b.terminalized
      /\ e.ring = b.ring /\ e.leases = b.leases /\ e.queue = Q /\ e.pending = b.pending \ O
  BY <1>1 DEF Bus
<1>7. BusOK(e)
  BY <1>3, <1>6 DEF BusOK
<1>8. ASSUME NEW a \in b.leases \ A, NEW v, LeaseOK(b, a, v) PROVE LeaseOK(e, a, v)
  <2>1. e.queue[a] = b.queue[a] /\ (a \in e.pending <=> a \in b.pending)
    BY <1>4, <1>6, <1>10, BusFields
  <2> QED BY <1>6, <1>8, <2>1 DEF LeaseOK
<1>9. ASSUME NEW a \in A, NEW v \in View, LeaseOK(b, a, v)
      PROVE  LeaseOK(e, a, Seen(v, b.queue[a]))
  <2> DEFINE w == Seen(v, b.queue[a])
  <2>1. v.revision <= b.revision /\ b.revision \in Nat /\ Revisions(b.queue[a]) = v.revision + 1 .. b.revision
    BY <1>9, BusFields DEF LeaseOK
  <2>2. w.revision = b.revision /\ (w.ended <=> v.ended \/ Ends(b.queue[a]))
    BY <2>1, SeenAll
  <2>3. e.queue[a] = <<>> /\ a \notin e.pending
    BY <1>4, <1>6, <1>9, <1>11 DEF LeaseOK
  <2>4. b.terminalized => w.ended
    BY <1>9, <2>2 DEF LeaseOK
  <2>5. b.revision + 1 .. b.revision = {} /\ b.revision <= b.revision
    BY <2>1
  <2> HIDE DEF w
  <2>6. LeaseOK(e, a, w)
    BY <1>6, <2>2, <2>3, <2>4, <2>5, EmptyQueue DEF LeaseOK
  <2> QED BY <2>6 DEF w
<1> QED BY <1>5, <1>6, <1>7, <1>8, <1>9 DEF e

-----------------------------------------------------------------------------
(* One session: its host state, its bus and what was lost on the way.       *)

Views == [AttachId -> View]

\* Leases only leave the bus, and are counted as lost; what the host lets act
\* is served as before, and a reserved terminal event stays reserved.
Narrows(l, r) ==
    /\ r.bus.leases \subseteq l.bus.leases
    /\ r.host.leases \subseteq l.host.leases
    /\ l.lost \subseteq r.lost
    /\ l.bus.leases \ r.bus.leases \subseteq r.lost
    /\ Unserved(r) \subseteq Unserved(l)
    /\ l.bus.terminalized /\ r.bus.leases # {} => r.bus.terminalized

\* The fields of a session.
LEMMA LocalFields ==
    ASSUME NEW l \in Local
    PROVE  /\ l.host \in HostState /\ l.bus \in Bus /\ l.lost \in SUBSET AttachId
           /\ l.host.life \in {"absent", "live", "terminal", "gone"} /\ l.host.revision \in Nat
           /\ l.host.leases \in SUBSET AttachId /\ l.host.expired \in SUBSET AttachId
           /\ l.bus.revision \in Nat /\ l.bus.leases \in SUBSET AttachId
           /\ l.bus.tracked \in BOOLEAN /\ l.bus.terminalized \in BOOLEAN
BY DEF Local, HostState, Bus

\* Narrowing composes.
LEMMA NarrowsTwice ==
    ASSUME NEW l, NEW m, NEW r, Narrows(l, m), Narrows(m, r)
    PROVE  Narrows(l, r)
BY DEF Narrows

\* A session whose bus is replaced.
LEMMA NewBus ==
    ASSUME NEW l \in Local, NEW b \in Bus
    PROVE  LET r == [l EXCEPT !.bus = b] IN
           r \in Local /\ r.host = l.host /\ r.bus = b /\ r.lost = l.lost
BY DEF Local

\* A session whose host state is replaced.
LEMMA NewHost ==
    ASSUME NEW l \in Local, NEW h \in HostState
    PROVE  LET r == [l EXCEPT !.host = h] IN
           r \in Local /\ r.host = h /\ r.bus = l.bus /\ r.lost = l.lost
BY DEF Local

\* What SessionHost::detach removes.
LEMMA DetachableIs ==
    ASSUME NEW l \in Local, NEW A \in SUBSET AttachId
    PROVE  /\ Detachable(l, A) \in SUBSET AttachId
           /\ Cardinality(Detachable(l, A)) \in Nat
           /\ IsLive(l) => Detachable(l, A) = (A \cap l.host.leases) \ l.host.expired
           /\ ~IsLive(l) => Detachable(l, A) = {}
           /\ Detachable(l, {}) = {}
<1>1. Detachable(l, A) \in SUBSET AttachId
  BY DEF Detachable
<1> QED BY <1>1, FiniteCount DEF Detachable

\* The host side of a detach.
LEMMA HostDetachIs ==
    ASSUME NEW l \in Local, NEW A \in SUBSET AttachId
    PROVE  LET r == HostDetach(l, A) IN
           /\ r \in Local /\ r.bus = l.bus /\ r.lost = l.lost
           /\ r.host.life = l.host.life /\ r.host.expired = l.host.expired
           /\ r.host.leases = l.host.leases \ Detachable(l, A)
           /\ r.host.revision = l.host.revision + Cardinality(Detachable(l, A))
<1> DEFINE D == Detachable(l, A)
           h == [l.host EXCEPT !.leases = l.host.leases \ D,
                               !.revision = l.host.revision + Cardinality(D)]
           r == HostDetach(l, A)
<1>1. Cardinality(D) \in Nat
  BY DetachableIs
<1>2. r = [l EXCEPT !.host = h]
  BY LocalFields DEF HostDetach, Local, HostState
<1> HIDE DEF D, r
<1>3. h \in HostState
  <2>1. l.host \in HostState /\ l.host.leases \ D \in SUBSET AttachId
        /\ l.host.revision + Cardinality(D) \in Nat
    BY <1>1, LocalFields
  <2> QED BY <2>1 DEF HostState
<1>4. /\ h.life = l.host.life /\ h.expired = l.host.expired /\ h.leases = l.host.leases \ D
      /\ h.revision = l.host.revision + Cardinality(D)
  BY LocalFields DEF HostState
<1> HIDE DEF h
<1>5. r \in Local /\ r.host = h /\ r.bus = l.bus /\ r.lost = l.lost
  BY <1>2, <1>3, NewHost
<1> QED BY <1>4, <1>5 DEF r, D

\* A session in which the leases of A are about to leave: the others are in
\* order, and the bus may be ahead by the revisions their detach takes.
Closing(l, v, A) ==
    /\ l \in Local
    /\ BusOK(l.bus)
    /\ \A a \in l.bus.leases \ A : LeaseOK(l.bus, a, v[a])
    /\ l.host.expired \subseteq l.host.leases
    /\ ~IsLive(l) => l.host.leases = {}
    /\ l.host.life = "absent" => ~l.bus.tracked
    /\ IsLive(l) => l.bus.tracked /\ ~l.bus.terminalized
    /\ l.host.life \in {"live", "terminal"} /\ l.bus.tracked =>
          l.bus.revision <= l.host.revision + Cardinality(Detachable(l, A))
    /\ l.host.life = "terminal" /\ l.bus.leases # {} =>
          l.bus.terminalized \/ l.bus.revision < l.host.revision

\* A session that is in order can close any of its leases.
LEMMA SoundCloses ==
    ASSUME NEW l, NEW v, Sound(l, v), NEW A \in SUBSET AttachId
    PROVE  Closing(l, v, A)
<1>1. /\ l.host.revision \in Nat /\ l.bus.revision \in Nat
      /\ Cardinality(Detachable(l, A)) \in Nat
  BY LocalFields, DetachableIs DEF Sound
<1> QED BY <1>1 DEF Sound, HostFits, Closing

\* Leases that leave host and bus together.
LEMMA Departed ==
    ASSUME NEW l, NEW v \in Views, NEW A \in SUBSET AttachId, Closing(l, v, A),
           NEW B \in SUBSET A, A \cap l.bus.leases \subseteq B
    PROVE  LET r == [HostDetach(l, A) EXCEPT !.bus = DetachLeases(@, B)] IN
           /\ Sound(r, v)
           /\ r.lost = l.lost /\ r.host.life = l.host.life /\ r.host.leases \subseteq l.host.leases
           /\ r.host.revision = l.host.revision + Cardinality(Detachable(l, A))
           /\ r.bus.revision = l.bus.revision /\ r.bus.tracked = l.bus.tracked
           /\ r.bus.terminalized = l.bus.terminalized
           /\ r.bus.leases = l.bus.leases \ A
           /\ Unserved(r) \subseteq Unserved(l)
<1> DEFINE d == HostDetach(l, A)
           b == DetachLeases(l.bus, B)
           r == [d EXCEPT !.bus = b]
           n == Cardinality(Detachable(l, A))
<1>0. l \in Local /\ BusOK(l.bus) /\ B \in SUBSET AttachId
  BY DEF Closing
<1>1. /\ d \in Local /\ d.bus = l.bus /\ d.lost = l.lost
      /\ d.host.life = l.host.life /\ d.host.expired = l.host.expired
      /\ d.host.leases = l.host.leases \ Detachable(l, A)
      /\ d.host.revision = l.host.revision + n
  BY <1>0, HostDetachIs
<1>2. l.bus \in Bus
  BY <1>0, LocalFields
<1>3. /\ b \in Bus /\ BusOK(b)
      /\ b.tracked = l.bus.tracked /\ b.revision = l.bus.revision
      /\ b.terminalized = l.bus.terminalized
      /\ b.leases = l.bus.leases \ B
      /\ \A a \in l.bus.leases \ B : \A w : LeaseOK(l.bus, a, w) => LeaseOK(b, a, w)
  BY <1>0, <1>2, DetachIs
<1>4. [HostDetach(l, A) EXCEPT !.bus = DetachLeases(@, B)] = r
  BY <1>1 DEF Local
<1>5. /\ n \in Nat
      /\ IsLive(l) => Detachable(l, A) = (A \cap l.host.leases) \ l.host.expired
      /\ ~IsLive(l) => Detachable(l, A) = {}
  BY <1>0, DetachableIs
<1> HIDE DEF d, b, n
<1>6. r \in Local /\ r.host = d.host /\ r.bus = b /\ r.lost = d.lost
  BY <1>1, <1>3, NewBus
<1> HIDE DEF r
<1>7. l.bus.leases \ A = l.bus.leases \ B
  OBVIOUS
<1>8. \A a \in r.bus.leases : LeaseOK(r.bus, a, v[a])
  BY <1>3, <1>6, <1>7 DEF Closing
<1>9. /\ l.host.revision \in Nat /\ l.bus.revision \in Nat
      /\ l.host.life \in {"absent", "live", "terminal", "gone"}
  BY <1>0, LocalFields
<1>10. HostFits(r)
  <2>1. r.host.expired \subseteq r.host.leases
    BY <1>1, <1>5, <1>6 DEF Closing
  <2>2. IsLive(r) <=> IsLive(l)
    BY <1>1, <1>6 DEF IsLive
  <2>3. r.host.life \in {"live", "terminal"} /\ r.bus.tracked => r.bus.revision <= r.host.revision
    BY <1>1, <1>3, <1>6 DEF Closing, n
  <2>4. r.host.life = "terminal" /\ r.bus.leases # {} =>
          r.bus.terminalized \/ r.bus.revision < r.host.revision
    BY <1>1, <1>3, <1>5, <1>6, <1>9 DEF Closing
  <2>5. ~IsLive(r) => r.host.leases = {}
    BY <1>1, <1>6, <2>2 DEF Closing
  <2> QED BY <1>1, <1>3, <1>6, <2>1, <2>2, <2>3, <2>4, <2>5 DEF HostFits, Closing
<1>11. Sound(r, v)
  BY <1>3, <1>6, <1>8, <1>10 DEF Sound
<1>12. Unserved(r) \subseteq Unserved(l)
  <2> SUFFICES ASSUME NEW a \in Unserved(r) PROVE a \in Unserved(l)
    OBVIOUS
  <2>1. a \in l.host.leases /\ a \notin Detachable(l, A) /\ a \notin l.host.expired
        /\ a \notin l.bus.leases \ A
    BY <1>1, <1>3, <1>6, <1>7 DEF Unserved
  <2>2. a \notin l.bus.leases
    BY <1>5, <2>1 DEF Closing
  <2> QED BY <2>1, <2>2 DEF Unserved
<1> QED BY <1>1, <1>3, <1>4, <1>6, <1>7, <1>11, <1>12 DEF n

\* Forgetting a bus nobody is attached to.
LEMMA Forgets ==
    ASSUME NEW l, NEW v, Sound(l, v)
    PROVE  LET r == MaybeForget(l) IN
           /\ Sound(r, v) /\ Narrows(l, r)
           /\ r.host = l.host /\ r.lost = l.lost /\ r.bus.leases = l.bus.leases
           /\ r.bus.tracked => r.bus = l.bus
           /\ Announced(l) => Announced(r)
<1> DEFINE r == MaybeForget(l)
           u == [l EXCEPT !.bus = Untracked]
<1>1. CASE l.bus.leases = {} /\ ~IsLive(l)
  <2>1. r = u
    BY <1>1 DEF MaybeForget
  <2>2. l \in Local
    BY DEF Sound
  <2>3. u \in Local /\ u.host = l.host /\ u.bus = Untracked /\ u.lost = l.lost
    BY <2>2, FreshBus, NewBus
  <2> HIDE DEF u
  <2>4. HostFits(u)
    BY <1>1, <2>3, FreshBus DEF HostFits, Sound, IsLive
  <2>5. Sound(u, v)
    BY <2>3, <2>4, FreshBus DEF Sound
  <2>6. Narrows(l, u)
    BY <1>1, <2>3, FreshBus DEF Narrows, Unserved
  <2> QED BY <1>1, <2>1, <2>3, <2>5, <2>6, FreshBus DEF Announced
<1>2. CASE ~(l.bus.leases = {} /\ ~IsLive(l))
  <2>1. r = l
    BY <1>2 DEF MaybeForget
  <2>2. Narrows(l, l)
    BY LocalFields DEF Narrows, Sound
  <2> QED BY <2>1, <2>2
<1> QED BY <1>1, <1>2

\* Closing leases for a lost frame: host and bus let go of them together.
LEMMA Closes ==
    ASSUME NEW l, NEW v \in Views, NEW A \in SUBSET AttachId, Closing(l, v, A)
    PROVE  LET r == CloseLeases(l, A) IN
           /\ Sound(r, v) /\ Narrows(l, r)
           /\ r.host.life = l.host.life
           /\ r.host.revision = l.host.revision + Cardinality(Detachable(l, A))
           /\ r.bus.tracked => r.bus.tracked = l.bus.tracked /\ r.bus.revision = l.bus.revision
           /\ r.bus.leases = l.bus.leases \ A
<1> DEFINE r == CloseLeases(l, A)
           d == [HostDetach(l, A) EXCEPT !.bus = DetachLeases(@, A)]
           m == [HostDetach(l, A) EXCEPT !.bus = DetachLeases(@, A), !.lost = @ \cup A]
<1>0. l \in Local /\ l.host.revision \in Nat
  BY LocalFields DEF Closing
<1>1. CASE A = {}
  <2>1. r = l
    BY <1>1 DEF CloseLeases
  <2>2. Detachable(l, A) = {} /\ Cardinality({}) = 0
    BY <1>0, <1>1, DetachableIs, FS_EmptySet
  <2>3. Sound(l, v)
    BY <1>0, <1>1, <2>2 DEF Closing, Sound, HostFits
  <2>4. Narrows(l, l)
    BY DEF Narrows
  <2> HIDE DEF r
  <2> QED BY <1>0, <1>1, <2>1, <2>2, <2>3, <2>4 DEF r
<1>2. CASE A # {}
  <2>1. /\ Sound(d, v)
        /\ d.lost = l.lost /\ d.host.life = l.host.life /\ d.host.leases \subseteq l.host.leases
        /\ d.host.revision = l.host.revision + Cardinality(Detachable(l, A))
        /\ d.bus.revision = l.bus.revision /\ d.bus.tracked = l.bus.tracked
        /\ d.bus.terminalized = l.bus.terminalized
        /\ d.bus.leases = l.bus.leases \ A
        /\ Unserved(d) \subseteq Unserved(l)
    <3>1. A \cap l.bus.leases \subseteq A /\ A \in SUBSET A
      OBVIOUS
    <3> QED BY <3>1, Departed
  <2>2. HostDetach(l, A) \in Local
    BY <1>0, HostDetachIs
  <2>3. /\ m.host = d.host /\ m.bus = d.bus /\ m.lost = HostDetach(l, A).lost \cup A
        /\ d.lost = HostDetach(l, A).lost
        /\ m = [d EXCEPT !.lost = @ \cup A]
    BY <2>2 DEF Local
  <2>4. d \in Local
    BY <2>1 DEF Sound
  <2>5. m \in Local
    BY <2>3, <2>4 DEF Local
  <2>6. r = MaybeForget(m)
    BY <1>2 DEF CloseLeases
  <2> HIDE DEF d, m, r
  <2>7. Sound(m, v)
    BY <2>1, <2>3, <2>5 DEF Sound, HostFits, IsLive
  <2>8. Narrows(l, m)
    BY <2>1, <2>3 DEF Narrows, Unserved
  <2>9. /\ Sound(r, v) /\ Narrows(m, r) /\ r.host = m.host /\ r.lost = m.lost
        /\ r.bus.leases = m.bus.leases /\ (r.bus.tracked => r.bus = m.bus)
    BY <2>6, <2>7, Forgets
  <2>10. Narrows(l, r)
    BY <2>8, <2>9, NarrowsTwice
  <2> QED BY <2>1, <2>3, <2>9, <2>10 DEF r
<1> QED BY <1>1, <1>2

\* A lease flush_events does not lose has room for every revision it announces.
LEMMA FlushRoom ==
    ASSUME NEW l \in Local
    PROVE  /\ FlushLosses(l) \in SUBSET l.bus.leases
           /\ FlushLosses(l) \in SUBSET AttachId
           /\ \A a \in l.bus.leases \ FlushLosses(l) :
                 l.host.revision + Cardinality(Detachable(l, FlushLosses(l))) - l.bus.revision
                     <= Room(l.bus.queue[a])
<1> DEFINE L == FlushLosses(l)
           N(A) == l.host.revision + Cardinality(Detachable(l, A)) - l.bus.revision
           Short(A) == Losing(l.bus, N(A))
<1>1. L = {a \in l.bus.leases : \A A \in SUBSET l.bus.leases : Short(A) \subseteq A => a \in A}
  BY DEF FlushLosses
<1>2. L \in SUBSET l.bus.leases /\ L \in SUBSET AttachId
  BY <1>1, LocalFields
<1>3. ASSUME NEW a \in l.bus.leases \ L PROVE N(L) <= Room(l.bus.queue[a])
  <2>1. PICK A \in SUBSET l.bus.leases : Short(A) \subseteq A /\ a \notin A
    BY <1>1, <1>3
  <2>2. L \subseteq A
    BY <1>1, <2>1
  <2>3. A \in SUBSET AttachId
    BY LocalFields
  <2>4. Detachable(l, L) \subseteq Detachable(l, A)
    BY <2>2 DEF Detachable
  <2>5. /\ Cardinality(Detachable(l, L)) \in Nat /\ Cardinality(Detachable(l, A)) \in Nat
        /\ Detachable(l, A) \in SUBSET AttachId
    BY <1>2, <2>3, DetachableIs
  <2>6. Cardinality(Detachable(l, L)) <= Cardinality(Detachable(l, A))
    BY <2>4, <2>5, CountMonotone
  <2>7. ~(N(A) > Room(l.bus.queue[a]))
    BY <2>1 DEF Losing
  <2>8. l.host.revision \in Nat /\ l.bus.revision \in Nat /\ Room(l.bus.queue[a]) \in Int
    <3>1. l.bus \in Bus /\ a \in AttachId
      BY LocalFields
    <3> QED BY <3>1, LocalFields, RoomIsInt
  <2> HIDE DEF L
  <2> QED BY <2>5, <2>6, <2>7, <2>8
<1> QED BY <1>2, <1>3

\* After a flush the bus has announced every revision of the host, the ones it
\* took on the way included, and every lease that is left holds its stream.
LEMMA Flushes ==
    ASSUME NEW l, NEW v \in Views, Sound(l, v)
    PROVE  LET r == FlushEvents(l) IN
           /\ Sound(r, v) /\ Announced(r) /\ Narrows(l, r)
           /\ r.host.life = l.host.life
<1> DEFINE r == FlushEvents(l)
           L == FlushLosses(l)
           n == Cardinality(Detachable(l, L))
           target == l.host.revision + n
           k == IF IsLive(l) THEN "session_state" ELSE "session_terminal"
           b == Emit(l.bus, target, k)
           m == [l EXCEPT !.bus = b]
<1>0. l \in Local /\ BusOK(l.bus) /\ HostFits(l) /\ l.bus \in Bus
      /\ l.host.revision \in Nat /\ l.bus.revision \in Nat
      /\ l.host.life \in {"absent", "live", "terminal", "gone"}
      /\ l.bus.tracked \in BOOLEAN
  BY LocalFields DEF Sound
<1>1. CASE ~(l.host.life \in {"live", "terminal"} /\ l.bus.revision < l.host.revision)
  <2>1. r = l
    BY <1>0, <1>1 DEF FlushEvents
  <2>2. Narrows(l, l)
    BY DEF Narrows
  <2>3. Announced(l)
    BY <1>0, <1>1 DEF Announced, HostFits
  <2> HIDE DEF r
  <2> QED BY <2>1, <2>2, <2>3 DEF r
<1>2. CASE l.host.life \in {"live", "terminal"} /\ l.bus.revision < l.host.revision
  <2>1. r = CloseLeases(m, L)
    BY <1>0, <1>2 DEF FlushEvents
  <2>2. /\ L \in SUBSET l.bus.leases /\ L \in SUBSET AttachId
        /\ \A a \in l.bus.leases \ L : target - l.bus.revision <= Room(l.bus.queue[a])
    <3>1. /\ FlushLosses(l) \in SUBSET l.bus.leases /\ FlushLosses(l) \in SUBSET AttachId
          /\ \A a \in l.bus.leases \ FlushLosses(l) :
                l.host.revision + Cardinality(Detachable(l, FlushLosses(l))) - l.bus.revision
                    <= Room(l.bus.queue[a])
      BY <1>0, FlushRoom, Zenon
    <3>2. target = l.host.revision + Cardinality(Detachable(l, FlushLosses(l))) /\ L = FlushLosses(l)
      OBVIOUS
    <3>3. Cardinality(Detachable(l, FlushLosses(l))) \in Nat
      BY <1>0, <3>1, DetachableIs
    <3> HIDE DEF target, L
    <3> QED BY <1>0, <3>1, <3>2, <3>3
  <2>3. n \in Nat
    BY <1>0, <2>2, DetachableIs
  <2>4. target \in Nat /\ target > l.bus.revision /\ k \in {"session_state", "session_terminal"}
    BY <1>0, <1>2, <2>3
  <2>5. k = "session_terminal" <=> l.host.life = "terminal"
    BY <1>2 DEF IsLive
  <2> HIDE DEF L, target, k
  <2>6. CASE l.bus.tracked
    <3>1. /\ b \in Bus /\ BusOK(b)
          /\ b.tracked /\ b.revision = target
          /\ b.terminalized <=> l.bus.terminalized \/ k = "session_terminal"
          /\ b.leases = l.bus.leases
      BY <1>0, <2>4, <2>6, EmitIs
    <3>2. \A a \in l.bus.leases \ L : LeaseOK(b, a, v[a])
      <4> TAKE a \in l.bus.leases \ L
      <4>1. a \in AttachId /\ v[a] \in View /\ LeaseOK(l.bus, a, v[a])
        BY <1>0, BusFields DEF Views, Sound
      <4>2. target - l.bus.revision <= Room(l.bus.queue[a])
        BY <2>2
      <4> QED BY <1>0, <2>4, <2>6, <4>1, <4>2, EmitKeepsLease
    <3>3. m \in Local /\ m.host = l.host /\ m.bus = b /\ m.lost = l.lost
      BY <1>0, <3>1, NewBus
    <3> HIDE DEF b, m
    <3>4. Detachable(m, L) = Detachable(l, L)
      BY <3>3 DEF Detachable, IsLive
    <3>5. target = m.host.revision + Cardinality(Detachable(m, L))
      BY <3>3, <3>4 DEF target
    <3>6. IsLive(m) => m.bus.tracked /\ ~m.bus.terminalized
      BY <1>0, <2>5, <3>1, <3>3 DEF HostFits, IsLive
    <3>7. Closing(m, v, L)
      <4>1. m.bus.revision <= m.host.revision + Cardinality(Detachable(m, L))
        BY <2>4, <3>1, <3>3, <3>5
      <4>2. m.host.life = "terminal" => m.bus.terminalized
        BY <2>5, <3>1, <3>3
      <4>3. m.host.life # "absent"
        BY <1>2, <3>3
      <4> QED BY <1>0, <3>1, <3>2, <3>3, <3>6, <4>1, <4>2, <4>3 DEF Closing, HostFits, IsLive
    <3>8. /\ Sound(r, v) /\ Narrows(m, r)
          /\ r.host.life = m.host.life
          /\ r.host.revision = m.host.revision + Cardinality(Detachable(m, L))
          /\ r.bus.tracked => r.bus.revision = m.bus.revision
      BY <2>1, <2>2, <3>7, Closes
    <3>9. Announced(r)
      BY <3>1, <3>3, <3>5, <3>8 DEF Announced
    <3>10. Narrows(l, m)
      BY <3>1, <3>3 DEF Narrows, Unserved
    <3> HIDE DEF r
    <3>11. Narrows(l, r)
      BY <3>8, <3>10, NarrowsTwice
    <3> QED BY <3>3, <3>8, <3>9, <3>11 DEF r
  <2>7. CASE ~l.bus.tracked
    <3>1. l.bus.leases = {} /\ b = l.bus
      BY <1>0, <2>7 DEF BusOK, Emit
    <3>2. m = l /\ L = {}
      BY <1>0, <2>2, <3>1 DEF Local
    <3> HIDE DEF b, m
    <3>3. Closing(l, v, {})
      BY SoundCloses
    <3>4. Sound(r, v) /\ Narrows(l, r) /\ r.host.life = l.host.life
          /\ (r.bus.tracked => l.bus.tracked)
      BY <2>1, <3>2, <3>3, Closes
    <3>5. Announced(r)
      BY <2>7, <3>4 DEF Announced
    <3> QED BY <3>4, <3>5
  <2> QED BY <1>0, <2>6, <2>7
<1> QED BY <1>1, <1>2

\* More revisions, an expired lease swept, the session over, its record gone.
LEMMA Bumps ==
    ASSUME NEW l, NEW v, Sound(l, v), NEW n \in Nat
    PROVE  LET r == HostBump(l, n) IN
           /\ Sound(r, v) /\ Narrows(l, r) /\ r.bus = l.bus /\ r.lost = l.lost
           /\ r.host.life = l.host.life
           /\ r.host.leases = l.host.leases /\ r.host.expired = l.host.expired
<1> DEFINE h == [l.host EXCEPT !.revision = @ + n]
           r == HostBump(l, n)
<1>0. l \in Local /\ l.host \in HostState /\ l.host.revision \in Nat /\ l.bus.revision \in Nat
  BY LocalFields DEF Sound
<1>1. /\ h \in HostState /\ h.life = l.host.life /\ h.leases = l.host.leases
      /\ h.expired = l.host.expired /\ h.revision = l.host.revision + n
  BY <1>0 DEF HostState
<1>2. r = [l EXCEPT !.host = h]
  BY <1>0 DEF HostBump, Local, HostState
<1> HIDE DEF h, r
<1>3. r \in Local /\ r.host = h /\ r.bus = l.bus /\ r.lost = l.lost
  BY <1>0, <1>1, <1>2, NewHost
<1>4. HostFits(r)
  BY <1>0, <1>1, <1>3 DEF HostFits, IsLive, Sound
<1>5. Sound(r, v)
  BY <1>3, <1>4 DEF Sound
<1>6. Narrows(l, r)
  BY <1>1, <1>3 DEF Narrows, Unserved
<1> QED BY <1>1, <1>3, <1>5, <1>6 DEF r

\* SessionHost's sweep of expired leases.
LEMMA Sweeps ==
    ASSUME NEW l, NEW v, Sound(l, v), NEW A \in SUBSET l.host.expired, IsLive(l)
    PROVE  LET r == HostSweep(l, A) IN
           /\ Sound(r, v) /\ Narrows(l, r) /\ r.bus = l.bus /\ r.lost = l.lost
           /\ r.host.life = l.host.life
           /\ r.host.leases = l.host.leases \ A /\ r.host.expired = l.host.expired \ A
<1> DEFINE h == [l.host EXCEPT !.leases = @ \ A, !.expired = @ \ A, !.revision = @ + Cardinality(A)]
           r == HostSweep(l, A)
<1>0. l \in Local /\ l.host \in HostState /\ l.host.revision \in Nat /\ l.bus.revision \in Nat
      /\ A \in SUBSET AttachId /\ l.host.leases \in SUBSET AttachId
      /\ l.host.expired \in SUBSET AttachId
  BY LocalFields DEF Sound
<1>1. Cardinality(A) \in Nat
  BY <1>0, FiniteCount
<1>2. /\ h \in HostState /\ h.life = l.host.life /\ h.leases = l.host.leases \ A
      /\ h.expired = l.host.expired \ A /\ h.revision = l.host.revision + Cardinality(A)
  <2>1. l.host.leases \ A \in SUBSET AttachId /\ l.host.expired \ A \in SUBSET AttachId
        /\ l.host.revision + Cardinality(A) \in Nat
    BY <1>0, <1>1
  <2> QED BY <1>0, <2>1 DEF HostState
<1>3. r = [l EXCEPT !.host = h]
  BY <1>0 DEF HostSweep, Local, HostState
<1> HIDE DEF h, r
<1>4. r \in Local /\ r.host = h /\ r.bus = l.bus /\ r.lost = l.lost
  BY <1>0, <1>2, <1>3, NewHost
<1>5. HostFits(r)
  BY <1>0, <1>1, <1>2, <1>4 DEF HostFits, IsLive, Sound
<1>6. Sound(r, v)
  BY <1>4, <1>5 DEF Sound
<1>7. Narrows(l, r)
  BY <1>2, <1>4 DEF Narrows, Unserved
<1> QED BY <1>2, <1>4, <1>6, <1>7 DEF r

\* The end of a session: a terminal event is due before anything else.
LEMMA Terminates ==
    ASSUME NEW l, NEW v, Sound(l, v), IsLive(l), NEW n \in Nat
    PROVE  LET r == HostTerminate(l, n) IN
           Sound(r, v) /\ Narrows(l, r) /\ r.lost = l.lost /\ r.host.life = "terminal"
<1> DEFINE h == [life |-> "terminal", leases |-> {}, expired |-> {},
                 revision |-> l.host.revision + n + Cardinality(l.host.leases) + 1]
           r == HostTerminate(l, n)
<1>0. l \in Local /\ l.host.revision \in Nat /\ l.bus.revision \in Nat
      /\ l.host.leases \in SUBSET AttachId
  BY LocalFields DEF Sound
<1>1. Cardinality(l.host.leases) \in Nat
  BY <1>0, FiniteCount
<1>2. h \in HostState /\ h.revision > l.host.revision
  BY <1>0, <1>1 DEF HostState
<1>3. r = [l EXCEPT !.host = h]
  BY DEF HostTerminate
<1> HIDE DEF r
<1>4. r \in Local /\ r.host = h /\ r.bus = l.bus /\ r.lost = l.lost
  <2> HIDE DEF h
  <2> QED BY <1>0, <1>2, <1>3, NewHost
<1>8. /\ l.bus.tracked => l.bus.revision <= l.host.revision
      /\ h.life = "terminal" /\ h.leases = {} /\ h.expired = {} /\ h.revision \in Nat
  BY <1>2 DEF HostFits, IsLive, Sound, HostState
<1> HIDE DEF h
<1>5. HostFits(r)
  <2>1. l.bus.leases # {} => l.bus.tracked
    BY DEF Sound, BusOK
  <2>2. l.bus.tracked => l.bus.revision < h.revision
    BY <1>0, <1>2, <1>8
  <2>3. r.host.life = "terminal" /\ ~IsLive(r)
    BY <1>4, <1>8 DEF IsLive
  <2> QED BY <1>0, <1>4, <1>8, <2>1, <2>2, <2>3 DEF HostFits
<1>6. Sound(r, v)
  BY <1>4, <1>5 DEF Sound
<1>7. Narrows(l, r)
  BY <1>4, <1>8 DEF Narrows, Unserved
<1> QED BY <1>4, <1>6, <1>7, <1>8 DEF r

\* An evicted record.
LEMMA Goes ==
    ASSUME NEW l, NEW v, Sound(l, v)
    PROVE  LET r == Gone(l) IN
           /\ Sound(r, v) /\ Announced(r) /\ Narrows(l, r)
           /\ r.lost = l.lost /\ r.bus = l.bus /\ r.host.life = "gone"
<1> DEFINE h == [Absent EXCEPT !.life = "gone"]
           r == Gone(l)
<1>0. l \in Local
  BY DEF Sound
<1>1. h \in HostState /\ h.life = "gone" /\ h.leases = {} /\ h.expired = {}
  BY DEF HostState, Absent
<1>2. r = [l EXCEPT !.host = h]
  BY DEF Gone
<1> HIDE DEF r, h
<1>3. r \in Local /\ r.host = h /\ r.bus = l.bus /\ r.lost = l.lost
  BY <1>0, <1>1, <1>2, NewHost
<1>4. HostFits(r)
  BY <1>1, <1>3 DEF HostFits, IsLive
<1>5. Sound(r, v)
  BY <1>3, <1>4 DEF Sound
<1>6. Narrows(l, r)
  BY <1>1, <1>3 DEF Narrows, Unserved
<1> QED BY <1>1, <1>3, <1>5, <1>6 DEF r, Announced

\* The announcement of a stop: it loses the leases without room and no other.
LEMMA Announces1 ==
    ASSUME NEW l, NEW v \in Views, Sound(l, v), IsLive(l)
    PROVE  LET r == Announce(l) IN
           Sound(r, v) /\ Narrows(l, r) /\ r.host.life = l.host.life
<1> DEFINE b == EmitScoped(l.bus, "daemon_stopping")
           A == Losing(l.bus, 1)
           m == [l EXCEPT !.bus = b]
           r == Announce(l)
<1>0. l \in Local /\ l.bus \in Bus /\ BusOK(l.bus) /\ HostFits(l)
      /\ l.host.revision \in Nat /\ l.bus.revision \in Nat
  BY LocalFields DEF Sound
<1>1. /\ b \in Bus /\ BusOK(b)
      /\ b.tracked = l.bus.tracked /\ b.revision = l.bus.revision
      /\ b.terminalized = l.bus.terminalized
      /\ b.leases = l.bus.leases
      /\ \A a \in l.bus.leases : \A w \in View :
            LeaseOK(l.bus, a, w) /\ 1 <= Room(l.bus.queue[a]) => LeaseOK(b, a, w)
  BY <1>0, ScopedIs
<1>2. A \in SUBSET AttachId
  BY <1>0, BusFields DEF Losing
<1>3. \A a \in l.bus.leases \ A : LeaseOK(b, a, v[a])
  <2> TAKE a \in l.bus.leases \ A
  <2>1. a \in AttachId /\ v[a] \in View /\ LeaseOK(l.bus, a, v[a])
    BY <1>0, BusFields DEF Views, Sound
  <2>2. Room(l.bus.queue[a]) \in Int
    BY <1>0, <2>1, RoomIsInt
  <2>3. 1 <= Room(l.bus.queue[a])
    BY <2>2 DEF Losing
  <2> QED BY <1>1, <2>1, <2>3
<1>4. r = CloseLeases(m, A)
  BY DEF Announce
<1>5. m \in Local /\ m.host = l.host /\ m.bus = b /\ m.lost = l.lost
  BY <1>0, <1>1, NewBus
<1> HIDE DEF b, A, m, r
<1>6. Cardinality(Detachable(m, A)) \in Nat
  BY <1>2, <1>5, DetachableIs
<1>7. Closing(m, v, A)
  <2>1. m.bus.revision <= m.host.revision + Cardinality(Detachable(m, A))
    BY <1>0, <1>1, <1>5, <1>6 DEF HostFits, IsLive
  <2>2. m.host.life = "live"
    BY <1>5 DEF IsLive
  <2> QED BY <1>0, <1>1, <1>3, <1>5, <2>1, <2>2 DEF Closing, HostFits, IsLive
<1>8. Sound(r, v) /\ Narrows(m, r) /\ r.host.life = m.host.life
  <2>1. Sound(CloseLeases(m, A), v)
    BY <1>2, <1>7, Closes
  <2>2. Narrows(m, CloseLeases(m, A)) /\ CloseLeases(m, A).host.life = m.host.life
    BY <1>2, <1>7, Closes
  <2> QED BY <1>4, <2>1, <2>2
<1>9. Narrows(l, m)
  BY <1>1, <1>5 DEF Narrows, Unserved
<1>10. Narrows(l, r)
  BY <1>8, <1>9, NarrowsTwice
<1> QED BY <1>5, <1>8, <1>10 DEF r
=============================================================================
