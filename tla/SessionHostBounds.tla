--------------------------- MODULE SessionHostBounds ---------------------------
(* The counters and the caps of the session host, for every value of the       *)
(* limits: the registry's attach counter, the size of a lease table and the    *)
(* number of live and retained records.                                        *)
EXTENDS SessionHostSteps

-----------------------------------------------------------------------------
(* What a step may do to the records and the lease tables: one shape stands for *)
(* every operation that has it.                                                 *)

Untouched == UNCHANGED <<record, leases, role, controller>>

\* note_visible_mutation, begin_stop, bind
Advanced(s) ==
    /\ IsLive(s)
    /\ CanBump(record[s])
    /\ UNCHANGED <<leases, role, controller>>
    /\ \/ record' = [record EXCEPT ![s] = Bump(@)]
       \/ record' = [record EXCEPT ![s] = Stopping(@)]
       \/ record' = [record EXCEPT ![s] = Bound(@)]

\* The leases D of s leave the table, and rec counts them out.
Removed(s, D, rec) ==
    /\ IsLive(s)
    /\ D \in SUBSET leases[s]
    /\ rec = Detach(record[s], Cardinality(D))

\* detach, and the sweeps whose operation is refused afterwards
Dropped(s, D, rec) ==
    /\ Removed(s, D, rec)
    /\ record' = [record EXCEPT ![s] = rec]
    /\ leases' = [leases EXCEPT ![s] = @ \ D]
    /\ role' = Without(role, D, "observer")
    /\ VacateController(s, D)

\* attach and claim: the fresh lease a comes in as `as`
Added(s, D, rec, a, as) ==
    /\ Removed(s, D, rec)
    /\ CanBump(rec)
    /\ Fresh(a)
    /\ record' = [record EXCEPT ![s] = Attach(rec)]
    /\ leases' = [leases EXCEPT ![s] = (@ \ D) \cup {a}]
    /\ role' = [Without(role, D, "observer") EXCEPT ![a] = as]
    /\ \E c : controller' = [controller EXCEPT ![s] = c]
    /\ as # "controller" =>
           /\ D \in SweepOutcomes(s)
           /\ Cardinality({b \in leases[s] : role[b] = "observer" /\ ~Expired(b)}) < MaxAttaches

\* transfer_control: at most one lease is demoted for the one that is promoted
Handed(s, D, rec, previous, target) ==
    /\ Removed(s, D, rec)
    /\ CanBump(rec)
    /\ target \in leases[s] \ D
    /\ previous \subseteq leases[s]
    /\ role[target] = "observer"
    /\ record' = [record EXCEPT ![s] = Bump(rec)]
    /\ leases' = [leases EXCEPT ![s] = @ \ D]
    /\ role' = [Without(role, previous \cup D, "observer") EXCEPT ![target] = "controller"]
    /\ \E c : controller' = [controller EXCEPT ![s] = c]

\* finish_terminal
Finished(s) == \E reason \in Reason, cleanup \in Cleanup : FinishTerminal(s, reason, cleanup)

Shape ==
    \/ Untouched
    \/ ExpireDue
    \/ CollectRetained
    \/ \E s \in Session :
         \/ Create(s)
         \/ DiscardCreated(s)
         \/ Advanced(s)
         \/ Finished(s)
         \/ \E D \in SUBSET AttachId, rec \in Record :
              \/ Dropped(s, D, rec)
              \/ \E a \in AttachId, as \in {"observer", "controller"} : Added(s, D, rec, a, as)
              \/ \E p \in AttachId \cup {NoAttach}, target \in AttachId :
                   Handed(s, D, rec, {p} \ {NoAttach}, target)

\* The record a removal leaves is a record.
LEMMA RemovedRecord ==
    ASSUME IInv, NEW s \in Session, NEW D \in SUBSET AttachId
    PROVE  Detach(record[s], Cardinality(D)) \in Record
BY HandleSets, DetachKeeps DEF IInv, TypeOK

\* SessionHost::commit_stop, kill, escalate_abort.
LEMMA AcceptedShape ==
    ASSUME NEW s \in Session, NEW why, Accepted(s, why),
           UNCHANGED <<leases, role, controller>>
    PROVE  Shape
<1>1. CASE record' = record
  BY <1>1 DEF Shape, Untouched
<1>2. CASE /\ record[s].state = "running" /\ CanBump(record[s])
           /\ record' = [record EXCEPT ![s] = Stopping(record[s])]
  BY <1>2 DEF Shape, Advanced, IsLive, Live
<1> QED
  BY <1>1, <1>2 DEF Accepted

\* Every step has one of the shapes.
LEMMA StepShapes ==
    ASSUME IInv, [Next]_vars
    PROVE  Shape
<1> USE DEF IInv
<1>1. CASE UNCHANGED vars \/ Tick \/ \E a \in AttachId : Heartbeat(a)
  BY <1>1 DEF Shape, Untouched, vars, controlVars, leaseVars, Tick, Heartbeat
<1>2. CASE ExpireDue \/ CollectRetained \/ \E s \in Session : Create(s) \/ DiscardCreated(s)
  BY <1>2 DEF Shape
<1>3. ASSUME NEW s \in Session, Bind(s) \/ RecordGrantMutation(s)
      PROVE  Shape
  <2>1. Advanced(s)
    BY <1>3 DEF Bind, RecordGrantMutation, Advanced, controlVars, leaseVars, IsLive, Live
  <2> QED
    BY <2>1 DEF Shape
<1>4. ASSUME NEW a \in AttachId, RecordResize(a)
      PROVE  Shape
  <2>1. leaseSessions[a] \in Session /\ Advanced(leaseSessions[a])
    BY <1>4 DEF RecordResize, Advanced, controlVars, TypeOK
  <2> QED
    BY <2>1 DEF Shape
<1>5. ASSUME NEW s \in Session, EscalateAbort(s)
      PROVE  Shape
  BY <1>5 DEF EscalateAbort, Shape, Untouched, controlVars, leaseVars
<1>6. ASSUME NEW s \in Session, NEW a \in AttachId,
             OperatorDetach(s, a) \/ \E auth \in Authority : ConsumerDetach(s, a, auth)
      PROVE  Shape
  <2>1. Cardinality({a}) = 1
    BY FS_Singleton
  <2>2. Dropped(s, {a}, Detach(record[s], Cardinality({a})))
    BY <1>6, <2>1 DEF OperatorDetach, ConsumerDetach, DropLeases, Dropped, Removed, Actionable
  <2> QED
    BY <2>2, RemovedRecord DEF Shape
<1>7. ASSUME NEW s \in Session, NEW a \in AttachId, AttachObserver(s, a)
      PROVE  Shape
  <2>1. IsLive(s) /\ Fresh(a)
        /\ Cardinality({b \in leases[s] : role[b] = "observer" /\ ~Expired(b)}) < MaxAttaches
    BY <1>7 DEF AttachObserver
  <2>2. PICK swept \in SweepOutcomes(s) :
          LET rec == Detach(record[s], Cardinality(swept))
          IN /\ VacateController(s, swept)
             /\ \/ /\ CanBump(rec)
                   /\ record' = [record EXCEPT ![s] = Attach(rec)]
                   /\ leases' = [leases EXCEPT ![s] = (@ \ swept) \cup {a}]
                   /\ role' = [Without(role, swept, "observer") EXCEPT ![a] = "observer"]
                \/ /\ record' = [record EXCEPT ![s] = rec]
                   /\ DropLeases(s, swept)
    BY <1>7 DEF AttachObserver
  <2>3. swept \in SUBSET leases[s] /\ swept \in SUBSET AttachId
    BY <2>2, HandleSets
  <2> DEFINE rec == Detach(record[s], Cardinality(swept))
  <2>4. Dropped(s, swept, rec) \/ Added(s, swept, rec, a, "observer")
    BY <2>1, <2>2, <2>3 DEF Dropped, Added, Removed, DropLeases, VacateController
  <2> QED
    BY <2>3, <2>4, RemovedRecord DEF Shape
<1>8. ASSUME NEW s \in Session, NEW a \in AttachId, NEW generation \in {0, 1},
             NEW p \in 1 .. MaxToken, ClaimController(s, generation, p, a)
      PROVE  Shape
  <2> DEFINE vacated == ExpiredController(s)
             rec == Detach(record[s], Cardinality(vacated))
  <2>1. vacated \in SUBSET leases[s] /\ vacated \in SUBSET AttachId
    BY DEF ExpiredController, TypeOK
  <2>2. Dropped(s, vacated, rec) \/ Added(s, vacated, rec, a, "controller")
    BY <1>8, <2>1 DEF ClaimController, Dropped, Added, Removed, DropLeases
  <2> QED
    BY <2>1, <2>2, RemovedRecord DEF Shape
<1>9. ASSUME NEW s \in Session, NEW a \in AttachId, NEW generation \in {0, 1},
             NEW auth \in Authority, TransferControl(s, generation, auth, a)
      PROVE  Shape
  <2> DEFINE vacated == IF auth.lease # NoAttach THEN {} ELSE ExpiredController(s)
             rec == Detach(record[s], Cardinality(vacated))
             previous == IF auth.lease # NoAttach THEN {auth.lease} ELSE {}
  <2>1. vacated \in SUBSET leases[s] /\ vacated \in SUBSET AttachId
    BY DEF ExpiredController, TypeOK
  <2>2. previous = {auth.lease} \ {NoAttach} /\ auth.lease \in AttachId \cup {NoAttach}
    BY DEF Authority
  <2>3. /\ a \in leases[s] /\ ~Expired(a) /\ role[a] = "observer" /\ IsLive(s)
        /\ previous \subseteq leases[s]
    BY <1>9 DEF TransferControl, AuthorizeControl, ActsAsController, ActsAsVacantToken, Actionable
  <2>4. a \notin vacated
    BY <2>3 DEF ExpiredController
  <2>5. \/ /\ record' = [record EXCEPT ![s] = rec]
           /\ DropLeases(s, vacated)
           /\ VacateController(s, vacated)
        \/ /\ CanBump(rec)
           /\ controller' = [controller EXCEPT ![s] = a]
           /\ record' = [record EXCEPT ![s] = Bump(rec)]
           /\ leases' = [leases EXCEPT ![s] = @ \ vacated]
           /\ role' = [Without(role, previous \cup vacated, "observer") EXCEPT ![a] = "controller"]
    BY <1>9 DEF TransferControl
  <2> HIDE DEF vacated, previous
  <2>6. Removed(s, vacated, rec)
    BY <2>1, <2>3 DEF Removed
  <2> HIDE DEF rec
  <2>7. Dropped(s, vacated, rec) \/ Handed(s, vacated, rec, {auth.lease} \ {NoAttach}, a)
    BY <2>2, <2>3, <2>4, <2>5, <2>6 DEF Dropped, Handed, DropLeases
  <2>8. rec \in Record
    BY <2>1, RemovedRecord DEF rec
  <2> QED
    BY <2>1, <2>2, <2>7, <2>8 DEF Shape
<1>10. ASSUME NEW s \in Session, NEW reason, NEW grace, NEW renewed, grace \in Nat,
              CommitStop(s, reason, grace, renewed)
       PROVE  Shape
  <2>1. now + grace \in Nat
    BY <1>10 DEF TypeOK
  <2>2. Accepted(s, reason)
    BY <1>10, <2>1 DEF CommitStop, Accepted
  <2> QED
    BY <1>10, <2>2, AcceptedShape DEF CommitStop, controlVars
<1>11. ASSUME NEW s \in Session, NEW generation \in {0, 1},
              \/ \E auth \in Authority, r \in {"consumer_cancel", "consumer_timeout"} :
                   Abort(s, generation, auth, r)
              \/ \E r \in {"operator_abort", "daemon_stop", "host_shutdown"} :
                   OperatorStop(s, generation, r)
       PROVE  Shape
  <2>1. AbortGrace \in Nat /\ DrainGrace \in Nat
    BY LimitAssumption
  <2> QED
    BY <1>10, <1>11, <2>1 DEF Abort, OperatorStop
<1>12. ASSUME NEW s \in Session, NEW generation \in {0, 1}, Kill(s, generation)
       PROVE  Shape
  <2>1. now \in Nat
    BY DEF TypeOK
  <2>2. Accepted(s, "operator_abort")
    BY <1>12, <2>1 DEF Kill, Accepted, Escalated
  <2> QED
    BY <1>12, <2>2, AcceptedShape DEF Kill, controlVars, leaseVars
<1>13. ASSUME NEW s \in Session, NEW cleanup \in Cleanup,
              \/ CompletePreBindCancel(s, cleanup)
              \/ \E o \in Observation : RecordTermination(s, o, cleanup)
       PROVE  Shape
  <2>1. \A r \in StopReason \cup {"none"} : r # "none" => r \in Reason
    BY DEF Reason
  <2>2. cancel[s] \in StopReason \cup {"none"} /\ stop[s].reason \in StopReason \cup {"none"}
    BY DEF TypeOK, NoCancel
  <2>3. \A o \in Observation : ObservedReason(s, o) \in Reason \cup {"none"}
    BY <2>2 DEF ObservedReason, Reason, WorkerReason
  <2>4. Finished(s)
    BY <1>13, <2>1, <2>2, <2>3 DEF CompletePreBindCancel, RecordTermination, NoCancel, Finished
  <2> QED
    BY <2>4 DEF Shape
<1> QED
  BY <1>1, <1>2, <1>3, <1>4, <1>5, <1>6, <1>7, <1>8, <1>9, <1>11, <1>12, <1>13 DEF Next

-----------------------------------------------------------------------------
(* The attach counter.                                                      *)

\* The registry's counter of a record agrees with the lease table L.
Counted(rec, L) == CanBump(rec) => rec.attachCount = Cardinality(L)

AllCounted == \A s \in Session : IsLive(s) => Counted(record[s], leases[s])

\* A detach of n leases either takes all of them or uses up the revisions.
LEMMA DetachIs ==
    ASSUME NEW rec \in Record, NEW n \in Nat, CanBump(Detach(rec, n))
    PROVE  /\ CanBump(rec)
           /\ Detachable(rec, n) = n
           /\ n <= rec.attachCount => Detach(rec, n).attachCount = rec.attachCount - n
<1> DEFINE done == Min2(Detachable(rec, n), rec.attachCount)
<1>1. rec.revision \in 0 .. MaxRevision /\ rec.attachCount \in Nat /\ MaxRevision \in Nat
  BY LimitAssumption DEF Record
<1>2. /\ Detach(rec, n).revision = rec.revision + done
      /\ Detach(rec, n).attachCount = rec.attachCount - done
  BY DEF Detach, Record
<1>3. rec.revision + done < MaxRevision
  BY <1>2 DEF CanBump
<1>4. Detachable(rec, n) = n
  BY <1>1, <1>3 DEF Detachable, Min2
<1>5. done = Min2(n, rec.attachCount)
  BY <1>4
<1>6. n <= rec.attachCount => done = n
  BY <1>1, <1>5 DEF Min2
<1>7. done >= 0
  BY <1>1, <1>5 DEF Min2
<1> HIDE DEF done
<1>8. CanBump(rec)
  BY <1>1, <1>3, <1>5, <1>7 DEF CanBump, Min2
<1> QED
  BY <1>2, <1>4, <1>6, <1>8

\* Leases that leave the table are counted out.
LEMMA RemovedCounted ==
    ASSUME NEW rec \in Record, NEW L \in SUBSET AttachId, Counted(rec, L), NEW D \in SUBSET L
    PROVE  Counted(Detach(rec, Cardinality(D)), L \ D)
<1>1. /\ IsFiniteSet(L) /\ IsFiniteSet(D) /\ Cardinality(L) \in Nat /\ Cardinality(D) \in Nat
      /\ Cardinality(D) <= Cardinality(L)
  BY HandleSets, FS_Subset
<1>2. L \cap D = D
  OBVIOUS
<1>3. Cardinality(L \ D) = Cardinality(L) - Cardinality(D)
  BY <1>1, <1>2, FS_Difference
<1> QED
  BY <1>1, <1>3, DetachIs DEF Counted

\* A new lease is counted in.
LEMMA AddedCounted ==
    ASSUME NEW rec \in Record, NEW L \in SUBSET AttachId, Counted(rec, L), CanBump(rec),
           NEW a \in AttachId, a \notin L
    PROVE  Counted(Attach(rec), L \cup {a})
<1>1. IsFiniteSet(L)
  BY HandleSets
<1>2. Cardinality(L \cup {a}) = Cardinality(L) + 1
  BY <1>1, FS_AddElement
<1>3. Attach(rec).attachCount = rec.attachCount + 1
  BY DEF Attach, Record
<1> QED
  BY <1>2, <1>3 DEF Counted

\* The other visible changes leave the count as it was.
LEMMA BumpedCounted ==
    ASSUME NEW rec \in Record, NEW L, Counted(rec, L), CanBump(rec)
    PROVE  Counted(Bump(rec), L) /\ Counted(Stopping(rec), L) /\ Counted(Bound(rec), L)
<1>1. /\ Bump(rec).attachCount = rec.attachCount
      /\ Stopping(rec).attachCount = rec.attachCount
      /\ Bound(rec).attachCount = rec.attachCount
  BY DEF Bump, Stopping, Bound, Record
<1> QED
  BY <1>1 DEF Counted

\* One session changes, the others are as they were.
LEMMA OneCounted ==
    ASSUME AllCounted, NEW s \in Session,
           \A r \in Session : r # s => /\ record'[r] = record[r] \/ ~IsLive(r)'
                                       /\ IsLive(r)' => leases'[r] = leases[r],
           IsLive(s)' => Counted(record'[s], leases'[s])
    PROVE  AllCounted'
<1> SUFFICES ASSUME NEW r \in Session, IsLive(r)'
             PROVE  Counted(record'[r], leases'[r])
  BY DEF AllCounted, Counted, CanBump
<1>1. CASE r = s
  BY <1>1
<1>2. CASE r # s
  <2>1. record'[r] = record[r] /\ leases'[r] = leases[r] /\ IsLive(r)
    BY <1>2 DEF IsLive
  <2> QED
    BY <2>1 DEF AllCounted
<1> QED
  BY <1>1, <1>2

\* A sweep of the whole host counts out, session by session, what it removes.
LEMMA ExpireCounted ==
    ASSUME IInv, AllCounted, ExpireDue
    PROVE  AllCounted'
<1> USE DEF IInv
<1>0. \A s \in Session : record[s] \in Record /\ leases[s] \in SUBSET AttachId
  BY DEF TypeOK
<1>1. PICK swept \in [hosted -> SUBSET AttachId] :
        /\ \A s \in hosted : swept[s] \in SweepOutcomes(s)
        /\ LET Swept(s) == IF s \in hosted THEN swept[s] ELSE {}
           IN /\ record' = [s \in Session |-> Detach(record[s], Cardinality(Swept(s)))]
              /\ leases' = [s \in Session |-> leases[s] \ Swept(s)]
  BY DEF ExpireDue
<1> DEFINE Swept(s) == IF s \in hosted THEN swept[s] ELSE {}
<1>2. ASSUME NEW s \in Session, IsLive(s)'
      PROVE  Counted(record'[s], leases'[s])
  <2>1. Swept(s) \in SUBSET leases[s]
    BY <1>1, HandleSets
  <2>2. record'[s] = Detach(record[s], Cardinality(Swept(s))) /\ leases'[s] = leases[s] \ Swept(s)
    BY <1>1
  <2>3. Cardinality(Swept(s)) \in Nat
    BY <1>0, <2>1, HandleSets
  <2> HIDE DEF Swept
  <2>4. record'[s].state = record[s].state
    BY <1>0, <2>2, <2>3, DetachKeeps
  <2>5. Counted(record[s], leases[s])
    BY <1>2, <2>4 DEF AllCounted, IsLive
  <2> QED
    BY <1>0, <2>1, <2>2, <2>5, RemovedCounted
<1> QED
  BY <1>2 DEF AllCounted, Counted, CanBump

\* SessionHost::finish_terminal: a termination refused half way has used up the
\* revisions, a completed one leaves no live record behind.
LEMMA FinishCounted ==
    ASSUME IInv, AllCounted, NEW s \in Session, Finished(s)
    PROVE  AllCounted'
<1> USE DEF IInv
<1>0. /\ record \in [Session -> Record] /\ leases \in [Session -> SUBSET AttachId]
      /\ \A r \in Session : record[r] \in Record /\ leases[r] \in SUBSET AttachId
  BY DEF TypeOK
<1>1. PICK reason \in Reason, cleanup \in Cleanup : FinishTerminal(s, reason, cleanup)
  BY DEF Finished
<1> DEFINE n == Cardinality(leases[s])
           detached == Detach(record[s], n)
           Sealed(evicted) ==
                record' =
                [r \in Session |->
                   IF r \in evicted THEN Blank("collected")
                   ELSE IF r = s THEN [detached EXCEPT !.state = TerminalState(reason),
                                                       !.revision = @ + 1, !.reason = reason,
                                                       !.cleanup = cleanup, !.terminalizedAt = now]
                   ELSE record[r]]
<1>2. n \in Nat /\ IsLive(s) /\ TerminalState(reason) \in Terminal
  BY <1>0, <1>1, HandleSets, TerminalStates DEF FinishTerminal, AllowsTerminal, IsLive, Live
<1>3. CASE /\ ~(Detachable(record[s], n) = n /\ CanBump(detached))
           /\ record' = [record EXCEPT ![s] = detached] /\ leases' = leases
  <2>1. ~CanBump(detached)
    BY <1>0, <1>2, <1>3, DetachIs
  <2> QED
    BY <1>0, <1>3, <2>1, OneCounted DEF Counted
<1>4. ASSUME NEW evicted, leases' = [leases EXCEPT ![s] = {}], Sealed(evicted)
      PROVE  AllCounted'
  <2>1. Blank("collected").state \notin Live /\ TerminalState(reason) \notin Live
    BY <1>2 DEF Blank, Live, Terminal
  <2>2. detached \in Record
    BY <1>0, <1>2, DetachKeeps
  <2> HIDE DEF detached
  <2>3. [detached EXCEPT !.state = TerminalState(reason), !.revision = @ + 1, !.reason = reason,
                         !.cleanup = cleanup, !.terminalizedAt = now].state = TerminalState(reason)
    BY <2>2 DEF Record
  <2>4. /\ \A r \in Session : r # s => record'[r] = record[r] \/ ~IsLive(r)'
        /\ ~IsLive(s)'
    BY <1>4, <2>1, <2>3 DEF IsLive
  <2> QED
    BY <1>0, <1>4, <2>4, OneCounted
<1>5. \/ /\ ~(Detachable(record[s], n) = n /\ CanBump(detached))
         /\ record' = [record EXCEPT ![s] = detached] /\ leases' = leases
      \/ /\ leases' = [leases EXCEPT ![s] = {}]
         /\ \E evicted : Sealed(evicted)
  <2>1. leases[s] \ leases[s] = {}
    OBVIOUS
  <2> QED
    BY <1>1, <2>1 DEF FinishTerminal, DropLeases, leaseVars
<1> HIDE DEF n, detached, Sealed
<1> QED
  BY <1>3, <1>4, <1>5

\* Every operation keeps counter and table together.
LEMMA CountedSteps ==
    ASSUME IInv, AllCounted, [Next]_vars
    PROVE  AllCounted'
<1> USE DEF IInv
<1>0. /\ record \in [Session -> Record] /\ leases \in [Session -> SUBSET AttachId]
      /\ \A s \in Session : record[s] \in Record /\ leases[s] \in SUBSET AttachId
  BY DEF TypeOK
<1>1. CASE Untouched
  BY <1>1 DEF Untouched, AllCounted, IsLive, Counted, CanBump
<1>3. CASE CollectRetained
  <2>1. \A s \in Session : IsLive(s)' => record'[s] = record[s]
    BY <1>3 DEF CollectRetained, Blank, IsLive, Live
  <2>2. \A s \in Session : IsLive(s)' => leases'[s] = leases[s]
    <3>1. \A s \in Session : IsLive(s) => s \in hosted /\ s \notin Retained
      BY DEF Hosted, IsLive, Live, Absent, Retained, Terminal
    <3>2. \A s \in Session : IsLive(s) => leases'[s] = leases[s]
      BY <1>3, <3>1 DEF CollectRetained, IsLive, Live, Absent
    <3> QED
      BY <2>1, <3>2 DEF IsLive
  <2> QED
    BY <2>1, <2>2 DEF AllCounted, IsLive, Counted, CanBump
<1>4. ASSUME NEW s \in Session, Create(s) \/ DiscardCreated(s)
      PROVE  AllCounted'
  <2>1. CASE Create(s)
    <3>1. record' = [record EXCEPT ![s] = Blank("created")] /\ leases' = leases /\ leases[s] = {}
      BY <2>1 DEF Create, leaseVars, TerminalSealed, IsLive, Live
    <3>2. Counted(Blank("created"), {})
      BY FS_EmptySet DEF Counted, Blank
    <3> QED
      BY <1>0, <3>1, <3>2, OneCounted
  <2>2. CASE DiscardCreated(s)
    <3>1. record' = [record EXCEPT ![s] = Blank("collected")] /\ leases' = leases
      BY <2>2 DEF DiscardCreated, leaseVars
    <3>2. ~IsLive(s)'
      BY <1>0, <3>1 DEF IsLive, Live, Blank
    <3> QED
      BY <1>0, <3>1, <3>2, OneCounted
  <2> QED
    BY <1>4, <2>1, <2>2
<1>5. ASSUME NEW s \in Session, Advanced(s)
      PROVE  AllCounted'
  <2>1. Counted(record[s], leases[s])
    BY <1>5 DEF AllCounted, Advanced
  <2>2. Counted(record'[s], leases'[s])
    BY <1>0, <1>5, <2>1, BumpedCounted DEF Advanced
  <2> QED
    BY <1>0, <1>5, <2>2, OneCounted DEF Advanced
<1>6. ASSUME NEW s \in Session, NEW D, NEW rec, Removed(s, D, rec)
      PROVE  rec \in Record /\ Counted(rec, leases[s] \ D)
  <2>1. Counted(record[s], leases[s])
    BY <1>6 DEF AllCounted, Removed
  <2>2. Counted(rec, leases[s] \ D)
    BY <1>0, <1>6, <2>1, RemovedCounted DEF Removed
  <2> QED
    BY <1>0, <1>6, <2>2, RemovedRecord DEF Removed
<1>7. ASSUME NEW s \in Session, NEW D, NEW rec, Dropped(s, D, rec)
      PROVE  AllCounted'
  BY <1>0, <1>6, <1>7, OneCounted DEF Dropped
<1>8. ASSUME NEW s \in Session, NEW D, NEW rec, NEW previous, NEW target,
             Handed(s, D, rec, previous, target)
      PROVE  AllCounted'
  <2>1. Counted(Bump(rec), leases[s] \ D)
    BY <1>6, <1>8, BumpedCounted DEF Handed
  <2> QED
    BY <1>0, <1>8, <2>1, OneCounted DEF Handed
<1>9. ASSUME NEW s \in Session, NEW D, NEW rec, NEW a \in AttachId, NEW as, Added(s, D, rec, a, as)
      PROVE  AllCounted'
  <2>1. a \notin leases[s] \ D /\ leases[s] \ D \in SUBSET AttachId
    BY <1>0, <1>9, IdentifierAssumption DEF Added, Fresh, LeaseIndexAgrees
  <2>2. Counted(Attach(rec), (leases[s] \ D) \cup {a})
    BY <1>6, <1>9, <2>1, AddedCounted DEF Added
  <2> QED
    BY <1>0, <1>9, <2>2, OneCounted DEF Added
<1> QED
  BY <1>1, <1>3, <1>4, <1>5, <1>7, <1>8, <1>9, StepShapes, ExpireCounted, FinishCounted DEF Shape

\* The registry's attach counter is the size of the lease table as long as the
\* session has revisions left to report a change with.
THEOREM CountersAgree == Spec => []AttachCountAgrees
<1>1. Init => AllCounted
  BY DEF Init, AllCounted, IsLive, Live, Blank
<1>2. IInv /\ AllCounted /\ [Next]_vars => AllCounted'
  BY CountedSteps
<1>3. AllCounted => AttachCountAgrees
  BY DEF AllCounted, Counted, AttachCountAgrees
<1> QED
  BY <1>1, <1>2, <1>3, HostInvariant, PTL DEF Spec

-----------------------------------------------------------------------------
(* The tables and the revision.                                             *)

\* What the tables hold of s, the leases no sweep has removed yet included.
Stored(s) == <<record[s].state, record[s].generation, leases[s], controller[s]>>

\* Whatever the tables hold changes only with a larger revision.
TablesCovered(s) ==
    IsLive(s) /\ record'[s].state \notin Absent =>
        /\ record'[s].revision >= record[s].revision
        /\ Stored(s)' # Stored(s) =>
               \/ record'[s].revision > record[s].revision
               \/ record[s].revision = MaxRevision

\* A detach never takes the revision back, and one that removes a lease from
\* a table the counter agrees with advances it.
LEMMA DetachAdvances ==
    ASSUME NEW rec \in Record, NEW L \in SUBSET AttachId, Counted(rec, L), NEW D \in SUBSET L
    PROVE  LET new == Detach(rec, Cardinality(D))
           IN /\ new.revision \in Nat /\ new.revision >= rec.revision
              /\ D # {} => new.revision > rec.revision \/ rec.revision = MaxRevision
<1>1. /\ IsFiniteSet(L) /\ IsFiniteSet(D) /\ Cardinality(L) \in Nat /\ Cardinality(D) \in Nat
      /\ Cardinality(D) <= Cardinality(L)
      /\ D # {} => Cardinality(D) # 0
  BY HandleSets, FS_Subset, FS_EmptySet
<1>2. rec.revision \in 0 .. MaxRevision /\ rec.attachCount \in Nat /\ MaxRevision \in Nat
  BY LimitAssumption DEF Record
<1> DEFINE n == Cardinality(D)
           done == Min2(Detachable(rec, n), rec.attachCount)
<1>3. Detach(rec, n).revision = rec.revision + done
  BY DEF Detach, Record
<1>4. CanBump(rec) => rec.attachCount >= n
  BY <1>1 DEF Counted
<1> HIDE DEF n
<1>5. n \in Nat /\ (D # {} => n # 0)
  BY <1>1 DEF n
<1>6. done \in Nat
  BY <1>2, <1>5 DEF Min2, Detachable
<1>7. CanBump(rec) /\ n # 0 => done # 0
  BY <1>2, <1>4, <1>5 DEF Min2, Detachable, CanBump
<1>8. ~CanBump(rec) => rec.revision = MaxRevision
  BY <1>2 DEF CanBump
<1> HIDE DEF done
<1> QED
  BY <1>2, <1>3, <1>5, <1>6, <1>7, <1>8 DEF n

\* A session whose tables stay as it was.
LEMMA QuietCovers ==
    ASSUME TypeOK, NEW s \in Session, record'[s] = record[s], leases'[s] = leases[s],
           controller'[s] = controller[s]
    PROVE  TablesCovered(s)
<1>1. record[s].revision \in Nat
  BY LimitAssumption DEF TypeOK, Record
<1> QED
  BY <1>1 DEF TablesCovered, Stored

\* The step of one session leaves the tables of the others alone.
LEMMA OneCovers ==
    ASSUME TypeOK, NEW s \in Session, NEW rec, record' = [record EXCEPT ![s] = rec],
           NEW L, leases' = [leases EXCEPT ![s] = L],
           NEW c, controller' = [controller EXCEPT ![s] = c],
           IsLive(s) /\ rec.state \notin Absent =>
               /\ rec.revision >= record[s].revision
               /\ \/ rec.revision > record[s].revision
                  \/ record[s].revision = MaxRevision
                  \/ /\ L = leases[s] /\ c = controller[s]
                     /\ rec.state = record[s].state /\ rec.generation = record[s].generation
    PROVE  \A r \in Session : TablesCovered(r)
<1> SUFFICES ASSUME NEW r \in Session PROVE TablesCovered(r)
  OBVIOUS
<1>1. CASE r = s
  <2>1. record'[r] = rec /\ leases'[r] = L /\ controller'[r] = c
    BY <1>1 DEF TypeOK
  <2> QED
    BY <1>1, <2>1 DEF TablesCovered, Stored
<1>2. CASE r # s
  <2>1. record'[r] = record[r] /\ leases'[r] = leases[r] /\ controller'[r] = controller[r]
    BY <1>2 DEF TypeOK
  <2> QED
    BY <2>1, QuietCovers
<1> QED
  BY <1>1, <1>2

\* SessionHost::expire_due, session by session.
LEMMA ExpireCovers ==
    ASSUME IInv, AllCounted, ExpireDue
    PROVE  \A s \in Session : TablesCovered(s)
<1> USE DEF IInv
<1>0. \A s \in Session : record[s] \in Record /\ leases[s] \in SUBSET AttachId
  BY DEF TypeOK
<1>1. PICK swept \in [hosted -> SUBSET AttachId] :
        /\ \A s \in hosted : swept[s] \in SweepOutcomes(s)
        /\ LET Swept(s) == IF s \in hosted THEN swept[s] ELSE {}
           IN /\ record' = [s \in Session |-> Detach(record[s], Cardinality(Swept(s)))]
              /\ controller' =
                   [s \in Session |-> IF controller[s] \in Swept(s) THEN NoAttach ELSE controller[s]]
              /\ leases' = [s \in Session |-> leases[s] \ Swept(s)]
  BY DEF ExpireDue
<1> SUFFICES ASSUME NEW s \in Session PROVE TablesCovered(s)
  OBVIOUS
<1> DEFINE D == IF s \in hosted THEN swept[s] ELSE {}
<1>2. D \in SUBSET leases[s]
  BY <1>1, HandleSets
<1>3. /\ record'[s] = Detach(record[s], Cardinality(D)) /\ leases'[s] = leases[s] \ D
      /\ controller'[s] = IF controller[s] \in D THEN NoAttach ELSE controller[s]
  BY <1>1
<1>4. Cardinality(D) \in Nat
  BY <1>0, <1>2, HandleSets
<1> HIDE DEF D
<1>5. /\ record'[s].state = record[s].state
      /\ record'[s].generation = record[s].generation
  BY <1>0, <1>3, <1>4, DetachKeeps
<1>6. CASE IsLive(s)
  <2>1. Counted(record[s], leases[s])
    BY <1>6 DEF AllCounted
  <2>2. /\ record'[s].revision >= record[s].revision
        /\ D # {} => record'[s].revision > record[s].revision \/ record[s].revision = MaxRevision
    BY <1>0, <1>2, <1>3, <2>1, DetachAdvances
  <2>3. D = {} => leases'[s] = leases[s] /\ controller'[s] = controller[s]
    BY <1>3
  <2> QED
    BY <1>5, <2>2, <2>3 DEF TablesCovered, Stored
<1> QED
  BY <1>6 DEF TablesCovered

\* SessionHost::finish_terminal: a termination refused half way only counts.
LEMMA FinishCovers ==
    ASSUME IInv, AllCounted, NEW s \in Session, Finished(s)
    PROVE  \A r \in Session : TablesCovered(r)
<1> USE DEF IInv
<1>0. TypeOK /\ record \in [Session -> Record] /\ record[s] \in Record /\ leases[s] \in SUBSET AttachId
  BY DEF TypeOK
<1>1. PICK reason \in Reason, cleanup \in Cleanup : FinishTerminal(s, reason, cleanup)
  BY DEF Finished
<1> DEFINE detached == Detach(record[s], Cardinality(leases[s]))
           Frozen(rec) == [rec EXCEPT !.state = TerminalState(reason), !.revision = @ + 1,
                                      !.reason = reason, !.cleanup = cleanup,
                                      !.terminalizedAt = now]
<1>2. IsLive(s)
  BY <1>1 DEF FinishTerminal, AllowsTerminal, IsLive, Live
<1>3. /\ detached \in Record /\ detached.state = record[s].state
      /\ detached.generation = record[s].generation
  BY <1>0, HandleSets, DetachKeeps
<1>4. Counted(record[s], leases[s])
  BY <1>2 DEF AllCounted
<1>5. detached.revision \in Nat /\ record[s].revision \in Nat /\ detached.revision >= record[s].revision
  BY <1>0, <1>4, DetachAdvances, LimitAssumption DEF Record
<1>6. \/ record' = [record EXCEPT ![s] = detached] /\ UNCHANGED <<leases, controller>>
      \/ /\ leases' = [leases EXCEPT ![s] = @ \ leases[s]]
         /\ controller' = [controller EXCEPT ![s] = NoAttach]
         /\ \E evicted :
              record' = [r \in Session |-> IF r \in evicted THEN Blank("collected")
                                           ELSE IF r = s THEN Frozen(detached) ELSE record[r]]
  BY <1>1 DEF FinishTerminal, DropLeases, leaseVars, controlVars
<1> HIDE DEF detached
<1>7. CASE record' = [record EXCEPT ![s] = detached] /\ UNCHANGED <<leases, controller>>
  <2>1. /\ leases' = [leases EXCEPT ![s] = leases[s]]
        /\ controller' = [controller EXCEPT ![s] = controller[s]]
    BY <1>7 DEF TypeOK
  <2> QED
    BY <1>0, <1>3, <1>5, <1>7, <2>1, OneCovers
<1>8. ASSUME NEW evicted,
             leases' = [leases EXCEPT ![s] = @ \ leases[s]],
             controller' = [controller EXCEPT ![s] = NoAttach],
             record' = [r \in Session |-> IF r \in evicted THEN Blank("collected")
                                          ELSE IF r = s THEN Frozen(detached) ELSE record[r]]
      PROVE  \A r \in Session : TablesCovered(r)
  <2>1. Frozen(detached).revision = detached.revision + 1
    BY <1>3 DEF Record
  <2> HIDE DEF Frozen
  <2>2. \A r \in Session : r \in evicted => TablesCovered(r)
    BY <1>8 DEF TablesCovered, Blank, Absent
  <2>3. s \notin evicted => TablesCovered(s)
    BY <1>5, <1>8, <2>1 DEF TablesCovered
  <2>4. \A r \in Session : r \notin evicted /\ r # s => TablesCovered(r)
    BY <1>0, <1>8, QuietCovers DEF TypeOK
  <2> QED
    BY <2>2, <2>3, <2>4
<1> QED
  BY <1>6, <1>7, <1>8

\* Every operation pays for what it changes with a revision.
LEMMA StoredSteps ==
    ASSUME IInv, AllCounted, [Next]_vars
    PROVE  \A s \in Session : TablesCovered(s)
<1> USE DEF IInv
<1>0. /\ TypeOK /\ record \in [Session -> Record] /\ leases \in [Session -> SUBSET AttachId]
      /\ \A s \in Session : /\ record[s] \in Record /\ leases[s] \in SUBSET AttachId
                            /\ record[s].revision \in Nat
      /\ \A s \in Session : leases = [leases EXCEPT ![s] = leases[s]]
      /\ \A s \in Session : controller = [controller EXCEPT ![s] = controller[s]]
  BY LimitAssumption DEF TypeOK, Record
<1>1. CASE Untouched
  BY <1>1, QuietCovers DEF Untouched
<1>2. CASE CollectRetained
  <2>1. ASSUME NEW s \in Session, IsLive(s)
        PROVE  TablesCovered(s)
    <3>1. s \in hosted /\ s \notin Retained /\ record[s].state \notin Absent
      BY <2>1 DEF Hosted, IsLive, Live, Absent, Retained, Terminal
    <3>2. /\ record'[s] = record[s] /\ leases'[s] = leases[s] /\ controller'[s] = controller[s]
      BY <1>2, <3>1 DEF CollectRetained
    <3> QED
      BY <3>2, QuietCovers
  <2> QED
    BY <2>1 DEF TablesCovered
<1>3. ASSUME NEW s \in Session, Create(s)
      PROVE  \A r \in Session : TablesCovered(r)
  <2>1. ~IsLive(s)
    BY <1>3 DEF Create, IsLive, Live
  <2>2. /\ record' = [record EXCEPT ![s] = Blank("created")]
        /\ leases' = [leases EXCEPT ![s] = leases[s]]
        /\ controller' = [controller EXCEPT ![s] = controller[s]]
    BY <1>0, <1>3 DEF Create, leaseVars
  <2> QED
    BY <1>0, <2>1, <2>2, OneCovers
<1>4. ASSUME NEW s \in Session, DiscardCreated(s)
      PROVE  \A r \in Session : TablesCovered(r)
  <2>1. Blank("collected").state \in Absent
    BY DEF Blank, Absent
  <2>2. /\ record' = [record EXCEPT ![s] = Blank("collected")]
        /\ leases' = [leases EXCEPT ![s] = leases[s]]
        /\ controller' = [controller EXCEPT ![s] = NoAttach]
    BY <1>0, <1>4 DEF DiscardCreated, leaseVars
  <2> QED
    BY <1>0, <2>1, <2>2, OneCovers
<1>5. ASSUME NEW rec \in Record
      PROVE  /\ Bump(rec).revision = rec.revision + 1 /\ Stopping(rec).revision = rec.revision + 1
             /\ Bound(rec).revision = rec.revision + 1 /\ Attach(rec).revision = rec.revision + 1
  BY DEF Bump, Stopping, Bound, Attach, Record
<1>6. ASSUME NEW s \in Session, Advanced(s)
      PROVE  \A r \in Session : TablesCovered(r)
  <2>1. PICK rec : record' = [record EXCEPT ![s] = rec] /\ rec.revision = record[s].revision + 1
    BY <1>0, <1>5, <1>6 DEF Advanced
  <2>2. rec.revision > record[s].revision /\ rec.revision >= record[s].revision
    BY <1>0, <2>1
  <2>3. /\ leases' = [leases EXCEPT ![s] = leases[s]]
        /\ controller' = [controller EXCEPT ![s] = controller[s]]
    BY <1>0, <1>6 DEF Advanced
  <2> QED
    BY <1>0, <2>1, <2>2, <2>3, OneCovers
<1>7. ASSUME NEW s \in Session, NEW D, NEW rec, Removed(s, D, rec)
      PROVE  /\ rec \in Record /\ rec.state = record[s].state
             /\ rec.generation = record[s].generation
             /\ rec.revision \in Nat /\ rec.revision >= record[s].revision
             /\ D # {} => rec.revision > record[s].revision \/ record[s].revision = MaxRevision
  <2>1. Counted(record[s], leases[s]) /\ Cardinality(D) \in Nat
    BY <1>0, <1>7, HandleSets DEF AllCounted, Removed
  <2> QED
    BY <1>0, <1>7, <2>1, DetachAdvances, DetachKeeps DEF Removed
<1>8. ASSUME NEW s \in Session, NEW D, NEW rec, Dropped(s, D, rec)
      PROVE  \A r \in Session : TablesCovered(r)
  <2> DEFINE c == IF controller[s] \in D THEN NoAttach ELSE controller[s]
             L == leases[s] \ D
  <2>1. /\ record' = [record EXCEPT ![s] = rec] /\ leases' = [leases EXCEPT ![s] = L]
        /\ controller' = [controller EXCEPT ![s] = c] /\ Removed(s, D, rec)
    BY <1>8 DEF Dropped, VacateController
  <2>2. D = {} => c = controller[s] /\ L = leases[s]
    OBVIOUS
  <2> HIDE DEF c, L
  <2> QED
    BY <1>0, <1>7, <2>1, <2>2, OneCovers
<1>9. ASSUME NEW s \in Session, NEW D, NEW rec,
             \/ \E a, as : Added(s, D, rec, a, as)
             \/ \E previous, target : Handed(s, D, rec, previous, target)
      PROVE  \A r \in Session : TablesCovered(r)
  <2>1. PICK new, L, c :
          /\ Removed(s, D, rec) /\ new \in {Attach(rec), Bump(rec)}
          /\ record' = [record EXCEPT ![s] = new] /\ leases' = [leases EXCEPT ![s] = L]
          /\ controller' = [controller EXCEPT ![s] = c]
    BY <1>9 DEF Added, Handed
  <2>2. new.revision > record[s].revision /\ new.revision >= record[s].revision
    BY <1>0, <1>5, <1>7, <2>1
  <2> QED
    BY <1>0, <2>1, <2>2, OneCovers
<1> QED
  BY <1>1, <1>2, <1>3, <1>4, <1>6, <1>8, <1>9, StepShapes, ExpireCovers, FinishCovers DEF Shape

-----------------------------------------------------------------------------
(* The lease table.                                                         *)

Observers(s) == {a \in leases[s] : role[a] = "observer"}

\* A sweep that leaves the session a revision took every due lease.
LEMMA SweepIsWhole ==
    ASSUME TypeOK, NEW s \in Session, NEW D \in SweepOutcomes(s),
           CanBump(Detach(record[s], Cardinality(D)))
    PROVE  D = Due(s)
<1>1. Due(s) \in SUBSET AttachId /\ D \in SUBSET Due(s)
  BY DEF TypeOK, Due, SweepOutcomes
<1>2. /\ IsFiniteSet(Due(s)) /\ Cardinality(Due(s)) \in Nat
      /\ Cardinality(D) \in Nat /\ Cardinality(D) <= Cardinality(Due(s))
  BY <1>1, HandleSets, FS_Subset
<1>3. record[s] \in Record /\ Cardinality(D) = Detachable(record[s], Cardinality(Due(s)))
  BY DEF TypeOK, SweepOutcomes
<1>4. /\ record[s].revision \in 0 .. MaxRevision /\ record[s].attachCount \in Nat
      /\ MaxRevision \in Nat
  BY <1>3, LimitAssumption DEF Record
<1>5. Cardinality(D) = Cardinality(Due(s))
  <2> SUFFICES ASSUME Cardinality(D) # Cardinality(Due(s)) PROVE FALSE
    OBVIOUS
  <2>1. /\ MaxRevision - record[s].revision < record[s].attachCount
        /\ Cardinality(D) = MaxRevision - record[s].revision
    BY <1>2, <1>3, <1>4 DEF Detachable, Min2
  <2>2. Min2(Detachable(record[s], Cardinality(D)), record[s].attachCount)
          = MaxRevision - record[s].revision
    BY <1>2, <1>4, <2>1 DEF Detachable, Min2
  <2>3. Detach(record[s], Cardinality(D)).revision
          = record[s].revision + (MaxRevision - record[s].revision)
    BY <1>3, <2>2 DEF Detach, Record
  <2> QED
    BY <1>4, <2>3 DEF CanBump
<1> QED
  BY <1>1, <1>2, <1>5, FS_Subset

\* A table keeps its bound when observers only leave, when one takes the place
\* of another, or when the operation counted them.
LEMMA TableStep ==
    ASSUME TypeOK, TypeOK', LeaseTableBounded,
           \A s \in Session :
               \/ Observers(s)' \subseteq Observers(s)
               \/ \E x \in Observers(s) : \E y : Observers(s)' \subseteq (Observers(s) \ {x}) \cup {y}
               \/ Cardinality(Observers(s)') <= MaxAttaches
    PROVE  LeaseTableBounded'
<1> SUFFICES ASSUME NEW s \in Session
             PROVE  Cardinality(Observers(s)') <= MaxAttaches
  BY DEF LeaseTableBounded, Observers
<1>1. /\ IsFiniteSet(Observers(s)) /\ Cardinality(Observers(s)) \in Nat
      /\ IsFiniteSet(Observers(s)') /\ Cardinality(Observers(s)') \in Nat
  <2>1. Observers(s) \in SUBSET AttachId /\ Observers(s)' \in SUBSET AttachId
    BY DEF TypeOK, Observers
  <2> HIDE DEF Observers
  <2> QED
    BY <2>1, HandleSets
<1>2. Cardinality(Observers(s)) <= MaxAttaches /\ MaxAttaches \in Nat
  BY LimitAssumption DEF LeaseTableBounded, Observers
<1> DEFINE old == Observers(s)
           new == Observers(s)'
<1> HIDE DEF old, new
<1>3. CASE new \subseteq old
  <2>1. Cardinality(new) <= Cardinality(old)
    BY <1>1, <1>3, FS_Subset DEF old
  <2> QED
    BY <1>1, <1>2, <2>1 DEF old, new
<1>4. ASSUME NEW x \in old, NEW y, new \subseteq (old \ {x}) \cup {y}
      PROVE  Cardinality(new) <= MaxAttaches
  <2> DEFINE rest == old \ {x}
  <2>1. IsFiniteSet(rest) /\ Cardinality(rest) = Cardinality(old) - 1
    BY <1>1, FS_RemoveElement DEF old
  <2>2. new \subseteq rest \cup {y}
    BY <1>4
  <2> HIDE DEF rest
  <2>3. /\ IsFiniteSet(rest \cup {y})
        /\ Cardinality(rest \cup {y}) = IF y \in rest THEN Cardinality(rest) ELSE Cardinality(rest) + 1
    BY <2>1, FS_AddElement
  <2>4. Cardinality(new) <= Cardinality(rest \cup {y})
    BY <2>2, <2>3, FS_Subset
  <2> QED
    BY <1>1, <1>2, <2>1, <2>3, <2>4 DEF old, new
<1> QED
  BY <1>3, <1>4 DEF old, new

\* No operation lets the observers of a table outgrow its bound.
LEMMA TableSteps ==
    ASSUME IInv, IInv', LeaseTableBounded, [Next]_vars
    PROVE  LeaseTableBounded'
<1> USE DEF IInv
<1>0. /\ role \in [AttachId -> {"observer", "controller"}]
      /\ leases \in [Session -> SUBSET AttachId]
  BY DEF TypeOK
<1>1. CASE Untouched \/ \E s \in Session : Create(s) \/ DiscardCreated(s) \/ Advanced(s)
  <2>1. UNCHANGED <<leases, role>>
    BY <1>1 DEF Untouched, Create, DiscardCreated, Advanced, leaseVars
  <2> QED
    BY <2>1 DEF LeaseTableBounded
<1>2. ASSUME NEW gone, role' = Without(role, gone, "observer"),
             \A s \in Session : leases'[s] \subseteq leases[s] \ gone
      PROVE  LeaseTableBounded'
  <2>1. \A s \in Session : Observers(s)' \subseteq Observers(s)
    BY <1>0, <1>2 DEF Observers, Without
  <2> QED
    BY <2>1, TableStep
<1>3. ASSUME NEW s \in Session, NEW D \in SUBSET leases[s],
             role' = Without(role, D, "observer"),
             leases' = [leases EXCEPT ![s] = @ \ D]
      PROVE  LeaseTableBounded'
  <2>1. \A r \in Session : leases'[r] \subseteq leases[r] \ D
    BY <1>0, <1>3, IdentifierAssumption DEF LeaseIndexAgrees
  <2> QED
    BY <1>2, <1>3, <2>1
<1>4. CASE ExpireDue
  <2>1. PICK swept \in [hosted -> SUBSET AttachId] :
          /\ \A s \in hosted : swept[s] \in SweepOutcomes(s)
          /\ leases' = [s \in Session |-> leases[s] \ IF s \in hosted THEN swept[s] ELSE {}]
          /\ role' = Without(role, UNION {swept[s] : s \in hosted}, "observer")
    BY <1>4 DEF ExpireDue
  <2>2. \A s \in hosted : swept[s] \subseteq leases[s]
    BY <2>1, HandleSets DEF TypeOK
  <2>3. \A s \in Session : leases'[s] \subseteq leases[s] \ UNION {swept[r] : r \in hosted}
    <3> SUFFICES ASSUME NEW s \in Session, NEW a \in leases'[s], NEW r \in hosted, a \in swept[r]
                 PROVE  FALSE
      BY <2>1
    <3>1. a \in leases[s] /\ a \in leases[r] /\ r \in Session /\ a \in AttachId
      BY <1>0, <2>1, <2>2 DEF TypeOK
    <3>2. r = s
      BY <3>1 DEF LeaseIndexAgrees
    <3> QED
      BY <2>1, <3>2
  <2> QED
    BY <1>2, <2>1, <2>3
<1>5. CASE CollectRetained
  <2> DEFINE kept == {s \in hosted \ {r \in Retained : now - record[r].terminalizedAt
                                                         >= TerminalRetention} :
                        record[s].state \notin Absent}
             gone == UNION {leases[s] : s \in hosted \ kept}
  <2>1. /\ leases' = [s \in Session |-> IF s \in kept THEN leases[s] ELSE {}]
        /\ role' = Without(role, gone, "observer")
    BY <1>5 DEF CollectRetained
  <2>2. kept \subseteq hosted
    OBVIOUS
  <2> HIDE DEF kept
  <2>3. \A s \in Session : leases'[s] \subseteq leases[s] \ gone
    <3> SUFFICES ASSUME NEW s \in Session, NEW a \in leases'[s], NEW r \in hosted \ kept, a \in leases[r]
                 PROVE  FALSE
      BY <2>1
    <3>1. s \in kept /\ a \in leases[s] /\ r \in Session /\ a \in AttachId
      BY <1>0, <2>1 DEF TypeOK
    <3> QED
      BY <3>1 DEF LeaseIndexAgrees
  <2> QED
    BY <1>2, <2>1, <2>3
<1>6. ASSUME NEW s \in Session, NEW D, NEW rec, Dropped(s, D, rec)
      PROVE  LeaseTableBounded'
  BY <1>3, <1>6 DEF Dropped, Removed
<1>7. ASSUME NEW s \in Session, Finished(s)
      PROVE  LeaseTableBounded'
  <2>1. \/ UNCHANGED <<leases, role>>
        \/ /\ role' = Without(role, leases[s], "observer")
           /\ leases' = [leases EXCEPT ![s] = @ \ leases[s]]
    BY <1>7 DEF Finished, FinishTerminal, DropLeases, leaseVars
  <2>2. CASE UNCHANGED <<leases, role>>
    BY <2>2 DEF LeaseTableBounded
  <2> QED
    BY <1>3, <2>1, <2>2
<1>8. ASSUME NEW s \in Session, NEW D \in SUBSET AttachId, NEW rec,
             NEW p, NEW target \in AttachId, Handed(s, D, rec, {p} \ {NoAttach}, target)
      PROVE  LeaseTableBounded'
  <2>1. \A r \in Session : r # s => \A b \in leases[r] : b \notin D /\ b # target /\ b \notin {p} \ {NoAttach}
    BY <1>0, <1>8 DEF Handed, Removed, LeaseIndexAgrees
  <2>2. /\ target \in Observers(s)
        /\ Observers(s)' \subseteq (Observers(s) \ {target}) \cup {p}
    BY <1>0, <1>8 DEF Observers, Handed, Removed, Without
  <2>3. ASSUME NEW r \in Session, r # s
        PROVE  \/ Observers(r)' \subseteq Observers(r)
    BY <1>0, <1>8, <2>1, <2>3 DEF Observers, Handed, Removed, Without
  <2> QED
    BY <2>2, <2>3, TableStep
<1>9. ASSUME NEW s \in Session, NEW D \in SUBSET AttachId, NEW rec, NEW a \in AttachId,
             NEW as \in {"observer", "controller"}, Added(s, D, rec, a, as)
      PROVE  LeaseTableBounded'
  <2>0. D \subseteq leases[s]
    BY <1>9 DEF Added, Removed
  <2>1. \A r \in Session : a \notin leases[r]
    BY <1>9, IdentifierAssumption DEF Added, Fresh, LeaseIndexAgrees
  <2>2. \A r \in Session : r # s => Observers(r)' \subseteq Observers(r)
    <3>1. \A r \in Session : r # s => \A b \in leases[r] : b \notin D
      BY <1>0, <2>0 DEF LeaseIndexAgrees
    <3> QED
      BY <1>0, <1>9, <2>1, <3>1 DEF Observers, Added, Without
  <2>3. CASE as = "controller"
    <3>1. Observers(s)' \subseteq Observers(s)
      BY <1>0, <1>9, <2>1, <2>3 DEF Observers, Added, Without
    <3> QED
      BY <2>2, <3>1, TableStep
  <2>4. CASE as = "observer"
    <3> DEFINE O == {b \in leases[s] : role[b] = "observer" /\ ~Expired(b)}
    <3>1. D = Due(s)
      BY <1>9, <2>4, SweepIsWhole DEF Added, Removed
    <3>2. Observers(s)' = O \cup {a}
      BY <1>0, <1>9, <2>1, <2>4, <3>1 DEF Observers, Added, Without, Due
    <3>3. O \in SUBSET AttachId
      BY <1>0
    <3>4. Cardinality(O) < MaxAttaches
      BY <1>9, <2>4 DEF Added
    <3> HIDE DEF O
    <3>5. IsFiniteSet(O) /\ Cardinality(O) \in Nat
      BY <3>3, HandleSets
    <3>6. Cardinality(O \cup {a}) <= MaxAttaches
      BY <3>4, <3>5, FS_AddElement, LimitAssumption
    <3> QED
      BY <2>2, <3>2, <3>6, TableStep
  <2> QED
    BY <2>3, <2>4
<1> QED
  BY <1>1, <1>4, <1>5, <1>6, <1>7, <1>8, <1>9, StepShapes DEF Shape

\* D-09: expired observers that no sweep has removed yet never push a table
\* beyond its bound: an attach that is admitted has swept them all.
THEOREM TablesAreBounded == Spec => []LeaseTableBounded
<1>1. Init => LeaseTableBounded
  BY FS_EmptySet, LimitAssumption DEF Init, LeaseTableBounded
<1>2. IInv /\ IInv' /\ LeaseTableBounded /\ [Next]_vars => LeaseTableBounded'
  BY TableSteps
<1> QED
  BY <1>1, <1>2, HostInvariant, PTL DEF Spec

-----------------------------------------------------------------------------
(* The registry.                                                            *)

\* Every set of sessions is finite.
LEMMA SessionSets == \A A \in SUBSET Session : IsFiniteSet(A) /\ Cardinality(A) \in Nat
BY FS_Subset, FS_CardinalityType, IdentifierAssumption

\* SessionRegistry::create admits a live record only below the cap, and no
\* other operation brings a record to life.
LEMMA LiveSteps ==
    ASSUME IInv, [Next]_vars, Cardinality(LiveRecords) <= MaxSessions
    PROVE  Cardinality(LiveRecords') <= MaxSessions
<1> USE DEF IInv
<1>0. /\ LiveRecords \in SUBSET Session /\ LiveRecords' \in SUBSET Session
      /\ MaxSessions \in Nat
  BY LimitAssumption DEF LiveRecords
<1>1. \A r \in Session : IsLive(r)' => IsLive(r) \/ Create(r)
  <2> SUFFICES ASSUME NEW r \in Session, IsLive(r)', ~IsLive(r)
               PROVE  Create(r)
    OBVIOUS
  <2>1. LifecycleStep(r) /\ Issue(r)
    BY LifecycleMoves DEF Forward
  <2>2. record[r].state \in {"unissued", "collected"} \cup Terminal
    BY DEF TypeOK, Record, IsLive, Absent
  <2> QED
    BY <2>1, <2>2 DEF LifecycleStep, Issue, IsLive, Live, Terminal
<1>2. ASSUME NEW s \in Session, Create(s)
      PROVE  Cardinality(LiveRecords') <= MaxSessions
  <2>1. Cardinality(LiveRecords) < MaxSessions
    BY <1>2 DEF Create
  <2>2. LiveRecords' = LiveRecords \cup {s}
    BY <1>2 DEF Create, LiveRecords, IsLive, Live, Blank, TypeOK
  <2> HIDE DEF LiveRecords
  <2>3. Cardinality(LiveRecords \cup {s}) <= Cardinality(LiveRecords) + 1
    BY <1>0, SessionSets, FS_AddElement
  <2> QED
    BY <1>0, <2>1, <2>2, <2>3, SessionSets
<1>3. CASE \A s \in Session : ~Create(s)
  <2>1. LiveRecords' \subseteq LiveRecords
    BY <1>1, <1>3 DEF LiveRecords
  <2> HIDE DEF LiveRecords
  <2>2. Cardinality(LiveRecords') <= Cardinality(LiveRecords)
    BY <1>0, <2>1, SessionSets, FS_Subset
  <2> QED
    BY <1>0, <2>2, SessionSets
<1> QED
  BY <1>2, <1>3

\* A sweep, a detach or a counter leaves the lifecycle state alone.
LEMMA StateKept ==
    ASSUME IInv, NEW s \in Session, NEW D, NEW rec, Removed(s, D, rec)
    PROVE  /\ rec \in Record /\ rec.state = record[s].state
           /\ CanBump(rec) => /\ Attach(rec).state = record[s].state
                              /\ Bump(rec).state = record[s].state
<1>1. record[s] \in Record /\ leases[s] \in SUBSET AttachId
  BY DEF IInv, TypeOK
<1>2. Cardinality(D) \in Nat
  BY <1>1, HandleSets DEF Removed
<1>3. rec \in Record /\ rec.state = record[s].state
  BY <1>1, <1>2, DetachKeeps DEF Removed
<1> QED
  BY <1>3, BumpKeeps

\* Only finish_terminal adds a record to the retained ones.
LEMMA RetainedSteps ==
    ASSUME IInv, [Next]_vars, \A s \in Session : ~Finished(s)
    PROVE  Retained' \subseteq Retained
<1> USE DEF IInv
<1>0. record \in [Session -> Record]
  BY DEF TypeOK
<1>1. ASSUME \A r \in Session : record'[r].state \in Terminal => record[r].state \in Terminal
      PROVE  Retained' \subseteq Retained
  BY <1>1 DEF Retained
<1>2. CASE Untouched
  BY <1>2 DEF Untouched, Retained
<1>3. CASE ExpireDue
  BY <1>1, <1>3, ExpireDueLifecycle DEF LiveOnly
<1>4. CASE CollectRetained
  BY <1>1, <1>4 DEF CollectRetained, Blank, Terminal
<1>5. ASSUME NEW s \in Session, Create(s) \/ DiscardCreated(s)
      PROVE  Retained' \subseteq Retained
  BY <1>0, <1>1, <1>5 DEF Create, DiscardCreated, Blank, Terminal
<1>6. ASSUME NEW s \in Session, Advanced(s)
      PROVE  Retained' \subseteq Retained
  <2>1. record[s] \in Record /\ CanBump(record[s])
    BY <1>0, <1>6 DEF Advanced
  <2>2. record'[s].state \in {record[s].state, "stopping", "running"}
    BY <1>0, <1>6, <2>1, BumpKeeps DEF Advanced
  <2>3. \A r \in Session : r # s => record'[r] = record[r]
    BY <1>0, <1>6 DEF Advanced
  <2> QED
    BY <1>1, <2>2, <2>3 DEF Terminal
<1>7. ASSUME NEW s \in Session, NEW D, NEW rec,
             \/ Dropped(s, D, rec)
             \/ \E a, as : Added(s, D, rec, a, as)
             \/ \E previous, target : Handed(s, D, rec, previous, target)
      PROVE  Retained' \subseteq Retained
  <2>1. Removed(s, D, rec)
    BY <1>7 DEF Dropped, Added, Handed
  <2>2. \/ record' = [record EXCEPT ![s] = rec]
        \/ CanBump(rec) /\ record' = [record EXCEPT ![s] = Attach(rec)]
        \/ CanBump(rec) /\ record' = [record EXCEPT ![s] = Bump(rec)]
    BY <1>7 DEF Dropped, Added, Handed
  <2>3. \A r \in Session : record'[r].state = record[r].state
    BY <1>0, <2>1, <2>2, StateKept
  <2> QED
    BY <1>1, <2>3
<1> QED
  BY <1>2, <1>3, <1>4, <1>5, <1>6, <1>7, StepShapes DEF Shape

\* SessionRegistry::enforce_retention_cap evicts what is too much.
LEMMA EvictionBounds ==
    ASSUME NEW R \in SUBSET Session, NEW at, NEW V \in CapEvictions(R, at)
    PROVE  Cardinality(R \ V) <= MaxRetained
<1>1. V \in SUBSET R
  BY DEF CapEvictions
<1>2. /\ IsFiniteSet(R) /\ IsFiniteSet(V) /\ Cardinality(R) \in Nat /\ Cardinality(V) \in Nat
      /\ MaxRetained \in Nat
  BY <1>1, SessionSets, FS_Subset, LimitAssumption
<1>3. R \cap V = V
  BY <1>1
<1>4. Cardinality(R \ V) = Cardinality(R) - Cardinality(V)
  BY <1>2, <1>3, FS_Difference
<1>5. Cardinality(V) = IF Cardinality(R) > MaxRetained THEN Cardinality(R) - MaxRetained ELSE 0
  BY DEF CapEvictions
<1> QED
  BY <1>2, <1>4, <1>5

\* SessionHost::finish_terminal retains one record more and evicts what is too much.
LEMMA FinishBounds ==
    ASSUME IInv, NEW s \in Session, Finished(s), Cardinality(Retained) <= MaxRetained
    PROVE  Cardinality(Retained') <= MaxRetained
<1> USE DEF IInv
<1>0. record \in [Session -> Record] /\ record[s] \in Record /\ leases[s] \in SUBSET AttachId
  BY DEF TypeOK
<1>1. PICK reason \in Reason, cleanup \in Cleanup : FinishTerminal(s, reason, cleanup)
  BY DEF Finished
<1> DEFINE detached == Detach(record[s], Cardinality(leases[s]))
           frozen == [detached EXCEPT !.state = TerminalState(reason), !.revision = @ + 1,
                                      !.reason = reason, !.cleanup = cleanup,
                                      !.terminalizedAt = now]
           retained == Retained \cup {s}
           at == [r \in retained |-> IF r = s THEN now ELSE record[r].terminalizedAt]
<1>2. detached.state = record[s].state
  BY <1>0, HandleSets, DetachKeeps
<1>3. \/ record' = [record EXCEPT ![s] = detached]
      \/ \E evicted \in CapEvictions(retained, at) :
           record' = [r \in Session |-> IF r \in evicted THEN Blank("collected")
                                        ELSE IF r = s THEN frozen ELSE record[r]]
  BY <1>1 DEF FinishTerminal
<1> HIDE DEF detached, frozen, at
<1>4. CASE record' = [record EXCEPT ![s] = detached]
  <2>1. Retained' = Retained
    BY <1>0, <1>2, <1>4 DEF Retained
  <2> QED
    BY <2>1
<1>5. ASSUME NEW evicted \in CapEvictions(retained, at),
             record' = [r \in Session |-> IF r \in evicted THEN Blank("collected")
                                          ELSE IF r = s THEN frozen ELSE record[r]]
      PROVE  Cardinality(Retained') <= MaxRetained
  <2>1. Blank("collected").state \notin Terminal
    BY DEF Blank, Terminal
  <2>2. Retained' \subseteq retained \ evicted /\ retained \in SUBSET Session
    BY <1>5, <2>1 DEF Retained
  <2> HIDE DEF retained
  <2>3. Cardinality(retained \ evicted) <= MaxRetained
    BY <2>2, EvictionBounds
  <2>4. IsFiniteSet(retained \ evicted)
    BY <2>2, SessionSets
  <2>5. /\ Cardinality(Retained') <= Cardinality(retained \ evicted)
        /\ Cardinality(Retained') \in Nat /\ Cardinality(retained \ evicted) \in Nat
    BY <2>2, <2>4, FS_Subset, SessionSets
  <2> QED
    BY <2>3, <2>5, LimitAssumption
<1> QED
  BY <1>3, <1>4, <1>5

\* Every operation keeps the registry inside its caps.
LEMMA RegistrySteps ==
    ASSUME IInv, IInv', [Next]_vars, RegistryBounded
    PROVE  RegistryBounded'
<1>1. Cardinality(LiveRecords') <= MaxSessions
  BY LiveSteps DEF RegistryBounded
<1>2. Cardinality(Retained') <= MaxRetained
  <2>1. CASE \E s \in Session : Finished(s)
    BY <2>1, FinishBounds DEF RegistryBounded
  <2>2. CASE \A s \in Session : ~Finished(s)
    <3>1. Retained' \subseteq Retained /\ Retained \in SUBSET Session /\ Retained' \in SUBSET Session
      BY <2>2, RetainedSteps DEF Retained
    <3> HIDE DEF Retained
    <3>2. Cardinality(Retained') <= Cardinality(Retained)
      BY <3>1, SessionSets, FS_Subset
    <3> QED
      BY <3>1, <3>2, SessionSets, LimitAssumption DEF RegistryBounded
  <2> QED
    BY <2>1, <2>2
<1>3. (LiveRecords \cup Retained \subseteq hosted)'
  BY DEF IInv, Hosted, LiveRecords, Retained, IsLive, Live, Terminal, Absent
<1> QED
  BY <1>1, <1>2, <1>3 DEF RegistryBounded

\* D-14: create, finish_terminal and the collections keep the live and the
\* retained records inside their caps, and no record is without host state.
THEOREM RegistryIsBounded == Spec => []RegistryBounded
<1>1. Init => RegistryBounded
  <2> SUFFICES ASSUME Init PROVE RegistryBounded
    OBVIOUS
  <2>1. LiveRecords = {} /\ Retained = {}
    BY DEF Init, LiveRecords, Retained, IsLive, Live, Terminal, Blank
  <2> QED
    BY <2>1, FS_EmptySet, LimitAssumption DEF RegistryBounded
<1>2. IInv /\ IInv' /\ RegistryBounded /\ [Next]_vars => RegistryBounded'
  BY RegistrySteps
<1> QED
  BY <1>1, <1>2, HostInvariant, PTL DEF Spec

-----------------------------------------------------------------------------
(* Expired leases.                                                          *)

\* A lease that stays in its table expires when it did, or is renewed.
RenewedStep(s) ==
    \A a \in leases[s] \cap leases'[s] : expiresAt'[a] \in {expiresAt[a], now + LeaseTtl}

InertStep(s) == ExpiredStep(s) /\ RenewedStep(s)

\* The leases D leave the table of s; of the others none that has expired
\* changes, and a fresh handle is in no table.
LEMMA InertWhen ==
    ASSUME IInv, NEW s \in Session, NEW D, D \subseteq leases[s],
           \A r \in Session : r # s => leases'[r] = leases[r],
           leases'[s] \cap D = {},
           \A a \in AttachId : Expired(a) /\ ~Fresh(a) /\ a \notin D =>
               expiresAt'[a] = expiresAt[a] /\ role'[a] = role[a],
           \A a \in AttachId : ~Fresh(a) /\ a \notin D =>
               expiresAt'[a] \in {expiresAt[a], now + LeaseTtl}
    PROVE  \A r \in Session : InertStep(r)
<1> SUFFICES ASSUME NEW r \in Session, NEW a \in leases[r] \cap leases'[r]
             PROVE  /\ expiresAt'[a] \in {expiresAt[a], now + LeaseTtl}
                    /\ Expired(a) => expiresAt'[a] = expiresAt[a] /\ role'[a] = role[a]
  BY DEF InertStep, ExpiredStep, RenewedStep
<1>1. a \in AttachId /\ leaseSessions[a] = r /\ ~Fresh(a)
  BY IdentifierAssumption DEF IInv, TypeOK, LeaseIndexAgrees, Fresh
<1>2. a \notin D
  <2>1. CASE r = s
    BY <2>1
  <2>2. CASE r # s
    BY <1>1, <2>2 DEF IInv, LeaseIndexAgrees
  <2> QED
    BY <2>1, <2>2
<1> QED
  BY <1>1, <1>2

\* Nothing is renewed and no role changes, except of leases that leave.
LEMMA InertSweep ==
    ASSUME TypeOK, NEW gone,
           \A s \in Session : leases'[s] \cap gone = {},
           role' = Without(role, gone, "observer"), expiresAt' = Without(expiresAt, gone, 0)
    PROVE  \A s \in Session : InertStep(s)
BY DEF InertStep, ExpiredStep, RenewedStep, Without, TypeOK

\* Every operation leaves expired leases as they are, or takes them away.
LEMMA InertSteps ==
    ASSUME IInv, [Next]_vars
    PROVE  \A s \in Session : InertStep(s)
<1> USE DEF IInv
<1>0. /\ TypeOK /\ role \in [AttachId -> {"observer", "controller"}]
      /\ expiresAt \in [AttachId -> Nat] /\ leases \in [Session -> SUBSET AttachId]
  BY DEF TypeOK
<1>1. CASE UNCHANGED <<leases, role, expiresAt>>
  BY <1>1 DEF InertStep, ExpiredStep, RenewedStep
<1>2. ASSUME NEW A, \A a \in A : a \in AttachId => ~Expired(a), expiresAt' = Renew(A),
             UNCHANGED <<leases, role>>
      PROVE  \A s \in Session : InertStep(s)
  BY <1>0, <1>2 DEF InertStep, ExpiredStep, RenewedStep, Renew
<1>3. ASSUME NEW s \in Session, NEW gone, gone \subseteq leases[s], DropLeases(s, gone)
      PROVE  \A r \in Session : InertStep(r)
  <2>1. leases'[s] \cap gone = {} /\ \A r \in Session : r # s => leases'[r] = leases[r]
    BY <1>0, <1>3 DEF DropLeases
  <2>2. \A a \in AttachId : a \notin gone => expiresAt'[a] = expiresAt[a] /\ role'[a] = role[a]
    BY <1>0, <1>3 DEF DropLeases, Without
  <2> QED
    BY <1>3, <2>1, <2>2, InertWhen
<1>4. ASSUME NEW s \in Session, NEW gone, gone \subseteq leases[s],
             NEW a \in AttachId, Fresh(a),
             leases' = [leases EXCEPT ![s] = (@ \ gone) \cup {a}],
             NEW as, role' = [Without(role, gone, "observer") EXCEPT ![a] = as],
             NEW at, expiresAt' = [Without(expiresAt, gone, 0) EXCEPT ![a] = at]
      PROVE  \A r \in Session : InertStep(r)
  <2>1. a \notin leases[s]
    BY <1>4, IdentifierAssumption DEF Fresh, LeaseIndexAgrees
  <2>2. leases'[s] \cap gone = {} /\ \A r \in Session : r # s => leases'[r] = leases[r]
    BY <1>0, <1>4, <2>1
  <2>3. \A b \in AttachId : ~Fresh(b) /\ b \notin gone =>
          expiresAt'[b] = expiresAt[b] /\ role'[b] = role[b]
    BY <1>0, <1>4 DEF Without
  <2> QED
    BY <1>4, <2>2, <2>3, InertWhen
<1>5. CASE UNCHANGED vars \/ Tick
  BY <1>1, <1>5 DEF vars, leaseVars, Tick
<1>6. CASE ExpireDue
  <2>1. PICK swept \in [hosted -> SUBSET AttachId] :
          /\ \A s \in hosted : swept[s] \in SweepOutcomes(s)
          /\ leases' = [s \in Session |-> leases[s] \ IF s \in hosted THEN swept[s] ELSE {}]
          /\ role' = Without(role, UNION {swept[s] : s \in hosted}, "observer")
          /\ expiresAt' = Without(expiresAt, UNION {swept[s] : s \in hosted}, 0)
    BY <1>6 DEF ExpireDue
  <2>2. \A s \in hosted : swept[s] \subseteq leases[s]
    BY <2>1, HandleSets DEF TypeOK
  <2>3. \A s \in Session : leases'[s] \cap UNION {swept[r] : r \in hosted} = {}
    <3> SUFFICES ASSUME NEW s \in Session, NEW a \in leases'[s], NEW r \in hosted, a \in swept[r]
                 PROVE  FALSE
      BY <2>1
    <3>1. a \in leases[s] /\ a \in leases[r] /\ r \in Session /\ a \in AttachId
      BY <1>0, <2>1, <2>2 DEF TypeOK
    <3>2. r = s
      BY <3>1 DEF LeaseIndexAgrees
    <3> QED
      BY <2>1, <3>2
  <2> QED
    BY <1>0, <2>1, <2>3, InertSweep
<1>7. CASE CollectRetained
  <2> DEFINE kept == {s \in hosted \ {r \in Retained : now - record[r].terminalizedAt
                                                         >= TerminalRetention} :
                        record[s].state \notin Absent}
             gone == UNION {leases[s] : s \in hosted \ kept}
  <2>1. /\ leases' = [s \in Session |-> IF s \in kept THEN leases[s] ELSE {}]
        /\ role' = Without(role, gone, "observer") /\ expiresAt' = Without(expiresAt, gone, 0)
    BY <1>7 DEF CollectRetained
  <2> HIDE DEF kept
  <2>2. \A s \in Session : leases'[s] \cap gone = {}
    <3> SUFFICES ASSUME NEW s \in Session, NEW a \in leases'[s], NEW r \in hosted \ kept, a \in leases[r]
                 PROVE  FALSE
      BY <2>1
    <3>1. s \in kept /\ a \in leases[s] /\ r \in Session /\ a \in AttachId
      BY <1>0, <2>1 DEF TypeOK
    <3> QED
      BY <3>1 DEF LeaseIndexAgrees
  <2> HIDE DEF gone
  <2> QED
    BY <1>0, <2>1, <2>2, InertSweep
<1>8. ASSUME NEW s \in Session, \/ Create(s) \/ DiscardCreated(s) \/ Bind(s)
                                \/ RecordGrantMutation(s) \/ EscalateAbort(s)
                                \/ \E generation \in {0, 1} : Kill(s, generation)
      PROVE  \A r \in Session : InertStep(r)
  BY <1>1, <1>8 DEF Create, DiscardCreated, Bind, RecordGrantMutation, EscalateAbort, Kill, leaseVars
<1>9. ASSUME NEW a \in AttachId, Heartbeat(a) \/ RecordResize(a)
      PROVE  \A r \in Session : InertStep(r)
  <2>1. expiresAt' = Renew({a}) /\ UNCHANGED <<leases, role>> /\ ~Expired(a)
    BY <1>9 DEF Heartbeat, RecordResize, Actionable
  <2> QED
    BY <1>2, <2>1
<1>10. ASSUME NEW s \in Session, NEW a \in AttachId, AttachObserver(s, a)
       PROVE  \A r \in Session : InertStep(r)
  <2>1. PICK swept \in SweepOutcomes(s) :
          \/ /\ leases' = [leases EXCEPT ![s] = (@ \ swept) \cup {a}]
             /\ role' = [Without(role, swept, "observer") EXCEPT ![a] = "observer"]
             /\ expiresAt' = [Without(expiresAt, swept, 0) EXCEPT ![a] = now + LeaseTtl]
          \/ DropLeases(s, swept)
    BY <1>10 DEF AttachObserver
  <2>2. swept \subseteq leases[s] /\ Fresh(a)
    BY <1>10, HandleSets DEF AttachObserver
  <2> QED
    BY <1>3, <1>4, <2>1, <2>2
<1>11. ASSUME NEW s \in Session, NEW a \in AttachId, NEW generation \in {0, 1},
              NEW p \in 1 .. MaxToken, ClaimController(s, generation, p, a)
       PROVE  \A r \in Session : InertStep(r)
  <2>1. ExpiredController(s) \subseteq leases[s] /\ Fresh(a)
    BY <1>11 DEF ExpiredController, ClaimController
  <2>2. \/ /\ leases' = [leases EXCEPT ![s] = (@ \ ExpiredController(s)) \cup {a}]
           /\ role' = [Without(role, ExpiredController(s), "observer") EXCEPT ![a] = "controller"]
           /\ expiresAt' = [Without(expiresAt, ExpiredController(s), 0) EXCEPT ![a] = now + LeaseTtl]
        \/ DropLeases(s, ExpiredController(s))
    BY <1>11 DEF ClaimController
  <2> QED
    BY <1>3, <1>4, <2>1, <2>2
<1>12. ASSUME NEW s \in Session, NEW auth \in Authority,
              ActsAsController(s, auth) \/ ActsAsVacantToken(s, auth)
       PROVE  auth.lease \in AttachId => ~Expired(auth.lease)
  BY <1>12, IdentifierAssumption DEF ActsAsController, ActsAsVacantToken, Actionable
<1>13. ASSUME NEW s \in Session, NEW a \in AttachId, NEW auth \in Authority, ConsumerDetach(s, a, auth)
       PROVE  \A r \in Session : InertStep(r)
  <2>1. /\ a \in leases[s] /\ (auth.lease \in AttachId => ~Expired(auth.lease))
        /\ leases' = [leases EXCEPT ![s] = @ \ {a}] /\ role' = Without(role, {a}, "observer")
        /\ expiresAt' = Without(Renew({auth.lease}), {a}, 0)
    BY <1>12, <1>13 DEF ConsumerDetach, Actionable
  <2>2. \A b \in AttachId : Expired(b) /\ ~Fresh(b) /\ b \notin {a} =>
          expiresAt'[b] = expiresAt[b] /\ role'[b] = role[b]
    BY <1>0, <2>1 DEF Without, Renew
  <2>5. \A b \in AttachId : b \notin {a} => expiresAt'[b] \in {expiresAt[b], now + LeaseTtl}
    BY <1>0, <2>1 DEF Without, Renew
  <2>3. leases'[s] \cap {a} = {} /\ \A r \in Session : r # s => leases'[r] = leases[r]
    BY <1>0, <2>1
  <2>4. {a} \subseteq leases[s]
    BY <2>1
  <2> QED
    BY <2>2, <2>3, <2>4, <2>5, InertWhen
<1>14. ASSUME NEW s \in Session, NEW a \in AttachId, OperatorDetach(s, a)
       PROVE  \A r \in Session : InertStep(r)
  <2>1. {a} \subseteq leases[s] /\ DropLeases(s, {a})
    BY <1>14 DEF OperatorDetach
  <2> QED
    BY <1>3, <2>1
<1>15. ASSUME NEW s \in Session, NEW a \in AttachId, NEW generation \in {0, 1},
              NEW auth \in Authority, TransferControl(s, generation, auth, a)
       PROVE  \A r \in Session : InertStep(r)
  <2> DEFINE vacated == IF auth.lease # NoAttach THEN {} ELSE ExpiredController(s)
             previous == IF auth.lease # NoAttach THEN {auth.lease} ELSE {}
  <2>1. /\ vacated \subseteq leases[s] /\ ~Expired(a)
        /\ \A b \in previous : b \in AttachId => ~Expired(b)
    BY <1>12, <1>15 DEF ExpiredController, TransferControl, AuthorizeControl
  <2>2. \/ DropLeases(s, vacated)
        \/ /\ leases' = [leases EXCEPT ![s] = @ \ vacated]
           /\ role' = [Without(role, previous \cup vacated, "observer") EXCEPT ![a] = "controller"]
           /\ expiresAt' = Without(Renew(previous \cup {a}), vacated, 0)
    BY <1>15 DEF TransferControl
  <2> HIDE DEF vacated, previous
  <2>3. CASE /\ leases' = [leases EXCEPT ![s] = @ \ vacated]
             /\ role' = [Without(role, previous \cup vacated, "observer") EXCEPT ![a] = "controller"]
             /\ expiresAt' = Without(Renew(previous \cup {a}), vacated, 0)
    <3>1. \A b \in AttachId : Expired(b) /\ ~Fresh(b) /\ b \notin vacated =>
            expiresAt'[b] = expiresAt[b] /\ role'[b] = role[b]
      BY <1>0, <2>1, <2>3 DEF Without, Renew
    <3>3. \A b \in AttachId : b \notin vacated => expiresAt'[b] \in {expiresAt[b], now + LeaseTtl}
      BY <1>0, <2>3 DEF Without, Renew
    <3>2. leases'[s] \cap vacated = {} /\ \A r \in Session : r # s => leases'[r] = leases[r]
      BY <1>0, <2>3
    <3> QED
      BY <2>1, <3>1, <3>2, <3>3, InertWhen
  <2> QED
    BY <1>3, <2>1, <2>2, <2>3
<1>16. ASSUME NEW s \in Session, NEW reason, NEW grace, NEW renewed,
              \A a \in renewed : a \in AttachId => ~Expired(a),
              CommitStop(s, reason, grace, renewed)
       PROVE  \A r \in Session : InertStep(r)
  BY <1>1, <1>2, <1>16 DEF CommitStop
<1>17. ASSUME NEW s \in Session, NEW generation \in {0, 1}, NEW r,
              \/ \E auth \in Authority : Abort(s, generation, auth, r)
              \/ OperatorStop(s, generation, r)
       PROVE  \A q \in Session : InertStep(q)
  <2>1. CASE OperatorStop(s, generation, r)
    BY <1>16, <2>1 DEF OperatorStop
  <2>2. ASSUME NEW auth \in Authority, Abort(s, generation, auth, r)
        PROVE  \A q \in Session : InertStep(q)
    <3>1. \A a \in {auth.lease} : a \in AttachId => ~Expired(a)
      BY <1>12, <2>2 DEF Abort, AuthorizeControl
    <3> QED
      BY <1>16, <2>2, <3>1 DEF Abort
  <2> QED
    BY <1>17, <2>1, <2>2
<1>18. ASSUME NEW s \in Session, NEW reason, NEW cleanup, FinishTerminal(s, reason, cleanup)
       PROVE  \A r \in Session : InertStep(r)
  <2>1. DropLeases(s, leases[s]) \/ UNCHANGED <<leases, role, expiresAt>>
    BY <1>18 DEF FinishTerminal, leaseVars
  <2> QED
    BY <1>1, <1>3, <2>1
<1>19. ASSUME NEW s \in Session, NEW cleanup \in Cleanup,
              \/ CompletePreBindCancel(s, cleanup)
              \/ \E o \in Observation : RecordTermination(s, o, cleanup)
       PROVE  \A r \in Session : InertStep(r)
  BY <1>18, <1>19 DEF CompletePreBindCancel, RecordTermination
<1> QED
  BY <1>5, <1>6, <1>7, <1>8, <1>9, <1>10, <1>11, <1>13, <1>14, <1>15, <1>17, <1>19 DEF Next

\* D-09: no request of any actor brings an expired lease back.
THEOREM ExpiredLeasesStayInert == Spec => ExpiredLeaseInert
<1>1. IInv /\ [Next]_vars => [\A s \in Session : ExpiredStep(s)]_vars
  BY InertSteps DEF InertStep
<1> QED
  BY <1>1, HostInvariant, PTL DEF Spec, ExpiredLeaseInert

-----------------------------------------------------------------------------
(* What a snapshot shows, and the revision.                                 *)

\* No lease is good for longer than one whole lifetime from now.
ExpiryBounded == \A a \in AttachId : expiresAt[a] <= now + LeaseTtl

\* An operation takes no time, and the clock does nothing else.
LEMMA ClockSteps ==
    ASSUME [Next]_vars
    PROVE  \/ now' = now
           \/ now' = now + 1 /\ UNCHANGED <<record, controlVars, leaseVars>>
<1>1. CASE UNCHANGED vars \/ Tick \/ ExpireDue \/ CollectRetained
  BY <1>1 DEF vars, Tick, ExpireDue, CollectRetained
<1>2. ASSUME NEW s \in Session, NEW reason, NEW cleanup, FinishTerminal(s, reason, cleanup)
      PROVE  now' = now
  BY <1>2 DEF FinishTerminal
<1>3. ASSUME NEW s \in Session, NEW reason, NEW grace, NEW renewed, CommitStop(s, reason, grace, renewed)
      PROVE  now' = now
  BY <1>3 DEF CommitStop
<1>4. ASSUME NEW s \in Session, \/ Create(s) \/ DiscardCreated(s) \/ Bind(s)
                                \/ RecordGrantMutation(s) \/ EscalateAbort(s)
      PROVE  now' = now
  BY <1>4 DEF Create, DiscardCreated, Bind, RecordGrantMutation, EscalateAbort
<1>5. ASSUME NEW s \in Session, NEW a \in AttachId,
             \/ AttachObserver(s, a) \/ OperatorDetach(s, a) \/ \E auth : ConsumerDetach(s, a, auth)
             \/ \E generation, p : ClaimController(s, generation, p, a)
             \/ \E generation, auth : TransferControl(s, generation, auth, a)
      PROVE  now' = now
  BY <1>5 DEF AttachObserver, OperatorDetach, ConsumerDetach, ClaimController, TransferControl
<1>6. ASSUME NEW s \in Session, NEW cleanup,
             \/ CompletePreBindCancel(s, cleanup)
             \/ \E o : RecordTermination(s, o, cleanup)
      PROVE  now' = now
  BY <1>2, <1>6 DEF CompletePreBindCancel, RecordTermination
<1>7. ASSUME NEW s \in Session, NEW generation,
             \/ \E auth, r : Abort(s, generation, auth, r)
             \/ \E r : OperatorStop(s, generation, r)
             \/ Kill(s, generation)
      PROVE  now' = now
  BY <1>3, <1>7 DEF Abort, OperatorStop, Kill
<1>8. ASSUME NEW a \in AttachId, Heartbeat(a) \/ RecordResize(a)
      PROVE  now' = now
  BY <1>8 DEF Heartbeat, RecordResize
<1>9. CASE Next /\ ~(Tick \/ ExpireDue \/ CollectRetained)
  BY <1>4, <1>5, <1>6, <1>7, <1>8, <1>9 DEF Next
<1> QED
  BY <1>1, <1>9

\* An expiry is left alone, cleared, or set to one lifetime from now.
ExpiryMoves == \A a \in AttachId : expiresAt'[a] \in {expiresAt[a], 0, now + LeaseTtl}

LEMMA ExpirySteps ==
    ASSUME IInv, [Next]_vars
    PROVE  ExpiryMoves
<1>0. expiresAt \in [AttachId -> Nat]
  BY DEF IInv, TypeOK
<1>1. CASE UNCHANGED expiresAt
  BY <1>1 DEF ExpiryMoves
<1>2. ASSUME NEW gone, expiresAt' = Without(expiresAt, gone, 0)
      PROVE  ExpiryMoves
  BY <1>0, <1>2 DEF ExpiryMoves, Without
<1>3. ASSUME NEW A, NEW gone, expiresAt' = Renew(A) \/ expiresAt' = Without(Renew(A), gone, 0)
      PROVE  ExpiryMoves
  BY <1>0, <1>3 DEF ExpiryMoves, Without, Renew
<1>4. ASSUME NEW gone, NEW a, expiresAt' = [Without(expiresAt, gone, 0) EXCEPT ![a] = now + LeaseTtl]
      PROVE  ExpiryMoves
  BY <1>0, <1>4 DEF ExpiryMoves, Without
<1>5. CASE UNCHANGED vars \/ Tick
  BY <1>1, <1>5 DEF vars, leaseVars, Tick
<1>6. CASE ExpireDue
  BY <1>2, <1>6 DEF ExpireDue
<1>7. CASE CollectRetained
  BY <1>2, <1>7 DEF CollectRetained
<1>8. ASSUME NEW s \in Session, NEW reason, NEW cleanup, FinishTerminal(s, reason, cleanup)
      PROVE  ExpiryMoves
  BY <1>1, <1>2, <1>8 DEF FinishTerminal, DropLeases, leaseVars
<1>9. ASSUME NEW s \in Session, NEW reason, NEW grace, NEW renewed, CommitStop(s, reason, grace, renewed)
      PROVE  ExpiryMoves
  BY <1>1, <1>3, <1>9 DEF CommitStop
<1>10. ASSUME NEW s \in Session,
              \/ Create(s) \/ DiscardCreated(s) \/ Bind(s) \/ RecordGrantMutation(s) \/ EscalateAbort(s)
              \/ \E generation \in {0, 1} : Kill(s, generation)
       PROVE  ExpiryMoves
  BY <1>1, <1>10 DEF Create, DiscardCreated, Bind, RecordGrantMutation, EscalateAbort, Kill, leaseVars
<1>11. ASSUME NEW a \in AttachId, Heartbeat(a) \/ RecordResize(a)
       PROVE  ExpiryMoves
  BY <1>3, <1>11 DEF Heartbeat, RecordResize
<1>12. ASSUME NEW s \in Session, NEW a \in AttachId,
              AttachObserver(s, a) \/ OperatorDetach(s, a) \/ \E auth : ConsumerDetach(s, a, auth)
       PROVE  ExpiryMoves
  BY <1>2, <1>3, <1>4, <1>12 DEF AttachObserver, OperatorDetach, ConsumerDetach, DropLeases
<1>13. ASSUME NEW s \in Session, NEW a \in AttachId, NEW generation,
              \/ \E p : ClaimController(s, generation, p, a)
              \/ \E auth : TransferControl(s, generation, auth, a)
       PROVE  ExpiryMoves
  BY <1>2, <1>3, <1>4, <1>13 DEF ClaimController, TransferControl, DropLeases
<1>14. CASE Next /\ ~(Tick \/ ExpireDue \/ CollectRetained)
  BY <1>8, <1>9, <1>10, <1>11, <1>12, <1>13, <1>14
     DEF Next, CompletePreBindCancel, RecordTermination, Abort, OperatorStop
<1> QED
  BY <1>5, <1>6, <1>7, <1>14

\* The bound on the expiries is kept.
LEMMA ExpiryStays ==
    ASSUME IInv, ExpiryBounded, [Next]_vars
    PROVE  ExpiryBounded'
<1> SUFFICES ASSUME NEW a \in AttachId PROVE expiresAt'[a] <= now' + LeaseTtl
  BY DEF ExpiryBounded
<1>1. /\ now \in Nat /\ LeaseTtl \in Nat /\ expiresAt[a] \in Nat
      /\ expiresAt[a] <= now + LeaseTtl
  BY LimitAssumption DEF IInv, TypeOK, ExpiryBounded
<1>2. now' = now \/ now' = now + 1
  BY ClockSteps
<1>3. expiresAt'[a] \in {expiresAt[a], 0, now + LeaseTtl}
  BY ExpirySteps DEF ExpiryMoves
<1> QED
  BY <1>1, <1>2, <1>3

\* In a step that takes no time no lease that stays in its table lapses or
\* comes back: a renewal never shortens a lifetime, an expired one is inert.
LEMMA ExpiryUnmoved ==
    ASSUME IInv, ExpiryBounded, [Next]_vars, now' = now,
           NEW s \in Session, NEW a \in leases[s], a \in leases'[s]
    PROVE  Expired(a)' <=> Expired(a)
<1>1. /\ a \in AttachId /\ now \in Nat /\ LeaseTtl \in Nat /\ expiresAt[a] \in Nat
      /\ expiresAt[a] <= now + LeaseTtl
  BY LimitAssumption DEF IInv, TypeOK, ExpiryBounded
<1>2. InertStep(s)
  BY InertSteps
<1>3. /\ Expired(a) => expiresAt'[a] = expiresAt[a]
      /\ expiresAt'[a] \in {expiresAt[a], now + LeaseTtl}
  BY <1>2 DEF InertStep, ExpiredStep, RenewedStep
<1> QED
  BY <1>1, <1>3 DEF Expired

\* What the tables pay for a snapshot shows; the rest is the clock's.
LEMMA VisibleSteps ==
    ASSUME IInv, AllCounted, ExpiryBounded, [Next]_vars
    PROVE  \A s \in Session : RevisionCovers(s)
<1> SUFFICES ASSUME NEW s \in Session, IsLive(s), record'[s].state \notin Absent
             PROVE  /\ record'[s].revision >= record[s].revision
                    /\ \/ Visible(s)' = Visible(s)
                       \/ record'[s].revision > record[s].revision
                       \/ record[s].revision = MaxRevision
                       \/ Lapsed(s)
  BY DEF RevisionCovers
<1>1. /\ record'[s].revision >= record[s].revision
      /\ \/ Stored(s)' = Stored(s)
         \/ record'[s].revision > record[s].revision
         \/ record[s].revision = MaxRevision
  BY StoredSteps DEF TablesCovered
<1>2. CASE now' = now /\ Stored(s)' = Stored(s)
  <2>1. /\ record'[s].state = record[s].state /\ record'[s].generation = record[s].generation
        /\ leases'[s] = leases[s] /\ controller'[s] = controller[s]
    BY <1>2 DEF Stored
  <2>2. \A a \in leases[s] : Expired(a)' <=> Expired(a)
    BY <1>2, <2>1, ExpiryUnmoved
  <2>3. LiveLeases(s)' = LiveLeases(s) /\ (HasLiveController(s)' <=> HasLiveController(s))
    BY <2>1, <2>2 DEF LiveLeases, HasLiveController
  <2> QED
    BY <1>1, <2>1, <2>3 DEF Visible
<1>3. CASE now' # now
  <2>1. now' = now + 1 /\ UNCHANGED <<record, controlVars, leaseVars>>
    BY <1>3, ClockSteps
  <2>2. /\ now \in Nat /\ \A a \in leases[s] : expiresAt[a] \in Nat
    BY DEF IInv, TypeOK
  <2>3. \A a \in leases[s] : Expired(a) => Expired(a)'
    BY <2>1, <2>2 DEF leaseVars, Expired
  <2>4. LiveLeases(s)' \subseteq LiveLeases(s)
    BY <2>1, <2>3 DEF leaseVars, LiveLeases
  <2> QED
    BY <1>1, <2>1, <2>2, <2>4 DEF controlVars, leaseVars, Lapsed
<1> QED
  BY <1>1, <1>2, <1>3

\* D-03: a client that compares revisions and watches the clock misses no
\* change of a live session.
THEOREM RevisionsCoverChanges == Spec => RevisionCoversVisible
<1>1. Init => AllCounted /\ ExpiryBounded
  BY LimitAssumption DEF Init, AllCounted, IsLive, Live, Blank, ExpiryBounded
<1>2. IInv /\ AllCounted /\ ExpiryBounded /\ [Next]_vars => AllCounted' /\ ExpiryBounded'
  BY CountedSteps, ExpiryStays
<1>3. IInv /\ AllCounted /\ ExpiryBounded /\ [Next]_vars => [\A s \in Session : RevisionCovers(s)]_vars
  BY VisibleSteps
<1> QED
  BY <1>1, <1>2, <1>3, HostInvariant, PTL DEF Spec, RevisionCoversVisible
==============================================================================
