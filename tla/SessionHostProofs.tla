--------------------------- MODULE SessionHostProofs ---------------------------
(* Proofs about SessionHost: its inductive invariant and the properties of the *)
(* control relation and of the stop pipeline, for every value of the limits.   *)
EXTENDS SessionHost, FiniteSetTheorems, TLAPS

-----------------------------------------------------------------------------
(* Registry arithmetic.                                                     *)

\* A record that is detached n times keeps its type and everything but its
\* counters (SessionRegistry::detach).
LEMMA DetachKeeps ==
    ASSUME NEW rec \in Record, NEW n \in Nat
    PROVE  /\ Detach(rec, n) \in Record
           /\ Detach(rec, n).state = rec.state
           /\ Detach(rec, n).generation = rec.generation
           /\ Detach(rec, n).reason = rec.reason
           /\ Detach(rec, n).cleanup = rec.cleanup
           /\ Detach(rec, n).terminalizedAt = rec.terminalizedAt
<1> DEFINE done == Min2(Detachable(rec, n), rec.attachCount)
<1>1. rec.revision \in 0 .. MaxRevision /\ rec.attachCount \in Nat /\ MaxRevision \in Nat
  BY LimitAssumption DEF Record
<1>2. done \in Nat /\ done <= rec.attachCount /\ done <= MaxRevision - rec.revision
  BY <1>1 DEF Min2, Detachable
<1>3. Detach(rec, n) = [rec EXCEPT !.revision = @ + done, !.attachCount = @ - done]
  BY DEF Detach
<1> HIDE DEF done
<1>4. rec.revision + done \in 0 .. MaxRevision /\ rec.attachCount - done \in Nat
  BY <1>1, <1>2
<1> QED
  BY <1>3, <1>4 DEF Record

\* An attach or a plain bump keeps the lifecycle fields (SessionRegistry::attach,
\* note_visible_mutation, record_lease_mutation).
LEMMA BumpKeeps ==
    ASSUME NEW rec \in Record, CanBump(rec)
    PROVE  /\ Attach(rec) \in Record
           /\ Attach(rec).state = rec.state
           /\ Attach(rec).generation = rec.generation
           /\ Bump(rec) \in Record
           /\ Bump(rec).state = rec.state
           /\ Bump(rec).generation = rec.generation
           /\ Stopping(rec) \in Record
           /\ Stopping(rec).state = "stopping"
           /\ rec.generation = 0 => Bound(rec) \in Record
           /\ Bound(rec).state = "running"
<1>1. rec.revision + 1 \in 0 .. MaxRevision
  BY LimitAssumption DEF Record, CanBump
<1>2. rec.attachCount + 1 \in Nat
  BY DEF Record
<1>3. Stopping(rec) \in Record /\ Stopping(rec).state = "stopping"
  BY <1>1 DEF Record, Stopping, Live
<1>4. ASSUME rec.generation = 0
      PROVE  Bound(rec) \in Record
  <2>1. rec.generation + 1 \in {0, 1}
    BY <1>4
  <2> QED
    BY <1>1, <2>1 DEF Record, Bound, Live
<1>5. Bound(rec).state = "running"
  BY DEF Record, Bound
<1> QED
  BY <1>1, <1>2, <1>3, <1>4, <1>5 DEF Record, Attach, Bump

\* Every set of handles is finite, and a sweep removes only due leases.
LEMMA HandleSets ==
    /\ \A A \in SUBSET AttachId : IsFiniteSet(A) /\ Cardinality(A) \in Nat
    /\ TypeOK => \A s \in Session : \A D \in SweepOutcomes(s) :
                   D \subseteq leases[s] /\ D \subseteq AttachId /\ Cardinality(D) \in Nat
<1>1. ASSUME NEW A \in SUBSET AttachId
      PROVE  IsFiniteSet(A) /\ Cardinality(A) \in Nat
  <2>1. IsFiniteSet(A)
    BY FS_Subset, IdentifierAssumption
  <2> QED
    BY <2>1, FS_CardinalityType
<1>2. ASSUME TypeOK, NEW s \in Session, NEW D \in SweepOutcomes(s)
      PROVE  D \subseteq leases[s] /\ D \subseteq AttachId /\ Cardinality(D) \in Nat
  <2>1. D \subseteq leases[s] /\ leases[s] \in SUBSET AttachId
    BY <1>2 DEF SweepOutcomes, Due, TypeOK
  <2> QED
    BY <2>1, <1>1
<1> QED
  BY <1>1, <1>2

-----------------------------------------------------------------------------
(* Initialisation and the steps that touch no lease.                        *)

\* Before the first request nothing is recorded, attached or controlled.
LEMMA InitIInv == Init => IInv
<1> SUFFICES ASSUME Init PROVE IInv
  OBVIOUS
<1>1. Blank("unissued") \in Record
  BY LimitAssumption DEF Blank, Record, Absent, Reason, Cleanup
<1>2. TypeOK
  BY <1>1, LimitAssumption DEF Init, TypeOK, NoStop, NoCancel, Retired
<1> QED
  BY <1>2, IdentifierAssumption
     DEF Init, IInv, LeaseIndexAgrees, ControlRelation, RevokedControlStaysVacant, TerminalSealed,
         StopPipelineConsistent, CreatedUnbound, StopComplete, Hosted, Blank, NoStop, NoCancel,
         IsLive, Live, Absent

\* SessionRegistry::create with the lease state SessionHost::create adds.
LEMMA CreateStep ==
    ASSUME IInv, NEW s \in Session, Create(s)
    PROVE  IInv'
<1> USE DEF IInv
<1>1. Blank("created") \in Record
  BY LimitAssumption DEF Blank, Record, Live, Reason, Cleanup
<1>2. TypeOK'
  BY <1>1 DEF Create, TypeOK, stopVars, leaseVars
<1>3. LeaseIndexAgrees' /\ ControlRelation' /\ StopComplete'
  BY DEF Create, LeaseIndexAgrees, ControlRelation, StopComplete, stopVars, leaseVars
<1>4. controller[s] = NoAttach /\ stop[s] = NoStop /\ cancel[s] = NoCancel
  BY DEF Create, TerminalSealed, IsLive, Live
<1>5. RevokedControlStaysVacant' /\ TerminalSealed'
  BY <1>4 DEF Create, RevokedControlStaysVacant, TerminalSealed, IsLive, Live, Blank, TypeOK, Retired,
              stopVars, leaseVars
<1>6. StopPipelineConsistent' /\ CreatedUnbound' /\ Hosted'
  BY <1>4 DEF Create, StopPipelineConsistent, CreatedUnbound, Hosted, Blank, TypeOK, stopVars,
              Absent, NoStop, NoCancel
<1> QED
  BY <1>2, <1>3, <1>5, <1>6

\* SessionHost::discard_created.
LEMMA DiscardCreatedStep ==
    ASSUME IInv, NEW s \in Session, DiscardCreated(s)
    PROVE  IInv'
<1> USE DEF IInv
<1>1. Blank("collected") \in Record
  BY LimitAssumption DEF Blank, Record, Absent, Reason, Cleanup
<1>2. TypeOK'
  BY <1>1 DEF DiscardCreated, TypeOK, leaseVars, Retired, NoCancel
<1>3. LeaseIndexAgrees' /\ StopComplete'
  BY DEF DiscardCreated, LeaseIndexAgrees, StopComplete, leaseVars
<1>4. ControlRelation' /\ RevokedControlStaysVacant'
  BY IdentifierAssumption
     DEF DiscardCreated, ControlRelation, RevokedControlStaysVacant, leaseVars, TypeOK
<1>5. stop[s] = NoStop
  BY DEF DiscardCreated, StopPipelineConsistent, StopComplete
<1>6. TerminalSealed'
  BY <1>5 DEF DiscardCreated, TerminalSealed, IsLive, leaseVars, TypeOK
<1>7. StopPipelineConsistent' /\ CreatedUnbound' /\ Hosted'
  BY <1>5 DEF DiscardCreated, StopPipelineConsistent, CreatedUnbound, Hosted, Blank, TypeOK, Absent,
              NoStop, NoCancel
<1> QED
  BY <1>2, <1>3, <1>4, <1>6, <1>7

\* SessionRegistry::bind.
LEMMA BindStep ==
    ASSUME IInv, NEW s \in Session, Bind(s)
    PROVE  IInv'
<1> USE DEF IInv
<1>1. record[s] \in Record /\ record[s].generation = 0 /\ CanBump(record[s])
  BY DEF Bind, TypeOK, CreatedUnbound
<1>2. Bound(record[s]) \in Record /\ Bound(record[s]).state = "running"
  BY <1>1, BumpKeeps
<1>3. TypeOK'
  BY <1>2 DEF Bind, TypeOK, controlVars, stopVars, leaseVars
<1>4. LeaseIndexAgrees' /\ ControlRelation' /\ RevokedControlStaysVacant' /\ StopComplete'
  BY DEF Bind, LeaseIndexAgrees, ControlRelation, RevokedControlStaysVacant, StopComplete,
         controlVars, stopVars, leaseVars
<1>5. \A r \in Session : record'[r].state = IF r = s THEN "running" ELSE record[r].state
  BY <1>2 DEF Bind, TypeOK
<1>6. TerminalSealed' /\ StopPipelineConsistent'
  BY <1>5 DEF Bind, TerminalSealed, StopPipelineConsistent, IsLive, Live, controlVars, stopVars,
              leaseVars
<1>7. CreatedUnbound' /\ Hosted'
  BY <1>5 DEF Bind, CreatedUnbound, Hosted, Absent, TypeOK
<1> QED
  BY <1>3, <1>4, <1>6, <1>7

-----------------------------------------------------------------------------
(* Steps inside the lifecycle state: only counters, leases or control move. *)

SameLifecycle ==
    /\ \A s \in Session : /\ record'[s].state = record[s].state
                          /\ record'[s].generation = record[s].generation
    /\ UNCHANGED <<hosted, stop, cancel>>

\* A session that is not live keeps its lease state.
SealedUntouched ==
    \A s \in Session : ~IsLive(s) =>
        /\ leases'[s] = leases[s]
        /\ controller'[s] = controller[s]
        /\ token'[s] = token[s]

\* A step that keeps every lifecycle state and touches leases and control of
\* live sessions only has to re-establish the lease conjuncts.
LEMMA LeaseStep ==
    ASSUME IInv, SameLifecycle, SealedUntouched, TypeOK',
           LeaseIndexAgrees', ControlRelation', RevokedControlStaysVacant'
    PROVE  IInv'
<1> USE DEF IInv
<1>1. TerminalSealed'
  BY DEF TerminalSealed, SameLifecycle, SealedUntouched, IsLive
<1>2. StopPipelineConsistent' /\ CreatedUnbound' /\ StopComplete' /\ Hosted'
  BY DEF StopPipelineConsistent, CreatedUnbound, StopComplete, Hosted, SameLifecycle
<1> QED
  BY <1>1, <1>2

\* SessionHost::renew_lease writes an instant.
LEMMA RenewType ==
    ASSUME TypeOK, NEW A
    PROVE  Renew(A) \in [AttachId -> Nat]
BY LimitAssumption DEF Renew, TypeOK

\* SessionHost::heartbeat.
LEMMA HeartbeatStep ==
    ASSUME IInv, NEW a \in AttachId, Heartbeat(a)
    PROVE  IInv'
<1> USE DEF IInv
<1>1. TypeOK'
  BY RenewType DEF Heartbeat, TypeOK, controlVars, stopVars
<1>2. SameLifecycle /\ SealedUntouched
  BY DEF Heartbeat, SameLifecycle, SealedUntouched, controlVars, stopVars
<1>3. LeaseIndexAgrees' /\ ControlRelation' /\ RevokedControlStaysVacant'
  BY DEF Heartbeat, LeaseIndexAgrees, ControlRelation, RevokedControlStaysVacant, controlVars
<1> QED
  BY <1>1, <1>2, <1>3, LeaseStep

\* SessionHost::record_grant_mutation, and the record half of record_resize.
LEMMA BumpRecord ==
    ASSUME TypeOK, NEW s \in Session, CanBump(record[s]),
           record' = [record EXCEPT ![s] = Bump(@)]
    PROVE  /\ record' \in [Session -> Record]
           /\ \A r \in Session : /\ record'[r].state = record[r].state
                                 /\ record'[r].generation = record[r].generation
<1>1. /\ Bump(record[s]) \in Record
      /\ Bump(record[s]).state = record[s].state
      /\ Bump(record[s]).generation = record[s].generation
  BY BumpKeeps DEF TypeOK
<1> QED
  BY <1>1 DEF TypeOK

LEMMA RecordGrantMutationStep ==
    ASSUME IInv, NEW s \in Session, RecordGrantMutation(s)
    PROVE  IInv'
<1> USE DEF IInv
<1>1. /\ record' \in [Session -> Record]
      /\ \A r \in Session : /\ record'[r].state = record[r].state
                            /\ record'[r].generation = record[r].generation
  BY BumpRecord DEF RecordGrantMutation
<1>2. TypeOK'
  BY <1>1 DEF RecordGrantMutation, TypeOK, controlVars, stopVars, leaseVars
<1>3. SameLifecycle /\ SealedUntouched
  BY <1>1 DEF RecordGrantMutation, SameLifecycle, SealedUntouched, controlVars, stopVars, leaseVars
<1>4. LeaseIndexAgrees' /\ ControlRelation' /\ RevokedControlStaysVacant'
  BY DEF RecordGrantMutation, LeaseIndexAgrees, ControlRelation, RevokedControlStaysVacant,
         controlVars, leaseVars
<1> QED
  BY <1>2, <1>3, <1>4, LeaseStep

\* SessionHost::record_resize.
LEMMA RecordResizeStep ==
    ASSUME IInv, NEW a \in AttachId, RecordResize(a)
    PROVE  IInv'
<1> USE DEF IInv
<1> DEFINE s == leaseSessions[a]
<1>0. s \in Session
  BY DEF RecordResize, TypeOK
<1>1. /\ record' \in [Session -> Record]
      /\ \A r \in Session : /\ record'[r].state = record[r].state
                            /\ record'[r].generation = record[r].generation
  <2>1. CanBump(record[s]) /\ record' = [record EXCEPT ![s] = Bump(@)]
    BY DEF RecordResize
  <2> QED
    BY <1>0, <2>1, BumpRecord
<1>2. TypeOK'
  BY <1>1, RenewType DEF RecordResize, TypeOK, controlVars, stopVars
<1>3. SameLifecycle /\ SealedUntouched
  BY <1>1 DEF RecordResize, SameLifecycle, SealedUntouched, controlVars, stopVars
<1>4. LeaseIndexAgrees' /\ ControlRelation' /\ RevokedControlStaysVacant'
  BY DEF RecordResize, LeaseIndexAgrees, ControlRelation, RevokedControlStaysVacant, controlVars
<1> QED
  BY <1>2, <1>3, <1>4, LeaseStep

-----------------------------------------------------------------------------
(* Steps that remove leases.                                                *)

\* The record half of a detach.
LEMMA DetachRecord ==
    ASSUME TypeOK, NEW s \in Session, NEW n \in Nat,
           record' = [record EXCEPT ![s] = Detach(record[s], n)]
    PROVE  /\ record' \in [Session -> Record]
           /\ \A r \in Session : /\ record'[r].state = record[r].state
                                 /\ record'[r].generation = record[r].generation
<1>1. /\ Detach(record[s], n) \in Record
      /\ Detach(record[s], n).state = record[s].state
      /\ Detach(record[s], n).generation = record[s].generation
  BY DetachKeeps DEF TypeOK
<1> QED
  BY <1>1 DEF TypeOK

\* SessionHost::remove_lease over a set of leases keeps the lease tables, the
\* handle index and the control relation consistent.
LEMMA RemovalKeeps ==
    ASSUME IInv, NEW s \in Session, NEW A \in SUBSET AttachId, A \subseteq leases[s],
           leases' = [leases EXCEPT ![s] = @ \ A],
           leaseSessions' = Without(leaseSessions, A, NoSession),
           role' = Without(role, A, "observer"),
           VacateController(s, A)
    PROVE  /\ leases' \in [Session -> SUBSET AttachId]
           /\ leaseSessions' \in [AttachId -> Session \cup {NoSession}]
           /\ role' \in [AttachId -> {"observer", "controller"}]
           /\ controller' \in [Session -> AttachId \cup {NoAttach}]
           /\ LeaseIndexAgrees'
           /\ ControlRelation'
           /\ \A r \in Session : controller'[r] \in {controller[r], NoAttach}
<1> USE DEF IInv, TypeOK, VacateController, Without
<1>1. /\ leases' \in [Session -> SUBSET AttachId]
      /\ leaseSessions' \in [AttachId -> Session \cup {NoSession}]
      /\ role' \in [AttachId -> {"observer", "controller"}]
      /\ controller' \in [Session -> AttachId \cup {NoAttach}]
  OBVIOUS
<1>2. LeaseIndexAgrees'
  BY IdentifierAssumption DEF LeaseIndexAgrees
<1>3. ASSUME NEW r \in Session, NEW a \in AttachId
      PROVE  controller'[r] = a <=> a \in leases'[r] /\ role'[a] = "controller"
  <2>1. CASE a \in A
    <3>1. a \notin leases'[r]
      BY <2>1, <1>2 DEF LeaseIndexAgrees
    <3>2. controller'[r] # a
      BY <2>1, IdentifierAssumption DEF ControlRelation, LeaseIndexAgrees
    <3> QED
      BY <3>1, <3>2
  <2>2. CASE a \notin A
    BY <2>2, IdentifierAssumption DEF ControlRelation
  <2> QED
    BY <2>1, <2>2
<1>4. ControlRelation'
  BY <1>3 DEF ControlRelation
<1> QED
  BY <1>1, <1>2, <1>4

\* SessionHost::detach by a consumer.
LEMMA ConsumerDetachStep ==
    ASSUME IInv, NEW s \in Session, NEW target \in AttachId, NEW auth \in Authority,
           ConsumerDetach(s, target, auth)
    PROVE  IInv'
<1> USE DEF IInv
<1>1. {target} \subseteq leases[s]
  BY DEF ConsumerDetach, Actionable
<1>2. /\ record' \in [Session -> Record]
      /\ \A r \in Session : /\ record'[r].state = record[r].state
                            /\ record'[r].generation = record[r].generation
  BY DetachRecord DEF ConsumerDetach
<1>3. /\ leases' \in [Session -> SUBSET AttachId]
      /\ leaseSessions' \in [AttachId -> Session \cup {NoSession}]
      /\ role' \in [AttachId -> {"observer", "controller"}]
      /\ controller' \in [Session -> AttachId \cup {NoAttach}]
      /\ LeaseIndexAgrees'
      /\ ControlRelation'
      /\ \A r \in Session : controller'[r] \in {controller[r], NoAttach}
  BY <1>1, RemovalKeeps DEF ConsumerDetach
<1>4. expiresAt' \in [AttachId -> Nat]
  BY RenewType DEF ConsumerDetach, Without
<1>5. TypeOK'
  BY <1>2, <1>3, <1>4 DEF ConsumerDetach, TypeOK, stopVars
<1>6. SameLifecycle /\ SealedUntouched
  BY <1>2 DEF ConsumerDetach, SameLifecycle, SealedUntouched, VacateController, stopVars, TypeOK
<1>7. RevokedControlStaysVacant'
  BY <1>3 DEF ConsumerDetach, RevokedControlStaysVacant
<1> QED
  BY <1>3, <1>5, <1>6, <1>7, LeaseStep

\* SessionHost::detach by an operator, which retires the token with the
\* controller.
LEMMA OperatorDetachStep ==
    ASSUME IInv, NEW s \in Session, NEW target \in AttachId, OperatorDetach(s, target)
    PROVE  IInv'
<1> USE DEF IInv
<1>1. {target} \subseteq leases[s]
  BY DEF OperatorDetach
<1>2. /\ record' \in [Session -> Record]
      /\ \A r \in Session : /\ record'[r].state = record[r].state
                            /\ record'[r].generation = record[r].generation
  BY DetachRecord DEF OperatorDetach
<1>3. /\ leases' \in [Session -> SUBSET AttachId]
      /\ leaseSessions' \in [AttachId -> Session \cup {NoSession}]
      /\ role' \in [AttachId -> {"observer", "controller"}]
      /\ controller' \in [Session -> AttachId \cup {NoAttach}]
      /\ LeaseIndexAgrees'
      /\ ControlRelation'
      /\ \A r \in Session : controller'[r] \in {controller[r], NoAttach}
  BY <1>1, RemovalKeeps DEF OperatorDetach, DropLeases
<1>4. TypeOK'
  BY <1>2, <1>3 DEF OperatorDetach, DropLeases, Without, TypeOK, Retired, stopVars
<1>5. SameLifecycle /\ SealedUntouched
  BY <1>2 DEF OperatorDetach, DropLeases, SameLifecycle, SealedUntouched, VacateController,
              stopVars, TypeOK
<1>6. RevokedControlStaysVacant'
  BY <1>3 DEF OperatorDetach, VacateController, RevokedControlStaysVacant, TypeOK
<1> QED
  BY <1>3, <1>4, <1>5, <1>6, LeaseStep

\* An attach or claim adds the fresh handle a to session s after removing A.
LEMMA AdditionKeeps ==
    ASSUME IInv, NEW s \in Session, NEW A \in SUBSET AttachId, A \subseteq leases[s],
           NEW a \in AttachId, Fresh(a), NEW new \in {"observer", "controller"},
           leases' = [leases EXCEPT ![s] = (@ \ A) \cup {a}],
           leaseSessions' = [Without(leaseSessions, A, NoSession) EXCEPT ![a] = s],
           role' = [Without(role, A, "observer") EXCEPT ![a] = new],
           new = "observer" => VacateController(s, A),
           new = "controller" =>
               /\ controller[s] \in A \cup {NoAttach}
               /\ controller' = [controller EXCEPT ![s] = a]
    PROVE  /\ leases' \in [Session -> SUBSET AttachId]
           /\ leaseSessions' \in [AttachId -> Session \cup {NoSession}]
           /\ role' \in [AttachId -> {"observer", "controller"}]
           /\ controller' \in [Session -> AttachId \cup {NoAttach}]
           /\ LeaseIndexAgrees'
           /\ ControlRelation'
           /\ new = "observer" => \A r \in Session : controller'[r] \in {controller[r], NoAttach}
<1> USE DEF IInv, TypeOK, Without
<1>0. \A r \in Session : a \notin leases[r] /\ controller[r] # a
  BY IdentifierAssumption DEF Fresh, LeaseIndexAgrees, ControlRelation
<1>1. /\ leases' \in [Session -> SUBSET AttachId]
      /\ leaseSessions' \in [AttachId -> Session \cup {NoSession}]
      /\ role' \in [AttachId -> {"observer", "controller"}]
      /\ controller' \in [Session -> AttachId \cup {NoAttach}]
  BY DEF VacateController
<1>2. LeaseIndexAgrees'
  BY <1>0, IdentifierAssumption DEF LeaseIndexAgrees
<1>3. ASSUME NEW r \in Session, NEW b \in AttachId
      PROVE  controller'[r] = b <=> b \in leases'[r] /\ role'[b] = "controller"
  <2>1. CASE b = a
    BY <2>1, <1>0, <1>2, IdentifierAssumption DEF LeaseIndexAgrees, VacateController
  <2>2. CASE b \in A /\ b # a
    <3>1. b \notin leases'[r]
      BY <2>2, <1>2, IdentifierAssumption DEF LeaseIndexAgrees
    <3>2. controller'[r] # b
      BY <2>2, IdentifierAssumption DEF ControlRelation, LeaseIndexAgrees, VacateController
    <3> QED
      BY <3>1, <3>2
  <2>3. CASE b \notin A /\ b # a
    <3>1. b \in leases'[r] <=> b \in leases[r]
      BY <2>3
    <3>2. role'[b] = role[b]
      BY <2>3
    <3>3. controller'[r] = b <=> controller[r] = b
      BY <2>3, IdentifierAssumption DEF VacateController
    <3> QED
      BY <3>1, <3>2, <3>3 DEF ControlRelation
  <2> QED
    BY <2>1, <2>2, <2>3
<1>4. ControlRelation'
  BY <1>3 DEF ControlRelation
<1>5. new = "observer" => \A r \in Session : controller'[r] \in {controller[r], NoAttach}
  BY DEF VacateController
<1> QED
  BY <1>1, <1>2, <1>4, <1>5

\* The record half of an attach after a sweep, of a claim and of a transfer.
LEMMA SweptRecord ==
    ASSUME TypeOK, NEW s \in Session, NEW n \in Nat, CanBump(Detach(record[s], n)),
           \/ record' = [record EXCEPT ![s] = Attach(Detach(record[s], n))]
           \/ record' = [record EXCEPT ![s] = Bump(Detach(record[s], n))]
    PROVE  /\ record' \in [Session -> Record]
           /\ \A r \in Session : /\ record'[r].state = record[r].state
                                 /\ record'[r].generation = record[r].generation
<1> DEFINE rec == Detach(record[s], n)
<1>1. rec \in Record /\ rec.state = record[s].state /\ rec.generation = record[s].generation
  BY DetachKeeps DEF TypeOK
<1> HIDE DEF rec
<1>2. CanBump(rec) /\ (\/ record' = [record EXCEPT ![s] = Attach(rec)]
                       \/ record' = [record EXCEPT ![s] = Bump(rec)])
  BY DEF rec
<1>3. /\ Attach(rec) \in Record /\ Attach(rec).state = rec.state
      /\ Attach(rec).generation = rec.generation
      /\ Bump(rec) \in Record /\ Bump(rec).state = rec.state
      /\ Bump(rec).generation = rec.generation
  BY <1>1, <1>2, BumpKeeps
<1> QED
  BY <1>1, <1>2, <1>3 DEF TypeOK

\* Whatever a removal, an attach or a renewal writes is an instant.
LEMMA ExpiryType ==
    ASSUME TypeOK, NEW A, NEW a \in AttachId,
           \/ expiresAt' = [Without(expiresAt, A, 0) EXCEPT ![a] = now + LeaseTtl]
           \/ expiresAt' = Without(expiresAt, A, 0)
    PROVE  expiresAt' \in [AttachId -> Nat]
<1>1. now + LeaseTtl \in Nat
  BY LimitAssumption DEF TypeOK
<1>2. Without(expiresAt, A, 0) \in [AttachId -> Nat]
  BY DEF Without, TypeOK
<1> QED
  BY <1>1, <1>2

\* SessionHost::attach_observer: the entry sweep, then the attach or its refusal.
LEMMA AttachObserverStep ==
    ASSUME IInv, NEW s \in Session, NEW a \in AttachId, AttachObserver(s, a)
    PROVE  IInv'
<1> USE DEF IInv
<1> DEFINE Lease(r) == /\ record'[r].state = record[r].state
                       /\ record'[r].generation = record[r].generation
<1>1. PICK swept \in SweepOutcomes(s) :
        LET rec == Detach(record[s], Cardinality(swept))
        IN /\ VacateController(s, swept)
           /\ \/ /\ CanBump(rec)
                 /\ record' = [record EXCEPT ![s] = Attach(rec)]
                 /\ leases' = [leases EXCEPT ![s] = (@ \ swept) \cup {a}]
                 /\ leaseSessions' = [Without(leaseSessions, swept, NoSession) EXCEPT ![a] = s]
                 /\ role' = [Without(role, swept, "observer") EXCEPT ![a] = "observer"]
                 /\ expiresAt' = [Without(expiresAt, swept, 0) EXCEPT ![a] = now + LeaseTtl]
              \/ /\ record' = [record EXCEPT ![s] = rec]
                 /\ DropLeases(s, swept)
  BY DEF AttachObserver
<1>2. swept \subseteq leases[s] /\ swept \in SUBSET AttachId /\ Cardinality(swept) \in Nat
  BY HandleSets
<1>3. record' \in [Session -> Record] /\ \A r \in Session : Lease(r)
  <2>1. CASE /\ CanBump(Detach(record[s], Cardinality(swept)))
             /\ record' = [record EXCEPT ![s] = Attach(Detach(record[s], Cardinality(swept)))]
    BY <2>1, <1>2, SweptRecord
  <2>2. CASE record' = [record EXCEPT ![s] = Detach(record[s], Cardinality(swept))]
    BY <2>2, <1>2, DetachRecord
  <2> QED
    BY <1>1, <2>1, <2>2
<1>4. /\ leases' \in [Session -> SUBSET AttachId]
      /\ leaseSessions' \in [AttachId -> Session \cup {NoSession}]
      /\ role' \in [AttachId -> {"observer", "controller"}]
      /\ controller' \in [Session -> AttachId \cup {NoAttach}]
      /\ LeaseIndexAgrees'
      /\ ControlRelation'
      /\ \A r \in Session : controller'[r] \in {controller[r], NoAttach}
  <2>1. CASE /\ leases' = [leases EXCEPT ![s] = (@ \ swept) \cup {a}]
             /\ leaseSessions' = [Without(leaseSessions, swept, NoSession) EXCEPT ![a] = s]
             /\ role' = [Without(role, swept, "observer") EXCEPT ![a] = "observer"]
    <3>1. Fresh(a) /\ VacateController(s, swept)
      BY <1>1 DEF AttachObserver
    <3> QED
      BY <2>1, <3>1, <1>2, AdditionKeeps
  <2>2. CASE DropLeases(s, swept)
    BY <2>2, <1>1, <1>2, RemovalKeeps DEF DropLeases
  <2> QED
    BY <1>1, <2>1, <2>2
<1>5. expiresAt' \in [AttachId -> Nat]
  <2>1. \/ expiresAt' = [Without(expiresAt, swept, 0) EXCEPT ![a] = now + LeaseTtl]
        \/ expiresAt' = Without(expiresAt, swept, 0)
    BY <1>1 DEF DropLeases
  <2> QED
    BY <2>1, ExpiryType
<1>6. TypeOK'
  BY <1>3, <1>4, <1>5 DEF AttachObserver, TypeOK, stopVars
<1>7. SameLifecycle /\ SealedUntouched
  <2>1. UNCHANGED <<hosted, stop, cancel, token>> /\ IsLive(s)
    BY DEF AttachObserver, stopVars
  <2>2. \A r \in Session : r # s => leases'[r] = leases[r] /\ controller'[r] = controller[r]
    BY <1>1 DEF DropLeases, VacateController, TypeOK
  <2> QED
    BY <1>3, <2>1, <2>2 DEF SameLifecycle, SealedUntouched
<1>8. RevokedControlStaysVacant'
  BY <1>4 DEF AttachObserver, RevokedControlStaysVacant
<1> QED
  BY <1>4, <1>6, <1>7, <1>8, LeaseStep

\* SessionHost::claim_controller: over vacant control, or over a controller
\* whose lease has expired and is detached first.
LEMMA ClaimControllerStep ==
    ASSUME IInv, NEW s \in Session, NEW generation \in {0, 1}, NEW presented \in 1 .. MaxToken,
           NEW a \in AttachId, ClaimController(s, generation, presented, a)
    PROVE  IInv'
<1> USE DEF IInv
<1> DEFINE vacated == ExpiredController(s)
           rec == Detach(record[s], Cardinality(vacated))
           Lease(r) == /\ record'[r].state = record[r].state
                       /\ record'[r].generation = record[r].generation
<1>1. \/ /\ CanBump(rec)
         /\ record' = [record EXCEPT ![s] = Attach(rec)]
         /\ leases' = [leases EXCEPT ![s] = (@ \ vacated) \cup {a}]
         /\ leaseSessions' = [Without(leaseSessions, vacated, NoSession) EXCEPT ![a] = s]
         /\ role' = [Without(role, vacated, "observer") EXCEPT ![a] = "controller"]
         /\ expiresAt' = [Without(expiresAt, vacated, 0) EXCEPT ![a] = now + LeaseTtl]
         /\ controller' = [controller EXCEPT ![s] = a]
         /\ token' = [token EXCEPT ![s] = @ + 1]
      \/ /\ record' = [record EXCEPT ![s] = rec]
         /\ DropLeases(s, vacated)
         /\ VacateController(s, vacated)
         /\ UNCHANGED token
  BY DEF ClaimController
<1>2. /\ Fresh(a) /\ IsLive(s) /\ token[s] # Retired
      /\ controller[s] # NoAttach => vacated # {}
      /\ UNCHANGED <<now, hosted, stop, cancel>>
  BY DEF ClaimController, TokenMatches, stopVars
<1>3. /\ vacated \subseteq leases[s] /\ vacated \in SUBSET AttachId
      /\ controller[s] \in vacated \cup {NoAttach}
      /\ Cardinality(vacated) \in Nat
  <2>1. vacated \subseteq leases[s] /\ vacated \in SUBSET AttachId
    BY DEF ExpiredController, TypeOK
  <2>2. controller[s] \in vacated \cup {NoAttach}
    BY <1>2 DEF ExpiredController
  <2> QED
    BY <2>1, <2>2, HandleSets
<1> HIDE DEF vacated
<1>4. record' \in [Session -> Record] /\ \A r \in Session : Lease(r)
  <2>1. CASE CanBump(rec) /\ record' = [record EXCEPT ![s] = Attach(rec)]
    BY <2>1, <1>3, SweptRecord
  <2>2. CASE record' = [record EXCEPT ![s] = rec]
    BY <2>2, <1>3, DetachRecord
  <2> QED
    BY <1>1, <2>1, <2>2
<1>5. /\ leases' \in [Session -> SUBSET AttachId]
      /\ leaseSessions' \in [AttachId -> Session \cup {NoSession}]
      /\ role' \in [AttachId -> {"observer", "controller"}]
      /\ controller' \in [Session -> AttachId \cup {NoAttach}]
      /\ LeaseIndexAgrees'
      /\ ControlRelation'
  <2>1. CASE /\ leases' = [leases EXCEPT ![s] = (@ \ vacated) \cup {a}]
             /\ leaseSessions' = [Without(leaseSessions, vacated, NoSession) EXCEPT ![a] = s]
             /\ role' = [Without(role, vacated, "observer") EXCEPT ![a] = "controller"]
             /\ controller' = [controller EXCEPT ![s] = a]
    BY <2>1, <1>2, <1>3, AdditionKeeps
  <2>2. CASE DropLeases(s, vacated) /\ VacateController(s, vacated)
    BY <2>2, <1>3, RemovalKeeps DEF DropLeases
  <2> QED
    BY <1>1, <2>1, <2>2
<1>6. expiresAt' \in [AttachId -> Nat]
  <2>1. \/ expiresAt' = [Without(expiresAt, vacated, 0) EXCEPT ![a] = now + LeaseTtl]
        \/ expiresAt' = Without(expiresAt, vacated, 0)
    BY <1>1 DEF DropLeases
  <2> QED
    BY <2>1, ExpiryType
<1>7. TypeOK'
  <2>1. token' = token \/ token' = [token EXCEPT ![s] = @ + 1]
    BY <1>1
  <2>2. token' \in [Session -> Nat]
    BY <2>1 DEF TypeOK
  <2> QED
    BY <2>2, <1>2, <1>4, <1>5, <1>6 DEF TypeOK
<1>8. SameLifecycle /\ SealedUntouched
  <2>1. \A r \in Session : r # s => /\ leases'[r] = leases[r]
                                    /\ controller'[r] = controller[r]
                                    /\ token'[r] = token[r]
    BY <1>1 DEF DropLeases, VacateController, TypeOK
  <2> QED
    BY <1>2, <1>4, <2>1 DEF SameLifecycle, SealedUntouched
<1>9. RevokedControlStaysVacant'
  BY <1>1, <1>2 DEF RevokedControlStaysVacant, VacateController, TypeOK, Retired
<1> QED
  BY <1>5, <1>7, <1>8, <1>9, LeaseStep

\* SessionHost::transfer_control: to a live observer, by the controller or by
\* the token over vacant control.
LEMMA TransferControlStep ==
    ASSUME IInv, NEW s \in Session, NEW generation \in {0, 1}, NEW auth \in Authority,
           NEW target \in AttachId, TransferControl(s, generation, auth, target)
    PROVE  IInv'
<1> USE DEF IInv
<1> DEFINE previous == IF auth.lease # NoAttach THEN {auth.lease} ELSE {}
           vacated == IF auth.lease # NoAttach THEN {} ELSE ExpiredController(s)
           rec == Detach(record[s], Cardinality(vacated))
           Lease(r) == /\ record'[r].state = record[r].state
                       /\ record'[r].generation = record[r].generation
           Moved == /\ leases' = [leases EXCEPT ![s] = @ \ vacated]
                    /\ leaseSessions' = Without(leaseSessions, vacated, NoSession)
                    /\ role' = [Without(role, previous \cup vacated, "observer")
                                  EXCEPT ![target] = "controller"]
                    /\ expiresAt' = Without(Renew(previous \cup {target}), vacated, 0)
                    /\ controller' = [controller EXCEPT ![s] = target]
                    /\ token' = [token EXCEPT ![s] = @ + 1]
           Stuck == /\ DropLeases(s, vacated)
                    /\ VacateController(s, vacated)
                    /\ UNCHANGED token
<1>1. \/ CanBump(rec) /\ record' = [record EXCEPT ![s] = Bump(rec)] /\ Moved
      \/ record' = [record EXCEPT ![s] = rec] /\ Stuck
  BY DEF TransferControl
<1>2. /\ IsLive(s) /\ target \in leases[s] /\ ~Expired(target) /\ role[target] = "observer"
      /\ ActsAsController(s, auth) \/ ActsAsVacantToken(s, auth)
      /\ UNCHANGED <<now, hosted, stop, cancel>>
  BY DEF TransferControl, AuthorizeControl, stopVars
<1>3. /\ token[s] # Retired
      /\ vacated \subseteq leases[s] /\ vacated \in SUBSET AttachId
      /\ previous \subseteq leases[s]
      /\ target \notin vacated
      /\ controller[s] \in previous \cup vacated \cup {NoAttach}
      /\ Cardinality(vacated) \in Nat
  <2>1. CASE ActsAsController(s, auth)
    <3>1. auth.lease # NoAttach /\ auth.lease \in leases[s] /\ role[auth.lease] = "controller"
      BY <2>1 DEF ActsAsController, Actionable
    <3>2. auth.lease \in AttachId
      BY <3>1 DEF Authority
    <3>3. controller[s] = auth.lease
      BY <3>1, <3>2 DEF ControlRelation
    <3>4. token[s] # Retired
      BY <3>1, <3>3 DEF RevokedControlStaysVacant
    <3>5. Cardinality({}) \in Nat
      BY HandleSets
    <3> QED
      BY <3>1, <3>3, <3>4, <3>5
  <2>2. CASE ActsAsVacantToken(s, auth)
    <3>1. auth.lease = NoAttach /\ ~HasLiveController(s) /\ token[s] # Retired
      BY <2>2 DEF ActsAsVacantToken, TokenMatches
    <3>2. vacated \subseteq leases[s] /\ vacated \in SUBSET AttachId /\ target \notin vacated
      BY <3>1, <1>2 DEF ExpiredController, TypeOK
    <3>3. controller[s] \in vacated \cup {NoAttach}
      BY <3>1 DEF ExpiredController, HasLiveController, ControlRelation, TypeOK
    <3>4. Cardinality(vacated) \in Nat
      BY <3>2, HandleSets
    <3> QED
      BY <3>1, <3>2, <3>3, <3>4
  <2> QED
    BY <1>2, <2>1, <2>2
<1> HIDE DEF previous, vacated
<1>4. record' \in [Session -> Record] /\ \A r \in Session : Lease(r)
  <2>1. CASE CanBump(rec) /\ record' = [record EXCEPT ![s] = Bump(rec)]
    BY <2>1, <1>3, SweptRecord
  <2>2. CASE record' = [record EXCEPT ![s] = rec]
    BY <2>2, <1>3, DetachRecord
  <2> QED
    BY <1>1, <2>1, <2>2
<1>5. CASE Moved
  <2>1. TypeOK'
    <3>1. expiresAt' \in [AttachId -> Nat]
      BY <1>5, RenewType DEF Without
    <3>2. token' \in [Session -> Nat]
      BY <1>5 DEF TypeOK
    <3>3. /\ leases' \in [Session -> SUBSET AttachId]
          /\ leaseSessions' \in [AttachId -> Session \cup {NoSession}]
          /\ role' \in [AttachId -> {"observer", "controller"}]
          /\ controller' \in [Session -> AttachId \cup {NoAttach}]
      BY <1>5 DEF TypeOK, Without
    <3> QED
      BY <1>2, <1>4, <3>1, <3>2, <3>3 DEF TypeOK
  <2>2. LeaseIndexAgrees'
    BY <1>5, <1>3, IdentifierAssumption DEF LeaseIndexAgrees, Without, TypeOK
  <2>3. ASSUME NEW r \in Session, NEW b \in AttachId
        PROVE  controller'[r] = b <=> b \in leases'[r] /\ role'[b] = "controller"
    <3>1. CASE b = target
      <4>1. r # s => b \notin leases[r] /\ controller[r] # b
        BY <3>1, <1>2 DEF LeaseIndexAgrees, ControlRelation
      <4> QED
        BY <3>1, <4>1, <1>2, <1>3, <1>5 DEF TypeOK, Without
    <3>2. CASE b # target /\ b \in previous \cup vacated
      <4>1. role'[b] = "observer"
        BY <3>2, <1>5 DEF TypeOK, Without
      <4>2. r # s => controller[r] # b
        BY <3>2, <1>3 DEF LeaseIndexAgrees, ControlRelation
      <4> QED
        BY <3>2, <4>1, <4>2, <1>5 DEF TypeOK
    <3>3. CASE b # target /\ b \notin previous \cup vacated
      <4>1. role'[b] = role[b] /\ (b \in leases'[r] <=> b \in leases[r])
        BY <3>3, <1>5 DEF TypeOK, Without
      <4>2. controller[s] # b
        BY <3>3, <1>3, IdentifierAssumption
      <4>3. controller'[r] = b <=> controller[r] = b
        BY <3>3, <4>2, <1>5 DEF TypeOK
      <4> QED
        BY <4>1, <4>3 DEF ControlRelation
    <3> QED
      BY <3>1, <3>2, <3>3
  <2>4. ControlRelation'
    BY <2>3 DEF ControlRelation
  <2>5. RevokedControlStaysVacant'
    BY <1>3, <1>5 DEF RevokedControlStaysVacant, TypeOK, Retired
  <2>6. SameLifecycle /\ SealedUntouched
    BY <1>2, <1>4, <1>5 DEF SameLifecycle, SealedUntouched, TypeOK
  <2> QED
    BY <2>1, <2>2, <2>4, <2>5, <2>6, LeaseStep
<1>6. CASE Stuck
  <2>1. /\ leases' \in [Session -> SUBSET AttachId]
        /\ leaseSessions' \in [AttachId -> Session \cup {NoSession}]
        /\ role' \in [AttachId -> {"observer", "controller"}]
        /\ controller' \in [Session -> AttachId \cup {NoAttach}]
        /\ LeaseIndexAgrees'
        /\ ControlRelation'
        /\ \A r \in Session : controller'[r] \in {controller[r], NoAttach}
    BY <1>6, <1>3, RemovalKeeps DEF DropLeases
  <2>2. expiresAt' \in [AttachId -> Nat]
    BY <1>6, ExpiryType DEF DropLeases
  <2>3. TypeOK'
    BY <1>2, <1>4, <1>6, <2>1, <2>2 DEF TypeOK
  <2>4. SameLifecycle /\ SealedUntouched
    BY <1>2, <1>4, <1>6 DEF SameLifecycle, SealedUntouched, DropLeases, VacateController, TypeOK
  <2>5. RevokedControlStaysVacant'
    BY <1>6, <2>1 DEF RevokedControlStaysVacant
  <2> QED
    BY <2>1, <2>3, <2>4, <2>5, LeaseStep
<1> QED
  BY <1>1, <1>5, <1>6

\* SessionHost::expire_due: one sweep over every hosted session.
LEMMA ExpireDueStep ==
    ASSUME IInv, ExpireDue
    PROVE  IInv'
<1> USE DEF IInv
<1>1. PICK swept \in [hosted -> SUBSET AttachId] :
        /\ \A s \in hosted : swept[s] \in SweepOutcomes(s)
        /\ LET Swept(s) == IF s \in hosted THEN swept[s] ELSE {}
               gone == UNION {swept[s] : s \in hosted}
           IN /\ record' = [s \in Session |-> Detach(record[s], Cardinality(Swept(s)))]
              /\ controller' =
                   [s \in Session |->
                      IF controller[s] \in Swept(s) THEN NoAttach ELSE controller[s]]
              /\ leases' = [s \in Session |-> leases[s] \ Swept(s)]
              /\ leaseSessions' = Without(leaseSessions, gone, NoSession)
              /\ role' = Without(role, gone, "observer")
              /\ expiresAt' = Without(expiresAt, gone, 0)
        /\ UNCHANGED <<now, hosted, token, stop, cancel>>
  BY DEF ExpireDue, stopVars
<1> DEFINE Swept(s) == IF s \in hosted THEN swept[s] ELSE {}
           gone == UNION {swept[s] : s \in hosted}
<1>2. \A s \in Session : /\ Swept(s) \subseteq leases[s]
                         /\ Swept(s) \in SUBSET AttachId
                         /\ Cardinality(Swept(s)) \in Nat
  <2>1. Cardinality({}) \in Nat
    BY HandleSets
  <2> QED
    BY <1>1, <2>1, HandleSets
<1>3. \A s \in Session, a \in AttachId : a \in leases[s] => (a \in gone <=> a \in Swept(s))
  BY <1>2 DEF LeaseIndexAgrees, TypeOK
<1>4. \A a \in gone : \E s \in Session : a \in Swept(s)
  BY DEF TypeOK
<1>5. /\ record' = [s \in Session |-> Detach(record[s], Cardinality(Swept(s)))]
      /\ controller' =
           [s \in Session |-> IF controller[s] \in Swept(s) THEN NoAttach ELSE controller[s]]
      /\ leases' = [s \in Session |-> leases[s] \ Swept(s)]
      /\ leaseSessions' = Without(leaseSessions, gone, NoSession)
      /\ role' = Without(role, gone, "observer")
      /\ expiresAt' = Without(expiresAt, gone, 0)
      /\ UNCHANGED <<now, hosted, token, stop, cancel>>
  BY <1>1
<1> HIDE DEF Swept, gone
<1>6. /\ record' \in [Session -> Record]
      /\ \A s \in Session : /\ record'[s].state = record[s].state
                            /\ record'[s].generation = record[s].generation
  BY <1>2, <1>5, DetachKeeps DEF TypeOK
<1>7. TypeOK'
  BY <1>5, <1>6 DEF TypeOK, Without
<1>8. LeaseIndexAgrees'
  BY <1>2, <1>3, <1>4, <1>5, IdentifierAssumption DEF LeaseIndexAgrees, TypeOK, Without
<1>9. ControlRelation'
  <2>1. ASSUME NEW s \in Session, NEW a \in AttachId
        PROVE  controller'[s] = a <=> a \in leases'[s] /\ role'[a] = "controller"
    <3>1. role'[a] = IF a \in gone THEN "observer" ELSE role[a]
      BY <1>5 DEF TypeOK, Without
    <3>2. a \in leases'[s] <=> a \in leases[s] /\ a \notin gone
      BY <1>3, <1>5
    <3>3. controller'[s] = a <=> controller[s] = a /\ a \notin Swept(s)
      BY <1>5, IdentifierAssumption
    <3> QED
      BY <3>1, <3>2, <3>3, <1>3 DEF ControlRelation
  <2> QED
    BY <2>1 DEF ControlRelation
<1>10. RevokedControlStaysVacant'
  BY <1>5 DEF RevokedControlStaysVacant
<1>11. SameLifecycle /\ SealedUntouched
  <2>1. ASSUME NEW s \in Session, ~IsLive(s)
        PROVE  leases'[s] = leases[s] /\ controller'[s] = controller[s]
    <3>1. leases[s] = {} /\ controller[s] = NoAttach
      BY <2>1 DEF TerminalSealed
    <3> QED
      BY <3>1, <1>5
  <2> QED
    BY <2>1, <1>5, <1>6 DEF SameLifecycle, SealedUntouched
<1> QED
  BY <1>7, <1>8, <1>9, <1>10, <1>11, LeaseStep

-----------------------------------------------------------------------------
(* The stop pipeline.                                                       *)

\* The clock moves alone.
LEMMA TickStep ==
    ASSUME IInv, Tick
    PROVE  IInv'
<1> USE DEF IInv
<1>1. TypeOK'
  BY DEF Tick, TypeOK, controlVars, stopVars, leaseVars
<1>2. SameLifecycle /\ SealedUntouched
  BY DEF Tick, SameLifecycle, SealedUntouched, controlVars, stopVars, leaseVars
<1>3. LeaseIndexAgrees' /\ ControlRelation' /\ RevokedControlStaysVacant'
  BY DEF Tick, LeaseIndexAgrees, ControlRelation, RevokedControlStaysVacant, controlVars, leaseVars
<1> QED
  BY <1>1, <1>2, <1>3, LeaseStep

\* What commit_stop and kill may do to one session: record a cancel intent
\* before the bind, stop it once, or escalate the stop it carries.
Accepted(s, why) ==
    \/ /\ record[s].state = "created"
       /\ cancel' = [cancel EXCEPT ![s] = why]
       /\ UNCHANGED <<record, stop>>
    \/ /\ record[s].state = "running"
       /\ CanBump(record[s])
       /\ record' = [record EXCEPT ![s] = Stopping(record[s])]
       /\ \E deadline \in Nat, escalated \in BOOLEAN :
            stop' = [stop EXCEPT ![s] = [reason |-> why, deadline |-> deadline,
                                         escalated |-> escalated]]
       /\ UNCHANGED cancel
    \/ /\ record[s].state = "stopping"
       /\ \E deadline \in Nat :
            stop' = [stop EXCEPT ![s] = [reason |-> stop[s].reason, deadline |-> deadline,
                                         escalated |-> TRUE]]
       /\ UNCHANGED <<record, cancel>>

LEMMA AcceptedStep ==
    ASSUME IInv, NEW s \in Session, NEW why \in StopReason, Accepted(s, why),
           UNCHANGED <<now, hosted, token, controller, leases, role, leaseSessions>>,
           expiresAt' \in [AttachId -> Nat]
    PROVE  IInv'
<1> USE DEF IInv
<1>1. LeaseIndexAgrees' /\ ControlRelation' /\ RevokedControlStaysVacant'
  BY DEF LeaseIndexAgrees, ControlRelation, RevokedControlStaysVacant
<1>2. why # "none" /\ why # NoCancel
  BY DEF StopReason, NoCancel
<1>3. CASE /\ record[s].state = "created"
           /\ cancel' = [cancel EXCEPT ![s] = why]
           /\ UNCHANGED <<record, stop>>
  <2>1. TypeOK'
    BY <1>3 DEF TypeOK
  <2>2. TerminalSealed' /\ StopPipelineConsistent'
    BY <1>3, <1>2 DEF TerminalSealed, StopPipelineConsistent, IsLive, Live, TypeOK
  <2>3. CreatedUnbound' /\ StopComplete' /\ Hosted'
    BY <1>3 DEF CreatedUnbound, StopComplete, Hosted
  <2> QED
    BY <1>1, <2>1, <2>2, <2>3
<1>4. CASE /\ record[s].state = "running"
           /\ CanBump(record[s])
           /\ record' = [record EXCEPT ![s] = Stopping(record[s])]
           /\ UNCHANGED cancel
           /\ \E deadline \in Nat, escalated \in BOOLEAN :
                stop' = [stop EXCEPT ![s] = [reason |-> why, deadline |-> deadline,
                                             escalated |-> escalated]]
  <2>1. Stopping(record[s]) \in Record /\ Stopping(record[s]).state = "stopping"
    BY <1>4, BumpKeeps DEF TypeOK
  <2>2. \A r \in Session : record'[r].state = IF r = s THEN "stopping" ELSE record[r].state
    BY <1>4, <2>1 DEF TypeOK
  <2>3. /\ stop' \in [Session -> [reason : StopReason \cup {"none"}, deadline : Nat,
                                  escalated : BOOLEAN]]
        /\ stop'[s].reason = why
        /\ \A r \in Session : r # s => stop'[r] = stop[r]
    BY <1>4 DEF TypeOK
  <2>4. TypeOK'
    BY <1>4, <2>1, <2>3 DEF TypeOK
  <2>5. TerminalSealed' /\ StopPipelineConsistent'
    BY <1>2, <1>4, <2>2, <2>3 DEF TerminalSealed, StopPipelineConsistent, IsLive, Live
  <2>6. CreatedUnbound' /\ Hosted'
    BY <1>4, <2>2 DEF CreatedUnbound, Hosted, Absent, TypeOK
  <2>7. StopComplete'
    BY <1>2, <2>3 DEF StopComplete
  <2> QED
    BY <1>1, <2>4, <2>5, <2>6, <2>7
<1>5. CASE /\ record[s].state = "stopping"
           /\ \E deadline \in Nat :
                stop' = [stop EXCEPT ![s] = [reason |-> stop[s].reason, deadline |-> deadline,
                                             escalated |-> TRUE]]
           /\ UNCHANGED <<record, cancel>>
  <2>1. /\ stop' \in [Session -> [reason : StopReason \cup {"none"}, deadline : Nat,
                                  escalated : BOOLEAN]]
        /\ stop'[s].reason = stop[s].reason
        /\ \A r \in Session : r # s => stop'[r] = stop[r]
    BY <1>5 DEF TypeOK
  <2>2. stop[s].reason # "none"
    BY <1>5 DEF StopPipelineConsistent
  <2>3. TypeOK'
    BY <1>5, <2>1 DEF TypeOK
  <2>4. TerminalSealed' /\ StopPipelineConsistent' /\ StopComplete'
    BY <1>5, <2>1, <2>2 DEF TerminalSealed, StopPipelineConsistent, StopComplete, IsLive, Live
  <2>5. CreatedUnbound' /\ Hosted'
    BY <1>5 DEF CreatedUnbound, Hosted
  <2> QED
    BY <1>1, <2>3, <2>4, <2>5
<1> QED
  BY <1>3, <1>4, <1>5 DEF Accepted

\* SessionHost::commit_stop, reached by abort and operator_stop.
LEMMA CommitStopStep ==
    ASSUME IInv, NEW s \in Session, NEW why \in StopReason, NEW grace \in Nat, NEW renewed,
           CommitStop(s, why, grace, renewed)
    PROVE  IInv'
<1>1. now + grace \in Nat /\ TypeOK
  BY DEF IInv, TypeOK
<1>2. Accepted(s, why)
  BY <1>1 DEF CommitStop, Accepted
<1>3. expiresAt' \in [AttachId -> Nat]
  BY <1>1, RenewType DEF CommitStop, TypeOK
<1> QED
  BY <1>2, <1>3, AcceptedStep DEF CommitStop, controlVars

\* SessionHost::kill.
LEMMA KillStep ==
    ASSUME IInv, NEW s \in Session, NEW generation \in {0, 1}, Kill(s, generation)
    PROVE  IInv'
<1>1. TypeOK /\ now \in Nat /\ "operator_abort" \in StopReason
  BY DEF IInv, TypeOK, StopReason
<1>2. Accepted(s, "operator_abort")
  BY <1>1 DEF Kill, Accepted, Escalated
<1>3. expiresAt' \in [AttachId -> Nat]
  BY <1>1 DEF Kill, TypeOK, leaseVars
<1> QED
  BY <1>1, <1>2, <1>3, AcceptedStep DEF Kill, controlVars, leaseVars

\* SessionHost::escalate_abort.
LEMMA EscalateAbortStep ==
    ASSUME IInv, NEW s \in Session, EscalateAbort(s)
    PROVE  IInv'
<1>1. TypeOK /\ record[s].state = "stopping"
  BY DEF IInv, EscalateAbort, StopComplete, StopPipelineConsistent
<1>2. Accepted(s, "operator_abort")
  <2>1. stop[s].deadline \in Nat
    BY <1>1 DEF TypeOK
  <2> QED
    BY <1>1, <2>1 DEF EscalateAbort, Accepted, Escalated
<1>3. expiresAt' \in [AttachId -> Nat] /\ "operator_abort" \in StopReason
  BY <1>1 DEF EscalateAbort, TypeOK, leaseVars, StopReason
<1> QED
  BY <1>2, <1>3, AcceptedStep DEF EscalateAbort, controlVars, leaseVars

-----------------------------------------------------------------------------
(* Terminal transitions and retention.                                      *)

\* TerminalReason::terminal_state is total and lands in a terminal state.
LEMMA TerminalStates == \A reason \in Reason : TerminalState(reason) \in Terminal
BY DEF Reason, StopReason, WorkerReason, TerminalState, Terminal

\* A detach that ran out of revisions midway: the record counts fewer leases,
\* the lease tables are untouched.
LEMMA PartialDetachStep ==
    ASSUME IInv, NEW s \in Session, NEW n \in Nat,
           record' = [record EXCEPT ![s] = Detach(record[s], n)],
           UNCHANGED <<now, hosted, controlVars, stopVars, leaseVars>>
    PROVE  IInv'
<1> USE DEF IInv, controlVars, stopVars, leaseVars
<1>1. /\ record' \in [Session -> Record]
      /\ \A r \in Session : /\ record'[r].state = record[r].state
                            /\ record'[r].generation = record[r].generation
  BY DetachRecord
<1>2. TypeOK'
  BY <1>1 DEF TypeOK
<1>3. SameLifecycle /\ SealedUntouched
  BY <1>1 DEF SameLifecycle, SealedUntouched
<1>4. LeaseIndexAgrees' /\ ControlRelation' /\ RevokedControlStaysVacant'
  BY DEF LeaseIndexAgrees, ControlRelation, RevokedControlStaysVacant
<1> QED
  BY <1>2, <1>3, <1>4, LeaseStep

\* SessionHost::finish_terminal: the session is sealed, and the records the
\* retention cap evicts were sealed before.
LEMMA FinishTerminalStep ==
    ASSUME IInv, NEW s \in Session, NEW reason \in Reason, NEW cleanup \in Cleanup,
           FinishTerminal(s, reason, cleanup)
    PROVE  IInv'
<1> USE DEF IInv
<1> DEFINE n == Cardinality(leases[s])
           detached == Detach(record[s], n)
           frozen == [detached EXCEPT !.state = TerminalState(reason),
                                      !.revision = @ + 1,
                                      !.reason = reason,
                                      !.cleanup = cleanup,
                                      !.terminalizedAt = now]
           retained == Retained \cup {s}
           Sealed == /\ DropLeases(s, leases[s])
                     /\ controller' = [controller EXCEPT ![s] = NoAttach]
                     /\ token' = [token EXCEPT ![s] = Retired]
                     /\ stop' = [stop EXCEPT ![s] = NoStop]
                     /\ cancel' = [cancel EXCEPT ![s] = NoCancel]
                     /\ UNCHANGED <<now, hosted>>
           Frozen(evicted) ==
               record' = [r \in Session |->
                            IF r \in evicted THEN Blank("collected")
                            ELSE IF r = s THEN frozen ELSE record[r]]
<1>1. IsLive(s) /\ TerminalState(reason) \in Terminal
  BY TerminalStates DEF FinishTerminal, AllowsTerminal, IsLive, Live
<1>2. n \in Nat
  BY HandleSets DEF TypeOK
<1>3. CASE record' = [record EXCEPT ![s] = detached]
           /\ UNCHANGED <<now, hosted, controlVars, stopVars, leaseVars>>
  BY <1>2, <1>3, PartialDetachStep
<1>4. CASE CanBump(detached) /\ Sealed /\ \E evicted \in SUBSET retained : Frozen(evicted)
  <2>1. PICK evicted \in SUBSET retained : Frozen(evicted)
    BY <1>4
  <2>2. frozen \in Record /\ frozen.state \in Terminal
    <3>1. detached \in Record /\ CanBump(detached)
      BY <1>2, <1>4, DetachKeeps DEF TypeOK
    <3> HIDE DEF detached
    <3>2. detached.revision + 1 \in 0 .. MaxRevision
      BY <3>1, LimitAssumption DEF Record, CanBump
    <3>3. now \in Nat
      BY DEF TypeOK
    <3> QED
      BY <1>1, <3>1, <3>2, <3>3 DEF Record
  <2>3. Blank("collected") \in Record /\ Blank("collected").state = "collected"
    BY LimitAssumption DEF Blank, Record, Absent, Reason, Cleanup
  <2>4. \A r \in evicted : r = s \/ record[r].state \in Terminal
    BY DEF Retained
  <2> HIDE DEF frozen, retained
  <2>5. record' \in [Session -> Record]
    BY <2>1, <2>2, <2>3 DEF TypeOK
  <2>6. /\ record'[s].state \in Terminal \cup {"collected"}
        /\ \A r \in Session : r # s =>
             \/ record'[r] = record[r]
             \/ record[r].state \in Terminal /\ record'[r].state = "collected"
    BY <2>1, <2>2, <2>3, <2>4
  <2>7. /\ leases' \in [Session -> SUBSET AttachId]
        /\ leaseSessions' \in [AttachId -> Session \cup {NoSession}]
        /\ role' \in [AttachId -> {"observer", "controller"}]
        /\ controller' \in [Session -> AttachId \cup {NoAttach}]
        /\ LeaseIndexAgrees'
        /\ ControlRelation'
    <3>1. leases[s] \in SUBSET AttachId
      BY DEF TypeOK
    <3>2. VacateController(s, leases[s])
      <4>1. controller[s] \in leases[s] \cup {NoAttach}
        BY DEF ControlRelation, TypeOK
      <4> QED
        BY <1>4, <4>1 DEF VacateController, TypeOK
    <3> QED
      BY <1>4, <3>1, <3>2, RemovalKeeps DEF DropLeases
  <2>8. TypeOK'
    <3>1. expiresAt' \in [AttachId -> Nat] /\ token' \in [Session -> Nat]
      BY <1>4 DEF DropLeases, Without, TypeOK, Retired
    <3>2. stop' \in [Session -> [reason : StopReason \cup {"none"}, deadline : Nat,
                                 escalated : BOOLEAN]]
      BY <1>4 DEF TypeOK, NoStop
    <3>3. cancel' \in [Session -> StopReason \cup {NoCancel}] /\ now' \in Nat /\ hosted' \subseteq Session
      BY <1>4 DEF TypeOK
    <3> QED
      BY <2>5, <2>7, <3>1, <3>2, <3>3 DEF TypeOK
  <2>9. /\ leases'[s] = {} /\ controller'[s] = NoAttach /\ token'[s] = Retired
        /\ stop'[s] = NoStop /\ cancel'[s] = NoCancel
        /\ \A r \in Session : r # s =>
             /\ leases'[r] = leases[r] /\ controller'[r] = controller[r] /\ token'[r] = token[r]
             /\ stop'[r] = stop[r] /\ cancel'[r] = cancel[r]
    BY <1>4 DEF DropLeases, TypeOK
  <2>10. RevokedControlStaysVacant' /\ StopComplete'
    BY <2>9 DEF RevokedControlStaysVacant, StopComplete, NoStop
  <2>11. TerminalSealed'
    BY <2>6, <2>9 DEF TerminalSealed, IsLive, Live, Terminal
  <2>12. StopPipelineConsistent' /\ CreatedUnbound' /\ Hosted'
    <3>1. s \in hosted /\ hosted' = hosted
      BY <1>1, <1>4 DEF Hosted, IsLive, Live, Absent
    <3> QED
      BY <2>6, <2>9, <3>1
         DEF StopPipelineConsistent, CreatedUnbound, Hosted, NoStop, Terminal, Absent
  <2> QED
    BY <2>7, <2>8, <2>10, <2>11, <2>12
<1> QED
  <2>1. \/ /\ CanBump(detached)
           /\ \E evicted \in CapEvictions(retained, [r \in retained |->
                               IF r = s THEN now ELSE record[r].terminalizedAt]) :
                Frozen(evicted)
           /\ Sealed
        \/ /\ record' = [record EXCEPT ![s] = detached]
           /\ UNCHANGED <<now, hosted, controlVars, stopVars, leaseVars>>
    BY DEF FinishTerminal
  <2> HIDE DEF Frozen, Sealed, detached
  <2>2. \/ /\ CanBump(detached)
           /\ \E evicted \in SUBSET retained : Frozen(evicted)
           /\ Sealed
        \/ /\ record' = [record EXCEPT ![s] = detached]
           /\ UNCHANGED <<now, hosted, controlVars, stopVars, leaseVars>>
    BY <2>1 DEF CapEvictions
  <2> QED
    BY <2>2, <1>3, <1>4

\* SessionHost::complete_pre_bind_cancel.
LEMMA CompletePreBindCancelStep ==
    ASSUME IInv, NEW s \in Session, NEW cleanup \in Cleanup, CompletePreBindCancel(s, cleanup)
    PROVE  IInv'
<1>1. cancel[s] \in Reason
  BY DEF CompletePreBindCancel, IInv, TypeOK, Reason, NoCancel
<1> QED
  BY <1>1, FinishTerminalStep DEF CompletePreBindCancel

\* SessionHost::record_termination.
LEMMA RecordTerminationStep ==
    ASSUME IInv, NEW s \in Session, NEW observation \in Observation, NEW cleanup \in Cleanup,
           RecordTermination(s, observation, cleanup)
    PROVE  IInv'
<1> DEFINE reason == ObservedReason(s, observation)
<1>1. stop[s].reason \in StopReason \cup {"none"}
  BY DEF IInv, TypeOK
<1>2. reason \in Reason \cup {"none"}
  BY <1>1 DEF ObservedReason, Reason, WorkerReason
<1>3. reason # "none" /\ FinishTerminal(s, reason, cleanup)
  BY DEF RecordTermination
<1> QED
  BY <1>2, <1>3, FinishTerminalStep

\* SessionHost::collect_retained: only records that are already sealed go.
LEMMA CollectRetainedStep ==
    ASSUME IInv, CollectRetained
    PROVE  IInv'
<1> USE DEF IInv
<1> DEFINE due == {s \in Retained : now - record[s].terminalizedAt >= TerminalRetention}
           kept == {s \in hosted \ due : record[s].state \notin Absent}
           gone == UNION {leases[s] : s \in hosted \ kept}
<1>1. \A s \in Session : s \notin kept =>
        /\ ~IsLive(s) /\ leases[s] = {} /\ controller[s] = NoAttach /\ token[s] = Retired
        /\ stop[s] = NoStop /\ cancel[s] = NoCancel
  <2>1. \A s \in Session : s \notin kept => ~IsLive(s)
    BY DEF Hosted, IsLive, Live, Absent, Retained, Terminal
  <2> QED
    BY <2>1 DEF TerminalSealed
<1>2. gone = {}
  BY <1>1 DEF TypeOK
<1>3. /\ record' = [s \in Session |-> IF s \in due THEN Blank("collected") ELSE record[s]]
      /\ hosted' = kept
      /\ now' = now
      /\ leaseSessions' = Without(leaseSessions, gone, NoSession)
      /\ role' = Without(role, gone, "observer")
      /\ expiresAt' = Without(expiresAt, gone, 0)
  BY DEF CollectRetained
<1>4. UNCHANGED <<token, controller, stop, cancel, leases>>
  <2>1. /\ token' = [s \in Session |-> IF s \in kept THEN token[s] ELSE Retired]
        /\ controller' = [s \in Session |-> IF s \in kept THEN controller[s] ELSE NoAttach]
        /\ stop' = [s \in Session |-> IF s \in kept THEN stop[s] ELSE NoStop]
        /\ cancel' = [s \in Session |-> IF s \in kept THEN cancel[s] ELSE NoCancel]
        /\ leases' = [s \in Session |-> IF s \in kept THEN leases[s] ELSE {}]
    BY DEF CollectRetained
  <2> HIDE DEF kept
  <2> QED
    BY <1>1, <2>1 DEF TypeOK
<1>5. UNCHANGED <<leaseSessions, role, expiresAt>>
  BY <1>2, <1>3 DEF Without, TypeOK
<1>6. Blank("collected") \in Record /\ Blank("collected").state = "collected"
  BY LimitAssumption DEF Blank, Record, Absent, Reason, Cleanup
<1>7. \A s \in Session : \/ record'[s] = record[s] /\ s \notin due
                         \/ record'[s].state = "collected" /\ s \in due
  BY <1>3, <1>6
<1>8. TypeOK'
  BY <1>3, <1>4, <1>5, <1>6 DEF TypeOK
<1>9. LeaseIndexAgrees' /\ ControlRelation' /\ RevokedControlStaysVacant' /\ StopComplete'
  BY <1>4, <1>5 DEF LeaseIndexAgrees, ControlRelation, RevokedControlStaysVacant, StopComplete
<1>10. TerminalSealed'
  BY <1>1, <1>4, <1>7 DEF TerminalSealed, IsLive
<1>11. StopPipelineConsistent' /\ CreatedUnbound' /\ Hosted'
  <2>1. \A s \in due : stop[s] = NoStop /\ cancel[s] = NoCancel
    BY <1>1 DEF Retained
  <2>2. \A s \in Session : record'[s].state \notin Absent => s \in kept
    BY <1>7 DEF Hosted, Absent
  <2> QED
    BY <1>3, <1>4, <1>7, <2>1, <2>2
       DEF StopPipelineConsistent, CreatedUnbound, Hosted, NoStop
<1> QED
  BY <1>8, <1>9, <1>10, <1>11

-----------------------------------------------------------------------------
(* The inductive invariant and what follows from it.                        *)

\* Every operation of the host keeps the inductive invariant.
LEMMA NextIInv == IInv /\ [Next]_vars => IInv'
<1> SUFFICES ASSUME IInv, [Next]_vars
             PROVE  IInv'
  OBVIOUS
<1>1. CASE Tick
  BY <1>1, TickStep
<1>2. CASE ExpireDue
  BY <1>2, ExpireDueStep
<1>3. CASE CollectRetained
  BY <1>3, CollectRetainedStep
<1>4. ASSUME NEW s \in Session,
             \/ Create(s) \/ DiscardCreated(s) \/ Bind(s)
             \/ RecordGrantMutation(s) \/ EscalateAbort(s)
      PROVE  IInv'
  BY <1>4, CreateStep, DiscardCreatedStep, BindStep, RecordGrantMutationStep, EscalateAbortStep
<1>5. ASSUME NEW s \in Session, NEW a \in AttachId, AttachObserver(s, a) \/ OperatorDetach(s, a)
      PROVE  IInv'
  BY <1>5, AttachObserverStep, OperatorDetachStep
<1>6. ASSUME NEW s \in Session, NEW a \in AttachId, NEW auth \in Authority,
             ConsumerDetach(s, a, auth)
      PROVE  IInv'
  BY <1>6, ConsumerDetachStep
<1>7. ASSUME NEW s \in Session, NEW cleanup \in Cleanup,
             \/ CompletePreBindCancel(s, cleanup)
             \/ \E o \in Observation : RecordTermination(s, o, cleanup)
      PROVE  IInv'
  BY <1>7, CompletePreBindCancelStep, RecordTerminationStep
<1>8. ASSUME NEW s \in Session, NEW generation \in {0, 1},
             \/ \E p \in 1 .. MaxToken, a \in AttachId : ClaimController(s, generation, p, a)
             \/ \E auth \in Authority, a \in AttachId : TransferControl(s, generation, auth, a)
      PROVE  IInv'
  BY <1>8, ClaimControllerStep, TransferControlStep
<1>9. ASSUME NEW s \in Session, NEW generation \in {0, 1},
             \/ \E auth \in Authority, r \in {"consumer_cancel", "consumer_timeout"} :
                  Abort(s, generation, auth, r)
             \/ \E r \in {"operator_abort", "daemon_stop", "host_shutdown"} :
                  OperatorStop(s, generation, r)
             \/ Kill(s, generation)
      PROVE  IInv'
  <2>1. CASE \E auth \in Authority, r \in {"consumer_cancel", "consumer_timeout"} :
               Abort(s, generation, auth, r)
    <3>1. PICK auth \in Authority, r \in {"consumer_cancel", "consumer_timeout"} :
            CommitStop(s, r, AbortGrace, {auth.lease})
      BY <2>1 DEF Abort
    <3>2. r \in StopReason
      BY DEF StopReason
    <3> QED
      BY <3>1, <3>2, CommitStopStep, LimitAssumption
  <2>2. CASE \E r \in {"operator_abort", "daemon_stop", "host_shutdown"} :
               OperatorStop(s, generation, r)
    <3>1. PICK r \in {"operator_abort", "daemon_stop", "host_shutdown"} :
            CommitStop(s, r, IF r = "operator_abort" THEN AbortGrace ELSE DrainGrace, {})
      BY <2>2 DEF OperatorStop
    <3>2. r \in StopReason
      BY DEF StopReason
    <3>3. (IF r = "operator_abort" THEN AbortGrace ELSE DrainGrace) \in Nat
      BY LimitAssumption
    <3> QED
      BY <3>1, <3>2, <3>3, CommitStopStep
  <2> QED
    BY <1>9, <2>1, <2>2, KillStep
<1>10. ASSUME NEW a \in AttachId, Heartbeat(a) \/ RecordResize(a)
       PROVE  IInv'
  BY <1>10, HeartbeatStep, RecordResizeStep
<1>11. CASE UNCHANGED vars
  BY <1>11 DEF vars, controlVars, stopVars, leaseVars, IInv, TypeOK, LeaseIndexAgrees,
               ControlRelation, RevokedControlStaysVacant, TerminalSealed, StopPipelineConsistent,
               CreatedUnbound, StopComplete, Hosted, IsLive
<1> QED
  BY <1>1, <1>2, <1>3, <1>4, <1>5, <1>6, <1>7, <1>8, <1>9, <1>10, <1>11 DEF Next

\* Every reachable state of a session host satisfies the inductive invariant.
THEOREM HostInvariant == Spec => []IInv
<1> QED
  BY InitIInv, NextIInv, PTL DEF Spec

\* Every field keeps its type, whatever requests arrive in whatever order.
THEOREM TypeCorrect == Spec => []TypeOK
<1>1. IInv => TypeOK
  BY DEF IInv
<1> QED
  BY <1>1, HostInvariant, PTL

\* D-09: a session has at most one controller, and the controller field, the
\* lease roles and the lease table never disagree about who it is.
THEOREM SingleController == Spec => []ControlRelation
<1>1. IInv => ControlRelation
  BY DEF IInv
<1> QED
  BY <1>1, HostInvariant, PTL

\* A handle resolves to exactly the session whose lease table holds it.
THEOREM HandlesResolve == Spec => []LeaseIndexAgrees
<1>1. IInv => LeaseIndexAgrees
  BY DEF IInv
<1> QED
  BY <1>1, HostInvariant, PTL

\* D-04, D-09: terminal and collected sessions hold no lease, no control, no
\* pending stop and no usable token.
THEOREM TerminalIsSealed == Spec => []TerminalSealed
<1>1. IInv => TerminalSealed
  BY DEF IInv
<1> QED
  BY <1>1, HostInvariant, PTL

\* D-05: a session carries a stop exactly while it is stopping, and a cancel
\* intent only before its bind.
THEOREM StopPipeline == Spec => []StopPipelineConsistent
<1>1. IInv => StopPipelineConsistent
  BY DEF IInv
<1> QED
  BY <1>1, HostInvariant, PTL

\* D-09: revoked control is never held again.
THEOREM RevocationIsFinal == Spec => []RevokedControlStaysVacant
<1>1. IInv => RevokedControlStaysVacant
  BY DEF IInv
<1> QED
  BY <1>1, HostInvariant, PTL
=============================================================================
