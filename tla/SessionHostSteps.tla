---------------------------- MODULE SessionHostSteps ----------------------------
(* Proofs about SessionHost, continued: what one operation may do to control,   *)
(* to an accepted stop and to the lifecycle, from the inductive invariant.      *)
EXTENDS SessionHostProofs, SessionHostControl

-----------------------------------------------------------------------------
(* Control: tokens and the relation move together.                          *)

\* No session gains a controller or a new token.
ControlKept ==
    \A s \in Session : /\ controller'[s] \in {controller[s], NoAttach}
                       /\ token'[s] \in {token[s], Retired}

LEMMA KeptControlSteps ==
    ASSUME ControlKept
    PROVE  \A s \in Session : TokenStep(s) /\ Handover(s)
BY DEF ControlKept, TokenStep, Handover

\* SessionHost::claim_controller rotates the token and installs a handle
\* nobody held, over a controller that is gone or expired.
LEMMA ClaimControl ==
    ASSUME IInv, NEW s \in Session, NEW generation \in {0, 1}, NEW presented \in 1 .. MaxToken,
           NEW a \in AttachId, ClaimController(s, generation, presented, a)
    PROVE  \A r \in Session : TokenStep(r) /\ Handover(r)
<1> USE DEF IInv
<1>1. /\ \/ controller' = [controller EXCEPT ![s] = a] /\ token' = [token EXCEPT ![s] = @ + 1]
         \/ VacateController(s, ExpiredController(s)) /\ UNCHANGED token
      /\ controller[s] # NoAttach => ExpiredController(s) # {}
      /\ token[s] # Retired
      /\ Fresh(a) /\ IsLive(s)
  BY DEF ClaimController, TokenMatches
<1>2. CASE VacateController(s, ExpiredController(s)) /\ UNCHANGED token
  <2>1. ControlKept
    BY <1>2 DEF ControlKept, VacateController, TypeOK
  <2> QED
    BY <2>1, KeptControlSteps
<1>3. CASE controller' = [controller EXCEPT ![s] = a] /\ token' = [token EXCEPT ![s] = @ + 1]
  <2>1. controller[s] # a /\ a # NoAttach
    BY <1>1, IdentifierAssumption DEF Fresh, ControlRelation, LeaseIndexAgrees
  <2>2. ~HasLiveController(s)
    BY <1>1, IdentifierAssumption DEF HasLiveController, ExpiredController, TypeOK
  <2>3. /\ controller'[s] = a /\ token'[s] = token[s] + 1 /\ token[s] \in Nat
        /\ \A r \in Session : r # s => controller'[r] = controller[r] /\ token'[r] = token[r]
    BY <1>3 DEF TypeOK
  <2>4. TokenStep(s) /\ Handover(s)
    BY <1>1, <2>1, <2>2, <2>3 DEF TokenStep, Handover
  <2>5. ASSUME NEW r \in Session, r # s
        PROVE  TokenStep(r) /\ Handover(r)
    BY <2>3, <2>5 DEF TokenStep, Handover
  <2> QED
    BY <2>4, <2>5
<1> QED
  BY <1>1, <1>2, <1>3

\* SessionHost::transfer_control rotates the token and demotes the controller
\* that acted.
LEMMA TransferControlMoves ==
    ASSUME IInv, NEW s \in Session, NEW generation \in {0, 1}, NEW auth \in Authority,
           NEW target \in AttachId, TransferControl(s, generation, auth, target)
    PROVE  \A r \in Session : TokenStep(r) /\ Handover(r)
<1> USE DEF IInv
<1> DEFINE previous == IF auth.lease # NoAttach THEN {auth.lease} ELSE {}
           vacated == IF auth.lease # NoAttach THEN {} ELSE ExpiredController(s)
           Moved == /\ leases' = [leases EXCEPT ![s] = @ \ vacated]
                    /\ role' = [Without(role, previous \cup vacated, "observer")
                                  EXCEPT ![target] = "controller"]
                    /\ controller' = [controller EXCEPT ![s] = target]
                    /\ token' = [token EXCEPT ![s] = @ + 1]
<1>1. /\ Moved \/ (VacateController(s, vacated) /\ UNCHANGED token)
      /\ ActsAsController(s, auth) \/ ActsAsVacantToken(s, auth)
      /\ target \in leases[s] /\ role[target] = "observer" /\ IsLive(s)
  BY DEF TransferControl, AuthorizeControl
<1>2. CASE VacateController(s, vacated) /\ UNCHANGED token
  <2>1. ControlKept
    BY <1>2 DEF ControlKept, VacateController, TypeOK
  <2> QED
    BY <2>1, KeptControlSteps
<1>3. CASE Moved
  <2>1. controller[s] # target /\ target # NoAttach
    BY <1>1, IdentifierAssumption DEF ControlRelation
  <2>2. /\ controller'[s] = target /\ token'[s] = token[s] + 1 /\ token[s] \in Nat
        /\ \A r \in Session : r # s => controller'[r] = controller[r] /\ token'[r] = token[r]
    BY <1>3 DEF TypeOK
  <2>3. token[s] # Retired
    BY <1>1 DEF ActsAsController, Actionable, ActsAsVacantToken, TokenMatches, Authority,
                ControlRelation, RevokedControlStaysVacant
  <2>4. TokenStep(s)
    BY <2>1, <2>2, <2>3 DEF TokenStep
  <2>5. ASSUME HasLiveController(s)
        PROVE  /\ controller[s] \in leases'[s]
               /\ role'[controller[s]] = "observer"
               /\ controller'[s] \in leases[s]
    <3>1. /\ auth.lease \in AttachId /\ auth.lease # NoAttach
          /\ auth.lease \in leases[s] /\ role[auth.lease] = "controller"
      BY <1>1, <2>5 DEF ActsAsController, ActsAsVacantToken, Actionable, Authority
    <3>2. controller[s] = auth.lease
      BY <3>1 DEF ControlRelation
    <3>3. previous = {auth.lease} /\ vacated = {}
      BY <3>1
    <3> HIDE DEF previous, vacated
    <3>4. role'[auth.lease] = "observer"
      BY <1>3, <2>1, <3>1, <3>2, <3>3 DEF Without, TypeOK
    <3> QED
      BY <1>1, <1>3, <2>2, <3>1, <3>2, <3>3, <3>4 DEF TypeOK
  <2>6. Handover(s)
    BY <1>1, <2>2, <2>5 DEF Handover
  <2>7. ASSUME NEW r \in Session, r # s
        PROVE  TokenStep(r) /\ Handover(r)
    BY <2>2, <2>7 DEF TokenStep, Handover
  <2> QED
    BY <2>4, <2>6, <2>7
<1> QED
  BY <1>1, <1>2, <1>3

\* Every operation of the host moves tokens and control together.
LEMMA ControlMoves ==
    ASSUME IInv, [Next]_vars
    PROVE  \A r \in Session : TokenStep(r) /\ Handover(r)
<1> USE DEF IInv
<1>1. CASE UNCHANGED vars
  <2>1. ControlKept
    BY <1>1 DEF ControlKept, vars, controlVars
  <2> QED
    BY <2>1, KeptControlSteps
<1>2. CASE Tick
  <2>1. ControlKept
    BY <1>2 DEF Tick, ControlKept, controlVars
  <2> QED
    BY <2>1, KeptControlSteps
<1>3. CASE ExpireDue
  <2>1. ControlKept
    BY <1>3 DEF ExpireDue, ControlKept
  <2> QED
    BY <2>1, KeptControlSteps
<1>4. CASE CollectRetained
  <2>1. ControlKept
    BY <1>4 DEF CollectRetained, ControlKept
  <2> QED
    BY <2>1, KeptControlSteps
<1>5. ASSUME NEW s \in Session, Create(s)
      PROVE  \A r \in Session : TokenStep(r) /\ Handover(r)
  <2>1. ~IsLive(s) /\ controller' = controller
    BY <1>5 DEF Create, IsLive, Live
  <2>2. \A r \in Session : r # s => token'[r] = token[r]
    BY <1>5 DEF Create, TypeOK
  <2> QED
    BY <2>1, <2>2 DEF TokenStep, Handover
<1>6. ASSUME NEW s \in Session, \/ DiscardCreated(s) \/ Bind(s)
                                \/ RecordGrantMutation(s) \/ EscalateAbort(s)
      PROVE  ControlKept
  BY <1>6 DEF DiscardCreated, Bind, RecordGrantMutation, EscalateAbort, ControlKept, controlVars,
              TypeOK
<1>7. ASSUME NEW s \in Session, NEW a \in AttachId, \/ AttachObserver(s, a) \/ OperatorDetach(s, a)
                                                    \/ \E auth \in Authority : ConsumerDetach(s, a, auth)
      PROVE  ControlKept
  BY <1>7 DEF AttachObserver, OperatorDetach, ConsumerDetach, VacateController, ControlKept, TypeOK
<1>8. ASSUME NEW s \in Session, NEW reason, NEW cleanup, FinishTerminal(s, reason, cleanup)
      PROVE  ControlKept
  BY <1>8 DEF FinishTerminal, ControlKept, controlVars, TypeOK
<1>9. ASSUME NEW s \in Session, NEW cleanup \in Cleanup,
             \/ CompletePreBindCancel(s, cleanup)
             \/ \E o \in Observation : RecordTermination(s, o, cleanup)
      PROVE  ControlKept
  BY <1>8, <1>9 DEF CompletePreBindCancel, RecordTermination
<1>10. ASSUME NEW s \in Session, NEW generation \in {0, 1},
              \/ \E auth \in Authority, r \in {"consumer_cancel", "consumer_timeout"} :
                   Abort(s, generation, auth, r)
              \/ \E r \in {"operator_abort", "daemon_stop", "host_shutdown"} :
                   OperatorStop(s, generation, r)
              \/ Kill(s, generation)
       PROVE  ControlKept
  BY <1>10 DEF Abort, OperatorStop, CommitStop, Kill, ControlKept, controlVars
<1>11. ASSUME NEW a \in AttachId, Heartbeat(a) \/ RecordResize(a)
       PROVE  ControlKept
  BY <1>11 DEF Heartbeat, RecordResize, ControlKept, controlVars
<1> QED
  BY <1>1, <1>2, <1>3, <1>4, <1>5, <1>6, <1>7, <1>9, <1>10, <1>11,
     ClaimControl, TransferControlMoves, KeptControlSteps DEF Next

\* D-09: a token changes only with a new holder or by being retired for good.
THEOREM TokenRotation == Spec => TokenRotatesWithControl
<1>1. IInv /\ [Next]_vars => [\A s \in Session : TokenStep(s)]_vars
  BY ControlMoves
<1> QED
  BY <1>1, HostInvariant, PTL DEF Spec, TokenRotatesWithControl

\* D-09: control reaches a lease only with a fresh token, and a live controller
\* is never displaced, only demoted by its own transfer.
THEOREM ControlIsHandedOver == Spec => ControlHandover
<1>1. IInv /\ [Next]_vars => [\A s \in Session : Handover(s)]_vars
  BY ControlMoves
<1> QED
  BY <1>1, HostInvariant, PTL DEF Spec, ControlHandover

-----------------------------------------------------------------------------
(* An accepted stop is irrevocable.                                         *)

LEMMA UntouchedStop ==
    ASSUME IInv, IInv', UNCHANGED <<stop, cancel>>
    PROVE  \A s \in Session : StopStep(s)
<1>1. ASSUME NEW s \in Session
      PROVE  stop[s].deadline \in Nat
  BY DEF IInv, TypeOK
<1>2. \A s \in Session : cancel[s] # NoCancel => record'[s].state = "created"
  BY DEF IInv, StopPipelineConsistent
<1> QED
  BY <1>1, <1>2 DEF StopStep

\* A stop, cancel or escalation that the host accepts keeps an earlier one.
LEMMA AcceptedKeepsStop ==
    ASSUME IInv, NEW s \in Session, NEW why \in StopReason, Accepted(s, why), cancel[s] = NoCancel,
           record[s].state = "stopping" =>
               stop'[s].deadline \in {stop[s].deadline, now}
    PROVE  \A r \in Session : StopStep(r)
<1> USE DEF IInv
<1>1. \A r \in Session : stop[r].deadline \in Nat
  BY DEF TypeOK
<1>2. ASSUME NEW r \in Session, r # s
      PROVE  stop'[r] = stop[r] /\ cancel'[r] = cancel[r] /\ record'[r] = record[r]
  BY <1>2 DEF Accepted, TypeOK
<1>3. \A r \in Session : r # s => StopStep(r)
  BY <1>1, <1>2 DEF StopStep, StopPipelineConsistent
<1>4. StopStep(s)
  <2>1. ASSUME record[s].state = "stopping"
        PROVE  stop'[s].reason = stop[s].reason /\ stop'[s].escalated
    BY <2>1 DEF Accepted, TypeOK
  <2> QED
    BY <1>1, <2>1 DEF StopStep
<1> QED
  BY <1>3, <1>4

\* SessionHost::finish_terminal under the reason of the accepted stop.
LEMMA FinishKeepsStop ==
    ASSUME IInv, IInv', NEW s \in Session, NEW reason \in Reason, NEW cleanup \in Cleanup,
           FinishTerminal(s, reason, cleanup),
           record[s].state = "stopping" => reason = stop[s].reason,
           cancel[s] # NoCancel => reason = cancel[s]
    PROVE  \A r \in Session : StopStep(r)
<1> DEFINE detached == Detach(record[s], Cardinality(leases[s]))
           frozen == [detached EXCEPT !.state = TerminalState(reason),
                                      !.revision = @ + 1,
                                      !.reason = reason,
                                      !.cleanup = cleanup,
                                      !.terminalizedAt = now]
           retained == Retained \cup {s}
           Frozen(evicted) ==
               record' = [r \in Session |->
                            IF r \in evicted THEN Blank("collected")
                            ELSE IF r = s THEN frozen ELSE record[r]]
           Sealed == /\ stop' = [stop EXCEPT ![s] = NoStop]
                     /\ cancel' = [cancel EXCEPT ![s] = NoCancel]
<1>1. \/ /\ \E evicted \in CapEvictions(retained, [r \in retained |->
                               IF r = s THEN now ELSE record[r].terminalizedAt]) :
                Frozen(evicted)
         /\ Sealed
      \/ UNCHANGED <<stop, cancel>>
  BY DEF FinishTerminal, stopVars
<1>2. CASE Sealed /\ \E evicted \in SUBSET retained : Frozen(evicted)
  <2>1. PICK evicted \in SUBSET retained : Frozen(evicted)
    BY <1>2
  <2>2. frozen.state = TerminalState(reason) /\ frozen.reason = reason
    <3>1. detached \in Record
      BY HandleSets, DetachKeeps DEF IInv, TypeOK
    <3> HIDE DEF detached
    <3> QED
      BY <3>1 DEF Record
  <2>3. TerminalState(reason) \in Terminal
    BY TerminalStates
  <2>4. Blank("collected").state = "collected"
    BY DEF Blank
  <2>5. \A r \in evicted : r = s \/ record[r].state \in Terminal
    BY DEF Retained
  <2>6. reason \in StopReason => TerminalState(reason) = "terminated"
    BY DEF TerminalState, StopReason
  <2> HIDE DEF frozen, retained
  <2>7. \/ record'[s] = frozen
        \/ record'[s].state = "collected"
    BY <2>1, <2>4
  <2>8. StopStep(s)
    <3>1. cancel[s] # NoCancel => cancel[s] \in StopReason /\ record[s].state = "created"
      BY DEF IInv, TypeOK, StopPipelineConsistent
    <3> QED
      BY <2>2, <2>3, <2>6, <2>7, <3>1 DEF StopStep
  <2>9. ASSUME NEW r \in Session, r # s
        PROVE  StopStep(r)
    <3>1. stop'[r] = stop[r] /\ cancel'[r] = cancel[r] /\ stop[r].deadline \in Nat
      BY <1>2, <2>9 DEF IInv, TypeOK
    <3>2. cancel[r] # NoCancel => record'[r].state = "created"
      BY <3>1 DEF IInv, StopPipelineConsistent
    <3> QED
      BY <3>1, <3>2 DEF StopStep
  <2> QED
    BY <2>8, <2>9
<1>3. CASE UNCHANGED <<stop, cancel>>
  BY <1>3, UntouchedStop
<1> QED
  <2> HIDE DEF Frozen, Sealed
  <2>1. \/ Sealed /\ \E evicted \in SUBSET retained : Frozen(evicted)
        \/ UNCHANGED <<stop, cancel>>
    BY <1>1 DEF CapEvictions
  <2> QED
    BY <2>1, <1>2, <1>3

\* Every operation of the host keeps an accepted stop or cancel to its end.
LEMMA StopMoves ==
    ASSUME IInv, [Next]_vars
    PROVE  \A r \in Session : StopStep(r)
<1>1. IInv'
  BY NextIInv
<1> DEFINE Kept == UNCHANGED <<stop, cancel>>
<1>2. CASE UNCHANGED vars \/ Tick \/ ExpireDue
  <2>1. Kept
    BY <1>2 DEF vars, stopVars, Tick, ExpireDue
  <2> QED
    BY <2>1, <1>1, UntouchedStop
<1>3. CASE CollectRetained
  <2>1. ASSUME NEW r \in Session,
               record[r].state = "stopping" \/ cancel[r] # NoCancel
        PROVE  stop'[r] = stop[r] /\ cancel'[r] = cancel[r]
    <3>1. record[r].state \in Live
      BY <2>1 DEF IInv, StopPipelineConsistent, Live
    <3>2. r \in hosted /\ r \notin Retained /\ record[r].state \notin Absent
      BY <3>1 DEF IInv, Hosted, Live, Absent, Retained, Terminal
    <3> QED
      BY <1>3, <3>2 DEF CollectRetained
  <2>2. \A r \in Session : stop[r].deadline \in Nat
    BY DEF IInv, TypeOK
  <2>3. \A r \in Session : cancel'[r] # NoCancel => record'[r].state = "created"
    BY <1>1 DEF IInv, StopPipelineConsistent
  <2> QED
    BY <2>1, <2>2, <2>3 DEF StopStep
<1>4. ASSUME NEW s \in Session, Create(s) \/ Bind(s) \/ RecordGrantMutation(s)
      PROVE  Kept
  BY <1>4 DEF Create, Bind, RecordGrantMutation, stopVars
<1>5. ASSUME NEW s \in Session, DiscardCreated(s)
      PROVE  \A r \in Session : StopStep(r)
  <2>1. record'[s].state = "collected" /\ stop' = stop
    BY <1>5 DEF DiscardCreated, IInv, TypeOK, Blank
  <2>2. \A r \in Session : r # s => cancel'[r] = cancel[r]
    BY <1>5 DEF DiscardCreated, IInv, TypeOK
  <2>3. \A r \in Session : stop[r].deadline \in Nat
    BY DEF IInv, TypeOK
  <2>4. \A r \in Session : cancel'[r] # NoCancel => record'[r].state = "created"
    BY <1>1 DEF IInv, StopPipelineConsistent
  <2> QED
    BY <2>1, <2>2, <2>3, <2>4 DEF StopStep
<1>6. ASSUME NEW s \in Session, EscalateAbort(s)
      PROVE  \A r \in Session : StopStep(r)
  <2>1. record[s].state = "stopping" /\ cancel[s] = NoCancel
    BY <1>6 DEF EscalateAbort, IInv, StopComplete, StopPipelineConsistent
  <2>2. stop[s].deadline \in Nat /\ "operator_abort" \in StopReason
    BY DEF IInv, TypeOK, StopReason
  <2>3. Accepted(s, "operator_abort") /\ stop'[s].deadline = stop[s].deadline
    BY <1>6, <2>1, <2>2 DEF EscalateAbort, Accepted, Escalated, IInv, TypeOK
  <2> QED
    BY <2>1, <2>2, <2>3, AcceptedKeepsStop
<1>7. ASSUME NEW s \in Session, NEW a \in AttachId,
             \/ AttachObserver(s, a) \/ OperatorDetach(s, a)
             \/ \E auth \in Authority : ConsumerDetach(s, a, auth)
             \/ \E generation \in {0, 1}, p \in 1 .. MaxToken : ClaimController(s, generation, p, a)
             \/ \E generation \in {0, 1}, auth \in Authority : TransferControl(s, generation, auth, a)
             \/ Heartbeat(a) \/ RecordResize(a)
      PROVE  Kept
  BY <1>7 DEF AttachObserver, OperatorDetach, ConsumerDetach, ClaimController, TransferControl,
              Heartbeat, RecordResize, stopVars
<1>8. ASSUME NEW s \in Session, NEW reason \in StopReason, NEW grace \in Nat, NEW renewed,
             CommitStop(s, reason, grace, renewed)
      PROVE  \A r \in Session : StopStep(r)
  <2>1. now + grace \in Nat
    BY DEF IInv, TypeOK
  <2>2. /\ Accepted(s, reason) /\ cancel[s] = NoCancel /\ record[s].state # "stopping"
    BY <1>8, <2>1 DEF CommitStop, Accepted
  <2> QED
    BY <2>2, AcceptedKeepsStop
<1>9. ASSUME NEW s \in Session, NEW generation \in {0, 1}, Kill(s, generation)
      PROVE  \A r \in Session : StopStep(r)
  <2>1. now \in Nat /\ "operator_abort" \in StopReason
    BY DEF IInv, TypeOK, StopReason
  <2>2. Accepted(s, "operator_abort") /\ cancel[s] = NoCancel
    BY <1>9, <2>1 DEF Kill, Accepted, Escalated
  <2>3. record[s].state = "stopping" => stop' = [stop EXCEPT ![s] = Escalated(@.reason, now)]
    BY <1>9 DEF Kill
  <2>4. record[s].state = "stopping" => stop'[s].deadline = now
    BY <2>3 DEF Escalated, IInv, TypeOK
  <2> QED
    BY <2>1, <2>2, <2>4, AcceptedKeepsStop
<1>10. ASSUME NEW s \in Session, NEW generation \in {0, 1},
              \/ \E auth \in Authority, r \in {"consumer_cancel", "consumer_timeout"} :
                   Abort(s, generation, auth, r)
              \/ \E r \in {"operator_abort", "daemon_stop", "host_shutdown"} :
                   OperatorStop(s, generation, r)
       PROVE  \A r \in Session : StopStep(r)
  <2>1. CASE \E auth \in Authority, r \in {"consumer_cancel", "consumer_timeout"} :
               Abort(s, generation, auth, r)
    <3>1. PICK auth \in Authority, r \in {"consumer_cancel", "consumer_timeout"} :
            CommitStop(s, r, AbortGrace, {auth.lease})
      BY <2>1 DEF Abort
    <3>2. r \in StopReason
      BY DEF StopReason
    <3> QED
      BY <3>1, <3>2, <1>8, LimitAssumption
  <2>2. CASE \E r \in {"operator_abort", "daemon_stop", "host_shutdown"} :
               OperatorStop(s, generation, r)
    <3>1. PICK r \in {"operator_abort", "daemon_stop", "host_shutdown"} :
            CommitStop(s, r, IF r = "operator_abort" THEN AbortGrace ELSE DrainGrace, {})
      BY <2>2 DEF OperatorStop
    <3>2. r \in StopReason
      BY DEF StopReason
    <3>3. (IF r = "operator_abort" THEN AbortGrace ELSE DrainGrace) \in Nat
      BY LimitAssumption
    <3> QED
      BY <3>1, <3>2, <3>3, <1>8
  <2> QED
    BY <1>10, <2>1, <2>2
<1>11. ASSUME NEW s \in Session, NEW cleanup \in Cleanup, CompletePreBindCancel(s, cleanup)
       PROVE  \A r \in Session : StopStep(r)
  <2>1. /\ cancel[s] \in Reason /\ record[s].state = "created"
        /\ FinishTerminal(s, cancel[s], cleanup)
    BY <1>11 DEF CompletePreBindCancel, IInv, TypeOK, Reason, NoCancel
  <2> QED
    BY <2>1, <1>1, FinishKeepsStop
<1>12. ASSUME NEW s \in Session, NEW cleanup \in Cleanup, NEW o \in Observation,
              RecordTermination(s, o, cleanup)
       PROVE  \A r \in Session : StopStep(r)
  <2> DEFINE reason == ObservedReason(s, o)
  <2>1. stop[s].reason \in StopReason \cup {"none"}
    BY DEF IInv, TypeOK
  <2>2. reason \in Reason \cup {"none"}
    BY <2>1 DEF ObservedReason, Reason, WorkerReason
  <2>3. reason # "none" /\ FinishTerminal(s, reason, cleanup) /\ cancel[s] = NoCancel
    BY <1>12 DEF RecordTermination
  <2>4. record[s].state = "stopping" => reason = stop[s].reason
    <3>1. record[s].state = "stopping" => reason # "spawn_failed"
      BY <2>3 DEF FinishTerminal, CanTerminateFrom
    <3> QED
      BY <3>1 DEF ObservedReason
  <2> HIDE DEF reason
  <2> QED
    BY <1>1, <2>2, <2>3, <2>4, FinishKeepsStop
<1> QED
  BY <1>1, <1>2, <1>3, <1>4, <1>5, <1>6, <1>7, <1>9, <1>10, <1>11, <1>12, UntouchedStop DEF Next

\* D-05: an accepted stop or cancel survives every later stop, kill and change
\* of control, and the terminal record carries exactly its reason.
THEOREM StopIsIrrevocable == Spec => StopIrrevocable
<1>1. IInv /\ [Next]_vars => [\A s \in Session : StopStep(s)]_vars
  BY StopMoves
<1> QED
  BY <1>1, HostInvariant, PTL DEF Spec, StopIrrevocable

-----------------------------------------------------------------------------
(* The lifecycle.                                                           *)

\* A session without due leases loses nothing in a sweep.
LEMMA DetachNothing ==
    ASSUME NEW rec \in Record
    PROVE  Detach(rec, 0) = rec
<1>1. rec.revision \in 0 .. MaxRevision /\ rec.attachCount \in Nat /\ MaxRevision \in Nat
  BY LimitAssumption DEF Record
<1>2. Min2(Detachable(rec, 0), rec.attachCount) = 0
  BY <1>1 DEF Min2, Detachable
<1>3. rec.revision + 0 = rec.revision /\ rec.attachCount - 0 = rec.attachCount
  BY <1>1
<1>4. Detach(rec, 0) = [[rec EXCEPT !.revision = rec.revision] EXCEPT !.attachCount = rec.attachCount]
  BY <1>2, <1>3 DEF Detach
<1> QED
  BY <1>4 DEF Record

\* A session id leaves "unissued" only when it is created.
Issue(s) == record[s].state = "unissued" => record'[s].state = "unissued" \/ Create(s)
Forward(s) == LifecycleStep(s) /\ Issue(s)

\* Only live records change, and they keep their lifecycle state.
LiveOnly ==
    \A r \in Session : /\ record'[r].state = record[r].state
                       /\ ~IsLive(r) => record'[r] = record[r]

LEMMA LiveOnlySteps ==
    ASSUME LiveOnly
    PROVE  \A r \in Session : Forward(r)
BY DEF LiveOnly, Forward, Issue, LifecycleStep, IsLive, Live, Terminal

\* The operations that leave every lifecycle state alone.
LEMMA RecordKept ==
    ASSUME TypeOK,
           \/ record' = record
           \/ \E s \in Session :
                /\ IsLive(s)
                /\ \/ CanBump(record[s]) /\ record' = [record EXCEPT ![s] = Bump(record[s])]
                   \/ \E n \in Nat : record' = [record EXCEPT ![s] = Detach(record[s], n)]
                   \/ \E n \in Nat :
                        /\ CanBump(Detach(record[s], n))
                        /\ \/ record' = [record EXCEPT ![s] = Attach(Detach(record[s], n))]
                           \/ record' = [record EXCEPT ![s] = Bump(Detach(record[s], n))]
    PROVE  LiveOnly
<1>1. CASE record' = record
  BY <1>1 DEF LiveOnly
<1>2. ASSUME NEW s \in Session, IsLive(s),
             \/ CanBump(record[s]) /\ record' = [record EXCEPT ![s] = Bump(record[s])]
             \/ \E n \in Nat : record' = [record EXCEPT ![s] = Detach(record[s], n)]
             \/ \E n \in Nat :
                  /\ CanBump(Detach(record[s], n))
                  /\ \/ record' = [record EXCEPT ![s] = Attach(Detach(record[s], n))]
                     \/ record' = [record EXCEPT ![s] = Bump(Detach(record[s], n))]
      PROVE  LiveOnly
  <2>1. \A r \in Session : record'[r].state = record[r].state
    BY <1>2, BumpRecord, DetachRecord, SweptRecord
  <2>2. \A r \in Session : r # s => record'[r] = record[r]
    BY <1>2 DEF TypeOK
  <2> QED
    BY <1>2, <2>1, <2>2 DEF LiveOnly
<1> QED
  BY <1>1, <1>2

\* The stop pipeline moves one session forward.
LEMMA AcceptedLifecycle ==
    ASSUME IInv, NEW s \in Session, NEW why, Accepted(s, why)
    PROVE  \A r \in Session : Forward(r)
<1>1. TypeOK
  BY DEF IInv
<1>2. CASE record' = record
  BY <1>1, <1>2, RecordKept, LiveOnlySteps
<1>3. CASE /\ record[s].state = "running" /\ CanBump(record[s])
           /\ record' = [record EXCEPT ![s] = Stopping(record[s])]
  <2>1. record'[s].state = "stopping"
    BY <1>1, <1>3, BumpKeeps DEF TypeOK
  <2>2. \A r \in Session : r # s => record'[r] = record[r]
    BY <1>1, <1>3 DEF TypeOK
  <2> QED
    BY <1>3, <2>1, <2>2 DEF Forward, Issue, LifecycleStep, Terminal
<1> QED
  BY <1>2, <1>3 DEF Accepted

\* SessionHost::finish_terminal only enters a terminal state the lifecycle
\* allows, and evicts terminal records.
LEMMA FinishLifecycle ==
    ASSUME IInv, NEW s \in Session, NEW reason \in Reason, NEW cleanup \in Cleanup,
           FinishTerminal(s, reason, cleanup)
    PROVE  \A r \in Session : Forward(r)
<1> DEFINE n == Cardinality(leases[s])
           detached == Detach(record[s], n)
           frozen == [detached EXCEPT !.state = TerminalState(reason),
                                      !.revision = @ + 1,
                                      !.reason = reason,
                                      !.cleanup = cleanup,
                                      !.terminalizedAt = now]
           retained == Retained \cup {s}
           Frozen(evicted) ==
               record' = [r \in Session |->
                            IF r \in evicted THEN Blank("collected")
                            ELSE IF r = s THEN frozen ELSE record[r]]
<1>1. TypeOK /\ n \in Nat /\ IsLive(s)
  BY HandleSets DEF IInv, TypeOK, FinishTerminal, AllowsTerminal, IsLive, Live
<1>2. AllowsTerminal(record[s].state, TerminalState(reason))
  BY DEF FinishTerminal
<1>3. \/ \E evicted \in CapEvictions(retained, [r \in retained |->
                               IF r = s THEN now ELSE record[r].terminalizedAt]) :
           Frozen(evicted)
      \/ record' = [record EXCEPT ![s] = detached]
  BY DEF FinishTerminal
<1>4. CASE record' = [record EXCEPT ![s] = detached]
  BY <1>1, <1>4, RecordKept, LiveOnlySteps
<1>5. CASE \E evicted \in SUBSET retained : Frozen(evicted)
  <2>1. PICK evicted \in SUBSET retained : Frozen(evicted)
    BY <1>5
  <2>2. frozen.state = TerminalState(reason)
    <3>1. detached \in Record
      BY <1>1, DetachKeeps DEF TypeOK
    <3> HIDE DEF detached
    <3> QED
      BY <3>1 DEF Record
  <2>3. Blank("collected").state = "collected"
    BY DEF Blank
  <2>4. \A r \in evicted : r = s \/ record[r].state \in Terminal
    BY DEF Retained
  <2> HIDE DEF frozen, retained
  <2>5. record'[s].state \in {TerminalState(reason), "collected"}
    BY <2>1, <2>2, <2>3
  <2>6. Forward(s)
    BY <1>2, <2>5 DEF Forward, Issue, LifecycleStep, AllowsTerminal, Terminal
  <2>7. ASSUME NEW r \in Session, r # s
        PROVE  Forward(r)
    <3>1. \/ record'[r] = record[r]
          \/ record[r].state \in Terminal /\ record'[r].state = "collected"
      BY <2>1, <2>3, <2>4, <2>7
    <3> QED
      BY <3>1 DEF Forward, Issue, LifecycleStep, Terminal
  <2> QED
    BY <2>6, <2>7
<1> QED
  <2> HIDE DEF Frozen
  <2> QED
    BY <1>3, <1>4, <1>5 DEF CapEvictions

\* SessionHost::expire_due detaches leases of live sessions only.
LEMMA ExpireDueLifecycle ==
    ASSUME IInv, ExpireDue
    PROVE  LiveOnly
<1> USE DEF IInv
<1>1. PICK swept \in [hosted -> SUBSET AttachId] :
        /\ \A s \in hosted : swept[s] \in SweepOutcomes(s)
        /\ record' = [s \in Session |->
                        Detach(record[s], Cardinality(IF s \in hosted THEN swept[s] ELSE {}))]
  BY DEF ExpireDue
<1> DEFINE Swept(s) == IF s \in hosted THEN swept[s] ELSE {}
<1>2. Cardinality({}) = 0
  BY FS_EmptySet
<1>3. \A s \in Session : Swept(s) \subseteq leases[s] /\ Cardinality(Swept(s)) \in Nat
  BY <1>1, <1>2, HandleSets
<1>4. record' = [s \in Session |-> Detach(record[s], Cardinality(Swept(s)))]
  BY <1>1
<1> HIDE DEF Swept
<1>5. ASSUME NEW s \in Session
      PROVE  record'[s].state = record[s].state
  BY <1>3, <1>4, DetachKeeps DEF TypeOK
<1>6. ASSUME NEW s \in Session, ~IsLive(s)
      PROVE  record'[s] = record[s]
  <2>1. Swept(s) = {}
    BY <1>3, <1>6 DEF TerminalSealed
  <2> QED
    BY <1>2, <1>4, <2>1, DetachNothing DEF TypeOK
<1> QED
  BY <1>5, <1>6 DEF LiveOnly

\* Every operation of the host moves every lifecycle forward.
LEMMA LifecycleMoves ==
    ASSUME IInv, [Next]_vars
    PROVE  \A r \in Session : Forward(r)
<1> USE DEF IInv
<1>1. CASE UNCHANGED vars \/ Tick
  BY <1>1, RecordKept, LiveOnlySteps DEF vars, Tick
<1>2. CASE ExpireDue
  BY <1>2, ExpireDueLifecycle, LiveOnlySteps
<1>3. CASE CollectRetained
  <2>1. \A r \in Session : \/ record'[r] = record[r]
                           \/ record[r].state \in Terminal /\ record'[r].state = "collected"
    BY <1>3 DEF CollectRetained, Retained, Blank
  <2> QED
    BY <2>1 DEF Forward, Issue, LifecycleStep, Terminal
<1>4. ASSUME NEW s \in Session, Create(s) \/ DiscardCreated(s) \/ Bind(s)
      PROVE  \A r \in Session : Forward(r)
  <2>1. \A r \in Session : r # s => record'[r] = record[r]
    BY <1>4 DEF Create, DiscardCreated, Bind, TypeOK
  <2>2. \A r \in Session : r # s => Forward(r)
    BY <2>1 DEF Forward, Issue, LifecycleStep, Terminal
  <2>3. CASE Create(s)
    BY <2>3 DEF Create, Forward, Issue, LifecycleStep, Blank, Terminal, TypeOK
  <2>4. CASE DiscardCreated(s)
    BY <2>4 DEF DiscardCreated, Forward, Issue, LifecycleStep, Blank, Terminal, TypeOK
  <2>5. CASE Bind(s)
    <3>1. record'[s].state = "running"
      BY <2>5, BumpKeeps DEF Bind, TypeOK
    <3> QED
      BY <2>5, <3>1 DEF Bind, Forward, Issue, LifecycleStep, Terminal
  <2> QED
    BY <1>4, <2>2, <2>3, <2>4, <2>5
<1>5. ASSUME NEW s \in Session, RecordGrantMutation(s)
      PROVE  LiveOnly
  BY <1>5, RecordKept DEF RecordGrantMutation
<1>6. ASSUME NEW s \in Session, NEW a \in AttachId,
             OperatorDetach(s, a) \/ \E auth \in Authority : ConsumerDetach(s, a, auth)
      PROVE  LiveOnly
  BY <1>6, RecordKept DEF OperatorDetach, ConsumerDetach
<1>7. ASSUME NEW s \in Session, NEW a \in AttachId, AttachObserver(s, a)
      PROVE  LiveOnly
  <2>1. PICK swept \in SweepOutcomes(s) :
          \/ /\ CanBump(Detach(record[s], Cardinality(swept)))
             /\ record' = [record EXCEPT ![s] = Attach(Detach(record[s], Cardinality(swept)))]
          \/ record' = [record EXCEPT ![s] = Detach(record[s], Cardinality(swept))]
    BY <1>7 DEF AttachObserver
  <2>2. Cardinality(swept) \in Nat /\ IsLive(s)
    BY <1>7, HandleSets DEF AttachObserver
  <2> QED
    BY <2>1, <2>2, RecordKept
<1>8. ASSUME NEW s \in Session, NEW A, A \in SUBSET AttachId, IsLive(s),
             \/ /\ CanBump(Detach(record[s], Cardinality(A)))
                /\ \/ record' = [record EXCEPT ![s] = Attach(Detach(record[s], Cardinality(A)))]
                   \/ record' = [record EXCEPT ![s] = Bump(Detach(record[s], Cardinality(A)))]
             \/ record' = [record EXCEPT ![s] = Detach(record[s], Cardinality(A))]
      PROVE  LiveOnly
  <2>1. Cardinality(A) \in Nat
    BY <1>8, HandleSets
  <2> QED
    BY <1>8, <2>1, RecordKept
<1>9. ASSUME NEW s \in Session, NEW a \in AttachId, NEW generation \in {0, 1},
             NEW p \in 1 .. MaxToken, ClaimController(s, generation, p, a)
      PROVE  LiveOnly
  <2>1. ExpiredController(s) \in SUBSET AttachId
    BY DEF ExpiredController, TypeOK
  <2> QED
    BY <1>8, <1>9, <2>1 DEF ClaimController
<1>10. ASSUME NEW s \in Session, NEW a \in AttachId, NEW generation \in {0, 1},
              NEW auth \in Authority, TransferControl(s, generation, auth, a)
       PROVE  LiveOnly
  <2>1. (IF auth.lease # NoAttach THEN {} ELSE ExpiredController(s)) \in SUBSET AttachId
    BY DEF ExpiredController, TypeOK
  <2> QED
    BY <1>8, <1>10, <2>1 DEF TransferControl, AuthorizeControl
<1>11. ASSUME NEW a \in AttachId, Heartbeat(a) \/ RecordResize(a)
       PROVE  LiveOnly
  <2>1. CASE Heartbeat(a)
    BY <2>1, RecordKept DEF Heartbeat
  <2>2. CASE RecordResize(a)
    BY <2>2, RecordKept DEF RecordResize, TypeOK
  <2> QED
    BY <1>11, <2>1, <2>2
<1>12. ASSUME NEW s \in Session, NEW reason, NEW grace, NEW renewed, grace \in Nat,
              CommitStop(s, reason, grace, renewed)
       PROVE  \A r \in Session : Forward(r)
  <2>1. now + grace \in Nat
    BY <1>12 DEF TypeOK
  <2>2. Accepted(s, reason)
    BY <1>12, <2>1 DEF CommitStop, Accepted
  <2> QED
    BY <2>2, AcceptedLifecycle
<1>13. ASSUME NEW s \in Session, NEW generation \in {0, 1},
              \/ \E auth \in Authority, r \in {"consumer_cancel", "consumer_timeout"} :
                   Abort(s, generation, auth, r)
              \/ \E r \in {"operator_abort", "daemon_stop", "host_shutdown"} :
                   OperatorStop(s, generation, r)
       PROVE  \A r \in Session : Forward(r)
  <2>1. AbortGrace \in Nat /\ DrainGrace \in Nat
    BY LimitAssumption
  <2> QED
    BY <1>12, <1>13, <2>1 DEF Abort, OperatorStop
<1>14. ASSUME NEW s \in Session, NEW generation \in {0, 1}, Kill(s, generation)
       PROVE  \A r \in Session : Forward(r)
  <2>1. now \in Nat
    BY DEF TypeOK
  <2>2. Accepted(s, "operator_abort")
    BY <1>14, <2>1 DEF Kill, Accepted, Escalated
  <2> QED
    BY <2>2, AcceptedLifecycle
<1>15. ASSUME NEW s \in Session, EscalateAbort(s)
       PROVE  LiveOnly
  BY <1>15, RecordKept DEF EscalateAbort
<1>16. ASSUME NEW s \in Session, NEW cleanup \in Cleanup,
              \/ CompletePreBindCancel(s, cleanup)
              \/ \E o \in Observation : RecordTermination(s, o, cleanup)
       PROVE  \A r \in Session : Forward(r)
  <2>1. \A r \in StopReason \cup {"none"} : r # "none" => r \in Reason
    BY DEF Reason
  <2>2. cancel[s] \in StopReason \cup {"none"} /\ stop[s].reason \in StopReason \cup {"none"}
    BY DEF TypeOK, NoCancel
  <2>3. \A o \in Observation : ObservedReason(s, o) \in Reason \cup {"none"}
    BY <2>2 DEF ObservedReason, Reason, WorkerReason
  <2>4. \E reason \in Reason : FinishTerminal(s, reason, cleanup)
    BY <1>16, <2>1, <2>2, <2>3 DEF CompletePreBindCancel, RecordTermination, NoCancel
  <2> QED
    BY <2>4, FinishLifecycle
<1> QED
  BY <1>1, <1>2, <1>3, <1>4, <1>5, <1>6, <1>7, <1>9, <1>10, <1>11, <1>13, <1>14, <1>15, <1>16,
     LiveOnlySteps DEF Next

\* D-04: no session ever returns to an earlier state, a terminal record is
\* immutable, and a collected id is never live again.
THEOREM LifecycleMovesForward == Spec => LifecycleForward
<1>1. IInv /\ [Next]_vars => [\A s \in Session : LifecycleStep(s)]_vars
  BY LifecycleMoves DEF Forward
<1> QED
  BY <1>1, HostInvariant, PTL DEF Spec, LifecycleForward

-----------------------------------------------------------------------------
(* The control relation implements Control.                                 *)

\* Before the first request no session is open.
LEMMA ControlInit == Init => Abstract!Init
BY DEF Init, Abstract!Init, ControlPhase, Blank, Retired

\* A live session keeps control open unless it retires the token.
LEMMA ControlStepHolds ==
    ASSUME IInv, IInv', [Next]_vars, NEW s \in Session
    PROVE  \/ Abstract!Keep(s) \/ Abstract!Open(s) \/ Abstract!Grant(s)
           \/ Abstract!Vacate(s) \/ Abstract!Seal(s)
<1> USE DEF Abstract!Keep, Abstract!Open, Abstract!Grant, Abstract!Vacate, Abstract!Seal,
            ControlPhase, Retired
<1>1. TokenStep(s) /\ Handover(s) /\ LifecycleStep(s) /\ Issue(s)
  BY ControlMoves, LifecycleMoves DEF Forward
<1>2. /\ token[s] \in Nat /\ token'[s] \in Nat
      /\ controller[s] \in AttachId \cup {NoAttach} /\ controller'[s] \in AttachId \cup {NoAttach}
  BY DEF IInv, TypeOK
<1>3. /\ ~IsLive(s) => controller[s] = NoAttach /\ token[s] = 0
      /\ ~IsLive(s)' => controller'[s] = NoAttach /\ token'[s] = 0
      /\ token[s] = 0 => controller[s] = NoAttach
      /\ token'[s] = 0 => controller'[s] = NoAttach
  BY DEF IInv, TerminalSealed, RevokedControlStaysVacant, Retired
<1>4. CASE record[s].state = "unissued"
  <2>1. CASE record'[s].state = "unissued"
    BY <1>3, <1>4, <2>1 DEF IsLive, Live
  <2>2. CASE Create(s)
    <3>1. /\ token'[s] = 1 /\ controller' = controller /\ record'[s].state = "created"
      BY <2>2 DEF Create, IInv, TypeOK, Blank
    <3> QED
      BY <1>3, <1>4, <3>1 DEF IsLive, Live
  <2> QED
    BY <1>1, <1>4, <2>1, <2>2 DEF Issue
<1>5. CASE record[s].state # "unissued" /\ token[s] = 0
  <2>1. record'[s].state # "unissued" /\ (IsLive(s)' => IsLive(s))
    BY <1>1, <1>5 DEF LifecycleStep, IsLive, Live, Terminal, IInv, TypeOK, Record, Absent
  <2>2. token'[s] = 0
    BY <1>1, <1>3, <1>5, <2>1 DEF TokenStep
  <2> QED
    BY <1>3, <1>5, <2>1, <2>2
<1>6. CASE record[s].state # "unissued" /\ token[s] # 0
  <2>1. IsLive(s) /\ record'[s].state # "unissued"
    BY <1>1, <1>3, <1>6 DEF LifecycleStep, IsLive, Live
  <2>2. CASE token'[s] = 0
    BY <1>3, <1>6, <2>1, <2>2
  <2>3. CASE token'[s] = token[s]
    BY <1>1, <1>6, <2>1, <2>3 DEF Handover
  <2>4. CASE token'[s] \notin {0, token[s]}
    BY <1>1, <1>2, <1>6, <2>1, <2>4 DEF TokenStep
  <2> QED
    BY <2>2, <2>3, <2>4
<1> QED
  BY <1>4, <1>5, <1>6

\* D-09: every behaviour of the session host is one Control allows.
THEOREM HostImplementsControl == Spec => ImplementsControl
<1>1. Init => Abstract!Init
  BY ControlInit
<1>2. IInv /\ IInv' /\ [Next]_vars => [Abstract!Next]_Abstract!vars
  BY ControlStepHolds DEF Abstract!Next
<1> QED
  BY <1>1, <1>2, HostInvariant, PTL DEF Spec, ImplementsControl, Abstract!Spec
==============================================================================
