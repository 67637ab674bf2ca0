------------------------------ MODULE SessionHost ------------------------------
(***************************************************************************)
(* The session host of bittyd: the session registry                        *)
(* (src/crates/bitty-daemon/src/registry/table.rs) wrapped with the lease   *)
(* table, the control relation and the stop pipeline                       *)
(* (src/crates/bitty-daemon/src/lease/host.rs).                            *)
(*                                                                         *)
(* The daemon holds one `&mut SessionHost`, so every operation is one      *)
(* step; the interleaving is that of the requests of all connections, the  *)
(* supervisor and the timers.  A refused call changes nothing and has no   *)
(* action, except where the code commits part of its work before it        *)
(* refuses (ClaimController, TransferControl, AttachObserver and           *)
(* FinishTerminal when the revision counter is exhausted).                 *)
(*                                                                         *)
(* Abstracted: identifiers are members of a set (128-bit random values in  *)
(* the code), and `Fresh` takes any handle no session holds, so a handle   *)
(* that was given back may be minted again; a control token is the index   *)
(* of its mint within the session; the actor of a request, the owner, the  *)
(* origin and the other reporting fields of a record are left out.         *)
(***************************************************************************)
EXTENDS Integers, FiniteSets

CONSTANTS
    Session,            \* session ids the instance can mint
    AttachId,           \* lease handles the instance can mint
    NoSession,          \* absence of a session
    NoAttach,           \* absence of a lease handle
    MaxSessions,        \* RegistryLimits::max_sessions
    MaxRetained,        \* RegistryLimits::max_retained_terminal_records
    MaxAttaches,        \* LeaseLimits::max_attaches_per_session
    LeaseTtl,           \* LeaseLimits::attach_lease_ttl_ms
    AbortGrace,         \* LeaseLimits::abort_grace_ms
    DrainGrace,         \* LeaseLimits::drain_grace_ms
    TerminalRetention,  \* RegistryLimits::terminal_retention_ms
    Requested,          \* bound: the stop reasons requests carry, StopReason in the code
    MaxRevision,        \* the last value of the u64 state_revision
    MaxToken,           \* bound: control tokens minted for one session
    MaxNow              \* bound: the last instant of the injected clock

ASSUME IdentifierAssumption ==
    /\ NoSession \notin Session
    /\ NoAttach \notin AttachId
    /\ IsFiniteSet(Session)
    /\ IsFiniteSet(AttachId)

ASSUME LimitAssumption ==
    /\ MaxSessions \in Nat
    /\ MaxRetained \in Nat
    /\ MaxAttaches \in Nat
    /\ LeaseTtl \in Nat
    /\ AbortGrace \in Nat
    /\ DrainGrace \in Nat
    /\ TerminalRetention \in Nat
    /\ MaxRevision \in Nat \ {0}
    /\ MaxToken \in Nat \ {0}
    /\ MaxNow \in Nat

VARIABLES
    now,            \* the injected MonotonicMs
    record,         \* SessionRegistry: live and retained records
    hosted,         \* keys of SessionHost::sessions
    token,          \* SessionLeaseState::token, 0 once retired
    controller,     \* SessionLeaseState::controller
    stop,           \* SessionLeaseState::stop
    cancel,         \* SessionLeaseState::cancel
    leases,         \* keys of SessionLeaseState::leases
    role,           \* Lease::role
    expiresAt,      \* Lease::expires_at
    leaseSessions   \* SessionHost::lease_sessions

controlVars == <<token, controller>>
stopVars == <<stop, cancel>>
leaseVars == <<leases, role, expiresAt, leaseSessions>>
vars == <<now, record, hosted, controlVars, stopVars, leaseVars>>

-----------------------------------------------------------------------------
(* The lifecycle (registry/session.rs).  Two states stand for an id with no *)
(* record: not yet minted, and collected or discarded.                      *)

Live == {"created", "running", "stopping"}
Terminal == {"exited", "failed", "terminated"}
Absent == {"unissued", "collected"}

StopReason ==
    {"consumer_cancel", "consumer_timeout", "operator_abort", "daemon_stop", "host_shutdown"}
WorkerReason == {"worker_exit", "worker_signal", "supervision_failed"}
Reason == StopReason \cup WorkerReason \cup {"spawn_failed"}
\* CleanupClass; "swept" stands for unverified too, no operation tells them apart.
Cleanup == {"not_started", "swept"}

\* TerminalReason::terminal_state
TerminalState(reason) ==
    CASE reason = "worker_exit" -> "exited"
      [] reason \in {"worker_signal", "supervision_failed", "spawn_failed"} -> "failed"
      [] reason \in StopReason -> "terminated"

\* LifecycleState::allows_terminal
AllowsTerminal(from, target) ==
    \/ from = "created" /\ target \in {"failed", "terminated"}
    \/ from = "running" /\ target \in {"exited", "failed"}
    \/ from = "stopping" /\ target \in Terminal

\* TerminalReason::can_terminate_from
CanTerminateFrom(reason, from) ==
    /\ reason = "spawn_failed" => from = "created"
    /\ reason \in {"worker_exit", "worker_signal"} => from \in {"running", "stopping"}

Record == [state : Live \cup Terminal \cup Absent,
           generation : {0, 1},
           revision : 0 .. MaxRevision,
           attachCount : Nat,
           reason : Reason \cup {"none"},
           cleanup : Cleanup \cup {"none"},
           terminalizedAt : Nat]

Blank(state) == [state |-> state, generation |-> 0, revision |-> 0, attachCount |-> 0,
                 reason |-> "none", cleanup |-> "none", terminalizedAt |-> 0]

NoStop == [reason |-> "none", deadline |-> 0, escalated |-> FALSE]
Escalated(reason, deadline) == [reason |-> reason, deadline |-> deadline, escalated |-> TRUE]
NoCancel == "none"
Retired == 0

IsLive(s) == record[s].state \in Live
LiveRecords == {s \in Session : IsLive(s)}
Retained == {s \in Session : record[s].state \in Terminal}

Min2(m, n) == IF m < n THEN m ELSE n

-----------------------------------------------------------------------------
(* Leases and authority (lease/record.rs, lease/host.rs).                   *)

Expired(a) == now >= expiresAt[a]
Due(s) == {a \in leases[s] : Expired(a)}
Fresh(a) == leaseSessions[a] = NoSession

\* Mutant of Actionable: the expiry check is missing.
ActionableForever(s, a) == leaseSessions[a] = s /\ a \in leases[s]

\* SessionHost::actionable_lease
Actionable(s, a) ==
    /\ leaseSessions[a] = s
    /\ a \in leases[s]
    /\ ~Expired(a)

\* SessionLeaseState::live_controller, expired_controller
HasLiveController(s) == controller[s] \in leases[s] /\ ~Expired(controller[s])

\* Mutant of ExpiredController: any controller counts as expired.
AnyController(s) == IF controller[s] \in leases[s] THEN {controller[s]} ELSE {}

ExpiredController(s) ==
    IF controller[s] \in leases[s] /\ Expired(controller[s]) THEN {controller[s]} ELSE {}

\* ControlAuthority of a consumer: a lease, a presented token, or both.
Authority == [lease : AttachId \cup {NoAttach}, token : 0 .. MaxToken]

\* Mutant of TokenMatches: a retired slot matches an absent token.
TokenMatchesRetired(s, presented) == presented = token[s]

\* SessionLeaseState::token_matches
TokenMatches(s, presented) == token[s] # Retired /\ presented = token[s]

\* SessionHost::resolve_relation: a named lease decides by its role alone;
\* the token counts only without a lease and while control is vacant.
ActsAsController(s, auth) ==
    /\ auth.lease # NoAttach
    /\ Actionable(s, auth.lease)
    /\ role[auth.lease] = "controller"

ActsAsVacantToken(s, auth) ==
    /\ auth.lease = NoAttach
    /\ ~HasLiveController(s)
    /\ TokenMatches(s, auth.token)

\* SessionHost::authorize_control
AuthorizeControl(s, generation, auth) ==
    /\ IsLive(s)
    /\ record[s].generation = generation
    /\ ActsAsController(s, auth) \/ ActsAsVacantToken(s, auth)

Without(f, A, default) == [a \in DOMAIN f |-> IF a \in A THEN default ELSE f[a]]

\* SessionHost::renew_lease over a set of handles
Renew(A) == [a \in AttachId |-> IF a \in A THEN now + LeaseTtl ELSE expiresAt[a]]

-----------------------------------------------------------------------------
(* Registry arithmetic: every visible mutation needs one more revision.     *)

\* Mutants: an attach is not counted; a detach does not advance the revision.
AttachUncounted(rec) == [rec EXCEPT !.revision = @ + 1]
DetachSilently(rec, n) == [rec EXCEPT !.attachCount = @ - Min2(n, @)]

CanBump(rec) == rec.revision < MaxRevision
Bump(rec) == [rec EXCEPT !.revision = @ + 1]
Attach(rec) == [rec EXCEPT !.revision = @ + 1, !.attachCount = @ + 1]
Bound(rec) == [rec EXCEPT !.state = "running", !.generation = @ + 1, !.revision = @ + 1]
Stopping(rec) == [rec EXCEPT !.state = "stopping", !.revision = @ + 1]

\* SessionRegistry::detach called n times, stopping at the first refusal:
\* a zero count is a no-op, any other detach needs a revision.
Detachable(rec, n) ==
    IF MaxRevision - rec.revision >= rec.attachCount
    THEN n
    ELSE Min2(n, MaxRevision - rec.revision)

Detach(rec, n) ==
    LET done == Min2(Detachable(rec, n), rec.attachCount)
    IN [rec EXCEPT !.revision = @ + done, !.attachCount = @ - done]

CanDetach(rec) == Detachable(rec, 1) = 1

\* Mutant of SweepOutcomes: the entry sweep finds nothing.
SweepNothing(s) == {{}}

\* SessionHost::sweep_session: the due leases whose registry detach succeeds.
SweepOutcomes(s) ==
    {D \in SUBSET Due(s) : Cardinality(D) = Detachable(record[s], Cardinality(Due(s)))}

\* Mutants of DropLeases and VacateController: the handle index keeps the
\* removed leases; only expired leases leave the table; the controller stays.
DropLeasesKeepIndex(s, A) ==
    /\ leases' = [leases EXCEPT ![s] = @ \ A]
    /\ role' = Without(role, A, "observer")
    /\ expiresAt' = Without(expiresAt, A, 0)
    /\ UNCHANGED leaseSessions

DropDueLeases(s, A) ==
    /\ leases' = [leases EXCEPT ![s] = @ \ (A \cap Due(s))]
    /\ leaseSessions' = Without(leaseSessions, A \cap Due(s), NoSession)
    /\ role' = Without(role, A \cap Due(s), "observer")
    /\ expiresAt' = Without(expiresAt, A \cap Due(s), 0)

KeepController(s, A) == UNCHANGED controller

\* Remove the handles A of session s from every lease structure.
DropLeases(s, A) ==
    /\ leases' = [leases EXCEPT ![s] = @ \ A]
    /\ leaseSessions' = Without(leaseSessions, A, NoSession)
    /\ role' = Without(role, A, "observer")
    /\ expiresAt' = Without(expiresAt, A, 0)

VacateController(s, A) ==
    controller' = [controller EXCEPT ![s] = IF @ \in A THEN NoAttach ELSE @]

-----------------------------------------------------------------------------
Init ==
    /\ now = 0
    /\ record = [s \in Session |-> Blank("unissued")]
    /\ hosted = {}
    /\ token = [s \in Session |-> Retired]
    /\ controller = [s \in Session |-> NoAttach]
    /\ stop = [s \in Session |-> NoStop]
    /\ cancel = [s \in Session |-> NoCancel]
    /\ leases = [s \in Session |-> {}]
    /\ role = [a \in AttachId |-> "observer"]
    /\ expiresAt = [a \in AttachId |-> 0]
    /\ leaseSessions = [a \in AttachId |-> NoSession]

Tick ==
    /\ now < MaxNow
    /\ now' = now + 1
    /\ UNCHANGED <<record, hosted, controlVars, stopVars, leaseVars>>

Create(s) ==
    /\ record[s].state = "unissued"
    /\ Cardinality(LiveRecords) < MaxSessions
    /\ record' = [record EXCEPT ![s] = Blank("created")]
    /\ hosted' = hosted \cup {s}
    /\ token' = [token EXCEPT ![s] = 1]
    /\ UNCHANGED <<now, controller, stopVars, leaseVars>>

DiscardCreated(s) ==
    /\ s \in hosted
    /\ leases[s] = {}
    /\ record[s].state = "created"
    /\ record[s].generation = 0
    /\ record' = [record EXCEPT ![s] = Blank("collected")]
    /\ hosted' = hosted \ {s}
    /\ token' = [token EXCEPT ![s] = Retired]
    /\ controller' = [controller EXCEPT ![s] = NoAttach]
    /\ cancel' = [cancel EXCEPT ![s] = NoCancel]
    /\ UNCHANGED <<now, stop, leaseVars>>

\* Mutant of Bind: neither the cancel intent nor the state is checked.
BindUnchecked(s) ==
    /\ IsLive(s)
    /\ CanBump(record[s])
    /\ record' = [record EXCEPT ![s] = [Bound(@) EXCEPT !.generation = 1]]
    /\ UNCHANGED <<now, hosted, controlVars, stopVars, leaseVars>>

Bind(s) ==
    /\ cancel[s] = NoCancel
    /\ record[s].state = "created"
    /\ CanBump(record[s])
    /\ record' = [record EXCEPT ![s] = Bound(@)]
    /\ UNCHANGED <<now, hosted, controlVars, stopVars, leaseVars>>

-----------------------------------------------------------------------------
(* Attach, claim, heartbeat, detach.                                        *)

\* The entry sweep commits even when the attach itself is then refused.
AttachObserver(s, a) ==
    /\ IsLive(s)
    /\ Cardinality({b \in leases[s] : role[b] = "observer" /\ ~Expired(b)}) < MaxAttaches
    /\ Fresh(a)
    /\ \E swept \in SweepOutcomes(s) :
         LET rec == Detach(record[s], Cardinality(swept))
             admitted == /\ Cardinality(leases[s] \ swept) < MaxAttaches + 1
                         /\ CanBump(rec)
         IN /\ VacateController(s, swept)
            /\ \/ /\ admitted
                  /\ record' = [record EXCEPT ![s] = Attach(rec)]
                  /\ leases' = [leases EXCEPT ![s] = (@ \ swept) \cup {a}]
                  /\ leaseSessions' = [Without(leaseSessions, swept, NoSession) EXCEPT ![a] = s]
                  /\ role' = [Without(role, swept, "observer") EXCEPT ![a] = "observer"]
                  /\ expiresAt' = [Without(expiresAt, swept, 0) EXCEPT ![a] = now + LeaseTtl]
               \/ /\ ~admitted
                  /\ record' = [record EXCEPT ![s] = rec]
                  /\ DropLeases(s, swept)
    /\ UNCHANGED <<now, hosted, token, stopVars>>

\* An expired controller is detached first; that detach stays committed when
\* the attach is then refused by the revision counter.
ClaimController(s, generation, presented, a) ==
    /\ IsLive(s)
    /\ record[s].state # "stopping"
    /\ cancel[s] = NoCancel
    /\ record[s].generation = generation
    /\ controller[s] # NoAttach => ExpiredController(s) # {}
    /\ TokenMatches(s, presented)
    /\ token[s] < MaxToken
    /\ Fresh(a)
    /\ LET vacated == ExpiredController(s)
           rec == Detach(record[s], Cardinality(vacated))
       IN /\ vacated # {} => CanDetach(record[s])
          /\ \/ /\ CanBump(rec)
                /\ record' = [record EXCEPT ![s] = Attach(rec)]
                /\ leases' = [leases EXCEPT ![s] = (@ \ vacated) \cup {a}]
                /\ leaseSessions' = [Without(leaseSessions, vacated, NoSession) EXCEPT ![a] = s]
                /\ role' = [Without(role, vacated, "observer") EXCEPT ![a] = "controller"]
                /\ expiresAt' = [Without(expiresAt, vacated, 0) EXCEPT ![a] = now + LeaseTtl]
                /\ controller' = [controller EXCEPT ![s] = a]
                /\ token' = [token EXCEPT ![s] = @ + 1]
             \/ /\ ~CanBump(rec)
                /\ vacated # {}
                /\ record' = [record EXCEPT ![s] = rec]
                /\ DropLeases(s, vacated)
                /\ VacateController(s, vacated)
                /\ UNCHANGED token
    /\ UNCHANGED <<now, hosted, stopVars>>

Heartbeat(a) ==
    /\ leaseSessions[a] # NoSession
    /\ Actionable(leaseSessions[a], a)
    /\ IsLive(leaseSessions[a])
    /\ expiresAt' = Renew({a})
    /\ UNCHANGED <<now, record, hosted, controlVars, stopVars, leases, role, leaseSessions>>

\* A consumer detaches its own lease, or any live lease of the session with
\* the control relation; the acting lease is renewed.
ConsumerDetach(s, target, auth) ==
    /\ IsLive(s)
    /\ Actionable(s, target)
    /\ \/ auth.lease = target
       \/ ActsAsController(s, auth)
       \/ ActsAsVacantToken(s, auth)
    /\ CanDetach(record[s])
    /\ record' = [record EXCEPT ![s] = Detach(@, 1)]
    /\ leases' = [leases EXCEPT ![s] = @ \ {target}]
    /\ leaseSessions' = Without(leaseSessions, {target}, NoSession)
    /\ role' = Without(role, {target}, "observer")
    /\ expiresAt' = Without(Renew({auth.lease}), {target}, 0)
    /\ VacateController(s, {target})
    /\ UNCHANGED <<now, hosted, token, stopVars>>

\* An operator detach of the controller also retires the token, even when the
\* lease had already expired; any other expired target is a no-op.
OperatorDetach(s, target) ==
    /\ IsLive(s)
    /\ target \in leases[s]
    /\ ~Expired(target) \/ controller[s] = target
    /\ CanDetach(record[s])
    /\ record' = [record EXCEPT ![s] = Detach(@, 1)]
    /\ DropLeases(s, {target})
    /\ VacateController(s, {target})
    /\ token' = [token EXCEPT ![s] = IF controller[s] = target THEN Retired ELSE @]
    /\ UNCHANGED <<now, hosted, stopVars>>

RecordResize(a) ==
    LET s == leaseSessions[a]
    IN /\ s # NoSession
       /\ Actionable(s, a)
       /\ role[a] = "controller"
       /\ IsLive(s)
       /\ CanBump(record[s])
       /\ record' = [record EXCEPT ![s] = Bump(@)]
       /\ expiresAt' = Renew({a})
       /\ UNCHANGED <<now, hosted, controlVars, stopVars, leases, role, leaseSessions>>

RecordGrantMutation(s) ==
    /\ IsLive(s)
    /\ CanBump(record[s])
    /\ record' = [record EXCEPT ![s] = Bump(@)]
    /\ UNCHANGED <<now, hosted, controlVars, stopVars, leaseVars>>

\* Sweep every session of the host in one call.
ExpireDue ==
    \E swept \in [hosted -> SUBSET AttachId] :
      /\ \A s \in hosted : swept[s] \in SweepOutcomes(s)
      /\ LET Swept(s) == IF s \in hosted THEN swept[s] ELSE {}
             gone == UNION {swept[s] : s \in hosted}
         IN /\ gone # {}
            /\ record' = [s \in Session |-> Detach(record[s], Cardinality(Swept(s)))]
            /\ controller' =
                 [s \in Session |-> IF controller[s] \in Swept(s) THEN NoAttach ELSE controller[s]]
            /\ leases' = [s \in Session |-> leases[s] \ Swept(s)]
            /\ leaseSessions' = Without(leaseSessions, gone, NoSession)
            /\ role' = Without(role, gone, "observer")
            /\ expiresAt' = Without(expiresAt, gone, 0)
      /\ UNCHANGED <<now, hosted, token, stopVars>>

\* Control moves to a live observer; the acting controller becomes an observer,
\* an expired one is detached (and stays detached if the counter then refuses).
TransferControl(s, generation, auth, target) ==
    /\ AuthorizeControl(s, generation, auth)
    /\ target \in leases[s]
    /\ ~Expired(target)
    /\ role[target] = "observer"
    /\ token[s] < MaxToken
    /\ LET previous == IF auth.lease # NoAttach THEN {auth.lease} ELSE {}
           vacated == IF auth.lease # NoAttach THEN {} ELSE ExpiredController(s)
           rec == Detach(record[s], Cardinality(vacated))
       IN /\ vacated # {} => CanDetach(record[s])
          /\ \/ /\ CanBump(rec)
                /\ record' = [record EXCEPT ![s] = Bump(rec)]
                /\ leases' = [leases EXCEPT ![s] = @ \ vacated]
                /\ leaseSessions' = Without(leaseSessions, vacated, NoSession)
                /\ role' = [Without(role, previous \cup vacated, "observer")
                              EXCEPT ![target] = "controller"]
                /\ expiresAt' = Without(Renew(previous \cup {target}), vacated, 0)
                /\ controller' = [controller EXCEPT ![s] = target]
                /\ token' = [token EXCEPT ![s] = @ + 1]
             \/ /\ ~CanBump(rec)
                /\ vacated # {}
                /\ record' = [record EXCEPT ![s] = rec]
                /\ DropLeases(s, vacated)
                /\ VacateController(s, vacated)
                /\ UNCHANGED token
    /\ UNCHANGED <<now, hosted, stopVars>>

-----------------------------------------------------------------------------
(* The stop pipeline.                                                       *)

\* SessionHost::commit_stop: a second stop replays the first and changes
\* nothing; a created session records a cancel intent instead.
CommitStop(s, reason, grace, renewed) ==
    /\ cancel[s] = NoCancel
    /\ \/ /\ record[s].state = "created"
          /\ cancel' = [cancel EXCEPT ![s] = reason]
          /\ UNCHANGED <<record, stop, expiresAt>>
       \/ /\ record[s].state = "running"
          /\ CanBump(record[s])
          /\ record' = [record EXCEPT ![s] = Stopping(@)]
          /\ stop' = [stop EXCEPT ![s] =
                        [reason |-> reason, deadline |-> now + grace, escalated |-> FALSE]]
          /\ expiresAt' = Renew(renewed)
          /\ UNCHANGED cancel
    /\ UNCHANGED <<now, hosted, controlVars, leases, role, leaseSessions>>

Abort(s, generation, auth, reason) ==
    /\ AuthorizeControl(s, generation, auth)
    /\ CommitStop(s, reason, AbortGrace, {auth.lease})

OperatorStop(s, generation, reason) ==
    /\ IsLive(s)
    /\ record[s].generation = generation
    /\ CommitStop(s, reason, IF reason = "operator_abort" THEN AbortGrace ELSE DrainGrace, {})

\* A kill escalates an accepted stop without changing its reason.
Kill(s, generation) ==
    /\ IsLive(s)
    /\ record[s].generation = generation
    /\ cancel[s] = NoCancel
    /\ \/ /\ record[s].state = "stopping"
          /\ stop' = [stop EXCEPT ![s] = Escalated(@.reason, now)]
          /\ UNCHANGED <<record, cancel>>
       \/ /\ record[s].state = "created"
          /\ cancel' = [cancel EXCEPT ![s] = "operator_abort"]
          /\ UNCHANGED <<record, stop>>
       \/ /\ record[s].state = "running"
          /\ CanBump(record[s])
          /\ record' = [record EXCEPT ![s] = Stopping(@)]
          /\ stop' = [stop EXCEPT ![s] = Escalated("operator_abort", now)]
          /\ UNCHANGED cancel
    /\ UNCHANGED <<now, hosted, controlVars, leaseVars>>

EscalateAbort(s) ==
    /\ s \in hosted
    /\ stop[s] # NoStop
    /\ now >= stop[s].deadline
    /\ stop' = [stop EXCEPT ![s] = Escalated(@.reason, @.deadline)]
    /\ UNCHANGED <<now, record, hosted, controlVars, cancel, leaseVars>>

-----------------------------------------------------------------------------
(* Terminal transitions and retention.                                      *)

\* Mutant of CapEvictions: one record too many is kept.
CapEvictionsLate(R, at) ==
    {V \in SUBSET R :
        Cardinality(V) = IF Cardinality(R) > MaxRetained + 1
                         THEN Cardinality(R) - MaxRetained - 1 ELSE 0}

\* SessionRegistry::enforce_retention_cap over the retained set R: the oldest
\* records, ties broken by the (random) id order.
CapEvictions(R, at) ==
    {V \in SUBSET R :
        /\ Cardinality(V) = IF Cardinality(R) > MaxRetained
                            THEN Cardinality(R) - MaxRetained ELSE 0
        /\ \A v \in V, r \in R \ V : at[v] <= at[r]}

\* SessionHost::finish_terminal: every lease is detached in the registry, then
\* the record freezes.  A detach or the final transition that runs out of
\* revisions refuses the call with the earlier detaches already applied.
FinishTerminal(s, reason, cleanup) ==
    LET rec == record[s]
        n == Cardinality(leases[s])
        detached == Detach(rec, n)
        frozen == [detached EXCEPT !.state = TerminalState(reason),
                                   !.revision = @ + 1,
                                   !.reason = reason,
                                   !.cleanup = cleanup,
                                   !.terminalizedAt = now]
        retained == Retained \cup {s}
        at == [r \in retained |-> IF r = s THEN now ELSE record[r].terminalizedAt]
    IN /\ AllowsTerminal(rec.state, TerminalState(reason))
       /\ CanTerminateFrom(reason, rec.state)
       /\ cleanup = "not_started" => rec.state = "created"
       /\ CanBump(rec)
       /\ \/ /\ Detachable(rec, n) = n
             /\ CanBump(detached)
             /\ \E evicted \in CapEvictions(retained, at) :
                  record' = [r \in Session |->
                               IF r \in evicted THEN Blank("collected")
                               ELSE IF r = s THEN frozen ELSE record[r]]
             /\ DropLeases(s, leases[s])
             /\ controller' = [controller EXCEPT ![s] = NoAttach]
             /\ token' = [token EXCEPT ![s] = Retired]
             /\ stop' = [stop EXCEPT ![s] = NoStop]
             /\ cancel' = [cancel EXCEPT ![s] = NoCancel]
          \/ /\ ~(Detachable(rec, n) = n /\ CanBump(detached))
             /\ record' = [record EXCEPT ![s] = detached]
             /\ UNCHANGED <<controlVars, stopVars, leaseVars>>
       /\ UNCHANGED <<now, hosted>>

CompletePreBindCancel(s, cleanup) ==
    /\ record[s].state = "created"
    /\ cancel[s] # NoCancel
    /\ FinishTerminal(s, cancel[s], cleanup)

\* ExitObservation; a spawn failure either never had a child or had one.
SpawnFailure == {"spawn_refused", "bind_refused"}
Observation ==
    SpawnFailure \cup {"exited", "signalled", "supervision_failed", "daemon_terminated"}

\* Mutant of ObservedReason: the exit, not the accepted stop, names the reason.
ObservedReasonOfExit(s, observation) ==
    CASE observation \in SpawnFailure -> "spawn_failed"
      [] observation = "exited" -> "worker_exit"
      [] OTHER -> "supervision_failed"

\* The reason record_termination derives, "none" when it refuses the call.
ObservedReason(s, observation) ==
    LET state == record[s].state
    IN CASE state # "running" /\ observation \in SpawnFailure -> "spawn_failed"
         [] state = "stopping" /\ observation \notin SpawnFailure -> stop[s].reason
         [] state # "stopping" /\ observation = "supervision_failed" -> "supervision_failed"
         [] state = "running" /\ observation = "exited" -> "worker_exit"
         [] state = "running" /\ observation = "signalled" -> "worker_signal"
         [] OTHER -> "none"

RecordTermination(s, observation, cleanup) ==
    LET reason == ObservedReason(s, observation)
    IN /\ IsLive(s)
       /\ cancel[s] = NoCancel
       /\ reason # "none"
       /\ cleanup = "not_started" => reason \notin WorkerReason /\ observation # "bind_refused"
       /\ FinishTerminal(s, reason, cleanup)

\* Records past the retention interval are collected, and the host state of
\* every session the registry no longer resolves is dropped.
CollectRetained ==
    LET due == {s \in Retained : now - record[s].terminalizedAt >= TerminalRetention}
        kept == {s \in hosted \ due : record[s].state \notin Absent}
        gone == UNION {leases[s] : s \in hosted \ kept}
        Forget(f, default) == [s \in Session |-> IF s \in kept THEN f[s] ELSE default]
    IN /\ record' = [s \in Session |-> IF s \in due THEN Blank("collected") ELSE record[s]]
       /\ hosted' = kept
       /\ token' = Forget(token, Retired)
       /\ controller' = Forget(controller, NoAttach)
       /\ stop' = Forget(stop, NoStop)
       /\ cancel' = Forget(cancel, NoCancel)
       /\ leases' = Forget(leases, {})
       /\ leaseSessions' = Without(leaseSessions, gone, NoSession)
       /\ role' = Without(role, gone, "observer")
       /\ expiresAt' = Without(expiresAt, gone, 0)
       /\ UNCHANGED now

-----------------------------------------------------------------------------
Next ==
    \/ Tick
    \/ ExpireDue
    \/ CollectRetained
    \/ \E s \in Session :
         \/ Create(s)
         \/ DiscardCreated(s)
         \/ Bind(s)
         \/ RecordGrantMutation(s)
         \/ EscalateAbort(s)
         \/ \E a \in AttachId : AttachObserver(s, a) \/ OperatorDetach(s, a)
         \/ \E a \in AttachId, auth \in Authority : ConsumerDetach(s, a, auth)
         \/ \E cleanup \in Cleanup :
              \/ CompletePreBindCancel(s, cleanup)
              \/ \E o \in Observation : RecordTermination(s, o, cleanup)
         \/ \E generation \in {0, 1} :
              \/ \E p \in 1 .. MaxToken, a \in AttachId : ClaimController(s, generation, p, a)
              \/ \E auth \in Authority, a \in AttachId : TransferControl(s, generation, auth, a)
              \/ \E auth \in Authority, r \in Requested \cap {"consumer_cancel", "consumer_timeout"} :
                   Abort(s, generation, auth, r)
              \/ \E r \in Requested \cap {"operator_abort", "daemon_stop", "host_shutdown"} :
                   OperatorStop(s, generation, r)
              \/ Kill(s, generation)
    \/ \E a \in AttachId : Heartbeat(a) \/ RecordResize(a)

Spec == Init /\ [][Next]_vars

-----------------------------------------------------------------------------
(* Invariants.                                                              *)

\* Every variable keeps the shape of the field it models: counters inside
\* their width, at most one stop and one cancel per session.
TypeOK ==
    /\ now \in Nat
    /\ record \in [Session -> Record]
    /\ hosted \subseteq Session
    /\ token \in [Session -> Nat]
    /\ controller \in [Session -> AttachId \cup {NoAttach}]
    /\ stop \in [Session -> [reason : StopReason \cup {"none"}, deadline : Nat,
                             escalated : BOOLEAN]]
    /\ cancel \in [Session -> StopReason \cup {NoCancel}]
    /\ leases \in [Session -> SUBSET AttachId]
    /\ role \in [AttachId -> {"observer", "controller"}]
    /\ expiresAt \in [AttachId -> Nat]
    /\ leaseSessions \in [AttachId -> Session \cup {NoSession}]

\* D-09: the controller field and the role of the leases name the same single
\* lease, through every claim, transfer, demotion, expiry and revocation.
ControlRelation ==
    \A s \in Session : \A a \in AttachId :
        controller[s] = a <=> a \in leases[s] /\ role[a] = "controller"

\* The global handle index and the per-session lease tables agree, so no
\* handle resolves to a session that does not hold it, or is left behind.
LeaseIndexAgrees ==
    \A s \in Session : \A a \in AttachId : a \in leases[s] <=> leaseSessions[a] = s

\* The registry's attach counter is the size of the lease table, until the
\* revision counter of the session is exhausted.
AttachCountAgrees ==
    \A s \in Session :
        IsLive(s) /\ CanBump(record[s]) =>
            record[s].attachCount = Cardinality(leases[s])

\* D-09: the table holds at most max_attaches_per_session observers and one
\* controller, expired records that no sweep has removed yet included.
LeaseTableBounded ==
    \A s \in Session :
        Cardinality({a \in leases[s] : role[a] = "observer"}) <= MaxAttaches

\* D-04, D-09: a session the registry holds as terminal, or no longer holds,
\* has no lease, no controller, no pending stop and no usable token.
TerminalSealed ==
    \A s \in Session :
        ~IsLive(s) =>
            /\ leases[s] = {}
            /\ controller[s] = NoAttach
            /\ token[s] = Retired
            /\ stop[s] = NoStop
            /\ cancel[s] = NoCancel

\* A stop is recorded exactly while the session is stopping, a cancel intent
\* only before the bind; a session never carries both.
StopPipelineConsistent ==
    \A s \in Session :
        /\ stop[s].reason # "none" <=> record[s].state = "stopping"
        /\ cancel[s] # NoCancel => record[s].state = "created"

\* D-09: once an operator revoked the controller the token is retired and
\* control stays vacant: no lease holds control without a current token.
RevokedControlStaysVacant ==
    \A s \in Session : token[s] = Retired => controller[s] = NoAttach

\* D-14: live and retained records stay inside their caps, and every live
\* record has its host state.
RegistryBounded ==
    /\ Cardinality(LiveRecords) <= MaxSessions
    /\ Cardinality(Retained) <= MaxRetained
    /\ LiveRecords \cup Retained \subseteq hosted

\* What the proofs add to these: a created record has never been bound, a
\* stop without a reason is no stop, and every record has its host state.
CreatedUnbound == \A s \in Session : record[s].state = "created" => record[s].generation = 0
StopComplete == \A s \in Session : stop[s].reason = "none" => stop[s] = NoStop
Hosted == \A s \in Session : record[s].state \notin Absent => s \in hosted

\* The inductive invariant of the control relation and the stop pipeline.
IInv ==
    /\ TypeOK
    /\ LeaseIndexAgrees
    /\ ControlRelation
    /\ RevokedControlStaysVacant
    /\ TerminalSealed
    /\ StopPipelineConsistent
    /\ CreatedUnbound
    /\ StopComplete
    /\ Hosted

-----------------------------------------------------------------------------
(* Action properties.                                                       *)

\* lease/mod.rs: "a refusal leaves the registry, the lease table, and the token
\* untouched".  The registry counts a lease out only when the lease leaves the
\* table; a termination refused by the revision counter does not respect it.
RefusalIsWhole ==
    [][\A s \in Session :
         IsLive(s) /\ record'[s].state \in Live /\ leases'[s] = leases[s] =>
             record'[s].attachCount >= record[s].attachCount]_vars

\* D-04: the lifecycle only moves forward, and a terminal record is immutable
\* until it is collected.
LifecycleStep(s) ==
    LET old == record[s]
        new == record'[s]
    IN /\ old.state = "unissued" => new.state \in {"unissued", "created"}
       /\ old.state = "created" =>
              new.state \in {"created", "running", "failed", "terminated", "collected"}
       /\ old.state = "running" =>
              new.state \in {"running", "stopping", "exited", "failed", "collected"}
       /\ old.state = "stopping" =>
              new.state \in {"stopping", "exited", "failed", "terminated", "collected"}
       /\ old.state \in Terminal => new = old \/ new.state = "collected"
       /\ old.state = "collected" => new.state = "collected"

LifecycleForward == [][\A s \in Session : LifecycleStep(s)]_vars

\* SessionHost::compose_snapshot: what a session.status shows is derived at
\* `now`; a lease past its expiry is not shown, swept or not.  A snapshot gives
\* the number of these leases and whether one controls, the model which.
LiveLeases(s) == {a \in leases[s] : ~Expired(a)}
Visible(s) ==
    [state |-> record[s].state,
     generation |-> record[s].generation,
     attached |-> LiveLeases(s),
     controller |-> IF HasLiveController(s) THEN controller[s] ELSE NoAttach]

\* The clock alone moved: leases lapsed, nothing else of the session changed.
Lapsed(s) ==
    /\ now' > now
    /\ record'[s] = record[s] /\ leases'[s] = leases[s] /\ controller'[s] = controller[s]
    /\ LiveLeases(s)' \subseteq LiveLeases(s)

\* D-03: whatever a snapshot shows of a session that still resolves changes
\* only together with a larger revision, and the revision never goes back.
\* Two exceptions, both of the code: the clock takes a lease out of the view
\* when it expires, the revision following with the sweep (`snapshot` says so);
\* and a revision counter at its end cannot follow.
RevisionCovers(s) ==
    IsLive(s) /\ record'[s].state \notin Absent =>
        /\ record'[s].revision >= record[s].revision
        /\ Visible(s)' # Visible(s) =>
               \/ record'[s].revision > record[s].revision
               \/ record[s].revision = MaxRevision
               \/ Lapsed(s)

RevisionCoversVisible == [][\A s \in Session : RevisionCovers(s)]_vars

\* D-09: a token changes only by a rotation that hands control to a new
\* holder, or by being retired for good.
TokenStep(s) ==
    /\ IsLive(s) /\ token[s] = Retired => token'[s] = Retired
    /\ IsLive(s) /\ token'[s] \notin {token[s], Retired} =>
           /\ token'[s] > token[s]
           /\ controller'[s] \notin {controller[s], NoAttach}

TokenRotatesWithControl == [][\A s \in Session : TokenStep(s)]_vars

\* D-09: control reaches a lease only with a fresh token, and a controller
\* that is still live is never displaced: it hands over and stays attached as
\* an observer.
Handover(s) ==
    controller'[s] \notin {controller[s], NoAttach} =>
        /\ IsLive(s) /\ token'[s] # token[s]
        /\ HasLiveController(s) =>
               /\ controller[s] \in leases'[s]
               /\ role'[controller[s]] = "observer"
               /\ controller'[s] \in leases[s]

ControlHandover == [][\A s \in Session : Handover(s)]_vars

\* D-05: an accepted stop or cancel is irrevocable: its reason survives every
\* later stop, kill and control change, its deadline only moves closer, and
\* the terminal record carries exactly that reason.
StopStep(s) ==
    /\ record[s].state = "stopping" =>
           \/ /\ stop'[s].reason = stop[s].reason
              /\ stop[s].escalated => stop'[s].escalated
              /\ stop'[s].deadline <= stop[s].deadline \/ stop'[s].deadline = now
           \/ record'[s].state \in Terminal /\ record'[s].reason = stop[s].reason
           \/ record'[s].state = "collected"
    /\ cancel[s] # NoCancel =>
           \/ cancel'[s] = cancel[s] /\ record'[s].state = "created"
           \/ record'[s].state = "terminated" /\ record'[s].reason = cancel[s]
           \/ record'[s].state = "collected"

StopIrrevocable == [][\A s \in Session : StopStep(s)]_vars

\* D-09: an expired lease is never brought back: it keeps its expiry and its
\* role until it is removed, whatever the other actors do.
ExpiredStep(s) ==
    \A a \in leases[s] \cap leases'[s] :
        Expired(a) => expiresAt'[a] = expiresAt[a] /\ role'[a] = role[a]

ExpiredLeaseInert == [][\A s \in Session : ExpiredStep(s)]_vars
=============================================================================
