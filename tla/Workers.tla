------------------------------- MODULE Workers -------------------------------
(***************************************************************************)
(* The worker pool of bittyd (crates/bitty-daemon/src/worker.rs), the      *)
(* process containment below it (containment/child.rs, cgroup.rs) and the  *)
(* reaper (orphan/reaper.rs), over the journal of OrphanJournal, with      *)
(* daemons that crash and start again and machines that reboot.            *)
(*                                                                         *)
(* The daemon is single threaded: `task` is the handler it is inside, and  *)
(* a handler is one step per effect that outlives the process, so that a   *)
(* crash, an exit or a fork can fall between any two.  Ticks of the loop   *)
(* run only when it is idle.                                               *)
(*                                                                         *)
(* A worker tree is a leader and the kinds of descendant that are alive:   *)
(*   "group"    in the leader's cgroup, or in its process group;           *)
(*   "escaped"  left the group with setsid, its parents are alive;         *)
(*   "adrift"   left the group, and its parent exited: the daemon adopted  *)
(*              it, the leader's children do not lead to it.               *)
(* A descendant cannot leave a cgroup.  A kill is delivered (`killed`) and *)
(* takes effect later.  SIGTERM may be ignored, and a leader may exit at   *)
(* any time, so it has no effect of its own here.                          *)
(*                                                                         *)
(* Abstracted: the PTY and its content, the terminal record (SessionHost), *)
(* sessions without a worker, which have nothing to record.  The clock:    *)
(* `due` is the stop deadline, `waited` the kill window after an exit.     *)
(***************************************************************************)
EXTENDS OrphanJournal

CONSTANTS
    NoWorker,           \* no handle in the pool
    NoSession,          \* the daemon is in no handler of a session
    Plans               \* containment plans the probe of a start may select

ASSUME PlansAssumption == Plans \subseteq Mechanism

VARIABLES
    daemon,             \* "down", "scanning", "serving" or "stopping"
    plan,               \* the plan this daemon selected
    journal,            \* OrphanJournal
    cgroup,             \* sessions whose cgroup directory exists
    tree,               \* processes of every session, external
    pool,               \* WorkerPool::workers
    life,               \* lifecycle of a session, "lost" once its daemon ended
    outcome,            \* history: the cleanup class its record was given
    task,               \* the handler the daemon is inside
    released            \* history: records retired or expired

vars == <<daemon, plan, journal, cgroup, tree, pool, life, outcome, task, released>>

Kin == {"group", "escaped", "adrift"}
Trees ==
    [home : Mechanism \cup {"none"},
     leader : {"none", "forked", "refused", "running", "zombie", "reaped"},
     kin : SUBSET Kin, killed : SUBSET (Kin \cup {"leader"})]
NoTree == [home |-> "none", leader |-> "none", kin |-> {}, killed |-> {}]
Handles == [exit : BOOLEAN, term : BOOLEAN, kill : BOOLEAN, due : BOOLEAN, waited : BOOLEAN]
Handle == [exit |-> FALSE, term |-> FALSE, kill |-> FALSE, due |-> FALSE, waited |-> FALSE]
Idle == [op |-> "idle", session |-> NoSession, at |-> "idle", todo |-> {},
         pinned |-> FALSE, cleanup |-> "none"]

ASSUME NullAssumption == NoWorker \notin Handles /\ NoSession \notin Session

Bound == {s \in Session : pool[s] # NoWorker}
Ready == daemon = "serving" /\ task = Idle

\* Moves of the handler.
At(op, at) == task.op = op /\ task.at = at
Go(at) == task' = [task EXCEPT !.at = at]
Finding(at, cleanup) == task' = [task EXCEPT !.at = at, !.cleanup = cleanup]

-----------------------------------------------------------------------------
(* Processes and signals.                                                  *)

Members(t) == (IF t.leader = "running" THEN {"leader"} ELSE {}) \cup t.kin
Kill(t, reached) == [t EXCEPT !.killed = @ \cup (reached \cap Members(t))]
Reaped(t) == IF t.leader = "zombie" THEN [t EXCEPT !.leader = "reaped"] ELSE t

\* What ContainedChild::signal reaches.  SessionCgroup::signal_members reads
\* the member list once: a member forked meanwhile is missed.  The subreaper
\* signals the recorded group, and only while the leader is not reaped.
WholeGroup == {"leader", "group"}
Reach(t) == {WholeGroup} \cup (IF t.home = "cgroup" THEN {{"leader"}} ELSE {})

\* SessionCgroup::verify_empty; a forked child enters later.
Emptied(s) == Members(tree[s]) = {}

\* SessionCgroup::remove: rmdir refuses a populated directory, and may fail.
Rmdir(s, removed) ==
    /\ removed => Emptied(s)
    /\ cgroup' = IF removed THEN cgroup \ {s} ELSE cgroup

\* spawn_into_cgroup: the child writes its pid into cgroup.procs, then execs.
Exec(s) ==
    /\ tree[s].leader = "forked"
    /\ \/ /\ tree[s].home = "cgroup" => s \in cgroup
          /\ tree' = [tree EXCEPT ![s].leader = "running"]
       \/ tree' = [tree EXCEPT ![s].leader = "refused"]
    /\ UNCHANGED <<daemon, plan, journal, cgroup, pool, life, outcome, task, released>>

\* A process that left the group cannot bring a child back into it.
Parents(t, k) ==
    Members(t) \cap CASE k = "group" -> {"leader", "group"}
                      [] k = "escaped" -> {"leader", "group", "escaped"}
                      [] k = "adrift" -> Kin \cup {"leader"}

\* A child forked after descendant_pidfds is not pinned, so an escape from
\* there on is adrift; one that was in the group is.
Fork(s, k) ==
    /\ Parents(tree[s], k) \ tree[s].killed # {}
    /\ k \notin tree[s].kin \/ k \in tree[s].killed
    /\ tree[s].home = "cgroup" => k = "group"
    /\ k = "escaped" => ~(task.session = s /\ task.pinned)
    /\ tree' = [tree EXCEPT ![s].kin = @ \cup {k}, ![s].killed = @ \ {k}]
    /\ UNCHANGED <<daemon, plan, journal, cgroup, pool, life, outcome, task, released>>

Setsid(s) ==
    /\ tree[s].home = "subreaper"
    /\ "group" \in tree[s].kin \ tree[s].killed
    /\ tree' = [tree EXCEPT ![s].kin = (@ \ {"group"}) \cup {"escaped"}]
    /\ UNCHANGED <<daemon, plan, journal, cgroup, pool, life, outcome, task, released>>

\* An exit of its own, or of a signal.
Exit(s, m) ==
    /\ m \in Members(tree[s])
    /\ tree' = [tree EXCEPT
                  ![s].leader = IF m = "leader" THEN "zombie" ELSE @,
                  ![s].kin = @ \ {m},
                  ![s].killed = @ \ {m}]
    /\ UNCHANGED <<daemon, plan, journal, cgroup, pool, life, outcome, task, released>>

Die(s) == \E m \in tree[s].killed : Exit(s, m)

-----------------------------------------------------------------------------
(* Start, crash and reboot.                                                *)

Down(disk) == [memory |-> EmptyMap, disk |-> disk]

Ended ==
    /\ daemon' = "down"
    /\ pool' = [s \in Session |-> NoWorker]
    /\ life' = [s \in Session |-> IF life[s] = "unused" THEN "unused" ELSE "lost"]
    /\ task' = Idle

\* server.rs, run: open the journal and scan it before the endpoint is bound.
Start ==
    /\ daemon = "down"
    /\ Loadable(journal.disk)
    /\ plan' \in Plans
    /\ journal' = Load(journal.disk)
    /\ daemon' = "scanning"
    /\ task' = [Idle EXCEPT !.op = "verify", !.at = "next", !.todo = Held(journal.disk)]
    /\ UNCHANGED <<cgroup, tree, pool, life, outcome, released>>

Crash ==
    /\ daemon # "down"
    /\ Ended
    /\ journal' = Down(journal.disk)
    /\ UNCHANGED <<plan, cgroup, tree, outcome, released>>

Reboot ==
    /\ Ended
    /\ journal' = Down(Rebooted(journal.disk))
    /\ tree' = [s \in Session |-> NoTree]
    /\ cgroup' = {}
    /\ UNCHANGED <<plan, outcome, released>>

-----------------------------------------------------------------------------
(* Create with a worker: Service::start_worker and WorkerPool::spawn.      *)

\* A reservation that is refused discards the created session.
Create(s) ==
    /\ Ready /\ life[s] = "unused"
    /\ \E r \in Reserve(journal, s, plan) :
         /\ journal' = r.journal
         /\ life' = [life EXCEPT ![s] = IF r.ok THEN "created" ELSE "discarded"]
         /\ task' = IF r.ok THEN [Idle EXCEPT !.op = "spawn", !.session = s, !.at = "contain"]
                    ELSE Idle
    /\ UNCHANGED <<daemon, plan, cgroup, tree, pool, outcome, released>>

\* The PTY, the bind deadline, the cgroup or the fork refuses: no child.
SpawnRefused(s) ==
    /\ task.session = s /\ (At("spawn", "contain") \/ At("spawn", "fork"))
    /\ Finding("settle", "not_started")
    /\ \E removed \in BOOLEAN : Rmdir(s, removed)
    /\ UNCHANGED <<daemon, plan, journal, tree, pool, life, outcome, released>>

Contain(s) ==
    /\ task.session = s /\ At("spawn", "contain")
    /\ Go("fork")
    /\ cgroup' = IF plan = "cgroup" THEN cgroup \cup {s} ELSE cgroup
    /\ UNCHANGED <<daemon, plan, journal, tree, pool, life, outcome, released>>

ForkLeader(s) ==
    /\ task.session = s /\ At("spawn", "fork")
    /\ Go("exec")
    /\ tree' = [tree EXCEPT ![s] = [NoTree EXCEPT !.home = plan, !.leader = "forked"]]
    /\ UNCHANGED <<daemon, plan, journal, cgroup, pool, life, outcome, released>>

ExecRefused(s) ==
    /\ task.session = s /\ At("spawn", "exec")
    /\ tree[s].leader = "refused"
    /\ tree' = [tree EXCEPT ![s].leader = "reaped"]
    /\ \E removed \in BOOLEAN : Rmdir(s, removed)
    /\ Finding("settle", "not_started")
    /\ UNCHANGED <<daemon, plan, journal, pool, life, outcome, released>>

\* No identity, or not a member: abandon_cgroup_child kills the whole subtree,
\* the subreaper kills the group and can prove nothing.
Abandon(s) ==
    /\ task.session = s /\ At("spawn", "exec")
    /\ tree[s].leader \in {"running", "zombie"}
    /\ tree' = [tree EXCEPT ![s] = Kill(@, WholeGroup)]
    /\ IF plan = "cgroup" THEN Go("verdict") ELSE Finding("settle", "unverified")
    /\ UNCHANGED <<daemon, plan, journal, cgroup, pool, life, outcome, released>>

\* probe_bindable: a leader that already exited, a slave nobody holds, or the
\* bind timeout ends in ContainedChild::terminate.
NotBindable(s) ==
    /\ task.session = s /\ At("spawn", "exec")
    /\ tree[s].leader \in {"running", "zombie"}
    /\ Go("terminate")
    /\ UNCHANGED <<daemon, plan, journal, cgroup, tree, pool, life, outcome, released>>

Spawned(s) ==
    /\ task.session = s /\ At("spawn", "exec")
    /\ tree[s].leader \in {"running", "zombie"}
    /\ Go("commit")
    /\ pool' = [pool EXCEPT ![s] = Handle]
    /\ UNCHANGED <<daemon, plan, journal, cgroup, tree, life, outcome, released>>

\* Mutant of CommitRecord: the worker is bound although the commit failed.
CommitUnchecked(s) ==
    /\ task.session = s /\ At("spawn", "commit")
    /\ \E r \in Commit(journal, s) : journal' = r.journal
    /\ Go("bind")
    /\ UNCHANGED <<daemon, plan, cgroup, tree, pool, life, outcome, released>>

CommitRecord(s) ==
    /\ task.session = s /\ At("spawn", "commit")
    /\ \E r \in Commit(journal, s) :
         /\ journal' = r.journal
         /\ Go(IF r.ok THEN "bind" ELSE "terminate")
    /\ UNCHANGED <<daemon, plan, cgroup, tree, pool, life, outcome, released>>

Bind(s) ==
    /\ task.session = s /\ At("spawn", "bind")
    /\ life' = [life EXCEPT ![s] = "running"]
    /\ task' = Idle
    /\ UNCHANGED <<daemon, plan, journal, cgroup, tree, pool, outcome, released>>

-----------------------------------------------------------------------------
(* ContainedChild::terminate: term_cgroup and term_subreaper.              *)

\* Only an exact identity earns a signal; the descendants of a leader that is
\* running are pinned before the first one.
Scan(s) ==
    /\ task.session = s /\ task.at = "terminate"
    /\ IF tree[s].home = "subreaper" /\ tree[s].leader = "reaped"
       THEN Finding("settle", "unverified")
       ELSE task' = [task EXCEPT !.pinned = tree[s].leader = "running", !.at = "kill"]
    /\ UNCHANGED <<daemon, plan, journal, cgroup, tree, pool, life, outcome, released>>

\* After the grace window.
TerminateKill(s) ==
    /\ task.session = s /\ task.at = "kill"
    /\ tree' = [tree EXCEPT ![s] = Kill(@, WholeGroup)]
    /\ Go("verdict")
    /\ UNCHANGED <<daemon, plan, journal, cgroup, pool, life, outcome, released>>

\* subreaper_swept reads the leader, the recorded group and the pinned ones.
Verdict(s) ==
    /\ task.session = s /\ task.op \in {"spawn", "stop"} /\ task.at = "verdict"
    /\ tree' = [tree EXCEPT ![s] = Reaped(@)]
    /\ IF tree[s].home = "cgroup"
       THEN \E removed \in BOOLEAN :
              /\ Rmdir(s, removed)
              /\ Finding("settle", IF removed THEN "swept" ELSE "unverified")
       ELSE /\ Finding("settle", IF task.pinned /\ Members(tree[s]) \subseteq {"adrift"}
                                 THEN "swept" ELSE "unverified")
            /\ UNCHANGED cgroup
    /\ UNCHANGED <<daemon, plan, journal, pool, life, outcome, released>>

-----------------------------------------------------------------------------
(* The end of a session: its record is settled, whatever the journal        *)
(* answers, the handle is dropped and the terminal record is made.  The     *)
(* pool and the lifecycle die with the daemon, so that a crash between the  *)
(* parts is one before or after.  Left out: a host that refuses the         *)
(* terminal record because the session's revisions are spent (SessionHost), *)
(* with which supervise drops the handle and settles nothing.               *)

Conclude(s, cleanup) ==
    /\ \E r \in Settle(journal, s, cleanup) : journal' = r.journal
    /\ pool' = [pool EXCEPT ![s] = NoWorker]
    /\ life' = [life EXCEPT ![s] = "terminal"]
    /\ outcome' = [outcome EXCEPT ![s] = cleanup]

SettleTask(s) ==
    /\ task.session = s /\ task.op \in {"spawn", "stop"} /\ task.at = "settle"
    /\ Conclude(s, task.cleanup)
    /\ task' = Idle
    /\ UNCHANGED <<daemon, plan, cgroup, tree, released>>

-----------------------------------------------------------------------------
(* Supervision.                                                            *)

RequestStop(s) ==
    /\ Ready /\ life[s] = "running"
    /\ life' = [life EXCEPT ![s] = "stopping"]
    /\ UNCHANGED <<daemon, plan, journal, cgroup, tree, pool, outcome, task, released>>

Deadline(s) ==
    /\ life[s] = "stopping" /\ s \in Bound /\ ~pool[s].due
    /\ pool' = [pool EXCEPT ![s].due = TRUE]
    /\ UNCHANGED <<daemon, plan, journal, cgroup, tree, life, outcome, task, released>>

KillWindow(s) ==
    /\ s \in Bound /\ pool[s].exit /\ ~pool[s].waited
    /\ pool' = [pool EXCEPT ![s].waited = TRUE]
    /\ UNCHANGED <<daemon, plan, journal, cgroup, tree, life, outcome, task, released>>

\* What the pass does before the sweep: the exit is recorded after the whole
\* identity was killed, a stop is escalated once per signal.
Observed(s) ==
    LET handle == pool[s]
        sendsKill == handle.due /\ ~handle.kill
    IN CASE ~handle.exit /\ tree[s].leader = "zombie" ->
              {[handle |-> [handle EXCEPT !.exit = TRUE, !.kill = TRUE],
                tree |-> Reaped(Kill(tree[s], reached))] : reached \in Reach(tree[s])}
         [] ~handle.exit /\ tree[s].leader # "zombie" /\ life[s] = "stopping" ->
              {[handle |-> [handle EXCEPT !.term = TRUE, !.kill = @ \/ handle.due],
                tree |-> IF sendsKill THEN Kill(tree[s], reached) ELSE tree[s]] :
                   reached \in Reach(tree[s])}
         [] OTHER -> {[handle |-> handle, tree |-> tree[s]]}

\* Mutant of SweepClass: a tree that outlives the kill window is waited for.
SweepWaits(s, handle) ==
    IF tree[s].home = "subreaper" THEN {"unverified"}
    ELSE IF Emptied(s) THEN {"swept", "unverified"} ELSE {"none"}

\* Worker::sweep over ContainedChild::sweep_if_empty; an empty subtree that
\* cannot be removed is unverified.
SweepClass(s, handle) ==
    IF tree[s].home = "subreaper" THEN {"unverified"}
    ELSE IF Emptied(s) THEN {"swept", "unverified"}
    ELSE IF handle.waited THEN {"unverified"} ELSE {"none"}

\* WorkerPool::supervise, one worker of the pass.
Supervise(s) ==
    /\ Ready /\ s \in Bound
    /\ \E seen \in Observed(s) :
         /\ tree' = [tree EXCEPT ![s] = seen.tree]
         /\ \E cleanup \in IF seen.handle.exit THEN SweepClass(s, seen.handle) ELSE {"none"} :
              /\ cgroup' = IF cleanup = "swept" THEN cgroup \ {s} ELSE cgroup
              /\ IF cleanup = "none"
                 THEN /\ pool' = [pool EXCEPT ![s] = seen.handle]
                      /\ UNCHANGED <<journal, life, outcome>>
                 ELSE Conclude(s, cleanup)
    /\ UNCHANGED <<daemon, plan, task, released>>

-----------------------------------------------------------------------------
(* Drain: Service::terminate_all.                                          *)

Stop ==
    /\ Ready
    /\ daemon' = "stopping"
    /\ UNCHANGED <<plan, journal, cgroup, tree, pool, life, outcome, task, released>>

\* Mutant of TerminateNext: a session whose stop is under way is left to the loop.
TerminateRunning(s) ==
    /\ daemon = "stopping" /\ task = Idle
    /\ life[s] = "running"
    /\ life' = [life EXCEPT ![s] = "stopping"]
    /\ task' = [Idle EXCEPT !.op = "stop", !.session = s, !.at = "terminate"]
    /\ UNCHANGED <<daemon, plan, journal, cgroup, tree, pool, outcome, released>>

TerminateNext(s) ==
    /\ daemon = "stopping" /\ task = Idle
    /\ life[s] \in {"running", "stopping"}
    /\ life' = [life EXCEPT ![s] = "stopping"]
    /\ task' = [Idle EXCEPT !.op = "stop", !.session = s, !.at = "terminate"]
    /\ UNCHANGED <<daemon, plan, journal, cgroup, tree, pool, outcome, released>>

Leave ==
    /\ daemon = "stopping" /\ task = Idle
    /\ \A s \in Session : life[s] \notin {"running", "stopping"}
    /\ Ended
    /\ journal' = Down(journal.disk)
    /\ UNCHANGED <<plan, cgroup, tree, outcome, released>>

-----------------------------------------------------------------------------
(* Verification: OrphanRuntime::verify_within_excluding over                *)
(* OrphanJournal::reap_excluding and SystemOrphanReaper::reap_cgroup.  The  *)
(* startup scan has no deadline and skips nothing.                          *)

\* Mutant of Examined: the workers of the pool are examined too.
ExaminedAll == Held(journal.memory)

\* The records an on-demand pass looks at.
Examined == Held(journal.memory) \ Bound

Verify ==
    /\ Ready
    /\ task' = [Idle EXCEPT !.op = "verify", !.at = "next", !.todo = Examined]
    /\ UNCHANGED <<daemon, plan, journal, cgroup, tree, pool, life, outcome, released>>

Done(s) == [task EXCEPT !.session = NoSession, !.at = "next", !.todo = @ \ {s},
                        !.cleanup = "none"]

\* A journal error ends the pass: a start fails, a request is refused.
Journalled(outcomes, next) ==
    \E r \in outcomes :
        IF r.ok \/ daemon = "serving"
        THEN /\ journal' = r.journal
             /\ task' = IF r.ok THEN next ELSE Idle
             /\ UNCHANGED <<daemon, pool, life>>
        ELSE /\ Ended
             /\ journal' = Down(r.journal.disk)

\* classify, and the records the reaper cannot act on.
Classify(s) ==
    /\ At("verify", "next") /\ s \in task.todo
    /\ \/ /\ Stale(journal.memory[s])
          /\ Journalled(Remove(journal, s), Done(s))
       \/ /\ ~Stale(journal.memory[s])
          /\ ~(Actionable(journal.memory[s]) /\ plan = "cgroup")
          /\ Journalled(Quarantine(journal, s), Done(s))
       \/ /\ Actionable(journal.memory[s]) /\ plan = "cgroup" /\ s \notin cgroup
          /\ Journalled(Remove(journal, s), Done(s))
    /\ UNCHANGED <<plan, cgroup, tree, outcome, released>>

\* reap_cgroup: a populated subtree is sent SIGTERM.
OpenRecorded(s) ==
    /\ At("verify", "next") /\ s \in task.todo
    /\ Actionable(journal.memory[s]) /\ plan = "cgroup" /\ s \in cgroup
    /\ task' = [task EXCEPT !.session = s, !.at = IF Emptied(s) THEN "rmdir" ELSE "signal"]
    /\ UNCHANGED <<daemon, plan, journal, cgroup, tree, pool, life, outcome, released>>

\* The grace window ends with the subtree empty, or cgroup.kill follows.
ReapSignal(s) ==
    /\ task.session = s /\ At("verify", "signal")
    /\ IF Emptied(s)
       THEN Go("rmdir") /\ UNCHANGED tree
       ELSE Go("wait") /\ tree' = [tree EXCEPT ![s] = Kill(@, WholeGroup)]
    /\ UNCHANGED <<daemon, plan, journal, cgroup, pool, life, outcome, released>>

ReapWait(s) ==
    /\ task.session = s /\ At("verify", "wait")
    /\ IF Emptied(s) THEN Go("rmdir") ELSE Finding("settle", "unverified")
    /\ UNCHANGED <<daemon, plan, journal, cgroup, tree, pool, life, outcome, released>>

\* The budget of an on-demand pass ran out: the record stays as it is.
Defer(s) ==
    /\ task.session = s /\ task.op = "verify" /\ task.at \in {"signal", "wait"}
    /\ daemon = "serving" /\ ~Emptied(s)
    /\ task' = Done(s)
    /\ UNCHANGED <<daemon, plan, journal, cgroup, tree, pool, life, outcome, released>>

\* Mutant of ReapRemove: a refused rmdir counts as swept.
ReapRemoveIgnored(s) ==
    /\ task.session = s /\ At("verify", "rmdir")
    /\ \E removed \in BOOLEAN : Rmdir(s, removed)
    /\ Finding("settle", "swept")
    /\ UNCHANGED <<daemon, plan, journal, tree, pool, life, outcome, released>>

\* A child that enters after the last read of cgroup.procs makes rmdir fail.
ReapRemove(s) ==
    /\ task.session = s /\ At("verify", "rmdir")
    /\ \E removed \in BOOLEAN :
         /\ Rmdir(s, removed)
         /\ Finding("settle", IF removed THEN "swept" ELSE "unverified")
    /\ UNCHANGED <<daemon, plan, journal, tree, pool, life, outcome, released>>

ReapSettle(s) ==
    /\ task.session = s /\ At("verify", "settle")
    /\ Journalled(Settle(journal, s, task.cleanup), Done(s))
    /\ UNCHANGED <<plan, cgroup, tree, outcome, released>>

\* OrphanJournal::collect_expired, after the pass.
CollectExpired(s) ==
    /\ At("verify", "next") /\ task.todo = {} /\ s \in Expired(journal)
    /\ Journalled(Remove(journal, s), task)
    /\ released' = IF s \in Held(journal'.disk) THEN released ELSE released \cup {s}
    /\ UNCHANGED <<plan, cgroup, tree, outcome>>

Verified ==
    /\ At("verify", "next") /\ task.todo = {} /\ Expired(journal) = {}
    /\ daemon' = "serving"
    /\ task' = Idle
    /\ UNCHANGED <<plan, journal, cgroup, tree, pool, life, outcome, released>>

RetireRecord(s) ==
    /\ Ready /\ s \in Held(journal.memory)
    /\ \E r \in Retire(journal, s) : journal' = r.journal
    /\ released' = IF s \in Held(journal'.disk) THEN released ELSE released \cup {s}
    /\ UNCHANGED <<daemon, plan, cgroup, tree, pool, life, outcome, task>>

\* Retention of a quarantined record passes.
Retention(s) ==
    /\ journal' = Age(journal, s)
    /\ journal' # journal
    /\ UNCHANGED <<daemon, plan, cgroup, tree, pool, life, outcome, task, released>>

-----------------------------------------------------------------------------
\* Files that do not parse, or of an older daemon, may wait for the first one.
Init ==
    /\ daemon = "down"
    /\ plan \in Plans
    /\ \E disk \in [Session -> {NoRecord, Garbled} \cup Legacy] :
         /\ journal = Down(disk)
         /\ Loadable(disk)
         /\ life = [s \in Session |-> IF s \in Held(disk) THEN "lost" ELSE "unused"]
    /\ cgroup = {}
    /\ tree = [s \in Session |-> NoTree]
    /\ pool = [s \in Session |-> NoWorker]
    /\ outcome = [s \in Session |-> "none"]
    /\ task = Idle
    /\ released = {}

Kernel(s) ==
    \/ Exec(s) \/ Setsid(s)
    \/ \E k \in Kin : Fork(s, k)
    \/ \E m \in Kin \cup {"leader"} : Exit(s, m)

Spawning(s) ==
    \/ SpawnRefused(s) \/ Contain(s) \/ ForkLeader(s) \/ ExecRefused(s)
    \/ Abandon(s) \/ NotBindable(s) \/ Spawned(s) \/ CommitRecord(s) \/ Bind(s)

Terminating(s) == Scan(s) \/ TerminateKill(s) \/ Verdict(s) \/ SettleTask(s)

Verifying(s) ==
    \/ Classify(s) \/ OpenRecorded(s) \/ ReapSignal(s) \/ ReapWait(s) \/ Defer(s)
    \/ ReapRemove(s) \/ ReapSettle(s) \/ CollectExpired(s)

Next ==
    \/ Start \/ Crash \/ Reboot \/ Stop \/ Leave \/ Verify \/ Verified
    \/ \E s \in Session :
         \/ Kernel(s) \/ Create(s) \/ Spawning(s) \/ Terminating(s) \/ Verifying(s)
         \/ RequestStop(s) \/ Deadline(s) \/ KillWindow(s) \/ Supervise(s)
         \/ TerminateNext(s) \/ RetireRecord(s) \/ Retention(s)

(***************************************************************************)
(* The loop ticks every worker and finishes every handler it is in, clocks *)
(* advance and the kernel executes a fork and delivers a kill.  Nothing is *)
(* assumed of clients, of worker programs, or of a crash.                  *)
(***************************************************************************)
Fairness ==
    /\ WF_vars(Verified \/ Leave)
    /\ \A s \in Session :
         /\ WF_vars(Exec(s)) /\ WF_vars(Die(s))
         /\ WF_vars(Spawning(s)) /\ WF_vars(Terminating(s)) /\ WF_vars(Verifying(s))
         /\ WF_vars(Deadline(s)) /\ WF_vars(KillWindow(s))
         /\ SF_vars(Supervise(s)) /\ WF_vars(TerminateNext(s))

Spec == Init /\ [][Next]_vars
FairSpec == Spec /\ Fairness

-----------------------------------------------------------------------------
(* Safety.                                                                  *)

TypeOK ==
    /\ daemon \in {"down", "scanning", "serving", "stopping"}
    /\ plan \in Plans
    /\ journal \in Journals
    /\ cgroup \subseteq Session
    /\ tree \in [Session -> Trees]
    /\ pool \in [Session -> Handles \cup {NoWorker}]
    /\ life \in [Session -> {"unused", "created", "discarded", "running", "stopping",
                             "terminal", "lost"}]
    /\ outcome \in [Session -> {"none", "not_started", "swept", "unverified"}]
    /\ task \in [op : {"idle", "spawn", "stop", "verify"},
                 session : Session \cup {NoSession},
                 at : {"idle", "contain", "fork", "exec", "commit", "bind", "terminate",
                       "kill", "verdict", "settle", "next", "rmdir", "signal", "wait"},
                 todo : SUBSET Session, pinned : BOOLEAN,
                 cleanup : {"none", "not_started", "swept", "unverified"}]
    /\ released \subseteq Session

\* orphan/journal.rs: the record is on disk before the worker can run and goes
\* only when the tree is proven gone: a process of a worker that still runs has
\* a record the next daemon finds, unless the operator or retention dropped it.
\* A tree of the subreaper plan is covered as far as it can be seen.
Recorded ==
    \A s \in Session : Members(tree[s]) \subseteq {"adrift"} \/ s \in Held(journal.disk)
                         \/ s \in released

\* server.rs, run: "no client can create a session while an earlier record is
\* still actionable".
StartClean ==
    daemon = "serving" =>
        \A s \in Session : life[s] = "lost" /\ s \in Held(journal.disk)
                             => journal.disk[s].class = "unverified"

\* A worker is exposed as bound only with its record committed, on disk, and a
\* handle in the pool that supervises it.
BoundIsCommitted ==
    \A s \in Session : life[s] \in {"running", "stopping"} =>
        /\ s \in Bound
        /\ s \in Held(journal.disk) /\ journal.disk[s].class = "committed"

\* registry/session.rs, CleanupClass::Swept: "The whole containment identity was
\* terminated and verified gone"; containment/subreaper.rs: "A `setsid` survivor
\* is still a descendant at scan time, so it fails the check".
SweptMeansGone ==
    \A s \in Session : outcome[s] = "swept" => Members(tree[s]) = {}

-----------------------------------------------------------------------------
(* Action properties.                                                       *)

\* The step sends the tree a signal: SIGKILL, or SIGTERM, which leaves no trace
\* in the tree: it opens the grace window of terminate and of reap_cgroup, and
\* is the first signal of a supervised stop.
Signals(s) ==
    \/ ~(tree'[s].killed \subseteq tree[s].killed)
    \/ task'.session = s /\ task'.at \in {"kill", "signal"} /\ task'.at # task.at
    \/ s \in Bound /\ pool'[s] # NoWorker /\ pool'[s].term /\ ~pool[s].term

\* A running worker is never signalled by the daemon that serves it, whatever
\* verification passes run beside it.
Spared ==
    [][\A s \in Session :
         life[s] = "running" /\ tree[s].leader = "running" => ~Signals(s)]_vars

\* README.md: classification "never signals an unverified record", nor one of
\* an earlier boot: whatever is signalled has a record of this boot on disk, and
\* the daemon holds it as one that is not quarantined.  A quarantine whose
\* directory sync fails (journal.rs, quarantine) is on disk only: that daemon
\* goes on to hold, and to signal, what its file says is quarantined.
UnverifiedNeverSignalled ==
    [][\A s \in Session : Signals(s) =>
         /\ s \in Held(journal.memory) /\ journal.memory[s].class # "unverified"
         /\ s \in Held(journal.disk) /\ journal.disk[s].boot = "current"]_vars

\* The same by what the file says, without the exception.
QuarantineHolds ==
    [][\A s \in Session : Signals(s) => journal.disk[s].class # "unverified"]_vars

\* README.md: "The journal holds at most `max_orphan_records` records": a daemon
\* leaves more files than the next one loads only if it has forgotten one of
\* them, a reservation whose directory sync failed (journal.rs, reserve).
Forgotten == Held(journal.disk) \ Held(journal.memory)

Restartable ==
    [][Loadable(journal.disk) =>
         Loadable(journal'.disk) \/ (daemon' # "down" /\ Forgotten' # {})]_vars

\* The same without the exception.
AlwaysLoadable == Loadable(journal.disk)

-----------------------------------------------------------------------------
(* Liveness.                                                                *)

\* A stop ends: the session is terminal, or its daemon is gone.
StopSettles == \A s \in Session : (life[s] = "stopping") ~> (life[s] # "stopping")

\* A drain ends with the daemon gone, and a start serves or fails.
PhasesEnd == \A phase \in {"scanning", "stopping"} : (daemon = phase) ~> (daemon # phase)
=============================================================================
