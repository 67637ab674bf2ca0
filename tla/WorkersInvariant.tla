--------------------------- MODULE WorkersInvariant ---------------------------
(***************************************************************************)
(* The inductive invariant of Workers.  The properties of Workers are not  *)
(* inductive one by one: a reservation covers a worker only if the handler *)
(* that settles it has proven the tree gone, and a pass spares the workers *)
(* of the pool only if what it still examines is not among them.           *)
(***************************************************************************)
EXTENDS Workers

\* Nothing of the tree is left that can be seen, and nothing can come back: a
\* forked leader finds no cgroup to enter.
Gone(s) ==
    /\ Members(tree[s]) \subseteq {"adrift"}
    /\ tree[s].leader = "forked" => tree[s].home = "cgroup" /\ s \notin cgroup

OnDisk(s) == s \in Held(journal.disk)
RecordOf(s) == journal.disk[s]

\* What a daemon holds of a record is on disk too.  A directory sync that fails
\* lets the two part: the file has the new record, the map the old one, or none
\* if the reservation failed with it.  They never part on the boot or on the
\* containment, nor on a record the daemon takes for quarantined.
Mirrored(s) ==
    /\ s \in Held(journal.memory) =>
         /\ OnDisk(s)
         /\ journal.memory[s].boot = RecordOf(s).boot
         /\ journal.memory[s].containment = RecordOf(s).containment
         /\ journal.memory[s].class = "unverified" \/ journal.memory[s].boot = "none"
              => journal.memory[s] = RecordOf(s)
    /\ OnDisk(s) /\ s \notin Held(journal.memory) => life[s] = "discarded"

\* A file the daemon could not use is quarantined, and quarantine has a time.
FileSound(s) ==
    OnDisk(s) => /\ RecordOf(s).boot = "none" => RecordOf(s).class = "unverified"
                 /\ RecordOf(s).class = "unverified" => RecordOf(s).quarantined # "no"

JournalSound ==
    /\ Loadable(journal.memory)
    /\ daemon # "down" => \A s \in Session : Mirrored(s)
    /\ \A s \in Session : FileSound(s)

TreeSound(s) ==
    /\ tree[s].leader \in {"none", "forked", "refused"} =>
         tree[s].kin = {} /\ tree[s].killed = {}
    /\ tree[s].leader = "none" \/ tree[s].home = "none" => tree[s] = NoTree
    /\ tree[s].home = "cgroup" /\ s \notin cgroup => Members(tree[s]) = {}

\* What a record says of the tree it stands for.
CoverSound(s) ==
    /\ Gone(s) \/ OnDisk(s) \/ s \in released
    /\ OnDisk(s) /\ RecordOf(s).boot = "earlier" => Gone(s)
    /\ OnDisk(s) /\ RecordOf(s).boot = "current" =>
         tree[s].home \in {"none", RecordOf(s).containment}

\* A handler about to settle a record as not started or swept.
SettlesGone(s) ==
    task.at = "settle" =>
        \/ task.cleanup = "unverified"
        \/ task.cleanup \in {"not_started", "swept"} /\ Gone(s)

SpawnSound(s) ==
    /\ daemon = "serving" /\ task.todo = {} /\ life[s] = "created"
    /\ OnDisk(s) /\ RecordOf(s).boot = "current" /\ RecordOf(s).containment = plan
    /\ RecordOf(s).class = IF task.at = "bind" THEN "committed" ELSE RecordOf(s).class
    /\ RecordOf(s).class # "unverified"
    /\ task.at \in {"contain", "fork"} => tree[s] = NoTree
    /\ task.at \in {"commit", "bind"} => s \in Bound
    /\ task.at \in {"commit", "bind", "terminate", "kill", "verdict"} =>
         tree[s].leader \in {"running", "zombie"}
    /\ task.at \in {"exec", "commit", "bind"} => tree[s].killed = {}
    /\ SettlesGone(s)

StopSound(s) ==
    /\ daemon = "stopping" /\ task.todo = {} /\ life[s] = "stopping"
    /\ task.at \in {"terminate", "kill", "verdict", "settle"}
    /\ SettlesGone(s)

VerifySound ==
    /\ daemon \in {"scanning", "serving"}
    /\ task.todo \subseteq Held(journal.memory) \ Bound
    /\ task.at \in {"next", "signal", "wait", "rmdir", "settle"}
    /\ task.at # "next" =>
         LET s == task.session
         IN /\ s \in task.todo
            /\ Actionable(journal.memory[s])
            /\ SettlesGone(s)

TaskSound ==
    /\ task.op = "idle" \/ daemon = "down" => task = Idle
    /\ daemon = "scanning" => task.op = "verify"
    /\ task.op \in {"spawn", "stop"} => task.session \in Session
    /\ task.op = "spawn" => SpawnSound(task.session)
    /\ task.op = "stop" => StopSound(task.session)
    /\ task.op = "verify" => VerifySound

LifeSound(s) ==
    /\ daemon \in {"down", "scanning"} => life[s] \in {"unused", "lost"} /\ s \notin Bound
    /\ life[s] \in {"running", "stopping"} =>
         /\ s \in Bound /\ OnDisk(s) /\ RecordOf(s).class = "committed"
         /\ RecordOf(s).boot = "current"
         /\ tree[s].leader \in {"running", "zombie", "reaped"}
    /\ s \in Bound =>
         life[s] \in {"running", "stopping"} \/ (task.op = "spawn" /\ task.session = s)
    /\ life[s] = "created" => task.op = "spawn" /\ task.session = s
    /\ life[s] = "running" /\ tree[s].leader = "running" => tree[s].killed = {}
    /\ life[s] = "unused" => tree[s] = NoTree
    /\ life[s] = "lost" /\ OnDisk(s) /\ RecordOf(s).class # "unverified" =>
         /\ daemon = "scanning" => s \in task.todo
         /\ daemon # "serving"

IInv ==
    /\ TypeOK
    /\ JournalSound
    /\ \A s \in Session : TreeSound(s) /\ CoverSound(s) /\ LifeSound(s)
    /\ TaskSound
=============================================================================
