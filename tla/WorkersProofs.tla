------------------------------ MODULE WorkersProofs ------------------------------
(***************************************************************************)
(* Every step of Workers keeps the invariant of WorkersInvariant: one      *)
(* lemma per action, over lemmas on what the kernel, a kill and an         *)
(* operation of the journal can change.  The theorems at the end hold for  *)
(* every set of sessions, every limit, every set of plans and every set of *)
(* calls of the file system that may fail.                                 *)
(***************************************************************************)
EXTENDS WorkersInvariant, FiniteSetTheorems, TLAPS

-----------------------------------------------------------------------------
(* What the operations of OrphanJournal can leave behind: the journal as it *)
(* was, one entry changed in memory and on disk alike, or, when a directory *)
(* sync fails, an entry that is on disk only.                               *)

\* Entry e for session s, in the map and in the files.
Moved(j, k, s, e) ==
    /\ k \in Journals
    /\ k.disk = [j.disk EXCEPT ![s] = e]
    /\ k.memory = [j.memory EXCEPT ![s] = e]

\* Record e for session s, in the files.
Written(j, k, s, e) ==
    /\ k \in Journals /\ e \in Record
    /\ k.disk = [j.disk EXCEPT ![s] = e]
    /\ k.memory = j.memory

Quarantined(rec) ==
    [rec EXCEPT !.class = "unverified",
                !.quarantined = IF @ = "no" THEN "recent" ELSE @]

\* `store`: the entry is written everywhere, or nothing happened, or only the
\* file has it.
LEMMA StoreOutcome ==
    ASSUME NEW j \in Journals, NEW s \in Session, NEW rec \in Record,
           NEW r \in Store(j, s, rec)
    PROVE  \/ ~r.ok /\ r.journal = j
           \/ r.ok /\ Moved(j, r.journal, s, rec)
           \/ ~r.ok /\ Written(j, r.journal, s, rec)
<1> DEFINE w == [j EXCEPT !.disk[s] = rec]
           k == [w EXCEPT !.memory[s] = rec]
<1>1. r = Outcome(TRUE, k) \/ r = Outcome(FALSE, j) \/ r = Outcome(FALSE, w)
  BY DEF Store, Failed
<1>2. Moved(j, k, s, rec) /\ Written(j, w, s, rec)
  BY DEF Moved, Written, Journals
<1> QED
  BY <1>1, <1>2 DEF Outcome

\* `remove`: the entry is gone everywhere, or nothing happened.
LEMMA RemoveOutcome ==
    ASSUME NEW j \in Journals, NEW s \in Session, NEW r \in Remove(j, s)
    PROVE  \/ ~r.ok /\ r.journal = j
           \/ Moved(j, r.journal, s, NoRecord)
<1> DEFINE k == [j EXCEPT !.disk[s] = NoRecord, !.memory[s] = NoRecord]
<1>1. r = Outcome(TRUE, k) \/ r = Outcome(FALSE, j) \/ r = Outcome(FALSE, k)
  BY DEF Remove, Failed
<1>2. Moved(j, k, s, NoRecord)
  BY DEF Moved, Journals
<1> QED
  BY <1>1, <1>2 DEF Outcome

\* `reserve`: a new entry where there was none, below the limit.
LEMMA ReserveOutcome ==
    ASSUME NEW j \in Journals, NEW s \in Session,
           NEW c \in Mechanism, NEW r \in Reserve(j, s, c)
    PROVE  LET rec == [class |-> "reserved", boot |-> "current",
                       containment |-> c, quarantined |-> "no"]
           IN \/ ~r.ok /\ r.journal = j
              \/ /\ s \notin Held(j.memory) /\ ~(Cardinality(Held(j.memory)) >= MaxRecords)
                 /\ \/ r.ok /\ Moved(j, r.journal, s, rec)
                    \/ ~r.ok /\ Written(j, r.journal, s, rec)
<1> DEFINE rec == [class |-> "reserved", boot |-> "current",
                   containment |-> c, quarantined |-> "no"]
<1>1. rec \in Record
  BY DEF Record, Class
<1>2. CASE s \in Held(j.memory) \/ Cardinality(Held(j.memory)) >= MaxRecords
  BY <1>2 DEF Reserve, Outcome
<1>3. CASE ~(s \in Held(j.memory) \/ Cardinality(Held(j.memory)) >= MaxRecords)
  <2>1. r \in Store(j, s, rec)
    BY <1>3 DEF Reserve
  <2> QED
    BY <1>1, <1>3, <2>1, StoreOutcome
<1> QED
  BY <1>2, <1>3

\* `commit`: only the class of a reserved entry changes.
LEMMA CommitOutcome ==
    ASSUME NEW j \in Journals, NEW s \in Session, NEW r \in Commit(j, s)
    PROVE  LET rec == [j.memory[s] EXCEPT !.class = "committed"]
           IN \/ ~r.ok /\ r.journal = j
              \/ r.ok /\ Moved(j, r.journal, s, rec)
              \/ ~r.ok /\ Written(j, r.journal, s, rec)
<1>1. CASE s \in Held(j.memory) /\ j.memory[s].class = "reserved"
  <2>1. [j.memory[s] EXCEPT !.class = "committed"] \in Record
    BY <1>1 DEF Held, Journals, Record, Class
  <2>2. r \in Store(j, s, [j.memory[s] EXCEPT !.class = "committed"])
    BY <1>1 DEF Commit
  <2> QED
    BY <1>1, <2>1, <2>2, StoreOutcome
<1>2. CASE ~(s \in Held(j.memory) /\ j.memory[s].class = "reserved")
  BY <1>2 DEF Commit, Outcome
<1> QED
  BY <1>1, <1>2

\* A record without a boot id is quarantined already.
LEMMA QuarantineOutcome ==
    ASSUME NEW j \in Journals, NEW s \in Held(j.memory), NEW r \in Quarantine(j, s),
           j.memory[s].boot = "none" =>
             /\ j.memory[s].class = "unverified" /\ j.memory[s].quarantined # "no"
             /\ j.disk[s] = j.memory[s]
    PROVE  \/ ~r.ok /\ r.journal = j
           \/ r.ok /\ Moved(j, r.journal, s, Quarantined(j.memory[s]))
           \/ ~r.ok /\ Written(j, r.journal, s, Quarantined(j.memory[s]))
<1> DEFINE rec == Quarantined(j.memory[s])
<1>1. s \in Session /\ j.memory[s] \in Record
  BY DEF Held, Journals
<1>2. rec \in Record
  BY <1>1 DEF Record, Class, Quarantined
<1>3. CASE rec.boot = "none"
  <2>1. rec = j.memory[s]
    BY <1>1, <1>3 DEF Quarantined, Record
  <2>2. r = Outcome(TRUE, [j EXCEPT !.memory[s] = rec])
    BY <1>3 DEF Quarantine, Quarantined
  <2>3. [j EXCEPT !.memory[s] = rec] = j /\ Moved(j, j, s, rec)
    BY <1>1, <1>3, <2>1 DEF Moved, Journals, Quarantined
  <2> QED
    BY <2>2, <2>3 DEF Outcome
<1>4. CASE rec.boot # "none"
  <2>1. r \in Store(j, s, rec)
    BY <1>4 DEF Quarantine, Quarantined
  <2> QED
    BY <1>1, <1>2, <2>1, StoreOutcome
<1> QED
  BY <1>3, <1>4

\* `settle`: a proven end removes the entry, any other quarantines it.
LEMMA SettleOutcome ==
    ASSUME NEW j \in Journals, NEW s \in Held(j.memory), NEW cleanup,
           NEW r \in Settle(j, s, cleanup),
           j.memory[s].boot = "none" =>
             /\ j.memory[s].class = "unverified" /\ j.memory[s].quarantined # "no"
             /\ j.disk[s] = j.memory[s]
    PROVE  \/ ~r.ok /\ r.journal = j
           \/ /\ cleanup \in {"not_started", "swept"}
              /\ Moved(j, r.journal, s, NoRecord)
           \/ /\ cleanup \notin {"not_started", "swept"}
              /\ \/ r.ok /\ Moved(j, r.journal, s, Quarantined(j.memory[s]))
                 \/ ~r.ok /\ Written(j, r.journal, s, Quarantined(j.memory[s]))
<1>1. s \in Session
  BY DEF Held
<1>2. CASE cleanup \in {"not_started", "swept"}
  BY <1>1, <1>2, RemoveOutcome DEF Settle
<1>3. CASE cleanup \notin {"not_started", "swept"}
  BY <1>3, QuarantineOutcome DEF Settle
<1> QED
  BY <1>2, <1>3

\* The limit is kept by every change but a new entry.
LEMMA LimitKept ==
    ASSUME NEW map, NEW map2, Loadable(map), Held(map2) \subseteq Held(map)
    PROVE  Loadable(map2)
<1>1. IsFiniteSet(Held(map))
  BY SessionAssumption, FS_Subset DEF Held
<1>2. Cardinality(Held(map2)) <= Cardinality(Held(map))
      /\ Cardinality(Held(map)) \in Nat /\ Cardinality(Held(map2)) \in Nat
  BY <1>1, FS_Subset, FS_CardinalityType
<1> QED
  BY <1>2, MaxRecordsAssumption DEF Loadable

\* A new entry keeps the limit when there was room for it.
LEMMA LimitReached ==
    ASSUME NEW map, NEW map2, NEW s, ~(Cardinality(Held(map)) >= MaxRecords),
           Held(map2) \subseteq Held(map) \cup {s}
    PROVE  Loadable(map2)
<1>1. IsFiniteSet(Held(map))
  BY SessionAssumption, FS_Subset DEF Held
<1>2. IsFiniteSet(Held(map) \cup {s})
      /\ Cardinality(Held(map) \cup {s}) <= Cardinality(Held(map)) + 1
      /\ Cardinality(Held(map)) \in Nat
  BY <1>1, FS_AddElement, FS_CardinalityType
<1>3. Cardinality(Held(map2)) <= Cardinality(Held(map) \cup {s})
      /\ Cardinality(Held(map2)) \in Nat
      /\ Cardinality(Held(map) \cup {s}) \in Nat
  BY <1>2, FS_Subset, FS_CardinalityType
<1> QED
  BY <1>2, <1>3, MaxRecordsAssumption DEF Loadable

-----------------------------------------------------------------------------
(* The steps of Workers.                                                    *)

\* What a step of the kernel does to one tree.
Evolves(s, u) ==
    LET t == tree[s]
    IN /\ u \in Trees
       /\ u.home = t.home
       /\ t.leader # "none" /\ u.leader # "none"
       /\ u.leader \in {"none", "forked", "refused"} => u.kin = {} /\ u.killed = {}
       /\ t.home = "cgroup" /\ s \notin cgroup => Members(u) = {}
       /\ Gone(s) => Members(u) \subseteq {"adrift"}
       /\ Gone(s) /\ u.leader = "forked" => t.leader = "forked"
       /\ t.leader = "running" => u.leader \in {"running", "zombie"}
       /\ t.leader = "zombie" => u.leader = "zombie"
       /\ t.leader = "reaped" => u.leader = "reaped"
       /\ u.killed \subseteq t.killed

\* A kernel step changes one tree, and nothing of the daemon.
LEMMA KernelEvolves ==
    ASSUME TypeOK, NEW s \in Session, Kernel(s), TreeSound(s)
    PROVE  /\ \E u : tree' = [tree EXCEPT ![s] = u] /\ Evolves(s, u)
           /\ UNCHANGED <<daemon, plan, journal, cgroup, pool, life, outcome, task, released>>
<1> USE DEF TreeSound, Gone, Members, NoTree, Kin
<1>t. tree \in [Session -> Trees] /\ tree[s] \in Trees
  BY DEF TypeOK
<1> SUFFICES \E u : tree' = [tree EXCEPT ![s] = u] /\ Evolves(s, u)
  BY DEF Kernel, Exec, Setsid, Fork, Exit
<1>1. CASE Exec(s)
  <2>1. PICK leader \in {"running", "refused"} :
          /\ tree' = [tree EXCEPT ![s].leader = leader]
          /\ leader = "running" /\ tree[s].home = "cgroup" => s \in cgroup
          /\ tree[s].leader = "forked"
    BY <1>1 DEF Exec
  <2> DEFINE u == [tree[s] EXCEPT !.leader = leader]
  <2>2. tree' = [tree EXCEPT ![s] = u]
    BY <1>t, <2>1
  <2>3. Evolves(s, u)
    BY <1>t, <2>1 DEF Evolves, Trees
  <2> QED
    BY <2>2, <2>3
<1>2. CASE Setsid(s)
  <2> DEFINE u == [tree[s] EXCEPT !.kin = (@ \ {"group"}) \cup {"escaped"}]
  <2>2. tree' = [tree EXCEPT ![s] = u]
    BY <1>2, <1>t DEF Setsid
  <2>3. Evolves(s, u)
    BY <1>2, <1>t DEF Setsid, Evolves, Trees
  <2> QED
    BY <2>2, <2>3
<1>3. CASE \E k \in Kin : Fork(s, k)
  <2> PICK k \in Kin : Fork(s, k)
    BY <1>3
  <2> DEFINE u == [tree[s] EXCEPT !.kin = @ \cup {k}, !.killed = @ \ {k}]
  <2>2. tree' = [tree EXCEPT ![s] = u]
    BY <1>t DEF Fork
  <2>3. Evolves(s, u)
    BY <1>t DEF Fork, Parents, Evolves, Trees
  <2> QED
    BY <2>2, <2>3
<1>4. CASE \E m \in Kin \cup {"leader"} : Exit(s, m)
  <2> PICK m \in Kin \cup {"leader"} : Exit(s, m)
    BY <1>4
  <2> DEFINE u == [tree[s] EXCEPT !.leader = IF m = "leader" THEN "zombie" ELSE @,
                                  !.kin = @ \ {m}, !.killed = @ \ {m}]
  <2>2. tree' = [tree EXCEPT ![s] = u]
    BY <1>t DEF Exit
  <2>3. Evolves(s, u)
    BY <1>t DEF Exit, Evolves, Trees
  <2> QED
    BY <2>2, <2>3
<1> QED
  BY <1>1, <1>2, <1>3, <1>4 DEF Kernel

\* A process that is gone stays gone: nothing that is not there forks.
LEMMA KernelStep ==
    ASSUME IInv, NEW s \in Session, Kernel(s)
    PROVE  IInv'
<1>1. PICK u : tree' = [tree EXCEPT ![s] = u] /\ Evolves(s, u)
  BY KernelEvolves DEF IInv
<1>2. UNCHANGED <<daemon, plan, journal, cgroup, pool, life, outcome, task, released>>
  BY KernelEvolves DEF IInv
<1>3. tree \in [Session -> Trees]
  BY DEF IInv, TypeOK
<1>4. ASSUME NEW x \in Session
      PROVE  TreeSound(x)' /\ CoverSound(x)' /\ LifeSound(x)'
  <2>1. TreeSound(x) /\ CoverSound(x) /\ LifeSound(x)
    BY DEF IInv
  <2>2. CASE x # s
    BY <1>1, <1>2, <1>3, <2>1, <2>2
       DEF TreeSound, CoverSound, LifeSound, Gone, Bound, OnDisk, RecordOf, Held
  <2>3. CASE x = s
    <3>1. TreeSound(x)'
      BY <1>1, <1>2, <1>3, <2>1, <2>3 DEF TreeSound, Evolves, NoTree
    <3>2. CoverSound(x)'
      BY <1>1, <1>2, <1>3, <2>1, <2>3
         DEF CoverSound, Evolves, Gone, OnDisk, RecordOf, Held, TreeSound, NoTree
    <3>3. LifeSound(x)'
      BY <1>1, <1>2, <1>3, <2>1, <2>3
         DEF LifeSound, Evolves, Bound, OnDisk, RecordOf, Held, NoTree
    <3> QED
      BY <3>1, <3>2, <3>3
  <2> QED
    BY <2>2, <2>3
<1>5. JournalSound'
  BY <1>2 DEF IInv, JournalSound, Mirrored, FileSound, Loadable, OnDisk, RecordOf, Held
<1>6. TaskSound'
  <2>1. ASSUME NEW x \in Session, Gone(x) PROVE Gone(x)'
    BY <1>1, <1>2, <1>3, <2>1 DEF Gone, Evolves
  <2>2. ASSUME NEW x \in Session, SpawnSound(x) PROVE SpawnSound(x)'
    BY <1>1, <1>2, <1>3, <2>1, <2>2
       DEF SpawnSound, SettlesGone, Evolves, Bound, OnDisk, RecordOf, Held, NoTree
  <2>3. ASSUME NEW x \in Session, StopSound(x) PROVE StopSound(x)'
    BY <1>2, <2>1, <2>3 DEF StopSound, SettlesGone
  <2>4. VerifySound => VerifySound'
    BY <1>2, <2>1 DEF VerifySound, SettlesGone, Bound, RecordOf, Held, Actionable
  <2> QED
    BY <1>2, <2>2, <2>3, <2>4 DEF IInv, TaskSound
<1>7. TypeOK'
  BY <1>1, <1>2, <1>3 DEF IInv, TypeOK, Evolves
<1> QED
  BY <1>4, <1>5, <1>6, <1>7 DEF IInv

\* What a step may leave of a file: the same, a quarantined record, or nothing
\* when the tree is gone or the record released.
Kept(x, e) ==
    \/ e = RecordOf(x)
    \/ e = NoRecord /\ (Gone(x) \/ x \in released')
    \/ /\ OnDisk(x) /\ e \in Record
       /\ e.boot = RecordOf(x).boot /\ e.containment = RecordOf(x).containment
       /\ e.class = "unverified" /\ e.quarantined # "no"

\* The map of a daemon that is down holds nothing.
LEMMA NothingHeld == Loadable(EmptyMap)
<1>1. Held(EmptyMap) = {}
  BY DEF Held, EmptyMap
<1> QED
  BY <1>1, FS_EmptySet, MaxRecordsAssumption DEF Loadable

\* A daemon that ends leaves the files, the trees and the cgroups.
LEMMA EndedStep ==
    ASSUME IInv, Ended, NEW d, journal' = Down(d),
           d \in [Session -> Record \cup {NoRecord}],
           \A x \in Session : Kept(x, d[x]),
           released \subseteq released', released' \subseteq Session,
           UNCHANGED <<plan, cgroup, tree, outcome>>
    PROVE  IInv'
<1>1. /\ daemon' = "down" /\ task' = Idle
      /\ pool' = [s \in Session |-> NoWorker]
      /\ life' = [s \in Session |-> IF life[s] = "unused" THEN "unused" ELSE "lost"]
  BY DEF Ended
<1>2. /\ journal' = [memory |-> EmptyMap, disk |-> d] /\ journal'.disk = d
      /\ journal'.memory = EmptyMap
  BY DEF Down
<1>3. TypeOK'
  <2>1. journal' \in Journals
    BY <1>2 DEF Journals, EmptyMap
  <2>2. pool' \in [Session -> Handles \cup {NoWorker}] /\ life' \in [Session -> {"unused", "lost"}]
    BY <1>1
  <2> QED
    BY <1>1, <2>1, <2>2 DEF IInv, TypeOK, Idle
<1>4. ASSUME NEW x \in Session
      PROVE  TreeSound(x)' /\ CoverSound(x)' /\ LifeSound(x)' /\ FileSound(x)'
  <2>1. TreeSound(x) /\ CoverSound(x) /\ LifeSound(x) /\ FileSound(x)
    BY DEF IInv, JournalSound
  <2>2. /\ Kept(x, d[x]) /\ (Gone(x)' <=> Gone(x)) /\ RecordOf(x)' = d[x]
        /\ (OnDisk(x)' <=> d[x] # NoRecord) /\ (OnDisk(x) <=> RecordOf(x) # NoRecord)
    BY <1>2 DEF Gone, OnDisk, RecordOf, Held
  <2>3. TreeSound(x)' /\ LifeSound(x)'
    BY <1>1, <2>1 DEF TreeSound, LifeSound, Bound
  <2>4. CoverSound(x)' /\ FileSound(x)'
    BY <2>1, <2>2, NoRecordAssumption DEF CoverSound, FileSound, Kept
  <2> QED
    BY <2>3, <2>4
<1>5. JournalSound'
  BY <1>1, <1>2, <1>4, NothingHeld DEF JournalSound
<1>6. TaskSound'
  BY <1>1 DEF TaskSound, Idle
<1> QED
  BY <1>3, <1>4, <1>5, <1>6 DEF IInv

\* A daemon that crashes or leaves keeps what outlives it.
LEMMA CrashStep == ASSUME IInv, Crash \/ Leave PROVE IInv'
<1>1. /\ Ended /\ journal' = Down(journal.disk)
      /\ UNCHANGED <<plan, cgroup, tree, outcome, released>>
  BY DEF Crash, Leave
<1>2. /\ journal.disk \in [Session -> Record \cup {NoRecord}] /\ released \subseteq Session
      /\ \A x \in Session : Kept(x, journal.disk[x])
  BY DEF IInv, TypeOK, Journals, Kept, RecordOf
<1> QED
  BY <1>1, <1>2, EndedStep

\* A reboot ends every process, so that a record of an earlier boot covers nothing.
LEMMA RebootStep == ASSUME IInv, Reboot PROVE IInv'
<1> DEFINE d == Rebooted(journal.disk)
<1>1. /\ daemon' = "down" /\ task' = Idle /\ plan' = plan /\ outcome' = outcome
      /\ released' = released /\ cgroup' = {} /\ tree' = [s \in Session |-> NoTree]
      /\ pool' = [s \in Session |-> NoWorker]
      /\ life' = [s \in Session |-> IF life[s] = "unused" THEN "unused" ELSE "lost"]
  BY DEF Ended, Reboot
<1>2. journal' = [memory |-> EmptyMap, disk |-> d] /\ journal'.disk = d
  BY DEF Reboot, Down
<1>3. journal.disk \in [Session -> Record \cup {NoRecord}]
  BY DEF IInv, TypeOK, Journals
<1>4. /\ d \in [Session -> Record \cup {NoRecord}]
      /\ Held(d) = Held(journal.disk)
      /\ \A x \in Held(d) : /\ d[x].class = journal.disk[x].class
                            /\ d[x].quarantined = journal.disk[x].quarantined
                            /\ d[x].boot = "none" => journal.disk[x].boot = "none"
                            /\ d[x].boot # "current"
  BY <1>3, NoRecordAssumption DEF Rebooted, Held, Record
<1>5. TypeOK'
  <2>1. journal' \in Journals
    BY <1>2, <1>4 DEF Journals, EmptyMap
  <2>2. /\ pool' \in [Session -> Handles \cup {NoWorker}]
        /\ life' \in [Session -> {"unused", "lost"}]
        /\ tree' \in [Session -> Trees]
    BY <1>1 DEF Trees, NoTree, Kin
  <2> QED
    BY <1>1, <2>1, <2>2 DEF IInv, TypeOK, Idle
<1>6. ASSUME NEW x \in Session
      PROVE  TreeSound(x)' /\ CoverSound(x)' /\ LifeSound(x)'
  BY <1>1, <1>2, <1>4
     DEF IInv, TreeSound, CoverSound, LifeSound, Gone, Members, NoTree, Bound, OnDisk, RecordOf, Held
<1>7. JournalSound'
  <2>1. journal'.memory = EmptyMap /\ daemon' = "down"
    BY <1>1, <1>2
  <2>2. \A x \in Session : FileSound(x)'
    BY <1>2, <1>4 DEF IInv, JournalSound, FileSound, OnDisk, RecordOf
  <2> QED
    BY <2>1, <2>2, NothingHeld DEF JournalSound
<1>8. TaskSound'
  BY <1>1 DEF TaskSound, Idle
<1> QED
  BY <1>5, <1>6, <1>7, <1>8 DEF IInv

-----------------------------------------------------------------------------
(* Steps of a handler that change nothing but where it is.                  *)

\* A handler that only moves on keeps all but what is said of the handler.
LEMMA HandlerMoves ==
    ASSUME IInv, TypeOK', TaskSound',
           UNCHANGED <<daemon, plan, journal, cgroup, tree, pool, life, outcome, released>>,
           task'.op = task.op, task'.todo = task.todo,
           task.op = "spawn" => task'.session = task.session
    PROVE  IInv'
<1>1. ASSUME NEW x \in Session
      PROVE  TreeSound(x)' /\ CoverSound(x)' /\ LifeSound(x)'
  <2>1. TreeSound(x) /\ CoverSound(x) /\ LifeSound(x)
    BY DEF IInv
  <2> QED
    BY <2>1 DEF TreeSound, CoverSound, LifeSound, Gone, Bound, OnDisk, RecordOf, Held
<1>2. JournalSound'
  BY DEF IInv, JournalSound, Mirrored, FileSound, Loadable, OnDisk, RecordOf, Held
<1> QED
  BY <1>1, <1>2 DEF IInv

\* probe_bindable failed: the worker is covered by its reservation.
LEMMA NotBindableStep == ASSUME IInv, NEW s \in Session, NotBindable(s) PROVE IInv'
<1>1. TypeOK'
  BY DEF NotBindable, At, Go, IInv, TypeOK
<1>2. SpawnSound(s)
  BY DEF NotBindable, At, IInv, TypeOK, TaskSound, Idle
<1>3. SpawnSound(s)'
  BY <1>2 DEF NotBindable, At, Go, IInv, TypeOK, SpawnSound, SettlesGone, OnDisk, RecordOf, Held
<1>4. TaskSound'
  BY <1>2, <1>3 DEF NotBindable, At, Go, IInv, TypeOK, TaskSound, SpawnSound
<1> QED
  BY <1>1, <1>4, HandlerMoves DEF NotBindable, At, Go, IInv, TypeOK

\* The identity check before a signal.
LEMMA ScanStep == ASSUME IInv, NEW s \in Session, Scan(s) PROVE IInv'
<1>1. TypeOK'
  BY DEF Scan, Finding, IInv, TypeOK
<1>2. task.op \in {"spawn", "stop"} /\ daemon # "down"
  BY DEF Scan, IInv, TypeOK, TaskSound, VerifySound, Idle
<1>3. /\ task'.op = task.op /\ task'.session = task.session /\ task'.todo = task.todo
      /\ \/ task'.at = "kill"
         \/ task'.at = "settle" /\ task'.cleanup = "unverified"
  BY DEF Scan, Finding, IInv, TypeOK
<1>4. SpawnSound(s) => SpawnSound(s)'
  BY <1>3 DEF Scan, SpawnSound, SettlesGone, Bound, OnDisk, RecordOf, Held
<1>5. StopSound(s) => StopSound(s)'
  BY <1>3 DEF Scan, StopSound, SettlesGone
<1>6. TaskSound'
  BY <1>2, <1>3, <1>4, <1>5 DEF Scan, IInv, TaskSound, SpawnSound, StopSound
<1> QED
  BY <1>1, <1>3, <1>6, HandlerMoves DEF Scan

\* A pass opens the cgroup of an exact record that is not quarantined.
LEMMA OpenRecordedStep == ASSUME IInv, NEW s \in Session, OpenRecorded(s) PROVE IInv'
<1>1. TypeOK'
  BY DEF OpenRecorded, At, IInv, TypeOK
<1>2. task.op = "verify" /\ VerifySound
  BY DEF OpenRecorded, At, IInv, TaskSound, VerifySound
<1>3. /\ task'.op = "verify" /\ task'.session = s /\ task'.todo = task.todo
      /\ task'.at \in {"rmdir", "signal"}
  BY <1>2 DEF OpenRecorded, IInv, TypeOK
<1>4. VerifySound'
  BY <1>2, <1>3
     DEF OpenRecorded, VerifySound, SettlesGone, RecordOf, Held, Bound, Actionable
<1>5. TaskSound'
  BY <1>2, <1>3, <1>4 DEF OpenRecorded, IInv, TaskSound, VerifySound, Idle
<1> QED
  BY <1>1, <1>2, <1>3, <1>5, HandlerMoves DEF OpenRecorded

\* The kill window of a pass ends: a subtree that is not empty is unverified.
LEMMA ReapWaitStep == ASSUME IInv, NEW s \in Session, ReapWait(s) PROVE IInv'
<1>1. TypeOK'
  BY DEF ReapWait, At, Go, Finding, IInv, TypeOK
<1>2. task.op = "verify" /\ VerifySound
  BY DEF ReapWait, At, IInv, TaskSound
<1>3. /\ task'.op = "verify" /\ task'.session = s /\ task'.todo = task.todo
      /\ \/ task'.at = "rmdir"
         \/ task'.at = "settle" /\ task'.cleanup = "unverified"
  BY <1>2 DEF ReapWait, Go, Finding, IInv, TypeOK
<1>4. VerifySound'
  BY <1>2, <1>3 DEF ReapWait, At, VerifySound, SettlesGone, RecordOf, Held, Bound, Actionable
<1>5. TaskSound'
  BY <1>2, <1>3, <1>4 DEF ReapWait, IInv, TaskSound, VerifySound, Idle
<1> QED
  BY <1>1, <1>2, <1>3, <1>5, HandlerMoves DEF ReapWait

\* A clock of a handle: what the pool holds stays what it holds.
LEMMA ClockStep ==
    ASSUME IInv, NEW s \in Session, Deadline(s) \/ KillWindow(s)
    PROVE  IInv'
<1>1. PICK h \in Handles : pool' = [pool EXCEPT ![s] = h]
  <2>1. pool[s] \in Handles
    BY DEF Deadline, KillWindow, Bound, IInv, TypeOK
  <2>2. /\ [pool[s] EXCEPT !.due = TRUE] \in Handles
        /\ [pool[s] EXCEPT !.waited = TRUE] \in Handles
    BY <2>1 DEF Handles
  <2>3. \/ pool' = [pool EXCEPT ![s] = [pool[s] EXCEPT !.due = TRUE]]
        \/ pool' = [pool EXCEPT ![s] = [pool[s] EXCEPT !.waited = TRUE]]
    BY DEF Deadline, KillWindow
  <2> QED
    BY <2>2, <2>3
<1>2. UNCHANGED <<daemon, plan, journal, cgroup, tree, life, outcome, task, released>>
  BY DEF Deadline, KillWindow
<1>3. s \in Bound /\ Bound' = Bound
  BY <1>1, NullAssumption DEF Deadline, KillWindow, Bound, IInv, TypeOK
<1>4. TypeOK'
  BY <1>1, <1>2 DEF IInv, TypeOK
<1>5. ASSUME NEW x \in Session
      PROVE  TreeSound(x)' /\ CoverSound(x)' /\ LifeSound(x)'
  <2>1. TreeSound(x) /\ CoverSound(x) /\ LifeSound(x)
    BY DEF IInv
  <2> QED
    BY <1>2, <1>3, <2>1 DEF TreeSound, CoverSound, LifeSound, Gone, OnDisk, RecordOf, Held
<1>6. JournalSound'
  BY <1>2 DEF IInv, JournalSound, Mirrored, FileSound, Loadable, OnDisk, RecordOf, Held
<1>7. TaskSound'
  BY <1>2, <1>3
     DEF IInv, TaskSound, SpawnSound, StopSound, VerifySound, SettlesGone, Gone, OnDisk,
         RecordOf, Held
<1> QED
  BY <1>4, <1>5, <1>6, <1>7 DEF IInv

-----------------------------------------------------------------------------
(* Entries of the journal, cgroups and signals.                             *)

\* What a daemon holds is a record of the same tree as the file.
LEMMA HeldEntry ==
    ASSUME IInv, daemon # "down", NEW s \in Held(journal.memory)
    PROVE  /\ s \in Session /\ journal.memory[s] \in Record
           /\ OnDisk(s) /\ RecordOf(s) \in Record
           /\ journal.memory[s].boot = RecordOf(s).boot
           /\ journal.memory[s].containment = RecordOf(s).containment
           /\ journal.memory[s].class = "unverified" \/ journal.memory[s].boot = "none" =>
                journal.memory[s] = RecordOf(s)
           /\ journal.memory[s].boot = "none" => journal.memory[s].class = "unverified"
           /\ journal.memory[s].class = "unverified" => journal.memory[s].quarantined # "no"
<1>1. s \in Session /\ journal.memory[s] \in Record
  BY DEF IInv, TypeOK, Journals, Held
<1>2. Mirrored(s) /\ FileSound(s)
  BY <1>1 DEF IInv, JournalSound
<1>3. OnDisk(s)
  BY <1>2 DEF Mirrored
<1>4. RecordOf(s) \in Record
  BY <1>1, <1>3 DEF IInv, TypeOK, Journals, OnDisk, RecordOf, Held
<1> QED
  BY <1>1, <1>2, <1>3, <1>4 DEF Mirrored, FileSound

\* A file is forgotten only by the daemon that discarded its session.
LEMMA FileHeld ==
    ASSUME IInv, daemon # "down", NEW s \in Session, OnDisk(s), life[s] # "discarded"
    PROVE  s \in Held(journal.memory)
BY DEF IInv, JournalSound, Mirrored

\* One entry changes, on disk and perhaps in the map.
Entered(s, e) ==
    \/ Moved(journal, journal', s, e)
    \/ Written(journal, journal', s, e)

LEMMA EntryMoved ==
    ASSUME journal \in Journals, NEW s \in Session, NEW e, Entered(s, e)
    PROVE  /\ journal' \in Journals
           /\ OnDisk(s)' <=> e # NoRecord
           /\ RecordOf(s)' = e
           /\ \A x \in Session \ {s} :
                /\ OnDisk(x)' = OnDisk(x) /\ RecordOf(x)' = RecordOf(x)
                /\ (x \in Held(journal.memory))' = (x \in Held(journal.memory))
                /\ journal'.memory[x] = journal.memory[x]
BY DEF Entered, Moved, Written, Journals, OnDisk, RecordOf, Held

\* An entry of a daemon that is up is replaced or removed: a record takes the
\* place of one of the same boot and containment.
Replaces(s, e) ==
    /\ e.boot = journal.memory[s].boot /\ e.containment = journal.memory[s].containment
    /\ e.boot = "none" => e.class = "unverified"
    /\ e.class = "unverified" => e.quarantined # "no"
    /\ journal.memory[s].class = "unverified" \/ e.boot = "none" => e = journal.memory[s]

LEMMA EntryReplaced ==
    ASSUME IInv, daemon # "down", NEW s \in Held(journal.memory), NEW e, Entered(s, e),
           e # NoRecord => Replaces(s, e),
           \A x \in Session : life[x] = "discarded" => life'[x] = "discarded"
    PROVE  JournalSound'
<1>1. journal \in Journals /\ s \in Session
  BY DEF IInv, TypeOK, Held
<1>2. Loadable(journal'.memory)
  <2>1. Held(journal'.memory) \subseteq Held(journal.memory)
    BY <1>1 DEF Entered, Moved, Written, Journals, Held
  <2> QED
    BY <2>1, LimitKept DEF IInv, JournalSound
<1>3. ASSUME NEW x \in Session PROVE Mirrored(x)' /\ FileSound(x)'
  <2>1. Mirrored(x) /\ FileSound(x)
    BY DEF IInv, JournalSound
  <2>2. CASE x # s
    BY <1>1, <2>1, <2>2, EntryMoved DEF Mirrored, FileSound
  <2>3. CASE x = s
    <3>1. RecordOf(s)' = e /\ (OnDisk(s)' <=> e # NoRecord)
      BY <1>1, EntryMoved
    <3>2. FileSound(s)'
      BY <3>1 DEF FileSound, Replaces
    <3>3. CASE Moved(journal, journal', s, e)
      <4>1. journal'.memory[s] = e /\ ((s \in Held(journal.memory))' <=> e # NoRecord)
        BY <1>1, <3>3 DEF Moved, Journals, Held
      <4> QED
        BY <2>3, <3>1, <3>2, <4>1 DEF Mirrored
    <3>4. CASE Written(journal, journal', s, e)
      <4>1. journal'.memory = journal.memory /\ e \in Record
        BY <3>4 DEF Written
      <4> QED
        BY <2>3, <3>1, <3>2, <4>1, NoRecordAssumption DEF Mirrored, Replaces
    <3> QED
      BY <3>3, <3>4 DEF Entered
  <2> QED
    BY <2>2, <2>3
<1> QED
  BY <1>2, <1>3 DEF JournalSound

\* A quarantine replaces the record it is made from.
LEMMA QuarantineReplaces ==
    ASSUME IInv, daemon # "down", NEW s \in Held(journal.memory)
    PROVE  LET q == Quarantined(journal.memory[s])
           IN /\ q \in Record /\ q # NoRecord /\ Replaces(s, q)
              /\ q.boot = RecordOf(s).boot /\ q.containment = RecordOf(s).containment
              /\ q.class = "unverified" /\ q.quarantined # "no"
<1> DEFINE rec == journal.memory[s]
           q == Quarantined(rec)
<1>1. /\ rec \in Record
      /\ rec.boot = RecordOf(s).boot /\ rec.containment = RecordOf(s).containment
      /\ rec.boot = "none" => rec.class = "unverified"
      /\ rec.class = "unverified" => rec.quarantined # "no"
  BY HeldEntry
<1> HIDE DEF rec
<1>2. /\ q \in Record /\ q.boot = rec.boot /\ q.containment = rec.containment
      /\ q.class = "unverified" /\ q.quarantined # "no"
      /\ rec.class = "unverified" /\ rec.quarantined # "no" => q = rec
  BY <1>1 DEF Quarantined, Record, Class
<1>3. q # NoRecord
  BY <1>2, NoRecordAssumption
<1> QED
  BY <1>1, <1>2, <1>3 DEF Replaces, rec

\* A cgroup is removed only when it is empty, and what is gone stays gone.
LEMMA RmdirKeeps ==
    ASSUME NEW s \in Session, NEW removed \in BOOLEAN, Rmdir(s, removed),
           NEW x \in Session, TypeOK, TreeSound(x), tree' = tree
    PROVE  /\ TreeSound(x)'
           /\ Gone(x) => Gone(x)'
           /\ cgroup' \subseteq cgroup
           /\ removed => Members(tree[s]) = {} /\ s \notin cgroup'
BY DEF Rmdir, Emptied, TypeOK, TreeSound, Gone

\* A signal marks processes, and ends none.
LEMMA KillKeeps ==
    ASSUME NEW t \in Trees, NEW reached
    PROVE  LET u == Kill(t, reached)
           IN /\ u \in Trees /\ Members(u) = Members(t)
              /\ u.home = t.home /\ u.leader = t.leader /\ u.kin = t.kin
              /\ Members(t) = {} => u.killed = t.killed
BY DEF Kill, Trees, Members, Kin

\* The handler of session s is in a spawn.
LEMMA InSpawn ==
    ASSUME IInv, NEW s \in Session, task.session = s, task.op = "spawn"
    PROVE  /\ SpawnSound(s) /\ daemon = "serving" /\ life[s] = "created"
           /\ TreeSound(s) /\ CoverSound(s) /\ LifeSound(s)
           /\ journal \in Journals /\ tree \in [Session -> Trees] /\ cgroup \subseteq Session
           /\ OnDisk(s) /\ s \in Held(journal.memory)
<1>1. /\ SpawnSound(s) /\ TreeSound(s) /\ CoverSound(s) /\ LifeSound(s)
      /\ journal \in Journals /\ tree \in [Session -> Trees] /\ cgroup \subseteq Session
  BY DEF IInv, TypeOK, TaskSound
<1>2. daemon = "serving" /\ life[s] = "created" /\ OnDisk(s)
  BY <1>1 DEF SpawnSound
<1> QED
  BY <1>1, <1>2, FileHeld

\* A step of a spawn keeps the invariant if it does for its own session, and
\* touches nothing of the others.
LEMMA SpawnMoves ==
    ASSUME IInv, NEW s \in Session, task.session = s, task.op = "spawn",
           TypeOK', JournalSound', SpawnSound(s)', TreeSound(s)', CoverSound(s)',
           task'.op = "spawn", task'.session = s,
           \A x \in Session \ {s} :
             /\ tree'[x] = tree[x] /\ (x \in Bound)' = (x \in Bound)
             /\ OnDisk(x)' = OnDisk(x) /\ RecordOf(x)' = RecordOf(x)
             /\ (x \in cgroup)' = (x \in cgroup),
           UNCHANGED <<daemon, life, released>>
    PROVE  IInv'
<1>1. daemon = "serving" /\ life[s] = "created"
  BY InSpawn
<1>2. ASSUME NEW x \in Session
      PROVE  TreeSound(x)' /\ CoverSound(x)' /\ LifeSound(x)'
  <2>1. TreeSound(x) /\ CoverSound(x) /\ LifeSound(x)
    BY DEF IInv
  <2>2. CASE x = s
    BY <1>1, <2>2 DEF LifeSound
  <2>3. CASE x # s
    BY <1>1, <2>1, <2>3 DEF TreeSound, CoverSound, LifeSound, Gone
  <2> QED
    BY <2>2, <2>3
<1>3. TaskSound'
  BY <1>1 DEF TaskSound
<1> QED
  BY <1>2, <1>3 DEF IInv

\* Nothing was forked yet: the record may be removed.
LEMMA SpawnRefusedStep == ASSUME IInv, NEW s \in Session, SpawnRefused(s) PROVE IInv'
<1>1. task.session = s /\ task.op = "spawn" /\ task.at \in {"contain", "fork"}
  BY DEF SpawnRefused, At
<1>2. /\ task' = [task EXCEPT !.at = "settle", !.cleanup = "not_started"]
      /\ UNCHANGED <<daemon, plan, journal, tree, pool, life, outcome, released>>
  BY DEF SpawnRefused, Finding
<1>3. tree[s] = NoTree
  BY <1>1, InSpawn DEF SpawnSound
<1>4. \A x \in Session \ {s} : (x \in cgroup)' = (x \in cgroup)
  BY DEF SpawnRefused, Rmdir
<1>5. TypeOK'
  BY <1>2 DEF IInv, TypeOK, SpawnRefused, Rmdir
<1>6. Gone(s)' /\ TreeSound(s)'
  BY <1>2, <1>3 DEF Gone, TreeSound, NoTree, Members
<1>7. CoverSound(s)' /\ JournalSound'
  BY <1>1, <1>2, <1>6, InSpawn
     DEF IInv, JournalSound, Mirrored, FileSound, CoverSound, OnDisk, RecordOf, Held
<1>8. task'.op = "spawn" /\ task'.session = s /\ task'.at = "settle" /\ task'.todo = task.todo
  BY <1>1, <1>2 DEF IInv, TypeOK
<1>9. SpawnSound(s)'
  BY <1>1, <1>2, <1>6, <1>8, InSpawn
     DEF SpawnSound, SettlesGone, OnDisk, RecordOf, Held
<1> QED
  BY <1>1, <1>2, <1>4, <1>5, <1>6, <1>7, <1>8, <1>9, SpawnMoves
     DEF Bound, OnDisk, RecordOf, Held

\* The cgroup is made before the fork.
LEMMA ContainStep == ASSUME IInv, NEW s \in Session, Contain(s) PROVE IInv'
<1>1. task.session = s /\ task.op = "spawn" /\ task.at = "contain"
  BY DEF Contain, At
<1>2. /\ task' = [task EXCEPT !.at = "fork"]
      /\ UNCHANGED <<daemon, plan, journal, tree, pool, life, outcome, released>>
  BY DEF Contain, Go
<1>3. tree[s] = NoTree
  BY <1>1, InSpawn DEF SpawnSound
<1>4. \A x \in Session \ {s} : (x \in cgroup)' = (x \in cgroup)
  BY DEF Contain
<1>5. TypeOK'
  BY <1>2 DEF IInv, TypeOK, Contain
<1>6. Gone(s)' /\ TreeSound(s)'
  BY <1>2, <1>3 DEF Gone, TreeSound, NoTree, Members
<1>7. CoverSound(s)' /\ JournalSound'
  BY <1>1, <1>2, <1>6, InSpawn
     DEF IInv, JournalSound, Mirrored, FileSound, CoverSound, OnDisk, RecordOf, Held
<1>8. task'.op = "spawn" /\ task'.session = s /\ task'.at = "fork" /\ task'.todo = task.todo
  BY <1>1, <1>2 DEF IInv, TypeOK
<1>9. SpawnSound(s)'
  BY <1>1, <1>2, <1>8, InSpawn DEF SpawnSound, SettlesGone, OnDisk, RecordOf, Held
<1> QED
  BY <1>1, <1>2, <1>4, <1>5, <1>6, <1>7, <1>8, <1>9, SpawnMoves
     DEF Bound, OnDisk, RecordOf, Held

\* The fork finds its reservation on disk.
LEMMA ForkLeaderStep == ASSUME IInv, NEW s \in Session, ForkLeader(s) PROVE IInv'
<1> DEFINE u == [NoTree EXCEPT !.home = plan, !.leader = "forked"]
<1>1. task.session = s /\ task.op = "spawn" /\ task.at = "fork"
  BY DEF ForkLeader, At
<1>2. /\ task' = [task EXCEPT !.at = "exec"] /\ tree' = [tree EXCEPT ![s] = u]
      /\ UNCHANGED <<daemon, plan, journal, cgroup, pool, life, outcome, released>>
  BY DEF ForkLeader, Go
<1>3. u \in Trees /\ plan \in Mechanism
  BY PlansAssumption DEF IInv, TypeOK, Trees, NoTree
<1>4. TypeOK'
  BY <1>2, <1>3 DEF IInv, TypeOK
<1>5. tree'[s] = u /\ \A x \in Session \ {s} : tree'[x] = tree[x]
  BY <1>1, <1>2, InSpawn
<1>6. TreeSound(s)'
  BY <1>3, <1>5 DEF TreeSound, NoTree, Members, Mechanism
<1>7. CoverSound(s)' /\ JournalSound'
  BY <1>1, <1>2, <1>5, InSpawn
     DEF IInv, JournalSound, Mirrored, FileSound, CoverSound, SpawnSound, OnDisk, RecordOf, Held, NoTree
<1>8. task'.op = "spawn" /\ task'.session = s /\ task'.at = "exec" /\ task'.todo = task.todo
  BY <1>1, <1>2 DEF IInv, TypeOK
<1>9. SpawnSound(s)'
  BY <1>1, <1>2, <1>5, <1>8, InSpawn DEF SpawnSound, SettlesGone, OnDisk, RecordOf, Held, NoTree
<1> QED
  BY <1>1, <1>2, <1>4, <1>5, <1>6, <1>7, <1>8, <1>9, SpawnMoves
     DEF Bound, OnDisk, RecordOf, Held

\* The child never ran: the record may be removed.
LEMMA ExecRefusedStep == ASSUME IInv, NEW s \in Session, ExecRefused(s) PROVE IInv'
<1> DEFINE u == [tree[s] EXCEPT !.leader = "reaped"]
<1>1. task.session = s /\ task.op = "spawn" /\ task.at = "exec"
  BY DEF ExecRefused, At
<1>2. /\ task' = [task EXCEPT !.at = "settle", !.cleanup = "not_started"]
      /\ tree' = [tree EXCEPT ![s] = u]
      /\ UNCHANGED <<daemon, plan, journal, pool, life, outcome, released>>
  BY <1>1, InSpawn DEF ExecRefused, Finding
<1>3. /\ tree[s] \in Trees /\ tree[s].leader = "refused" /\ tree[s].kin = {}
      /\ tree[s].home # "none"
  BY <1>1, InSpawn DEF ExecRefused, TreeSound, NoTree
<1>4. u \in Trees /\ Members(u) = {} /\ u.home # "none"
  BY <1>3 DEF Trees, Members
<1>5. TypeOK'
  <2>1. cgroup' \subseteq Session
    BY DEF ExecRefused, Rmdir, IInv, TypeOK
  <2> QED
    BY <1>2, <1>4, <2>1 DEF IInv, TypeOK
<1>6. tree'[s] = u /\ \A x \in Session \ {s} : tree'[x] = tree[x] /\ (x \in cgroup)' = (x \in cgroup)
  BY <1>1, <1>2, InSpawn DEF ExecRefused, Rmdir
<1>7. Gone(s)' /\ TreeSound(s)'
  BY <1>3, <1>4, <1>6 DEF Gone, TreeSound
<1>8. CoverSound(s)' /\ JournalSound'
  BY <1>1, <1>2, <1>6, <1>7, InSpawn
     DEF IInv, JournalSound, Mirrored, FileSound, CoverSound, OnDisk, RecordOf, Held
<1>9. task'.op = "spawn" /\ task'.session = s /\ task'.at = "settle" /\ task'.todo = task.todo
  BY <1>1, <1>2 DEF IInv, TypeOK
<1>10. SpawnSound(s)'
  BY <1>1, <1>2, <1>7, <1>9, InSpawn
     DEF SpawnSound, SettlesGone, OnDisk, RecordOf, Held
<1> QED
  BY <1>1, <1>2, <1>5, <1>6, <1>7, <1>8, <1>9, <1>10, SpawnMoves
     DEF Bound, OnDisk, RecordOf, Held

\* A signal to the tree of a spawn or of a stop: what is there stays there.
LEMMA SignalledTree ==
    ASSUME IInv, NEW s \in Session, NEW reached,
           tree' = [tree EXCEPT ![s] = Kill(@, reached)]
    PROVE  /\ tree' \in [Session -> Trees]
           /\ \A x \in Session \ {s} : tree'[x] = tree[x]
           /\ Members(tree'[s]) = Members(tree[s])
           /\ tree'[s].home = tree[s].home /\ tree'[s].leader = tree[s].leader
           /\ tree'[s].kin = tree[s].kin
           /\ Members(tree[s]) = {} => tree'[s].killed = tree[s].killed
<1>1. tree \in [Session -> Trees] /\ tree[s] \in Trees
  BY DEF IInv, TypeOK
<1> QED
  BY <1>1, KillKeeps

\* abandon_cgroup_child: the subtree is killed under its reservation.
LEMMA AbandonStep == ASSUME IInv, NEW s \in Session, Abandon(s) PROVE IInv'
<1>1. task.session = s /\ task.op = "spawn" /\ task.at = "exec"
  BY DEF Abandon, At
<1>2. /\ tree' = [tree EXCEPT ![s] = Kill(@, WholeGroup)]
      /\ UNCHANGED <<daemon, plan, journal, cgroup, pool, life, outcome, released>>
      /\ tree[s].leader \in {"running", "zombie"}
  BY DEF Abandon
<1>3. /\ task'.op = "spawn" /\ task'.session = s /\ task'.todo = task.todo
      /\ \/ task'.at = "verdict"
         \/ task'.at = "settle" /\ task'.cleanup = "unverified"
  BY <1>1 DEF Abandon, Go, Finding, IInv, TypeOK
<1>s. /\ tree' \in [Session -> Trees] /\ \A x \in Session \ {s} : tree'[x] = tree[x]
      /\ Members(tree'[s]) = Members(tree[s]) /\ tree'[s].home = tree[s].home
      /\ tree'[s].leader = tree[s].leader
  BY <1>2, SignalledTree
<1>4. TypeOK'
  <2>1. \/ task' = [task EXCEPT !.at = "verdict"]
        \/ task' = [task EXCEPT !.at = "settle", !.cleanup = "unverified"]
    BY DEF Abandon, Go, Finding
  <2> QED
    BY <1>s, <1>2, <2>1 DEF IInv, TypeOK
<1>5. TreeSound(s)' /\ CoverSound(s)'
  BY <1>1, <1>2, <1>s, InSpawn
     DEF TreeSound, CoverSound, SpawnSound, NoTree, OnDisk, RecordOf, Held
<1>6. JournalSound'
  BY <1>2 DEF IInv, JournalSound, Mirrored, FileSound, OnDisk, RecordOf, Held
<1>7. SpawnSound(s)'
  BY <1>1, <1>2, <1>3, <1>s, InSpawn
     DEF SpawnSound, SettlesGone, OnDisk, RecordOf, Held
<1> QED
  BY <1>1, <1>2, <1>3, <1>4, <1>5, <1>6, <1>7, <1>s, SpawnMoves
     DEF Bound, OnDisk, RecordOf, Held

\* The handle enters the pool before the record is committed.
LEMMA SpawnedStep == ASSUME IInv, NEW s \in Session, Spawned(s) PROVE IInv'
<1>1. task.session = s /\ task.op = "spawn" /\ task.at = "exec"
  BY DEF Spawned, At
<1>2. /\ task' = [task EXCEPT !.at = "commit"] /\ pool' = [pool EXCEPT ![s] = Handle]
      /\ UNCHANGED <<daemon, plan, journal, cgroup, tree, life, outcome, released>>
      /\ tree[s].leader \in {"running", "zombie"}
  BY DEF Spawned, Go
<1>3. TypeOK'
  BY <1>2 DEF IInv, TypeOK, Handle, Handles
<1>4. (s \in Bound)' /\ \A x \in Session \ {s} : (x \in Bound)' = (x \in Bound)
  <2>1. Handle \in Handles
    BY DEF Handle, Handles
  <2> QED
    BY <1>2, <2>1, NullAssumption DEF IInv, TypeOK, Bound
<1>5. task'.op = "spawn" /\ task'.session = s /\ task'.at = "commit" /\ task'.todo = task.todo
  BY <1>1, <1>2 DEF IInv, TypeOK
<1>6. TreeSound(s)' /\ CoverSound(s)' /\ JournalSound'
  BY <1>1, <1>2, InSpawn
     DEF IInv, JournalSound, Mirrored, FileSound, TreeSound, CoverSound, Gone, OnDisk, RecordOf, Held
<1>7. SpawnSound(s)'
  BY <1>1, <1>2, <1>4, <1>5, InSpawn DEF SpawnSound, SettlesGone, OnDisk, RecordOf, Held
<1> QED
  BY <1>1, <1>2, <1>3, <1>4, <1>5, <1>6, <1>7, SpawnMoves DEF OnDisk, RecordOf, Held

\* The record is committed, or the worker is terminated.
LEMMA CommitRecordStep ==
    ASSUME IInv, NEW s \in Session, CommitRecord(s)
    PROVE  IInv'
<1> DEFINE e == [journal.memory[s] EXCEPT !.class = "committed"]
<1>1. task.session = s /\ task.op = "spawn" /\ task.at = "commit"
  BY DEF CommitRecord, At
<1>2. PICK r \in Commit(journal, s) : journal' = r.journal
                                       /\ Go(IF r.ok THEN "bind" ELSE "terminate")
  BY DEF CommitRecord
<1>3. UNCHANGED <<daemon, plan, cgroup, tree, pool, life, outcome, released>>
  BY DEF CommitRecord
<1>4. /\ task'.op = "spawn" /\ task'.session = s /\ task'.todo = task.todo
      /\ task'.at = IF r.ok THEN "bind" ELSE "terminate"
  BY <1>1, <1>2 DEF Go, IInv, TypeOK
<1>5. CASE ~r.ok /\ journal' = journal
  <2>1. TypeOK'
    BY <1>2, <1>3, <1>5 DEF IInv, TypeOK, Go
  <2>2. TreeSound(s)' /\ CoverSound(s)' /\ JournalSound'
    BY <1>1, <1>3, <1>5, InSpawn
       DEF IInv, JournalSound, Mirrored, FileSound, TreeSound, CoverSound, Gone, OnDisk, RecordOf, Held
  <2>3. SpawnSound(s)'
    BY <1>1, <1>3, <1>4, <1>5, InSpawn DEF SpawnSound, SettlesGone, OnDisk, RecordOf, Held, Bound
  <2> QED
    BY <1>1, <1>3, <1>4, <1>5, <2>1, <2>2, <2>3, SpawnMoves DEF Bound, OnDisk, RecordOf, Held
<1>6. CASE (r.ok /\ Moved(journal, journal', s, e)) \/ (~r.ok /\ Written(journal, journal', s, e))
  <2>0. /\ Entered(s, e) /\ daemon # "down" /\ s \in Held(journal.memory)
        /\ RecordOf(s).boot = "current" /\ RecordOf(s).containment = plan
        /\ RecordOf(s).class # "unverified"
    BY <1>1, <1>6, InSpawn DEF Entered, SpawnSound
  <2>1. /\ e \in Record /\ e.boot = "current" /\ e.containment = plan /\ e.class = "committed"
        /\ Replaces(s, e)
    <3>1. /\ journal.memory[s] \in Record /\ journal.memory[s].boot = "current"
          /\ journal.memory[s].containment = plan /\ journal.memory[s].class # "unverified"
      BY <2>0, HeldEntry
    <3> QED
      BY <3>1 DEF Replaces, Record, Class
  <2>2. /\ journal' \in Journals /\ OnDisk(s)' /\ RecordOf(s)' = e
        /\ \A x \in Session \ {s} : OnDisk(x)' = OnDisk(x) /\ RecordOf(x)' = RecordOf(x)
    BY <1>1, <2>0, <2>1, InSpawn, EntryMoved, NoRecordAssumption
  <2>3. TypeOK'
    BY <1>2, <1>3, <1>6, <2>2 DEF IInv, TypeOK, Go
  <2>4. JournalSound'
    BY <1>3, <2>0, <2>1, EntryReplaced
  <2>5. TreeSound(s)' /\ CoverSound(s)'
    BY <1>1, <1>3, <2>1, <2>2, InSpawn DEF TreeSound, CoverSound, SpawnSound, Gone
  <2>6. SpawnSound(s)'
    BY <1>1, <1>3, <1>4, <1>6, <2>1, <2>2, InSpawn DEF SpawnSound, SettlesGone, Bound
  <2> QED
    BY <1>1, <1>3, <1>4, <2>2, <2>3, <2>4, <2>5, <2>6, SpawnMoves DEF Bound
<1> QED
  BY <1>1, <1>2, <1>5, <1>6, InSpawn, CommitOutcome

\* The session is exposed: from here on its record is what LifeSound asks for.
LEMMA BindStep == ASSUME IInv, NEW s \in Session, Bind(s) PROVE IInv'
<1>1. task.session = s /\ task.op = "spawn" /\ task.at = "bind"
  BY DEF Bind, At
<1>2. /\ life' = [life EXCEPT ![s] = "running"] /\ task' = Idle
      /\ UNCHANGED <<daemon, plan, journal, cgroup, tree, pool, outcome, released>>
  BY DEF Bind
<1>s. daemon = "serving" /\ SpawnSound(s)
  BY <1>1, InSpawn
<1>3. TypeOK'
  BY <1>2 DEF IInv, TypeOK, Idle
<1>4. ASSUME NEW x \in Session
      PROVE  TreeSound(x)' /\ CoverSound(x)' /\ LifeSound(x)'
  <2>1. TreeSound(x) /\ CoverSound(x) /\ LifeSound(x)
    BY DEF IInv
  <2>2. TreeSound(x)' /\ CoverSound(x)'
    BY <1>2, <2>1 DEF TreeSound, CoverSound, Gone, OnDisk, RecordOf, Held
  <2>3. life'[x] = IF x = s THEN "running" ELSE life[x]
    BY <1>2 DEF IInv, TypeOK
  <2>4. CASE x # s
    BY <1>1, <1>2, <1>s, <2>1, <2>2, <2>3, <2>4 DEF LifeSound, Bound, OnDisk, RecordOf, Held
  <2>5. CASE x = s
    BY <1>1, <1>2, <1>s, <2>1, <2>2, <2>3, <2>5
       DEF LifeSound, SpawnSound, Bound, OnDisk, RecordOf, Held
  <2> QED
    BY <2>4, <2>5
<1>5. JournalSound'
  <2>1. \A x \in Session : life[x] = "discarded" => life'[x] = "discarded"
    BY <1>1, <1>2, InSpawn DEF IInv, TypeOK
  <2> QED
    BY <1>2, <2>1 DEF IInv, JournalSound, Mirrored, FileSound, OnDisk, RecordOf, Held
<1>6. TaskSound'
  BY <1>2, <1>s DEF TaskSound, Idle
<1> QED
  BY <1>3, <1>4, <1>5, <1>6 DEF IInv

-----------------------------------------------------------------------------
(* The end of a session, supervision and the drain.                         *)

\* A record is removed only when its tree is proven gone.
LEMMA ConcludeStep ==
    ASSUME IInv, NEW s \in Session,
           NEW cleanup \in {"not_started", "swept", "unverified"}, Conclude(s, cleanup),
           OnDisk(s), life[s] \in {"created", "running", "stopping"},
           cleanup \in {"not_started", "swept"} => Gone(s)',
           Gone(s) => Gone(s)', TreeSound(s)',
           tree' \in [Session -> Trees], tree'[s].home = tree[s].home,
           cgroup' \subseteq Session,
           \A x \in Session \ {s} : tree'[x] = tree[x] /\ (x \in cgroup)' = (x \in cgroup),
           daemon \in {"serving", "stopping"},
           task = Idle \/ task.session = s, task' = Idle,
           UNCHANGED <<daemon, plan, released>>
    PROVE  IInv'
<1>1. /\ journal \in Journals /\ daemon # "down" /\ s \in Held(journal.memory)
      /\ journal.memory[s].boot = "none" =>
           /\ journal.memory[s].class = "unverified" /\ journal.memory[s].quarantined # "no"
           /\ journal.disk[s] = journal.memory[s]
  <2>1. journal \in Journals /\ daemon # "down" /\ s \in Held(journal.memory)
    BY FileHeld DEF IInv, TypeOK
  <2> QED
    BY <2>1, HeldEntry DEF RecordOf
<1>2. PICK r \in Settle(journal, s, cleanup) : journal' = r.journal
  BY DEF Conclude
<1>3. /\ pool' = [pool EXCEPT ![s] = NoWorker] /\ life' = [life EXCEPT ![s] = "terminal"]
      /\ outcome' = [outcome EXCEPT ![s] = cleanup]
  BY DEF Conclude
<1> DEFINE q == Quarantined(journal.memory[s])
<1>4. /\ q \in Record /\ q # NoRecord /\ Replaces(s, q)
      /\ q.boot = RecordOf(s).boot /\ q.containment = RecordOf(s).containment
      /\ q.class = "unverified"
  BY <1>1, QuarantineReplaces
<1> HIDE DEF q
<1>5. \/ journal' = journal
      \/ Gone(s)' /\ Entered(s, NoRecord)
      \/ Entered(s, q)
  BY <1>1, <1>2, SettleOutcome DEF Entered, q
<1>9. \A x \in Session : life[x] = "discarded" => life'[x] = "discarded"
  BY <1>3 DEF IInv, TypeOK
<1>6. /\ journal' \in Journals /\ JournalSound' /\ CoverSound(s)'
      /\ \A x \in Session \ {s} : OnDisk(x)' = OnDisk(x) /\ RecordOf(x)' = RecordOf(x)
  <2>1. CoverSound(s)
    BY DEF IInv
  <2>2. CASE journal' = journal
    BY <1>1, <1>9, <2>1, <2>2
       DEF IInv, JournalSound, Mirrored, FileSound, CoverSound, OnDisk, RecordOf, Held
  <2>3. CASE Gone(s)' /\ Entered(s, NoRecord)
    <3>1. JournalSound'
      BY <1>1, <1>9, <2>3, EntryReplaced
    <3> QED
      BY <1>1, <2>3, <3>1, EntryMoved DEF CoverSound
  <2>4. CASE Entered(s, q)
    <3>1. JournalSound'
      BY <1>1, <1>4, <1>9, <2>4, EntryReplaced
    <3> QED
      BY <1>1, <1>4, <2>1, <2>4, <3>1, EntryMoved DEF CoverSound
  <2> QED
    BY <1>5, <2>2, <2>3, <2>4
<1>7. TypeOK'
  BY <1>3, <1>6 DEF IInv, TypeOK, Idle
<1>8. ASSUME NEW x \in Session
      PROVE  TreeSound(x)' /\ CoverSound(x)' /\ LifeSound(x)'
  <2>1. TreeSound(x) /\ CoverSound(x) /\ LifeSound(x)
    BY DEF IInv
  <2>2. /\ life'[x] = IF x = s THEN "terminal" ELSE life[x]
        /\ (x \in Bound)' <=> x # s /\ x \in Bound
    BY <1>3 DEF IInv, TypeOK, Bound
  <2>3. TreeSound(x)' /\ CoverSound(x)'
    BY <1>6, <2>1 DEF TreeSound, CoverSound, Gone
  <2>4. LifeSound(x)'
    BY <1>6, <2>1, <2>2 DEF LifeSound, Idle
  <2> QED
    BY <2>3, <2>4
<1>10. TaskSound'
  BY DEF TaskSound, Idle
<1> QED
  BY <1>6, <1>7, <1>8, <1>10 DEF IInv

\* A spawn or a stop settles the record it answers for.
LEMMA SettleTaskStep ==
    ASSUME IInv, NEW s \in Session, SettleTask(s)
    PROVE  IInv'
<1>1. /\ task.session = s /\ task.op \in {"spawn", "stop"} /\ task.at = "settle"
      /\ Conclude(s, task.cleanup) /\ task' = Idle
      /\ UNCHANGED <<daemon, plan, cgroup, tree, released>>
  BY DEF SettleTask
<1>2. /\ OnDisk(s) /\ life[s] \in {"created", "stopping"} /\ SettlesGone(s)
      /\ daemon \in {"serving", "stopping"} /\ TreeSound(s)
  BY <1>1 DEF IInv, TaskSound, SpawnSound, StopSound, LifeSound
<1>3. /\ task.cleanup \in {"not_started", "swept", "unverified"}
      /\ task.cleanup \in {"not_started", "swept"} => Gone(s)
  BY <1>1, <1>2 DEF SettlesGone
<1>4. /\ tree' \in [Session -> Trees] /\ cgroup' \subseteq Session
      /\ TreeSound(s)' /\ (Gone(s) => Gone(s)')
  BY <1>1, <1>2 DEF IInv, TypeOK, TreeSound, Gone
<1> QED
  BY <1>1, <1>2, <1>3, <1>4, ConcludeStep

\* ContainedChild::terminate, up to its verdict.
LEMMA TerminateKillStep == ASSUME IInv, NEW s \in Session, TerminateKill(s) PROVE IInv'
<1>1. /\ task.session = s /\ task.at = "kill" /\ task' = [task EXCEPT !.at = "verdict"]
      /\ tree' = [tree EXCEPT ![s] = Kill(@, WholeGroup)]
      /\ UNCHANGED <<daemon, plan, journal, cgroup, pool, life, outcome, released>>
  BY DEF TerminateKill, Go
<1>2. /\ task.op \in {"spawn", "stop"} /\ daemon # "down"
      /\ task.op = "spawn" => SpawnSound(s)
      /\ task.op = "stop" => StopSound(s)
  BY <1>1 DEF IInv, TypeOK, TaskSound, VerifySound, Idle
<1>3. life[s] \in {"created", "stopping"}
  BY <1>2 DEF SpawnSound, StopSound
<1>4. /\ tree' \in [Session -> Trees] /\ \A x \in Session \ {s} : tree'[x] = tree[x]
      /\ Members(tree'[s]) = Members(tree[s]) /\ tree'[s].home = tree[s].home
      /\ tree'[s].leader = tree[s].leader /\ tree'[s].kin = tree[s].kin
      /\ Members(tree[s]) = {} => tree'[s].killed = tree[s].killed
  BY <1>1, SignalledTree
<1>5. /\ task'.op = task.op /\ task'.session = s /\ task'.todo = task.todo
      /\ task'.at = "verdict"
  BY <1>1 DEF IInv, TypeOK
<1>6. TypeOK'
  BY <1>1, <1>4 DEF IInv, TypeOK
<1>7. tree[s].leader \in {"running", "zombie", "reaped"}
  BY <1>1, <1>2 DEF IInv, LifeSound, SpawnSound, StopSound
<1>8. ASSUME NEW x \in Session
      PROVE  TreeSound(x)' /\ CoverSound(x)' /\ LifeSound(x)'
  <2>1. TreeSound(x) /\ CoverSound(x) /\ LifeSound(x)
    BY DEF IInv
  <2>2. CASE x = s
    <3>1. TreeSound(x)'
      BY <1>1, <1>4, <1>7, <2>1, <2>2 DEF TreeSound, NoTree
    <3>2. CoverSound(x)'
      BY <1>1, <1>4, <1>7, <2>1, <2>2 DEF CoverSound, Gone, OnDisk, RecordOf, Held
    <3>3. LifeSound(x)'
      BY <1>1, <1>3, <1>4, <1>5, <2>1, <2>2 DEF LifeSound, Bound, OnDisk, RecordOf, Held
    <3> QED
      BY <3>1, <3>2, <3>3
  <2>3. CASE x # s
    BY <1>1, <1>4, <1>5, <2>1, <2>3
       DEF TreeSound, CoverSound, LifeSound, Gone, Bound, OnDisk, RecordOf, Held
  <2> QED
    BY <2>2, <2>3
<1>9. JournalSound'
  BY <1>1 DEF IInv, JournalSound, Mirrored, FileSound, OnDisk, RecordOf, Held
<1>10. TaskSound'
  <2>1. task.op = "spawn" => SpawnSound(s)'
    BY <1>1, <1>2, <1>4, <1>5 DEF SpawnSound, SettlesGone, Bound, OnDisk, RecordOf, Held
  <2>2. task.op = "stop" => StopSound(s)'
    BY <1>1, <1>2, <1>5 DEF StopSound, SettlesGone
  <2> QED
    BY <1>1, <1>2, <1>5, <2>1, <2>2 DEF TaskSound, SpawnSound, StopSound
<1> QED
  BY <1>6, <1>8, <1>9, <1>10 DEF IInv

\* A tree is called swept only when nothing of it can be seen.
LEMMA VerdictStep == ASSUME IInv, NEW s \in Session, Verdict(s) PROVE IInv'
<1> DEFINE u == Reaped(tree[s])
<1>1. /\ task.session = s /\ task.op \in {"spawn", "stop"} /\ task.at = "verdict"
      /\ tree' = [tree EXCEPT ![s] = u]
      /\ UNCHANGED <<daemon, plan, journal, pool, life, outcome, released>>
  BY DEF Verdict
<1>2. /\ task.op = "spawn" => SpawnSound(s)
      /\ task.op = "stop" => StopSound(s)
      /\ tree \in [Session -> Trees] /\ tree[s] \in Trees
      /\ TreeSound(s) /\ CoverSound(s) /\ LifeSound(s)
  BY <1>1 DEF IInv, TypeOK, TaskSound
<1>3. /\ life[s] \in {"created", "stopping"} /\ daemon \in {"serving", "stopping"}
      /\ tree[s].leader \in {"running", "zombie", "reaped"}
  BY <1>1, <1>2 DEF LifeSound, SpawnSound, StopSound
<1>4. /\ u \in Trees /\ u.home = tree[s].home /\ Members(u) = Members(tree[s])
      /\ u.killed = tree[s].killed
      /\ u.leader \in {"running", "reaped"}
  BY <1>2, <1>3 DEF Reaped, Trees, Members
<1>5. tree'[s] = u /\ \A x \in Session \ {s} : tree'[x] = tree[x]
  BY <1>1, <1>2
<1>6. PICK c \in {"swept", "unverified"} :
          /\ task' = [task EXCEPT !.at = "settle", !.cleanup = c]
          /\ c = "swept" => Members(tree[s]) \subseteq {"adrift"}
          /\ cgroup' \subseteq cgroup /\ \A x \in Session \ {s} : (x \in cgroup)' = (x \in cgroup)
          /\ s \in cgroup /\ s \notin cgroup' => Members(tree[s]) = {}
  <2>1. CASE tree[s].home = "cgroup"
    <3>1. PICK removed \in BOOLEAN :
            /\ Rmdir(s, removed)
            /\ task' = [task EXCEPT !.at = "settle",
                                    !.cleanup = IF removed THEN "swept" ELSE "unverified"]
      BY <2>1 DEF Verdict, Finding
    <3>2. /\ removed => Members(tree[s]) = {}
          /\ cgroup' = IF removed THEN cgroup \ {s} ELSE cgroup
      BY <3>1 DEF Rmdir, Emptied
    <3>3. CASE removed
      <4>1. task' = [task EXCEPT !.at = "settle", !.cleanup = "swept"]
        BY <3>1, <3>3
      <4> QED
        BY <3>2, <3>3, <4>1
    <3>4. CASE ~removed
      <4>1. task' = [task EXCEPT !.at = "settle", !.cleanup = "unverified"]
        BY <3>1, <3>4
      <4> QED
        BY <3>2, <3>4, <4>1
    <3> QED
      BY <3>3, <3>4
  <2>2. CASE tree[s].home # "cgroup"
    BY <2>2 DEF Verdict, Finding
  <2> QED
    BY <2>1, <2>2
<1>7. /\ task'.op = task.op /\ task'.session = s /\ task'.todo = task.todo
      /\ task'.at = "settle" /\ task'.cleanup = c
  BY <1>1, <1>6 DEF IInv, TypeOK
<1>8. TypeOK'
  BY <1>1, <1>4, <1>6 DEF IInv, TypeOK
<1>9. (Gone(s) => Gone(s)') /\ (c = "swept" => Gone(s)')
  BY <1>4, <1>5, <1>6 DEF Gone
<1>10. ASSUME NEW x \in Session
       PROVE  TreeSound(x)' /\ CoverSound(x)' /\ LifeSound(x)'
  <2>1. TreeSound(x) /\ CoverSound(x) /\ LifeSound(x)
    BY DEF IInv
  <2>2. CASE x = s
    <3>1. TreeSound(x)'
      BY <1>1, <1>3, <1>4, <1>5, <1>6, <2>1, <2>2 DEF TreeSound, NoTree
    <3>2. CoverSound(x)'
      BY <1>1, <1>4, <1>5, <1>9, <2>1, <2>2 DEF CoverSound, OnDisk, RecordOf, Held
    <3>3. LifeSound(x)'
      BY <1>1, <1>3, <1>4, <1>5, <1>7, <2>1, <2>2 DEF LifeSound, Bound, OnDisk, RecordOf, Held
    <3> QED
      BY <3>1, <3>2, <3>3
  <2>3. CASE x # s
    BY <1>1, <1>5, <1>6, <1>7, <2>1, <2>3
       DEF TreeSound, CoverSound, LifeSound, Gone, Bound, OnDisk, RecordOf, Held
  <2> QED
    BY <2>2, <2>3
<1>11. JournalSound'
  BY <1>1 DEF IInv, JournalSound, Mirrored, FileSound, OnDisk, RecordOf, Held
<1>12. TaskSound'
  <2>1. task.op = "spawn" => SpawnSound(s)'
    BY <1>1, <1>2, <1>7, <1>9 DEF SpawnSound, SettlesGone, OnDisk, RecordOf, Held
  <2>2. task.op = "stop" => StopSound(s)'
    BY <1>1, <1>2, <1>7, <1>9 DEF StopSound, SettlesGone
  <2> QED
    BY <1>1, <1>3, <1>7, <2>1, <2>2 DEF TaskSound
<1> QED
  BY <1>8, <1>10, <1>11, <1>12 DEF IInv

\* A drain turns to the next session.
LEMMA TerminateNextStep == ASSUME IInv, NEW s \in Session, TerminateNext(s) PROVE IInv'
<1>1. /\ daemon = "stopping" /\ task = Idle /\ life[s] \in {"running", "stopping"}
      /\ life' = [life EXCEPT ![s] = "stopping"]
      /\ task' = [Idle EXCEPT !.op = "stop", !.session = s, !.at = "terminate"]
      /\ UNCHANGED <<daemon, plan, journal, cgroup, tree, pool, outcome, released>>
  BY DEF TerminateNext
<1>2. TypeOK'
  BY <1>1 DEF IInv, TypeOK, Idle
<1>3. ASSUME NEW x \in Session
      PROVE  TreeSound(x)' /\ CoverSound(x)' /\ LifeSound(x)'
  <2>1. TreeSound(x) /\ CoverSound(x) /\ LifeSound(x)
    BY DEF IInv
  <2>2. life'[x] = IF x = s THEN "stopping" ELSE life[x]
    BY <1>1 DEF IInv, TypeOK
  <2> QED
    BY <1>1, <2>1, <2>2
       DEF TreeSound, CoverSound, LifeSound, Gone, Bound, OnDisk, RecordOf, Held, Idle
<1>4. JournalSound'
  BY <1>1 DEF IInv, JournalSound, Mirrored, FileSound, OnDisk, RecordOf, Held
<1>5. TaskSound'
  BY <1>1 DEF IInv, TypeOK, TaskSound, StopSound, SettlesGone, Idle
<1> QED
  BY <1>2, <1>3, <1>4, <1>5 DEF IInv

\* A stop is requested: the record stays committed.
LEMMA RequestStopStep == ASSUME IInv, NEW s \in Session, RequestStop(s) PROVE IInv'
<1>1. /\ daemon = "serving" /\ task = Idle /\ life[s] = "running"
      /\ life' = [life EXCEPT ![s] = "stopping"]
      /\ UNCHANGED <<daemon, plan, journal, cgroup, tree, pool, outcome, task, released>>
  BY DEF RequestStop, Ready
<1>2. TypeOK'
  BY <1>1 DEF IInv, TypeOK
<1>3. ASSUME NEW x \in Session
      PROVE  TreeSound(x)' /\ CoverSound(x)' /\ LifeSound(x)'
  <2>1. TreeSound(x) /\ CoverSound(x) /\ LifeSound(x)
    BY DEF IInv
  <2>2. life'[x] = IF x = s THEN "stopping" ELSE life[x]
    BY <1>1 DEF IInv, TypeOK
  <2> QED
    BY <1>1, <2>1, <2>2
       DEF TreeSound, CoverSound, LifeSound, Gone, Bound, OnDisk, RecordOf, Held
<1>4. JournalSound'
  BY <1>1 DEF IInv, JournalSound, Mirrored, FileSound, OnDisk, RecordOf, Held
<1>5. TaskSound'
  BY <1>1 DEF TaskSound, Idle
<1> QED
  BY <1>2, <1>3, <1>4, <1>5 DEF IInv

\* A drain begins: every session stays what it was.
LEMMA StopStep == ASSUME IInv, Stop PROVE IInv'
<1>1. /\ daemon = "serving" /\ daemon' = "stopping" /\ task = Idle
      /\ UNCHANGED <<plan, journal, cgroup, tree, pool, life, outcome, task, released>>
  BY DEF Stop, Ready
<1>2. TypeOK'
  BY <1>1 DEF IInv, TypeOK
<1>3. ASSUME NEW x \in Session
      PROVE  TreeSound(x)' /\ CoverSound(x)' /\ LifeSound(x)'
  <2>1. TreeSound(x) /\ CoverSound(x) /\ LifeSound(x)
    BY DEF IInv
  <2> QED
    BY <1>1, <2>1
       DEF TreeSound, CoverSound, LifeSound, Gone, Bound, OnDisk, RecordOf, Held
<1>4. JournalSound'
  BY <1>1 DEF IInv, JournalSound, Mirrored, FileSound, OnDisk, RecordOf, Held
<1>5. TaskSound'
  BY <1>1 DEF TaskSound, Idle
<1> QED
  BY <1>2, <1>3, <1>4, <1>5 DEF IInv

\* What a pass of supervision may have done to a tree before the sweep.
LEMMA ObservedTree ==
    ASSUME IInv, NEW s \in Session, s \in Bound, task = Idle, NEW seen \in Observed(s)
    PROVE  /\ seen.handle \in Handles /\ seen.tree \in Trees
           /\ life[s] \in {"running", "stopping"}
           /\ OnDisk(s) /\ RecordOf(s).class = "committed"
           /\ Members(seen.tree) = Members(tree[s]) /\ seen.tree.home = tree[s].home
           /\ tree[s].leader \in {"running", "zombie", "reaped"}
           /\ seen.tree.leader \in {"running", "zombie", "reaped"}
           /\ life[s] = "running" /\ seen.tree.leader = "running" => seen.tree.killed = {}
<1>1. /\ life[s] \in {"running", "stopping"} /\ LifeSound(s)
      /\ pool[s] \in Handles /\ tree[s] \in Trees
  BY DEF IInv, TypeOK, LifeSound, Bound, Idle
<1>2. /\ OnDisk(s) /\ RecordOf(s).class = "committed"
      /\ tree[s].leader \in {"running", "zombie", "reaped"}
      /\ life[s] = "running" /\ tree[s].leader = "running" => tree[s].killed = {}
  BY <1>1 DEF LifeSound
<1>3. CASE ~pool[s].exit /\ tree[s].leader = "zombie"
  <2>1. PICK reached \in Reach(tree[s]) :
          seen = [handle |-> [pool[s] EXCEPT !.exit = TRUE, !.kill = TRUE],
                  tree |-> Reaped(Kill(tree[s], reached))]
    BY <1>3 DEF Observed
  <2>2. seen.handle \in Handles
    BY <1>1, <2>1 DEF Handles
  <2>3. /\ Kill(tree[s], reached) \in Trees
        /\ Members(Kill(tree[s], reached)) = Members(tree[s])
        /\ Kill(tree[s], reached).home = tree[s].home
        /\ Kill(tree[s], reached).leader = "zombie"
    BY <1>1, <1>3, KillKeeps
  <2>4. /\ seen.tree \in Trees /\ Members(seen.tree) = Members(tree[s])
        /\ seen.tree.home = tree[s].home /\ seen.tree.leader = "reaped"
    BY <2>1, <2>3 DEF Reaped, Trees, Members
  <2> QED
    BY <1>1, <1>2, <2>2, <2>4
<1>4. CASE ~pool[s].exit /\ tree[s].leader # "zombie" /\ life[s] = "stopping"
  <2>1. PICK reached \in Reach(tree[s]) :
          /\ seen.handle = [pool[s] EXCEPT !.term = TRUE, !.kill = @ \/ pool[s].due]
          /\ seen.tree \in {tree[s], Kill(tree[s], reached)}
    BY <1>4 DEF Observed
  <2>2. seen.handle \in Handles
    BY <1>1, <2>1 DEF Handles
  <2>3. /\ seen.tree \in Trees /\ Members(seen.tree) = Members(tree[s])
        /\ seen.tree.home = tree[s].home /\ seen.tree.leader = tree[s].leader
    BY <1>1, <2>1, KillKeeps
  <2> QED
    BY <1>1, <1>2, <1>4, <2>2, <2>3
<1>5. CASE pool[s].exit \/ (tree[s].leader # "zombie" /\ life[s] # "stopping")
  <2>1. seen = [handle |-> pool[s], tree |-> tree[s]]
    BY <1>5 DEF Observed
  <2> QED
    BY <1>1, <1>2, <2>1
<1> QED
  BY <1>1, <1>3, <1>4, <1>5

\* A tick signals a worker only when it ended or is to stop.
LEMMA SuperviseStep ==
    ASSUME IInv, NEW s \in Session, Supervise(s)
    PROVE  IInv'
<1>1. /\ daemon = "serving" /\ task = Idle /\ s \in Bound
      /\ UNCHANGED <<daemon, plan, task, released>>
  BY DEF Supervise, Ready
<1>2. PICK seen \in Observed(s), cleanup \in {"none", "swept", "unverified"} :
        /\ tree' = [tree EXCEPT ![s] = seen.tree]
        /\ cleanup = "swept" => tree[s].home # "subreaper" /\ Emptied(s)
        /\ cgroup' = IF cleanup = "swept" THEN cgroup \ {s} ELSE cgroup
        /\ IF cleanup = "none"
           THEN pool' = [pool EXCEPT ![s] = seen.handle] /\ UNCHANGED <<journal, life, outcome>>
           ELSE Conclude(s, cleanup)
  BY DEF Supervise, SweepClass
<1>3. /\ seen.handle \in Handles /\ seen.tree \in Trees
      /\ life[s] \in {"running", "stopping"} /\ OnDisk(s) /\ RecordOf(s).class = "committed"
      /\ Members(seen.tree) = Members(tree[s]) /\ seen.tree.home = tree[s].home
      /\ tree[s].leader \in {"running", "zombie", "reaped"}
      /\ seen.tree.leader \in {"running", "zombie", "reaped"}
      /\ life[s] = "running" /\ seen.tree.leader = "running" => seen.tree.killed = {}
  BY <1>1, ObservedTree
<1>4. /\ tree' \in [Session -> Trees] /\ tree'[s] = seen.tree
      /\ \A x \in Session \ {s} : tree'[x] = tree[x] /\ (x \in cgroup)' = (x \in cgroup)
      /\ cgroup' \subseteq Session
  BY <1>2, <1>3 DEF IInv, TypeOK
<1>5. TreeSound(s)' /\ (Gone(s) => Gone(s)') /\ (cleanup = "swept" => Gone(s)')
  BY <1>2, <1>3, <1>4 DEF IInv, TreeSound, Gone, NoTree, Emptied
<1>6. CASE cleanup # "none"
  BY <1>1, <1>2, <1>3, <1>4, <1>5, <1>6, ConcludeStep
<1>7. CASE cleanup = "none"
  <2>1. /\ pool' = [pool EXCEPT ![s] = seen.handle] /\ cgroup' = cgroup
        /\ UNCHANGED <<journal, life, outcome>>
    BY <1>2, <1>7
  <2>2. Bound' = Bound
    BY <1>1, <1>3, <2>1, NullAssumption DEF Bound, IInv, TypeOK
  <2>3. TypeOK'
    BY <1>1, <1>3, <1>4, <2>1 DEF IInv, TypeOK
  <2>4. ASSUME NEW x \in Session
        PROVE  TreeSound(x)' /\ CoverSound(x)' /\ LifeSound(x)'
    <3>1. TreeSound(x) /\ CoverSound(x) /\ LifeSound(x)
      BY DEF IInv
    <3>2. CASE x = s
      <4>1. CoverSound(x)'
        BY <1>1, <1>3, <1>4, <1>5, <2>1, <3>1, <3>2 DEF CoverSound, OnDisk, RecordOf, Held
      <4>2. LifeSound(x)'
        BY <1>1, <1>3, <1>4, <2>1, <2>2, <3>1, <3>2 DEF LifeSound, OnDisk, RecordOf, Held
      <4> QED
        BY <1>5, <3>2, <4>1, <4>2
    <3>3. CASE x # s
      BY <1>1, <1>4, <2>1, <2>2, <3>1, <3>3
         DEF TreeSound, CoverSound, LifeSound, Gone, OnDisk, RecordOf, Held
    <3> QED
      BY <3>2, <3>3
  <2>5. JournalSound'
    BY <1>1, <2>1 DEF IInv, JournalSound, Mirrored, FileSound, OnDisk, RecordOf, Held
  <2>6. TaskSound'
    BY <1>1 DEF TaskSound, Idle
  <2> QED
    BY <2>3, <2>4, <2>5, <2>6 DEF IInv
<1> QED
  BY <1>6, <1>7

-----------------------------------------------------------------------------
(* Start, verification and the journal between handlers.                    *)

\* A start examines every file it finds.
LEMMA StartStep == ASSUME IInv, Start PROVE IInv'
<1>1. /\ daemon = "down" /\ daemon' = "scanning" /\ plan' \in Plans
      /\ journal' = [memory |-> journal.disk, disk |-> journal.disk]
      /\ task' = [Idle EXCEPT !.op = "verify", !.at = "next", !.todo = Held(journal.disk)]
      /\ UNCHANGED <<cgroup, tree, pool, life, outcome, released>>
  BY DEF Start, Load
<1>2. journal' \in Journals /\ journal'.disk = journal.disk /\ journal'.memory = journal.disk
  BY <1>1 DEF IInv, TypeOK, Journals
<1>3. /\ task'.op = "verify" /\ task'.at = "next" /\ task'.session = NoSession
      /\ task'.todo = Held(journal.disk)
  BY <1>1 DEF Idle
<1>4. TypeOK'
  <2>1. Held(journal.disk) \subseteq Session
    BY DEF Held
  <2> QED
    BY <1>1, <1>2, <2>1 DEF IInv, TypeOK, Idle
<1>5. ASSUME NEW x \in Session
      PROVE  TreeSound(x)' /\ CoverSound(x)' /\ LifeSound(x)'
  <2>1. TreeSound(x) /\ CoverSound(x) /\ LifeSound(x)
    BY DEF IInv
  <2> QED
    BY <1>1, <1>2, <1>3, <2>1
       DEF TreeSound, CoverSound, LifeSound, Gone, Bound, OnDisk, RecordOf, Held
<1>6. JournalSound'
  <2>1. Loadable(journal'.memory)
    BY <1>2 DEF Start
  <2>2. \A x \in Session : Mirrored(x)' /\ FileSound(x)'
    BY <1>2 DEF IInv, JournalSound, Mirrored, FileSound, OnDisk, RecordOf, Held
  <2> QED
    BY <2>1, <2>2 DEF JournalSound
<1>7. TaskSound'
  BY <1>1, <1>2, <1>3 DEF IInv, TaskSound, VerifySound, LifeSound, Bound, Held
<1> QED
  BY <1>4, <1>5, <1>6, <1>7 DEF IInv

\* A pass on demand examines no worker of the pool.
LEMMA VerifyStep == ASSUME IInv, Verify PROVE IInv'
<1>1. /\ daemon = "serving" /\ task = Idle
      /\ task' = [Idle EXCEPT !.op = "verify", !.at = "next", !.todo = Examined]
      /\ UNCHANGED <<daemon, plan, journal, cgroup, tree, pool, life, outcome, released>>
  BY DEF Verify, Ready
<1>2. Examined = Held(journal.memory) \ Bound /\ Examined \subseteq Session
  BY DEF Examined, Held
<1>3. /\ task'.op = "verify" /\ task'.at = "next" /\ task'.session = NoSession
      /\ task'.todo = Examined
  BY <1>1 DEF Idle
<1>4. TypeOK'
  BY <1>1, <1>2 DEF IInv, TypeOK, Idle
<1>5. ASSUME NEW x \in Session
      PROVE  TreeSound(x)' /\ CoverSound(x)' /\ LifeSound(x)'
  <2>1. TreeSound(x) /\ CoverSound(x) /\ LifeSound(x)
    BY DEF IInv
  <2> QED
    BY <1>1, <1>3, <2>1
       DEF TreeSound, CoverSound, LifeSound, Gone, Bound, OnDisk, RecordOf, Held, Idle
<1>6. JournalSound'
  BY <1>1 DEF IInv, JournalSound, Mirrored, FileSound, OnDisk, RecordOf, Held
<1>7. TaskSound'
  BY <1>1, <1>2, <1>3 DEF TaskSound, VerifySound, Bound, Held
<1> QED
  BY <1>4, <1>5, <1>6, <1>7 DEF IInv

\* A pass is under way.
LEMMA InVerify ==
    ASSUME IInv, task.op = "verify"
    PROVE  /\ VerifySound /\ daemon \in {"scanning", "serving"}
           /\ task.todo \subseteq Session
           /\ journal \in Journals
           /\ \A s \in task.todo :
                /\ s \in Held(journal.memory) /\ s \notin Bound /\ OnDisk(s)
                /\ life[s] \notin {"created", "running", "stopping"}
                /\ TreeSound(s) /\ CoverSound(s)
<1>1. VerifySound /\ task.todo \subseteq Session /\ journal \in Journals
  BY DEF IInv, TypeOK, TaskSound
<1>2. daemon \in {"scanning", "serving"} /\ task.todo \subseteq Held(journal.memory) \ Bound
  BY <1>1 DEF VerifySound
<1>3. ASSUME NEW s \in task.todo
      PROVE  /\ s \in Held(journal.memory) /\ s \notin Bound /\ OnDisk(s)
             /\ life[s] \notin {"created", "running", "stopping"}
             /\ TreeSound(s) /\ CoverSound(s)
  <2>1. s \in Session /\ LifeSound(s) /\ TreeSound(s) /\ CoverSound(s)
    BY <1>1 DEF IInv
  <2>2. s \in Held(journal.memory) /\ s \notin Bound /\ OnDisk(s)
    BY <1>2, HeldEntry
  <2>3. life[s] \notin {"created", "running", "stopping"}
    BY <2>1, <2>2 DEF LifeSound
  <2> QED
    BY <2>1, <2>2, <2>3
<1> QED
  BY <1>1, <1>2, <1>3

\* The scan ends when every record was examined.
LEMMA VerifiedStep == ASSUME IInv, Verified PROVE IInv'
<1>1. /\ task.op = "verify" /\ task.todo = {} /\ daemon' = "serving" /\ task' = Idle
      /\ UNCHANGED <<plan, journal, cgroup, tree, pool, life, outcome, released>>
  BY DEF Verified, At
<1>2. daemon \in {"scanning", "serving"}
  BY <1>1, InVerify
<1>3. TypeOK'
  BY <1>1 DEF IInv, TypeOK, Idle
<1>4. ASSUME NEW x \in Session
      PROVE  TreeSound(x)' /\ CoverSound(x)' /\ LifeSound(x)'
  <2>1. TreeSound(x) /\ CoverSound(x) /\ LifeSound(x)
    BY DEF IInv
  <2> QED
    BY <1>1, <1>2, <2>1
       DEF TreeSound, CoverSound, LifeSound, Gone, Bound, OnDisk, RecordOf, Held, Idle
<1>5. JournalSound'
  BY <1>1, <1>2 DEF IInv, JournalSound, Mirrored, FileSound, OnDisk, RecordOf, Held
<1>6. TaskSound'
  BY <1>1 DEF TaskSound, Idle
<1> QED
  BY <1>3, <1>4, <1>5, <1>6 DEF IInv

\* The pass goes to its next record.
LEMMA DoneTask ==
    ASSUME IInv, task.op = "verify", NEW s
    PROVE  /\ Done(s).op = "verify" /\ Done(s).session = NoSession /\ Done(s).at = "next"
           /\ Done(s).todo = task.todo \ {s}
           /\ Done(s) \in [op : {"idle", "spawn", "stop", "verify"},
                           session : Session \cup {NoSession},
                           at : {"idle", "contain", "fork", "exec", "commit", "bind",
                                 "terminate", "kill", "verdict", "settle", "next", "rmdir",
                                 "signal", "wait"},
                           todo : SUBSET Session, pinned : BOOLEAN,
                           cleanup : {"none", "not_started", "swept", "unverified"}]
BY DEF Done, IInv, TypeOK

\* A record the budget left out stays as it is.
LEMMA DeferStep == ASSUME IInv, NEW s \in Session, Defer(s) PROVE IInv'
<1>1. /\ task.op = "verify" /\ task' = Done(s) /\ daemon = "serving"
      /\ UNCHANGED <<daemon, plan, journal, cgroup, tree, pool, life, outcome, released>>
  BY DEF Defer
<1>2. /\ task'.op = "verify" /\ task'.session = NoSession /\ task'.at = "next"
      /\ task'.todo = task.todo \ {s}
  BY <1>1, DoneTask
<1>3. TypeOK'
  BY <1>1, DoneTask DEF IInv, TypeOK
<1>4. ASSUME NEW x \in Session
      PROVE  TreeSound(x)' /\ CoverSound(x)' /\ LifeSound(x)'
  <2>1. TreeSound(x) /\ CoverSound(x) /\ LifeSound(x)
    BY DEF IInv
  <2> QED
    BY <1>1, <1>2, <2>1
       DEF TreeSound, CoverSound, LifeSound, Gone, Bound, OnDisk, RecordOf, Held
<1>5. JournalSound'
  BY <1>1 DEF IInv, JournalSound, Mirrored, FileSound, OnDisk, RecordOf, Held
<1>6. TaskSound'
  BY <1>1, <1>2, InVerify DEF TaskSound, VerifySound, Bound, Held
<1> QED
  BY <1>3, <1>4, <1>5, <1>6 DEF IInv

\* A record of the pass is removed because its tree is gone, or quarantined,
\* or the journal answers with an error, having done so or not.
LEMMA JournalledStep ==
    ASSUME IInv, NEW s \in task.todo, task.op = "verify", NEW outcomes, NEW e,
           (e = NoRecord /\ Gone(s)) \/ e = Quarantined(journal.memory[s]),
           \A r \in outcomes :
             \/ ~r.ok /\ r.journal = journal
             \/ Moved(journal, r.journal, s, e)
             \/ Written(journal, r.journal, s, e),
           Journalled(outcomes, Done(s)),
           UNCHANGED <<plan, cgroup, tree, outcome, released>>
    PROVE  IInv'
<1>1. /\ VerifySound /\ daemon \in {"scanning", "serving"} /\ s \in Session
      /\ journal \in Journals /\ s \in Held(journal.memory)
      /\ OnDisk(s) /\ CoverSound(s)
      /\ life[s] \notin {"created", "running", "stopping"}
      /\ s \notin Bound
  BY InVerify
<1>2. PICK r \in outcomes :
        IF r.ok \/ daemon = "serving"
        THEN /\ journal' = r.journal
             /\ task' = IF r.ok THEN Done(s) ELSE Idle
             /\ UNCHANGED <<daemon, pool, life>>
        ELSE Ended /\ journal' = Down(r.journal.disk)
  BY DEF Journalled
<1>3. \/ e = NoRecord /\ Gone(s)
      \/ /\ e \in Record /\ e # NoRecord /\ Replaces(s, e)
         /\ e.boot = RecordOf(s).boot /\ e.containment = RecordOf(s).containment
         /\ e.class = "unverified" /\ e.quarantined # "no"
  BY <1>1, QuarantineReplaces
<1>4. \/ ~r.ok /\ r.journal = journal
      \/ Moved(journal, r.journal, s, e)
      \/ Written(journal, r.journal, s, e)
  OBVIOUS
<1>5. CASE ~r.ok /\ daemon # "serving"
  <2> DEFINE d == r.journal.disk
  <2>1. Ended /\ journal' = Down(d)
    BY <1>2, <1>5
  <2>2. /\ d \in [Session -> Record \cup {NoRecord}]
        /\ d[s] = RecordOf(s) \/ d[s] = e
        /\ \A x \in Session \ {s} : d[x] = RecordOf(x)
    BY <1>1, <1>4 DEF Moved, Written, Journals, RecordOf
  <2> HIDE DEF d
  <2>3. Kept(s, RecordOf(s)) /\ Kept(s, e)
    BY <1>1, <1>3 DEF Kept
  <2>4. \A x \in Session : Kept(x, d[x])
    BY <2>2, <2>3 DEF Kept
  <2>5. released \subseteq released' /\ released' \subseteq Session
    BY DEF IInv, TypeOK
  <2> QED
    BY <2>1, <2>2, <2>4, <2>5, EndedStep
<1>6. CASE r.ok \/ daemon = "serving"
  <2>1. /\ journal' = r.journal /\ UNCHANGED <<daemon, pool, life>>
        /\ \/ task' = Done(s)
           \/ task' = Idle /\ daemon = "serving"
    BY <1>2, <1>6
  <2>2. \/ journal' = journal /\ task' = Idle
        \/ Entered(s, e)
    BY <1>2, <1>4, <1>6, <2>1 DEF Entered
  <2>3. \/ /\ task'.op = "verify" /\ task'.session = NoSession /\ task'.at = "next"
           /\ task'.todo = task.todo \ {s}
        \/ task' = Idle /\ task'.op = "idle" /\ daemon = "serving"
    BY <2>1, DoneTask DEF Idle
  <2>4. /\ journal' \in Journals
        /\ \/ journal' = journal /\ daemon = "serving" /\ task' = Idle
           \/ RecordOf(s)' = e /\ (OnDisk(s)' <=> e # NoRecord)
        /\ \A x \in Session \ {s} :
             /\ OnDisk(x)' = OnDisk(x) /\ RecordOf(x)' = RecordOf(x)
             /\ (x \in Held(journal.memory))' = (x \in Held(journal.memory))
    <3>1. CASE journal' = journal /\ task' = Idle
      <4>1. daemon = "serving"
        BY <2>3, <3>1 DEF Idle
      <4> QED
        BY <1>1, <3>1, <4>1 DEF OnDisk, RecordOf, Held
    <3>2. CASE Entered(s, e)
      BY <1>1, <3>2, EntryMoved
    <3> QED
      BY <2>2, <3>1, <3>2
  <2>5. TypeOK'
    <3>1. CASE task' = Done(s)
      BY <2>1, <2>4, <3>1, DoneTask DEF IInv, TypeOK
    <3>2. CASE task' = Idle
      BY <2>1, <2>4, <3>2 DEF IInv, TypeOK, Idle
    <3> QED
      BY <2>1, <3>1, <3>2
  <2>6. ASSUME NEW x \in Session
        PROVE  TreeSound(x)' /\ CoverSound(x)' /\ LifeSound(x)'
    <3>1. TreeSound(x) /\ CoverSound(x) /\ LifeSound(x)
      BY DEF IInv
    <3>2. (x \in Bound)' = (x \in Bound) /\ TreeSound(x)' /\ (Gone(x)' <=> Gone(x))
      BY <2>1, <3>1 DEF TreeSound, Gone, Bound
    <3>3. CASE journal' = journal /\ daemon = "serving" /\ task' = Idle
      <4>1. OnDisk(x)' = OnDisk(x) /\ RecordOf(x)' = RecordOf(x)
        BY <3>3 DEF OnDisk, RecordOf, Held
      <4> QED
        BY <2>1, <3>1, <3>2, <3>3, <4>1 DEF CoverSound, LifeSound
    <3>4. CASE x = s /\ RecordOf(s)' = e /\ (OnDisk(s)' <=> e # NoRecord)
      <4>1. CoverSound(s)'
        BY <1>1, <1>3, <2>1, <3>2, <3>4 DEF CoverSound
      <4>2. LifeSound(s)'
        BY <1>1, <1>3, <2>1, <2>3, <3>1, <3>2, <3>4 DEF LifeSound
      <4> QED
        BY <3>2, <3>4, <4>1, <4>2
    <3>5. CASE x # s
      BY <1>1, <2>1, <2>3, <2>4, <3>1, <3>2, <3>5 DEF CoverSound, LifeSound
    <3> QED
      BY <2>4, <3>3, <3>4, <3>5
  <2>7. JournalSound'
    <3>1. CASE journal' = journal
      BY <2>1, <3>1 DEF IInv, JournalSound, Mirrored, FileSound, OnDisk, RecordOf
    <3>2. CASE Entered(s, e)
      <4>1. \A x \in Session : life[x] = "discarded" => life'[x] = "discarded"
        BY <2>1
      <4>2. e # NoRecord => Replaces(s, e)
        BY <1>3
      <4> QED
        BY <1>1, <3>2, <4>1, <4>2, EntryReplaced
    <3> QED
      BY <2>2, <3>1, <3>2
  <2>8. TaskSound'
    <3>1. CASE task' = Idle /\ task'.op = "idle" /\ daemon = "serving"
      BY <2>1, <3>1 DEF TaskSound
    <3>2. CASE /\ task'.op = "verify" /\ task'.session = NoSession /\ task'.at = "next"
               /\ task'.todo = task.todo \ {s}
      <4>1. task'.todo \subseteq (Held(journal.memory) \ Bound)'
        BY <1>1, <2>1, <2>4, <3>2, InVerify DEF VerifySound, Bound
      <4> QED
        BY <1>1, <2>1, <3>2, <4>1 DEF TaskSound, VerifySound
    <3> QED
      BY <2>3, <3>1, <3>2
  <2> QED
    BY <2>5, <2>6, <2>7, <2>8 DEF IInv
<1> QED
  BY <1>5, <1>6

\* A record that is stale, or whose cgroup is gone, covers nothing.
LEMMA ClassifyStep ==
    ASSUME IInv, NEW s \in Session, Classify(s)
    PROVE  IInv'
<1>1. /\ task.op = "verify" /\ s \in task.todo
      /\ UNCHANGED <<plan, cgroup, tree, outcome, released>>
  BY DEF Classify, At
<1>2. /\ journal \in Journals /\ s \in Held(journal.memory) /\ daemon # "down"
      /\ OnDisk(s) /\ TreeSound(s) /\ CoverSound(s)
  BY <1>1, InVerify
<1>3. /\ journal.memory[s].boot = RecordOf(s).boot
      /\ journal.memory[s].containment = RecordOf(s).containment
      /\ journal.memory[s].boot = "none" =>
           /\ journal.memory[s].class = "unverified" /\ journal.memory[s].quarantined # "no"
           /\ journal.disk[s] = journal.memory[s]
  BY <1>2, HeldEntry DEF RecordOf
<1>4. \A r \in Remove(journal, s) :
        \/ ~r.ok /\ r.journal = journal
        \/ Moved(journal, r.journal, s, NoRecord)
  BY <1>2, RemoveOutcome
<1>5. CASE Stale(journal.memory[s]) /\ Journalled(Remove(journal, s), Done(s))
  <2>1. Gone(s)
    BY <1>2, <1>3, <1>5 DEF Stale, CoverSound
  <2> QED
    BY <1>1, <1>4, <1>5, <2>1, JournalledStep
<1>6. CASE Journalled(Quarantine(journal, s), Done(s))
  <2>1. \A r \in Quarantine(journal, s) :
          \/ ~r.ok /\ r.journal = journal
          \/ Moved(journal, r.journal, s, Quarantined(journal.memory[s]))
          \/ Written(journal, r.journal, s, Quarantined(journal.memory[s]))
    BY <1>2, <1>3, QuarantineOutcome
  <2> QED
    BY <1>1, <1>6, <2>1, JournalledStep
<1>7. CASE /\ Actionable(journal.memory[s]) /\ s \notin cgroup
           /\ Journalled(Remove(journal, s), Done(s))
  <2>1. RecordOf(s).boot = "current" /\ RecordOf(s).containment = "cgroup"
    BY <1>3, <1>7 DEF Actionable
  <2>2. Gone(s)
    BY <1>2, <1>7, <2>1 DEF CoverSound, TreeSound, Gone, NoTree, Members
  <2> QED
    BY <1>1, <1>4, <1>7, <2>2, JournalledStep
<1> QED
  BY <1>5, <1>6, <1>7 DEF Classify

\* The pass settles the record as it found the subtree.
LEMMA ReapSettleStep ==
    ASSUME IInv, NEW s \in Session, ReapSettle(s)
    PROVE  IInv'
<1>1. /\ task.op = "verify" /\ task.session = s /\ task.at = "settle"
      /\ Journalled(Settle(journal, s, task.cleanup), Done(s))
      /\ UNCHANGED <<plan, cgroup, tree, outcome, released>>
  BY DEF ReapSettle, At
<1>2. s \in task.todo /\ SettlesGone(s)
  BY <1>1, InVerify DEF VerifySound
<1>3. journal \in Journals /\ s \in Held(journal.memory) /\ daemon # "down"
  BY <1>1, <1>2, InVerify
<1>4. journal.memory[s].boot = "none" =>
        /\ journal.memory[s].class = "unverified" /\ journal.memory[s].quarantined # "no"
        /\ journal.disk[s] = journal.memory[s]
  BY <1>3, HeldEntry DEF RecordOf
<1>5. CASE task.cleanup \in {"not_started", "swept"}
  <2>1. \A r \in Settle(journal, s, task.cleanup) :
          \/ ~r.ok /\ r.journal = journal
          \/ Moved(journal, r.journal, s, NoRecord)
    <3>1. Settle(journal, s, task.cleanup) = Remove(journal, s)
      BY <1>5 DEF Settle
    <3> QED
      BY <1>3, <3>1, RemoveOutcome
  <2>2. Gone(s)
    BY <1>1, <1>2, <1>5 DEF SettlesGone
  <2> QED
    BY <1>1, <1>2, <2>1, <2>2, JournalledStep
<1>6. CASE task.cleanup \notin {"not_started", "swept"}
  <2>1. \A r \in Settle(journal, s, task.cleanup) :
          \/ ~r.ok /\ r.journal = journal
          \/ Moved(journal, r.journal, s, Quarantined(journal.memory[s]))
          \/ Written(journal, r.journal, s, Quarantined(journal.memory[s]))
    BY <1>3, <1>4, <1>6, SettleOutcome
  <2> QED
    BY <1>1, <1>2, <2>1, JournalledStep
<1> QED
  BY <1>5, <1>6

\* A pass signals a tree only under an exact record.
LEMMA ReapSignalStep == ASSUME IInv, NEW s \in Session, ReapSignal(s) PROVE IInv'
<1>1. /\ task.op = "verify" /\ task.session = s /\ task.at = "signal"
      /\ UNCHANGED <<daemon, plan, journal, cgroup, pool, life, outcome, released>>
  BY DEF ReapSignal, At
<1>2. /\ VerifySound /\ s \in task.todo /\ s \notin Bound
      /\ life[s] \notin {"created", "running", "stopping"}
      /\ TreeSound(s) /\ CoverSound(s) /\ LifeSound(s)
  BY <1>1, InVerify DEF VerifySound, IInv
<1>3. CASE Emptied(s)
  <2>1. task' = [task EXCEPT !.at = "rmdir"] /\ tree' = tree
    BY <1>3 DEF ReapSignal, Go
  <2>2. TypeOK'
    BY <1>1, <2>1 DEF IInv, TypeOK
  <2>3. /\ task'.op = "verify" /\ task'.session = s /\ task'.at = "rmdir"
        /\ task'.todo = task.todo
    BY <1>1, <2>1 DEF IInv, TypeOK
  <2>4. TaskSound'
    BY <1>1, <1>2, <2>1, <2>3
       DEF TaskSound, VerifySound, SettlesGone, Bound, Held, RecordOf, Actionable
  <2> QED
    BY <1>1, <2>1, <2>2, <2>3, <2>4, HandlerMoves
<1>4. CASE ~Emptied(s)
  <2>1. /\ task' = [task EXCEPT !.at = "wait"]
        /\ tree' = [tree EXCEPT ![s] = Kill(@, WholeGroup)]
    BY <1>4 DEF ReapSignal, Go
  <2>2. /\ tree' \in [Session -> Trees] /\ \A x \in Session \ {s} : tree'[x] = tree[x]
        /\ Members(tree'[s]) = Members(tree[s]) /\ tree'[s].home = tree[s].home
        /\ tree'[s].leader = tree[s].leader /\ tree'[s].kin = tree[s].kin
    BY <2>1, SignalledTree
  <2>3. tree[s].leader \notin {"none", "forked", "refused"} /\ tree[s] # NoTree
    BY <1>2, <1>4 DEF Emptied, TreeSound, Members, NoTree
  <2>4. TypeOK'
    BY <1>1, <2>1, <2>2 DEF IInv, TypeOK
  <2>5. /\ task'.op = "verify" /\ task'.session = s /\ task'.at = "wait"
        /\ task'.todo = task.todo
    BY <1>1, <2>1 DEF IInv, TypeOK
  <2>6. ASSUME NEW x \in Session
        PROVE  TreeSound(x)' /\ CoverSound(x)' /\ LifeSound(x)'
    <3>1. TreeSound(x) /\ CoverSound(x) /\ LifeSound(x)
      BY DEF IInv
    <3>2. CASE x = s
      <4>1. TreeSound(x)' /\ CoverSound(x)'
        BY <1>1, <1>2, <2>2, <2>3, <3>2
           DEF TreeSound, CoverSound, Gone, NoTree, OnDisk, RecordOf, Held
      <4>2. LifeSound(x)'
        BY <1>1, <1>2, <2>3, <2>5, <3>2 DEF LifeSound, OnDisk, RecordOf, Held, Bound
      <4> QED
        BY <4>1, <4>2
    <3>3. CASE x # s
      BY <1>1, <2>2, <2>5, <3>1, <3>3
         DEF TreeSound, CoverSound, LifeSound, Gone, OnDisk, RecordOf, Held, Bound
    <3> QED
      BY <3>2, <3>3
  <2>7. JournalSound'
    BY <1>1 DEF IInv, JournalSound, Mirrored, FileSound, OnDisk, RecordOf, Held
  <2>8. TaskSound'
    BY <1>1, <1>2, <2>5
       DEF TaskSound, VerifySound, SettlesGone, Bound, Held, RecordOf, Actionable
  <2> QED
    BY <2>4, <2>6, <2>7, <2>8 DEF IInv
<1> QED
  BY <1>3, <1>4

\* A removed cgroup was empty, and nothing can enter it again.
LEMMA ReapRemoveStep == ASSUME IInv, NEW s \in Session, ReapRemove(s) PROVE IInv'
<1>1. PICK removed \in BOOLEAN :
        /\ Rmdir(s, removed)
        /\ task' = [task EXCEPT !.at = "settle",
                                !.cleanup = IF removed THEN "swept" ELSE "unverified"]
  BY DEF ReapRemove, Finding
<1>2. /\ task.op = "verify" /\ task.session = s /\ task.at = "rmdir"
      /\ UNCHANGED <<daemon, plan, journal, tree, pool, life, outcome, released>>
  BY DEF ReapRemove, At
<1>3. /\ VerifySound /\ s \in task.todo /\ Actionable(journal.memory[s]) /\ OnDisk(s)
      /\ TreeSound(s) /\ CoverSound(s)
  BY <1>2, InVerify DEF VerifySound
<1>c. RecordOf(s).boot = "current" /\ RecordOf(s).containment = "cgroup"
  BY <1>2, <1>3, InVerify, HeldEntry DEF Actionable
<1>4. /\ cgroup' \subseteq Session
      /\ \A x \in Session : TreeSound(x)' /\ (Gone(x) => Gone(x)')
      /\ removed => Members(tree[s]) = {} /\ s \notin cgroup'
  BY <1>1, <1>2, RmdirKeeps DEF IInv, TypeOK
<1>5. removed => Gone(s)'
  BY <1>2, <1>3, <1>4, <1>c DEF Gone, CoverSound, TreeSound, NoTree
<1>6. /\ task'.op = "verify" /\ task'.session = s /\ task'.at = "settle"
      /\ task'.todo = task.todo
      /\ task'.cleanup = IF removed THEN "swept" ELSE "unverified"
  BY <1>1, <1>2 DEF IInv, TypeOK
<1>7. TypeOK'
  BY <1>1, <1>2, <1>4 DEF IInv, TypeOK
<1>8. ASSUME NEW x \in Session PROVE CoverSound(x)' /\ LifeSound(x)'
  <2>1. CoverSound(x) /\ LifeSound(x)
    BY DEF IInv
  <2> QED
    BY <1>2, <1>4, <1>6, <2>1 DEF CoverSound, LifeSound, OnDisk, RecordOf, Held, Bound
<1>9. JournalSound'
  BY <1>2 DEF IInv, JournalSound, Mirrored, FileSound, OnDisk, RecordOf, Held
<1>10. TaskSound'
  BY <1>2, <1>3, <1>5, <1>6
     DEF TaskSound, VerifySound, SettlesGone, Bound, Held, RecordOf, Actionable
<1> QED
  BY <1>4, <1>7, <1>8, <1>9, <1>10 DEF IInv

\* A quarantined record is released, by the operator or by retention.
LEMMA ReleaseStep ==
    ASSUME IInv, NEW s \in Held(journal.memory), journal.memory[s].class = "unverified",
           daemon # "down", task = Idle \/ (task.op = "verify" /\ task.todo = {}),
           task' = task \/ (task' = Idle /\ daemon = "serving"),
           Moved(journal, journal', s, NoRecord), released' = released \cup {s},
           UNCHANGED <<daemon, plan, cgroup, tree, pool, life, outcome>>
    PROVE  IInv'
<1>0. /\ s \in Session /\ OnDisk(s) /\ RecordOf(s).class = "unverified"
      /\ journal \in Journals /\ Entered(s, NoRecord)
  BY HeldEntry DEF IInv, TypeOK, Entered
<1>1. /\ journal' \in Journals /\ ~OnDisk(s)'
      /\ \A x \in Session \ {s} : OnDisk(x)' = OnDisk(x) /\ RecordOf(x)' = RecordOf(x)
  BY <1>0, EntryMoved
<1>2. TypeOK'
  <2>1. CASE task' = task
    BY <1>0, <1>1, <2>1 DEF IInv, TypeOK
  <2>2. CASE task' = Idle
    BY <1>0, <1>1, <2>2 DEF IInv, TypeOK, Idle
  <2> QED
    BY <2>1, <2>2
<1>3. ASSUME NEW x \in Session
      PROVE  TreeSound(x)' /\ CoverSound(x)' /\ LifeSound(x)'
  <2>1. TreeSound(x) /\ CoverSound(x) /\ LifeSound(x)
    BY DEF IInv
  <2>2. /\ task.op # "spawn" /\ task'.op # "spawn"
        /\ task'.todo = task.todo \/ daemon = "serving"
    BY DEF Idle
  <2>3. CASE x = s
    BY <1>0, <1>1, <2>1, <2>2, <2>3 DEF TreeSound, CoverSound, LifeSound, Bound
  <2>4. CASE x # s
    BY <1>1, <2>1, <2>2, <2>4 DEF TreeSound, CoverSound, LifeSound, Gone, Bound
  <2> QED
    BY <2>3, <2>4
<1>4. JournalSound'
  BY <1>0, EntryReplaced
<1>5. TaskSound'
  <2>1. CASE task' = Idle
    BY <2>1 DEF IInv, TaskSound, Idle
  <2>2. CASE task' = task /\ task.op = "verify" /\ task.todo = {}
    <3>1. VerifySound
      BY <2>2 DEF IInv, TaskSound
    <3>2. task.at = "next" /\ daemon \in {"scanning", "serving"}
      BY <2>2, <3>1 DEF VerifySound
    <3>3. VerifySound'
      BY <2>2, <3>2 DEF VerifySound
    <3> QED
      BY <2>2, <3>2, <3>3 DEF TaskSound
  <2> QED
    BY <2>1, <2>2
<1> QED
  BY <1>2, <1>3, <1>4, <1>5 DEF IInv

\* The operator retires a quarantined record, and no other.
LEMMA RetireRecordStep ==
    ASSUME IInv, NEW s \in Session, RetireRecord(s)
    PROVE  IInv'
<1>1. /\ daemon = "serving" /\ task = Idle /\ s \in Held(journal.memory)
      /\ UNCHANGED <<daemon, plan, cgroup, tree, pool, life, outcome, task>>
      /\ released' = IF s \in Held(journal'.disk) THEN released ELSE released \cup {s}
  BY DEF RetireRecord, Ready
<1>2. PICK r \in Retire(journal, s) : journal' = r.journal
  BY DEF RetireRecord
<1>3. journal \in Journals /\ OnDisk(s)
  BY <1>1, HeldEntry DEF IInv, TypeOK
<1>4. \/ journal' = journal
      \/ journal.memory[s].class = "unverified" /\ Moved(journal, journal', s, NoRecord)
  BY <1>1, <1>2, <1>3, RemoveOutcome DEF Retire, Outcome
<1>5. CASE journal' = journal
  <2>1. UNCHANGED vars
    BY <1>1, <1>3, <1>5 DEF vars, OnDisk
  <2> QED
    BY <2>1 DEF vars, IInv, TypeOK, JournalSound, Mirrored, FileSound, TreeSound, CoverSound,
                LifeSound, TaskSound, SpawnSound, StopSound, VerifySound, SettlesGone, Gone,
                OnDisk, RecordOf, Bound
<1>6. CASE journal.memory[s].class = "unverified" /\ Moved(journal, journal', s, NoRecord)
  <2>1. s \notin Held(journal'.disk)
    BY <1>3, <1>6 DEF Moved, Journals, Held
  <2> QED
    BY <1>1, <1>6, <2>1, ReleaseStep
<1> QED
  BY <1>4, <1>5, <1>6

\* Retention collects a quarantined record, and no other.
LEMMA CollectExpiredStep ==
    ASSUME IInv, NEW s \in Session, CollectExpired(s)
    PROVE  IInv'
<1>1. /\ task.op = "verify" /\ task.todo = {} /\ s \in Expired(journal)
      /\ Journalled(Remove(journal, s), task)
      /\ released' = IF s \in Held(journal'.disk) THEN released ELSE released \cup {s}
      /\ UNCHANGED <<plan, cgroup, tree, outcome>>
  BY DEF CollectExpired, At
<1>2. journal \in Journals /\ daemon \in {"scanning", "serving"}
  BY <1>1, InVerify
<1>3. /\ s \in Held(journal.memory) /\ journal.memory[s].class = "unverified"
      /\ OnDisk(s)
  <2>1. s \in Held(journal.memory) /\ journal.memory[s].class = "unverified"
    BY <1>1 DEF Expired
  <2> QED
    BY <1>2, <2>1, HeldEntry
<1>4. PICK r \in Remove(journal, s) :
        IF r.ok \/ daemon = "serving"
        THEN /\ journal' = r.journal
             /\ task' = IF r.ok THEN task ELSE Idle
             /\ UNCHANGED <<daemon, pool, life>>
        ELSE Ended /\ journal' = Down(r.journal.disk)
  BY <1>1 DEF Journalled
<1>5. \/ ~r.ok /\ r.journal = journal
      \/ Moved(journal, r.journal, s, NoRecord)
  BY <1>2, RemoveOutcome
<1>6. CASE ~r.ok /\ daemon # "serving"
  <2> DEFINE d == r.journal.disk
  <2>1. Ended /\ journal' = Down(d) /\ journal'.disk = d
    BY <1>4, <1>6 DEF Down
  <2>2. /\ d \in [Session -> Record \cup {NoRecord}]
        /\ d[s] = RecordOf(s) \/ d[s] = NoRecord
        /\ \A x \in Session \ {s} : d[x] = RecordOf(x)
    BY <1>2, <1>5 DEF Moved, Journals, RecordOf
  <2>3. released \subseteq released' /\ released' \subseteq Session
    BY <1>1 DEF IInv, TypeOK
  <2>4. d[s] = NoRecord => s \in released'
    BY <1>1, <2>1 DEF Held
  <2> HIDE DEF d
  <2>5. \A x \in Session : Kept(x, d[x])
    BY <2>2, <2>4 DEF Kept
  <2> QED
    BY <1>1, <2>1, <2>2, <2>3, <2>5, EndedStep
<1>7. CASE (r.ok \/ daemon = "serving") /\ Moved(journal, r.journal, s, NoRecord)
  <2>1. /\ Moved(journal, journal', s, NoRecord) /\ UNCHANGED <<daemon, pool, life>>
        /\ task' = task \/ (task' = Idle /\ daemon = "serving")
    BY <1>4, <1>7
  <2>2. s \notin Held(journal'.disk)
    BY <1>2, <2>1 DEF Moved, Journals, Held
  <2> QED
    BY <1>1, <1>2, <1>3, <2>1, <2>2, ReleaseStep
<1>8. CASE daemon = "serving" /\ ~r.ok /\ r.journal = journal
  <2>1. /\ task' = Idle
        /\ UNCHANGED <<daemon, plan, journal, cgroup, tree, pool, life, outcome, released>>
    BY <1>1, <1>3, <1>4, <1>8 DEF OnDisk
  <2>2. TypeOK'
    BY <2>1 DEF IInv, TypeOK, Idle
  <2>3. ASSUME NEW x \in Session
        PROVE  TreeSound(x)' /\ CoverSound(x)' /\ LifeSound(x)'
    <3>1. TreeSound(x) /\ CoverSound(x) /\ LifeSound(x)
      BY DEF IInv
    <3> QED
      BY <1>1, <1>8, <2>1, <3>1
         DEF TreeSound, CoverSound, LifeSound, Gone, Bound, OnDisk, RecordOf, Held
  <2>4. JournalSound'
    BY <2>1 DEF IInv, JournalSound, Mirrored, FileSound, OnDisk, RecordOf, Held
  <2>5. TaskSound'
    BY <1>8, <2>1 DEF TaskSound, Idle
  <2> QED
    BY <2>2, <2>3, <2>4, <2>5 DEF IInv
<1> QED
  BY <1>5, <1>6, <1>7, <1>8

\* A create reserves a record where there was none, or discards the session: it
\* may leave a file whose directory sync failed.
LEMMA CreateStep ==
    ASSUME IInv, NEW s \in Session, Create(s)
    PROVE  IInv'
<1>1. /\ daemon = "serving" /\ task = Idle /\ life[s] = "unused"
      /\ UNCHANGED <<daemon, plan, cgroup, tree, pool, outcome, released>>
  BY DEF Create, Ready
<1>2. PICK r \in Reserve(journal, s, plan) :
        /\ journal' = r.journal
        /\ life' = [life EXCEPT ![s] = IF r.ok THEN "created" ELSE "discarded"]
        /\ task' = IF r.ok THEN [Idle EXCEPT !.op = "spawn", !.session = s, !.at = "contain"]
                   ELSE Idle
  BY DEF Create
<1>3. /\ journal \in Journals /\ plan \in Mechanism
      /\ life \in [Session -> {"unused", "created", "discarded", "running", "stopping",
                               "terminal", "lost"}]
  BY <1>1, PlansAssumption DEF IInv, TypeOK
<1>4. tree[s] = NoTree /\ s \notin Bound
  BY <1>1 DEF IInv, LifeSound, Idle
<1>5. /\ \A x \in Session \ {s} : life'[x] = life[x]
      /\ life'[s] = IF r.ok THEN "created" ELSE "discarded"
  BY <1>2, <1>3
<1> DEFINE rec == [class |-> "reserved", boot |-> "current",
                   containment |-> plan, quarantined |-> "no"]
<1>6. /\ rec \in Record /\ rec # NoRecord
      /\ rec.class = "reserved" /\ rec.boot = "current" /\ rec.containment = plan
  <2>1. rec \in Record
    BY <1>3 DEF Record, Class
  <2> QED
    BY <2>1, NoRecordAssumption
<1>7. \/ ~r.ok /\ journal' = journal
      \/ /\ s \notin Held(journal.memory)
         /\ ~(Cardinality(Held(journal.memory)) >= MaxRecords) /\ Entered(s, rec)
         /\ \/ r.ok /\ Moved(journal, journal', s, rec)
            \/ ~r.ok /\ Written(journal, journal', s, rec)
  BY <1>2, <1>3, ReserveOutcome DEF Entered
<1> HIDE DEF rec
<1>8. TypeOK'
  <2>1. journal' \in Journals
    BY <1>3, <1>7 DEF Moved, Written
  <2> QED
    BY <1>1, <1>2, <1>3, <2>1 DEF IInv, TypeOK, Idle
<1>9. /\ task'.op = "spawn" <=> r.ok
      /\ r.ok => task'.session = s /\ task'.at = "contain" /\ task'.todo = {}
      /\ ~r.ok => task' = Idle
  BY <1>2 DEF Idle
<1>10. CASE ~r.ok /\ journal' = journal
  <2>1. ASSUME NEW x \in Session
        PROVE  TreeSound(x)' /\ CoverSound(x)' /\ LifeSound(x)'
    <3>1. TreeSound(x) /\ CoverSound(x) /\ LifeSound(x)
      BY DEF IInv
    <3>2. TreeSound(x)' /\ CoverSound(x)'
      BY <1>1, <1>10, <3>1 DEF TreeSound, CoverSound, Gone, OnDisk, RecordOf, Held
    <3>3. LifeSound(x)'
      BY <1>1, <1>4, <1>5, <1>9, <1>10, <3>1 DEF LifeSound, Bound, OnDisk, RecordOf, Held
    <3> QED
      BY <3>2, <3>3
  <2>2. JournalSound'
    BY <1>1, <1>5, <1>10 DEF IInv, JournalSound, Mirrored, FileSound, OnDisk, RecordOf, Held
  <2>3. TaskSound'
    BY <1>1, <1>9, <1>10 DEF TaskSound, Idle
  <2> QED
    BY <1>8, <2>1, <2>2, <2>3 DEF IInv
<1>11. CASE /\ s \notin Held(journal.memory)
            /\ ~(Cardinality(Held(journal.memory)) >= MaxRecords) /\ Entered(s, rec)
            /\ \/ r.ok /\ Moved(journal, journal', s, rec)
               \/ ~r.ok /\ Written(journal, journal', s, rec)
  <2>1. /\ OnDisk(s)' /\ RecordOf(s)' = rec
        /\ \A x \in Session \ {s} :
             /\ OnDisk(x)' = OnDisk(x) /\ RecordOf(x)' = RecordOf(x)
             /\ (x \in Held(journal.memory))' = (x \in Held(journal.memory))
             /\ journal'.memory[x] = journal.memory[x]
    BY <1>3, <1>6, <1>11, EntryMoved
  <2>2. ASSUME NEW x \in Session
        PROVE  TreeSound(x)' /\ CoverSound(x)' /\ LifeSound(x)'
    <3>1. TreeSound(x) /\ CoverSound(x) /\ LifeSound(x)
      BY DEF IInv
    <3>2. TreeSound(x)' /\ (Gone(x) <=> Gone(x)') /\ (x \in Bound)' = (x \in Bound)
      BY <1>1, <3>1 DEF TreeSound, Gone, Bound
    <3>3. CASE x = s
      <4>1. CoverSound(s)'
        BY <1>1, <1>4, <1>6, <2>1 DEF CoverSound, NoTree
      <4>2. LifeSound(s)'
        BY <1>1, <1>4, <1>5, <1>6, <1>9, <2>1, <3>2, <3>3 DEF LifeSound
      <4> QED
        BY <3>2, <3>3, <4>1, <4>2
    <3>4. CASE x # s
      BY <1>1, <1>5, <2>1, <3>1, <3>2, <3>4 DEF CoverSound, LifeSound, Idle
    <3> QED
      BY <3>3, <3>4
  <2>3. JournalSound'
    <3>1. Loadable(journal'.memory)
      <4>1. Held(journal'.memory) \subseteq Held(journal.memory) \cup {s}
        BY <1>3, <1>11 DEF Moved, Written, Journals, Held
      <4> QED
        BY <1>11, <4>1, LimitReached
    <3>2. FileSound(s)'
      BY <1>6, <2>1 DEF FileSound
    <3>3. Mirrored(s)'
      <4>1. CASE r.ok /\ Moved(journal, journal', s, rec)
        <5>1. journal'.memory[s] = rec /\ (s \in Held(journal.memory))'
          BY <1>3, <1>6, <4>1 DEF Moved, Journals, Held
        <5> QED
          BY <2>1, <5>1 DEF Mirrored
      <4>2. CASE ~r.ok /\ Written(journal, journal', s, rec)
        BY <1>5, <1>11, <4>2 DEF Mirrored, Written, Held
      <4> QED
        BY <1>11, <4>1, <4>2
    <3>4. \A x \in Session \ {s} : Mirrored(x)' /\ FileSound(x)'
      BY <1>1, <1>5, <2>1 DEF IInv, JournalSound, Mirrored, FileSound
    <3> QED
      BY <3>1, <3>2, <3>3, <3>4 DEF JournalSound
  <2>4. TaskSound'
    <3>1. CASE r.ok
      <4>1. SpawnSound(s)'
        BY <1>1, <1>4, <1>5, <1>6, <1>9, <2>1, <3>1 DEF SpawnSound, SettlesGone
      <4> QED
        BY <1>1, <1>9, <3>1, <4>1 DEF TaskSound
    <3>2. CASE ~r.ok
      BY <1>1, <1>9, <3>2 DEF TaskSound, Idle
    <3> QED
      BY <3>1, <3>2
  <2> QED
    BY <1>8, <2>2, <2>3, <2>4 DEF IInv
<1> QED
  BY <1>7, <1>10, <1>11

\* Retention ages an entry: it stays a record of the same class and boot.
LEMMA RetentionStep == ASSUME IInv, NEW s \in Session, Retention(s) PROVE IInv'
<1>1. /\ journal' = Age(journal, s)
      /\ UNCHANGED <<daemon, plan, cgroup, tree, pool, life, outcome, task, released>>
  BY DEF Retention
<1>2. journal \in Journals
  BY DEF IInv, TypeOK
<1>3. ASSUME NEW map \in [Session -> Record \cup {NoRecord}]
      PROVE  /\ Aged(map, s) \in [Session -> Record \cup {NoRecord}]
             /\ Held(Aged(map, s)) = Held(map)
             /\ \A x \in Held(map) :
                  /\ Aged(map, s)[x].class = map[x].class
                  /\ Aged(map, s)[x].boot = map[x].boot
                  /\ Aged(map, s)[x].containment = map[x].containment
                  /\ (Aged(map, s)[x].quarantined = "no" <=> map[x].quarantined = "no")
  BY NoRecordAssumption DEF Aged, Held, Record
<1>4. /\ journal' \in Journals
      /\ Held(journal'.disk) = Held(journal.disk)
      /\ Held(journal'.memory) = Held(journal.memory)
  BY <1>1, <1>2, <1>3 DEF Age, Journals
<1>5. \A x \in Session :
        /\ OnDisk(x)' = OnDisk(x)
        /\ OnDisk(x) => /\ RecordOf(x)'.class = RecordOf(x).class
                        /\ RecordOf(x)'.boot = RecordOf(x).boot
                        /\ RecordOf(x)'.containment = RecordOf(x).containment
                        /\ (RecordOf(x)'.quarantined = "no" <=> RecordOf(x).quarantined = "no")
  BY <1>1, <1>2, <1>3 DEF Age, Journals, OnDisk, RecordOf
<1>m. \A x \in Held(journal.memory) :
        /\ journal'.memory[x].class = journal.memory[x].class
        /\ journal'.memory[x].boot = journal.memory[x].boot
        /\ journal'.memory[x].containment = journal.memory[x].containment
        /\ journal.memory[x] = RecordOf(x) => journal'.memory[x] = RecordOf(x)'
  <2>1. ASSUME NEW x \in Held(journal.memory), journal.memory[x] = journal.disk[x]
        PROVE  Aged(journal.memory, s)[x] = Aged(journal.disk, s)[x]
    BY <1>2, <2>1 DEF Aged, Held, Journals
  <2>2. journal'.memory = Aged(journal.memory, s) /\ journal'.disk = Aged(journal.disk, s)
    BY <1>1 DEF Age
  <2> QED
    BY <1>2, <1>3, <2>1, <2>2 DEF RecordOf, Journals
<1>6. TypeOK'
  BY <1>1, <1>4 DEF IInv, TypeOK
<1>7. ASSUME NEW x \in Session
      PROVE  TreeSound(x)' /\ CoverSound(x)' /\ LifeSound(x)'
  <2>1. TreeSound(x) /\ CoverSound(x) /\ LifeSound(x)
    BY DEF IInv
  <2> QED
    BY <1>1, <1>5, <2>1 DEF TreeSound, CoverSound, LifeSound, Gone, Bound
<1>8. JournalSound'
  <2>1. Loadable(journal'.memory)
    BY <1>4 DEF IInv, JournalSound, Loadable
  <2>2. \A x \in Session : FileSound(x)'
    BY <1>5 DEF IInv, JournalSound, FileSound
  <2>3. ASSUME daemon' # "down", NEW x \in Session PROVE Mirrored(x)'
    <3>1. Mirrored(x)
      BY <1>1, <2>3 DEF IInv, JournalSound
    <3> QED
      BY <1>1, <1>4, <1>5, <1>m, <3>1 DEF Mirrored
  <2> QED
    BY <2>1, <2>2, <2>3 DEF JournalSound
<1>9. TaskSound'
  <2>1. ASSUME NEW x \in Session, SpawnSound(x) PROVE SpawnSound(x)'
    BY <1>1, <1>5, <2>1 DEF SpawnSound, SettlesGone, Gone, Bound
  <2>2. ASSUME NEW x \in Session, StopSound(x) PROVE StopSound(x)'
    BY <1>1, <2>2 DEF StopSound, SettlesGone, Gone
  <2>3. VerifySound => VerifySound'
    BY <1>1, <1>4, <1>m DEF VerifySound, SettlesGone, Gone, Bound, Actionable
  <2> QED
    BY <1>1, <2>1, <2>2, <2>3 DEF IInv, TaskSound
<1> QED
  BY <1>6, <1>7, <1>8, <1>9 DEF IInv

-----------------------------------------------------------------------------
(* The invariant holds at first and is kept by every step.                  *)

\* A first daemon may find files it cannot read, which are quarantined, and files
\* of a version without a containment identity.
LEMMA InitInvariant == Init => IInv
<1> SUFFICES ASSUME Init PROVE IInv
  OBVIOUS
<1>1. PICK disk \in [Session -> {NoRecord, Garbled} \cup Legacy] :
        /\ journal = Down(disk)
        /\ Loadable(disk)
        /\ life = [s \in Session |-> IF s \in Held(disk) THEN "lost" ELSE "unused"]
  BY DEF Init
<1>2. /\ daemon = "down" /\ plan \in Plans /\ cgroup = {} /\ task = Idle /\ released = {}
      /\ tree = [s \in Session |-> NoTree]
      /\ pool = [s \in Session |-> NoWorker]
      /\ outcome = [s \in Session |-> "none"]
  BY DEF Init
<1>3. journal.disk = disk /\ journal.memory = EmptyMap
      /\ journal = [memory |-> EmptyMap, disk |-> disk]
  BY <1>1 DEF Down
<1>4. \A rec \in {Garbled} \cup Legacy :
        /\ rec \in Record
        /\ rec.boot = "none" => rec.class = "unverified"
        /\ rec.class = "unverified" => rec.quarantined # "no"
  BY DEF Garbled, Legacy, Record, Class
<1>5. TypeOK
  <2>1. NoTree \in Trees
    BY DEF NoTree, Trees
  <2>2. disk \in [Session -> Record \cup {NoRecord}]
    BY <1>4
  <2>3. journal \in Journals
    BY <1>3, <2>2 DEF Journals, EmptyMap
  <2> QED
    BY <1>1, <1>2, <2>1, <2>3 DEF TypeOK, Idle
<1>6. ASSUME NEW x \in Session
      PROVE  TreeSound(x) /\ CoverSound(x) /\ LifeSound(x) /\ FileSound(x)
  <2>1. tree[x] = NoTree /\ x \notin Bound
    BY <1>2 DEF Bound
  <2>2. TreeSound(x) /\ Gone(x)
    BY <2>1 DEF TreeSound, Gone, NoTree, Members
  <2>3. FileSound(x)
    BY <1>3, <1>4 DEF FileSound, OnDisk, RecordOf, Held
  <2> QED
    BY <1>1, <1>2, <2>1, <2>2, <2>3 DEF CoverSound, LifeSound, NoTree
<1>7. JournalSound
  BY <1>2, <1>3, <1>6, NothingHeld DEF JournalSound
<1>8. TaskSound
  BY <1>2 DEF TaskSound, Idle
<1> QED
  BY <1>5, <1>6, <1>7, <1>8 DEF IInv

\* Every step keeps the invariant.
LEMMA NextInvariant ==
    ASSUME IInv, [Next]_vars
    PROVE  IInv'
<1>1. CASE UNCHANGED vars
  BY <1>1 DEF vars, IInv, TypeOK, JournalSound, Mirrored, FileSound, TreeSound, CoverSound, LifeSound,
              TaskSound, SpawnSound, StopSound, VerifySound, SettlesGone, Gone, OnDisk,
              RecordOf, Bound
<1>2. CASE Start \/ Crash \/ Reboot \/ Stop \/ Leave \/ Verify \/ Verified
  BY <1>2, StartStep, CrashStep, RebootStep, StopStep, VerifyStep, VerifiedStep
<1>3. ASSUME NEW s \in Session, Spawning(s) PROVE IInv'
  BY <1>3, SpawnRefusedStep, ContainStep, ForkLeaderStep, ExecRefusedStep, AbandonStep,
     NotBindableStep, SpawnedStep, CommitRecordStep, BindStep DEF Spawning
<1>4. ASSUME NEW s \in Session, Terminating(s) PROVE IInv'
  BY <1>4, ScanStep, TerminateKillStep, VerdictStep, SettleTaskStep DEF Terminating
<1>5. ASSUME NEW s \in Session, Verifying(s) PROVE IInv'
  BY <1>5, ClassifyStep, OpenRecordedStep, ReapSignalStep, ReapWaitStep, DeferStep,
     ReapRemoveStep, ReapSettleStep, CollectExpiredStep DEF Verifying
<1>6. ASSUME NEW s \in Session,
             \/ Kernel(s) \/ Create(s)
             \/ RequestStop(s) \/ Deadline(s) \/ KillWindow(s) \/ Supervise(s)
             \/ TerminateNext(s) \/ RetireRecord(s) \/ Retention(s)
      PROVE  IInv'
  BY <1>6, KernelStep, CreateStep, RequestStopStep, ClockStep, SuperviseStep,
     TerminateNextStep, RetireRecordStep, RetentionStep
<1> QED
  BY <1>1, <1>2, <1>3, <1>4, <1>5, <1>6 DEF Next

-----------------------------------------------------------------------------
(* The theorems.                                                            *)

\* A reservation covers its worker from before the fork until the tree is proven
\* gone, over crashes, restarts and reboots, and every handler keeps it so.
THEOREM InvariantHolds == Spec => []IInv
<1>1. Init => IInv
  BY InitInvariant
<1>2. IInv /\ [Next]_vars => IInv'
  BY NextInvariant
<1> QED
  BY <1>1, <1>2, PTL DEF Spec

\* Every variable keeps its type: no handler of worker.rs is ever at a step it
\* does not have, and no file holds anything but a record.
THEOREM TypesHold == Spec => []TypeOK
<1>1. IInv => TypeOK
  BY DEF IInv
<1> QED
  BY <1>1, InvariantHolds, PTL

\* orphan/journal.rs: a process of a worker that may run has a record on disk,
\* unless the operator or retention released it.
THEOREM EveryWorkerIsRecorded == Spec => []Recorded
<1>1. IInv => Recorded
  BY DEF IInv, CoverSound, Gone, OnDisk, Recorded
<1> QED
  BY <1>1, InvariantHolds, PTL

\* server.rs, run: a daemon that serves has acted on every record of its
\* predecessors, or quarantined it.
THEOREM StartsClean == Spec => []StartClean
<1>1. IInv => StartClean
  BY DEF IInv, LifeSound, OnDisk, RecordOf, StartClean
<1> QED
  BY <1>1, InvariantHolds, PTL

\* Service::start_worker: a session that is shown as running or stopping has a
\* handle in the pool and its record committed on disk.
THEOREM BoundWorkersAreCommitted == Spec => []BoundIsCommitted
<1>1. IInv => BoundIsCommitted
  BY DEF IInv, LifeSound, OnDisk, RecordOf, BoundIsCommitted
<1> QED
  BY <1>1, InvariantHolds, PTL

\* The handlers that signal a tree.
Signaller(s) ==
    \/ Scan(s) \/ Abandon(s) \/ TerminateKill(s)
    \/ Supervise(s) \/ OpenRecorded(s) \/ ReapSignal(s)

\* No other step sends a signal.
LEMMA Signallers ==
    ASSUME IInv, [Next]_vars, NEW s \in Session, Signals(s)
    PROVE  Signaller(s)
<1>1. /\ tree \in [Session -> Trees] /\ pool \in [Session -> Handles \cup {NoWorker}]
      /\ task \in [op : {"idle", "spawn", "stop", "verify"},
                   session : Session \cup {NoSession},
                   at : {"idle", "contain", "fork", "exec", "commit", "bind", "terminate",
                         "kill", "verdict", "settle", "next", "rmdir", "signal", "wait"},
                   todo : SUBSET Session, pinned : BOOLEAN,
                   cleanup : {"none", "not_started", "swept", "unverified"}]
  BY DEF IInv, TypeOK
<1>2. CASE UNCHANGED <<tree, pool, task>>
  BY <1>2 DEF Signals
<1>3. CASE UNCHANGED <<tree, pool>> /\ task'.at \notin {"kill", "signal"}
  BY <1>3 DEF Signals
<1>4. CASE Ended /\ (UNCHANGED tree \/ tree' = [x \in Session |-> NoTree])
  BY <1>4 DEF Ended, Signals, Idle, NoTree
<1>5. ASSUME NEW x \in Session, Kernel(x) PROVE FALSE
  BY <1>1, <1>5, KernelEvolves DEF IInv, Evolves, Signals
<1>6. ASSUME NEW x \in Session, ForkLeader(x) PROVE FALSE
  <2> DEFINE u == [NoTree EXCEPT !.home = plan, !.leader = "forked"]
  <2>1. tree' = [tree EXCEPT ![x] = u] /\ pool' = pool /\ task'.at = "exec"
    BY <1>1, <1>6 DEF ForkLeader, Go
  <2>2. u.killed = {}
    BY DEF NoTree
  <2> QED
    BY <1>1, <2>1, <2>2 DEF Signals
<1>7. ASSUME NEW x \in Session, ExecRefused(x) \/ Verdict(x) PROVE FALSE
  <2>1. pool' = pool /\ task'.at = "settle"
    BY <1>1, <1>7 DEF ExecRefused, Verdict, Finding
  <2>2. tree'[s].killed = tree[s].killed
    BY <1>1, <1>7 DEF ExecRefused, Verdict, Reaped, Trees
  <2> QED
    BY <2>1, <2>2 DEF Signals
<1>8. ASSUME NEW x \in Session, Spawned(x) \/ SettleTask(x) PROVE FALSE
  <2>1. tree' = tree /\ task'.at \in {"commit", "idle"}
    BY <1>1, <1>8 DEF Spawned, SettleTask, Go, Idle
  <2>2. pool'[s] \in {pool[s], Handle, NoWorker}
    BY <1>1, <1>8 DEF Spawned, SettleTask, Conclude
  <2>3. ~Handle.term
    BY DEF Handle
  <2> QED
    BY <2>1, <2>2, <2>3 DEF Signals
<1>9. ASSUME NEW x \in Session, Deadline(x) \/ KillWindow(x) PROVE FALSE
  <2>1. UNCHANGED <<tree, task>> /\ x \in Bound
    BY <1>9 DEF Deadline, KillWindow
  <2>2. pool[x] \in Handles
    BY <1>1, <2>1 DEF Bound
  <2>3. \/ pool' = [pool EXCEPT ![x] = [pool[x] EXCEPT !.due = TRUE]]
        \/ pool' = [pool EXCEPT ![x] = [pool[x] EXCEPT !.waited = TRUE]]
    BY <1>9 DEF Deadline, KillWindow
  <2>4. pool'[s] = pool[s] \/ pool'[s].term = pool[s].term
    BY <1>1, <2>2, <2>3 DEF Handles
  <2> QED
    BY <2>1, <2>4 DEF Signals
<1>10. ASSUME NEW x \in Session, Signaller(x), x # s PROVE FALSE
  <2>1. tree'[s] = tree[s]
    BY <1>1, <1>10 DEF Signaller, Scan, Abandon, TerminateKill, Supervise, OpenRecorded, ReapSignal
  <2>2. pool'[s] = pool[s]
    BY <1>1, <1>10
       DEF Signaller, Scan, Abandon, TerminateKill, Supervise, OpenRecorded, ReapSignal, Conclude
  <2>3. task' = task \/ task'.session = x
    BY <1>1, <1>10
       DEF Signaller, Scan, Abandon, TerminateKill, Supervise, OpenRecorded, ReapSignal, Go, Finding
  <2> QED
    BY <1>10, <2>1, <2>2, <2>3 DEF Signals
<1>11. ASSUME NEW x \in Session,
              \/ Classify(x) \/ ReapSettle(x) \/ CollectExpired(x)
       PROVE  \/ Ended /\ UNCHANGED tree
              \/ UNCHANGED <<tree, pool>> /\ task'.at \notin {"kill", "signal"}
  <2>0. Done(x).at = "next" /\ Idle.at = "idle"
    BY <1>1 DEF Done, Idle
  <2>1. CASE Classify(x)
    BY <2>0, <2>1 DEF Classify, Journalled
  <2>2. CASE ReapSettle(x)
    BY <2>0, <2>2 DEF ReapSettle, Journalled
  <2>3. CASE CollectExpired(x)
    BY <1>1, <2>3 DEF CollectExpired, Journalled, At, Idle
  <2> QED
    BY <1>11, <2>1, <2>2, <2>3
<1>12. ASSUME NEW x \in Session,
              \/ SpawnRefused(x) \/ Contain(x) \/ NotBindable(x) \/ CommitRecord(x) \/ Bind(x)
              \/ Create(x) \/ TerminateNext(x) \/ ReapWait(x) \/ Defer(x) \/ ReapRemove(x)
       PROVE  UNCHANGED <<tree, pool>> /\ task'.at \notin {"kill", "signal"}
  <2>1. /\ Done(x).at = "next" /\ Idle.at = "idle"
        /\ [Idle EXCEPT !.op = "spawn", !.session = x, !.at = "contain"].at = "contain"
        /\ [Idle EXCEPT !.op = "stop", !.session = x, !.at = "terminate"].at = "terminate"
    BY <1>1 DEF Done, Idle
  <2>2. CASE Bind(x) \/ Create(x) \/ TerminateNext(x) \/ Defer(x)
    <3>1. UNCHANGED <<tree, pool>>
      BY <2>2 DEF Bind, Create, TerminateNext, Defer
    <3>2. \/ task' = Idle \/ task' = Done(x)
          \/ task' = [Idle EXCEPT !.op = "spawn", !.session = x, !.at = "contain"]
          \/ task' = [Idle EXCEPT !.op = "stop", !.session = x, !.at = "terminate"]
      BY <2>2 DEF Bind, Create, TerminateNext, Defer
    <3> QED
      BY <2>1, <3>1, <3>2
  <2>3. CASE SpawnRefused(x) \/ ReapWait(x) \/ ReapRemove(x)
    BY <1>1, <2>3 DEF SpawnRefused, ReapWait, ReapRemove, Go, Finding
  <2>4. CASE Contain(x) \/ NotBindable(x) \/ CommitRecord(x)
    <3>1. UNCHANGED <<tree, pool>>
      BY <2>4 DEF Contain, NotBindable, CommitRecord
    <3>2. Go("fork") \/ Go("terminate") \/ Go("bind")
      BY <2>4 DEF Contain, NotBindable, CommitRecord
    <3> QED
      BY <1>1, <3>1, <3>2 DEF Go
  <2> QED
    BY <1>12, <2>2, <2>3, <2>4
<1>13. ASSUME NEW x \in Session, RequestStop(x) \/ RetireRecord(x) \/ Retention(x)
       PROVE  UNCHANGED <<tree, pool, task>>
  BY <1>13 DEF RequestStop, RetireRecord, Retention
<1>14. ASSUME Start \/ Stop \/ Verify \/ Verified
       PROVE  UNCHANGED <<tree, pool>> /\ (task' = task \/ task'.at \notin {"kill", "signal"})
  <2>1. CASE Start
    BY <2>1 DEF Start, Idle
  <2>2. CASE Verify
    BY <2>2 DEF Verify, Idle
  <2>3. CASE Stop \/ Verified
    BY <2>3 DEF Stop, Verified, Idle
  <2> QED
    BY <1>14, <2>1, <2>2, <2>3
<1>15. ASSUME Crash \/ Reboot \/ Leave
       PROVE  Ended /\ (UNCHANGED tree \/ tree' = [x \in Session |-> NoTree])
  BY <1>15 DEF Crash, Reboot, Leave
<1>16. \/ UNCHANGED <<tree, pool, task>>
       \/ Start \/ Stop \/ Verify \/ Verified
       \/ Crash \/ Reboot \/ Leave
       \/ \E x \in Session :
            \/ Kernel(x) \/ Create(x) \/ Spawning(x) \/ Terminating(x) \/ Verifying(x)
            \/ RequestStop(x) \/ Deadline(x) \/ KillWindow(x) \/ Supervise(x)
            \/ TerminateNext(x) \/ RetireRecord(x) \/ Retention(x)
  BY DEF Next, vars
<1>17. ASSUME NEW x \in Session, Spawning(x) \/ Terminating(x) \/ Verifying(x)
       PROVE  Signaller(s)
  <2>1. \/ Signaller(x) \/ ForkLeader(x) \/ ExecRefused(x) \/ Verdict(x)
        \/ Spawned(x) \/ SettleTask(x)
        \/ Classify(x) \/ ReapSettle(x) \/ CollectExpired(x)
        \/ SpawnRefused(x) \/ Contain(x) \/ NotBindable(x) \/ CommitRecord(x) \/ Bind(x)
        \/ ReapWait(x) \/ Defer(x) \/ ReapRemove(x)
    BY <1>17 DEF Spawning, Terminating, Verifying, Signaller
  <2> QED
    BY <1>3, <1>4, <1>6, <1>7, <1>8, <1>10, <1>11, <1>12, <2>1
<1>18. ASSUME NEW x \in Session,
              \/ Kernel(x) \/ Create(x) \/ RequestStop(x) \/ Deadline(x) \/ KillWindow(x)
              \/ Supervise(x) \/ TerminateNext(x) \/ RetireRecord(x) \/ Retention(x)
       PROVE  Signaller(s)
  BY <1>2, <1>3, <1>5, <1>9, <1>10, <1>12, <1>13, <1>18 DEF Signaller
<1> QED
  BY <1>2, <1>3, <1>4, <1>14, <1>15, <1>16, <1>17, <1>18

\* A step that signals a tree has a record of it, of this boot, that it does not
\* take for quarantined, and the tree is not that of a worker that runs.
LEMMA SignalIsCovered ==
    ASSUME IInv, [Next]_vars, NEW s \in Session, Signals(s)
    PROVE  /\ s \in Held(journal.memory) /\ journal.memory[s].class # "unverified"
           /\ OnDisk(s) /\ RecordOf(s).boot = "current"
           /\ ~(life[s] = "running" /\ tree[s].leader = "running")
<1>1. Signaller(s)
  BY Signallers
<1>2. LifeSound(s) /\ tree \in [Session -> Trees] /\ pool \in [Session -> Handles \cup {NoWorker}]
  BY DEF IInv, TypeOK
<1>3. ASSUME daemon # "down", OnDisk(s), life[s] # "discarded",
             RecordOf(s).class # "unverified"
      PROVE  s \in Held(journal.memory) /\ journal.memory[s].class # "unverified"
  <2>1. s \in Held(journal.memory)
    BY <1>3, FileHeld
  <2> QED
    BY <1>3, <2>1, HeldEntry
<1>4. CASE task.session = s /\ task.op = "spawn"
  <2>1. /\ SpawnSound(s) /\ daemon = "serving" /\ life[s] = "created"
    BY <1>4, InSpawn
  <2> QED
    BY <1>3, <2>1 DEF SpawnSound
<1>5. CASE task.session = s /\ task.op = "stop"
  <2>1. daemon = "stopping" /\ life[s] = "stopping"
    BY <1>5 DEF IInv, TaskSound, StopSound
  <2> QED
    BY <1>2, <1>3, <2>1 DEF LifeSound
<1>6. CASE Supervise(s)
  <2>1. s \in Bound /\ task = Idle /\ daemon = "serving"
    BY <1>6 DEF Supervise, Ready
  <2>2. life[s] \in {"running", "stopping"}
    BY <1>2, <2>1 DEF LifeSound, Idle
  <2>3. ASSUME life[s] = "running", tree[s].leader = "running" PROVE FALSE
    <3>1. Observed(s) = {[handle |-> pool[s], tree |-> tree[s]]}
      BY <2>3 DEF Observed
    <3>2. PICK seen \in Observed(s) :
            /\ tree' = [tree EXCEPT ![s] = seen.tree]
            /\ \/ pool' = [pool EXCEPT ![s] = seen.handle]
               \/ pool' = [pool EXCEPT ![s] = NoWorker]
      BY <1>6 DEF Supervise, Conclude
    <3>3. tree'[s] = tree[s] /\ pool'[s] \in {pool[s], NoWorker} /\ task' = task
      BY <1>2, <1>6, <3>1, <3>2 DEF Supervise
    <3> QED
      BY <3>3 DEF Signals
  <2> QED
    BY <1>2, <1>3, <2>1, <2>2, <2>3 DEF LifeSound
<1>7. CASE task.op = "verify" /\ s \in task.todo /\ Actionable(journal.memory[s])
  <2>1. /\ s \in Held(journal.memory) /\ OnDisk(s) /\ daemon # "down"
        /\ life[s] \notin {"created", "running", "stopping"}
    BY <1>7, InVerify
  <2> QED
    BY <1>7, <2>1, HeldEntry DEF Actionable
<1>8. \/ task.session = s /\ task.op \in {"spawn", "stop"}
      \/ Supervise(s)
      \/ task.op = "verify" /\ s \in task.todo /\ Actionable(journal.memory[s])
  <2>1. CASE Scan(s) \/ Abandon(s) \/ TerminateKill(s)
    BY <2>1 DEF Scan, Abandon, TerminateKill, At, IInv, TypeOK, TaskSound, VerifySound, Idle
  <2>2. CASE OpenRecorded(s)
    BY <2>2 DEF OpenRecorded, At
  <2>3. CASE ReapSignal(s)
    BY <2>3 DEF ReapSignal, At, IInv, TaskSound, VerifySound
  <2> QED
    BY <1>1, <2>1, <2>2, <2>3 DEF Signaller
<1> QED
  BY <1>4, <1>5, <1>6, <1>7, <1>8

\* verify_within_excluding: no pass signals a worker the daemon serves, neither
\* with SIGKILL nor with SIGTERM.
THEOREM RunningWorkersAreSpared == Spec => Spared
<1>1. ASSUME IInv, [Next]_vars
      PROVE  [\A s \in Session :
                life[s] = "running" /\ tree[s].leader = "running" => ~Signals(s)]_vars
  BY <1>1, SignalIsCovered
<1> QED
  BY <1>1, InvariantHolds, PTL DEF Spec, Spared

\* README.md: whatever a handler or a pass signals has a record of this boot on
\* disk, which the daemon does not hold as quarantined, in this daemon or a later
\* one, and whichever call of the file system fails.
THEOREM QuarantinedIsNeverSignalled == Spec => UnverifiedNeverSignalled
<1>1. ASSUME IInv, [Next]_vars
      PROVE  [\A s \in Session : Signals(s) =>
                /\ s \in Held(journal.memory) /\ journal.memory[s].class # "unverified"
                /\ s \in Held(journal.disk) /\ journal.disk[s].boot = "current"]_vars
  BY <1>1, SignalIsCovered DEF OnDisk, RecordOf
<1> QED
  BY <1>1, InvariantHolds, PTL DEF Spec, UnverifiedNeverSignalled

\* A daemon leaves no file that was not there: not by a crash, a reboot or an end,
\* nor by a start that fails.
LEMMA DownKeepsFiles ==
    ASSUME IInv, [Next]_vars, daemon' = "down"
    PROVE  Held(journal'.disk) \subseteq Held(journal.disk)
<1>1. journal \in Journals
  BY DEF IInv, TypeOK
<1>2. CASE journal' = journal
  BY <1>2
<1>3. CASE Crash \/ Leave \/ Reboot
  BY <1>3 DEF Crash, Leave, Reboot, Down, Rebooted, Held
<1>4. ASSUME NEW s \in Session, Retention(s)
      PROVE  Held(journal'.disk) \subseteq Held(journal.disk)
  BY <1>4 DEF Retention, Age, Aged, Held
<1>5. ASSUME NEW s \in Held(journal.memory), NEW outcomes, NEW next, task.op = "verify",
             Journalled(outcomes, next),
             \A r \in outcomes : \/ r.journal = journal
                                 \/ \E e : \/ Moved(journal, r.journal, s, e)
                                           \/ Written(journal, r.journal, s, e)
      PROVE  Held(journal'.disk) \subseteq Held(journal.disk)
  <2>1. s \in Session /\ OnDisk(s)
    BY <1>5, InVerify, HeldEntry
  <2>2. PICK r \in outcomes : journal' = r.journal \/ journal' = Down(r.journal.disk)
    BY <1>5 DEF Journalled
  <2>3. journal'.disk = r.journal.disk
    BY <2>2 DEF Down
  <2>4. Held(r.journal.disk) \subseteq Held(journal.disk) \cup {s}
    BY <1>1, <1>5, <2>1 DEF Moved, Written, Journals, Held
  <2> QED
    BY <2>1, <2>3, <2>4 DEF OnDisk
<1>6. ASSUME NEW s \in Session, Classify(s) \/ ReapSettle(s) \/ CollectExpired(s)
      PROVE  Held(journal'.disk) \subseteq Held(journal.disk)
  <2>1. task.op = "verify"
    BY <1>6 DEF Classify, ReapSettle, CollectExpired, At
  <2>2. s \in Held(journal.memory) /\ daemon # "down"
    BY <1>6, <2>1, InVerify
       DEF Classify, ReapSettle, CollectExpired, At, Expired, VerifySound
  <2>3. journal.memory[s].boot = "none" =>
          /\ journal.memory[s].class = "unverified" /\ journal.memory[s].quarantined # "no"
          /\ journal.disk[s] = journal.memory[s]
    BY <2>2, HeldEntry DEF RecordOf
  <2>4. \A r \in Remove(journal, s) :
          r.journal = journal \/ Moved(journal, r.journal, s, NoRecord)
    BY <1>1, RemoveOutcome
  <2>5. \A r \in Quarantine(journal, s) :
          LET q == Quarantined(journal.memory[s])
          IN \/ r.journal = journal
             \/ Moved(journal, r.journal, s, q)
             \/ Written(journal, r.journal, s, q)
    BY <1>1, <2>2, <2>3, QuarantineOutcome
  <2>6. \A r \in Settle(journal, s, task.cleanup) :
          LET q == Quarantined(journal.memory[s])
          IN \/ r.journal = journal
             \/ Moved(journal, r.journal, s, NoRecord)
             \/ Moved(journal, r.journal, s, q)
             \/ Written(journal, r.journal, s, q)
    BY <2>2, <2>4, <2>5 DEF Settle
  <2>7. CASE \E next : Journalled(Remove(journal, s), next)
    BY <1>5, <2>1, <2>2, <2>4, <2>7
  <2>8. CASE \E next : Journalled(Quarantine(journal, s), next)
    BY <1>5, <2>1, <2>2, <2>5, <2>8
  <2>9. CASE \E next : Journalled(Settle(journal, s, task.cleanup), next)
    BY <1>5, <2>1, <2>2, <2>6, <2>9
  <2> QED
    BY <1>6, <2>7, <2>8, <2>9 DEF Classify, ReapSettle, CollectExpired
<1>7. ASSUME NEW s \in Session, CommitRecord(s) \/ SettleTask(s) PROVE FALSE
  <2>1. task.session = s /\ task.op \in {"spawn", "stop"} /\ daemon' = daemon
    BY <1>7 DEF CommitRecord, SettleTask, At
  <2>2. daemon \in {"serving", "stopping"}
    BY <2>1 DEF IInv, TaskSound, SpawnSound, StopSound
  <2> QED
    BY <2>1, <2>2
<1>8. ASSUME NEW s \in Session, Create(s) \/ Supervise(s) \/ RetireRecord(s) PROVE FALSE
  BY <1>8 DEF Create, Supervise, RetireRecord, Ready
<1>9. ASSUME Start PROVE FALSE
  BY <1>9 DEF Start
<1>10. \/ journal' = journal
       \/ Start \/ Crash \/ Leave \/ Reboot
       \/ \E s \in Session :
            \/ Retention(s) \/ Classify(s) \/ ReapSettle(s) \/ CollectExpired(s)
            \/ CommitRecord(s) \/ SettleTask(s)
            \/ Create(s) \/ Supervise(s) \/ RetireRecord(s)
  BY DEF Next, vars, Stop, Verify, Verified, Kernel, Exec, Setsid, Fork, Exit, Spawning,
     SpawnRefused, Contain, ForkLeader, ExecRefused, Abandon, NotBindable, Spawned, Bind,
     Terminating, Scan, TerminateKill, Verdict, Verifying, OpenRecorded, ReapSignal, ReapWait,
     Defer, ReapRemove, RequestStop, Deadline, KillWindow, TerminateNext
<1> QED
  BY <1>2, <1>3, <1>4, <1>6, <1>7, <1>8, <1>9, <1>10

\* load_records: a step that leaves more files than the next daemon loads is one
\* of a daemon that has forgotten a file; a crash or a restart leaves no more
\* than it found.
THEOREM OnlyForgottenFilesOverflow == Spec => Restartable
<1>1. ASSUME IInv, [Next]_vars
      PROVE  [Loadable(journal.disk) =>
                Loadable(journal'.disk) \/ (daemon' # "down" /\ Forgotten' # {})]_vars
  <2>1. SUFFICES ASSUME Loadable(journal.disk), daemon' = "down" \/ Forgotten' = {}
                 PROVE  Loadable(journal'.disk)
    OBVIOUS
  <2>2. IInv'
    BY <1>1, NextInvariant
  <2>3. CASE daemon' # "down"
    <3>1. Held(journal'.disk) \subseteq Held(journal'.memory)
      BY <2>1, <2>3 DEF Forgotten
    <3>2. Loadable(journal'.memory)
      BY <2>2 DEF IInv, JournalSound
    <3> QED
      BY <3>1, <3>2, LimitKept
  <2>4. CASE daemon' = "down"
    <3>1. Held(journal'.disk) \subseteq Held(journal.disk)
      BY <1>1, <2>4, DownKeepsFiles
    <3> QED
      BY <2>1, <3>1, LimitKept
  <2> QED
    BY <2>3, <2>4
<1> QED
  BY <1>1, InvariantHolds, PTL DEF Spec, Restartable
=============================================================================
