---------------------------- MODULE OrphanJournal ----------------------------
(***************************************************************************)
(* The orphan journal of the daemon (crates/bitty-daemon/src/orphan/       *)
(* journal.rs): one file per spawned worker, written before the spawn and  *)
(* read again by the next daemon.  A journal is a record of two functions, *)
(* `memory`, the map the process holds, and `disk`, the files.  An         *)
(* operation that writes is the set of its outcomes, one per way the file  *)
(* system can answer: `ok`, and the journal it leaves.                     *)
(*                                                                         *)
(* A file is replaced by writing a private temporary file, renaming it     *)
(* and syncing the directory.  A process that dies before the rename       *)
(* leaves the old file, after it the new one.  `Faults` names the calls    *)
(* that may fail: "write" (nothing happened yet), "unlink" (the file is    *)
(* still there) and "sync" (the rename or the removal is done, the         *)
(* operation reports an error all the same).                               *)
(*                                                                         *)
(* Abstracted: the encoding and its size bound, the process tuple (every   *)
(* record that needs it ends up quarantined, see Classify), permissions.   *)
(* A file that does not parse or is too large is a `Garbled` record, one   *)
(* of the first version a `Legacy` one.  Time in quarantine is `recent`    *)
(* until retention has `past`.                                             *)
(***************************************************************************)
EXTENDS Integers, FiniteSets

CONSTANTS
    Session,            \* session ids of every daemon that used the journal
    NoRecord,           \* no file, no entry
    MaxRecords,         \* limit: max_orphan_records
    Faults              \* file-system calls that may fail

ASSUME SessionAssumption == IsFiniteSet(Session)
ASSUME MaxRecordsAssumption == MaxRecords \in Nat \ {0}
ASSUME FaultsAssumption == Faults \subseteq {"write", "unlink", "sync"}

Class == {"reserved", "committed", "unverified"}
Mechanism == {"cgroup", "subreaper"}

Record ==
    [class : Class,
     boot : {"current", "earlier", "none"},
     containment : Mechanism \cup {"none"},
     quarantined : {"no", "recent", "past"}]

\* No file is no record.
ASSUME NoRecordAssumption == NoRecord \notin Record

\* What load_records makes of a file it cannot use: OrphanRecord::placeholder.
Garbled ==
    [class |-> "unverified", boot |-> "none",
     containment |-> "none", quarantined |-> "recent"]

\* parse_valid, version 1: the boot and the class are kept, the containment
\* identity is missing.
Legacy ==
    {rec \in [class : Class, boot : {"current", "earlier"}, containment : {"none"},
              quarantined : {"no", "recent"}] :
        rec.class = "unverified" <=> rec.quarantined = "recent"}

Journals ==
    [memory : [Session -> Record \cup {NoRecord}],
     disk : [Session -> Record \cup {NoRecord}]]

EmptyMap == [s \in Session |-> NoRecord]
Held(map) == {s \in Session : map[s] # NoRecord}

Outcome(ok, j) == [ok |-> ok, journal |-> j]
Failed(fault, j) == IF fault \in Faults THEN {Outcome(FALSE, j)} ELSE {}

\* `store` and the insertion into the map that follows it when it succeeds.
Store(j, s, rec) ==
    LET written == [j EXCEPT !.disk[s] = rec]
    IN {Outcome(TRUE, [written EXCEPT !.memory[s] = rec])}
         \cup Failed("write", j)
         \cup Failed("sync", written)

\* `remove`: an absent file is no error, and the entry goes before the sync.
Remove(j, s) ==
    LET removed == [j EXCEPT !.disk[s] = NoRecord, !.memory[s] = NoRecord]
    IN {Outcome(TRUE, removed)}
         \cup Failed("unlink", j)
         \cup Failed("sync", removed)

\* Mutant of Reserve: the limit is left to the next start.
ReserveUnbounded(j, s, containment) ==
    Store(j, s, [class |-> "reserved", boot |-> "current",
                 containment |-> containment, quarantined |-> "no"])

Reserve(j, s, containment) ==
    IF s \in Held(j.memory) \/ Cardinality(Held(j.memory)) >= MaxRecords
    THEN {Outcome(FALSE, j)}
    ELSE Store(j, s, [class |-> "reserved", boot |-> "current",
                      containment |-> containment, quarantined |-> "no"])

Commit(j, s) ==
    IF s \in Held(j.memory) /\ j.memory[s].class = "reserved"
    THEN Store(j, s, [j.memory[s] EXCEPT !.class = "committed"])
    ELSE {Outcome(FALSE, j)}

\* Mutant of Quarantine: the file keeps the old class.
QuarantineInMemory(j, s) ==
    {Outcome(TRUE, [j EXCEPT !.memory[s].class = "unverified",
                             !.memory[s].quarantined = IF @ = "no" THEN "recent" ELSE @])}

\* The time of the first quarantine is kept; a record without a boot id is
\* never written back.
Quarantine(j, s) ==
    LET rec == [j.memory[s] EXCEPT
                  !.class = "unverified",
                  !.quarantined = IF @ = "no" THEN "recent" ELSE @]
    IN IF rec.boot = "none"
       THEN {Outcome(TRUE, [j EXCEPT !.memory[s] = rec])}
       ELSE Store(j, s, rec)

Settle(j, s, cleanup) ==
    IF cleanup \in {"not_started", "swept"} THEN Remove(j, s)
    ELSE IF s \in Held(j.memory) THEN Quarantine(j, s)
    ELSE {Outcome(TRUE, j)}

Retire(j, s) ==
    IF s \in Held(j.memory) /\ j.memory[s].class = "unverified"
    THEN Remove(j, s)
    ELSE {Outcome(FALSE, j)}

(***************************************************************************)
(* Classification.  A subreaper record whose process tuple still matches   *)
(* is exact too, but the reaper answers `unverified` for it: a restarted   *)
(* daemon is not the parent any more and cannot prove the descendants      *)
(* gone.  So every subreaper record is quarantined.                        *)
(***************************************************************************)
Stale(rec) == rec.boot = "earlier"

\* Mutant of Actionable: a quarantined record is acted on again.
ActionableAgain(rec) == rec.boot = "current" /\ rec.containment = "cgroup"

Actionable(rec) ==
    /\ rec.boot = "current"
    /\ rec.class # "unverified"
    /\ rec.containment = "cgroup"

\* load_records: more files than the limit is a start-up failure.
Loadable(disk) == Cardinality(Held(disk)) <= MaxRecords
Load(disk) == [memory |-> disk, disk |-> disk]

\* Retention passes for a quarantined record: the stamp on disk and in
\* memory is the same boot time, so both pass together.
Aged(map, s) ==
    IF s \in Held(map) /\ map[s].quarantined = "recent"
    THEN [map EXCEPT ![s].quarantined = "past"]
    ELSE map
Age(j, s) == [memory |-> Aged(j.memory, s), disk |-> Aged(j.disk, s)]
Expired(j) == {s \in Held(j.memory) : j.memory[s].class = "unverified"
                                        /\ j.memory[s].quarantined = "past"}

\* A new boot id makes every record of the old boot foreign.
Rebooted(disk) ==
    [s \in Session |->
       IF s \in Held(disk) /\ disk[s].boot = "current"
       THEN [disk[s] EXCEPT !.boot = "earlier"]
       ELSE disk[s]]
=============================================================================
