SPECIFICATION Spec
CONSTANTS
    Session = {s1, s2}
    NoRecord = NoRecord
    NoWorker = NoWorker
    NoSession = NoSession
    MaxRecords = 2
    Faults = {"write", "unlink", "sync"}
    Plans = {"cgroup", "subreaper"}
SYMMETRY Symmetry
INVARIANTS
    Recorded
    StartClean
    BoundIsCommitted
PROPERTIES
    Spared
    UnverifiedNeverSignalled
