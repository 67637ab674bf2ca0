SPECIFICATION FairSpec
CONSTANTS
    Session = {s1, s2}
    NoRecord = NoRecord
    NoWorker = NoWorker
    NoSession = NoSession
    MaxRecords = 1
    Faults = {"write", "unlink", "sync"}
    Plans = {"cgroup"}
PROPERTIES
    Restartable
    StopSettles
    PhasesEnd
