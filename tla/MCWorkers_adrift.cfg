SPECIFICATION Spec
CONSTANTS
    Session = {s1, s2}
    NoRecord = NoRecord
    NoWorker = NoWorker
    NoSession = NoSession
    MaxRecords = 1
    Faults = {}
    Plans = {"subreaper"}
SYMMETRY Symmetry
INVARIANT
    SweptMeansGone
