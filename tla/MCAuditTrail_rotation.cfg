\* Two segments, as configured, and one failure.
SPECIFICATION Spec
CONSTANTS
    Segments = 2
    SegmentCap = 2
    MaxRecords = 6
    MaxFaults = 1
    NoFile = NoFile
INVARIANTS
    TailKept
