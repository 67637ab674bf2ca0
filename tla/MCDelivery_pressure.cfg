\* Queues of one frame, so that nearly every frame is one too many: two
\* connections, each losing frames of the other's making.
SPECIFICATION Spec
CONSTANTS
    Session = {s1}
    Conn = {c1, c2}
    AttachId = {a1, a2}
    NoSession = NoSession
    NoConn = NoConn
    QueueCap = 1
    RingCap = 1
    OutCap = 2
    MaxRetained = 1
    OptIn = {TRUE}
    MaxRevision = 2
SYMMETRY Symmetry
INVARIANTS
    EventsKeepUp
    AttachedLeaseIsServed
    MemoryBounded
PROPERTIES
    LeavingIsReported
CHECK_DEADLOCK FALSE
