\* Two sessions that end in every order, together or apart, and a connection
\* with a lease on each of them or two on one: streams, pins and last
\* events.  One terminal record is kept, so that a tick may evict its own.
SPECIFICATION Spec
CONSTANTS
    Session = {s1, s2}
    Conn = {c1}
    AttachId = {a1, a2}
    NoSession = NoSession
    NoConn = NoConn
    QueueCap = 2
    RingCap = 1
    OutCap = 1
    MaxRetained = 1
    OptIn = {TRUE}
    MaxRevision = 2
SYMMETRY Symmetry
INVARIANTS
    StreamGapFree
    TerminalPinned

    
CHECK_DEADLOCK FALSE
