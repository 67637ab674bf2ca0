\* A fair loop and a client that reads its socket.
SPECIFICATION FairSpec
CONSTANTS
    Session = {s1}
    Conn = {c1}
    AttachId = {a1}
    NoSession = NoSession
    NoConn = NoConn
    QueueCap = 2
    RingCap = 1
    OutCap = 2
    MaxRetained = 1
    OptIn = {TRUE, FALSE}
    MaxRevision = 3
PROPERTIES
    TerminalReported
    LossRetiresOwner
CHECK_DEADLOCK FALSE
