SPECIFICATION Spec
CONSTANTS
    Session = {s1}
    Conn = {c1, c2}
    Key = {k1, k2}
    HostGrant = {h1}
    ObserverGrant = {g1, g2}
    CreateCall = {p1}
    NoConn = NoConn
    NoResult = NoResult
    NoKey = NoKey
    NoGrant = NoGrant
    HostSession = HostSession
    CreateScope = CreateScope
    HostCap = 1
    ObserverCap = 1
    GrantCap = 2
    RingCap = 1
    FlushBatch = 1
    CreateCapacity = 1
    SessionCapacity = 2
SYMMETRY Symmetry
INVARIANTS
    ReplaysResolve
    SingleUse
    GrantEndsAnnounced
    AppliedIsAudited
PROPERTIES
    AppliesAtMostOnce
