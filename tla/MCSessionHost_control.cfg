\* One session, three handles: the control relation, the lease table and the
\* stop pipeline against every interleaving of requests, expiry and exits.
SPECIFICATION Spec
CONSTANTS
    Session = {s1}
    AttachId = {a1, a2, a3}
    NoSession = NoSession
    NoAttach = NoAttach
    MaxSessions = 1
    MaxRetained = 1
    MaxAttaches = 2
    LeaseTtl = 2
    AbortGrace = 1
    DrainGrace = 2
    TerminalRetention = 1
    Requested = {"consumer_cancel", "consumer_timeout", "operator_abort", "daemon_stop", "host_shutdown"}
    MaxRevision = 8
    MaxToken = 3
    MaxNow = 4
SYMMETRY AttachSymmetry
INVARIANTS
    ControlRelation
    AttachCountAgrees
    StopPipelineConsistent
    TerminalSealed
    LeaseTableBounded
PROPERTIES
    RevisionCoversVisible
    TokenRotatesWithControl
    ControlHandover
    StopIrrevocable
    ExpiredLeaseInert
    ImplementsControl
    LifecycleForward
