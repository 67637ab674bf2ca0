\* Three sessions and two attachments over a registry of two live and one
\* retained record: create, discard, cancel, bind, attach, stop, exit, sweep,
\* eviction and collection; a handle of one session presented to another,
\* leases of several sessions expired by one sweep, and a running session that
\* ends with its leases (four revisions: bind, attach, detach, end).
SPECIFICATION Spec
CONSTANTS
    Session = {s1, s2, s3}
    AttachId = {a1, a2}
    NoSession = NoSession
    NoAttach = NoAttach
    MaxSessions = 2
    MaxRetained = 1
    MaxAttaches = 1
    LeaseTtl = 1
    AbortGrace = 0
    DrainGrace = 0
    TerminalRetention = 1
    Requested = {"consumer_cancel", "operator_abort"}
    MaxRevision = 4
    MaxToken = 1
    MaxNow = 1
SYMMETRY IdSymmetry
INVARIANTS
    LeaseIndexAgrees
    RegistryBounded
