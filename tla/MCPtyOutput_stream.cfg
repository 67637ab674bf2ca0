\* One pane at the ratios of the code: a poll may take what both channels hold,
\* and may run out of time after any chunk.  Channels hold more than the three
\* polls of a turn need take.  The child may leave a background job on its
\* terminal, and a read may fail.
SPECIFICATION Spec
CONSTANTS
    LastPane = 0
    KernelCap = 1
    ChannelCap = 4
    ForwardCap = 4
    PollMax = 8
    Output <- Burst
    Refused = {}
    Lingering = TRUE
    Overruns = TRUE
    ReadFails = TRUE
INVARIANTS
    OutputIntact
    EofIsLast
PROPERTIES
    OutputDelivered
    ExitObserved
\* A quiet pane waits for ever, and the loop may exit.
CHECK_DEADLOCK FALSE
