\* A pane is closed while its channels are full and another session stays.
SPECIFICATION Spec
CONSTANTS
    LastPane = 1
    KernelCap = 1
    ChannelCap = 1
    ForwardCap = 1
    PollMax = 2
    Output <- QuietAndBusy
    Refused = {0}
    Lingering = FALSE
    Overruns = FALSE
    ReadFails = FALSE
PROPERTIES
    ForwarderLeaves
CHECK_DEADLOCK FALSE
