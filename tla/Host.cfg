\* Messages, ticks, resets and reveals of both games, two to a turn of the loop.
CONSTANTS
    None = None
    Steps <- TwoSteps
    Toggled <- OnlyYut
    MaxQueued = 2
    MaxEvents = 2
SPECIFICATION HostFairSpec
INVARIANTS
    HostTypeOK
    CrowdUpToDate
PROPERTIES
    RoomsFollowLifecycle
    RevealKeepsScreen
    EveryActionSettles
\* After the last event is reset nothing is left to do (bound MaxEvents).
CHECK_DEADLOCK FALSE
