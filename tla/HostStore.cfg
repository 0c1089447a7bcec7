\* Two events, both games, writes debounced, at once and failing, crashes at any point.
CONSTANTS
    None = None
    Steps <- TwoSteps
    Toggled <- NoGames
    MaxQueued = 0
    MaxEvents = 2
    MaxFailures = 1
SPECIFICATION StoreSpec
INVARIANTS
    ClosedStaysClosed
PROPERTIES
    CrashKeepsSetup
