\* The log through moves, undos, pauses, endings, resets and crashes.
CONSTANTS
    None = None
    TheGame = TheGame
    Setups <- PlainOrDuels
    Sticks <- TwoSticks
    MiniGames <- OneGame
    DefaultLimit = 1
    TimeLimits <- One
    Extensions <- NoTime
    CheckInvariants = FALSE
    MaxLimit = 1
    MaxEvents = 3
    MaxTime = 1
SPECIFICATION StoreSpec
PROPERTIES
    LogStaysExact
    CrashResumesPlay
