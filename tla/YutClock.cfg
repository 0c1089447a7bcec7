\* The clock: pauses, extensions, endings taken back and the tick, around
\* up to three moves.
CONSTANTS
    None = None
    TheGame = TheGame
    Setups <- OneMode
    Sticks <- TwoSticks
    MiniGames <- NoGame
    DefaultLimit = 1
    TimeLimits <- Two
    Extensions <- One
    CheckInvariants = TRUE
    MaxEvents = 3
    MaxLimit = 3
    MaxTime = 3
SPECIFICATION FairSpec
INVARIANTS
    TimeupBetweenTurns
PROPERTIES
    OnlyExtensionsAddTime
    TimeupEndsTheGame
    FollowsLifecycle
\* A room whose reveal is over stays as it is until the host resets it.
CHECK_DEADLOCK FALSE
