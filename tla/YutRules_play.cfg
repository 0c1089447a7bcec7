\* Play without the clock: every rule, all four modes, four moves.
CONSTANTS
    None = None
    TheGame = TheGame
    Setups <- AllModes
    Sticks <- ThreeSticks
    MiniGames <- OneGame
    DefaultLimit = 1
    TimeLimits <- One
    Extensions <- NoGame
    CheckInvariants = FALSE
    MaxEvents = 4
    MaxLimit = 1
    MaxTime = 0
SPECIFICATION Spec
INVARIANTS
    TypeOK
    EveryThrowHasAMove
    PendingMatchesBoard
    NoSharedStation
    ScoresMatchHistory
    ThrowsAccounted
    ReplayFidelity
\* A room whose reveal is over stays as it is until the host resets it.
CHECK_DEADLOCK FALSE
