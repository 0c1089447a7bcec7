\* The claim of types.ts:111 about the outcome of a mini-game.
CONSTANTS
    None = None
    TheGame = TheGame
    Setups <- AllModes
    Sticks <- ThreeSticks
    MiniGames <- OneGame
    DefaultLimit = 1
    TimeLimits <- One
    CheckInvariants = FALSE
    MaxLimit = 1
    MaxTime = 0
    Extensions <- NoTime
    MaxEvents = 2
SPECIFICATION StoreSpec
PROPERTY JudgmentSurvivesCrash
