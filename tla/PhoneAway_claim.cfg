\* The claim of bingo/req.md:177 about the connected flag of a player.
CONSTANTS
    None = None
    Cells = {1}
    BURST = 2
    MaxConns = 2
    MaxIds = 2
    MaxActs = 2
    MaxTaps = 2
SPECIFICATION PhoneSpec
INVARIANT AwayMeansAway
CHECK_DEADLOCK FALSE
