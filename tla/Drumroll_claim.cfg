\* Bingo has ended and is about to be revealed.
CONSTANTS
    None = None
    Winners = {}
    Starts <- Ending
    MaxOps = 2
    MaxClicks = 0
    MaxLosses = 0
SPECIFICATION FairScreens
PROPERTIES DrumrollAdvances
CHECK_DEADLOCK FALSE
