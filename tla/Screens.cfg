\* One winner's card; both pages are opened in the middle of an event.
CONSTANTS
    None = None
    Winners = {1}
    Starts <- Evening
    MaxOps = 2
    MaxClicks = 1
    MaxLosses = 1
SPECIFICATION ScreensSpec
INVARIANTS
    ScreensTypeOK
    DrumrollOpensOnlyThird
    ScreensShowTheEvent
    SpotlightIsOfThisRound
    CalloutFirst
\* When every bound is used up the screens rest.
CHECK_DEADLOCK FALSE
