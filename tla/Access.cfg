\* Two attempts lock out; every period is a few units of the clock.
CONSTANTS
    None = None
    Consoles = {c1, c2}
    KeyOf <- OneAddress
    Phones = {p1, p2}
    MAX_ATTEMPTS = 2
    WINDOW_MS = 2
    LOCKOUT_MS = 3
    DEFAULT_TTL_MS = 3
    REACTIONS_PER_SEC = 1
    SECOND = 2
    REACT_GAP = 1
    MaxTime = 5
    MaxAsked = 5
SYMMETRY Symmetry
SPECIFICATION AccessSpec
INVARIANTS
    LockoutIsEarned
    ConsolesFollowSessions
    ReactionsBounded
\* When every bound is used up the consoles rest.
CHECK_DEADLOCK FALSE
