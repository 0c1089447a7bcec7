\* Four people, two of them filling and clearing cells of a card of 2 by 2: three
\* cells of the first card, so that one fill can complete two lines at once.
CONSTANTS
    None = None
    GRID = 2
    MAX_PLAYERS = 4
    Nicknames <- FourPeople
    Hands <- TwoCards
    Flaky <- TheFirst
    MaxBingos = 3
    MaxTime = 1
SPECIFICATION Spec
INVARIANTS
    BingoTypeOK
    CardsConsistent
    NoBingoMissed
    BingosAreAnnounced
PROPERTIES
    BingosArePermanent
    PlacesAreEarned
    BingoFollowsLifecycle
\* A room whose reveal is over stays as it is until the host resets it.
CHECK_DEADLOCK FALSE
