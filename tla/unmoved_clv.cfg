\* One night's picks over a line that never moves, and their review.
SPECIFICATION Spec
CONSTANTS
    None = None
    Books = {"a", "b"}
    Quotes <- WithUnlined
    Contests <- AllContests
    Models <- AllModels
    Settlements <- AllSettlements
    MIN_PICKS_PER_TIER = 1
    MAX_PICKS_PER_TIER = 2
    MIN_CALIBRATION_SAMPLE = 3
    UNITS_PER_BANKROLL = 10
    MaxUpdates = 1
    MaxViews = 1
    MaxResults = 2
    MaxNights = 1
INVARIANT NoMoveNoCLV
CHECK_DEADLOCK FALSE
