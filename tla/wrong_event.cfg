\* A row's search ends at another game whose name holds its abbreviations.
SPECIFICATION Spec
CONSTANTS
    Events <- Scoreboard
    Inside <- Letters
    Rows <- LateRows
    Props <- OnePick
    Legacy = {}
    MarketStats <- Summed
    Label <- Labels
    KEY_FIELD <- Keys
    LABEL_FIELD <- NoColumns
    ADDITIVE = {}
    FOOTBALL_FIELDS = {"points"}
    Hollow <- NoColumns
    None = None
INVARIANT NoBestGuess
\* Once every prop is settled nothing is left to do.
CHECK_DEADLOCK FALSE
