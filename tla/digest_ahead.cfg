\* A day with a restart, a sleep and a change of ESPN's list; a tick is 15 minutes.
SPECIFICATION FairSpec
CONSTANTS
    g1 = g1
    g2 = g2
    g3 = g3
    Games = {g1, g2, g3}
    Start <- Lunch
    Hour = 4
    Dawn = 31
    Dusk = 47
    LateProps = TRUE
    MaxChanges = 1
    MaxCrashes = 1
PROPERTY NeverAhead
\* The day ends.
CHECK_DEADLOCK FALSE
