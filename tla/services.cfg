\* A day with a restart, a sleep and a change of ESPN's list; a tick is 15
\* minutes.  MCServices has the bounds of the other modules.
SPECIFICATION AllSpec
CONSTANTS
    g1 = g1
    g2 = g2
    g3 = g3
    Games = {g1, g2, g3}
    Start <- Lunch
    Hour = 4
    Dawn = 31
    Dusk = 47
    LateProps = TRUE
    MaxChanges = 1
    MaxCrashes = 1
    None = None
INVARIANT TypesOK
INVARIANT WindowsKept
INVARIANT NoGameLeftOut
INVARIANT OneScout
INVARIANT GuessesBounded
INVARIANT UpMeansComplete
INVARIANT SettledOnOwnLine
PROPERTY EverythingEnds
\* The day ends, a database is up to date, the last game is graded.
CHECK_DEADLOCK FALSE
