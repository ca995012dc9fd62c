\* Three runs, of which two may overlap, beside the digest and grading.  A prop
\* market may be answered, withdrawn or left alone; a game market only the first
\* two.  MCPicks has the bounds of the other modules.
SPECIFICATION AllSpec
CONSTANTS
    Games = {g1}
    NoStart = {}
    Markets = {prop}
    Props = {prop}
    GameOf <- OneGame
    Answers <- TwoSides
    MaxPicks = 2
    Runs = {r1, r2}
    MaxRuns = 3
    Graders = {scheduler}
    Digests = {d1}
    None = None
    NotStored = NotStored
    NotPlayed = NotPlayed
INVARIANT TypesOK
INVARIANT RowsAgree
INVARIANT EmailedStands
INVARIANT PropHistoryFollows
INVARIANT StatsHold
INVARIANT OwnResult
INVARIANT PublishedIsOffered
INVARIANT StrategiesHold
PROPERTY GradedForGood
PROPERTY NothingLost
PROPERTY StandingPicksGraded
\* The last game is graded and no run is left.
CHECK_DEADLOCK FALSE
