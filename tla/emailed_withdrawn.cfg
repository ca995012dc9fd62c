\* A run reads what was emailed before the digest records it.
SPECIFICATION Spec
CONSTANTS
    Games = {g1}
    NoStart = {}
    Markets = {prop}
    Props = {prop}
    GameOf <- OneGame
    Answers <- TwoSides
    MaxPicks = 1
    Runs = {r1}
    MaxRuns = 2
    Graders = {scheduler}
    Digests = {d1}
INVARIANT EmailedNeverWithdrawn
\* The last game is graded and no run is left.
CHECK_DEADLOCK FALSE
