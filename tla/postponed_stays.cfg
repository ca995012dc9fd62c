\* ESPN lists a game as postponed.
SPECIFICATION FairSpec
CONSTANTS
    Games = {g1}
    BoardOf <- OwnBoard
    Passes = {scout}
    Pollers = {live}
    MaxScore = 0
    Turns = {"postpone"}
    MaxTurns = 1
    Crowded = FALSE
    Partial = FALSE
    Modes = {TRUE}
    MaxAborts = 1
PROPERTY PostponedDropsOut
