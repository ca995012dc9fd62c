\* Two passes settle one bet, the score being corrected in between.
SPECIFICATION Spec
CONSTANTS
    Users = {u1}
    Games = {g1}
    MaxPicks = 2
    MaxParlays = 0
    Requests = {r1}
    Graders = {scheduler, owner}
    StartingBalance = 2
    Sides = {"home"}
    Stakes = {1, 2}
    Decimals = {2}
    MaxLegs = 0
    MaxOffer = 3
    GameDate <- AllOnDayOne
    VoidAfterDays = 1
    StaleScheduledDays = 1
    MaxDay = 2
    Corrections = {g1}
    MaxAborts = 0
SYMMETRY Threads
PROPERTY SettledOnce
