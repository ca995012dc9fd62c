\* The scheduler and the owner settle the same parlay and straight bets.
SPECIFICATION Spec
CONSTANTS
    Users = {u1}
    Games = {g1}
    MaxPicks = 2
    MaxParlays = 1
    Requests = {r1}
    Graders = {scheduler, owner}
    StartingBalance = 1
    Sides = {"home", "prop"}
    Stakes = {1}
    Decimals = {2}
    MaxLegs = 2
    MaxOffer = 1
    GameDate <- AllOnDayOne
    VoidAfterDays = 1
    StaleScheduledDays = 1
    MaxDay = 2
    Corrections = {}
    MaxAborts = 1
SYMMETRY Threads
INVARIANT AnnouncedOnce
PROPERTY StakeCovered
PROPERTY CashOutFinal
