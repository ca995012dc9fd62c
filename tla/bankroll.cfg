\* Two requests of one player race for the bankroll while the passes of one process
\* settle straight bets and a parlay, through a corrected score.
SPECIFICATION Spec
CONSTANTS
    Users = {u1}
    Games = {g1}
    MaxPicks = 2
    MaxParlays = 1
    Requests = {r1, r2}
    Graders = {scheduler}
    StartingBalance = 1
    Sides = {"home", "prop"}
    Stakes = {1}
    Decimals = {2}
    MaxLegs = 2
    MaxOffer = 1
    GameDate <- AllOnDayOne
    VoidAfterDays = 1
    StaleScheduledDays = 1
    MaxDay = 2
    Corrections = {g1}
    MaxAborts = 0
SYMMETRY Threads
INVARIANT TypeOK
INVARIANT NeverOverdrawn
INVARIANT RecordsAgree
PROPERTY ImplementsLedger
PROPERTY SettledOnce
PROPERTY NoLateCashOut
