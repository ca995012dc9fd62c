\* One game under one results pass and one poll; MCMarkets has the bounds of
\* the six other modules.
SPECIFICATION AllSpec
CONSTANTS
    Games = {game}
    BoardOf <- OneBoard
    Passes = {"scout"}
    Pollers = {"live"}
    MaxScore = 1
    Turns = {"postpone", "correct"}
    MaxTurns = 1
    Crowded = TRUE
    Partial = TRUE
    Modes = {TRUE, FALSE}
    MaxAborts = 1
    game = game
    None = None
    x1 = x1
    x2 = x2
    x3 = x3
INVARIANT TypesOK
INVARIANT NoFetchLost
INVARIANT QuotesFollow
INVARIANT BudgetKept
INVARIANT NoFreeMoney
INVARIANT BoutsHold
INVARIANT BooksAgree
INVARIANT StarsHaveReasons
INVARIANT ScoreAsReported
PROPERTY FinalStays
PROPERTY LossesNeverRaise
SYMMETRY Sym
\* A month, a card, a day of betting ends.
CHECK_DEADLOCK FALSE
