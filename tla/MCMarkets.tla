------------------------------ MODULE MCMarkets ------------------------------
(***************************************************************************)
(* Small modules checked side by side: `part` says which one a behaviour   *)
(* is of.  GameLifecycle has its own variables here; v1 .. v12 are those   *)
(* of the others, in the order a module declares them.  Whatever is not    *)
(* the behaviour's own rests.                                              *)
(***************************************************************************)
EXTENDS GameLifecycle, SelectionCases, TLC

CONSTANTS game, x1, x2, x3    \* a game; threads, fetchers, fighters, bookmakers

VARIABLES part, v1, v2, v3, v4, v5, v6, v7, v8, v9, v10, v11, v12
others == <<v1, v2, v3, v4, v5, v6, v7, v8, v9, v10, v11, v12>>
all == <<part, vars, others>>

OnGames == part = "games" /\ UNCHANGED <<part, others>>

Two == {x1, x2}
OneBoard == [g \in Games |-> "board"]
Sym == Permutations(Two)

----------------------------------------------------------------------------
(* OddsFeed: two bookmakers, of which one begins to quote later; two starts, *)
(* of which the second is on the next day.                                   *)
Quote(h, a) == [home |-> h, away |-> a]
Odds == INSTANCE OddsFeed WITH
    now <- v1, sport <- v2, feed <- v3, moves <- v4, games <- v5, odds <- v6, series <- v7,
    fetch <- v8, fetches <- v9, stale <- v10, restarted <- v11, lost <- v12,
    Fetchers <- Two, BookOrder <- <<"b1", "b2">>, Quotes <- {Quote(1, 2), Quote(2, 1)},
    FirstQuotes <- "b1" :> Quote(1, 2), MaxGames <- 2, Commences <- {1, 4}, DayLength <- 4,
    MaxTime <- 1, MaxMoves <- 1, MaxFetches <- 4
ASSUME FeedLimits == Odds!OddsAssumption
OnOdds == part = "odds" /\ UNCHANGED <<part, vars, vars>>

(* ApiBudget: a month of two days' targets, the second of them the reserve. *)
Budget == INSTANCE ApiBudget WITH
    monthly <- v1, daily <- v2, paid <- v3, unchecked <- v4, unrecorded <- v5, deep <- v6,
    job <- v7, runs <- v8,
    Threads <- Two, MonthlyLimit <- 8, DailyTarget <- 4, Reserve <- 4, OddsCost <- 3,
    PropCost <- 4, ScoresCost <- 2, MaxSports <- 2, MaxEvents <- 1, MaxRuns <- 2
ASSUME BudgetLimits == Budget!BudgetAssumption
OnBudget == part = "budget" /\ UNCHANGED <<part, vars, v9, v10, v11, v12>>

(* PaperPrices: three bookmakers, two of them with a prop, prices fresh for  *)
(* one tick, lines of half points; the margins and totals around them.       *)
P(line, first, second) == [line |-> line, first |-> first, second |-> second]
Offers ==
    {[moneyline |-> P(0, -150, 130), spread |-> P(-7, -110, -110), over_under |-> P(80, -110, -110)],
     [moneyline |-> P(0, -105, -115), spread |-> P(-6, -120, 100), over_under |-> P(81, 100, -120)]}
PropOffers == {P(51, -115, -105), P(53, None, -110)}
Prices == INSTANCE PaperPrices WITH
    rows <- v1, props <- v2, clock <- v3, status <- v4, timed <- v5, ticket <- v6, updates <- v7,
    untouched <- v8, Books <- {x1, x2, x3}, MaxAge <- 0, Kickoff <- 1, MaxTime <- 1, MaxUpdates <- 3, MaxLegs <- 2,
    Stake <- 1000, Margins <- {-8, -6, 0, 6, 8}, Totals <- {78, 80, 82}
OnPrices == part = "prices" /\ UNCHANGED <<part, vars, v9, v10, v11, v12>>

(* CombatBouts: one bout, listed as up to two rows. *)
Bouts == INSTANCE CombatBouts WITH
    today <- v1, truth <- v2, card <- v3, bouts <- v4, made <- v5, scout <- v6, rated <- v7,
    history <- v8, raced <- v9,
    a <- x1, b <- x2, FightDay <- 2, LastDay <- 4, MAX_DAYS_FROM <- 1, ADJACENT_DAYS <- 2,
    LOOKBACK_DAYS <- 2, MaxRows <- 2
ASSUME BoutsLimits == Bouts!BoutsAssumption
OnBouts == part = "bouts" /\ UNCHANGED <<part, vars, v10, v11, v12>>

(* Accounts: two names that differ in their case only, a stake of the whole  *)
(* balance.                                                                  *)
Users == INSTANCE Accounts WITH
    users <- v1, picks <- v2, parlays <- v3, requests <- v4, today <- v5, missed <- v6,
    Threads <- Two, Names <- {"Al", "AL"}, Folded <- [n \in {"Al", "AL"} |-> "al"], Stakes <- {1},
    Starting <- 1, MaxUsers <- 2, MaxPicks <- 2, MaxParlays <- 1, MaxDay <- 2
ASSUME AccountLimits == Users!AccountsAssumption
OnUsers == part = "accounts" /\ UNCHANGED <<part, vars, v7, v8, v9, v10, v11, v12>>

(* Selection: two bookmakers; SelectionCases has the rest. *)
Picks == INSTANCE Selection WITH
    contest <- v1, rows <- v2, model <- v3, thresholds <- v4, results <- v5, stored <- v6,
    started <- v7, count <- v8, same <- v9,
    Books <- Two, Quotes <- AllQuotes, Contests <- AllContests, Models <- AllModels,
    Settlements <- AllSettlements, MIN_PICKS_PER_TIER <- 1, MAX_PICKS_PER_TIER <- 2,
    MIN_CALIBRATION_SAMPLE <- 3, UNITS_PER_BANKROLL <- 10, MaxUpdates <- 1, MaxViews <- 1,
    MaxResults <- 2, MaxNights <- 1
OnPicks == part = "selection" /\ UNCHANGED <<part, vars, v10, v11, v12>>

----------------------------------------------------------------------------
LateRest == v10 = None /\ v11 = None /\ v12 = None
AllInit ==
    /\ Init
    /\ \/ /\ part = "games" /\ v1 = None /\ v2 = None /\ v3 = None /\ v4 = None /\ v5 = None /\ v6 = None
          /\ v7 = None /\ v8 = None /\ v9 = None /\ LateRest
       \/ part = "odds" /\ Odds!Init
       \/ part = "budget" /\ Budget!Init /\ v9 = None /\ LateRest
       \/ part = "prices" /\ Prices!Init /\ v9 = None /\ LateRest
       \/ part = "bouts" /\ Bouts!Init /\ LateRest
       \/ part = "accounts" /\ Users!Init /\ v7 = None /\ v8 = None /\ v9 = None /\ LateRest
       \/ part = "selection" /\ Picks!Init /\ LateRest

AllNext ==
    \/ OnGames /\ \E g \in Games : Play(g)
    \/ OnGames /\ \E g \in Games : Turn(g)
    \/ OnGames /\ \E p \in Passes : FetchAny(p)
    \/ OnGames /\ \E p \in Passes, g \in Games : Store(p, g)
    \/ OnGames /\ \E p \in Passes : Reconcile(p)
    \/ OnGames /\ \E p \in Passes : Commit(p)
    \/ OnGames /\ \E p \in Passes : Abort(p)
    \/ OnGames /\ \E q \in Pollers : StartPoll(q)
    \/ OnGames /\ \E q \in Pollers, g \in Games : PollFetch(q, BoardOf[g])
    \/ OnGames /\ \E q \in Pollers : PollWrite(q)
    \/ OnGames /\ \E q \in Pollers : PollCommit(q)
    \/ OnGames /\ \E q \in Pollers : PollAbort(q)
    \/ OnOdds /\ Odds!FeedMoves
    \/ OnOdds /\ \E f \in Two : Odds!Fetch(f)
    \/ OnOdds /\ \E f \in Two : Odds!Ensure(f)
    \/ OnOdds /\ \E f \in Two : Odds!Create(f)
    \/ OnOdds /\ \E f \in Two : Odds!Find(f)
    \/ OnOdds /\ \E f \in Two : Odds!Store(f)
    \/ OnOdds /\ \E f \in Two : Odds!StoreEdited(f)
    \/ OnOdds /\ \E g \in {1, 2} : Odds!Progress(g)
    \/ OnOdds /\ Odds!Tick
    \/ OnBudget /\ \E t \in Two : Budget!refresh_prices(t)
    \/ OnBudget /\ \E t \in Two : Budget!trigger_pipeline(t)
    \/ OnBudget /\ \E t \in Two : Budget!fetch_odds_now(t)
    \/ OnBudget /\ \E t \in Two : Budget!finalize_combat(t)
    \/ OnBudget /\ \E t \in Two : Budget!Check(t)
    \/ OnBudget /\ \E t \in Two : Budget!Call(t)
    \/ OnBudget /\ \E t \in Two : Budget!Record(t)
    \/ OnBudget /\ Budget!NewDay
    \/ OnPrices /\ \E b \in {x1, x2, x3} : Prices!FeedBook(b)
    \/ OnPrices /\ \E b \in Two : Prices!FeedProp(b)
    \/ OnPrices /\ Prices!Place
    \/ OnPrices /\ Prices!CashOut
    \/ OnPrices /\ Prices!GameStarts
    \/ OnPrices /\ Prices!Tick
    \/ OnBouts /\ Bouts!Announce
    \/ OnBouts /\ Bouts!NextDay
    \/ OnBouts /\ Bouts!finalize_stuck_bouts
    \/ OnBouts /\ Bouts!finalize_from_scores
    \/ OnBouts /\ Bouts!ListUnrated
    \/ OnBouts /\ Bouts!grade_completed_games
    \/ OnBouts /\ Bouts!dedupe_combat_games
    \/ OnBouts /\ Bouts!merge_date_splits
    \/ OnBouts /\ Bouts!void_stuck_bouts
    \/ OnBouts /\ Bouts!void_reschedules
    \/ OnBouts /\ Bouts!ingest_recent_ufc_event
    \/ OnBouts /\ \E unfinished \in BOOLEAN : Bouts!import_bouts(unfinished)
    \/ OnUsers /\ \E t \in Two : Users!CheckName(t)
    \/ OnUsers /\ \E t \in Two : Users!create_user(t)
    \/ OnUsers /\ \E t \in Two : Users!LoadUser(t)
    \/ OnUsers /\ \E t \in Two : Users!place_pick(t)
    \/ OnUsers /\ \E t \in Two : Users!place_parlay(t)
    \/ OnUsers /\ \E t \in Two : Users!delete_user(t)
    \/ OnUsers /\ Users!grade_paper_picks
    \/ OnUsers /\ Users!settle_parlays_list
    \/ OnUsers /\ Users!RefreshStreaks
    \/ OnUsers /\ Users!cash_out
    \/ OnUsers /\ Users!NextDay
    \/ OnPicks /\ Picks!generate_and_store_picks
    \/ OnPicks /\ Picks!Review
    \/ OnPicks /\ Picks!Settle
    \/ OnPicks /\ Picks!Recalibrate
    \/ OnPicks /\ Picks!Email
    \/ OnPicks /\ Picks!Grade
    \/ OnPicks /\ \E b \in Two : Picks!FeedBook(b)

AllSpec == AllInit /\ [][AllNext]_all

----------------------------------------------------------------------------
(* Every variable has a value of its type: the tables, what a fetch, a run, a  *)
(* request or a pass holds in memory, and no player's balance is overdrawn.    *)
TypesOK ==
    CASE part = "games" -> TypeOK
      [] part = "odds" -> Odds!TypeOK
      [] part = "budget" -> Budget!TypeOK
      [] part = "prices" -> Prices!TypeOK
      [] part = "bouts" -> Bouts!TypeOK
      [] part = "accounts" -> Users!TypeOK
      [] part = "selection" -> Picks!TypeOK

(* One retry of _store_odds is enough: a fetch that loses the race for a new   *)
(* row finds it the second time, so no fetched sport is dropped.               *)
NoFetchLost == part = "odds" => Odds!NoFetchLost

(* The price history: a series records changes only, and no in-play price      *)
(* replaces a quote or the closing line, whatever fetches of the two processes *)
(* overlap.  A book's current quote is the last of its series; after a store   *)
(* over a row that another fetch has changed meanwhile it mixes quotes of the  *)
(* series, and only until the book is stored again.                            *)
QuotesFollow ==
    part = "odds" => Odds!HistoryFollows /\ Odds!SeriesOfChanges /\ Odds!TakeableQuote

(* Runs that check the budget before any of them has recorded its call overrun *)
(* the month by one call each at most, and so the reserve.                     *)
BudgetKept == part = "budget" => Budget!SpendBounded /\ Budget!ReserveKept

(* The betting board gives nothing away: no two sides of a moneyline, a spread *)
(* or a total on offer together pay on one score, and a ticket, props in it or *)
(* not, sold back where nothing moved loses the margin.                        *)
NoFreeMoney == part = "prices" => Prices!NoMiddle /\ Prices!CashOutCosts

(* Whoever wrote a bout's result names the fighter who won, and the ratings    *)
(* are made of each rated bout once, through merges, voids and imports.        *)
BoutsHold == part = "bouts" => Bouts!RightWinner /\ Bouts!RatingsAddUp

(* The bankroll's, the scorecard's, the tickets' and the streaks' figures of a *)
(* player agree, and no bet outlives its player.                               *)
BooksAgree == part = "accounts" => Users!NoOrphans /\ Users!BooksAgree

(* A moneyline pick of two stars or more shows a signal for its own side.      *)
StarsHaveReasons == part = "selection" => Picks!StarsHaveReasons

(* With nothing changed but losses, and the calibration not yet measured, the  *)
(* next run stakes no more than the last.                                      *)
LossesNeverRaise == [][part = "selection" => Picks!LossRaisesNothing]_all
=============================================================================
