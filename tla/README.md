# Metric Edge in TLA+

A verification project for the sports-picks application in `src/`: a FastAPI
backend, a standalone scheduler process and a React frontend, sharing one
SQLite database (WAL mode). TLC checks small instances; TLAPS proves theorems
for every value of the constants. Source paths below are relative to
`src/backend/` unless they say otherwise.

## 1. The system

Two processes share the database file. The **API process** (`api/main.py`)
serves requests in a thread pool: each request has a session of its own, so two
requests of one player run at once. The **scheduler process**
(`pipeline/scheduler.py`) runs the timed jobs: the morning scout, price
refreshes, per-window pick runs, live scores, the digest. The API can also run
a scheduler inside itself and offers the owner routes that run the same
pipeline functions, and the owner runs scripts by hand, so *any pipeline
function may run in two processes at once*. Nothing but SQLite's write lock, a
few unique indexes and one in-process lock (`_scout_lock`) separates them.

| Component | State | Operations | What is hard | What makes it correct |
|---|---|---|---|---|
| Paper bets (`api/users.py`, `paper/`, `pipeline/paper_settlement.py`) | `paper_picks`, `parlays`, `activity_feed` | place a bet or parlay, cash out, grade, push, settle, announce | concurrent requests, two grading processes, corrected scores, a pass that dies | never overdrawn, settled once, cash out final, announced once and truthfully, every bet ends |
| Bet pricing (`paper/pricing.py`, `paper/board.py`, `paper/cashout.py`) | reads `odds`, `props` | quote, combine legs, cash-out offer, grade | stale and moved prices, lines of several books, rounding | no middle in a game's markets, no gain in selling back |
| Accounts (`api/users.py`, `analysis/scorecard.py`) | `user_profiles` | create, delete, streaks, figures of the pages | deleting beside a bet, five queries over one history | no orphaned bet, the figures agree |
| PINs (`api/pins.py`) | failure counts and locks, in memory | check, reserve, release, reset | threads around a slow hash | bounded guesses, a lock ends |
| API credits (`collectors/budget.py`) | `api_usage` | check, call, record | jobs of two processes spending one budget | overrun bounded, reserve kept |
| Games table (`pipeline/full_pipeline.py`, `pipeline/live_scores.py`) | `games` | results fetch, reconciliation, live polling | pass and poll in different threads, stale rows in memory | a final game stays final, ESPN's score wins, one row per event |
| Odds and snapshots (`pipeline/full_pipeline.py`, `analysis/line_snapshots.py`, `analysis/prop_snapshots.py`) | `odds`, `line_snapshots`, `player_props`, `prop_snapshots` | find or create the game, upsert per book, append on change, note a pull | overlapping fetches, the retry on IntegrityError, a moved start | no fetch lost, history follows the quote, the close is before the start |
| Picks (`pipeline/pick_generator.py`, `pipeline/pick_versions.py`, `pipeline/prop_pipeline.py`) | `picks`, `pick_versions`, `pick_results` | insert, refresh, withdraw, reinstate, version, grade | runs of several processes, the digest in between | rows agree with their versions, emailed and graded picks stand |
| Selection (`analysis/strategy.py`, `confidence.py`, `kelly.py`, `recalibrator.py`, `variants/`) | tier thresholds | edge, stars, stake, close | missing prices and lines, thresholds that move, losses | stars have reasons, losses raise no stake, an unmoved line is worth nothing |
| Strategies (`api/backtest.py`, `backtesting/`) | `strategies` | create, edit, promote, tune, backtest | two requests at once, hindsight | one active of each kind, nothing tuned on what it is tested on |
| Digest (`digest/`) | `emailed_picks`, the mail sent | select, send, record | a run between select, send and record | what was emailed is recorded and stands |
| Scheduler (`pipeline/scheduler.py`) | jobs, `_scout_lock`, `_last_scout_success` | scout and retries, digest, windows, restore | restarts, misfires, overlapping runs | no window forgotten, one scout, the digest goes out |
| Team statistics and Elo (`pipeline/team_stats.py`, `analysis/elo.py`) | `team_stats`, `elo_history`, `elo_ratings` | refresh, backfill, replay | results arriving out of order and corrected | no lookahead, priced as trained |
| Player lines (`collectors/espn_box_score.py`, `pipeline/grader.py`) | `player_stats` | resolve, parse, store, settle props, repair | moved dates, twins, stops | a prop settles on its player's own line, and settles |
| Combat (`collectors/ufc.py`, `analysis/combat_elo.py`, scripts) | bouts as `games`, combat ratings | announce, finalize, rate, merge, void, import | corners either way round, three sources, doubled rows | the right winner, each bout rated once |
| Database (`database.py`) | schema | `run_migrations` at every start | a stop half way, two processes starting together | who serves has the whole schema; every start ends |
| Repair scripts (`scripts/`) | `games`, `odds`, `picks` | merge, restore, backfill, dedupe | matching by a date one day off, in any order | no game gets another's result, nothing is lost |
| WebSocket, read routes, collectors, reports, frontend | none that persists | broadcast, queries, HTTP reads, rendering | – | – |

`PROJECT.json` lists every part with its sources and status, and the hazards
with the line where each bites and the properties aimed at it.

## 2. How the system is modelled

**Memory and the database.** A SELECT in SQLite's WAL mode sees what is
committed and holds nothing (pysqlite opens a transaction at the first write,
not at the first read). What a session read stays in its memory; the first
flush takes the database's one write lock until commit or rollback; an UPDATE
names only the columns that differ from what the session had loaded. So in each
module a *read*, a *first write* and a *commit* are actions of their own
wherever they are separate statements of the code, and everything one
transaction writes while it holds the lock is one action when no read of
another process can fall between.

**Data.** Prices, scores, markets and people are small sets; ESPN's answer and a
quote are nondeterministic inputs. Texts and logging are left out.

**Failures.** `Abort`, `PollAbort`, `Crash`, `Stop`, `Fail` and `ScoutFails` stand for
an exception, a lock timeout (SQLite's five seconds) or a stopped process: what was
not committed is gone, what was in memory too.

| Module | Models |
|---|---|
| `PaperBets` | requests, grading passes, games and days around paper bets |
| `Amounts`, `BetLedger`, `PaperBetsLedger` | sums of a column as cardinalities; what betting promises about the bankroll; the refinement mapping |
| `PaperBetsInv`, `PaperBetsProofs` | inductive invariants, lemmas, theorems |
| `PaperPrices` | quotes, tickets, cash-out offers and grades of one game |
| `Accounts` | players, streaks and the figures of the pages |
| `PinGuard`, `PinGuardProofs` | PIN attempts; their bound, and theorems about `Accounts` and `PropPicks` |
| `ApiBudget`, `ApiBudgetProofs` | credits of the Odds API; the bounds of the overrun, and theorems about `Migrations` |
| `GameLifecycle`, `GameLifecycleProofs` | the games table under passes and the live poll; final rows and scores, and theorems about `CombatBouts` and `Repairs` |
| `OddsFeed`, `PropFeed`, `FeedProofs` | storing odds and props, and their histories; theorems about both |
| `PickLifecycle`, `PickLifecycleProofs` | runs, withdrawals, grading of a slate, around the digest; theorems about them and about `Selection` |
| `PropPicks` | one player's prop from fetch to stored pick |
| `Selection`, `SelectionCases` | a game's picks: sides, stars, stakes, close; the cases checked |
| `Strategies`, `HindsightProofs` | saved strategies, promotion, tuning, backtests; one active of each kind, no hindsight, and theorems about `TeamStats` and `PropLines` |
| `ScoutDay`, `ScoutDayProofs` | one Eastern day of the scheduler; its windows and its one scout |
| `TeamStats` | team statistics and Elo of a team sport |
| `PropLines` | box scores, player lines, settling props |
| `CombatBouts` | one bout, its rows, results, ratings and scripts |
| `Schema`, `Migrations` | the schema's items; migrations by two processes |
| `Repairs` | the repair scripts over twin games |
| `MCPaperBets`, `MCPickLifecycle`, `MCGameLifecycle`, `MCScoutDay`, `MCRepairs`, `MCSelection`, `MCPropLines` | constant values a `.cfg` cannot write |
| `MCMarkets`, `MCPicks`, `MCServices` | several of the modules, side by side |

**Modules side by side.** `MCMarkets`, `MCPicks` and `MCServices` instantiate several
small modules over shared variables `v1`, `v2`, …; the variable `part`, fixed by the
initial state, says whose behaviour it is, and everything else rests. One run then
answers one question per module. It is a sum and not a product: it adds nothing to what a
module alone would show. The module whose properties are both run and proved is extended
rather than instantiated, so that theorem and run name one definition: `MCMarkets` extends
`GameLifecycle`, `MCServices` `ScoutDay`, `MCPicks` `PickLifecycle`. `MCServices` instantiates
`GameLifecycle` and `PaperBets` once more, for
their liveness. A property of such a run speaks of one part
(`part = "pins" => …`), and `TypesOK` and `EverythingEnds` of each in turn.
The bounds stand beside the `INSTANCE`.

**How they meet.** The modules meet at the tables they share. `GameLifecycle`
says how `games.status` and the score move; `PaperBets`, `PickLifecycle`,
`PropLines` and `TeamStats` take a game's kickoff, final score and correction as
actions of their environment, `PaperBets` a price that `PaperPrices` computes,
`PickLifecycle` an answer that `Selection` or `PropPicks` computes from rows that
`OddsFeed` and `PropFeed` store. `ScoutDay` says when runs, passes and the digest
happen; `PickLifecycle` lets them happen at any time and so covers every schedule.
`PickLifecycle` itself composes four actors: runs, digest, graders and games.

### 2.1 PaperBets

`pick`, `parlay`, `feed` are the tables `paper_picks`, `parlays` and `activity_feed`
(settlement events); a bet's `back` is stake + payout. `rq` is what a request thread
has read, `gpc`, `verdict`, `props`, `unread`, `pverdict`, `todo`, `cur` what a grading
pass has in memory.

| Action | Code |
|---|---|
| `ReadLegs`, `HoldBankroll`, `ReadAvailable`, `PlacePick`, `PlaceParlay`, `Refuse` | `place_pick`, `place_parlay` (`api/users.py`): games read, the player's row locked by a no-op UPDATE, the balance read, the bet inserted |
| `LoadBet`, `CashOut` | the cash-out routes (`paper/cashout.py`) |
| `ReadPending`, `GradeProp`, `PushUngradeable`, `CommitGrades` | `grade_paper_picks` with a query per prop, and the void rule (`pipeline/paper_settlement.py`) |
| `ReadParlays`, `ReadLegsOf`, `CommitParlays` | `settle_parlays_list`: the unsettled parlays, the legs of one after the other, the commit |
| `CheckAnnounced`, `InsertEvent`, `EndPass`, `Abort` | `settle_and_announce` and `paper/feed.py` |
| `KickOff`, `Begin`, `Finish`, `CorrectScore`, `Cancel`, `Restore`, `BoxScore`, `NextDay` | what the results feed does to a game; the clock |

Assumptions: no request or pass is cut by midnight (`NextDay` waits for `AtRest`),
a game's date is constant, the results feed finishes only started games. Only settlement events are in the feed:
the others have no uniqueness rule.

### 2.2 PickLifecycle

`pick` and `vers` (committed), `tx` (the open transaction), `results`, `emailed`,
`inbox` (what the reader was sent), and `run`, `due`, `digest` for what each thread
holds. `generate_and_store_picks` is `Load` (reads stored picks, emailed and graded
ids once), `Price` or `Skip` per game – insert, refresh, withdraw or reinstate – and
`Commit` or `Abort`. `grade_pending_picks` is `ReadDue` and `CommitResults`. The digest is
`Select`, `Send`, `Record`. `overlap` is a history: some properties hold only as
long as no run has overlapped another run or the digest, and each says so.

Assumptions: one slate, one strategy per market; `created_at` abstracted; the first
stored row wins for props and the last for game markets, as in the code's dictionaries.

### 2.3 GameLifecycle

`row` and `extra` (a second row of an event), ESPN's `feed`, the open `tx`, and for
each pass and poll what it loaded and changed. `fetch_and_store_games` is `Fetch`,
`Store` per event (look up, flush what is dirty, set attributes), `Reconcile`, `Commit`
or `Abort`; `update_live_scores` is `StartPoll`, `PollFetch` per scoreboard,
`PollWrite`, `PollCommit`. `Crowded`: ESPN lists other events of the date too, so
that reconciliation runs when this one is missing; `Partial`: ESPN may leave an event out.

Assumptions: an event keeps its date and its `espn_id` (moved dates and rows without
an id are in `OddsFeed` and `Repairs`); one sport per pass.

### 2.4 ScoutDay

`now` in ticks, ESPN's list `listed`, the stored games `store`, the cron jobs still to
fire, the window `jobs`, `success` (`_last_scout_success` is today), the `scout` that
holds `_scout_lock`, and the `digest`.

| Action | Code |
|---|---|
| `Fire` | APScheduler hands the due cron jobs to its pool: `morning_scout` (acquire or skip), `_digest_after_scout` up to the lock |
| `FetchGames`, `PriceSlate`, `PlanWindows`, `RunOverdue`, `ScoutEnds`, `ScoutFails` | `_scout`, `_schedule_windows`, and the `finally` of `morning_scout` |
| `FireJob` | a window job (`_run_window`) or a late prop run |
| `DigestScout`, `WaitTimesOut`, `SendDigest` | `morning_scout(wait=True)` and `send_daily_digest` |
| `Crash`, `Boot`, `Sleep`, `Tick`, `ListChanges` | the process, `start_scheduler`, `restore_today_windows`; the machine, the clock and ESPN |

Assumptions: one sport; the off-season path is left out; jobs fire on time while the
machine is awake, a late wake of the scheduler's thread being a longer sleep.

### 2.5 OddsFeed and PropFeed

`Fetch` is the awaited call, `Ensure`/`Create` and `Find` `ensure_game` and the lookup
of a game by `odds_api_id`, then by pair and date; `Store` the transaction that upserts
`odds` and appends `line_snapshots`, with its second attempt after an
IntegrityError; `StoreEdited` the start time that moved. `Progress` is what ESPN does to
the row. In a combat sport the feed is the only schedule. `stale` and `restarted`
are the exceptions the properties name: a row last written over one whose quote had changed since it was
read – the next store of the book ends that – and a start that moved. `PropFeed` is the same for one game's props: `Read` takes the
latest snapshots, `Store` keeps one rung of a ladder, appends the change – a pull is a
row without a price – and upserts `player_props`. A fetch without a market pulls nothing.

### 2.6 ApiBudget, PinGuard, Migrations

`ApiBudget`: a run is a chain of calls (`odds`, then `events` and `player_props` per sport;
`scores` unchecked), each `Check`, `Call`, `Record`, where a call may fail and a
record may be lost. `unchecked`, `unrecorded` and `deep` count what the bound must allow for.
`PinGuard`: `Request` reads the hash, `Reserve` is the guard's critical section
(refused while locked, counted before comparing), `Compare` releases a right one.
`Migrations`: `MIGRATIONS` (module `Schema`) lists each migration's items and how it `looks`: for each
of them, for the first only, whether doubled rows forbid its index, or for the legacy table. `Inspect`
plans what is missing, `Execute` runs the least of it, one statement, which SQLite's driver commits by
itself; `Fail` is losing the race for an item, `Crash` a stop between two. `cut` holds what a stop
left out for good: the second statement of a migration whose first one is its test.

### 2.7 PaperPrices, Accounts

`PaperPrices` computes the board's quotes (of a game market one per side, at the line most books
quote, the worse one on a tie; of a prop one per line a book has), a ticket's price, the offer
(a won ticket's return times the legs' chances, less the margin; none when a leg is refused) and the grade; `Place`,
`CashOut` and `GameStarts` drive it. `FeedBook` writes a book's row of the game whole; `FeedProp` upserts a
prop by side and deletes nothing, so a side the book no longer quotes keeps its row, its line and its time. `Accounts` has each request as a load and a
transaction (`CheckName`/`create_user`, `LoadUser`/`place_pick`, `place_parlay`,
`delete_user`), the passes as `grade_paper_picks`, `settle_parlays_list` and
`RefreshStreaks`, and the pages' figures (`balance_of`, `open_stakes`, `tickets`,
`summarize`, `group`, `trend`, `Periods`) as operators over the rows.

### 2.8 Selection, PropPicks, Strategies

`Selection`: `generate_and_store_picks` for one game: per market, edges against the
consensus, the better side, filters and flips by strategy and sport (`ensemble`,
`sport_specific`, `recent_form`, `value_only`, combat), `calculate_confidence`, the tier by the current
thresholds, the stake (`kelly`, drawdown, measured calibration). `Review` changes the model's
view, `Settle` adds results, `Recalibrate` is the nightly job, `Grade` computes the closing line
value. `PropPicks`: `Read` (rows, then awaits roster and weather), `Store`; `basis` and `fetches` remember
what the published pick was computed from and what every fetch was offered. `Strategies`:
`Load` and then the write of each route; `auto_tune` and `backtest` also leave their
report in `answer`, which `NoHindsight` compares with the reports of other histories.

### 2.9 TeamStats, PropLines, CombatBouts, Repairs

`TeamStats` keeps a statistic as *the results it was computed from*, so that "no
lookahead" is a statement about sets; `_refresh_team_stats` recomputes the games of the
dates around a pass, `backfill_team_stats` everything or what is missing,
`compute_historical_elo` replays. `PropLines`: `collect_box_scores_for_final_games` resolves a final
row to an event, parses its blocks and queues one line per
player. The event is the stored id's, or else the first one listed, on the row's date, the day before or the day after, whose
short name has both abbreviations in it (`On`). That is a test of substrings: `Inside` gives for each
abbreviation those whose letters occur in it. `store_stats` commits one, in any order; `grade` settles a prop; the scripts repair. `SettledOnOwnLine` speaks of `Clear` rows: `Identified` by
date and teams, and with no other event around the date whose name passes the test. Without the second
condition the code's promise fails (`NoBestGuess`, section 6). `OwnPlayers` and
`Legible` say what of ESPN's answers the claim is about: near its game a prop's player is one person, of one of its teams, and
the numbers a prop is settled on stand whole in keyed blocks.
`CombatBouts`: the scout's steps `finalize_stuck_bouts`, `finalize_from_scores`, `ListUnrated`,
`grade_completed_games`, beside the scripts; `rated` is the sequence of results the two
ratings are made of. `Repairs`: each script is an action over two events and three rows
whose ownership (`owner`, `quoteOf`) only the model knows; requests fail together (`Faults`).

## 3. The runs

| Run | Question | Bounds | Result |
|---|---|---|---|
| `bankroll` | Do two racing requests and one grading process keep bankroll, legs and feed consistent through a corrected score? | 1 player, 1 game with a side and a prop, 2 picks, 1 parlay of ≤ 2 legs, 2 requests, 1 grader, 2 days | holds, 0.40 million states |
| `graders` | What survives two grading processes at once? | as above, 1 request, 2 graders of which one pass may die, no correction | `AnnouncedOnce`, `StakeCovered`, `CashOutFinal` hold, 1.12 million states |
| `markets` | Games table, odds feed, credits, prices, bouts, accounts, selection: what do they keep? | in `MCMarkets` and `markets.cfg` | holds, 0.93 million states |
| `picks` | Picks, props, statistics, repairs, strategies: what do they keep? | in `MCPicks` | holds, 0.30 million states |
| `services` | Scheduler, PINs, migrations, player lines: what do they keep? And does what they, the games table and paper betting have begun end – is every stake settled, every result announced? | in `MCServices` and `services.cfg`; betting as in `bankroll`, with 1 request, no correction, and a grader that may die once | holds under fairness, 0.39 million states |
| `two_graders` | Does `SettledOnce` survive two grading processes? | no parlay, one correction | **violated** |
| `emailed_withdrawn` | Is an emailed pick ever withdrawn? | 2 runs one after the other, 1 digest | **violated** |
| `postponed_stays` | Does a postponed game drop out? | 1 event, 1 postponement | **violated** |
| `digest_ahead` | Does the digest ever overtake the scout? | as the scheduler's part of `services` | **violated** |
| `back_to_backs` | Do games on consecutive days survive the repair of twins? | 2 games, 3 rows | **violated** |
| `wrong_event` | Does a search by teams and date ever end at another game? | 2 games, 1 prop | **violated** |
| `unmoved_clv` | Is an unmoved line worth nothing at the close? | 2 books, one with a moneyline only | **violated** |

**Why the bounds are enough for the questions.** Bankroll checks involve one
player; two bets of stake 1 against a balance of 1 already overdraw it. A
parlay's two legs may be one game's side and its prop, which gives the mixed
verdicts, the push and the order of grading. With one parlay nothing falls between the queries
for the legs of two of them; there only the proofs speak, which hold for any number. Two graders suffice for every
overwrite, as each pass only overwrites what one other wrote in between; so do
two fetchers for the odds and props (and for the odds a fetch before and one after the two that
overlapped), two requests for accounts and strategies, two PIN threads against a limit of three
(the third reservation locks while two compare), two jobs for the budget. Two
names that differ in case test the name check. A prop market can do what a game market can and be left alone too;
three runs give insert–withdraw–reinstate. For windows, starts at 12:00, 12:30 and
13:30 put the clustering's boundary (exactly 30 minutes) inside the model.
Three games of three teams, the last in the next season, with ids out of the order of days, give a
statistic a past, a same-day and a future result. Repairs need a twin and a bystander:
two events three days apart, three rows, two quotes of one book. One bout is listed as two rows,
a day off, corners either way; the reaches of the /scores endpoint and of the scout's lookback are scaled
to one day and two, so that a row dated a day early outlives both. Bets on the priced game follow one another, one open at a
time. `Lacking` in the migrations holds at least one item of each kind of migration, and
every one with two statements. Symmetry is used only in runs without liveness.

**Deadlock** is checked in the runs of `PaperBets`, which never stops. The others end
with the month, the day, the last game: there `CHECK_DEADLOCK FALSE` says so.

## 4. Properties

Every property is aimed at a hazard of `PROJECT.json`, and for each one a plausible
bug of the code (an operator beside the definition it replaces) makes TLC find it violated.

- *Bankroll*: `NeverOverdrawn`, `StakeCovered`, `ImplementsLedger` (the whole component
  implements `BetLedger`: bets are accepted within the free money and settled once).
- *Settlement and feed*: `SettledOnce` (cash outs included), `CashOutFinal` (of straight bets, with
  two passes), `NoLateCashOut`, `RecordsAgree`
  (parlays agree with their legs and each announcement with its bet),
  `AnnouncedOnce`.
- *Prices*: `NoFreeMoney`: no two sides of a moneyline, a spread or a total on offer together both win – the
  reason for `quoted_line`'s choice on a tie – and a ticket, props included, sold back where nothing moved
  loses at least the margin (the two sides of a line cost more than one together, in every offer of a book and, as
  the books are given here, across them). Props are not in the first half: they are sold at every line (section 7).
- *Accounts*: `BooksAgree`. *PINs*: `GuessesBounded`. *Credits*: `BudgetKept` – the overrun is one
  call per concurrent run, in the month and in the reserve.
- *Odds*: `NoFetchLost`; `QuotesFollow`: no in-play price is kept, and the current quote is the last of its series.
  The code does not keep the latter for a row that another fetch changes between read and write
  (section 7); what holds then is that the quote is made of prices in the series, until the next store. *Props*: `PropHistoryFollows`, `PublishedIsOffered`.
- *Picks*: `RowsAgree` (a pick's side, price and versions agree, one pick per market,
  without overlapping runs), `EmailedStands`, `GradedForGood` (a graded pick is
  not rewritten, withdrawn, or graded twice by one grader), `StandingPicksGraded`.
- *Selection*: `StarsHaveReasons`, `LossesNeverRaise`. *Strategies*: `StrategiesHold`.
- *Games*: `FinalStays`, `ScoreAsReported`. *Day*: `WindowsKept`, `NoGameLeftOut`, `OneScout`.
- *Statistics*: `StatsHold`. *Lines*: `SettledOnOwnLine`; `NoBestGuess` is the same claim of every row that
  date and teams identify, which the code breaks. *Bouts*: `BoutsHold`.
  *Repairs*: `OwnResult`, `NothingLost`. *Migrations*: `UpMeansComplete`.
- *Liveness* of six modules: `EverythingEnds` – every bet is settled or cashed out, and announced unless a pass dies; a finished game's row becomes final with
  ESPN's score, a due digest is sent, a PIN's lock ends, a starting process comes up or
  refuses, a gradeable prop is settled. It is stated as `[]<>~Owed`: whatever is owed at some time, at a later
  time nothing is. What is owed is never taken back, so that this is the same as each debt being paid.

### Fairness

- `PaperBets`: a request thread runs to its end (weak fairness); a grading pass is
  started by every day's scout and a writer waits for the lock in SQLite's busy
  handler, so its steps are strongly fair – they are disabled while somebody else
  holds the lock. Days pass. Players, the results feed and the owner owe nothing.
  `EverythingEnds` also assumes that the database is not busy for ever (`Quiet`).
- `PickLifecycle`: a run ends, a grading pass runs daily.
- `GameLifecycle`: `_scout` asks ESPN about today and the last three days, several
  times a day, so passes keep happening while the date is in the lookback; neither
  ESPN nor a pass fails for ever (strong fairness).
- `ScoutDay`: only that a scout in progress ends and that a digest that can go on does.
- `PinGuard`: time passes. `Migrations`: a process is restarted by its supervisor and its
  migrations run on. `PropLines`: the morning pass runs daily over final games of the lookback, and so does grading.
  Nothing is assumed of players, owners and scripts.

In `MCServices` the conditions of the six modules are folded into a few (`AllFairness`):
a behaviour is of one module, so one condition over a disjunction asks the same.

## 5. Proofs

TLAPS proves, for any players, games, requests, stakes, prices, slates, runs, threads and bounds:

| Theorem | Says | Assumes |
|---|---|---|
| `PaperBetsProofs!TypeCorrect` | `Spec => []TypeOK` | the modules' named assumptions |
| `PaperBetsProofs!Safe` | `Spec => [](TypeOK /\ SafeInv)` | – |
| `PaperBetsProofs!CashOutsAreFinal` | `Spec => CashOutFinal` (straight bets), for any number of graders, aborts included | – |
| `PaperBetsProofs!NoCashOutTooLate` | `Spec => NoLateCashOut`, for any number of graders | – |
| `PaperBetsProofs!StakesAreCovered` | `Spec => StakeCovered`, for any number of graders | – |
| `PaperBetsProofs!AnnouncedAtMostOnce` | `Spec => []AnnouncedOnce`, for any number of graders | – |
| `PaperBetsProofs!OnePass` | the invariant `OnePassInv` | `OneGrader` |
| `PaperBetsProofs!NeverOverdrawnOnePass` | `Spec => []NeverOverdrawn` | `OneGrader` |
| `PaperBetsProofs!SettledOnceOnePass` | `Spec => SettledOnce` | `OneGrader` |
| `PaperBetsProofs!RecordsAgreeOnePass` | `Spec => []RecordsAgree` | `OneGrader` |
| `PaperBetsProofs!Implements` | `Spec => ImplementsLedger` | `OneGrader` |
| `PickLifecycleProofs!GradedIsHistory` | `Spec => GradedForGood`, however many runs overlap | `OneGrader`, `Timed` |
| `PickLifecycleProofs!EmailedPicksStand` | `Spec => []EmailedStands` | – |
| `PickLifecycleProofs!PicksTypeCorrect` | `Spec => []TypeOK`, references to stored picks among it | – |
| `PickLifecycleProofs!RowsOfOneRun` | `Spec => []RowsAgree` | – |
| `GameLifecycleProofs!GamesTypeCorrect` | `Spec => []TypeOK` | `GameAssumption` |
| `GameLifecycleProofs!FinalRowsStayFinal` | `Spec => FinalStays`, beside any number of live polls | `GameAssumption`, `OnePass` |
| `GameLifecycleProofs!FinalScores` | `Spec => []ScoreAsReported` | `GameAssumption`, `OnePass`, `OnePoll` |
| `ScoutDayProofs!WindowsPartition` | the clustering puts each game of any set into exactly one window, with all games within half an hour of the window's first | `DayAssumption` |
| `ScoutDayProofs!DayHolds` | `Spec => []DayInv`, types among it | `DayAssumption` |
| `ScoutDayProofs!OneScoutADay` | `Spec => []OneScout` | `DayAssumption` |
| `ScoutDayProofs!WindowsAreKept` | `Spec => []WindowsKept` | `DayAssumption` |
| `ScoutDayProofs!NobodyLeftOut` | `Spec => []NoGameLeftOut` | `DayAssumption` |
| `FeedProofs!QuotesFollowHistory` | `Spec => []HistoryFollows`, for any number of fetches | `OddsAssumption` |
| `FeedProofs!HistoryIsOfChanges` | `Spec => []SeriesOfChanges` | `OddsAssumption` |
| `FeedProofs!KeptQuotesAreTakeable` | `Spec => []TakeableQuote` | `OddsAssumption` |
| `FeedProofs!OddsTypeCorrect` | `Spec => []TypeOK` | `OddsAssumption` |
| `FeedProofs!PropsFollowHistory` | `Props!Spec => []Props!PropHistoryFollows`, for any number of fetches and any ladders | – |
| `FeedProofs!PropsTypeCorrect` | `Props!Spec => []Props!TypeOK` | `PropAssumption` |
| `ApiBudgetProofs!MonthOverrunBounded` | `Spec => []SpendBounded`, for any number of runs | `BudgetAssumption` |
| `ApiBudgetProofs!ReserveOverrunBounded` | `Spec => []ReserveKept`, for any number of runs | `BudgetAssumption` |
| `ApiBudgetProofs!BudgetTypeCorrect` | `Spec => []TypeOK` | `BudgetAssumption` |
| `PinGuardProofs!FewGuesses`, `PinsTypeCorrect` | `Spec => []GuessesBounded`, `Spec => []TypeOK`, for any number of threads | `Limits` |
| `HindsightProofs!OneActiveOfEachKind` | `Spec => []OneOfEachKind`, for any number of requests at once | `StrategiesAssumption` |
| `HindsightProofs!NothingForeseen` | `Spec => []NoHindsight`, for any games, logs and grids | `StrategiesAssumption` |
| `HindsightProofs!StrategiesTypeCorrect` | `Spec => []TypeOK` | `StrategiesAssumption` |
| `HindsightProofs!NothingSeenAhead` | `Stats!Spec => []Stats!NoLookahead`, for any fixtures, scores and lookback | `StatsAssumption` |
| `HindsightProofs!RatingsServedAsTrained` | `Stats!Spec => []Stats!ServedAsTrained`, for any fixtures and results, late or corrected | `StatsAssumption` |
| `HindsightProofs!StatsTypeCorrect` | `Stats!Spec => []Stats!TypeOK` | `StatsAssumption` |
| `GameLifecycleProofs!BoutsInvHolds` | the bouts' inductive invariant, types among it | `BoutsAssumption` |
| `GameLifecycleProofs!WinnerNamed` | `Bouts!Spec => []Bouts!RightWinner`, for any number of rows and days | `BoutsAssumption` |
| `GameLifecycleProofs!EachBoutRatedOnce` | `Bouts!Spec => []Bouts!RatingsAddUp` | `BoutsAssumption` |
| `GameLifecycleProofs!OwnResultHolds` | `Fixing!Spec => []Fixing!OwnResult`, for any events, rows and faults | `RepairsAssumption`, `FarApart` |
| `GameLifecycleProofs!RepairsLoseNothing` | `Fixing!Spec => Fixing!NothingLost` | `RepairsAssumption`, `FarApart` |
| `PickLifecycleProofs!StarsReasoned` | `Picking!Spec => []Picking!StarsHaveReasons`, for any signals, prices, sports and thresholds | – |
| `PinGuardProofs!NoOrphansHolds` | `Users!Spec => []Users!NoOrphans`, for any players and requests | `AccountsAssumption` |
| `PinGuardProofs!StreaksHold` | `Users!Spec => []Users!StreaksFollow` | `AccountsAssumption` |
| `PinGuardProofs!BooksHold` | `Users!Spec => []Users!BooksAgree`: the figures of all pages agree, for any history | `AccountsAssumption` |
| `PinGuardProofs!AccountsTypeCorrect` | `Users!Spec => []Users!TypeOK`, with it that nobody's open tickets are worth more than the bankroll | `AccountsAssumption` |
| `PinGuardProofs!OffersHold` | `Board!Spec => []Board!PublishedIsOffered`, for any books, offers, logs and runs | `PicksAssumption` |
| `HindsightProofs!LinesSettleOwn` | `Boxes!Spec => []Boxes!SettledOnOwnLine`, for any events, rows and box scores | `LinesAssumption`, `OwnPlayers`, `Legible` |
| `ApiBudgetProofs!SchemaComplete` | `Updates!Spec => []Updates!UpMeansComplete`, for any number of processes and stops | `MigrationsAssumption` |

The named assumptions of the modules (`GameAssumption`, `DayAssumption`, `OddsAssumption`, `PropAssumption`,
`BudgetAssumption`, `StrategiesAssumption`, `Limits`, `StatsAssumption`, `BoutsAssumption`, `RepairsAssumption`,
`AccountsAssumption`, `MigrationsAssumption`, `LinesAssumption`, `PicksAssumption`) say of the constants what any use
of the code meets (counts are numbers, a day is a whole number of quarter hours, each book's quote prices the same columns, the
seeded rows exist, a book offers both sides of a prop), and TLC evaluates them in the runs. `OneGrader`, `OnePass`, `OnePoll`,
`Timed`, `FarApart`, `OwnPlayers` and `Legible` restrict the claim, as `Clear` does inside `SettledOnOwnLine`; the arguments below, or the section on the module, say
what happens without them. `back_to_backs` shows why the repairs need `FarApart`.

Theorems that name `Stats!`, `Bouts!`, `Fixing!`, `Users!`, `Updates!`, `Boxes!`, `Board!`, `Picking!` or `Props!` are of instances with
variables of their own, as the runs are: what `markets`, `picks` and `services` check as `BudgetKept`, `QuotesFollow`, `PropHistoryFollows`,
`StatsHold`, `BoutsHold`, `BooksAgree`, `OwnResult`, `NothingLost`, `StarsHaveReasons`, `StrategiesHold`, `UpMeansComplete`, `SettledOnOwnLine`
and `PublishedIsOffered` are the same definitions, or conjunctions of them, which the MC modules take by `INSTANCE` too.

**The argument for `CashOutFinal`.** Nothing in the code makes a grading pass
look again whether a bet is still open when it writes: it updates the row by id. What
keeps a cash out and a pass apart is that a bet can be cashed out only while all
its games are open, and is graded only when one is *decided* – final, or its date past –
and a decided game never opens again (`DecidedStable`). `SafeInv` carries that
through memory: `OfferOpen` says that what a request is about to cash out is open on undecided
games, under the lock; `VerdictDecided` that
everything a pass has graded in memory rides on a decided one; `CashOutFinal` itself is not
inductive: it says nothing of the memory of either side. A parlay is read before its legs,
so beside a second pass it can be cashed out in between and found with graded legs after:
`CashOutFinal` speaks of straight bets. With one pass nobody else grades a leg, and what was read as
unsettled is unsettled still once all its legs are graded (`UnreadOpen`, by `LegsDecided`):
`SettledOnceOnePass` covers parlays. `NoLateCashOut` rests on the same memory: the request has held the
write lock since it loaded the bet, and while it does a game may kick off but not leave
`scheduled` (`OfferScheduled`).

**The argument for `NeverOverdrawn`.** With one grading process, what it graded is
still open when it commits (`VerdictFresh`), so a settlement adds money to a bet that had
returned none (`OpenBack`) and available money only grows (`MoneyGrows`);
a request bets at most what it read under the lock (`SeenCovered`), and
nobody else takes money meanwhile. `OneGrader` is needed: with two processes and a corrected
score a payout can be overwritten by a smaller one after it has been bet again
– which is what `two_graders` starts from. `StakeCovered` needs no such assumption: between
the check and the insert only the request itself can write, so what it read is still there
even if a second process has overdrawn the player before.

**The argument for `RecordsAgree`.** Legs, the parlay and its event are written in three
places, the event in a transaction after the grades. A leg is never cashed out
(`LegsNotCashed`) and, with one pass, never graded twice, so a parlay a pass has settled in
memory from committed legs still matches them when it is written (`ParlayVerdictMatches`),
and an event made from the bet's result is true when it is inserted (`AboutToTell`).

**The argument for `ImplementsLedger`.** The sums of the bankroll queries over `picks` and
`parlays` are the ledger's free money (`FreeMoneyIsAvailable`); accepting a bet is `Place`, since
`SeenCovered` puts the stake within it; a cash out or a pass's commit is `Settle`, since what it
writes was open (`OfferOpen`, `VerdictFresh`); every other step leaves the mapped ledger alone.

**The argument for `GradedForGood`.** A run may hold an open transaction that was computed
before a game ended. It cannot harm a graded pick: games become final and results are written
only while nobody holds the lock, and pricing touches only picks whose game has not started, so
an open transaction has every pick of a final game as it is stored (`TxKeeps`) and its commit
changes none. What a pass has read is ungraded and stands (`DueStands`). `Timed` says that every game has
a start time: without one the code never sees a game as started, and a run that read a pick
before it was graded rewrites it (section 7). `OneGrader` is needed as for bets: two passes that read the same pick
grade it twice, with nothing in the schema against it (section 7).

**The argument for `EmailedStands` and `RowsAgree`.** Both say something only while no run has
overlapped another or the digest. Then the one run that is busy works from what is stored
(`Undisturbed`), so the columns its UPDATE leaves out have the loaded values, and the row is
what the run computed: a pair of the strategy's, versioned. Its transaction differs from the stored picks only
in games it is through with (`Ahead`), so a market that had no pick when it loaded has none when it
inserts. Emailed picks are neither withdrawn nor turned into tracked ones.

**The argument for `GuessesBounded`.** While there is no lock, the attempts that were let through and
not cleared are all counted in `failures`; beside a lock none of them is younger than the lock,
so none is left within its length when it ends and the count starts again (`PinInv`).

**The argument for `FinalStays` and `ScoreAsReported`.** A pass and a poll write by id what they made of rows
they read before anybody had the lock. A poll makes no row final and takes no final back (`PollKeeps`), so with one
pass a row in its memory was loaded final exactly when the one it would see now is, and it has not changed a
final status since (`Loaded`); an open transaction holds a final row as final (`TxKeeps`). With two passes the later
reconciliation does undo a final (section 7), hence `OnePass`. For the score, a poll only raises an open row's
(`PollRaises`) and what it is about to write is not behind the row (`PollAhead`); beside it, what a pass has
loaded is at most what it would see now (`Follows`), and a row that it makes final has a score ESPN gave as
final, also in the columns the UPDATE leaves out. All this while ESPN has not corrected itself (`Sure`). `OnePoll`:
of two polls the one that asked first may write last.

**The argument for the scheduler's day.** `Windows` is a recursive function on sets of games; that it partitions
them is proved by a least counterexample: of the sets it fails on, one of the fewest games, whose rest
after its first window is smaller still. `DayInv` then says that no scout fetches after a success and
nobody has scouted while the morning's job is still to fire (`ScoutInv`), that a job's number is its window's and every window to come
has its job, and that after a scout a window without one was run or is about to be (`WindowInv`) – unless a
fetch has moved the games since, which the properties except too.

**The argument for the credits.** The bill is what is recorded, what never will be, and what
waits to be recorded (`Bill`). A run starts a call only after a check that found the month below its
limit; the month, and one call of each run that has checked, therefore stay below the limit and one call of
every run (`Month`). In a closed reserve no check passes, so what a run may still pay is
the call it had checked before (`Closing`).

**The argument for the odds.** A row and its series are written in one transaction, from one quote,
so they end alike unless the UPDATE left out a column that had changed since the row was read (`stale`). A
column left out was in the series before (`UpsertedFrom`), one written has just been appended, and the next
store, which writes over what it read, ends the exception.
No fetch in memory is younger than now, and one that is about to store had seen, when it looked its game up,
that the game had not started – so the answer, which is older still, is from before the start it saw
(`Held`), and the start it saw is the stored one unless that was moved. Each snapshot was captured no
earlier than it was fetched (`Changes`), which carries this to the closing line. `NoFetchLost` is
not proved: that the second attempt finds the row rests on there being no third fetch that moves the event to
another row in between, so it holds of the code's two processes and two attempts rather than of any number.

**The argument for the props.** `FeedProofs` takes `PropFeed` by `INSTANCE`, with variables of its own. A fetch
compares its answer with the ends of the series as it read them; a key that is not `raced` still ends so when it
stores, for series only grow. Then what it appends differs from the end, a key of a quoted market that the answer
lacks ends without an offer, and one of another market is left alone (`PropStoreKeeps`). What is kept has a price, so
an end without one is the mark of a pull.

**The argument for the strategies.** A request writes back what it loaded earlier, but a row never changes its
name or kind and is never deleted (`Loaded`), and an edit writes only the config. So the kind a promotion switches
off is the kind of its row, the name it checked is the one the row still has, and since it is one
transaction the other kind is left alone. The tuner chooses from the games before the split and a prop
backtest from the logs before the game: changing a later element changes no prefix (`PrefixStays`), and the choice is a
function of the prefix.

**The argument for the statistics.** A row of `team_stats` is computed from the games strictly before its day,
whatever pool the refresh or the backfill was handed, and stays so when it is written beside others (`StatsInv`).

**The argument for the bouts.** Every row that has a score has the true one in its own corner order
(`BoutsTyped`), through imports, merges and voids. The ratings are made of the rows in `history`, each once (`Rated`); what the
scout has listed is still unrated when it rates it (`Listed`) – unless a script has rated in between, which `raced`
remembers and the property exempts.

**The argument for the repairs.** Every row there is carries the teams, the day or the next one, and the result of the event that owns it
(`RowsOwn`), and each quote, pick and series refers to a row that is there and of its own event (`QuotesOwn`). Matching by date and teams,
one day off either way, then finds an event's own rows only, as events of the same teams are `FarApart`.

**The argument for the stars.** What is stored is what `calculate_confidence` made of the signals as they were, and a refresh writes the
factors with the tier (`StarsInv`). The thresholds move between two runs; the factors a tier asks for do not.

**The argument for the accounts.** A bet's player is there, and a parlay's two legs are the same player's (`Kept`). That
carries deletion: foreign keys forbid a row that refers to nobody, and what a deletion removes is removed whole. A
stored streak is that of the decided bets because settling and refreshing rewrite it from the table, and no other step
decides one. For the figures, the one fact about the rows is that an open bet has returned nothing (`Unpaid`).
The rest is arithmetic over one state: the tickets' list and the scorecard's show the same rows, one to one
(`TicketsListed`, `BetsListed`), so their sums and counts agree (`ListSum`, `ListCount`); weeks partition the bets (`SumGrouped`);
the last day-end profit is that of all of them (`TrendEnds`). For the solvency in `TypeOK`: what a player may place is the bankroll
less the open stakes, and placing takes no more than that; a bet that ends costs no more than the stake it
held (`EndsFree`). `MoneyRaised` and `MoneyPlaced` carry the sums through such a step.

**The argument for the ratings.** A replay has written the row of every final, and a team without a final has the seed (`RatingsInv`).
A row is what its teams bring from the games before its own (`ReplayRows`), whatever comes after; a team's rating is what
its last game left it with (`ReplayTeam`), whatever others play in between; and a replay depends on the results of its own games
only (`ReplaySame`), so storing a game to be played changes nothing. What serving computes from the stored row of a team's last final is
then what the replay of the finals and the game would store for it (`ServedIs`).

**The argument for the migrations.** A process that is past a migration leaves its items in the schema, but for those the property
exempts (`Progress`); of a migration of two statements, the second is there, or lost for good, or a process is between them
(`HalvesKept`). The proof needs the exemption of the new `api_usage` table: a second process that had found
the legacy one drops the new one after the first has come up (section 7).

**The argument for the player lines.** What is stored under a prop's key – player and date – and what a pass is about to store there, is
of the prop's own event (`LinesInv`): another row's line with that key would be the player's in a second event of the same days
(`OwnPlayers`), and the row is `Clear`; and the event a search finds for a clear row is its own (`EventFound`), since
no other around the date passes the test of names. The parser then gives what the player did (`ParsedRight`).

**The argument for the prop picks.** A stored row is the newest quote of its book and side, so what a run reads is what
was on offer then (`RowsNewest`, `CurrentIsOffered`). A quote with an easier line at a better price would have a chance at least as good
and a greater edge, would survive the dedup, and would have been chosen (`EasierChance`, `PickedIsBest`).

**Sums and other inductions.** The prover has no rule of induction over data that it can instantiate. In `PaperBetsProofs` sums over rows are therefore
cardinalities of sets of coins (`Amounts!Total`), with lemmas about them at its head. Elsewhere a least counterexample takes the place of
the induction, for `<` on the naturals is well founded: so for `WindowsPartition`, `LeastNumber` and `GreatestNumber`, and, in
`PinGuardProofs`, for the community modules' `SumFunction`: that the table it is chosen from exists for every finite set (`TableExists`) and
that a sum takes one element at a time (`SumTake`), splits (`SumApart`), and is renamed or grouped (`SumRenamed`, `SumGrouped`); and, in
`HindsightProofs`, for the Elo replay, which exists for every set of games (`ReplayExists`) and is reasoned about game by game (`OneByOne`).

Only model-checked: liveness (`StandingPicksGraded`, `EverythingEnds`), which is out of this prover's reach; `NoFetchLost`, for the
reason above; `NoFreeMoney` and `LossesNeverRaise`, whose arithmetic divides products of prices (the de-vigged
consensus, Kelly's stake), beyond the solver for unknown prices; and the types of `CombatBouts`, `Repairs`,
`PropPicks`, `PropLines`, `PaperPrices` and `Selection` as far as their inductive invariants do not have them.

## 6. Findings: what the code does and a line of the repository denies

1. `two_graders` – `paper_settlement.py:42` says of the two callers that they "cannot
   settle a bet differently". Both read the pending picks and the score and write by
   id: around a corrected score the later commit overwrites the first result and payout. Nor does anything else
   keep two passes apart: a parlay that one of them read as unsettled (line 125), and whose legs, read next
   (line 126), the other has graded meanwhile, is settled even if it was cashed out in between.
2. `emailed_withdrawn` – `pick_generator.py:500` says a pick that was emailed is never
   withdrawn. A run reads the emailed ids before the digest records them and withdraws
   afterwards.
3. `postponed_stays` – `scheduler.py:573` says a postponed game "must drop out of
   Today's Picks". ESPN's status is stored on insertion or when final only, and a listed
   game is a confirmed one for the reconciliation: a stored game stays scheduled.
4. `digest_ahead` – `scheduler.py:199` says "never ahead of today's scout". The scout
   counts as successful once the games are fetched; a digest due while it is still pricing
   the slate does not wait.
5. `back_to_backs` – `fix_team_identity.py:238` calls the signature of an offset twin narrow
   enough for teams that meet on consecutive days. A second game the odds feed has made, which
   has no ESPN id yet, fits it: its odds and picks move to the other game and its row is deleted.
6. `unmoved_clv` – `line_snapshots.py:185` says price and close are averaged by one function. A
   book without a spread or total counts as 0 in the price and not at all in the close.
7. `wrong_event` – `espn_box_score.py:90` says `None` is returned "rather than a best guess".
   Both abbreviations are looked for anywhere in the event's short name (line 112), and SA occurs in SAC: for SA at SAC,
   stored under the next day's date, the first listing searched has LAL @ SAC, and a SAC player's prop settles on that game.

## 7. Behaviour met while modelling that no run shows

- *A bet on a late final is pushed* (`paper_settlement.py:93`): the bets to push are
  chosen by a second query after the gradeable ones; a stale game that turns final in between has
  its bets pushed instead of graded.
- *A lost announcement* (`paper/feed.py:146`): a pass that dies between the commit of the
  grades and the announcement never announces them (hence the exemption in `Announced`).
- *A bet on a game canceled while the request waited* (`api/users.py:676`): `place_parlay`
  loads its games before it has the lock.
- *The poll holds the lock while it awaits* (`live_scores.py:93`): for up to thirty seconds,
  where other writers give up after five.
- *A pass that fails one sport* (`full_pipeline.py:56`) leaves the shared session without a
  rollback, and every later sport fails too.
- *An email without its record* (`digest/job.py:116`): a failed record is logged; its picks can be withdrawn.
- *A second row of an event* (`full_pipeline.py:283`): two passes look it up, find
  nothing and insert; no index on `espn_id` stops the second.
- *A final undone* (`full_pipeline.py:255`): of two passes over one date, the later
  reconciliation works from rows loaded before the other's commit.
- *A game first stored as postponed is never scheduled* (`full_pipeline.py:253`).
- *A mixture of a corrected score and the running one* (`full_pipeline.py:323`), until the next
  pass; `ScoreAsReported` excludes it.
- *A mixed refresh* (`pick_versions.py:90`): two runs that refresh one pick each write the
  columns they changed; the row may pair one run's side with the other's price.
- *Two sides of a prop that both win* (`paper/pricing.py:194`): a prop is priced at any line a book has, and
  `_store_props` (`full_pipeline.py:666`) never deletes a side. An Over at one line and an Under at a higher one,
  of two books or of one book that has moved, can stand on offer together, and a result between them pays
  both. Nothing in the repository says otherwise.
- *A mixed quote* (`full_pipeline.py:581`): a fetch that loaded a book's row before another one stored a
  new price writes only the columns that differ from what it loaded, and appends its own price to the
  history (line 611). The current quote is then not the last of the series, and may pair one fetch's spread with the
  other's price, until the book is stored again – up to the next scout. `HistoryFollows` exempts such a row from
  "the last one" and still asks that each of its columns is in the series.
- *Duplicate picks* (`pick_generator.py:149`) and *two results* (`scheduler.py:858`): no
  unique index on `picks` or `pick_results` stops the second of two overlapping runs or passes.
- *A graded pick rewritten* (`pick_generator.py:462`) for a game without a start time.
- *A window run twice* (`scheduler.py:657`), *a window without a job* (`scheduler.py:705`: after a
  restore, a fetch that changes the clustering leaves a number alone that now stands for other games),
  and *a day without windows* (`scheduler.py:602`: an error between the fetch and the planning leaves
  the date set, and the retries skip).
- *A column that never comes* (`database.py:696`): a migration of two statements that stops between
  them finds its first one done at the next start and skips the second; `UpMeansComplete` exempts it.
- *The new `api_usage` dropped* (`database.py:76`): where dropping the legacy table is allowed, a process that had found it drops the
  one another process has just created; nobody makes it again until the next start. Exempted too.
- *A tuned config lost* (`api/backtest.py`): `auto_tune` writes back the config it loaded, over an edit
  made in between.
- *A prop history with the wrong end* (`prop_snapshots.py:47`): of two overlapping fetches of one
  game, the one read first may be stored last.
- *A half-stored box score* (`collectors/player_stats/collector.py`): each player is committed alone, and a pass
  stopped between two takes the game for stored the next morning.

## 8. Not modelled

- *Floating-point models* – fitted probabilities, calibration reports, shrunk returns, Wilson bounds: no state between
  steps, and nothing a model checker decides. Stakes, stars and edges are in whole per cents instead.
- *Several sports at once* in the scheduler and the passes: sessions and job ids are per sport, but for the shared
  session named in section 7.
- *`rain_under_picks`* (`analysis/football_weather.py`): a second writer of `picks` under a strategy of its own,
  by the insert, refresh and withdraw rules `PickLifecycle` has for a game market; only its question
  (is the forecast wet) is new. *The digest's ranking* chooses among picks and keeps no state.
- *`settle_stranded`* of the combat scripts: it looks for open picks on canceled bouts, and no operation on bouts
  leaves one. *`dedupe_picks.py`* and `migrate_phase1.py`: one-offs over rows that the code as it is no longer writes.
- *Doubleheaders* and the tables of team names: constants of the code.
- *Read routes, WebSocket, collectors' HTTP, exports and experiments, the frontend*: they keep no state
  that the modelled components depend on, or deliver inputs that are nondeterministic here.

## 9. Plan

Built: paper bets with its ledger and proofs, then picks, games and the scheduler's day, then the markets, prices,
accounts, props, statistics, bouts, strategies, migrations and repairs. What is left is mainly to prove more:

1. `LossesNeverRaise` of `Selection`, over bounds of the prices that the division keeps.
2. More of the model: two sports in `ScoutDay`, doubleheaders in `GameLifecycle`, `rain_under_picks` beside `Selection`.

## 10. Running it

`tlc -config <run>.cfg <module>.tla` for a run (`PROJECT.json` names the module),
`tlapm <module>.tla` for the proofs.
