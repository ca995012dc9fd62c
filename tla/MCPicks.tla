------------------------------ MODULE MCPicks ------------------------------
(***************************************************************************)
(* The picks, what they are made from and what is kept of them, side by    *)
(* side: `part` says which module a behaviour is of.  PickLifecycle has its *)
(* own variables here; v1 .. v10 are those of the others, in the order a    *)
(* module declares them.  Whatever is not the behaviour's own rests.        *)
(***************************************************************************)
EXTENDS MCPickLifecycle, FiniteSetsExt, TLC

CONSTANTS None, NotStored, NotPlayed

VARIABLES part, v1, v2, v3, v4, v5, v6, v7, v8, v9, v10
others == <<v1, v2, v3, v4, v5, v6, v7, v8, v9, v10>>
all == <<part, vars, others>>

OnPicks == part = "picks" /\ UNCHANGED <<part, others>>
UpTo(S, n) == UNION {[1 .. k -> S] : k \in 1 .. n}

----------------------------------------------------------------------------
(* PropFeed: two players of one market and a prop of another; any of them   *)
(* may be pulled, one moves to a ladder of rungs of which one lacks a price. *)
Rung(line, over, under) == [line |-> line, odds |-> [Over |-> over, Under |-> under]]
Steady == {{}, {Rung(1, 1, 2)}}
Feed == INSTANCE PropFeed WITH
    series <- v1, props <- v2, fetch <- v3, fetches <- v4, shown <- v5, raced <- v6,
    Fetchers <- {1, 2}, Quoted <- {<<"m1", "a">>, <<"m1", "b">>, <<"m2", "a">>},
    Ladders <- (<<"m1", "a">> :> (Steady \cup {{Rung(1, 1, 3), Rung(2, 2, 2), Rung(3, 1, None)}}))
               @@ (<<"m1", "b">> :> Steady) @@ (<<"m2", "a">> :> Steady),
    Implied <- <<60, 50, 40>>, MaxFetches <- 3
ASSUME PropLimits == Feed!PropAssumption
OnFeed == part = "props" /\ UNCHANGED <<part, vars, v7, v8, v9, v10>>

(* TeamStats: a neutral game, then two more, the last of the next season;    *)
(* ids are not in the order of the days.                                     *)
Match(home, away, day, season, neutral) ==
    [home |-> home, away |-> away, day |-> day, season |-> season, neutral |-> neutral]
Stats == INSTANCE TeamStats WITH
    game <- v1, boxes <- v2, stats <- v3, elo <- v4, rating <- v5, entered <- v6, replayed <- v7,
    Teams <- {"A", "B", "C"},
    Fixture <- <<Match("A", "B", 2, 1, FALSE), Match("B", "A", 1, 1, TRUE), Match("C", "A", 3, 2, FALSE)>>,
    Scores <- {<<2, 0>>, <<1, 1>>}, DEFAULT_LOOKBACK <- 2, MIN_VENUE_GAMES <- 1, Seed <- 20,
    HomeEdge <- 1, MaxResults <- 3, Boxable <- {2}, Absent <- NotStored, Scheduled <- NotPlayed
ASSUME StatsLimits == Stats!StatsAssumption
OnStats == part = "stats" /\ UNCHANGED <<part, vars, v8, v9, v10>>

(* Repairs: two games of the same teams three days apart, three rows, two    *)
(* quotes of one book; the second date's request may fail.                   *)
Fixing == INSTANCE Repairs WITH
    world <- v1, label <- v2, games <- v3, odds <- v4, picks <- v5, series <- v6, indexed <- v7,
    repairing <- v8, owner <- v9, quoteOf <- v10,
    Events <- {"e1", "e2"}, First <- "e1", Day <- [e1 |-> 1, e2 |-> 4], Today <- 5,
    Rows <- {1, 2, 3}, Quotes <- {1, 2}, Faults <- {{}, {2}}
ASSUME RepairLimits == Fixing!RepairsAssumption /\ Fixing!FarApart
OnFixing == part = "repairs" /\ UNCHANGED <<part, vars>>

(* PropPicks: two books, one run; a line of the other book, a price that is  *)
(* not valid; three games of log; a star who may be out, wind and rain.      *)
Log(a, b, c) == (1 :> a) @@ (2 :> b) @@ (3 :> c)
Ahead(a, b) == a = "a" /\ b = "b"
Props2 == INSTANCE PropPicks WITH
    now <- v1, logs <- v2, rows <- v3, pick <- v4, run <- v5, fetches <- v6, basis <- v7,
    Books <- {"a", "b"}, Runs <- {1},
    Offers <- {[line |-> 20, odds |-> [Over |-> -110, Under |-> -150]],
               [line |-> 24, odds |-> [Over |-> 110, Under |-> 50]]},
    Implied <- (110 :> 48) @@ (-110 :> 52) @@ (-150 :> 60),
    LogBooks <- {[target |-> [man |-> Log(20, 22, 27), top |-> Log(40, 40, 40)],
                  qb |-> [top |-> Log(0, 0, 0)]]},
    Rosters <- {None, [man |-> "fit", top |-> "Out"]}, Weathers <- {{}, {"windy", "wet"}},
    Player <- "man", Today <- 4, Start <- 4, MaxFetches <- 2
ASSUME PickLimits == Props2!PicksAssumption
OnProps == part = "proppicks" /\ UNCHANGED <<part, vars, v8, v9, v10>>

(* Strategies: two requests; three ids; two bars to try; three games in the  *)
(* dates asked for, of which the tuner trains on two (NoHindsight varies the *)
(* third), or one; up to three games in a player's log.                      *)
Played(edge, stake, result) == [edge |-> edge, stake |-> stake, result |-> result]
AllPicked == {Played(3, 1, "win"), Played(7, 1, "loss"), Played(7, 1, "win"), Played(7, 0, "loss")}
Named(name, kind, sport) == [name |-> name, strategy_type |-> kind, sport |-> sport]
Chosen == INSTANCE Strategies WITH
    strategies <- v1, requests <- v2, answer <- v3, edits <- v4,
    Threads <- {1, 2}, Ids <- {1, 2, 3},
    Creations <- {Named("recent_form", "game", None), Named("prop_value", "prop", "nba"),
                  Named("ensemble", "prop", None)},
    Edges <- {3, 7}, Grid <- <<3, 7>>, Picked <- AllPicked, Values <- {0, 6}, LOOKBACK <- 1,
    MIN_TRAIN <- 2, MIN_VALIDATION <- 1, MIN_PICKS <- 1, 
    Histories <- {<<g, h, Played(7, 1, "win")>> : g, h \in AllPicked} \cup UpTo(AllPicked, 1),
    Logs <- UpTo({0, 6}, 3), MaxEdits <- 1
ASSUME StrategyLimits == Chosen!StrategiesAssumption
OnChosen == part = "strategies" /\ UNCHANGED <<part, vars, v5, v6, v7, v8, v9, v10>>

----------------------------------------------------------------------------
Free5 == v5 = None /\ v6 = None /\ v7 = None /\ v8 = None /\ v9 = None /\ v10 = None
AllInit ==
    /\ Init
    /\ \/ part = "picks" /\ v1 = None /\ v2 = None /\ v3 = None /\ v4 = None /\ Free5
       \/ part = "props" /\ Feed!Init /\ v7 = None /\ v8 = None /\ v9 = None /\ v10 = None
       \/ part = "stats" /\ Stats!Init /\ v8 = None /\ v9 = None /\ v10 = None
       \/ part = "repairs" /\ Fixing!Init /\ v5 = {v4[2]} /\ v1 # [e1 |-> "absent", e2 |-> "absent"]
       \/ part = "proppicks" /\ Props2!Init /\ v8 = None /\ v9 = None /\ v10 = None
       \/ part = "strategies" /\ Chosen!Init /\ Free5

AllNext ==
    \/ OnPicks /\ \E r \in Runs : Load(r)
    \/ OnPicks /\ \E r \in Runs, g \in Games : Skip(r, g)
    \/ OnPicks /\ \E r \in Runs, g \in Games : \E answers \in Responses(g) : Price(r, g, answers)
    \/ OnPicks /\ \E r \in Runs : Commit(r)
    \/ OnPicks /\ \E r \in Runs : Abort(r)
    \/ OnPicks /\ \E g \in Games : KickOff(g)
    \/ OnPicks /\ \E g \in Games : Finish(g)
    \/ OnPicks /\ \E g \in Graders : ReadDue(g)
    \/ OnPicks /\ \E g \in Graders : CommitResults(g)
    \/ OnPicks /\ \E d \in Digests : Select(d)
    \/ OnPicks /\ \E d \in Digests : Send(d)
    \/ OnPicks /\ \E d \in Digests : Record(d)
    \/ OnFeed /\ \E f \in {1, 2} : Feed!Fetch(f)
    \/ OnFeed /\ \E f \in {1, 2} : Feed!Read(f)
    \/ OnFeed /\ \E f \in {1, 2} : Feed!Store(f)
    \/ OnStats /\ \E g \in 1 .. 3 : Stats!Store(g)
    \/ OnStats /\ \E g \in 1 .. 3 : Stats!Finish(g)
    \/ OnStats /\ \E g \in 1 .. 3 : Stats!store_team_box(g)
    \/ OnStats /\ \E day \in 1 .. 3 : Stats!_refresh_team_stats(day)
    \/ OnStats /\ \E force \in BOOLEAN : Stats!backfill_team_stats(force)
    \/ OnStats /\ Stats!compute_historical_elo
    \/ OnFixing /\ Fixing!merge_duplicate_games
    \/ OnFixing /\ Fixing!repair
    \/ OnFixing /\ Fixing!resolve_duplicate_games
    \/ OnFixing /\ Fixing!resolve_offset_twins
    \/ OnFixing /\ Fixing!Stop
    \/ OnFixing /\ \E failed \in {{}, {2}} : Fixing!restore_miscanceled_games(failed)
    \/ OnFixing /\ \E failed \in {{}, {2}} : Fixing!backfill_espn_ids(failed)
    \/ OnFixing /\ Fixing!backfill_game_flags
    \/ OnFixing /\ \E d \in Fixing!daterange : Fixing!fetch_date(d)
    \/ OnFixing /\ Fixing!dedupe_odds_rows
    \/ OnFixing /\ Fixing!seed_from_odds
    \/ OnFixing /\ \E e \in {"e1", "e2"} : Fixing!Play(e)
    \/ OnProps /\ Props2!Fetch
    \/ OnProps /\ Props2!Read(1)
    \/ OnProps /\ Props2!Store(1)
    \/ OnProps /\ Props2!Email
    \/ OnProps /\ Props2!Tick
    \/ OnChosen /\ Chosen!migrate_combat_sports_strategy
    \/ OnChosen /\ Chosen!create_strategy
    \/ OnChosen /\ \E t \in {1, 2} : Chosen!Load(t)
    \/ OnChosen /\ \E t \in {1, 2} : Chosen!promote_strategy(t)
    \/ OnChosen /\ \E t \in {1, 2} : Chosen!update_strategy(t)
    \/ OnChosen /\ \E t \in {1, 2} : Chosen!auto_tune(t)
    \/ OnChosen /\ \E t \in {1, 2} : Chosen!PropBacktest(t)

(* PickLifecycle's fairness, which asks nothing where its variables rest. *)
AllSpec == AllInit /\ [][AllNext]_all /\ Fairness

----------------------------------------------------------------------------
(* Every variable has a value of its type. *)
TypesOK ==
    CASE part = "picks" -> TypeOK
      [] part = "props" -> Feed!TypeOK
      [] part = "stats" -> Stats!TypeOK
      [] part = "repairs" -> Fixing!TypeOK
      [] part = "proppicks" -> Props2!TypeOK
      [] part = "strategies" -> Chosen!TypeOK

(* A prop's history ends with what the book last showed, a pull included, and *)
(* its current row is the last price on offer, unless fetches overlapped.     *)
PropHistoryFollows == part = "props" => Feed!PropHistoryFollows

(* No statistic of a game knows a result of its own day or later, and a game  *)
(* is priced on the rating the replay will store for it.                      *)
StatsHold == part = "stats" => Stats!NoLookahead /\ Stats!ServedAsTrained

(* The result, the ESPN id and the flags of a row are those of the game it    *)
(* was made for, whichever scripts and requests have matched it.              *)
OwnResult == part = "repairs" => Fixing!OwnResult

(* No repair loses a decided result or a game's newest quote, or moves a      *)
(* quote or a pick onto another game.                                         *)
NothingLost == [][part = "repairs" => Fixing!LosesNothing]_all

(* A prop pick that stands is one a book was offering when its run read the   *)
(* odds, and no book offered that side on better terms.                       *)
PublishedIsOffered == part = "proppicks" => Props2!PublishedIsOffered

(* One active strategy of each kind, whatever requests overlap, and nothing   *)
(* tuned or tested with hindsight.                                            *)
StrategiesHold == part = "strategies" => Chosen!OneOfEachKind /\ Chosen!NoHindsight
=============================================================================
