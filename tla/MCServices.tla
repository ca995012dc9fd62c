----------------------------- MODULE MCServices -----------------------------
(***************************************************************************)
(* The services around the picks and bets, side by side: `part` says which *)
(* module a behaviour is of.  ScoutDay has its own variables here; v1 ..   *)
(* v19 are those of the others, in the order a module declares them.       *)
(* Whatever is not the behaviour's own rests.                              *)
(***************************************************************************)
EXTENDS MCScoutDay, TLC

CONSTANT None

VARIABLES part, v1, v2, v3, v4, v5, v6, v7, v8, v9, v10,
          v11, v12, v13, v14, v15, v16, v17, v18, v19
more == <<v11, v12, v13, v14, v15, v16, v17, v18, v19>>
others == <<v1, v2, v3, v4, v5, v6, v7, v8, v9, v10, more>>
all == <<part, vars, others>>

OnDay == part = "day" /\ UNCHANGED <<part, others>>

----------------------------------------------------------------------------
(* GameLifecycle: one game, one results pass at a time beside the live poll. *)
Table == INSTANCE GameLifecycle WITH
    row <- v1, extra <- v2, feed <- v3, said <- v4, turns <- v5, lock <- v6, tx <- v7, pass <- v8,
    poll <- v9, aborts <- v10,
    Games <- {"game"}, BoardOf <- [game |-> "board"], Passes <- {"scout"}, Pollers <- {"live"},
    MaxScore <- 1, Turns <- {"postpone", "correct"}, MaxTurns <- 1, Crowded <- TRUE,
    Partial <- TRUE, Modes <- BOOLEAN, MaxAborts <- 1
OnGames == part = "games" /\ UNCHANGED <<part, vars, more>>

(* PinGuard: two requests, a right PIN and a wrong one, three failures. *)
Pins == INSTANCE PinGuard WITH
    stored <- v1, failures <- v2, left <- v3, request <- v4, recent <- v5,
    Threads <- {1, 2}, Pins <- {"1234", "0000"}, MAX_FAILURES <- 3, LOCK_FOR <- 2
ASSUME PinLimits == Pins!Limits
OnPins == part = "pins" /\ UNCHANGED <<part, vars, v6, v7, v8, v9, v10, more>>

(* Migrations: two processes, one stop; a database some migrations behind,   *)
(* of which some have two statements.                                        *)
Column(t, c) == <<"column", t, c>>
Index(t, i) == <<"index", t, i>>
Lacking ==
    {Column("games", "start_time"), Column("picks", "prop_player"), Column("picks", "prop_market"),
     Column("games", "odds_api_id"), Index("games", "ix_games_odds_api_id"),
     Index("odds", "uq_odds_game_bookmaker"), Column("emailed_picks", "confidence"),
     <<"backfill", "emailed_picks", "confidence">>, <<"row", "strategies", "weather_rain_under">>,
     <<"table", "parlays", "all">>, Column("paper_picks", "parlay_id")}
Updates == INSTANCE Migrations WITH
    schema <- v1, doubled <- v2, allowed <- v3, process <- v4, crashes <- v5, cut <- v6,
    Processes <- {1, 2}, Behind <- {Lacking}, MaxCrashes <- 1
ASSUME UpdateLimits == Updates!MigrationsAssumption
OnUpdates == part = "migrations" /\ UNCHANGED <<part, vars, v7, v8, v9, v10, more>>

(* PropLines: three rows, of which x1 is the first game filed a day late and *)
(* g2 a later one of A, stored with ESPN's id under the day after; C's letters *)
(* occur in B's, and g2 would find the first game but for its id; a player   *)
(* in two blocks of a box score, one who did not play, an old-style block.   *)
Entry(t, p, cells) == [team |-> t, player |-> p, category |-> TRUE, keyed |-> TRUE, aligned |-> TRUE,
                       didNotPlay |-> FALSE, cells |-> cells]
Scoreboard ==
    [e1 |-> [day |-> 1, home |-> "A", away |-> "B", blocks |->
             <<Entry("A", "p", [rushingYards |-> 3, rushingTouchdowns |-> 1]),
               Entry("A", "p", [receivingYards |-> 4, receivingTouchdowns |-> 1]),
               [Entry("A", "q", [receivingYards |-> 0]) EXCEPT !.didNotPlay = TRUE],
               Entry("B", "o", [rushingYards |-> 2])>>],
     e2 |-> [day |-> 2, home |-> "C", away |-> "A", blocks |->
             <<Entry("A", "p", [rushingYards |-> 0, rushingTouchdowns |-> 1]),
               [Entry("A", "p", [YDS |-> 9]) EXCEPT !.keyed = FALSE],
               Entry("A", "q", [receivingYards |-> 1, receivingTouchdowns |-> 0])>>]]
Filed(day, home, away, event, phantom) ==
    [day |-> day, home |-> home, away |-> away, espn |-> event, phantom |-> phantom]
Prop(r, player, label, over, line, counts) ==
    [row |-> r, player |-> player, label |-> label, over |-> over, line |-> line, counts |-> counts]
Lines == INSTANCE PropLines WITH
    final <- v1, merged <- v2, logs <- v3, pass <- v4, market <- v5, outcome <- v6, cut <- v7,
    Events <- Scoreboard, Inside <- [A |-> {"A"}, B |-> {"B", "C"}, C |-> {"C"}],
    Rows <- [g1 |-> Filed(1, "A", "B", None, FALSE), x1 |-> Filed(2, "B", "A", None, TRUE),
             g2 |-> Filed(3, "C", "A", "e2", FALSE)],
    Props <- [b1 |-> Prop("g1", "p", "Touchdowns", TRUE, 1, TRUE),
              b2 |-> Prop("g2", "p", "player_rush_yds", FALSE, 2, TRUE),
              b3 |-> Prop("g1", "q", "player_rush_yds", FALSE, 2, FALSE)],
    Legacy <- {"b1"},
    MarketStats <- [player_touchdowns |-> {"touchdowns"}, player_rush_yds |-> {"rush_yards"}],
    Label <- [player_touchdowns |-> "Touchdowns", player_rush_yds |-> "Rush Yards"],
    KEY_FIELD <- [rushingYards |-> "rush_yards", receivingYards |-> "rec_yards",
                  rushingTouchdowns |-> "touchdowns", receivingTouchdowns |-> "touchdowns"],
    LABEL_FIELD <- [MIN |-> "minutes", PTS |-> "points"], ADDITIVE <- {"touchdowns"},
    FOOTBALL_FIELDS <- {"rush_yards", "rec_yards", "touchdowns"},
    Hollow <- (<<"p", 1>> :> [team |-> "A", fields |-> <<>>, event |-> "e1"])
ASSUME LineLimits == Lines!LinesAssumption /\ Lines!OwnPlayers /\ Lines!Legible
OnLines == part = "lines" /\ UNCHANGED <<part, vars, v8, v9, v10, more>>
RowIds == {"g1", "x1", "g2"}
PropIds == {"b1", "b2", "b3"}

(* PaperBets: one player, one game with a side and a prop, one request, one  *)
(* grading process, of whose passes one may die.                             *)
Bets == INSTANCE PaperBets WITH
    pick <- v1, parlay <- v2, feed <- v3, status <- v4, score <- v5, box <- v6, started <- v7, day <- v8,
    corrected <- v9, lock <- v10, rq <- v11, gpc <- v12, verdict <- v13, props <- v14, unread <- v15,
    pverdict <- v16, todo <- v17, cur <- v18, aborts <- v19,
    Users <- {"user"}, Games <- {"game"}, MaxPicks <- 2, MaxParlays <- 1, Requests <- {"request"},
    Graders <- {"scout"}, StartingBalance <- 1, Sides <- {"home", "prop"}, Stakes <- {1}, Decimals <- {2},
    MaxLegs <- 2, MaxOffer <- 1, GameDate <- [game |-> 1], VoidAfterDays <- 1, StaleScheduledDays <- 1,
    MaxDay <- 2, Corrections <- {}, MaxAborts <- 1
OnBets == part = "bets" /\ UNCHANGED <<part, vars>>

----------------------------------------------------------------------------
MoreRest == /\ v11 = None /\ v12 = None /\ v13 = None /\ v14 = None /\ v15 = None
            /\ v16 = None /\ v17 = None /\ v18 = None /\ v19 = None
LateRest == v8 = None /\ v9 = None /\ v10 = None /\ MoreRest
Rest == v1 = None /\ v2 = None /\ v3 = None /\ v4 = None /\ v5 = None /\ v6 = None /\ v7 = None /\ LateRest
(* ScoutDay's variables where they rest. *)
Resting ==
    /\ now = Dawn /\ listed = {} /\ store = {} /\ up = TRUE /\ cron = Crons /\ jobs = {}
    /\ success = FALSE /\ scout = NoScout /\ digest = NoDigest /\ scouts = 0 /\ plan = "none"
    /\ ran = {} /\ changes = 0 /\ crashes = 0
AllInit ==
    \/ part = "day" /\ Init /\ g3 \in listed \cap store /\ (g2 \in listed) = (g2 \in store) /\ Rest
    \/ part = "games" /\ Table!Init /\ MoreRest /\ Resting
    \/ part = "pins" /\ Pins!Init /\ v6 = None /\ v7 = None /\ LateRest /\ Resting
    \/ part = "migrations" /\ Updates!Init /\ v7 = None /\ LateRest /\ Resting
    \/ part = "lines" /\ Lines!Init /\ LateRest /\ Resting
    \/ part = "bets" /\ Bets!Init /\ Resting

AllNext ==
    \/ OnDay /\ Tick
    \/ OnDay /\ Crash
    \/ OnDay /\ Boot
    \/ OnDay /\ \E t \in Dawn..Dusk : Sleep(t)
    \/ OnDay /\ \E g \in Games : ListChanges(g)
    \/ OnDay /\ Fire
    \/ OnDay /\ ScoutStep
    \/ OnDay /\ \E j \in jobs : FireJob(j)
    \/ OnDay /\ DigestScout
    \/ OnDay /\ WaitTimesOut
    \/ OnDay /\ SendDigest
    \/ OnGames /\ Table!Play("game")
    \/ OnGames /\ Table!Turn("game")
    \/ OnGames /\ Table!FetchAny("scout")
    \/ OnGames /\ Table!Store("scout", "game")
    \/ OnGames /\ Table!Reconcile("scout")
    \/ OnGames /\ Table!Commit("scout")
    \/ OnGames /\ Table!Abort("scout")
    \/ OnGames /\ Table!StartPoll("live")
    \/ OnGames /\ Table!PollFetch("live", "board")
    \/ OnGames /\ Table!PollWrite("live")
    \/ OnGames /\ Table!PollCommit("live")
    \/ OnGames /\ Table!PollAbort("live")
    \/ OnPins /\ \E t \in {1, 2} : Pins!Request(t)
    \/ OnPins /\ \E t \in {1, 2} : Pins!FirstPin(t)
    \/ OnPins /\ \E t \in {1, 2} : Pins!Reserve(t)
    \/ OnPins /\ \E t \in {1, 2} : Pins!Compare(t)
    \/ OnPins /\ Pins!reset_pin
    \/ OnPins /\ Pins!Tick
    \/ OnUpdates /\ \E p \in {1, 2} : Updates!StartUp(p)
    \/ OnUpdates /\ \E p \in {1, 2} : Updates!Inspect(p)
    \/ OnUpdates /\ \E p \in {1, 2} : Updates!Execute(p)
    \/ OnUpdates /\ \E p \in {1, 2} : Updates!Fail(p)
    \/ OnUpdates /\ \E p \in {1, 2} : Updates!Crash(p)
    \/ OnUpdates /\ Updates!dedupe_odds_rows
    \/ OnLines /\ Lines!collect_box_scores_for_final_games
    \/ OnLines /\ Lines!store_stats
    \/ OnLines /\ Lines!Stop
    \/ OnLines /\ \E p \in PropIds : Lines!grade(p)
    \/ OnLines /\ Lines!backfill_prop_fields
    \/ OnLines /\ Lines!refetch_football_box_scores
    \/ OnLines /\ Lines!dedupe_game_logs
    \/ OnLines /\ \E r \in RowIds : Lines!Finish(r)
    \/ OnLines /\ \E r \in RowIds : Lines!Merge(r)
    \/ OnBets /\ Bets!Request("request")
    \/ OnBets /\ Bets!GradeStep("scout")
    \/ OnBets /\ Bets!Abort("scout")
    \/ OnBets /\ Bets!Game("game")
    \/ OnBets /\ Bets!NextDay

(* Each module's fairness (theirs is beside their specifications).  A       *)
(* behaviour is of one module, so that one condition can ask for an action  *)
(* of each of them.                                                         *)
Migrating(p) == Updates!StartUp(p) \/ Updates!Inspect(p) \/ Updates!Execute(p) \/ Updates!Fail(p)
AllFairness ==
    /\ SF_all(\/ OnBets /\ Bets!GradeStep("scout")
              \/ OnGames /\ \E reconcile \in BOOLEAN : Table!Fetch("scout", {"game"}, reconcile))
    /\ SF_all(\/ OnBets /\ Bets!NextDay
              \/ OnGames /\ (Table!Store("scout", "game") \/ Table!Reconcile("scout") \/ Table!Commit("scout")))
    /\ SF_all(OnGames /\ (Table!PollFetch("live", "board") \/ Table!PollWrite("live") \/ Table!PollCommit("live")))
    /\ WF_all(\/ OnBets /\ Bets!Refuse("request")
              \/ OnDay /\ ScoutStep
              \/ OnPins /\ Pins!Tick
              \/ OnUpdates /\ Migrating(1)
              \/ OnLines /\ Lines!collect_box_scores_for_final_games)
    /\ WF_all((OnDay /\ DigestScout) \/ (OnUpdates /\ Migrating(2)) \/ (OnLines /\ Lines!store_stats))
    /\ WF_all((OnDay /\ SendDigest) \/ (OnLines /\ Lines!grade("b1")))
    /\ WF_all(OnLines /\ Lines!grade("b2"))
AllSpec == AllInit /\ [][AllNext]_all /\ AllFairness

----------------------------------------------------------------------------
(* Every variable has a value of its type. *)
TypesOK ==
    CASE part = "day" -> TypeOK
      [] part = "games" -> Table!TypeOK
      [] part = "pins" -> Pins!TypeOK
      [] part = "migrations" -> Updates!TypeOK
      [] part = "lines" -> Lines!TypeOK
      [] part = "bets" -> Bets!TypeOK

(* However many requests run at once, no more PINs are compared within a      *)
(* lock's length than the limit, unless a right one or the owner came between. *)
GuessesBounded == part = "pins" => Pins!GuessesBounded

(* A process that serves has the whole schema, but for the second half of a   *)
(* migration that was cut, and for the index that doubled odds rows forbid.   *)
UpMeansComplete == part = "migrations" => Updates!UpMeansComplete

(* A prop on a game that its date and teams identify is settled by what its   *)
(* player did in it and by nothing else.                                      *)
SettledOnOwnLine == part = "lines" => Lines!SettledOnOwnLine

(* What has begun ends: a finished game's row becomes final with ESPN's score, *)
(* corrections included; a digest whose hour has come is sent, unless the      *)
(* process stops; a PIN's lock ends, however often the player tries; a process *)
(* comes up, though it lost the race for a column, or refuses a legacy table;  *)
(* a prop whose player has numbers in its final game's box score is settled,   *)
(* unless the pass was stopped between two of the game's players; a bet is     *)
(* settled or cashed out, whatever becomes of its game, and announced, unless  *)
(* a pass dies - provided nobody keeps the database busy day and night.        *)
(* Whenever something of this is owed, there is a later time when nothing is.  *)
Owed ==
    CASE part = "games" -> Table!Ended("game") /\ ~Table!Healed("game")
      [] part = "day" -> Due /\ ~Answered
      [] part = "pins" -> Pins!Locked
      [] part = "migrations" -> \E p \in {1, 2} : v4[p].pc \notin {"up", "refused"}
      [] part = "lines" -> \E p \in PropIds : Lines!Gradeable(p) /\ ~Lines!Graded(p)
      [] part = "bets" -> \E k \in Bets!Keys : Bets!Owed(k)
Quiet == part = "bets" => Bets!AtRest
EverythingEnds == []<>Quiet => []<>~Owed
=============================================================================
