----------------------------- MODULE Strategies -----------------------------
(***************************************************************************)
(* The saved strategies and what is done to them: creation, edits,         *)
(* promotion, backtests and the tuner, by the owner's requests running in  *)
(* threads of their own.  A request loads its row first and writes it back *)
(* later, in one transaction; its session keeps the row as it was loaded.  *)
(* A game is what its pick was and how it ended; money is in hundredths of *)
(* a unit, chances and edges in per cent.                                  *)
(***************************************************************************)
EXTENDS Integers, Sequences, FiniteSets, SequencesExt, FiniteSetsExt

CONSTANTS
    Threads,        \* request threads
    Ids,            \* row ids, 1 .. n
    Creations,      \* what may be created: name, strategy_type, sport
    Edges,          \* the bars a config may set
    Grid,           \* the bars the tuner tries, in order
    Picked,         \* what a game's pick may be: edge, stake, result
    Values,         \* a player's statistic in one game
    LOOKBACK,       \* logs a prop backtest needs before a game
    MIN_TRAIN, MIN_VALIDATION, MIN_PICKS,
    Histories,      \* what the requested dates may hold: sequences of Picked
    Logs,           \* and of a player's logs: sequences of Values
    MaxEdits,       \* changes of a config, at most
    None

(* A row's name, kind and sport are given when it is created. *)
Names == {"ensemble", "prop_value", "combat_sports"} \cup {c.name : c \in Creations}
Kinds == {"game", "prop"} \cup {c.strategy_type : c \in Creations}
Sports == {None} \cup {c.sport : c \in Creations}
RowSet == [name : Names, strategy_type : Kinds, sport : Sports, active : BOOLEAN,
           config : [min_edge : Edges, saved : {0, 1}]]
StrategiesAssumption ==
    /\ {1, 2} \subseteq Ids /\ None \notin RowSet
    /\ 3 \in Edges /\ Grid \in Seq(Edges) /\ MaxEdits \in Nat
    /\ Histories \subseteq Seq(Picked) /\ Logs \subseteq Seq(Values)

VARIABLES
    strategies,     \* id -> row (None: none)
    requests,       \* thread -> the request under way (None: idle)
    answer,         \* the report the last step answered with (None: none)
    edits           \* how many configs were changed
vars == <<strategies, requests, answer, edits>>

Row(name, kind, sport, active) ==
    [name |-> name, strategy_type |-> kind, sport |-> sport, active |-> active,
     config |-> [min_edge |-> 3, saved |-> 0]]
Saved == {i \in Ids : strategies[i] # None}

GameStrategies == {"ensemble", "recent_form", "value_only", "sport_specific"}
STRATEGY_MAP == GameStrategies \cup {"prop_value", "combat_sports"}
promotable(kind) ==
    CASE kind = "prop" -> {"prop_value"}
      [] kind = "game" -> STRATEGY_MAP \ {"prop_value", "combat_sports"}
      [] OTHER -> {}
(* What the scheduler and the pipelines take: any active row of the kind. *)
Active(kind) == {i \in Saved : strategies[i].active /\ strategies[i].strategy_type = kind}

----------------------------------------------------------------------------
(* Backtests *)
Payout == 91
Bets(played, min_edge) == SelectSeq(played, LAMBDA g : g.edge >= min_edge)
Placed(played, min_edge) == SelectSeq(Bets(played, min_edge), LAMBDA g : g.stake > 0)
(* A stake of nothing was not placed and a result of None was not gradable. *)
Counted(played, min_edge) == SelectSeq(Placed(played, min_edge), LAMBDA g : g.result # None)
Outcomes(played, min_edge, result) ==
    Len(SelectSeq(Counted(played, min_edge), LAMBDA g : g.result = result))
Profit(g) == g.stake * (CASE g.result = "win" -> Payout [] g.result = "loss" -> -100 [] OTHER -> 0)
Summed(F(_), s) == MapThenSumSet(LAMBDA i : F(s[i]), DOMAIN s)
run(played, min_edge) ==
    LET counted == Counted(played, min_edge)
        risked == Summed(LAMBDA g : g.stake, counted)
    IN [wins |-> Outcomes(played, min_edge, "win"), losses |-> Outcomes(played, min_edge, "loss"),
        pushes |-> Outcomes(played, min_edge, "push"),
        no_bet |-> Len(Bets(played, min_edge)) - Len(Placed(played, min_edge)),
        roi |-> IF risked = 0 THEN 0 ELSE Summed(Profit, counted) \div risked]
Total(result) == result.wins + result.losses

(* PropBacktester: the line is the mean of the logs before the game; the side, *)
(* of the recent mean against it.                                              *)
Mean(s) == (100 * Summed(LAMBDA v : v, s)) \div Len(s)
Projection(prior) ==
    (4 * Mean(prior) + 6 * Mean(SubSeq(prior, Len(prior) - LOOKBACK + 1, Len(prior)))) \div 10
(* The game's own log among those before it. *)
UpTo(i, s) == SubSeq(s, 1, i)
Before(i, s) == SubSeq(s, 1, i - 1)
Side(i, s) ==
    LET prior == Before(i, s) IN
    IF Len(prior) < LOOKBACK \/ Mean(prior) = 0 \/ Projection(prior) = Mean(prior) THEN None
    ELSE IF Projection(prior) > Mean(prior) THEN "over" ELSE "under"
Tested(s) == {i \in DOMAIN s : Side(i, s) # None}
backtest(i, s) ==
    LET line == Mean(Before(i, s))
    IN [predicted |-> Side(i, s), line |-> line,
        correct |-> IF Side(i, s) = "over" THEN 100 * s[i] > line ELSE 100 * s[i] < line]

----------------------------------------------------------------------------
(* The tuner *)
Split(played) == (7 * Len(played)) \div 10
WalkForward(played) == Split(played) >= MIN_TRAIN /\ Len(played) - Split(played) >= MIN_VALIDATION
Train(played) == IF WalkForward(played) THEN SubSeq(played, 1, Split(played)) ELSE played
Validation(played) ==
    IF WalkForward(played) THEN SubSeq(played, Split(played) + 1, Len(played)) ELSE played
Eligible(train) ==
    {i \in DOMAIN Grid : Total(run(train, Grid[i])) >= Max({MIN_PICKS, Len(train) \div 20})}
Score(train, i) == run(train, Grid[i]).roi
(* The first of the best, None where no bar makes enough picks. *)
Best(train) ==
    LET best == {i \in Eligible(train) : \A j \in Eligible(train) : Score(train, j) <= Score(train, i)}
    IN  IF best = {} THEN None ELSE Grid[Min(best)]
tune_game_strategy(played) ==
    LET best == Best(Train(played)) IN
    [games |-> played, walk_forward |-> WalkForward(played), best |-> best,
     validation |-> IF best = None THEN None ELSE run(Validation(played), best)]

----------------------------------------------------------------------------
Seeds == <<Row("ensemble", "game", None, TRUE), Row("prop_value", "prop", None, TRUE)>>
Init ==
    /\ strategies = [i \in Ids |-> IF i \in DOMAIN Seeds THEN Seeds[i] ELSE None]
    /\ requests = [t \in Threads |-> None]
    /\ answer = None /\ edits = 0

(* migrate_combat_sports_strategy, at the start: by name, and inactive. *)
migrate_combat_sports_strategy ==
    /\ \A i \in Saved : strategies[i].name # "combat_sports"
    /\ \E i \in Ids \ Saved :
          strategies' = [strategies EXCEPT ![i] = Row("combat_sports", "game", None, FALSE)]
    /\ answer' = None /\ UNCHANGED <<requests, edits>>

create_strategy ==
    /\ \E c \in Creations, i \in Ids \ Saved :
          strategies' = [strategies EXCEPT ![i] = Row(c.name, c.strategy_type, c.sport, FALSE)]
    /\ answer' = None /\ UNCHANGED <<requests, edits>>

(* A request loads its row; a promotion of what cannot run is refused. *)
Load(t) ==
    /\ requests[t] = None
    /\ \E i \in Saved, op \in {"promote", "update", "tune", "backtest"} :
          /\ op = "promote" => strategies[i].name \in promotable(strategies[i].strategy_type)
          /\ op = "tune" => strategies[i].strategy_type # "prop" /\ strategies[i].name \in STRATEGY_MAP
          /\ op = "backtest" => strategies[i].strategy_type = "prop"
          /\ requests' = [requests EXCEPT ![t] = [op |-> op, id |-> i, row |-> strategies[i]]]
    /\ answer' = None /\ UNCHANGED <<strategies, edits>>

(* Every row of the kind is switched off, then this one on: one transaction. *)
Promoted(i, row) ==
    [j \in Ids |->
        IF j = i THEN [strategies[j] EXCEPT !.active = TRUE]
        ELSE IF j \in Saved /\ strategies[j].strategy_type = row.strategy_type
        THEN [strategies[j] EXCEPT !.active = FALSE] ELSE strategies[j]]
promote_strategy(t) ==
    /\ requests[t] # None /\ requests[t].op = "promote"
    /\ strategies' = Promoted(requests[t].id, requests[t].row)
    /\ requests' = [requests EXCEPT ![t] = None]
    /\ answer' = None /\ UNCHANGED edits

(* The session writes a config only where it differs from the one it loaded. *)
Written(request, config) ==
    IF config = request.row.config THEN strategies
    ELSE [strategies EXCEPT ![request.id].config = config]
update_strategy(t) ==
    /\ requests[t] # None /\ requests[t].op = "update"
    /\ edits < MaxEdits /\ edits' = edits + 1
    /\ \E e \in Edges, saved \in {0, 1} :
          strategies' = Written(requests[t], [min_edge |-> e, saved |-> saved])
    /\ requests' = [requests EXCEPT ![t] = None] /\ answer' = None

(* The best bar is merged into the config as it was loaded. *)
apply_tuned_config(request, best) ==
    IF best = None THEN strategies ELSE Written(request, [request.row.config EXCEPT !.min_edge = best])
auto_tune(t) ==
    /\ requests[t] # None /\ requests[t].op = "tune"
    /\ edits < MaxEdits /\ edits' = edits + 1
    /\ \E played \in Histories, apply_best \in BOOLEAN :
          LET report == tune_game_strategy(played) IN
          /\ answer' = report
          /\ strategies' = IF apply_best THEN apply_tuned_config(requests[t], report.best) ELSE strategies
    /\ requests' = [requests EXCEPT ![t] = None]

(* A prop strategy's backtest: a pick for each log that has enough before it. *)
PropBacktest(t) ==
    /\ requests[t] # None /\ requests[t].op = "backtest"
    /\ \E s \in Logs : answer' = [logs |-> s, picks |-> [i \in Tested(s) |-> backtest(i, s)]]
    /\ requests' = [requests EXCEPT ![t] = None] /\ UNCHANGED <<strategies, edits>>

Next == \/ migrate_combat_sports_strategy \/ create_strategy
        \/ \E t \in Threads :
              Load(t) \/ promote_strategy(t) \/ update_strategy(t) \/ auto_tune(t) \/ PropBacktest(t)
Spec == Init /\ [][Next]_vars

----------------------------------------------------------------------------
TypeOK ==
    /\ \A i \in Saved : strategies[i] \in RowSet
    /\ \A t \in Threads : requests[t] # None => requests[t].id \in Saved
    /\ edits \in 0 .. MaxEdits

(* Whatever the owner's requests do to each other, each kind the pipelines   *)
(* run has one active strategy, of a name they can run: promoting one kind   *)
(* never switches the other off, and the fights' strategy never takes over.  *)
OneOfEachKind ==
    \A kind \in {"game", "prop"} :
        /\ Cardinality(Active(kind)) = 1
        /\ \A i \in Active(kind) : strategies[i].name \in promotable(kind)

(* Nothing is judged with hindsight: what the tuner chooses does not depend  *)
(* on the games it validates on, nor a prop backtest's side and line on the  *)
(* game they are for or a later one.                                         *)
NoHindsight ==
    IF answer = None THEN TRUE
    ELSE IF "logs" \in DOMAIN answer
    THEN \A i \in DOMAIN answer.logs : \A j \in i .. Len(answer.logs), v \in Values :
            LET s == [answer.logs EXCEPT ![j] = v]
                other == backtest(i, s)
            IN  /\ i \in DOMAIN answer.picks <=> i \in Tested(s)
                /\ i \in DOMAIN answer.picks =>
                       other.predicted = answer.picks[i].predicted /\ other.line = answer.picks[i].line
    ELSE answer.walk_forward =>
            \A i \in Split(answer.games) + 1 .. Len(answer.games), g \in Picked :
                tune_game_strategy([answer.games EXCEPT ![i] = g]).best = answer.best
=============================================================================
