----------------------------- MODULE Selection -----------------------------
(***************************************************************************)
(* How a game's picks are chosen, starred, sized and measured against the  *)
(* close: one game, its books' rows, what the model says of it, the tier   *)
(* thresholds the nightly recalibration moves, the settled results the     *)
(* bankroll and the calibration are read from, and the run that stores the *)
(* picks.  Lines are in tenths of a point, chances in per cent, stakes in  *)
(* hundredths of a unit.                                                   *)
(***************************************************************************)
EXTENDS Integers, Sequences, FiniteSets, SequencesExt, FiniteSetsExt

CONSTANTS
    Books,         \* bookmakers, with one row each
    Quotes,        \* what a book may show (a price or a line it lacks: None)
    Contests,      \* [sport, name]: the game's sport and the active strategy
    Models,        \* what the model may say of the game
    Settlements,   \* results other picks may get: tier, outcome, payout, published
    MIN_PICKS_PER_TIER, MAX_PICKS_PER_TIER,   \* the recalibrator's sample
    MIN_CALIBRATION_SAMPLE,                   \* the sizer's sample
    UNITS_PER_BANKROLL,
    MaxUpdates,    \* changes of a book's row, at most
    MaxViews,      \* changes of the model's view, at most
    MaxResults,    \* settlements, at most
    MaxNights,     \* recalibrations, at most
    None

VARIABLES
    contest,       \* the game's sport and the strategy's name
    rows,          \* each book's row (None: it has none)
    model,         \* what the model says now
    thresholds,    \* tier -> the least edge, in per cent
    results,       \* the settled picks, oldest first
    stored,        \* market -> the stored pick (None: none)
    started,       \* whether the game has started, and was graded after
    count,         \* the bounds' counters
    same           \* history: since the last run nothing changed but losses
vars == <<contest, rows, model, thresholds, results, stored, started, count, same>>

Tiers == 1 .. 5
Markets == {"moneyline", "spread", "over_under"}
Other(side) == CASE side = "HOME" -> "AWAY" [] side = "AWAY" -> "HOME"
                 [] side = "Over" -> "Under" [] side = "Under" -> "Over"
Sides(market) == IF market = "over_under" THEN <<"Over", "Under">> ELSE <<"HOME", "AWAY">>
COMBAT_SPORTS == {"mma", "boxing"}
TRACKING_ONLY_SPORTS == COMBAT_SPORTS
EVERY_GAME_SPORTS == {"nfl"}
LINES_TRACKED_SPORTS == {"nfl", "mlb", "ncaaf"}

----------------------------------------------------------------------------
(* Prices *)
Size(x) == IF x < 0 THEN -x ELSE x
Usable(o) == o # None /\ o # 0 /\ Size(o) >= 100
Nearest(a, b) == (2 * a + b) \div (2 * b)
(* In millionths. *)
american_to_implied_prob(o) ==
    IF o < 0 THEN (Size(o) * 1000000) \div (Size(o) + 100) ELSE (100 * 1000000) \div (o + 100)
prob_to_american(p) ==
    IF 2 * p >= 1000000 THEN -Max({100, Nearest(100 * p, 1000000 - p)})
    ELSE Max({100, Nearest(100 * (1000000 - p), p)})
calculate_payout(o) == IF o < 0 THEN 100000 \div Size(o) ELSE 10 * o
(* In hundredths of a percentage point: over the break-even chance of the price. *)
value_edge(chance, o) == 100 * chance - american_to_implied_prob(o) \div 100

Consensus(quotes, field) ==
    LET usable == {b \in DOMAIN quotes : Usable(quotes[b][field])} IN
    IF usable = {} THEN None
    ELSE prob_to_american(MapThenSumSet(LAMBDA b : american_to_implied_prob(quotes[b][field]), usable)
                          \div Cardinality(usable))
consensus_line(quotes, field) ==
    LET lined == {b \in DOMAIN quotes : quotes[b][field] # None} IN
    IF lined = {} THEN None
    ELSE Nearest(MapThenSumSet(LAMBDA b : quotes[b][field], lined), Cardinality(lined))

average_odds(quotes) ==
    IF Consensus(quotes, "HOME") = None \/ Consensus(quotes, "AWAY") = None THEN None
    ELSE [prices |-> [HOME |-> Consensus(quotes, "HOME"), AWAY |-> Consensus(quotes, "AWAY"),
                     Over |-> Consensus(quotes, "Over"), Under |-> Consensus(quotes, "Under"),
                     homeSpread |-> Consensus(quotes, "homeSpread"),
                     awaySpread |-> Consensus(quotes, "awaySpread")],
          lines |-> [line |-> consensus_line(quotes, "line"), total |-> consensus_line(quotes, "total")]]
PriceField(market, side) ==
    IF market # "spread" THEN side ELSE IF side = "HOME" THEN "homeSpread" ELSE "awaySpread"
PriceOf(avg, market, side) == avg.prices[PriceField(market, side)]
(* The line as the side has it: a spread's mirror for AWAY. *)
LineOf(avg, market, side) ==
    CASE market = "moneyline" -> None
      [] market = "over_under" -> avg.lines["total"]
      [] OTHER -> IF avg.lines["line"] = None \/ side = "HOME" THEN avg.lines["line"] ELSE -avg.lines["line"]

Rows == {b \in Books : rows[b] # None}
(* _build_game_data: the rows as the strategy gets them; a missing line reads 0. *)
OrZero(x) == IF x = None THEN 0 ELSE x
GameOdds == [b \in Rows |-> [rows[b] EXCEPT !["line"] = OrZero(@), !["total"] = OrZero(@)]]

----------------------------------------------------------------------------
(* The model's chances *)
Clamp(x, low, high) == Max({low, Min({high, x})})
(* _check_schedule_fatigue: the third game in four nights, in per cent. *)
Fatigue(side) ==
    IF contest.sport = "nba" /\ model.recent[side] >= 2 THEN Min({model.recent[side], 3}) ELSE 0
(* _check_lookahead_spot: a mismatch before a game against an equal. *)
Lookahead(side) ==
    /\ model.elo[side] - model.elo[Other(side)] >= 100
    /\ model.next[side] # None /\ model.next[side] > model.elo[side] - 50
calibrated_probability ==
    LET Spot(side) == IF Lookahead(side) THEN 4 ELSE 0
    IN Clamp(model.base + Fatigue("AWAY") - Fatigue("HOME") + Spot("AWAY") - Spot("HOME"), 1, 99)
(* The chance that the result passes the line: four per cent for each point. *)
Beyond(predicted, line) == Clamp(50 + (4 * (predicted - line)) \div 10, 0, 100)

FirstChance(market, avg) ==
    CASE market = "moneyline" ->
            IF contest.name = "ensemble" /\ contest.sport \notin COMBAT_SPORTS
            THEN calibrated_probability ELSE model.base
      [] market = "spread" -> Beyond(model.margin, -avg.lines["line"])
      [] OTHER -> Beyond(model.points, avg.lines["total"])
Chance(market, side, avg) ==
    IF side = Head(Sides(market)) THEN FirstChance(market, avg) ELSE 100 - FirstChance(market, avg)

(* A signal is available when it separates the teams. *)
Signals == {"point_diff", "elo", "net"}
Reading(signal, side) ==
    CASE signal = "point_diff" -> model.form[side] [] signal = "elo" -> model.elo[side] [] OTHER -> model.net[side]
Favours(signal, side) == Reading(signal, side) > Reading(signal, Other(side))
Agreeing(side) == {s \in Signals : Favours(s, side)}
Available(side) == Agreeing(side) \cup Agreeing(Other(side))
(* <<agreeing, available>>, as each strategy counts them. *)
Votes(market, side) ==
    CASE contest.sport \in COMBAT_SPORTS -> <<2, 3>>
      [] market = "over_under" -> <<0, 0>>
      [] contest.name = "recent_form" -> <<1, 3>>
      [] contest.name = "ensemble" -> <<Cardinality(Agreeing(side)), Cardinality(Available(side))>>
      [] OTHER -> <<Cardinality(Agreeing(side)), 3>>
(* _build_factors: what may be shown for the side, of what the strategy reads. *)
FACTOR_CODES ==
    CASE contest.sport \in COMBAT_SPORTS -> {}
      [] contest.name = "recent_form" -> {"point_diff"}
      [] contest.name = "value_only" -> Signals
      [] OTHER -> Signals \cup {"schedule_fatigue", "lookahead_spot"}
build_factors(market, side) ==
    IF market # "moneyline" THEN {}
    ELSE {[code |-> c, side |-> side] : c \in FACTOR_CODES \cap
            (Agreeing(side)
             \cup {c \in {"schedule_fatigue"} : Fatigue(Other(side)) > 0}
             \cup {c \in {"lookahead_spot"} : Lookahead(Other(side))})}

----------------------------------------------------------------------------
(* Stars *)
DEFAULT_THRESHOLDS == <<3, 5, 5, 8, 12>>
DEFAULT_MIN_MODELS == <<0, 1, 2, 2, 3>>
(* So many of three, in proportion to the signals there are, rounded up. *)
Required(tier, available) == (DEFAULT_MIN_MODELS[tier] * available + 2) \div 3
(* A dead signal read as agreement with nothing asked of it. *)
UnsupportedConfidence(edge, votes) ==
    Max({0} \cup {t \in Tiers : edge >= 100 * thresholds[t] /\ votes[1] >= Required(t, votes[2])})
calculate_confidence(edge, votes) ==
    Max({0} \cup {t \in Tiers :
        /\ edge >= 100 * thresholds[t]
        /\ IF votes[2] = 0 THEN DEFAULT_MIN_MODELS[t] = 0 ELSE votes[1] >= Required(t, votes[2])})

----------------------------------------------------------------------------
(* Sizing *)
Published == SelectSeq(results, LAMBDA r : r.published)
Gain(r) == CASE r.outcome = "win" -> r.payout [] r.outcome = "loss" -> -100 [] OTHER -> 0
(* bankroll_from_results, after the first n results. *)
Balance(n) == 100 * UNITS_PER_BANKROLL + MapThenSumSet(LAMBDA i : Gain(Published[i]), 1 .. n)
Peak == Max({Balance(n) : n \in 0 .. Len(Published)})

EXPECTED_WIN_RATES == <<50, 53, 57, 63, 70>>
Decided == SelectSeq(results, LAMBDA r : r.outcome \in {"win", "loss"})
(* _calibration_deviation, in hundredths of a percentage point; of every pick, *)
(* published or not.                                                          *)
deviation ==
    LET n == Len(Decided)
        Miss(i) == (IF Decided[i].outcome = "win" THEN 100 ELSE 0) - EXPECTED_WIN_RATES[Decided[i].tier]
    IN IF n < MIN_CALIBRATION_SAMPLE THEN None
       ELSE Size(100 * MapThenSumSet(Miss, 1 .. n)) \div n

(* In thousandths. *)
KELLY_FRACTION == 250
adaptive_fraction ==
    CASE deviation = None -> KELLY_FRACTION
      [] OTHER -> IF deviation <= 300 THEN 350 ELSE IF deviation <= 500 THEN 250 ELSE 150
(* The protection the wrong way round. *)
InProfit == 100 * (Peak - Balance(Len(Published))) < 15 * Peak
InDrawdown == 100 * (Peak - Balance(Len(Published))) >= 15 * Peak
sizing_fraction(bets) ==
    LET adapted == adaptive_fraction
        protected == IF InDrawdown THEN adapted \div 2 ELSE adapted
    IN IF bets > 1 THEN (protected * 8) \div 10 ELSE protected

NO_BET == 0
MIN_UNIT == 50
MAX_UNIT == 300
fractional_kelly(chance, o, fraction) ==
    LET b == calculate_payout(o)
        surplus == b * chance - 1000 * (100 - chance)
    IN IF surplus <= 0 THEN NO_BET ELSE Clamp((surplus * fraction) \div (10 * b), MIN_UNIT, MAX_UNIT)

----------------------------------------------------------------------------
(* What the strategy picks *)
MinEdge == IF contest.name = "value_only" THEN 1000 ELSE 500
MaxEdge == 2000
Capped == contest.name = "ensemble" /\ contest.sport \notin COMBAT_SPORTS

(* Spreads and totals: the ensemble's only, tracked, and at real prices of both sides. *)
Priced(market, avg) ==
    CASE avg = None -> FALSE
      [] market = "moneyline" -> contest.sport \in COMBAT_SPORTS => model.known
      [] OTHER -> /\ Capped /\ contest.sport \in LINES_TRACKED_SPORTS
                  /\ LineOf(avg, market, Head(Sides(market))) # None
                  /\ \A i \in 1 .. 2 : PriceOf(avg, market, Sides(market)[i]) # None
Edge(market, side, avg) == value_edge(Chance(market, side, avg), PriceOf(avg, market, side))
Takeable(edge) == edge >= MinEdge /\ (Capped => edge < MaxEdge)

(* The first side the rule takes, the second being asked only then.  Of a   *)
(* sport picked on every game, the larger edge where neither clears the bar. *)
Chosen(market, avg) ==
    LET first == Sides(market)[1]
        second == Sides(market)[2]
        firstEdge == Edge(market, first, avg)
        secondEdge == Edge(market, second, avg)
    IN CASE ~Priced(market, avg) -> None
         [] Takeable(firstEdge) /\ (contest.name = "value_only" => firstEdge >= secondEdge) -> first
         [] Takeable(secondEdge) -> second
         [] Capped /\ market = "moneyline" /\ contest.sport \in EVERY_GAME_SPORTS ->
                IF firstEdge >= secondEdge THEN first ELSE second
         [] OTHER -> None

Tier(market, side, avg) ==
    IF Takeable(Edge(market, side, avg))
    THEN calculate_confidence(Edge(market, side, avg), Votes(market, side)) ELSE 1
is_no_information(chance) == chance = 50
(* A line of a tracked sport, a chance of exactly a half, or a tracked sport. *)
TrackingOnly(market, chance) ==
    market # "moneyline" \/ is_no_information(chance) \/ contest.sport \in TRACKING_ONLY_SPORTS

(* The strategy's own stake: what a tracked pick keeps. *)
OwnStake(chance, o) ==
    IF contest.name \in {"ensemble", "recent_form"} /\ contest.sport \notin COMBAT_SPORTS
    THEN fractional_kelly(chance, o, KELLY_FRACTION) ELSE 100
Predicted(market, avg) ==
    LET side == Chosen(market, avg) IN
    IF side = None THEN None
    ELSE LET chance == Chance(market, side, avg) IN
         [side |-> side, tier |-> Tier(market, side, avg), chance |-> chance,
             odds |-> PriceOf(avg, market, side), line |-> LineOf(avg, market, side),
             factors |-> build_factors(market, side), tracked |-> TrackingOnly(market, chance),
             stake |-> OwnStake(chance, PriceOf(avg, market, side)),
             emailed |-> FALSE, withdrawn |-> FALSE, clv |-> None, unmoved |-> TRUE]

predict ==
    LET avg == average_odds(GameOdds) IN
    [moneyline |-> Predicted("moneyline", avg), spread |-> Predicted("spread", avg),
     over_under |-> Predicted("over_under", avg)]
Keepers(picks) == {m \in Markets : picks[m] # None /\ picks[m].tier >= 1 /\ ~picks[m].tracked}
(* The bets among them re-sized; what earns no star is not stored. *)
Sized(picks) ==
    LET fraction == sizing_fraction(Cardinality(Keepers(picks))) IN
    [m \in Markets |->
        LET pick == picks[m] IN
        CASE m \in Keepers(picks) -> [pick EXCEPT !.stake = fractional_kelly(pick.chance, pick.odds, fraction)]
          [] pick = None \/ pick.tier = 0 -> None
          [] OTHER -> pick]

_refresh_pick(old, new) ==
    [new EXCEPT !.emailed = old.emailed, !.tracked = IF old.emailed THEN old.tracked ELSE @]
_withdraw_stale(old) == IF old = None \/ old.emailed THEN old ELSE [old EXCEPT !.withdrawn = TRUE]

----------------------------------------------------------------------------
(* The close *)
closing_consensus == average_odds([b \in Rows |-> rows[b]])
compute_pick_clv(market, pick) ==
    LET close == closing_consensus IN
    CASE close = None -> None
      [] market = "moneyline" ->
            american_to_implied_prob(PriceOf(close, market, pick.side)) - american_to_implied_prob(pick.odds)
      [] OTHER -> LET line == LineOf(close, market, pick.side)
                  IN IF line = None THEN None
                     ELSE IF pick.side = "Over" THEN line - pick.line ELSE pick.line - line

----------------------------------------------------------------------------
(* Recalibration: each tier on its newest published decided picks. *)
Sample(tier) ==
    LET ofTier == SelectSeq(Published, LAMBDA r : r.tier = tier)
        n == Len(ofTier)
    IN SubSeq(ofTier, Max({1, n - MAX_PICKS_PER_TIER + 1}), n)
Judged(tier) == SelectSeq(Sample(tier), LAMBDA r : r.outcome # "push")
WinRateAbove(tier) ==   \* over the expected rate, in per cent of a pick, summed
    MapThenSumSet(LAMBDA i : (IF Judged(tier)[i].outcome = "win" THEN 100 ELSE 0) - EXPECTED_WIN_RATES[tier],
                  1 .. Len(Judged(tier)))
Moved(tier) ==
    LET n == Len(Judged(tier)) IN
    IF n < MIN_PICKS_PER_TIER \/ Size(WinRateAbove(tier)) < 5 * n THEN thresholds[tier]
    ELSE IF WinRateAbove(tier) < 0 THEN thresholds[tier] + 1 ELSE Max({1, thresholds[tier] - 1})

----------------------------------------------------------------------------
Init ==
    /\ contest \in Contests /\ model \in Models
    /\ rows \in [Books -> Quotes \cup {None}]
    /\ thresholds = DEFAULT_THRESHOLDS /\ results = <<>>
    /\ stored = [m \in Markets |-> None] /\ started = FALSE
    /\ count = [updates |-> 0, views |-> 0, nights |-> 0] /\ same = FALSE

(* generate_and_store_picks, for this game. *)
generate_and_store_picks ==
    /\ ~started
    /\ LET predicted == predict
           produced == Sized(predicted)
       IN stored' = [m \in Markets |->
              LET new == produced[m] IN
              IF new = None THEN _withdraw_stale(stored[m])
              ELSE IF stored[m] = None THEN new ELSE _refresh_pick(stored[m], new)]
    /\ same' = TRUE
    /\ UNCHANGED <<contest, rows, model, thresholds, results, started, count>>

FeedBook(b) ==
    /\ ~started /\ count.updates < MaxUpdates /\ count' = [count EXCEPT !.updates = @ + 1]
    /\ \E q \in Quotes \ {rows[b]} : rows' = [rows EXCEPT ![b] = q]
    /\ stored' = [m \in Markets |-> IF stored[m] = None THEN None ELSE [stored[m] EXCEPT !.unmoved = FALSE]]
    /\ same' = FALSE
    /\ UNCHANGED <<contest, model, thresholds, results, started>>

(* The statistics are refreshed. *)
Review ==
    /\ ~started /\ count.views < MaxViews /\ count' = [count EXCEPT !.views = @ + 1]
    /\ \E v \in Models \ {model} : model' = v
    /\ same' = FALSE
    /\ UNCHANGED <<contest, rows, thresholds, results, stored, started>>

(* Another game's pick is graded. *)
Settle ==
    /\ ~started /\ Len(results) < MaxResults
    /\ \E r \in Settlements : results' = Append(results, r) /\ same' = (same /\ r.outcome = "loss")
    /\ UNCHANGED <<contest, rows, model, thresholds, stored, started, count>>

(* run_recalibration: one step for each tier that is off, every night. *)
Recalibrate ==
    /\ ~started /\ count.nights < MaxNights /\ count' = [count EXCEPT !.nights = @ + 1]
    /\ thresholds' = [t \in Tiers |-> Moved(t)]
    /\ same' = (same /\ thresholds' = thresholds)
    /\ UNCHANGED <<contest, rows, model, results, stored, started>>

(* The digest mails a standing published pick. *)
Email ==
    /\ ~started
    /\ \E m \in Markets :
          /\ stored[m] # None /\ ~stored[m].tracked /\ ~stored[m].withdrawn /\ ~stored[m].emailed
          /\ stored' = [stored EXCEPT ![m].emailed = TRUE]
    /\ UNCHANGED <<contest, rows, model, thresholds, results, started, count, same>>

(* The game starts, ends and is graded: capture_closing_odds. *)
Grade ==
    /\ ~started /\ started' = TRUE
    /\ stored' = [m \in Markets |-> IF stored[m] = None \/ stored[m].withdrawn THEN stored[m]
                                    ELSE [stored[m] EXCEPT !.clv = compute_pick_clv(m, stored[m])]]
    /\ UNCHANGED <<contest, rows, model, thresholds, results, count, same>>

Next == \/ generate_and_store_picks \/ Review \/ Settle \/ Recalibrate \/ Email \/ Grade
        \/ \E b \in Books : FeedBook(b)
Spec == Init /\ [][Next]_vars

----------------------------------------------------------------------------
TypeOK ==
    /\ contest \in Contests /\ model \in Models /\ rows \in [Books -> Quotes \cup {None}]
    /\ \A t \in Tiers : thresholds[t] >= 1
    /\ \A m \in Markets : stored[m] # None =>
          /\ stored[m].side \in Range(Sides(m)) /\ stored[m].tier \in Tiers
          /\ stored[m].stake = NO_BET \/ stored[m].stake \in MIN_UNIT .. MAX_UNIT

(* A moneyline of two stars or more shows the reader a signal for its side, where *)
(* the strategy counts signals: through flipped picks, dead signals and      *)
(* thresholds the recalibration has moved past each other.                   *)
StarsHaveReasons ==
    contest.name # "recent_form" /\ contest.sport \notin COMBAT_SPORTS =>
        LET pick == stored["moneyline"] IN
        pick # None /\ pick.tier >= 2 =>
            \E f \in pick.factors : f.code \in Signals /\ f.side = pick.side

(* Losing never raises a stake: with nothing else changed since the last run *)
(* and the calibration not yet measured, a run after losses stakes no more.  *)
LossRaisesNothing ==
    same /\ deviation = None =>
        \A m \in Markets : stored[m] # None => stored'[m].stake <= stored[m].stake
LossesNeverRaise == [][LossRaisesNothing]_vars

(* Closing line value is movement: a pick whose market no book has moved     *)
(* since it was priced beats the close by nothing.                           *)
NoMoveNoCLV ==
    \A m \in Markets : stored[m] # None /\ stored[m].unmoved => stored[m].clv \in {0, None}
=============================================================================
