----------------------------- MODULE TeamStats -----------------------------
(***************************************************************************)
(* The features and ratings of a team sport: team_stats rows, recomputed   *)
(* for the games a pass touched; elo_history, replayed whole by every      *)
(* pass; and what an upcoming game is priced on.                           *)
(* A stored statistic is kept as the results it was computed from, a mean  *)
(* as the results it averages, a count as the results it counts.  A rating *)
(* is a whole number: Movement stands for the logistic curve and the       *)
(* margin multiplier, and depends on what they depend on.                  *)
(***************************************************************************)
EXTENDS Integers, FiniteSets, FiniteSetsExt

CONSTANTS
    Teams,
    Fixture,           \* the games, numbered by id: home, away, day, season, neutral
    Scores,            \* <<home, away>> finals
    DEFAULT_LOOKBACK, MIN_VENUE_GAMES,
    Seed, HomeEdge,    \* the initial rating, the home side's advantage
    MaxResults,        \* results entered or corrected, at most
    Boxable,           \* games whose box score the source has
    Absent, Scheduled, None

VARIABLES
    game,              \* row of a game: Absent, Scheduled or its final score
    boxes,             \* games with both team_box_scores rows
    stats,             \* team_stats: game -> side -> statistic -> results
    elo,               \* elo_history: game -> the two pre-game ratings
    rating,            \* the elo_ratings table
    entered,           \* results entered so far
    replayed           \* history: no result has moved since the last replay
vars == <<game, boxes, stats, elo, rating, entered, replayed>>

Fixtures == DOMAIN Fixture
StatsAssumption ==
    /\ IsFiniteSet(Fixtures) /\ None \notin Nat
    /\ \A g \in Fixtures :
          /\ g \in Nat /\ Fixture[g].day \in Nat /\ Fixture[g].season # None
          /\ Fixture[g].home \in Teams /\ Fixture[g].away \in Teams
    /\ Scores \subseteq Int \X Int /\ {Absent, Scheduled} \cap Scores = {}
    /\ {Seed, HomeEdge} \subseteq Int /\ MaxResults \in Nat

Sides == {"home", "away"}
Day(g) == Fixture[g].day
Side(g, t) == IF Fixture[g].home = t THEN "home" ELSE "away"
Plays(g, t) == t \in {Fixture[g].home, Fixture[g].away}
Team(g, s) == IF s = "home" THEN Fixture[g].home ELSE Fixture[g].away
Earlier(g, h) == Day(g) < Day(h) \/ (Day(g) = Day(h) /\ g < h)
Latest(S) == IF S = {} THEN None ELSE CHOOSE g \in S : \A h \in S \ {g} : Earlier(h, g)
_final_games == {g \in Fixtures : game[g] \in Scores}
Stored(g) == game[g] # Absent

----------------------------------------------------------------------------
(* The statistics of one team going into a day, each of a set of games. *)
up_to(S, day) == {g \in S : Day(g) <= day}
strictly_before(S, day) == {g \in S : Day(g) < day}

_team_games(S, t) == {g \in S : Plays(g, t)}
LastN(S) == {g \in S : Cardinality({h \in S : Earlier(g, h)}) < DEFAULT_LOOKBACK}

_points_for_against(g, t) ==
    [game |-> g, for |-> game[g][IF Side(g, t) = "home" THEN 1 ELSE 2],
     against |-> game[g][IF Side(g, t) = "home" THEN 2 ELSE 1]]
Lines(S, t) == {_points_for_against(g, t) : g \in S}
opponent_rates(S) == UNION {Lines(_team_games(S, u), u) : u \in Teams}

(* Enough games at a venue, or any game at all: else the value is absent. *)
_at_venue(S, t, venue) == {g \in S : ~Fixture[g].neutral /\ Side(g, t) = venue}
rolling_points == [games |-> 1, venue |-> MIN_VENUE_GAMES]
Rolling(S, t, least) ==
    LET lines == Lines(LastN(S), t) IN IF Cardinality(lines) >= least THEN lines ELSE None

(* The team's last games, each shifted by what its opponent and the league do. *)
adjusted_points(S, t) ==
    IF _team_games(S, t) = {} THEN None ELSE Lines(LastN(_team_games(S, t)), t) \cup opponent_rates(S)

rest_days(S, t) == {line \in Lines(S, t) : \A h \in S : ~Earlier(line.game, h)}

Won(lines) == {line \in lines : line.for > line.against}
Lost(lines) == {line \in lines : line.for < line.against}

_box_pairs(S, boxed) == LastN(S) \cap boxed
rolling_ratings(S, t, boxed) == IF _box_pairs(S, boxed) = {} THEN None ELSE Lines(_box_pairs(S, boxed), t)

(* load_box_scores reads the boxes of the pool that was handed in. *)
compute_team_stats(S, t, day) ==
    LET prior == strictly_before(S, day)
        played == _team_games(prior, t)
        at(venue) == Lines({g \in played : Side(g, t) = venue}, t)
        last == Lines(LastN(played), t)
    IN [rest_days |-> rest_days(played, t), point_diff |-> last,
        home_wins |-> Won(at("home")), home_losses |-> Lost(at("home")),
        away_wins |-> Won(at("away")), away_losses |-> Lost(at("away")),
        last_n_wins |-> Won(last), last_n_losses |-> Lost(last),
        points |-> Rolling(played, t, rolling_points.games),
        points_home |-> Rolling(_at_venue(played, t, "home"), t, rolling_points.venue),
        points_away |-> Rolling(_at_venue(played, t, "away"), t, rolling_points.venue),
        adjusted |-> adjusted_points(prior, t),
        possessions |-> rolling_ratings(played, t, boxes \cap S)]

(* A statistic that is absent now keeps the row an earlier run wrote. *)
_upsert_stats(existing, new) ==
    [name \in DOMAIN new |-> IF new[name] = None /\ name \in DOMAIN existing THEN existing[name] ELSE new[name]]
_game_has_stats(g) == g \in DOMAIN stats
store_team_stats_for_game(g, pool) ==
    [s \in Sides |-> _upsert_stats(IF _game_has_stats(g) THEN stats[g][s] ELSE <<>>,
                                   compute_team_stats(pool, Team(g, s), Day(g)))]
(* The games of S, each from its pool. *)
WithStats(S, pool) ==
    [g \in S \cup DOMAIN stats |-> IF g \in S THEN store_team_stats_for_game(g, pool[g]) ELSE stats[g]]

----------------------------------------------------------------------------
(* Elo: one step, and the replay of the sport from its finals. *)
Movement(edge, margin) == Max({1, 3 * margin - edge})
update(r, homeWon, margin) ==
    LET gain == IF homeWon THEN Movement(r.home + HomeEdge - r.away, margin)
                           ELSE Movement(r.away - r.home - HomeEdge, margin)
        d == IF homeWon THEN gain ELSE -gain
    IN [home |-> r.home + d, away |-> r.away - d]
apply_result(r, score) ==
    IF score[1] = score[2] THEN r
    ELSE update(r, score[1] > score[2], IF score[1] > score[2] THEN score[1] - score[2] ELSE score[2] - score[1])
season_carry(r) == Seed + (r - Seed) \div 2

Unrated == [ratings |-> [t \in Teams |-> Seed], season |-> [t \in Teams |-> None], rows |-> <<>>]
NewSeason(state, t, g) == state.season[t] \notin {None, Fixture[g].season}
Entering(state, g) ==
    [s \in Sides |-> LET t == Team(g, s) IN
        IF NewSeason(state, t, g) THEN season_carry(state.ratings[t]) ELSE state.ratings[t]]
Replayed(state, g) ==
    LET into == Entering(state, g)
        after == IF game[g] \in Scores THEN apply_result(into, game[g]) ELSE into
    IN [ratings |-> [t \in Teams |-> IF Plays(g, t) THEN after[Side(g, t)] ELSE state.ratings[t]],
        season |-> [t \in Teams |-> IF Plays(g, t) THEN Fixture[g].season ELSE state.season[t]],
        rows |-> [h \in DOMAIN state.rows \cup {g} |-> IF h = g THEN into ELSE state.rows[h]]]
(* The games of S in the order of their days, then of their ids. *)
Replay[S \in SUBSET Fixtures] ==
    IF S = {} THEN Unrated ELSE Replayed(Replay[S \ {Latest(S)}], Latest(S))

(* Every final's row is written, or corrected when it disagrees. *)
backfill_elo_history ==
    [g \in _final_games \cup DOMAIN elo |-> IF g \in _final_games THEN Replay[_final_games].rows[g] ELSE elo[g]]

----------------------------------------------------------------------------
(* What an upcoming game is priced on. *)
_team_stat_rows(t, g) ==
    LET prior == Latest({h \in DOMAIN stats : Plays(h, t) /\ Day(h) < Day(g)}) IN
    CASE _game_has_stats(g) -> stats[g][Side(g, t)]
      [] prior # None /\ ~_game_has_stats(g) -> stats[prior][Side(prior, t)]
      [] OTHER -> <<>>

_rating_after(h, t) ==
    IF game[h] \in Scores THEN apply_result(elo[h], game[h])[Side(h, t)] ELSE elo[h][Side(h, t)]
_new_season(h, g) == Fixture[h].season # Fixture[g].season
_team_elo(t, g) ==
    LET prior == Latest({h \in DOMAIN elo : Plays(h, t) /\ Day(h) < Day(g)}) IN
    CASE g \in DOMAIN elo -> elo[g][Side(g, t)]
      [] g \notin DOMAIN elo /\ prior # None ->
            IF _new_season(prior, g) THEN season_carry(_rating_after(prior, t)) ELSE _rating_after(prior, t)
      [] OTHER -> rating[t]

----------------------------------------------------------------------------
Init ==
    /\ game = [g \in Fixtures |-> Absent] /\ boxes = {} /\ stats = <<>> /\ elo = <<>>
    /\ rating = [t \in Teams |-> Seed] /\ entered = 0 /\ replayed = TRUE

(* A row is stored, late perhaps; a game ends; a final is corrected. *)
Store(g) ==
    /\ ~Stored(g) /\ game' = [game EXCEPT ![g] = Scheduled]
    /\ UNCHANGED <<boxes, stats, elo, rating, entered, replayed>>
Finish(g) ==
    /\ Stored(g) /\ entered < MaxResults /\ entered' = entered + 1
    /\ \E score \in Scores \ {game[g]} : game' = [game EXCEPT ![g] = score]
    /\ replayed' = FALSE /\ UNCHANGED <<boxes, stats, elo, rating>>
store_team_box(g) ==
    /\ g \in (_final_games \cap Boxable) \ boxes /\ boxes' = boxes \cup {g}
    /\ UNCHANGED <<game, stats, elo, rating, entered, replayed>>

(* The pass over the scoreboards of a day and its neighbours: one           *)
(* transaction after the games', and nothing when it fails.                 *)
Touched(day) == {g \in Fixtures : Stored(g) /\ Day(g) \in day - 1 .. day + 1}
_refresh_team_stats(day) ==
    /\ Touched(day) # {}
    /\ stats' = WithStats(Touched(day), [g \in Fixtures |-> _final_games])
    /\ elo' = backfill_elo_history
    /\ replayed' = TRUE /\ UNCHANGED <<game, boxes, rating, entered>>

(* The script: games without rows, or all of them. *)
backfill_team_stats(force) ==
    /\ stats' = WithStats({g \in _final_games : force \/ ~_game_has_stats(g)},
                          [g \in Fixtures |-> {h \in _final_games : Earlier(h, g)}])
    /\ elo' = backfill_elo_history
    /\ replayed' = TRUE /\ UNCHANGED <<game, boxes, rating, entered>>

Decisive(g) == g \in _final_games /\ game[g][1] # game[g][2]
compute_historical_elo ==
    /\ elo' = backfill_elo_history
    /\ rating' = [t \in Teams |-> IF \E g \in Fixtures : Plays(g, t) /\ Decisive(g)
                                  THEN Replay[_final_games].ratings[t] ELSE rating[t]]
    /\ replayed' = TRUE /\ UNCHANGED <<game, boxes, stats, entered>>

Next ==
    \/ \E g \in Fixtures : Store(g) \/ Finish(g) \/ store_team_box(g)
    \/ \E day \in {Day(g) : g \in Fixtures} : _refresh_team_stats(day)
    \/ \E force \in BOOLEAN : backfill_team_stats(force)
    \/ compute_historical_elo
Spec == Init /\ [][Next]_vars

----------------------------------------------------------------------------
TypeOK ==
    /\ game \in [Fixtures -> {Absent, Scheduled} \cup Scores] /\ boxes \subseteq Fixtures
    /\ DOMAIN stats \subseteq Fixtures /\ DOMAIN elo \subseteq Fixtures
    /\ rating \in [Teams -> Int] /\ entered \in 0 .. MaxResults /\ replayed \in BOOLEAN

Cited(row) == UNION {{line.game : line \in row[stat]} : stat \in {name \in DOMAIN row : row[name] # None}}

(* No statistic of a game, nor the ones an upcoming game borrows, was       *)
(* computed from a result of its own day or of a later one.                 *)
NoLookahead ==
    /\ \A g \in DOMAIN stats, s \in Sides : \A h \in Cited(stats[g][s]) : Day(h) < Day(g)
    /\ \A g \in Fixtures, s \in Sides : \A h \in Cited(_team_stat_rows(Team(g, s), g)) : Day(h) < Day(g)

(* Once a replay has seen the results, a game still to be played is priced  *)
(* on the rating the replay will store for it: late games, corrected scores, *)
(* draws and the turn of a season included.  A team that has already played *)
(* on the game's day or after is the exception the dates cannot order.      *)
ServedAsTrained ==
    replayed =>
      \A g \in Fixtures, s \in Sides :
         LET t == Team(g, s) IN
         game[g] = Scheduled /\ (\A h \in _final_games : Plays(h, t) => Day(h) < Day(g))
           => _team_elo(t, g) = Replay[_final_games \cup {g}].rows[g][s]
=============================================================================
