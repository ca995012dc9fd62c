------------------------------ MODULE PropPicks ------------------------------
(***************************************************************************)
(* Picking one player's prop.  Each fetch restamps the rows of the books   *)
(* that still offer it; a run reads the rows, asks for the roster, and     *)
(* then stores, refreshes or withdraws the pick of what it had read.       *)
(* Time is counted in periods of five minutes, chances in per cent.        *)
(***************************************************************************)
EXTENDS Integers, FiniteSets, Functions

CONSTANTS
    Books, Runs,  \* bookmakers; jobs that run the pipeline
    Offers,       \* what a book may quote: [line, odds], odds by side
    Implied,      \* break-even chance of each valid price
    LogBooks,     \* game logs there may be: by kind and player, yards by day
    Rosters,      \* what the roster may answer: by player, a status, or None
    Weathers,     \* forecasts: sets of "wet" and "windy"
    Player,       \* the player the prop is about
    Ahead(_, _),  \* the order of names
    Today, Start, \* the game's day; the period in which it starts
    MaxFetches, None

(* Chances and prices are numbers, names stand in one order, and the logs are *)
(* of whole yards on finitely many days.                                      *)
PicksAssumption ==
    /\ IsFiniteSet(Books) /\ Today \in Nat /\ Start \in Nat
    /\ \A a, b \in Books : a # b => (Ahead(a, b) <=> ~Ahead(b, a))
    /\ \A a \in Books : ~Ahead(a, a)
    /\ \A a, b, c \in Books : Ahead(a, b) /\ Ahead(b, c) => Ahead(a, c)
    /\ \A o \in Offers : o.line \in Int
    /\ \A price \in DOMAIN Implied : Implied[price] \in Nat
    /\ \A kept \in LogBooks :
          LET log == kept["target"][Player] IN
          IsFiniteSet(DOMAIN log) /\ \A d \in DOMAIN log : log[d] \in Int

VARIABLES
    now, logs,    \* the period; the game logs
    rows,         \* player_props: by book and side, line, price and fetched_at
    pick,         \* the stored pick
    run,          \* each run: what it read and made of it
    fetches,      \* history: each fetch's period and quotes
    basis         \* history: what had been fetched when the last run to store read
vars == <<now, logs, rows, pick, run, fetches, basis>>

Sides == {"Over", "Under"}
NoPick == [side |-> None, line |-> None, odds |-> None, edge |-> 0, tier |-> 0,
           withdrawn |-> FALSE, emailed |-> FALSE]
Idle == [at |-> "idle", quotes |-> {}, seen |-> {}]
Started == now >= Start

----------------------------------------------------------------------------
(* What the player is expected to do *)
Total(log, days) == SumFunction(Restrict(log, DOMAIN log \cap days))

(* season_leaders: the most yards before the day, ties by name *)
Leader(kind) ==
    LET sum == [p \in DOMAIN logs[kind] |-> Total(logs[kind][p], 0..(Today - 1))]
        most == {p \in DOMAIN sum : sum[p] > 0 /\ \A q \in DOMAIN sum : sum[q] <= sum[p]}
    IN  IF most = {} THEN None ELSE CHOOSE p \in most : \A q \in most \ {p} : Ahead(p, q)

IsAbsent(roster, p) ==
    p # None /\ (p \notin DOMAIN roster \/ roster[p] \notin {"fit", "Questionable"})

(* injury_factor: a missing leader lifts the others, a missing passer does not *)
InjuryFactor(roster) ==
    IF roster = None THEN 0
    ELSE (IF Leader("target") # Player /\ IsAbsent(roster, Leader("target")) THEN 17 ELSE 0)
       - (IF Leader("qb") # Player /\ IsAbsent(roster, Leader("qb")) THEN 7 ELSE 0)

(* prop_factor *)
WeatherFactor(weather) ==
    (IF "windy" \in weather THEN -15 ELSE 0) + (IF "wet" \in weather THEN -10 ELSE 0)

(* _recent_form: the last five logs strictly before the day *)
RecentForm ==
    LET log == logs["target"][Player]
        past == {d \in DOMAIN log : d < Today}
    IN  {d \in past : Cardinality({e \in past : e > d}) < 5}

(* The blend of the season's average with recent form, adjusted; no answer   *)
(* from fewer than three games.                                              *)
Projection(season, roster, weather) ==
    LET n == Cardinality(RecentForm)
        recent == Total(logs["target"][Player], RecentForm) \div n
        blend == IF season = None THEN recent ELSE (40 * season + 60 * recent) \div 100
    IN  IF n < 3 THEN None
        ELSE (blend * (100 + InjuryFactor(roster)) * (100 + WeatherFactor(weather))) \div 10000

(* _compute_exceedance_prob, abstracted to a chance that grows with the      *)
(* projection's distance from the line.                                      *)
Exceedance(projection, line) ==
    LET c == 50 + 3 * (projection - line) IN IF c < 0 THEN 0 ELSE IF c > 100 THEN 100 ELSE c

Chance(q, projection) ==
    IF q.side = "Over" THEN Exceedance(projection, q.line) ELSE 100 - Exceedance(projection, q.line)

(* value_edge; calculate_prop_confidence under the default thresholds *)
MinEdge == 5
Edge(q, projection) == Chance(q, projection) - Implied[q.odds]
Tier(edge) == CASE edge >= 20 -> 5 [] edge >= 15 -> 4 [] edge >= 10 -> 3 [] edge >= 7 -> 2
                [] edge >= 5 -> 1 [] OTHER -> 0

(* analyze: the quotes that are worth it *)
Analyses(quotes, projection) ==
    IF projection = None THEN {}
    ELSE {a \in {[book |-> q.book, side |-> q.side, line |-> q.line, odds |-> q.odds,
                  edge |-> Edge(q, projection)] : q \in {x \in quotes : x.odds \in DOMAIN Implied}} :
             a.edge >= MinEdge /\ Tier(a.edge) >= 1}

----------------------------------------------------------------------------
(* Which quotes count, and which of them is picked *)

(* PROP_FETCH_SLACK: ten minutes *)
Slack == 2

Quote(k) == [book |-> k[1], side |-> k[2], line |-> rows[k].line, odds |-> rows[k].odds]

\* Mutant: every row ever stored is current.
EveryRow == {Quote(k) : k \in DOMAIN rows}

(* current_props: the rows stamped with the latest fetch, or shortly before *)
CurrentProps ==
    {Quote(k) : k \in {x \in DOMAIN rows : \A y \in DOMAIN rows : rows[y].at - rows[x].at <= Slack}}

(* _dedup_prop_analyses: the best price of a side and line, ties by book *)
Dedup(won) ==
    {a \in won : \A b \in won \ {a} : (b.side = a.side /\ b.line = a.line) =>
        Implied[a.odds] < Implied[b.odds] \/ (Implied[a.odds] = Implied[b.odds] /\ Ahead(a.book, b.book))}

(* _one_per_player_market: the greatest edge, then price, then book; rows that *)
(* tie in all three stand in the order they were read.                        *)
OnePerMarket(won) ==
    LET S == Dedup(won)
    IN  {a \in S : \A b \in S \ {a} :
            \/ a.edge > b.edge
            \/ a.edge = b.edge /\ Implied[a.odds] < Implied[b.odds]
            \/ a.edge = b.edge /\ Implied[a.odds] = Implied[b.odds]
               /\ (Ahead(a.book, b.book) \/ a.book = b.book)}

----------------------------------------------------------------------------
Init ==
    /\ now = 0 /\ logs \in LogBooks
    /\ rows = <<>> /\ pick = NoPick
    /\ run = [r \in Runs |-> Idle]
    /\ fetches = {} /\ basis = {}

(* _store_props: what the answer holds is upserted and restamped, the rest stays *)
Fetch ==
    /\ Cardinality(fetches) < MaxFetches /\ \A f \in fetches : f.at < now
    /\ \E who \in (SUBSET Books) \ {{}} : \E o \in [who -> Offers] :
        LET keys == who \X Sides
            new(k) == [line |-> o[k[1]].line, odds |-> o[k[1]].odds[k[2]], at |-> now]
        IN  /\ rows' = [k \in DOMAIN rows \cup keys |-> IF k \in keys THEN new(k) ELSE rows[k]]
            /\ fetches' = fetches \cup
                   {[at |-> now, quotes |-> {[book |-> k[1], side |-> k[2], line |-> new(k).line,
                                              odds |-> new(k).odds] : k \in keys}]}
    /\ UNCHANGED <<now, logs, pick, run, basis>>

(* A run reads the rows, and then waits for the roster. *)
Read(r) ==
    /\ run[r].at = "idle" /\ ~Started /\ rows # <<>>
    /\ run' = [run EXCEPT ![r] = [at |-> "asking", quotes |-> CurrentProps, seen |-> fetches]]
    /\ UNCHANGED <<now, logs, rows, pick, fetches, basis>>

(* withdraw_pick *)
Withdrawn ==
    IF pick = NoPick \/ pick.emailed \/ Started THEN pick ELSE [pick EXCEPT !.withdrawn = TRUE]

(* _refresh_prop_pick, _build_prop_pick *)
Built(a) ==
    [side |-> a.side, line |-> a.line, odds |-> a.odds, edge |-> a.edge, tier |-> Tier(a.edge),
     withdrawn |-> FALSE, emailed |-> pick.emailed]

(* The analysis and _store_prop_picks. *)
Store(r) ==
    \E roster \in Rosters, weather \in Weathers, season \in {None, 20} :
        LET chosen == OnePerMarket(Analyses(run[r].quotes, Projection(season, roster, weather)))
        IN  /\ run[r].at = "asking"
            /\ \/ chosen = {} /\ pick' = Withdrawn
               \/ \E a \in chosen : pick' = IF Started THEN pick ELSE Built(a)
            /\ run' = [run EXCEPT ![r] = Idle]
            /\ basis' = IF Started THEN basis ELSE run[r].seen
            /\ UNCHANGED <<now, logs, rows, fetches>>

(* The digest. *)
Email ==
    /\ pick # NoPick /\ ~pick.withdrawn /\ ~pick.emailed /\ ~Started
    /\ pick' = [pick EXCEPT !.emailed = TRUE]
    /\ UNCHANGED <<now, logs, rows, run, fetches, basis>>

Tick == now < Start /\ now' = now + 1 /\ UNCHANGED <<logs, rows, pick, run, fetches, basis>>

----------------------------------------------------------------------------
TypeOK ==
    /\ now \in 0..Start /\ logs \in LogBooks
    /\ pick.tier \in 0..5 /\ pick.edge \in 0..100
    /\ \A k \in DOMAIN rows : rows[k].at \in 0..now
    /\ \A r \in Runs : run[r].at \in {"idle", "asking"}

(* What the books had been offering: of the fetches the run could see, those *)
(* of the last ten minutes, and of a book's quotes on a side the newest.     *)
OfferedOf(seen) ==
    LET recent == {f \in seen : \A g \in seen : g.at - f.at <= Slack}
        renewed(f, q) == \E g \in recent : g.at > f.at /\ \E p \in g.quotes : p.book = q.book
    IN  UNION {{q \in f.quotes : ~renewed(f, q)} : f \in recent}
Offered == OfferedOf(basis)

Easier(q, p) == IF p.side = "Over" THEN q.line <= p.line ELSE q.line >= p.line

(* A pick that is published and can still be taken back is one a book was    *)
(* offering when its run read the odds, and no other book offered the same    *)
(* side at a better price and no harder line: a prop that was pulled loses    *)
(* its pick, whatever the runs and fetches in between (current_props,         *)
(* _store_prop_picks).                                                        *)
PublishedIsOffered ==
    (pick # NoPick /\ ~pick.withdrawn /\ ~pick.emailed) =>
        /\ \E q \in Offered : q.side = pick.side /\ q.line = pick.line /\ q.odds = pick.odds
        /\ ~\E q \in Offered : /\ q.side = pick.side /\ Easier(q, pick)
                                /\ q.odds \in DOMAIN Implied /\ Implied[q.odds] < Implied[pick.odds]

Next == Fetch \/ (\E r \in Runs : Read(r) \/ Store(r)) \/ Email \/ Tick
Spec == Init /\ [][Next]_vars
=============================================================================
