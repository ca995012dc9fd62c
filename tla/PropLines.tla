----------------------------- MODULE PropLines -----------------------------
(***************************************************************************)
(* Player lines and the props they settle: the morning pass that resolves  *)
(* a final game to an ESPN event, parses its box score and stores one row  *)
(* per player, committing each; the grading of props by name and date; and *)
(* the scripts that refetch hollow rows, delete copies and fill in the     *)
(* market of old picks.                                                    *)
(***************************************************************************)
EXTENDS Integers, Sequences, FiniteSets, Functions

CONSTANTS
    Events,            \* ESPN: event -> the day it is filed under, its teams, its blocks
    Inside,            \* abbreviation -> those whose letters occur in it, itself among them
    Rows,              \* games: row -> its date, teams, stored event or None
    Props,             \* prop picks: row, player, label, over, line
    Legacy,            \* props stored before the market was a field
    MarketStats,       \* MARKET_STAT_MAP: market -> the fields it sums
    Label,             \* MARKET_LABELS: market -> how it reads, at times itself
    KEY_FIELD, LABEL_FIELD, ADDITIVE,   \* columns of a keyed and of a plain block
    FOOTBALL_FIELDS,
    Hollow,            \* rows stored by the parser that knew basketball only
    None

VARIABLES
    final, merged,     \* game rows that are final; that were merged away
    logs,              \* player_stats game_log: <<player, day>> -> team, fields, event
    pass,              \* the pass: the row it is at, the lines it still has to store
    market,            \* a prop's stored market, or None
    outcome,           \* a prop's result, or None
    cut                \* history: rows whose storing was interrupted
vars == <<final, merged, logs, pass, market, outcome, cut>>

Day(r) == Rows[r].day
SidesOf(g) == {g.home, g.away}

----------------------------------------------------------------------------
(* Parsing.  An entry is one athlete of one block: its cells by column, read *)
(* by key, or by label only in a block without a category; entries of other *)
(* length than their columns, or of athletes who did not play, are dropped.  *)
_naming(entry) ==
    CASE entry.keyed -> KEY_FIELD
      [] ~entry.keyed /\ ~entry.category -> LABEL_FIELD
      [] ~entry.keyed /\ entry.category -> <<>>
_fits(entry) == entry.aligned /\ ~entry.didNotPlay /\ _naming(entry) # <<>>
Reads(entry, column, field) == column \in DOMAIN _naming(entry) /\ _naming(entry)[column] = field

Cells(blocks, places) == [x \in places |-> blocks[x[1]].cells[x[2]]]
(* Of one field's cells: the last block's number alone. *)
LastBlock(cells, field) == cells[CHOOSE x \in DOMAIN cells : \A y \in DOMAIN cells : y[1] <= x[1]]
(* Fields fed by several blocks add up, the others keep the last one read. *)
_put(cells, field) == IF field \in ADDITIVE THEN SumFunction(cells) ELSE LastBlock(cells, field)
Columns == DOMAIN KEY_FIELD \cup DOMAIN LABEL_FIELD
parse_box_score(blocks) ==
    LET read == {i \in DOMAIN blocks : _fits(blocks[i])}
        places(k, f) == {x \in read \X Columns :
                            /\ <<blocks[x[1]].team, blocks[x[1]].player>> = k
                            /\ x[2] \in DOMAIN blocks[x[1]].cells /\ Reads(blocks[x[1]], x[2], f)}
        fields(k) == {f \in Range(KEY_FIELD) \cup Range(LABEL_FIELD) : places(k, f) # {}}
    IN [k \in {<<blocks[i].team, blocks[i].player>> : i \in read} |->
           [f \in fields(k) |-> _put(Cells(blocks, places(k, f)), f)]]
BoxScore == [e \in DOMAIN Events |-> parse_box_score(Events[e].blocks)]

----------------------------------------------------------------------------
(* Collecting. *)
(* The scoreboard of the date, the day before, the day after: a day that    *)
(* fails to load is passed over.  An event is taken whose short name holds   *)
(* both abbreviations, be it inside another: the first one listed, and the   *)
(* list has no order that the row knows of.                                  *)
Named(e) == UNION {Inside[team] : team \in SidesOf(Events[e])}
On(day, r) == {e \in DOMAIN Events : Events[e].day = day /\ SidesOf(Rows[r]) \subseteq Named(e)}
Offsets == <<0, -1, 1>>
resolve_espn_event(r, failed) ==
    LET On3(i) == On(Day(r) + Offsets[i], r)
        found == {i \in 1 .. 3 : Day(r) + Offsets[i] \notin failed /\ On3(i) # {}}
    IN UNION {On3(i) : i \in {k \in found : \A j \in found : k <= j}}
EventOf(r, failed) == IF Rows[r].espn # None THEN {Rows[r].espn} ELSE resolve_espn_event(r, failed)

Collected(r) == \E k \in DOMAIN logs : k[2] = Day(r) /\ logs[k].team \in SidesOf(Rows[r])
Pending == {r \in final : ~Collected(r)}
idle == [row |-> None, lines |-> {}]

(* A line whose team is not one of our game's is skipped; the date is ours. *)
Lines(r, e) ==
    LET parsed == BoxScore[e]
        ours == {k \in DOMAIN parsed : k[1] \in SidesOf(Rows[r])}
    IN {[key |-> <<k[2], Day(r)>>, team |-> k[1], fields |-> parsed[k], event |-> e] : k \in ours}

collect_box_scores_for_final_games ==
    /\ pass = idle
    /\ \E r \in Pending :
          \E e \in UNION {EventOf(r, failed) : failed \in SUBSET {Events[x].day : x \in DOMAIN Events}} :
             /\ Lines(r, e) # {}
             /\ pass' = [row |-> r, lines |-> Lines(r, e)]
    /\ UNCHANGED <<final, merged, logs, market, outcome, cut>>

(* store_stats: a field that is missing keeps the value the row had; the     *)
(* players in any order.                                                     *)
Stored(line) ==
    LET old == IF line.key \in DOMAIN logs THEN logs[line.key] ELSE [team |-> line.team, fields |-> <<>>]
        names == DOMAIN line.fields \cup DOMAIN old.fields
    IN [team |-> old.team, event |-> line.event,
        fields |-> [f \in names |-> IF f \in DOMAIN line.fields THEN line.fields[f] ELSE old.fields[f]]]
store_stats ==
    /\ \E line \in pass.lines :
          /\ logs' = [k \in DOMAIN logs \cup {line.key} |-> IF k = line.key THEN Stored(line) ELSE logs[k]]
          /\ pass' = IF pass.lines = {line} THEN idle ELSE [pass EXCEPT !.lines = @ \ {line}]
    /\ UNCHANGED <<final, merged, market, outcome, cut>>

(* The process stops between two commits: once at a row, a bound. *)
Stop ==
    /\ pass.row \notin cut \cup {None} /\ pass' = idle /\ cut' = cut \cup {pass.row}
    /\ UNCHANGED <<final, merged, logs, market, outcome>>

----------------------------------------------------------------------------
(* Grading. *)
prop_box_score(player, day) == IF <<player, day>> \in DOMAIN logs THEN logs[<<player, day>>].fields ELSE None
Settled(total, over, line) ==
    CASE total = line -> "push"
      [] total # line -> IF (total > line) = over THEN "win" ELSE "loss"
grade_prop_pick(p, m, stat) ==
    IF stat = None \/ m \notin DOMAIN MarketStats THEN None
    ELSE IF ~(MarketStats[m] \subseteq DOMAIN stat) THEN None
    ELSE Settled(SumFunction([f \in MarketStats[m] |-> stat[f]]), p.over, p.line)

grade(p) ==
    /\ outcome[p] = None /\ Props[p].row \in final /\ market[p] # None
    /\ outcome' = [outcome EXCEPT ![p] =
                     grade_prop_pick(Props[p], market[p], prop_box_score(Props[p].player, Day(Props[p].row)))]
    /\ UNCHANGED <<final, merged, logs, pass, market, cut>>

----------------------------------------------------------------------------
(* Scripts. *)
Readings(m) == {Label[m], m}
build_label_to_market(label) == {m \in DOMAIN MarketStats : label \in Readings(m)}
backfill_prop_fields ==
    /\ \A m, n \in DOMAIN MarketStats : Readings(m) \cap Readings(n) # {} => m = n
    /\ market' = [p \in DOMAIN Props |->
                    IF market[p] = None /\ Cardinality(build_label_to_market(Props[p].label)) = 1
                    THEN CHOOSE m \in build_label_to_market(Props[p].label) : TRUE ELSE market[p]]
    /\ market' # market /\ UNCHANGED <<final, merged, logs, pass, outcome, cut>>

hollow_logs == {k \in DOMAIN logs : FOOTBALL_FIELDS \cap DOMAIN logs[k].fields = {}}
refetch_football_box_scores ==
    /\ pass = idle /\ hollow_logs # {}
    /\ logs' = Restrict(logs, DOMAIN logs \ hollow_logs)
    /\ UNCHANGED <<final, merged, pass, market, outcome, cut>>

(* find_copies: the later of two identical lines of adjacent days, where the *)
(* games show that its team played on the earlier day only.                  *)
Played(team, day) == \E r \in final : Day(r) = day /\ team \in SidesOf(Rows[r])
find_copies ==
    {k \in DOMAIN logs : LET e == <<k[1], k[2] - 1>> IN
        /\ e \in DOMAIN logs /\ logs[e].team = logs[k].team /\ logs[e].fields = logs[k].fields
        /\ \E f \in DOMAIN logs[k].fields : logs[k].fields[f] # 0
        /\ Played(logs[k].team, e[2]) /\ ~Played(logs[k].team, k[2])}
dedupe_game_logs ==
    /\ pass = idle /\ find_copies # {}
    /\ logs' = Restrict(logs, DOMAIN logs \ find_copies)
    /\ UNCHANGED <<final, merged, pass, market, outcome, cut>>

----------------------------------------------------------------------------
Init ==
    /\ final = {} /\ merged = {} /\ pass = idle /\ cut = {} /\ logs \in {<<>>, Hollow}
    /\ market = [p \in DOMAIN Props |-> IF p \in Legacy THEN None
                                        ELSE CHOOSE m \in build_label_to_market(Props[p].label) : TRUE]
    /\ outcome = [p \in DOMAIN Props |-> None]

Finish(r) == /\ r \notin final \cup merged /\ final' = final \cup {r}
             /\ UNCHANGED <<merged, logs, pass, market, outcome, cut>>
(* A phantom row is merged away; the lines under its date stay. *)
Merge(r) == /\ r \in final /\ Rows[r].phantom /\ final' = final \ {r} /\ merged' = merged \cup {r}
            /\ UNCHANGED <<logs, pass, market, outcome, cut>>

Next ==
    \/ collect_box_scores_for_final_games \/ store_stats \/ Stop
    \/ \E p \in DOMAIN Props : grade(p)
    \/ backfill_prop_fields \/ refetch_football_box_scores \/ dedupe_game_logs
    \/ \E r \in DOMAIN Rows : Finish(r) \/ Merge(r)
Fairness ==
    /\ WF_vars(collect_box_scores_for_final_games) /\ WF_vars(store_stats)
    /\ \A p \in DOMAIN Props : WF_vars(grade(p))
Spec == Init /\ [][Next]_vars /\ Fairness

----------------------------------------------------------------------------
TypeOK ==
    /\ final \cup merged \subseteq DOMAIN Rows /\ cut \subseteq DOMAIN Rows
    /\ \A k \in DOMAIN logs : DOMAIN logs[k] = {"team", "fields", "event"}
    /\ market \in [DOMAIN Props -> DOMAIN MarketStats \cup {None}]
    /\ outcome \in [DOMAIN Props -> {"win", "loss", "push", None}]

(* What a player did in an event, read off the entries themselves. *)
Places(e, player, field) ==
    LET blocks == Events[e].blocks IN
    {x \in (DOMAIN blocks) \X (DOMAIN KEY_FIELD) :
        /\ blocks[x[1]].player = player /\ ~blocks[x[1]].didNotPlay
        /\ x[2] \in DOMAIN blocks[x[1]].cells /\ KEY_FIELD[x[2]] = field}
Did(e, player, field) == SumFunction(Cells(Events[e].blocks, Places(e, player, field)))

(* The games whose date and teams identify them: the source lists one event *)
(* of the pair around the date, and no other row has a side on that date.   *)
Window(r) == Day(r) - 1 .. Day(r) + 1
Own(r) == {e \in DOMAIN Events : SidesOf(Events[e]) = SidesOf(Rows[r]) /\ Events[e].day \in Window(r)}
Identified(r) ==
    /\ Rows[r].espn # None \/ Cardinality(Own(r)) = 1
    /\ \A s \in DOMAIN Rows \ {r} : Day(s) = Day(r) => SidesOf(Rows[s]) \cap SidesOf(Rows[r]) = {}
(* Of those, the games whose abbreviations no other event's name holds.     *)
Clear(r) == Identified(r) /\ (Rows[r].espn # None \/ UNION {On(d, r) : d \in Window(r)} = Own(r))

SettledRight(p) ==
    LET r == Props[p].row IN
    \E e \in Own(r), m \in build_label_to_market(Props[p].label) :
       outcome[p] = Settled(SumFunction([f \in MarketStats[m] |-> Did(e, Props[p].player, f)]),
                            Props[p].over, Props[p].line)
(* A prop on such a game is never settled by anything but what its player   *)
(* did in it, whichever day ESPN files it under, however many blocks he is  *)
(* in, and through stops, hollow rows, copies and refetches.                *)
SettledOnOwnLine ==
    \A p \in DOMAIN Props : outcome[p] # None /\ Clear(Props[p].row) => SettledRight(p)
(* resolve_espn_event's docstring: None rather than a best guess, grading    *)
(* against the wrong game being worse than leaving the pick ungraded.       *)
NoBestGuess ==
    \A p \in DOMAIN Props : outcome[p] # None /\ Identified(Props[p].row) => SettledRight(p)

(* What that rests on.  Dates and cells are whole numbers, a stored id is of  *)
(* an event of the row's teams and date, and a hollow row has no field that a *)
(* prop is settled on.                                                        *)
SettledFields == UNION {MarketStats[m] : m \in DOMAIN MarketStats}
LinesAssumption ==
    /\ IsFiniteSet(DOMAIN Events) /\ None \notin DOMAIN Events
    /\ \A e \in DOMAIN Events :
          /\ \A team \in SidesOf(Events[e]) : team \in DOMAIN Inside /\ team \in Inside[team]
          /\ Events[e].day \in Int /\ DOMAIN Events[e].blocks \subseteq Nat
          /\ \A i \in DOMAIN Events[e].blocks : \A c \in DOMAIN Events[e].blocks[i].cells :
                 Events[e].blocks[i].cells[c] \in Int
    /\ \A r \in DOMAIN Rows :
          /\ Day(r) \in Int
          /\ LET e == Rows[r].espn IN
             e # None => e \in Own(r)
    /\ \A p \in DOMAIN Props :
          Props[p].row \in DOMAIN Rows /\ (p \notin Legacy => build_label_to_market(Props[p].label) # {})
    /\ \A k \in DOMAIN Hollow : DOMAIN Hollow[k].fields \cap SettledFields = {}
(* Around its game a prop's player is one person, of one of its teams. *)
OwnPlayers ==
    \A p \in DOMAIN Props, e \in DOMAIN Events :
       LET blocks == Events[e].blocks
           r == Props[p].row
           own == {i \in DOMAIN blocks : blocks[i].player = Props[p].player}
       IN Events[e].day \in Day(r) - 2 .. Day(r) + 2 =>
            \A i, j \in own : blocks[i].team = blocks[j].team /\ blocks[i].team \in SidesOf(Rows[r])
(* A number that a prop is settled on stands in a keyed block, whole, and in *)
(* one place only unless such numbers add up.                                *)
Legible ==
    \A p \in DOMAIN Props, e \in DOMAIN Events, f \in SettledFields :
       LET blocks == Events[e].blocks
           places == Places(e, Props[p].player, f)
       IN /\ \A x \in places :
                 /\ blocks[x[1]].keyed /\ blocks[x[1]].aligned
                 /\ f \notin ADDITIVE => places = {x}
          /\ \A i \in DOMAIN blocks : \A c \in DOMAIN blocks[i].cells :
                blocks[i].player = Props[p].player /\ _fits(blocks[i]) /\ Reads(blocks[i], c, f) => blocks[i].keyed

(* A prop whose player has numbers in its final game's box score is settled *)
(* in the end: its market is known, no hollow row stands for the game, and   *)
(* the pass was not stopped between two of the game's players.              *)
Gradeable(p) ==
    /\ Props[p].row \in final /\ Clear(Props[p].row) /\ Props[p].counts /\ market[p] # None
    /\ \A k \in hollow_logs : k[2] # Day(Props[p].row)
Graded(p) == outcome[p] # None \/ Props[p].row \in cut
PropSettles == \A p \in DOMAIN Props : Gradeable(p) ~> Graded(p)
=============================================================================
