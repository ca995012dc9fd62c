------------------------------ MODULE Repairs ------------------------------
(***************************************************************************)
(* The owner's repair scripts over the games of one sport, which are held  *)
(* twice or under a wrong date, team row or status: merging twins,         *)
(* repairing team rows, restoring games canceled by mistake, catching up   *)
(* on results, filling in ESPN's ids and flags, and clearing double odds.  *)
(*                                                                         *)
(* All games are between the same two teams, the same one at home: whose   *)
(* game a row is can only be told by its date and ESPN's id.  A script     *)
(* commits once, unless an action says otherwise.                          *)
(***************************************************************************)
EXTENDS Integers, FiniteSets, FiniteSetsExt

CONSTANTS
    Events,   \* the real games
    First,    \* the earliest of them
    Day,      \* the Eastern date ESPN files each under
    Today,    \* the day the scripts are run
    Rows,     \* ids of games rows
    Quotes,   \* ids of odds rows: of one book, the higher the newer
    Faults,   \* which requests of a lookup may fail together
    None

RepairsAssumption ==
    /\ Day \in [Events -> Nat] /\ None \notin Events
    /\ IsFiniteSet(Rows) /\ Rows \subseteq Nat /\ None \notin Rows /\ Quotes \subseteq Nat

\* No lookup by a row's date and its neighbours can end on another event.
FarApart == \A e, f \in Events : e # f => Day[e] + 2 < Day[f] \/ Day[f] + 2 < Day[e]

VARIABLES
    world,    \* ESPN: each event's status
    label,    \* the home team's rows: what each has for an abbreviation
    games,    \* the games table
    odds,     \* the odds rows: whose game each is
    picks,    \* the games rows that have picks
    series,   \* the games rows that have line snapshots, which no script moves
    indexed,  \* whether odds has its unique index
    repairing,\* fix_team_identity: the step it has come to
    owner,    \* history: the event each row was made for
    quoteOf   \* history: the event each odds row is a quote of

vars == <<world, label, games, odds, picks, series, indexed, repairing, owner, quoteOf>>

NoGame == [team |-> 0, day |-> 0, espn |-> None, status |-> "absent", score |-> None, flags |-> None]
Present == {r \in Rows : games[r].status # "absent"}
Least(S) == CHOOSE x \in S : \A y \in S : x <= y
Newest(S) == CHOOSE x \in S : \A y \in S : x >= y

----------------------------------------------------------------------------
(* Whose label is it: team_identity *)

\* resolution_of: an abbreviation is itself; a display name, exact, spelled
\* otherwise or listed as an alias, is its school's; anything else is unknown.
Resolved(l) == IF l \in {"abbr", "name", "alias"} THEN "abbr" ELSE "unknown"

Team(S) == {t \in DOMAIN label : label[t] \in S}
Canonical == Least(Team({"abbr"}))

\* ESPN's scoreboard of a date, and the events of a request that fails or not.
Board(d) == {e \in Events : Day[e] = d /\ world[e] # "absent"}

\* Mutant: the window is two days wide.
OffsetsWide == <<0, -1, 1, -2, 2>>

\* The day, then the day before, then the day after.
Offsets == <<0, -1, 1>>

\* The event a ±1-day lookup ends on when the requests in failed are lost: the
\* first one that lists any.
Looked(day, failed) ==
    LET hits == {i \in DOMAIN Offsets \ failed : Board(day + Offsets[i]) # {}}
    IN  IF hits = {} THEN None
        ELSE CHOOSE e \in Board(day + Offsets[Least(hits)]) : TRUE

----------------------------------------------------------------------------
(* merge_duplicate_games: rows that share an espn_id *)

Earliest(S) ==
    CHOOSE r \in S : \A q \in S :
        games[r].day < games[q].day \/ (games[r].day = games[q].day /\ r <= q)

\* choose_survivor: the row with picks, else a final one, else the earliest.
\* None when several have picks.
Survivor(S) ==
    LET picked == S \cap picks
        final == {r \in S : games[r].status = "final"}
    IN  CASE Cardinality(picked) > 1 -> None
          [] Cardinality(picked) = 1 -> Least(picked)
          [] picked = {} /\ final # {} -> Earliest(final)
          [] OTHER -> Earliest(S)

Twins(r) == {q \in Present : games[q].espn = games[r].espn}
Merging == {r \in Present : games[r].espn # None /\ Cardinality(Twins(r)) > 1
                            /\ Survivor(Twins(r)) # None}
Losers == {r \in Merging : r # Survivor(Twins(r))}

\* Mutant: the result of a loser is dropped with it.
InheritedNothing(r) == games[r]

\* _absorb: a survivor that never finalized takes the loser's result.
Inherited(r) ==
    LET final == {q \in Twins(r) : games[q].status = "final"}
    IN  IF games[r].status # "final" /\ final # {}
        THEN [games[r] EXCEPT !.status = "final", !.score = games[Earliest(final)].score]
        ELSE games[r]

\* drop_odds_collisions, stale_duplicates: a book's rows on the games in S,
\* all but the newest.
Colliding(S) ==
    {q \in DOMAIN odds : odds[q] \in S /\ \E p \in DOMAIN odds : odds[p] \in S /\ p > q}

\* A loser that line snapshots refer to cannot be deleted, and with it the
\* whole run is rolled back.
merge_duplicate_games ==
    LET dropped == UNION {Colliding(Twins(r)) : r \in Merging}
        into(r) == IF r \in Losers THEN Survivor(Twins(r)) ELSE r
    IN  /\ Losers # {} /\ Losers \cap series = {}
        /\ games' = [r \in Rows |-> CASE r \in Losers -> NoGame
                                      [] r \in Merging \ Losers -> Inherited(r)
                                      [] OTHER -> games[r]]
        /\ odds' = [q \in DOMAIN odds \ dropped |-> into(odds[q])]
        /\ UNCHANGED <<world, label, picks, series, indexed, repairing, owner, quoteOf>>

----------------------------------------------------------------------------
(* fix_team_identity: three transactions in turn *)

\* classify: a row whose abbreviation has an owner is to be merged into it,
\* another renamed; those that cannot be resolved are left alone.
classify ==
    LET bad == {t \in DOMAIN label : label[t] \in {"name", "alias", "unknown"}
                                      /\ Resolved(label[t]) = "abbr"}
    IN  IF Team({"abbr"}) # {} THEN [merge |-> bad, rename |-> {}] ELSE [merge |-> {}, rename |-> bad]

\* The repair of the team rows.  Two renamed alike fail the assertion that
\* follows the commit.
repair ==
    LET merged == classify.merge
        renamed == classify.rename
    IN  /\ repairing = "idle"
        /\ label' = [t \in DOMAIN label |-> CASE t \in merged -> "none"
                                              [] t \in renamed -> "abbr"
                                              [] OTHER -> label[t]]
        /\ games' = [r \in Rows |-> IF games[r].team \in merged
                                    THEN [games[r] EXCEPT !.team = Canonical] ELSE games[r]]
        /\ repairing' = IF Cardinality({t \in DOMAIN label' : label'[t] = "abbr"}) > 1
                        THEN "idle" ELSE "duplicates"
        /\ UNCHANGED <<world, odds, picks, series, indexed, owner, quoteOf>>

\* Every row that refers to a loser is moved to its survivor, and the losers
\* are deleted, unless the unique index refuses a second quote of a book.
Refused(into) ==
    indexed /\ \E p, q \in DOMAIN odds :
        p # q /\ into[odds[p]] = into[odds[q]] /\ odds[p] # odds[q]

Repointed(into) ==
    IF Refused(into) THEN UNCHANGED <<games, odds, picks, series>>
    ELSE /\ games' = [r \in Rows |-> IF into[r] # r THEN NoGame ELSE games[r]]
         /\ odds' = [q \in DOMAIN odds |-> into[odds[q]]]
         /\ picks' = {into[r] : r \in picks}
         /\ series' = {into[r] : r \in series}

\* resolve_duplicate_games: rows of one date and team, when exactly one is final.
SameFixture(r) == {q \in Present : games[q].day = games[r].day /\ games[q].team = games[r].team}

resolve_duplicate_games ==
    LET final(r) == {q \in SameFixture(r) : games[q].status = "final"}
        into == [r \in Rows |-> IF r \in Present /\ Cardinality(final(r)) = 1
                                THEN Least(final(r)) ELSE r]
    IN  /\ repairing = "duplicates"
        /\ Repointed(into)
        /\ repairing' = IF Refused(into) THEN "idle" ELSE "twins"
        /\ UNCHANGED <<world, label, indexed, owner, quoteOf>>

\* resolve_offset_twins: of two neighbouring rows one day apart, one is final
\* with ESPN's id, the other has no score, no id and is not final.
Real(r) == games[r].status = "final" /\ games[r].espn # None
Empty(r) == games[r].status # "final" /\ games[r].score = None /\ games[r].espn = None
After(r) == {q \in Present : games[q].team = games[r].team
                             /\ (games[q].day > games[r].day \/ (games[q].day = games[r].day /\ q > r))}
Neighbours == {rq \in Present \X Present :
                  After(rq[1]) # {} /\ rq[2] = Earliest(After(rq[1]))
                  /\ games[rq[2]].day - games[rq[1]].day = 1}

resolve_offset_twins ==
    LET home(r) == {q \in Rows : Real(q) /\ (<<r, q>> \in Neighbours \/ <<q, r>> \in Neighbours)}
        into == [r \in Rows |-> IF r \in Present /\ Empty(r) /\ home(r) # {}
                                THEN Earliest(home(r)) ELSE r]
    IN  /\ repairing = "twins" /\ repairing' = "idle"
        /\ Repointed(into)
        /\ UNCHANGED <<world, label, indexed, owner, quoteOf>>

\* The script is stopped between two of its transactions.
Stop ==
    /\ repairing # "idle" /\ repairing' = "idle"
    /\ UNCHANGED <<world, label, games, odds, picks, series, indexed, owner, quoteOf>>

----------------------------------------------------------------------------
(* Scripts that ask ESPN *)

\* restore_miscanceled_games: a canceled row without a score, when the lookup
\* by abbreviation ends on a final event.
restore_miscanceled_games(failed) ==
    LET found(r) == Looked(games[r].day, failed)
        restored == {r \in Present : /\ games[r].status = "canceled" /\ games[r].score = None
                                     /\ label[games[r].team] = "abbr"
                                     /\ found(r) # None /\ world[found(r)] = "final"}
    IN  /\ games' = [r \in Rows |-> IF r \notin restored THEN games[r]
                        ELSE [games[r] EXCEPT !.status = "final", !.score = found(r),
                                  !.espn = IF @ = None THEN found(r) ELSE @]]
        /\ UNCHANGED <<world, label, odds, picks, series, indexed, repairing, owner, quoteOf>>

\* backfill_espn_ids: a row without an id, unless two such rows have its date
\* and teams.  Nothing else is written.
backfill_espn_ids(failed) ==
    LET found(r) == Looked(games[r].day, failed)
        bare == {r \in Present : games[r].espn = None /\ label[games[r].team] = "abbr"}
        alone(r) == \A q \in bare \ {r} : games[q].day # games[r].day \/ games[q].team # games[r].team
    IN  /\ games' = [r \in Rows |-> IF r \in bare /\ alone(r)
                                    THEN [games[r] EXCEPT !.espn = found(r)] ELSE games[r]]
        /\ UNCHANGED <<world, label, odds, picks, series, indexed, repairing, owner, quoteOf>>

\* backfill_game_flags: rows are matched by id alone; a request that fails
\* ends the run.
backfill_game_flags ==
    LET seen(r) == \E i \in DOMAIN Offsets : games[r].espn \in Board(games[r].day + Offsets[i])
    IN  /\ games' = [r \in Rows |-> IF r \in Present /\ seen(r)
                                    THEN [games[r] EXCEPT !.flags = games[r].espn] ELSE games[r]]
        /\ UNCHANGED <<world, label, odds, picks, series, indexed, repairing, owner, quoteOf>>

\* _store_games without reconciliation: the row with the event's id, whose
\* date it corrects, else one without id of its date and team, else a new one.
Found(e) ==
    LET byId == {r \in Present : games[r].espn = e}
        byDate == {r \in Present : games[r].espn = None /\ games[r].day = Day[e]
                                   /\ games[r].team = Canonical}
    IN  IF byId # {} THEN byId ELSE byDate

Filled(row, e) ==
    LET row2 == [row EXCEPT !.espn = e, !.flags = e,
                            !.day = IF row.espn = e THEN Day[e] ELSE @]
    IN  IF world[e] = "final" THEN [row2 EXCEPT !.status = "final", !.score = e] ELSE row2

Fresh(e) == [team |-> Canonical, day |-> Day[e], espn |-> e, status |-> world[e],
             score |-> IF world[e] = "final" THEN e ELSE None, flags |-> e]

\* The dates backfill_date_range is asked for.
daterange == {Day[e] : e \in Events}

\* One request of catch_up_finals, which asks for dates with a row that is not
\* final and their neighbours, or of backfill_date_range.  A request that
\* fails stores nothing.  A new team row is not modelled.
fetch_date(d) ==
    \E e \in Board(d) :
        /\ Team({"abbr"}) # {}
        /\ IF Found(e) # {}
           THEN /\ games' = [games EXCEPT ![Least(Found(e))] = Filled(@, e)]
                /\ UNCHANGED owner
           ELSE \E r \in Rows \ Present :
                   /\ games' = [games EXCEPT ![r] = Fresh(e)]
                   /\ owner' = [owner EXCEPT ![r] = e]
        /\ UNCHANGED <<world, label, odds, picks, series, indexed, repairing, quoteOf>>

----------------------------------------------------------------------------
(* Scripts over the odds *)

\* dedupe_odds_rows, and the index it then builds.
dedupe_odds_rows ==
    /\ odds' = [q \in DOMAIN odds \ UNION {Colliding({r}) : r \in Rows} |-> odds[q]]
    /\ indexed' = TRUE
    /\ UNCHANGED <<world, label, games, picks, series, repairing, owner, quoteOf>>

\* backfill_line_snapshots: one snapshot for each quote without a series.
seed_from_odds ==
    /\ series' = series \cup {odds[q] : q \in DOMAIN odds}
    /\ UNCHANGED <<world, label, games, odds, picks, indexed, repairing, owner, quoteOf>>

\* A game is played.
Play(e) ==
    /\ world[e] = "scheduled" /\ Day[e] <= Today
    /\ world' = [world EXCEPT ![e] = "final"]
    /\ UNCHANGED <<label, games, odds, picks, series, indexed, repairing, owner, quoteOf>>

----------------------------------------------------------------------------

\* A row made from ESPN's scoreboard: until it had an id it may be filed under
\* the day after.  Or one made from the odds, possibly under a team row of its
\* own, and possibly canceled since.
Made(e) ==
    LET listed == [NoGame EXCEPT !.team = 1, !.day = Day[e], !.status = "scheduled"]
        base == {[listed EXCEPT !.espn = e, !.flags = e], [listed EXCEPT !.day = @ + 1], listed}
        quoted == {[listed EXCEPT !.team = t] : t \in Team({"name", "alias"})}
        done(row) == [row EXCEPT !.status = "final", !.score = e]
    IN  (IF world[e] = "absent" \/ label[1] # "abbr" THEN {}
         ELSE base \cup {[row EXCEPT !.status = "canceled"] : row \in base}
              \cup (IF world[e] = "final" THEN {done(row) : row \in base} ELSE {}))
        \cup quoted \cup {[row EXCEPT !.status = "canceled"] : row \in quoted}

Init ==
    /\ world \in [Events -> {"scheduled", "final", "absent"}] /\ world[First] # "scheduled"
    /\ \A e \in Events : world[e] = "final" => Day[e] <= Today
    /\ label \in {<<"abbr", "name">>, <<"name", "alias">>}
    /\ owner \in [Rows -> Events]
    /\ games \in [Rows -> {NoGame} \cup UNION {Made(e) : e \in Events}]
    /\ \A r \in Present : games[r] \in Made(owner[r])
    /\ \A r \in Rows \ Present : owner[r] = First
    /\ \A r, q \in Present : r # q => games[r] # games[q]
    /\ Present = {1, 2} /\ owner[1] = First
    /\ ~\A r \in Present : games[r].status = "canceled"
    /\ label[1] = "abbr" \/ world[First] = "final"
    /\ picks \in {{r} : r \in Present}
    /\ odds \in [Quotes -> Present] /\ odds[Least(Quotes)] = 1
    /\ indexed = \A p, q \in Quotes : p # q => odds[p] # odds[q]
    /\ quoteOf = [q \in Quotes |-> owner[odds[q]]]
    /\ series = {} /\ repairing = "idle"

Next ==
    \/ merge_duplicate_games \/ repair \/ resolve_duplicate_games \/ resolve_offset_twins \/ Stop
    \/ \E failed \in Faults : restore_miscanceled_games(failed) \/ backfill_espn_ids(failed)
    \/ backfill_game_flags
    \/ \E d \in daterange : fetch_date(d)
    \/ dedupe_odds_rows \/ seed_from_odds
    \/ \E e \in Events : Play(e)

Spec == Init /\ [][Next]_vars

----------------------------------------------------------------------------

TypeOK ==
    /\ world \in [Events -> {"scheduled", "final", "absent"}]
    /\ label \in [{1, 2} -> {"abbr", "name", "alias", "unknown", "none"}]
    /\ games \in [Rows -> [team : 0..2, day : Nat, espn : Events \cup {None},
                           status : {"absent", "scheduled", "canceled", "final"},
                           score : Events \cup {None}, flags : Events \cup {None}]]
    /\ odds \in UNION {[S -> Present] : S \in SUBSET Quotes}
    /\ picks \subseteq Present /\ series \subseteq Present
    /\ \A r \in Present : label[games[r].team] # "none"
    /\ indexed \in BOOLEAN /\ repairing \in {"idle", "duplicates", "twins"}

\* A row's result, ESPN id and flags are those of the game it was made for,
\* however many scripts have matched it by its date and teams, and whichever
\* of their requests failed.
OwnResult ==
    \A r \in Present : {games[r].score, games[r].espn, games[r].flags} \subseteq {owner[r], None}

Decided(e) == \E r \in Present : owner[r] = e /\ games[r].status = "final" /\ games[r].score = e
Best(e) == {q \in DOMAIN odds : quoteOf[q] = e /\ \A p \in DOMAIN odds : quoteOf[p] = e => p <= q}

\* No repair loses a decided result or a game's newest quote, or moves a quote
\* or a pick onto another game.
LosesNothing ==
    /\ \A e \in Events : /\ Decided(e) => Decided(e)'
                         /\ Best(e) \subseteq DOMAIN odds'
    /\ \A q \in DOMAIN odds' : owner'[odds'[q]] = quoteOf[q]
    /\ {owner[r] : r \in picks} = {owner'[r] : r \in picks'}
NothingLost == [][LosesNothing]_vars

\* resolve_offset_twins leaves games of the same teams on consecutive days
\* alone: a game that has a row keeps one.
BackToBacksKept ==
    [][repairing = "twins" =>
           {owner[r] : r \in {q \in Present : world[owner[q]] # "absent"}} \subseteq {owner'[r] : r \in Present'}]_vars
=============================================================================
