---------------------------- MODULE CombatBouts ----------------------------
(***************************************************************************)
(* The bouts of two fighters who meet once: rows from the odds feed, under *)
(* any corner order and up to a day off, the sources that know the result, *)
(* the scout that finalizes and rates, and the scripts that merge, void    *)
(* and import.  A row's score is 1 to the winner's corner and 0 to the     *)
(* other.  The rating is kept as the results it is a running product of.   *)
(***************************************************************************)
EXTENDS Integers, Sequences, FiniteSets, SequencesExt, FiniteSetsExt

CONSTANTS
    a, b,             \* the fighters
    FightDay, LastDay,   \* when they meet; the clock's bound
    MAX_DAYS_FROM,    \* reach of the /scores endpoint, in days
    ADJACENT_DAYS,    \* how far apart two rows of one card may be dated
    LOOKBACK_DAYS,    \* the scout's window
    MaxRows,          \* rows of this pair, at most
    None

BoutsAssumption ==
    /\ a # b /\ "draw" \notin {a, b} /\ None \notin {a, b, "draw"}
    /\ None \notin [home : {0, 1}, away : {0, 1}] /\ {FightDay, LastDay} \subseteq Int

VARIABLES
    today,
    truth,            \* who wins: a, b or "draw"
    card,             \* the day the ESPN scoreboard files the bout under
    bouts,            \* rows: id -> day, corners, status, score, its pick,
                      \* whether the feed tracks it and it has line snapshots
    made,             \* rows made so far, which numbers them
    scout,            \* the scout's place, and the rows it found unrated
    rated,            \* the results the two ratings are made of, in order
    history,          \* ids with elo_history rows
    raced             \* history: a script rebuilt the ratings while a grading
                      \* pass held a list of unrated rows
vars == <<today, truth, card, bouts, made, scout, rated, history, raced>>

Other(f) == IF f = a THEN b ELSE a
Ids == DOMAIN bouts
With(id, row) == [i \in Ids \cup {id} |-> IF i = id THEN row ELSE bouts[i]]
Without(S) == [i \in Ids \ S |-> bouts[i]]

Away(row) == Other(row.home)
Scored(row) == row.score # None
_winner(row) ==
    CASE ~Scored(row) \/ row.score.home = row.score.away -> None
      [] OTHER -> IF row.score.home > row.score.away THEN row.home ELSE Away(row)
actual_score(row) == IF _winner(row) = None THEN "draw" ELSE _winner(row)

(* By corner: the source lists `a` first. *)
ByCorner(row, winner) == IF winner = a THEN [home |-> 1, away |-> 0] ELSE [home |-> 0, away |-> 1]
(* Scores for a row: by name, never by corner. *)
Binary(row, winner) == IF winner = row.home THEN [home |-> 1, away |-> 0] ELSE [home |-> 0, away |-> 1]
WithDraws(row, winner) == IF winner = "draw" THEN [home |-> 1, away |-> 1] ELSE Binary(row, winner)
Final(row, score) == [row EXCEPT !.status = "final", !.score = score]

----------------------------------------------------------------------------
Init ==
    /\ today = 1 /\ truth \in {a, b, "draw"} /\ card \in {FightDay - 1, FightDay}
    /\ bouts = <<>> /\ made = 0 /\ scout = [pc |-> "idle", unrated |-> {}]
    /\ rated = <<>> /\ history = {} /\ raced = FALSE

(* The odds feed lists the bout, or lists it again under another date. *)
Announce ==
    /\ made < MaxRows /\ made' = made + 1
    /\ \E d \in FightDay - 1 .. FightDay + 1, f \in {a, b}, p \in {"none", "open"}, priced \in BOOLEAN :
          /\ d >= today /\ (p = "none" => ~priced)
          /\ bouts' = With(made + 1, [day |-> d, home |-> f, status |-> "scheduled", score |-> None,
                                      pick |-> p, feed |-> TRUE, priced |-> priced])
    /\ UNCHANGED <<today, truth, card, scout, rated, history, raced>>

NextDay ==
    /\ scout.pc = "idle" /\ today < LastDay /\ today' = today + 1
    /\ UNCHANGED <<truth, card, bouts, made, scout, rated, history, raced>>

----------------------------------------------------------------------------
(* The morning scout: ESPN's scoreboard, the odds feed's scores, the rating *)
(* pass and the grading of what became final.                               *)
stuck_bouts == {i \in Ids : bouts[i].status = "scheduled"
                   /\ bouts[i].day < today /\ bouts[i].day >= today - LOOKBACK_DAYS}
stuck_combat == {i \in Ids : bouts[i].status = "scheduled"
                    /\ bouts[i].day <= today /\ bouts[i].day >= today - MAX_DAYS_FROM}

(* bouts_from_event, bouts_from_scores: decided bouts only, never a draw. *)
Decided == today > FightDay /\ truth # "draw"
EspnLists(day) == Decided /\ day = card
ScoresList == Decided /\ FightDay >= today - MAX_DAYS_FROM

Finalized(S) == [i \in Ids |-> IF i \in S THEN Final(bouts[i], Binary(bouts[i], truth)) ELSE bouts[i]]

finalize_stuck_bouts ==
    /\ scout.pc = "idle"
    /\ \E failed \in SUBSET {bouts[i].day : i \in stuck_bouts} :
          bouts' = Finalized({i \in stuck_bouts : EspnLists(bouts[i].day) /\ bouts[i].day \notin failed})
    /\ scout' = [scout EXCEPT !.pc = "scores"]
    /\ UNCHANGED <<today, truth, card, made, rated, history, raced>>

(* match_bout looks at the pair, not at the date; no key, no call. *)
finalize_from_scores ==
    /\ scout.pc = "scores"
    /\ \E answered \in BOOLEAN :
          bouts' = Finalized(IF answered /\ ScoresList THEN stuck_combat ELSE {})
    /\ scout' = [scout EXCEPT !.pc = "list"]
    /\ UNCHANGED <<today, truth, card, made, rated, history, raced>>

(* grade_completed_games: the rows without history are listed before the    *)
(* first write takes the lock.                                              *)
Rateable == {i \in Ids : bouts[i].status = "final" /\ Scored(bouts[i])}
ListUnrated ==
    /\ scout.pc = "list"
    /\ scout' = [pc |-> "rate", unrated |-> Rateable \ history]
    /\ UNCHANGED <<today, truth, card, bouts, made, rated, history, raced>>

(* _apply_combat_elo_update, for one row or for rows in order. *)
Applied(ids) == [n \in 1 .. Len(ids) |-> [id |-> ids[n], result |-> actual_score(bouts[ids[n]])]]
(* The members of S, each after the ones that come before it. *)
InOrder(S, before) == [n \in 1 .. Cardinality(S) |-> CHOOSE i \in S : Cardinality({j \in S : <<j, i>> \in before}) = n - 1]
ById(S) == InOrder(S, {p \in S \X S : p[1] < p[2]})
Graded(rows) ==
    [i \in DOMAIN rows |-> IF rows[i].pick = "open" /\ rows[i].status = "final" /\ Scored(rows[i])
                           THEN [rows[i] EXCEPT !.pick = "graded"] ELSE rows[i]]
grade_completed_games ==
    LET unrated == scout.unrated \cap Ids IN
    /\ scout.pc = "rate"
    /\ rated' = rated \o Applied(ById(unrated)) /\ history' = history \cup unrated
    /\ bouts' = Graded(bouts)
    /\ scout' = [pc |-> "idle", unrated |-> {}]
    /\ UNCHANGED <<today, truth, card, made, raced>>

----------------------------------------------------------------------------
(* Scripts an operator runs: each is one transaction. *)
Earlier(i, j) == bouts[i].day < bouts[j].day \/ (bouts[i].day = bouts[j].day /\ i < j)
Replayed(rows) ==
    LET ids == {i \in DOMAIN rows : rows[i].status = "final" /\ Scored(rows[i])}
        order == InOrder(ids, {p \in ids \X ids : \/ rows[p[1]].day < rows[p[2]].day
                                                  \/ rows[p[1]].day = rows[p[2]].day /\ p[1] < p[2]})
    IN [n \in 1 .. Len(order) |-> [id |-> order[n], result |-> actual_score(rows[order[n]])]]
(* rebuild_combat_elo: from the seed, over what is stored. *)
rebuild_combat_elo(rows) ==
    /\ rated' = Replayed(rows) /\ history' = {Replayed(rows)[n].id : n \in DOMAIN Replayed(rows)}
    /\ raced' = (raced \/ scout.pc = "rate")

(* dedupe_combat_games: rows of one date; the lowest id stays.  A group     *)
(* whose copies disagree about the winner is refused, and a row to drop     *)
(* that has line snapshots makes the database refuse the whole run.         *)
Copies(i) == {j \in Ids : bouts[j].day = bouts[i].day}
conflicting(S) == Cardinality({_winner(bouts[j]) : j \in S} \ {None}) > 1
Doomed == {i \in Ids : i # Min(Copies(i)) /\ ~conflicting(Copies(i))}
dedupe_combat_games ==
    /\ Doomed # {} /\ \A i \in Doomed : ~bouts[i].priced
    /\ bouts' = Without(Doomed) /\ rebuild_combat_elo(bouts')
    /\ UNCHANGED <<today, truth, card, made, scout>>

(* date_split_groups: neighbours in date order, one or two days apart; the  *)
(* row with the result stays, else the one the feed tracks.  Two results    *)
(* are refused.                                                             *)
Neighbours(i, j) == Earlier(i, j) /\ ~\E k \in Ids : Earlier(i, k) /\ Earlier(k, j)
Split(i, j) == /\ Neighbours(i, j) /\ bouts[j].day - bouts[i].day \in 1 .. ADJACENT_DAYS
               /\ ~(bouts[i].status = "final" /\ bouts[j].status = "final")
Kept(i, j) ==
    IF \/ bouts[i].status = "final"
       \/ bouts[j].status # "final" /\ (bouts[i].feed \/ ~bouts[j].feed)
    THEN i ELSE j
merge_date_splits ==
    /\ \E i, j \in Ids :
          /\ Split(i, j)
          /\ LET drop == IF Kept(i, j) = i THEN j ELSE i IN
             /\ bouts' = Without({drop}) /\ history' = history \ {drop}
    /\ UNCHANGED <<today, truth, card, made, scout, rated, raced>>

(* settle_as_void *)
Voided(rows, S) ==
    [i \in DOMAIN rows |-> IF i \notin S THEN rows[i]
        ELSE [rows[i] EXCEPT !.status = "canceled", !.pick = IF @ = "none" THEN @ ELSE "void"]]

(* Too old for any source, without a score and without a graded pick. *)
voidable == {i \in Ids : bouts[i].status = "scheduled" /\ bouts[i].day < today - MAX_DAYS_FROM}
void_stuck_bouts ==
    LET S == {i \in voidable : ~Scored(bouts[i]) /\ bouts[i].pick \in {"none", "open"}} IN
    /\ S # {} /\ bouts' = Voided(bouts, S)
    /\ UNCHANGED <<today, truth, card, made, scout, rated, history, raced>>

(* void_reschedules: a past row whose pair is listed on a later date. *)
stale_reschedules ==
    {i \in Ids : bouts[i].status = "scheduled" /\ bouts[i].day < today
                    /\ \E j \in Ids : bouts[j].day > bouts[i].day}
void_reschedules ==
    /\ stale_reschedules # {} /\ bouts' = Voided(bouts, stale_reschedules)
    /\ UNCHANGED <<today, truth, card, made, scout, rated, history, raced>>

(* ingest_recent_ufc_event: the row of this date in either corner order, or *)
(* a new one; a draw is a result here.                                      *)
Known == {i \in Ids : bouts[i].day = FightDay}
NewFinal(f) == [day |-> FightDay, home |-> f, status |-> "final",
                score |-> WithDraws([home |-> f], truth), pick |-> "none", feed |-> FALSE, priced |-> FALSE]
ingest_recent_ufc_event ==
    /\ today > FightDay
    /\ IF Known # {}
       THEN /\ bouts' = LET i == Min(Known) IN [bouts EXCEPT ![i] = Final(@, WithDraws(@, truth))]
            /\ made' = made
       ELSE /\ made < MaxRows /\ made' = made + 1
            /\ \E f \in {a, b} : bouts' = With(made + 1, NewFinal(f))
    /\ UNCHANGED <<today, truth, card, scout, rated, history, raced>>

(* import_bouts: skipped when a row near the date is final; a single one    *)
(* that is not is finalized only when asked to and nothing is staked on it; *)
(* then the ratings are replayed.                                           *)
Near == {i \in Ids : bouts[i].day - FightDay \in -ADJACENT_DAYS .. ADJACENT_DAYS}
import_bouts(finalize_unfinished) ==
    /\ today > FightDay
    /\ CASE \E i \in Near : bouts[i].status = "final" -> UNCHANGED <<bouts, made>>
         [] Near # {} /\ (\A i \in Near : bouts[i].status # "final") ->
              /\ bouts' = IF finalize_unfinished /\ Cardinality(Near) = 1
                             /\ \A i \in Near : bouts[i].pick = "none"
                          THEN [i \in Ids |-> IF i \in Near THEN Final(bouts[i], WithDraws(bouts[i], truth))
                                              ELSE bouts[i]]
                          ELSE bouts
              /\ made' = made
         [] OTHER -> /\ made < MaxRows /\ made' = made + 1
                     /\ \E f \in {a, b} : bouts' = With(made + 1, NewFinal(f))
    /\ rebuild_combat_elo(bouts')
    /\ UNCHANGED <<today, truth, card, scout>>

Next == \/ Announce \/ NextDay
        \/ finalize_stuck_bouts \/ finalize_from_scores \/ ListUnrated \/ grade_completed_games
        \/ dedupe_combat_games \/ merge_date_splits \/ void_stuck_bouts
        \/ void_reschedules \/ ingest_recent_ufc_event
        \/ \E finalize_unfinished \in BOOLEAN : import_bouts(finalize_unfinished)
Spec == Init /\ [][Next]_vars

----------------------------------------------------------------------------
TypeOK ==
    /\ today \in 1 .. LastDay /\ made \in 0 .. MaxRows /\ Ids \subseteq 1 .. made
    /\ \A i \in Ids : /\ bouts[i].status \in {"scheduled", "final", "canceled"}
                      /\ bouts[i].pick \in {"none", "open", "graded", "void"}
    /\ scout.pc \in {"idle", "scores", "list", "rate"} /\ history \subseteq 1 .. made

(* Whoever wrote a result, from whichever source and in whichever corner    *)
(* order, it names the fighter who won.                                     *)
RightWinner == \A i \in Ids : Scored(bouts[i]) => actual_score(bouts[i]) = truth

(* The ratings are made of each rated row once, with the result the row     *)
(* has, and nothing rated has been deleted: scripts that delete a row       *)
(* replay, and one that finds two results refuses.                          *)
RatingsAddUp ==
    raced \/ /\ {rated[n].id : n \in DOMAIN rated} = history
             /\ Cardinality(history) = Len(rated)
             /\ \A n \in DOMAIN rated :
                   rated[n].id \in Ids /\ rated[n].result = actual_score(bouts[rated[n].id])
=============================================================================
