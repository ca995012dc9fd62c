---------------------------- MODULE GameLifecycle ----------------------------
(***************************************************************************)
(* The games table between ESPN's scoreboard and everything that reads it. *)
(* A results pass fetches a date's scoreboard, stores each event on its    *)
(* row and then reconciles: a row ESPN did not list is canceled, a         *)
(* canceled row it lists is restored.  The live poll writes running scores *)
(* between passes.  The scout, the owner's pipeline trigger and the        *)
(* catch-up script may run a pass at the same time.                        *)
(*                                                                         *)
(* A session keeps the rows it has loaded.  Its changes are written by the *)
(* flush before its next query, or at its commit; the first flush takes    *)
(* the write lock, and an UPDATE names only the columns that differ from   *)
(* what was loaded.                                                        *)
(***************************************************************************)
EXTENDS Integers, FiniteSets

CONSTANTS
    Games,     \* events of one sport and date; a row is the event with its espn_id
    BoardOf,   \* the scoreboard a game is polled on
    Passes,    \* threads and processes that run fetch_and_store_games
    Pollers,   \* the live_scores job
    MaxScore,  \* a side's highest score
    Turns,     \* what else may become of an event: see Turn
    MaxTurns,  \* how often it does
    Crowded,   \* whether ESPN lists further events of the sport and date
    Partial,   \* whether ESPN may leave out an event it has
    Modes,     \* whether a pass reconciles: TRUE for today's, FALSE for a lookback
    MaxAborts  \* how many passes and polls fail part way

\* Nobody holds the lock.
Free == "free"

(* What the constants may be. *)
GameAssumption ==
    /\ Passes \cap Pollers = {} /\ Free \notin Passes \cup Pollers
    /\ MaxScore \in Nat /\ MaxTurns \in Nat /\ MaxAborts \in Nat /\ Partial \in BOOLEAN
    /\ Crowded \in BOOLEAN
    /\ Modes \subseteq BOOLEAN /\ Modes # {}
    /\ Turns \subseteq {"postpone", "correct"}

VARIABLES
    row,     \* the games table, committed
    extra,   \* games with a second row of the same espn_id
    feed,    \* ESPN: each event's phase and score
    said,    \* the final scores ESPN has shown of each game
    turns,   \* turns so far
    lock,    \* who holds SQLite's write lock
    tx,      \* row and extra as the holder's transaction has them
    pass,    \* what each results pass has in memory
    poll,    \* what each live poll has in memory
    aborts   \* failures so far

espn == <<feed, said, turns>>
db == <<row, extra>>
vars == <<row, extra, feed, said, turns, lock, tx, pass, poll, aborts>>

----------------------------------------------------------------------------
(* Rows and ESPN's events *)

Score == 0..MaxScore
NoRow == [status |-> "absent", home |-> 0, away |-> 0, called |-> FALSE]

\* ESPN's status as the collector maps it; a pause in play maps to "scheduled".
StatusOf(phase) ==
    CASE phase = "pre" -> {"scheduled"}
      [] phase = "in" -> {"scheduled", "in_progress"}
      [] phase = "final" -> {"final"}
      [] phase = "postponed" -> {"postponed"}

NoTx == [row |-> <<>>, extra |-> {}]
Idle == [at |-> "idle", report |-> <<>>, todo |-> {}, base |-> <<>>, mine |-> <<>>, inserts |-> {},
         reconcile |-> FALSE]
NoPoll == [todo |-> {}, board |-> <<>>]

----------------------------------------------------------------------------
(* ESPN *)

\* A game starts, scores and ends.
Play(g) ==
    LET e == feed[g]
    IN  /\ \/ e.phase = "pre" /\ feed' = [feed EXCEPT ![g].phase = "in"]
           \/ e.phase = "in" /\ e.home < MaxScore /\ feed' = [feed EXCEPT ![g].home = @ + 1]
           \/ e.phase = "in" /\ e.away < MaxScore /\ feed' = [feed EXCEPT ![g].away = @ + 1]
           \/ e.phase = "in" /\ feed' = [feed EXCEPT ![g].phase = "final"]
        /\ said' = IF feed'[g].phase = "final"
                   THEN [said EXCEPT ![g] = @ \cup {<<e.home, e.away>>}] ELSE said
        /\ UNCHANGED <<turns, db, lock, tx, pass, poll, aborts>>

\* It is postponed or put back on; its final score is corrected.
Turn(g) ==
    LET phase(from, to) == feed[g].phase = from /\ feed' = [feed EXCEPT ![g].phase = to]
    IN  /\ turns < MaxTurns /\ turns' = turns + 1
        /\ \/ /\ "postpone" \in Turns
              /\ phase("pre", "postponed") \/ phase("postponed", "pre")
              /\ UNCHANGED said
           \/ /\ "correct" \in Turns /\ feed[g].phase = "final"
              /\ \E h, a \in Score :
                   /\ feed' = [feed EXCEPT ![g].home = h, ![g].away = a]
                   /\ said' = [said EXCEPT ![g] = @ \cup {<<h, a>>}]
        /\ UNCHANGED <<db, lock, tx, pass, poll, aborts>>

----------------------------------------------------------------------------
(* A results pass *)

\* The scoreboard as it is now.  A lookback pass does not reconcile; nor does
\* one for which ESPN listed no event.
Fetch(p, listed, reconcile) ==
    /\ pass[p].at = "idle"
    /\ pass' = [pass EXCEPT ![p] =
           [Idle EXCEPT !.at = "storing", !.report = [g \in listed |-> feed[g]],
                        !.todo = listed, !.reconcile = reconcile /\ (listed # {} \/ Crowded)]]
    /\ UNCHANGED <<espn, db, lock, tx, poll, aborts>>

\* The rows as pass p sees them in the database.
View(p) == IF lock = p THEN tx ELSE [row |-> row, extra |-> extra]

Dirty(p) ==
    pass[p].inserts \cup {g \in DOMAIN pass[p].mine : pass[p].mine[g] # pass[p].base[g]}

\* UPDATE games: only the columns that differ from what was loaded.
Update(now, base, mine) ==
    [c \in DOMAIN now |-> IF mine[c] = base[c] THEN now[c] ELSE mine[c]]

\* The tables with pass p's changes written.  A second INSERT of one event
\* makes a second row: nothing in the schema forbids it.
Flushed(p) ==
    LET t == View(p)
        new == {g \in pass[p].inserts : t.row[g].status = "absent"}
    IN  [row |-> [g \in Games |->
             IF g \in new THEN pass[p].mine[g]
             ELSE IF g \in Dirty(p) \ pass[p].inserts
             THEN Update(t.row[g], pass[p].base[g], pass[p].mine[g]) ELSE t.row[g]],
         extra |-> t.extra \cup (pass[p].inserts \ new)]

\* Every query flushes first; then the pass holds the lock and nothing is dirty.
Query(p) ==
    IF Dirty(p) = {} THEN UNCHANGED <<lock, tx>>
    ELSE lock \in {Free, p} /\ lock' = p /\ tx' = Flushed(p)

Found(p) == IF Dirty(p) = {} THEN View(p).row ELSE Flushed(p).row

Clean(p) == [pass[p] EXCEPT !.base = pass[p].mine, !.inserts = {}]

\* The lookup by espn_id finds the event's row.
Match(r) == r.status # "absent"

\* Mutant: the score is filled in only where the live poll wrote none.
StoreMissing(r, event) ==
    IF event.phase # "final" THEN r
    ELSE IF r.status = "in_progress" THEN [r EXCEPT !.status = "final"]
    ELSE [r EXCEPT !.status = "final", !.home = event.home, !.away = event.away]

\* What an event changes on its row: a final score, new or corrected.
Stored(r, event) ==
    IF event.phase # "final" THEN r
    ELSE [r EXCEPT !.status = "final", !.home = event.home, !.away = event.away]

Store(p, g) ==
    /\ g \in pass[p].todo
    /\ Query(p)
    /\ LET event == pass[p].report[g]
           found == Found(p)[g]
           mem == [Clean(p) EXCEPT !.todo = @ \ {g}]
           add(f, v) == [x \in DOMAIN f \cup {g} |-> IF x = g THEN v ELSE f[x]]
       IN  IF Match(found)
           THEN pass' = [pass EXCEPT ![p] =
                    [mem EXCEPT !.base = add(@, found), !.mine = add(@, Stored(found, event))]]
           ELSE \E s \in StatusOf(event.phase) :
                LET made == [status |-> s, home |-> event.home, away |-> event.away,
                             called |-> FALSE]
                IN  pass' = [pass EXCEPT ![p] =
                        [mem EXCEPT !.base = add(@, made), !.mine = add(@, made),
                                    !.inserts = {g}]]
    /\ UNCHANGED <<espn, db, poll, aborts>>

\* _reconcile_against_espn's rule for one row.
Reconciled(r, listed) ==
    IF r.status \in {"final", "in_progress"} THEN r
    ELSE IF ~listed THEN [r EXCEPT !.status = "canceled"]
    ELSE IF r.status = "canceled" THEN [r EXCEPT !.status = "scheduled"]
    ELSE r

\* Rows the pass has loaded already keep the values they were loaded with.
Reconcile(p) ==
    /\ pass[p].at = "storing" /\ pass[p].todo = {} /\ pass[p].reconcile
    /\ Query(p)
    /\ LET mem == Clean(p)
           rows == {g \in Games : Found(p)[g].status # "absent"} \cup DOMAIN mem.mine
           known == [g \in rows |-> IF g \in DOMAIN mem.mine THEN mem.mine[g] ELSE Found(p)[g]]
       IN  pass' = [pass EXCEPT ![p] =
               [mem EXCEPT !.at = "reconciled", !.base = known,
                   !.mine = [g \in rows |-> Reconciled(known[g], g \in DOMAIN mem.report)]]]
    /\ UNCHANGED <<espn, db, poll, aborts>>

\* Mutant: the lock is given back but the transaction left open.
ReleaseLock == lock' = Free /\ UNCHANGED tx

\* The transaction ends.
Release == lock' = Free /\ tx' = NoTx

Commit(p) ==
    /\ pass[p].todo = {}
    /\ pass[p].at = IF pass[p].reconcile THEN "reconciled" ELSE "storing"
    /\ IF Dirty(p) = {} /\ lock # p THEN UNCHANGED <<db, lock, tx>>
       ELSE /\ lock \in {Free, p}
            /\ row' = Flushed(p).row /\ extra' = Flushed(p).extra
            /\ Release
    /\ pass' = [pass EXCEPT ![p] = Idle]
    /\ UNCHANGED <<espn, poll, aborts>>

\* The process stops, or the lock was not to be had in five seconds.
Abort(p) ==
    /\ pass[p].at # "idle" /\ aborts < MaxAborts
    /\ aborts' = aborts + 1
    /\ pass' = [pass EXCEPT ![p] = Idle]
    /\ IF lock = p THEN Release ELSE UNCHANGED <<lock, tx>>
    /\ UNCHANGED <<espn, db, poll>>

----------------------------------------------------------------------------
(* The live poll *)

\* live_candidates: unfinished, and not yet called by ESPN.
Candidates == {g \in Games : row[g].status \in {"scheduled", "in_progress"} /\ ~row[g].called}

StartPoll(q) ==
    /\ poll[q] = NoPoll /\ lock # q /\ Candidates # {}
    /\ poll' = [poll EXCEPT ![q].todo = Candidates]
    /\ UNCHANGED <<espn, db, lock, tx, pass, aborts>>

\* One board's events.  The lock of an earlier board's writes is kept meanwhile.
PollFetch(q, b) ==
    LET games == {g \in poll[q].todo : BoardOf[g] = b}
    IN  /\ games # {} /\ poll[q].board = <<>>
        /\ poll' = [poll EXCEPT ![q] =
               [todo |-> @.todo \ games, board |-> [g \in games |-> feed[g]]]]
        /\ UNCHANGED <<espn, db, lock, tx, pass, aborts>>

Live(event) == event.phase \in {"in", "final"}

\* Mutant: the row is written whatever it has become.
LiveRowAny(r, event) ==
    [status |-> "in_progress", home |-> event.home, away |-> event.away,
     called |-> event.phase = "final"]

\* apply_scoreboard's conditional UPDATE.
LiveRow(r, event) ==
    IF r.status \notin {"scheduled", "in_progress"} THEN r
    ELSE [status |-> "in_progress", home |-> event.home, away |-> event.away,
          called |-> event.phase = "final"]

PollWrite(q) ==
    LET board == poll[q].board
        live == {g \in DOMAIN board : Live(board[g])}
        t == View(q)
    IN  /\ board # <<>>
        /\ poll' = [poll EXCEPT ![q].board = <<>>]
        /\ IF live = {} THEN UNCHANGED <<lock, tx>>
           ELSE /\ lock \in {Free, q} /\ lock' = q
                /\ tx' = [t EXCEPT !.row = [g \in Games |->
                       IF g \in live THEN LiveRow(t.row[g], board[g]) ELSE t.row[g]]]
        /\ UNCHANGED <<espn, db, pass, aborts>>

PollCommit(q) ==
    /\ lock = q /\ poll[q] = NoPoll
    /\ row' = tx.row /\ extra' = tx.extra
    /\ Release
    /\ UNCHANGED <<espn, pass, poll, aborts>>

PollAbort(q) ==
    /\ poll[q] # NoPoll \/ lock = q
    /\ aborts < MaxAborts /\ aborts' = aborts + 1
    /\ poll' = [poll EXCEPT ![q] = NoPoll]
    /\ IF lock = q THEN Release ELSE UNCHANGED <<lock, tx>>
    /\ UNCHANGED <<espn, db, pass>>

----------------------------------------------------------------------------
(* The system *)

Init ==
    /\ row = [g \in Games |-> NoRow] /\ extra = {}
    /\ feed = [g \in Games |-> [phase |-> "pre", home |-> 0, away |-> 0]]
    /\ said = [g \in Games |-> {}] /\ turns = 0
    /\ lock = Free /\ tx = NoTx
    /\ pass = [p \in Passes |-> Idle]
    /\ poll = [q \in Pollers |-> NoPoll] /\ aborts = 0

FetchAny(p) ==
    \E listed \in (IF Partial THEN SUBSET Games ELSE {Games}), reconcile \in Modes :
        Fetch(p, listed, reconcile)

Pass(p) ==
    \/ FetchAny(p) \/ Reconcile(p) \/ Commit(p) \/ Abort(p)
    \/ \E g \in Games : Store(p, g)

Poll(q) ==
    \/ StartPoll(q) \/ PollWrite(q) \/ PollCommit(q) \/ PollAbort(q)
    \/ \E g \in Games : PollFetch(q, BoardOf[g])

Next ==
    \/ \E g \in Games : Play(g) \/ Turn(g)
    \/ \E p \in Passes : Pass(p)
    \/ \E q \in Pollers : Poll(q)

Spec == Init /\ [][Next]_vars

(* Fairness.  While a date is in the lookback, passes keep being run for it and
   ESPN does not leave a game out for ever; a pass that keeps being tried gets
   the lock, and does not fail for ever.  A poll ends. *)
FairSpec ==
    /\ Spec
    /\ \A p \in Passes :
        /\ SF_vars(\E reconcile \in Modes : Fetch(p, Games, reconcile))
        /\ SF_vars((\E g \in Games : Store(p, g)) \/ Reconcile(p) \/ Commit(p))
    /\ \A q \in Pollers :
        SF_vars((\E g \in Games : PollFetch(q, BoardOf[g])) \/ PollWrite(q) \/ PollCommit(q))

----------------------------------------------------------------------------
(* Properties *)

RowSet ==
    [status : {"absent", "scheduled", "postponed", "canceled", "in_progress", "final"},
     home : Score, away : Score, called : BOOLEAN]

\* Tables and memories hold values of their types, and the write lock is held
\* exactly while a transaction is open.
TypeOK ==
    /\ GameAssumption
    /\ row \in [Games -> RowSet] /\ extra \subseteq Games
    /\ lock \in Passes \cup Pollers \cup {Free} /\ (lock = Free) = (tx = NoTx)
    /\ lock # Free => tx.row \in [Games -> RowSet]
    /\ \A p \in Passes :
        /\ pass[p].todo \subseteq DOMAIN pass[p].report
        /\ DOMAIN pass[p].base = DOMAIN pass[p].mine
        /\ \A g \in DOMAIN pass[p].mine : pass[p].mine[g] \in RowSet
    /\ \A q \in Pollers : poll[q].todo \subseteq Games

\* With one results pass at a time, a final row stays final, though the poll and
\* the reconciliation work from rows they read before.
StillFinal == \A g \in Games : row[g].status = "final" => row'[g].status = "final"
FinalStays == [][StillFinal]_vars

\* The score of a final row is the one ESPN gave as final, never a running score
\* or a mixture of the two -- until ESPN corrects it: a pass that loaded the row
\* before the poll wrote the corrected score writes the other side's beside it.
\* And every event has one row: picks and bets on a second would never be graded.
ScoreAsReported ==
    /\ \A g \in Games : row[g].status = "final" =>
          <<row[g].home, row[g].away>> \in said[g] \/ Cardinality(said[g]) > 1
    /\ extra = {}

\* A finished game ends up final with ESPN's score, even when that score has been
\* corrected since it was first stored.
Ended(g) == feed[g].phase = "final"
Healed(g) == row[g].status = "final" /\ row[g].home = feed[g].home /\ row[g].away = feed[g].away
FinalHeals == \A g \in Games : Ended(g) ~> Healed(g)

\* "A postponed game must drop out of Today's Picks": one that stays postponed
\* does not stay open.
PostponedDropsOut ==
    \A g \in Games :
        []<>(feed[g].phase # "postponed" \/ row[g].status # "scheduled")
=============================================================================
