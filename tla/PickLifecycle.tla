---------------------------- MODULE PickLifecycle ----------------------------
(***************************************************************************)
(* A stored pick from the run that first produces it to its result: every  *)
(* generation run prices the day's games again and inserts, refreshes or   *)
(* withdraws picks; the digest emails some of them; games start, finish    *)
(* and are graded.  Window runs, the morning scout and the owner's         *)
(* pipeline trigger may overlap: the scheduler runs jobs in a thread pool, *)
(* and the API is a process of its own.                                    *)
(*                                                                         *)
(* A run reads the stored picks, what was emailed and what was graded once,*)
(* at its start.  Its first write takes SQLite's write lock and everything *)
(* is committed at its end.  An object in its session keeps the values it  *)
(* was loaded with, and an UPDATE names only the columns whose new value   *)
(* differs from the loaded one -- not from the one in the database by then.*)
(***************************************************************************)
EXTENDS Integers, Sequences, FiniteSets, SequencesExt

CONSTANTS
    Games,      \* games on the slate
    NoStart,    \* those with no start_time: never known to have started
    Markets,    \* what can be picked: (game, pick type), or (game, player, prop market)
    Props,      \* the prop markets among them
    GameOf,     \* the game of a market
    Answers,    \* what the strategy may produce: [side, odds], each price its side's
    MaxPicks,   \* how many picks rows are ever inserted
    Runs,       \* threads and processes that run generate_and_store_picks
    MaxRuns,    \* how many runs there are
    Graders,    \* threads and processes that run grade_pending_picks
    Digests     \* processes that send the day's digest

ASSUME PickAssumption ==
    /\ NoStart \subseteq Games /\ Props \subseteq Markets
    /\ GameOf \in [Markets -> Games]
    /\ MaxPicks \in Nat \ {0} /\ MaxRuns \in Nat
    /\ "free" \notin Runs /\ "absent" \notin Markets

VARIABLES
    pick,     \* picks rows, committed
    vers,     \* pick_versions of each pick, oldest first
    results,  \* how many pick_results rows each pick has
    emailed,  \* emailed_picks
    inbox,    \* what the sent digest said
    started,  \* games whose start has passed
    final,    \* games whose status is final
    lock,     \* who holds SQLite's write lock
    tx,       \* picks and pick_versions as the holder's transaction has them
    run,      \* what each run has in memory
    runs,     \* runs so far
    due,      \* what each grading pass has read; {} between passes
    digest,   \* each digest: where it is, and what it selected
    overlap   \* history: has a run overlapped another one or the digest

db == <<pick, vers>>
clock == <<started, final>>
vars == <<pick, vers, results, emailed, inbox, started, final, lock, tx, run, runs, due, digest, overlap>>

----------------------------------------------------------------------------
(* Rows *)

Rows == 1..MaxPicks
Free == "free"
Absent == "absent"
NoRow == [market |-> Absent, side |-> Absent, odds |-> 0, tracked |-> FALSE, withdrawn |-> FALSE]
Stored(table) == {p \in Rows : table[p].market # Absent}

\* What pick_versions tracks of a pick (its tracking flag is not tracked).
Tracked(row) == [side |-> row.side, odds |-> row.odds, withdrawn |-> row.withdrawn]

Published(row) == ~row.tracked /\ ~row.withdrawn

NoTx == [pick |-> <<>>, vers |-> <<>>]
AtRest == [loaded |-> {}, seen |-> <<>>, emailed |-> {}, graded |-> {}, todo |-> {}, busy |-> FALSE]

NotStarted(g) == g \in NoStart \/ g \notin started

----------------------------------------------------------------------------
(* A generation run *)

\* Is a digest, or a run, under way?
Mailing == \E d \in Digests : digest[d].at \in {"selected", "sent"}
Running == \E r \in Runs : run[r].busy

\* The run reads the games it may pick, every stored pick, and which of them
\* were emailed or graded.
Load(r) ==
    /\ ~run[r].busy /\ runs < MaxRuns
    /\ runs' = runs + 1
    /\ overlap' = (overlap \/ Mailing \/ Running)
    /\ run' = [run EXCEPT ![r] =
           [loaded |-> Stored(pick), seen |-> pick, busy |-> TRUE,
            emailed |-> {e.pick : e \in emailed},
            graded |-> {p \in Rows : results[p] > 0},
            todo |-> {g \in Games \ final : NotStarted(g)}]]
    /\ UNCHANGED <<db, results, emailed, inbox, clock, lock, tx, due, digest>>

\* already[m]: of several rows the last wins for a game market, the first for a
\* prop.
Known(r, m) ==
    LET rows == {p \in run[r].loaded : run[r].seen[p].market = m}
    IN  {p \in rows : \A q \in rows : IF m \in Props THEN p <= q ELSE q <= p}

\* Mutant: a started game's pick is advice still.
RefreshableUngraded(r, p) == p \notin run[r].graded

\* A stored pick may be replaced: not graded when the run started, and its game
\* has not started now.
Refreshable(r, p) == p \notin run[r].graded /\ NotStarted(GameOf[run[r].seen[p].market])

\* _refresh_pick; an emailed pick keeps its tracking flag.
Refreshed(r, p, answer) ==
    [run[r].seen[p] EXCEPT
        !.side = answer.side, !.odds = answer.odds, !.withdrawn = FALSE,
        !.tracked = IF p \in run[r].emailed THEN @ ELSE answer.tracked]

\* Mutant: emailed picks are withdrawn too.
WithdrawableAny(r, p) == ~run[r].seen[p].withdrawn /\ Refreshable(r, p)

\* withdraw_pick's rule.
Withdrawable(r, p) ==
    ~run[r].seen[p].withdrawn /\ p \notin run[r].emailed /\ Refreshable(r, p)

\* UPDATE picks: only the columns that differ from what was loaded.
Update(row, seen, new) ==
    [c \in DOMAIN row |-> IF new[c] = seen[c] THEN row[c] ELSE new[c]]

\* Mutant: no version is recorded when a pick is withdrawn.
VersionedUnlessWithdrawn(history, row) ==
    IF row.withdrawn \/ (history # <<>> /\ Last(history) = Tracked(row)) THEN history
    ELSE Append(history, Tracked(row))

\* record_pick_version: a version is appended when a tracked field changed.  The
\* number is read after the pick itself is flushed, hence under the lock.
Versioned(history, row) ==
    IF history # <<>> /\ Last(history) = Tracked(row) THEN history
    ELSE Append(history, Tracked(row))

MarketsOf(g) == {m \in Markets : GameOf[m] = g}
NoAnswer == [side |-> Absent, odds |-> 0, tracked |-> FALSE]
AnswerSet == [side : {a.side : a \in Answers}, odds : {a.odds : a \in Answers}, tracked : BOOLEAN]

\* The rows game g's answers change, as they now are in the session's memory.
Changed(r, answers) ==
    LET touched == UNION {Known(r, m) : m \in DOMAIN answers}
        answer(p) == answers[run[r].seen[p].market]
    IN  [p \in {q \in touched : IF answer(q) = NoAnswer THEN Withdrawable(r, q)
                                                      ELSE Refreshable(r, q)} |->
            IF answer(p) = NoAnswer THEN [run[r].seen[p] EXCEPT !.withdrawn = TRUE]
                                    ELSE Refreshed(r, p, answer(p))]

\* The rows inserted: the lowest free ids, for the markets that have no row.
NewIds(table, ms) ==
    {f \in [ms -> Rows \ Stored(table)] :
        /\ \A m, n \in ms : m # n => f[m] # f[n]
        /\ \A p \in Rows \ Stored(table), m \in ms : p < f[m] => \E n \in ms : f[n] = p}

\* The markets that get a first row.
Fresh(r, answers) == {m \in DOMAIN answers : answers[m] # NoAnswer /\ Known(r, m) = {}}

\* The tables with what the answers change and, at the ids given, insert.
Written(r, work, answers, id) ==
    LET changed == Changed(r, answers)
        made(p) == CHOOSE m \in DOMAIN id : id[m] = p
        inserted(p) == [market |-> made(p), side |-> answers[made(p)].side,
                        odds |-> answers[made(p)].odds, tracked |-> answers[made(p)].tracked,
                        withdrawn |-> FALSE]
        new == [p \in DOMAIN changed \cup {id[m] : m \in DOMAIN id} |->
                    IF p \in DOMAIN changed THEN changed[p] ELSE inserted(p)]
    IN  [pick |-> [p \in Rows |->
             IF p \in DOMAIN changed THEN Update(work.pick[p], run[r].seen[p], new[p])
             ELSE IF p \in DOMAIN new THEN new[p] ELSE work.pick[p]],
         vers |-> [p \in Rows |->
             IF p \in DOMAIN new THEN Versioned(work.vers[p], new[p]) ELSE work.vers[p]]]

\* The strategy answers for one game: its picks are refreshed, inserted or
\* withdrawn.  The first change takes the lock.
Price(r, g, answers) ==
    LET work == IF lock = r THEN tx ELSE [pick |-> pick, vers |-> vers]
    IN  /\ g \in run[r].todo
        /\ run' = [run EXCEPT ![r].todo = @ \ {g}]
        /\ IF DOMAIN Changed(r, answers) = {} /\ Fresh(r, answers) = {} THEN UNCHANGED <<lock, tx>>
           ELSE /\ lock \in {Free, r} /\ lock' = r
                /\ \E id \in NewIds(work.pick, Fresh(r, answers)) :
                      tx' = Written(r, work, answers, id)
        /\ UNCHANGED <<db, results, emailed, inbox, clock, runs, due, digest, overlap>>

\* A prediction that raises is no answer.
Skip(r, g) ==
    /\ g \in run[r].todo
    /\ run' = [run EXCEPT ![r].todo = @ \ {g}]
    /\ UNCHANGED <<db, results, emailed, inbox, clock, lock, tx, runs, due, digest, overlap>>

\* Mutant: the transaction is left open.
LeaveOpen(r) ==
    /\ run' = [run EXCEPT ![r] = AtRest]
    /\ lock' = IF lock = r THEN Free ELSE lock
    /\ UNCHANGED tx

\* The session closes.
Leave(r) ==
    /\ run' = [run EXCEPT ![r] = AtRest]
    /\ lock' = IF lock = r THEN Free ELSE lock
    /\ tx' = IF lock = r THEN NoTx ELSE tx

Commit(r) ==
    /\ run[r].busy /\ run[r].todo = {}
    /\ IF lock = r THEN pick' = tx.pick /\ vers' = tx.vers ELSE UNCHANGED db
    /\ Leave(r)
    /\ UNCHANGED <<results, emailed, inbox, clock, runs, due, digest, overlap>>

\* The process stops, or the database stayed locked for too long.
Abort(r) ==
    /\ run[r].busy
    /\ Leave(r)
    /\ UNCHANGED <<db, results, emailed, inbox, clock, runs, due, digest, overlap>>

----------------------------------------------------------------------------
(* Games, grading, the digest *)

KickOff(g) ==
    /\ g \notin started
    /\ started' = started \cup {g}
    /\ UNCHANGED <<db, results, emailed, inbox, final, lock, tx, run, runs, due, digest, overlap>>

\* The results fetch writes the game final.
Finish(g) ==
    /\ g \in started \ final /\ lock = Free
    /\ final' = final \cup {g}
    /\ UNCHANGED <<db, results, emailed, inbox, started, lock, tx, run, runs, due, digest, overlap>>

\* Mutant: tracked picks are not graded.
GradeablePublished(p) == Published(pick[p]) /\ GameOf[pick[p].market] \in final /\ results[p] = 0

\* Ungraded, not withdrawn, on a final game.
Gradeable(p) == ~pick[p].withdrawn /\ GameOf[pick[p].market] \in final /\ results[p] = 0

ReadDue(g) ==
    /\ due[g] = {}
    /\ due' = [due EXCEPT ![g] = {p \in Stored(pick) : Gradeable(p)}]
    /\ due'[g] # {}
    /\ UNCHANGED <<db, results, emailed, inbox, clock, lock, tx, run, runs, digest, overlap>>

\* One pick_results row for each pick that was read.
CommitResults(g) ==
    /\ due[g] # {} /\ lock = Free
    /\ results' = [p \in Rows |-> IF p \in due[g] THEN results[p] + 1 ELSE results[p]]
    /\ due' = [due EXCEPT ![g] = {}]
    /\ UNCHANGED <<db, emailed, inbox, clock, lock, tx, run, runs, digest, overlap>>

\* What the email says of a pick.
Advice(p, row) == [pick |-> p, side |-> row.side, odds |-> row.odds]

\* select_digest: published picks on games that have not started, one for each
\* market and side, those the price window and the caps let through.
Select(d) ==
    LET open == {p \in Stored(pick) : Published(pick[p]) /\ NotStarted(GameOf[pick[p].market])}
    IN  /\ digest[d].at = "idle"
        /\ overlap' = (overlap \/ Running)
        /\ \E shown \in (SUBSET open) \ {{}} :
              /\ \A p, q \in shown :
                    pick[p].market = pick[q].market /\ pick[p].side = pick[q].side => p = q
              /\ digest' = [digest EXCEPT ![d] =
                     [at |-> "selected", says |-> {Advice(p, pick[p]) : p \in shown}]]
        /\ UNCHANGED <<db, results, emailed, inbox, clock, lock, tx, run, runs, due>>

\* The email goes out, or the send fails and nothing is recorded; there is no
\* second attempt.
Send(d) ==
    /\ digest[d].at = "selected"
    /\ \/ /\ digest' = [digest EXCEPT ![d].at = "sent"]
          /\ inbox' = inbox \cup digest[d].says
       \/ /\ digest' = [digest EXCEPT ![d] = [at |-> "done", says |-> {}]]
          /\ UNCHANGED inbox
    /\ UNCHANGED <<db, results, emailed, clock, lock, tx, run, runs, due, overlap>>

\* The copy kept is of what the email said.
AsEmailed(e) == e

\* record_emailed; a failure is logged and forgotten.
Record(d) ==
    /\ digest[d].at = "sent"
    /\ digest' = [digest EXCEPT ![d] = [at |-> "done", says |-> {}]]
    /\ \/ /\ lock = Free
          /\ emailed' = emailed \cup
                {AsEmailed(e) : e \in {s \in digest[d].says :
                                         \A old \in emailed : old.pick # s.pick}}
       \/ UNCHANGED emailed
    /\ UNCHANGED <<db, results, inbox, clock, lock, tx, run, runs, due, overlap>>

----------------------------------------------------------------------------
(* The system *)

Init ==
    /\ pick = [p \in Rows |-> NoRow] /\ vers = [p \in Rows |-> <<>>]
    /\ results = [p \in Rows |-> 0] /\ emailed = {} /\ inbox = {}
    /\ started = {} /\ final = {}
    /\ lock = Free /\ tx = NoTx
    /\ run = [r \in Runs |-> AtRest] /\ runs = 0
    /\ due = [g \in Graders |-> {}]
    /\ digest = [d \in Digests |-> [at |-> "idle", says |-> {}]] /\ overlap = FALSE

\* The strategy's answers for a game: for each market a pick, priced on its own
\* side, or none.  A prop may be left unanswered.
Responses(g) ==
    LET priced == {a \in AnswerSet : [side |-> a.side, odds |-> a.odds] \in Answers}
    IN  UNION {[MarketsOf(g) \ silent -> {NoAnswer} \cup priced] :
               silent \in SUBSET (MarketsOf(g) \cap Props)}

Run(r) ==
    \/ Load(r) \/ Commit(r) \/ Abort(r)
    \/ \E g \in Games : Skip(r, g) \/ \E answers \in Responses(g) : Price(r, g, answers)

Next ==
    \/ \E r \in Runs : Run(r)
    \/ \E g \in Games : KickOff(g) \/ Finish(g)
    \/ \E g \in Graders : ReadDue(g) \/ CommitResults(g)
    \/ \E d \in Digests : Select(d) \/ Send(d) \/ Record(d)

Spec == Init /\ [][Next]_vars

(* Fairness.  A run goes through its games and ends; the grading pass is run
   every day, and waits for the lock.  Games, digests and further runs need not
   happen. *)
Fairness ==
    /\ \A r \in Runs : WF_vars(Commit(r)) /\ WF_vars(\E g \in Games : Skip(r, g))
    /\ \A g \in Graders : WF_vars(ReadDue(g)) /\ SF_vars(CommitResults(g))
FairSpec == Spec /\ Fairness

----------------------------------------------------------------------------
(* Properties *)

RowSet ==
    [market : Markets \cup {Absent}, side : {a.side : a \in Answers} \cup {Absent},
     odds : {a.odds : a \in Answers} \cup {0}, tracked : BOOLEAN, withdrawn : BOOLEAN]

\* Every column and every variable in memory holds a value of its type, and the
\* write lock is held exactly while a transaction is open.
TypeOK ==
    /\ pick \in [Rows -> RowSet]
    /\ \A p \in Rows : \A v \in Range(vers[p]) : v \in {Tracked(row) : row \in RowSet}
    /\ results \in [Rows -> Nat]
    /\ lock \in Runs \cup {Free} /\ (lock = Free) = (tx = NoTx)
    /\ lock # Free => tx.pick \in [Rows -> RowSet]
    /\ \A r \in Runs : run[r].todo \subseteq Games /\ run[r].emailed \subseteq Stored(pick)
    /\ \A e \in emailed \cup inbox : e.pick \in Stored(pick)
    /\ \A g \in Graders : due[g] \subseteq Stored(pick)

\* As long as no run has overlapped another or the digest, the stored picks are
\* what one run after another computed: each pairs a side with a price of that
\* side; its latest version is the pick itself ("a row is written only when a
\* tracked field differs from the latest version"); and there is one for each
\* market ("idempotent per (game, strategy, pick_type)").
PricedOnItsSide ==
    \A p \in Stored(pick) : [side |-> pick[p].side, odds |-> pick[p].odds] \in Answers
VersionsFollow == \A p \in Stored(pick) : vers[p] # <<>> /\ Last(vers[p]) = Tracked(pick[p])
OnePickPerMarket == \A p, q \in Stored(pick) : pick[p].market = pick[q].market => p = q
RowsAgree == ~overlap => PricedOnItsSide /\ VersionsFollow /\ OnePickPerMarket

\* A result is put once on a pick that stands; a graded pick is a recorded wager
\* and never rewritten, withdrawn or graded again, even by a run or a pass that
\* read it before.
GradedForGood ==
    [][\A p \in Rows :
          /\ results[p] > 0 => pick'[p] = pick[p] /\ results'[p] = results[p]
          /\ results'[p] # results[p] => results'[p] = 1 /\ ~pick[p].withdrawn]_vars

\* An emailed pick was advice people acted on: a run "never withdraws" one
\* "already emailed".  It does not hold when a run overlaps the digest.
EmailedNeverWithdrawn == \A e \in emailed : ~pick[e.pick].withdrawn

\* What is recorded as emailed is what the reader was sent, though the pick may
\* be refreshed between the send and the record; and as long as no run has
\* overlapped the digest, the pick stays published.
EmailedStands ==
    /\ emailed \subseteq inbox
    /\ ~overlap => \A e \in emailed : Published(pick[e.pick])

\* Every pick that stands when its game is final is graded, tracked or not.
StandingPicksGraded ==
    \A p \in Rows :
        (pick[p].market # Absent /\ ~pick[p].withdrawn /\ GameOf[pick[p].market] \in final)
            ~> (results[p] > 0)
=============================================================================
