------------------------- MODULE GameLifecycleProofs -------------------------
(***************************************************************************)
(* What holds of the games table for any games, boards and scores, while   *)
(* results passes and live polls work from rows and events they read       *)
(* before: with one pass at a time a final row stays final, and with one   *)
(* poll beside it the score is the one ESPN gave.  Then of bouts, whose     *)
(* results and ratings several writers keep, and of the scripts that repair *)
(* games.                                                                   *)
(***************************************************************************)
EXTENDS GameLifecycle, FiniteSetTheorems, SequenceTheorems, TLAPS

-----------------------------------------------------------------------------
(* Types *)

Events == [phase : {"pre", "in", "final", "postponed"}, home : Score, away : Score]

\* Functions on some of the games.
On(S) == UNION {[D -> S] : D \in SUBSET Games}

Tables == [row : [Games -> RowSet], extra : SUBSET Games]
PassState ==
    [at : {"idle", "storing", "reconciled"}, report : On(Events), todo : SUBSET Games,
     base : On(RowSet), mine : On(RowSet), inserts : SUBSET Games, reconcile : BOOLEAN]
PollState == [todo : SUBSET Games, board : On(Events)]

MemoryFits(m) ==
    /\ DOMAIN m.base = DOMAIN m.mine /\ m.inserts \subseteq DOMAIN m.mine
    /\ m.todo \subseteq DOMAIN m.report

Typed ==
    /\ row \in [Games -> RowSet] /\ extra \subseteq Games
    /\ feed \in [Games -> Events] /\ said \in [Games -> SUBSET (Score \X Score)]
    /\ lock \in Passes \cup Pollers \cup {Free}
    /\ lock = Free => tx = NoTx
    /\ lock # Free => tx \in Tables /\ Games # {}
    /\ pass \in [Passes -> PassState] /\ poll \in [Pollers -> PollState]
    /\ \A p \in Passes : MemoryFits(pass[p]) /\ (pass[p].at = "idle" => pass[p] = Idle)

LEMMA EmptyOn == ASSUME NEW S PROVE <<>> \in On(S) /\ DOMAIN <<>> = {}
<1>1. <<>> \in [{} -> S]
  BY EmptySeq, LenProperties
<1> QED
  BY <1>1 DEF On

LEMMA OnIs ==
    ASSUME NEW S, NEW f \in On(S)
    PROVE  DOMAIN f \in SUBSET Games /\ f \in [DOMAIN f -> S] /\ \A g \in DOMAIN f : f[g] \in S /\ g \in Games
  BY DEF On

LEMMA OnMade == ASSUME NEW S, NEW D \in SUBSET Games, NEW f \in [D -> S] PROVE f \in On(S)
  BY DEF On

Columns == {"status", "home", "away", "called"}

LEMMA RowMade ==
    ASSUME NEW f, DOMAIN f = Columns, f = [c \in Columns |-> f[c]]
    PROVE  f = [status |-> f["status"], home |-> f["home"], away |-> f["away"], called |-> f["called"]]
  BY DEF Columns

\* An UPDATE takes column by column what the session changed, and leaves the rest.
LEMMA UpdateIs ==
    ASSUME NEW now \in RowSet, NEW base \in RowSet, NEW mine \in RowSet
    PROVE  LET u == Update(now, base, mine)
           IN  /\ u \in RowSet
               /\ u.status = IF mine.status = base.status THEN now.status ELSE mine.status
               /\ u.home = IF mine.home = base.home THEN now.home ELSE mine.home
               /\ u.away = IF mine.away = base.away THEN now.away ELSE mine.away
               /\ u.called = IF mine.called = base.called THEN now.called ELSE mine.called
<1> DEFINE u == Update(now, base, mine)
<1>1. DOMAIN now = Columns
  BY DEF RowSet, Columns
<1>2. u = [c \in Columns |-> IF mine[c] = base[c] THEN now[c] ELSE mine[c]]
  BY <1>1 DEF Update
<1>3. /\ u.status = IF mine.status = base.status THEN now.status ELSE mine.status
      /\ u.home = IF mine.home = base.home THEN now.home ELSE mine.home
      /\ u.away = IF mine.away = base.away THEN now.away ELSE mine.away
      /\ u.called = IF mine.called = base.called THEN now.called ELSE mine.called
  BY <1>2 DEF Columns
<1>4. u = [status |-> u["status"], home |-> u["home"], away |-> u["away"], called |-> u["called"]]
  BY <1>2, RowMade
<1>5. u \in RowSet
  <2> HIDE DEF u
  <2> QED
    BY <1>3, <1>4 DEF RowSet
<1> QED
  BY <1>3, <1>5

LEMMA ViewTyped ==
    ASSUME Typed, NEW p \in Passes \cup Pollers, GameAssumption
    PROVE  View(p) \in Tables
  BY DEF View, Typed, Tables, GameAssumption

LEMMA FlushedTyped ==
    ASSUME Typed, NEW p \in Passes, GameAssumption
    PROVE  Flushed(p) \in Tables /\ Dirty(p) \subseteq DOMAIN pass[p].mine
<1> DEFINE t == View(p)
           m == pass[p]
           new == {g \in m.inserts : t.row[g].status = "absent"}
           r == [g \in Games |->
             IF g \in new THEN m.mine[g]
             ELSE IF g \in Dirty(p) \ m.inserts
             THEN Update(t.row[g], m.base[g], m.mine[g]) ELSE t.row[g]]
<1>1. t \in Tables
  BY ViewTyped
<1>2. m \in PassState /\ MemoryFits(m)
  BY DEF Typed
<1>3. m.mine \in On(RowSet) /\ m.base \in On(RowSet) /\ m.inserts \subseteq Games
  BY <1>2 DEF PassState
<1>4. Dirty(p) \subseteq DOMAIN m.mine
  BY <1>2 DEF Dirty, MemoryFits
<1>5. \A g \in DOMAIN m.mine : m.mine[g] \in RowSet /\ m.base[g] \in RowSet /\ g \in Games
  BY <1>2, <1>3, OnIs DEF MemoryFits
<1>6. t.row \in [Games -> RowSet] /\ t.extra \subseteq Games
  BY <1>1 DEF Tables
<1>7. Flushed(p) = [row |-> r, extra |-> t.extra \cup (m.inserts \ new)]
  BY DEF Flushed
<1> HIDE DEF t, m
<1>8. ASSUME NEW g \in Games PROVE r[g] \in RowSet
  <2>1. CASE g \in new
    BY <1>2, <1>5, <2>1 DEF MemoryFits
  <2>2. CASE g \notin new /\ g \in Dirty(p) \ m.inserts
    <3>1. Update(t.row[g], m.base[g], m.mine[g]) \in RowSet
      BY <1>4, <1>5, <1>6, <2>2, UpdateIs
    <3> QED
      BY <2>2, <3>1
  <2>3. CASE g \notin new /\ g \notin Dirty(p) \ m.inserts
    BY <1>6, <2>3
  <2> QED
    BY <2>1, <2>2, <2>3
<1>9. r \in [Games -> RowSet]
  BY <1>8
<1> HIDE DEF r
<1> QED
  BY <1>3, <1>4, <1>6, <1>7, <1>9 DEF Tables, m

-----------------------------------------------------------------------------
(* What the steps of a pass do *)

LEMMA FoundTyped ==
    ASSUME Typed, NEW p \in Passes, GameAssumption
    PROVE  Found(p) \in [Games -> RowSet]
  BY ViewTyped, FlushedTyped DEF Found, Tables

\* A query writes what is dirty and takes the lock; then the pass sees the tables
\* it reads from.
LEMMA QueryIs ==
    ASSUME Typed, NEW p \in Passes, GameAssumption, Query(p), UNCHANGED db
    PROVE  /\ lock' \in Passes \cup Pollers \cup {Free}
           /\ lock' = Free => tx' = NoTx
           /\ lock' # Free => tx' \in Tables /\ Games # {}
           /\ View(p)'.row = Found(p)
           /\ \/ Dirty(p) = {} /\ UNCHANGED <<lock, tx>>
              \/ Dirty(p) # {} /\ lock \in {Free, p} /\ lock' = p /\ tx' = Flushed(p)
<1>1. p # Free
  BY DEF GameAssumption
<1>2. Flushed(p) \in Tables /\ Dirty(p) \subseteq DOMAIN pass[p].mine
  BY FlushedTyped
<1>3. DOMAIN pass[p].mine \subseteq Games
  BY OnIs DEF Typed, PassState
<1>4. CASE Dirty(p) = {}
  BY <1>4 DEF Query, Typed, View, Found, db
<1>5. CASE Dirty(p) # {}
  <2>1. lock \in {Free, p} /\ lock' = p /\ tx' = Flushed(p) /\ Games # {}
    BY <1>2, <1>3, <1>5 DEF Query
  <2>2. View(p)'.row = Found(p)
    BY <1>5, <2>1 DEF View, Found
  <2> QED
    BY <1>1, <1>2, <1>5, <2>1, <2>2
<1> QED
  BY <1>4, <1>5

LEMMA CleanIs ==
    ASSUME Typed, NEW p \in Passes
    PROVE  /\ Clean(p) \in PassState
           /\ Clean(p).at = pass[p].at /\ Clean(p).report = pass[p].report
           /\ Clean(p).todo = pass[p].todo /\ Clean(p).reconcile = pass[p].reconcile
           /\ Clean(p).base = pass[p].mine /\ Clean(p).mine = pass[p].mine /\ Clean(p).inserts = {}
<1>1. pass[p] \in PassState
  BY DEF Typed
<1> QED
  BY <1>1 DEF Clean, PassState

MadeFrom(r, event) ==
    /\ r \in RowSet /\ r.status \in StatusOf(event.phase) /\ r.home = event.home /\ r.away = event.away

\* Storing an event loads its row and fills in a final score, or inserts a row.
StoreMakes(p, g, m) ==
    /\ pass' = [pass EXCEPT ![p] = m]
    /\ m.at = pass[p].at /\ m.report = pass[p].report /\ m.todo = pass[p].todo \ {g}
    /\ DOMAIN m.mine = DOMAIN pass[p].mine \cup {g} /\ DOMAIN m.base = DOMAIN m.mine
    /\ \A h \in DOMAIN pass[p].mine : h # g =>
          m.mine[h] = pass[p].mine[h] /\ m.base[h] = pass[p].mine[h]
    /\ \/ /\ Found(p)[g].status # "absent" /\ m.inserts = {}
          /\ m.base[g] = Found(p)[g] /\ m.mine[g] = Stored(Found(p)[g], pass[p].report[g])
       \/ /\ Found(p)[g].status = "absent" /\ m.inserts = {g}
          /\ m.base[g] = m.mine[g] /\ MadeFrom(m.mine[g], pass[p].report[g])

LEMMA StoreIs ==
    ASSUME Typed, GameAssumption, NEW p \in Passes, NEW g \in Games, Store(p, g)
    PROVE  /\ g \in pass[p].todo /\ Query(p) /\ UNCHANGED <<espn, db, poll>>
           /\ \E m \in PassState : StoreMakes(p, g, m)
<1> DEFINE event == pass[p].report[g]
           found == Found(p)[g]
           mem == [Clean(p) EXCEPT !.todo = @ \ {g}]
           add(f, v) == [x \in DOMAIN f \cup {g} |-> IF x = g THEN v ELSE f[x]]
           old == pass[p].mine
<1>0. g \in pass[p].todo /\ Query(p) /\ UNCHANGED <<espn, db, poll>>
  BY DEF Store
<1>1. /\ mem \in PassState /\ mem.at = pass[p].at /\ mem.report = pass[p].report
      /\ mem.todo = pass[p].todo \ {g} /\ mem.base = old /\ mem.mine = old /\ mem.inserts = {}
  BY CleanIs DEF PassState
<1>2. found \in RowSet /\ g \in DOMAIN pass[p].report /\ event \in Events
  <2>1. pass[p].report \in On(Events) /\ g \in DOMAIN pass[p].report
    BY <1>0 DEF Typed, PassState, MemoryFits
  <2> QED
    BY <2>1, FoundTyped, OnIs
<1>3. old \in On(RowSet) /\ DOMAIN old \subseteq Games /\ \A h \in DOMAIN old : old[h] \in RowSet
  <2>1. old \in On(RowSet)
    BY DEF Typed, PassState
  <2> QED
    BY <2>1, OnIs
<1>4. ASSUME NEW v \in RowSet
      PROVE  /\ add(old, v) \in On(RowSet) /\ DOMAIN add(old, v) = DOMAIN old \cup {g}
             /\ add(old, v)[g] = v /\ \A h \in DOMAIN old : h # g => add(old, v)[h] = old[h]
  <2>1. add(old, v) \in [DOMAIN old \cup {g} -> RowSet]
    BY <1>3
  <2>2. DOMAIN old \cup {g} \in SUBSET Games
    BY <1>3
  <2>3. add(old, v) \in On(RowSet)
    BY <2>1, <2>2, OnMade
  <2> QED
    BY <2>3
<1>5. Stored(found, event) \in RowSet
  BY <1>2 DEF Stored, RowSet, Events
<1> HIDE DEF mem, found, event
<1>6. CASE found.status # "absent"
  <2> DEFINE m == [mem EXCEPT !.base = add(@, found), !.mine = add(@, Stored(found, event))]
  <2>1. pass' = [pass EXCEPT ![p] = m]
    BY <1>6 DEF Store, Match, mem, found, event
  <2>2. /\ m.base = add(old, found) /\ m.mine = add(old, Stored(found, event))
        /\ m.at = mem.at /\ m.report = mem.report /\ m.todo = mem.todo /\ m.inserts = mem.inserts
        /\ add(old, found) \in On(RowSet) /\ add(old, Stored(found, event)) \in On(RowSet)
        /\ m \in PassState
    <3>1. /\ add(old, found) \in On(RowSet) /\ add(old, Stored(found, event)) \in On(RowSet)
      BY <1>2, <1>4, <1>5
    <3>2. m = [mem EXCEPT !.base = add(old, found), !.mine = add(old, Stored(found, event))]
      BY <1>1 DEF PassState
    <3> HIDE DEF m, add, old
    <3> QED
      BY <1>1, <3>1, <3>2 DEF PassState
  <2> HIDE DEF m
  <2>3. /\ DOMAIN m.mine = DOMAIN old \cup {g} /\ DOMAIN m.base = DOMAIN m.mine
        /\ m.base[g] = found /\ m.mine[g] = Stored(found, event)
        /\ \A h \in DOMAIN old : h # g => m.mine[h] = old[h] /\ m.base[h] = old[h]
    BY <1>2, <1>4, <1>5, <2>2
  <2> QED
    BY <1>0, <1>1, <1>6, <2>1, <2>2, <2>3 DEF found, event, StoreMakes
<1>7. CASE found.status = "absent"
  <2>1. PICK s \in StatusOf(event.phase) :
          pass' = [pass EXCEPT ![p] =
             [mem EXCEPT !.base = add(@, [status |-> s, home |-> event.home, away |-> event.away, called |-> FALSE]),
                         !.mine = add(@, [status |-> s, home |-> event.home, away |-> event.away, called |-> FALSE]),
                         !.inserts = {g}]]
    BY <1>7 DEF Store, Match, mem, found, event
  <2> DEFINE made == [status |-> s, home |-> event.home, away |-> event.away, called |-> FALSE]
             m == [mem EXCEPT !.base = add(@, made), !.mine = add(@, made), !.inserts = {g}]
  <2>2. MadeFrom(made, event)
    BY <1>2 DEF MadeFrom, StatusOf, RowSet, Events
  <2> HIDE DEF made
  <2>3. /\ m.base = add(old, made) /\ m.mine = add(old, made)
        /\ m.at = mem.at /\ m.report = mem.report /\ m.todo = mem.todo /\ m.inserts = {g}
        /\ m \in PassState
    <3>1. add(old, made) \in On(RowSet)
      BY <1>4, <2>2 DEF MadeFrom
    <3>2. m = [mem EXCEPT !.base = add(old, made), !.mine = add(old, made), !.inserts = {g}]
      BY <1>1 DEF PassState
    <3> HIDE DEF m, add, old
    <3> QED
      BY <1>1, <3>1, <3>2 DEF PassState
  <2>4. pass' = [pass EXCEPT ![p] = m]
    BY <2>1 DEF made
  <2> HIDE DEF m
  <2>5. /\ DOMAIN m.mine = DOMAIN old \cup {g} /\ DOMAIN m.base = DOMAIN m.mine
        /\ m.base[g] = m.mine[g] /\ m.mine[g] = made
        /\ \A h \in DOMAIN old : h # g => m.mine[h] = old[h] /\ m.base[h] = old[h]
    BY <1>4, <2>2, <2>3 DEF MadeFrom
  <2> QED
    BY <1>0, <1>1, <1>7, <2>2, <2>3, <2>4, <2>5 DEF found, event, StoreMakes
<1> QED
  BY <1>6, <1>7
\* Reconciling loads every row the pass has not, and gives each its new status.
ReconcileMakes(p, m) ==
    /\ pass' = [pass EXCEPT ![p] = m]
    /\ m.at = "reconciled" /\ m.report = pass[p].report /\ m.todo = pass[p].todo
    /\ m.inserts = {} /\ DOMAIN m.base = DOMAIN m.mine
    /\ \A g \in DOMAIN m.mine :
          /\ IF g \in DOMAIN pass[p].mine THEN m.base[g] = pass[p].mine[g]
             ELSE m.base[g] = Found(p)[g] /\ Found(p)[g].status # "absent"
          /\ m.mine[g] = Reconciled(m.base[g], g \in DOMAIN m.report)

LEMMA ReconcileIs ==
    ASSUME Typed, GameAssumption, NEW p \in Passes, Reconcile(p)
    PROVE  /\ Query(p) /\ UNCHANGED <<espn, db, poll>>
           /\ \E m \in PassState : ReconcileMakes(p, m)
<1> DEFINE old == pass[p].mine
           mem == Clean(p)
           found == Found(p)
           rows == {g \in Games : found[g].status # "absent"} \cup DOMAIN old
           known == [g \in rows |-> IF g \in DOMAIN old THEN old[g] ELSE found[g]]
           next == [g \in rows |-> Reconciled(known[g], g \in DOMAIN pass[p].report)]
           m == [mem EXCEPT !.at = "reconciled", !.base = known, !.mine = next]
<1>0. Query(p) /\ UNCHANGED <<espn, db, poll>>
  BY DEF Reconcile
<1>1. /\ mem \in PassState /\ mem.report = pass[p].report /\ mem.todo = pass[p].todo
      /\ mem.mine = old /\ mem.base = old /\ mem.inserts = {}
  BY CleanIs
<1>2. pass' = [pass EXCEPT ![p] = m]
  BY <1>1 DEF Reconcile
<1>3. found \in [Games -> RowSet] /\ old \in On(RowSet)
  BY FoundTyped DEF Typed, PassState
<1>4. \A g \in DOMAIN old : old[g] \in RowSet /\ g \in Games
  BY <1>3, OnIs
<1>5. rows \in SUBSET Games
  BY <1>4
<1> HIDE DEF old, mem, found
<1>6. known \in [rows -> RowSet]
  BY <1>3, <1>4
<1>7. \A g \in rows : Reconciled(known[g], g \in DOMAIN pass[p].report) \in RowSet
  BY <1>6 DEF Reconciled, RowSet
<1>8. next \in [rows -> RowSet]
  <2> HIDE DEF known, rows
  <2> QED
    BY <1>7
<1>9. known \in On(RowSet) /\ next \in On(RowSet)
  <2> HIDE DEF known, rows, next
  <2> QED
    BY <1>5, <1>6, <1>8, OnMade
<1>10. /\ m \in PassState /\ m.at = "reconciled" /\ m.report = mem.report /\ m.todo = mem.todo
       /\ m.base = known /\ m.mine = next /\ m.inserts = {}
  <2> HIDE DEF known, rows, next
  <2> QED
    BY <1>1, <1>9 DEF PassState
<1>11. /\ DOMAIN known = rows /\ DOMAIN next = rows
       /\ \A g \in rows :
            /\ IF g \in DOMAIN old THEN known[g] = old[g]
               ELSE known[g] = found[g] /\ found[g].status # "absent"
            /\ next[g] = Reconciled(known[g], g \in DOMAIN pass[p].report)
  <2>1. /\ DOMAIN known = rows /\ DOMAIN next = rows
    OBVIOUS
  <2>2. ASSUME NEW g \in rows
        PROVE  IF g \in DOMAIN old THEN known[g] = old[g]
               ELSE known[g] = found[g] /\ found[g].status # "absent"
    BY <2>2
  <2>3. ASSUME NEW g \in rows PROVE next[g] = Reconciled(known[g], g \in DOMAIN pass[p].report)
    <3> HIDE DEF known, rows
    <3> QED
      BY <2>3
  <2> QED
    BY <2>1, <2>2, <2>3
<1>12. \A g \in DOMAIN m.mine :
          /\ IF g \in DOMAIN old THEN m.base[g] = old[g] ELSE m.base[g] = found[g] /\ found[g].status # "absent"
          /\ m.mine[g] = Reconciled(m.base[g], g \in DOMAIN m.report)
  <2> HIDE DEF m, known, next, rows
  <2> QED
    BY <1>1, <1>10, <1>11
<1>13. DOMAIN m.base = DOMAIN m.mine
  <2> HIDE DEF m, known, next, rows
  <2> QED
    BY <1>10, <1>11
<1> HIDE DEF m, known, next, rows
<1> QED
  BY <1>0, <1>1, <1>2, <1>10, <1>12, <1>13 DEF old, found, ReconcileMakes

-----------------------------------------------------------------------------
(* Every step keeps the types *)

LEMMA RestTyped == Idle \in PassState /\ MemoryFits(Idle) /\ NoPoll \in PollState
<1>1. <<>> \in On(Events) /\ <<>> \in On(RowSet) /\ DOMAIN <<>> = {}
  BY EmptyOn
<1> QED
  BY <1>1 DEF Idle, NoPoll, PassState, PollState, MemoryFits

LEMMA PassTyped ==
    ASSUME Typed, NEW p \in Passes, NEW m \in PassState, MemoryFits(m), m.at = "idle" => m = Idle,
           pass' = [pass EXCEPT ![p] = m]
    PROVE  /\ pass' \in [Passes -> PassState]
           /\ \A q \in Passes : MemoryFits(pass'[q]) /\ (pass'[q].at = "idle" => pass'[q] = Idle)
  BY DEF Typed

LEMMA TypeInit == ASSUME GameAssumption, Init PROVE Typed
<1>1. NoRow \in RowSet /\ [phase |-> "pre", home |-> 0, away |-> 0] \in Events
  BY DEF NoRow, RowSet, Events, Score, GameAssumption
<1> QED
  BY <1>1, RestTyped DEF Init, Typed

LEMMA TypePlay == ASSUME GameAssumption, Typed, NEW g \in Games, Play(g) \/ Turn(g) PROVE Typed'
<1>1. feed \in [Games -> Events] /\ said \in [Games -> SUBSET (Score \X Score)] /\ feed[g] \in Events
  BY DEF Typed
<1>2. UNCHANGED <<db, lock, tx, pass, poll>>
  BY DEF Play, Turn
<1>3. feed' \in [Games -> Events] /\ said' \in [Games -> SUBSET (Score \X Score)]
  <2>1. CASE Play(g)
    <3>1. feed' \in [Games -> Events]
      <4>1. \E e \in Events : feed' = [feed EXCEPT ![g] = e]
        <5>1. CASE feed' = [feed EXCEPT ![g].phase = "in"] \/ feed' = [feed EXCEPT ![g].phase = "final"]
          BY <1>1, <5>1 DEF Events
        <5>2. CASE feed[g].home < MaxScore /\ feed' = [feed EXCEPT ![g].home = @ + 1]
          <6>1. feed[g].home + 1 \in Score
            BY <1>1, <5>2 DEF Events, Score, GameAssumption
          <6> QED
            BY <1>1, <5>2, <6>1 DEF Events
        <5>3. CASE feed[g].away < MaxScore /\ feed' = [feed EXCEPT ![g].away = @ + 1]
          <6>1. feed[g].away + 1 \in Score
            BY <1>1, <5>3 DEF Events, Score, GameAssumption
          <6> QED
            BY <1>1, <5>3, <6>1 DEF Events
        <5> QED
          BY <2>1, <5>1, <5>2, <5>3 DEF Play
      <4> QED
        BY <1>1, <4>1
    <3>2. <<feed[g].home, feed[g].away>> \in Score \X Score
      BY <1>1 DEF Events
    <3>3. said' = said \/ said' = [said EXCEPT ![g] = @ \cup {<<feed[g].home, feed[g].away>>}]
      BY <2>1 DEF Play
    <3> QED
      BY <1>1, <3>1, <3>2, <3>3
  <2>2. CASE Turn(g)
    <3>1. CASE UNCHANGED said /\ \E to \in {"pre", "postponed"} : feed' = [feed EXCEPT ![g].phase = to]
      BY <1>1, <3>1 DEF Events
    <3>2. CASE \E h, a \in Score : /\ feed' = [feed EXCEPT ![g].home = h, ![g].away = a]
                                   /\ said' = [said EXCEPT ![g] = @ \cup {<<h, a>>}]
      <4>1. PICK h, a \in Score : /\ feed' = [feed EXCEPT ![g].home = h, ![g].away = a]
                                  /\ said' = [said EXCEPT ![g] = @ \cup {<<h, a>>}]
        BY <3>2
      <4>2. [feed[g] EXCEPT !.home = h, !.away = a] \in Events
        BY <1>1 DEF Events
      <4>3. feed' = [feed EXCEPT ![g] = [feed[g] EXCEPT !.home = h, !.away = a]]
        BY <1>1, <4>1
      <4>4. said' \in [Games -> SUBSET (Score \X Score)]
        BY <1>1, <4>1
      <4> QED
        BY <1>1, <4>2, <4>3, <4>4
    <3> QED
      BY <2>2, <3>1, <3>2 DEF Turn
  <2> QED
    BY <2>1, <2>2
<1> QED
  BY <1>2, <1>3 DEF Typed, db, MemoryFits

LEMMA TypePass == ASSUME GameAssumption, Typed, NEW p \in Passes, Pass(p) PROVE Typed'
<1>1. pass[p] \in PassState /\ MemoryFits(pass[p]) /\ p # Free
  BY DEF Typed, GameAssumption
<1>2. ASSUME NEW listed \in SUBSET Games, NEW reconcile \in BOOLEAN, Fetch(p, listed, reconcile)
      PROVE  Typed'
  <2> DEFINE report == [g \in listed |-> feed[g]]
             m == [Idle EXCEPT !.at = "storing", !.report = report, !.todo = listed,
                               !.reconcile = reconcile /\ (listed # {} \/ Crowded)]
  <2>1. report \in On(Events) /\ DOMAIN report = listed
    <3>1. report \in [listed -> Events]
      BY DEF Typed
    <3> QED
      BY <3>1, OnMade
  <2>2. (reconcile /\ (listed # {} \/ Crowded)) \in BOOLEAN
    OBVIOUS
  <2>3. m \in PassState /\ MemoryFits(m) /\ m.at = "storing"
    <3> HIDE DEF report
    <3> QED
      BY <2>1, <2>2, RestTyped DEF Idle, PassState, MemoryFits
  <2>4. pass' = [pass EXCEPT ![p] = m]
    BY <1>2 DEF Fetch
  <2> HIDE DEF m, report
  <2>5. /\ pass' \in [Passes -> PassState]
        /\ \A q \in Passes : MemoryFits(pass'[q]) /\ (pass'[q].at = "idle" => pass'[q] = Idle)
    BY <2>3, <2>4, PassTyped
  <2> QED
    BY <1>2, <2>5 DEF Typed, Fetch, espn, db
<1>3. ASSUME NEW m \in PassState, MemoryFits(m), m.at # "idle", pass' = [pass EXCEPT ![p] = m],
             Query(p), UNCHANGED <<espn, db, poll>>
      PROVE  Typed'
  <2>1. /\ pass' \in [Passes -> PassState]
        /\ \A q \in Passes : MemoryFits(pass'[q]) /\ (pass'[q].at = "idle" => pass'[q] = Idle)
    BY <1>3, PassTyped
  <2>2. /\ lock' \in Passes \cup Pollers \cup {Free}
        /\ lock' = Free => tx' = NoTx
        /\ lock' # Free => tx' \in Tables /\ Games # {}
    BY <1>3, QueryIs
  <2> QED
    BY <1>3, <2>1, <2>2 DEF Typed, espn, db
<1>4. ASSUME NEW g \in Games, Store(p, g) PROVE Typed'
  <2>1. g \in pass[p].todo /\ Query(p) /\ UNCHANGED <<espn, db, poll>>
    BY <1>4, StoreIs
  <2>2. PICK m \in PassState : StoreMakes(p, g, m)
    BY <1>4, StoreIs
  <2>3. MemoryFits(m)
    BY <1>1, <2>2 DEF MemoryFits, StoreMakes
  <2>4. m.at # "idle"
    BY <2>1, <2>2 DEF Typed, Idle, StoreMakes
  <2> QED
    BY <1>3, <2>1, <2>2, <2>3, <2>4 DEF StoreMakes
<1>5. CASE Reconcile(p)
  <2>1. Query(p) /\ UNCHANGED <<espn, db, poll>>
    BY <1>5, ReconcileIs
  <2>2. PICK m \in PassState : ReconcileMakes(p, m)
    BY <1>5, ReconcileIs
  <2>3. MemoryFits(m)
    BY <1>1, <2>2 DEF MemoryFits, ReconcileMakes
  <2> QED
    BY <1>3, <2>1, <2>2, <2>3 DEF ReconcileMakes
<1>6. ASSUME pass' = [pass EXCEPT ![p] = Idle], UNCHANGED <<espn, poll>>,
             row' \in [Games -> RowSet], extra' \subseteq Games,
             UNCHANGED <<lock, tx>> \/ Release
      PROVE  Typed'
  <2>1. /\ pass' \in [Passes -> PassState]
        /\ \A q \in Passes : MemoryFits(pass'[q]) /\ (pass'[q].at = "idle" => pass'[q] = Idle)
    BY <1>6, RestTyped, PassTyped
  <2> QED
    BY <1>6, <2>1 DEF Typed, espn, Release
<1>7. CASE Commit(p)
  BY <1>6, <1>7, FlushedTyped DEF Commit, Typed, db, Tables
<1>8. CASE Abort(p)
  BY <1>6, <1>8 DEF Abort, Typed, db
<1>9. CASE FetchAny(p)
  BY <1>2, <1>9 DEF FetchAny, GameAssumption
<1> QED
  BY <1>4, <1>5, <1>7, <1>8, <1>9 DEF Pass

LEMMA LiveRowTyped ==
    ASSUME NEW r \in RowSet, NEW event \in Events PROVE LiveRow(r, event) \in RowSet
  BY DEF LiveRow, RowSet, Events

\* What a board's events make of the table.
PollWrites(q, t) ==
    [t EXCEPT !.row = [g \in Games |->
        IF g \in DOMAIN poll[q].board /\ Live(poll[q].board[g])
        THEN LiveRow(t.row[g], poll[q].board[g]) ELSE t.row[g]]]

LEMMA PollWriteIs ==
    ASSUME Typed, GameAssumption, NEW q \in Pollers, PollWrite(q)
    PROVE  /\ UNCHANGED <<espn, db, pass, aborts>>
           /\ poll' = [poll EXCEPT ![q].board = <<>>]
           /\ \/ UNCHANGED <<lock, tx>>
              \/ /\ lock \in {Free, q} /\ lock' = q /\ tx' = PollWrites(q, View(q))
                 /\ tx' \in Tables /\ Games # {}
<1> DEFINE board == poll[q].board
           live == {g \in DOMAIN board : Live(board[g])}
           t == View(q)
<1>1. UNCHANGED <<espn, db, pass, aborts>> /\ poll' = [poll EXCEPT ![q].board = <<>>]
  BY DEF PollWrite
<1>2. board \in On(Events)
  BY DEF Typed, PollState
<1>3. \A g \in DOMAIN board : board[g] \in Events /\ g \in Games
  BY <1>2, OnIs
<1>4. CASE live = {}
  BY <1>1, <1>4 DEF PollWrite
<1>5. CASE live # {}
  <2>1. /\ lock \in {Free, q} /\ lock' = q
        /\ tx' = [t EXCEPT !.row = [g \in Games |-> IF g \in live THEN LiveRow(t.row[g], board[g]) ELSE t.row[g]]]
    BY <1>5 DEF PollWrite
  <2>2. [g \in Games |-> IF g \in live THEN LiveRow(t.row[g], board[g]) ELSE t.row[g]]
        = [g \in Games |-> IF g \in DOMAIN board /\ Live(board[g]) THEN LiveRow(t.row[g], board[g]) ELSE t.row[g]]
    OBVIOUS
  <2>3. tx' = PollWrites(q, View(q))
    BY <2>1, <2>2 DEF PollWrites
  <2>4. t \in Tables
    BY ViewTyped
  <2> HIDE DEF t, board
  <2>5. \A g \in Games : (IF g \in live THEN LiveRow(t.row[g], board[g]) ELSE t.row[g]) \in RowSet
    BY <1>3, <2>4, LiveRowTyped DEF Tables
  <2>6. tx' \in Tables
    <3> DEFINE r == [g \in Games |-> IF g \in live THEN LiveRow(t.row[g], board[g]) ELSE t.row[g]]
    <3>1. r \in [Games -> RowSet]
      <4> HIDE DEF live
      <4> QED
        BY <2>5
    <3>2. tx' = [t EXCEPT !.row = r]
      BY <2>1
    <3> HIDE DEF r, live
    <3> QED
      BY <2>4, <3>1, <3>2 DEF Tables
  <2>7. Games # {}
    BY <1>3, <1>5
  <2> QED
    BY <1>1, <2>1, <2>3, <2>6, <2>7
<1> QED
  BY <1>4, <1>5

LEMMA TypePoll == ASSUME GameAssumption, Typed, NEW q \in Pollers, Poll(q) PROVE Typed'
<1>1. poll[q] \in PollState /\ q # Free
  BY DEF Typed, GameAssumption
<1>2. CASE StartPoll(q)
  <2>1. Candidates \in SUBSET Games
    BY DEF Candidates
  <2>2. poll' \in [Pollers -> PollState]
    BY <1>1, <1>2, <2>1 DEF StartPoll, Typed, PollState
  <2> QED
    BY <1>2, <2>2 DEF StartPoll, Typed, espn, db
<1>3. ASSUME NEW b, PollFetch(q, b) PROVE Typed'
  <2> DEFINE games == {g \in poll[q].todo : BoardOf[g] = b}
             board == [g \in games |-> feed[g]]
  <2>1. games \in SUBSET Games
    BY <1>1 DEF PollState
  <2>2. board \in On(Events)
    <3>1. board \in [games -> Events]
      BY <2>1 DEF Typed
    <3> QED
      BY <2>1, <3>1, OnMade
  <2>3. poll' = [poll EXCEPT ![q] = [todo |-> poll[q].todo \ games, board |-> board]]
    BY <1>3 DEF PollFetch, Typed
  <2> HIDE DEF games, board
  <2>4. poll' \in [Pollers -> PollState]
    BY <1>1, <2>2, <2>3 DEF Typed, PollState
  <2> QED
    BY <1>3, <2>4 DEF PollFetch, Typed, espn, db
<1>4. CASE PollWrite(q)
  <2>1. /\ UNCHANGED <<espn, db, pass, aborts>> /\ poll' = [poll EXCEPT ![q].board = <<>>]
        /\ UNCHANGED <<lock, tx>> \/ (lock' = q /\ tx' \in Tables /\ Games # {})
    BY <1>4, PollWriteIs
  <2>2. poll' \in [Pollers -> PollState]
    BY <1>1, <2>1, EmptyOn DEF Typed, PollState
  <2> QED
    BY <1>1, <2>1, <2>2 DEF Typed, espn, db
<1>5. CASE PollCommit(q)
  BY <1>1, <1>5 DEF PollCommit, Release, Typed, Tables, espn
<1>6. CASE PollAbort(q)
  BY <1>1, <1>6, RestTyped DEF PollAbort, Release, Typed, espn, db
<1> QED
  BY <1>2, <1>3, <1>4, <1>5, <1>6 DEF Poll

LEMMA TypeStep == ASSUME GameAssumption, Typed, [Next]_vars PROVE Typed'
<1>1. CASE UNCHANGED vars
  BY <1>1 DEF vars, Typed, MemoryFits
<1> QED
  BY <1>1, TypePlay, TypePass, TypePoll DEF Next

\* Tables and memories hold values of their types, and the write lock is held
\* exactly while a transaction is open.
THEOREM GamesTypeCorrect == ASSUME GameAssumption PROVE Spec => []TypeOK
<1>1. Typed => TypeOK
  <2> SUFFICES ASSUME Typed PROVE TypeOK
    OBVIOUS
  <2>1. (lock = Free) = (tx = NoTx)
    <3>1. lock # Free => DOMAIN tx.row = Games /\ Games # {}
      BY DEF Typed, Tables
    <3>2. DOMAIN NoTx.row = {}
      BY EmptyOn DEF NoTx
    <3> QED
      BY <3>1, <3>2 DEF Typed
  <2>2. \A p \in Passes : \A g \in DOMAIN pass[p].mine : pass[p].mine[g] \in RowSet
    BY OnIs DEF Typed, PassState
  <2>3. lock # Free => tx.row \in [Games -> RowSet]
    BY DEF Typed, Tables
  <2>4. \A q \in Pollers : poll[q].todo \subseteq Games
    BY DEF Typed, PollState
  <2> QED
    BY <2>1, <2>2, <2>3, <2>4 DEF Typed, TypeOK, MemoryFits
<1> QED
  BY <1>1, TypeInit, TypeStep, PTL DEF Spec

-----------------------------------------------------------------------------
(* The inductive invariants *)

\* One results pass at a time, as FinalStays and ScoreAsReported say; one live
\* poll, as the scheduler runs it (max_instances=1).
OnePass == \A p, q \in Passes : p = q
OnePoll == \A p, q \in Pollers : p = q

Final(r) == r.status = "final"
Present(r) == r.status # "absent"

\* A loaded row and the row pass p would see now: final alike, and a change the
\* pass has made since never takes back a final status.
Loaded(base, mine, seen) ==
    /\ Present(mine) /\ Present(seen)
    /\ Final(base) = Final(seen)
    /\ Final(base) => Final(mine)

\* How the statuses of the committed row and of an open transaction relate.
StatusKept(r, t) == (Final(r) => Final(t)) /\ (Present(r) => Present(t))

\* No event has a second row.
OneRow == extra = {} /\ (lock # Free => tx.extra = {})

\* A transaction takes back no final status and removes no row; a poll's makes
\* no row final either.
TxKeeps == lock # Free => \A g \in Games : StatusKept(row[g], tx.row[g])
PollKeeps == lock \in Pollers => \A g \in Games : StatusKept(tx.row[g], row[g])

\* What pass p has in memory was loaded from, or is missing in, what it sees.
MemoryLoaded(p) ==
    \A g \in DOMAIN pass[p].mine :
        LET m == pass[p]
            seen == View(p).row[g]
        IN  IF g \in m.inserts THEN ~Present(seen) /\ Present(m.mine[g]) /\ m.base[g] = m.mine[g]
            ELSE Loaded(m.base[g], m.mine[g], seen)

StatusInv == OneRow /\ TxKeeps /\ PollKeeps /\ \A p \in Passes : MemoryLoaded(p)

\* ESPN has not corrected the score.
Sure(g) == \A x, y \in said[g] : x = y

Points(r) == <<r.home, r.away>>
AtMost(r, s) == r.home <= s.home /\ r.away <= s.away

\* What ESPN showed at some time.
Past(g, event) ==
    /\ event.phase = "final" => Points(event) \in said[g]
    /\ Sure(g) => AtMost(event, feed[g])

\* A row's score: ESPN's when final, a past one before.
Fits(g, r) ==
    /\ Final(r) /\ Sure(g) => Points(r) \in said[g]
    /\ Sure(g) => AtMost(r, feed[g])

\* A loaded row, what the pass makes of it, and the row it would see now: the
\* poll has only raised the score of an unfinished game since.
Follows(g, base, mine, seen) ==
    /\ Sure(g) => AtMost(base, seen)
    /\ Sure(g) /\ Final(base) => Points(seen) = Points(base)
    /\ Sure(g) /\ Final(mine) => Points(mine) \in said[g]
    /\ ~Final(mine) => Points(mine) = Points(base)

\* A row is not ahead of the board a poll is about to write, unless it is final.
Behind(g, r, event) == Final(r) \/ (Sure(g) => AtMost(r, event))

\* ESPN has said the score it shows as final, and none before.
FeedSaid(g) == IF feed[g].phase = "final" THEN Points(feed[g]) \in said[g] ELSE said[g] = {}

RowsFit(g) == Fits(g, row[g]) /\ (lock # Free => Fits(g, tx.row[g]))

\* A poll's transaction leaves final rows alone and raises scores.
PollRaises(g) ==
    lock \in Pollers =>
        (Final(row[g]) => tx.row[g] = row[g]) /\ (Sure(g) => AtMost(row[g], tx.row[g]))

PassFollows(p) ==
    LET m == pass[p]
    IN  /\ \A g \in DOMAIN m.report : Past(g, m.report[g])
        /\ \A g \in DOMAIN m.mine :
             IF g \in m.inserts THEN Fits(g, m.mine[g])
             ELSE Follows(g, m.base[g], m.mine[g], View(p).row[g])

\* What a poll is about to write is of rows that are there, and not behind them.
PollAhead(q) ==
    /\ \A g \in poll[q].todo : Present(row[g])
    /\ \A g \in DOMAIN poll[q].board :
        LET event == poll[q].board[g]
        IN  /\ Present(row[g]) /\ Past(g, event) /\ Behind(g, row[g], event)
            /\ lock # Free => Behind(g, tx.row[g], event)

ScoreInv ==
    /\ \A g \in Games : FeedSaid(g) /\ RowsFit(g) /\ PollRaises(g)
    /\ \A p \in Passes : PassFollows(p)
    /\ \A q \in Pollers : PollAhead(q)

-----------------------------------------------------------------------------
(* What a flush makes of a row *)

Updated(f, now, base, mine) ==
    /\ f.status = IF mine.status = base.status THEN now.status ELSE mine.status
    /\ f.home = IF mine.home = base.home THEN now.home ELSE mine.home
    /\ f.away = IF mine.away = base.away THEN now.away ELSE mine.away

LEMMA MemoryTyped ==
    ASSUME Typed, NEW p \in Passes
    PROVE  /\ \A g \in DOMAIN pass[p].mine :
                 pass[p].mine[g] \in RowSet /\ pass[p].base[g] \in RowSet /\ g \in Games
           /\ pass[p].inserts \subseteq DOMAIN pass[p].mine
           /\ \A g \in DOMAIN pass[p].report : pass[p].report[g] \in Events /\ g \in Games
           /\ pass[p].todo \subseteq DOMAIN pass[p].report
<1>1. pass[p] \in PassState /\ MemoryFits(pass[p])
  BY DEF Typed
<1>2. pass[p].mine \in On(RowSet) /\ pass[p].base \in On(RowSet) /\ pass[p].report \in On(Events)
  BY <1>1 DEF PassState
<1> QED
  BY <1>1, <1>2, OnIs DEF MemoryFits

\* An event the database has no row of is inserted as the pass made it; a loaded
\* row is updated; the others are left as they are.
LEMMA FlushedRow ==
    ASSUME Typed, GameAssumption, StatusInv, NEW p \in Passes, NEW g \in Games
    PROVE  /\ Flushed(p).row[g] \in RowSet /\ View(p).row[g] \in RowSet
           /\ g \notin DOMAIN pass[p].mine => Flushed(p).row[g] = View(p).row[g]
           /\ g \in pass[p].inserts => Flushed(p).row[g] = pass[p].mine[g]
           /\ g \in DOMAIN pass[p].mine \ pass[p].inserts =>
                 Updated(Flushed(p).row[g], View(p).row[g], pass[p].base[g], pass[p].mine[g])
<1> DEFINE now == View(p).row[g]
           f == Flushed(p).row[g]
           base == pass[p].base[g]
           mine == pass[p].mine[g]
           inserts == pass[p].inserts
<1>1. f \in RowSet /\ now \in RowSet
  BY FlushedTyped, ViewTyped DEF Tables
<1>2. f = IF g \in inserts /\ now.status = "absent" THEN mine
          ELSE IF g \in Dirty(p) \ inserts THEN Update(now, base, mine) ELSE now
  BY DEF Flushed
<1>3. g \in inserts => g \in DOMAIN pass[p].mine /\ now.status = "absent"
  BY MemoryTyped DEF StatusInv, MemoryLoaded, Present
<1>4. g \notin DOMAIN pass[p].mine => g \notin Dirty(p)
  BY MemoryTyped DEF Dirty
<1>5. ASSUME g \in DOMAIN pass[p].mine \ inserts PROVE Updated(f, now, base, mine)
  <2>1. base \in RowSet /\ mine \in RowSet
    BY <1>5, MemoryTyped
  <2>2. CASE mine = base
    <3>1. f = now
      BY <1>2, <1>5, <2>2 DEF Dirty
    <3> QED
      BY <2>2, <3>1 DEF Updated
  <2>3. CASE mine # base
    <3>1. f = Update(now, base, mine)
      BY <1>2, <1>5, <2>3 DEF Dirty
    <3> HIDE DEF f, now, base, mine
    <3> QED
      BY <1>1, <2>1, <3>1, UpdateIs DEF Updated
  <2> QED
    BY <2>2, <2>3
<1> HIDE DEF f, now, base, mine
<1> QED
  BY <1>1, <1>2, <1>3, <1>4, <1>5 DEF f, now, base, mine

LEMMA FoundIsFlushed ==
    ASSUME Typed, GameAssumption, NEW p \in Passes
    PROVE  Found(p) = Flushed(p).row
<1>1. CASE Dirty(p) = {}
  <2>1. pass[p].inserts = {}
    BY <1>1 DEF Dirty
  <2>2. Flushed(p).row = [g \in Games |-> View(p).row[g]]
    BY <1>1, <2>1 DEF Flushed
  <2>3. View(p).row \in [Games -> RowSet]
    BY ViewTyped DEF Tables
  <2> QED
    BY <1>1, <2>2, <2>3 DEF Found
<1>2. CASE Dirty(p) # {}
  BY <1>2 DEF Found
<1> QED
  BY <1>1, <1>2

LEMMA LoadedUpdated ==
    ASSUME NEW f, NEW now, NEW base, NEW mine, Loaded(base, mine, now), Updated(f, now, base, mine)
    PROVE  Loaded(mine, mine, f) /\ StatusKept(now, f)
  BY DEF Loaded, Updated, StatusKept, Final, Present

\* After the flush the pass sees every loaded row as it has it, and no row has
\* lost a final status.
LEMMA FlushKeeps ==
    ASSUME Typed, GameAssumption, StatusInv, NEW p \in Passes
    PROVE  /\ \A g \in Games : StatusKept(View(p).row[g], Flushed(p).row[g])
           /\ \A g \in DOMAIN pass[p].mine :
                 g \in Games /\ Loaded(pass[p].mine[g], pass[p].mine[g], Flushed(p).row[g])
           /\ Flushed(p).extra = {} /\ View(p).extra = {}
<1>1. ASSUME NEW g \in DOMAIN pass[p].mine
      PROVE  /\ g \in Games /\ StatusKept(View(p).row[g], Flushed(p).row[g])
             /\ Loaded(pass[p].mine[g], pass[p].mine[g], Flushed(p).row[g])
  <2>1. g \in Games
    BY <1>1, MemoryTyped
  <2>2. CASE g \in pass[p].inserts
    <3>1. /\ ~Present(View(p).row[g]) /\ Present(pass[p].mine[g])
          /\ Flushed(p).row[g] = pass[p].mine[g]
      BY <2>1, <2>2, FlushedRow DEF StatusInv, MemoryLoaded
    <3> QED
      BY <2>1, <3>1 DEF StatusKept, Loaded, Present, Final
  <2>3. CASE g \notin pass[p].inserts
    <3>1. Loaded(pass[p].base[g], pass[p].mine[g], View(p).row[g])
      BY <2>3 DEF StatusInv, MemoryLoaded
    <3>2. Updated(Flushed(p).row[g], View(p).row[g], pass[p].base[g], pass[p].mine[g])
      BY <2>1, <2>3, FlushedRow
    <3> QED
      BY <2>1, <3>1, <3>2, LoadedUpdated
  <2> QED
    BY <2>2, <2>3
<1>2. ASSUME NEW g \in Games, g \notin DOMAIN pass[p].mine
      PROVE  StatusKept(View(p).row[g], Flushed(p).row[g])
  BY <1>2, FlushedRow DEF StatusKept
<1>3. View(p).extra = {}
  BY DEF View, StatusInv, OneRow, GameAssumption
<1>4. Flushed(p).extra = {}
  <2>1. \A g \in pass[p].inserts : View(p).row[g].status = "absent"
    BY MemoryTyped DEF StatusInv, MemoryLoaded, Present
  <2> QED
    BY <1>3, <2>1 DEF Flushed
<1> QED
  BY <1>1, <1>2, <1>3, <1>4

-----------------------------------------------------------------------------
(* A final row stays final *)

LEMMA StatusInit == ASSUME GameAssumption, Init PROVE StatusInv
<1>1. \A p \in Passes : DOMAIN pass[p].mine = {}
  BY EmptyOn DEF Init, Idle
<1>2. lock \notin Pollers
  BY DEF Init, GameAssumption
<1> QED
  BY <1>1, <1>2 DEF Init, StatusInv, OneRow, TxKeeps, PollKeeps, MemoryLoaded

\* What a query leaves of the tables, whoever's it is.
LEMMA QueryKeeps ==
    ASSUME Typed, GameAssumption, StatusInv, NEW p \in Passes, Query(p), UNCHANGED db
    PROVE  OneRow' /\ TxKeeps' /\ PollKeeps'
<1>1. CASE UNCHANGED <<lock, tx>>
  BY <1>1 DEF StatusInv, OneRow, TxKeeps, PollKeeps, db
<1>2. CASE lock \in {Free, p} /\ lock' = p /\ tx' = Flushed(p)
  <2>1. p # Free /\ p \notin Pollers
    BY DEF GameAssumption
  <2>2. \A g \in Games : StatusKept(row[g], View(p).row[g])
    BY <1>2, <2>1 DEF View, StatusInv, TxKeeps, StatusKept
  <2>3. \A g \in Games : StatusKept(row[g], Flushed(p).row[g])
    BY <2>2, FlushKeeps DEF StatusKept
  <2> QED
    BY <1>2, <2>1, <2>3, FlushKeeps DEF StatusInv, OneRow, TxKeeps, PollKeeps, db
<1> QED
  BY <1>1, <1>2, QueryIs

\* A pass with nothing loaded.
LEMMA IdleLoaded == ASSUME NEW p \in Passes, pass'[p].mine = <<>> PROVE MemoryLoaded(p)'
  BY EmptyOn DEF MemoryLoaded

LEMMA StatusPass ==
    ASSUME Typed, GameAssumption, OnePass, StatusInv, NEW p \in Passes, Pass(p)
    PROVE  StatusInv'
<1>1. \A q \in Passes : q = p
  BY DEF OnePass
<1>2. p # Free /\ p \notin Pollers
  BY DEF GameAssumption
<1>3. ASSUME NEW m \in PassState, pass' = [pass EXCEPT ![p] = m], Query(p), UNCHANGED db,
             \A g \in DOMAIN m.mine :
                 IF g \in m.inserts
                 THEN ~Present(Found(p)[g]) /\ Present(m.mine[g]) /\ m.base[g] = m.mine[g]
                 ELSE Loaded(m.base[g], m.mine[g], Found(p)[g])
      PROVE  StatusInv'
  <2>1. pass'[p] = m /\ View(p)'.row = Found(p)
    BY <1>3, QueryIs DEF Typed
  <2>2. MemoryLoaded(p)'
    BY <1>3, <2>1 DEF MemoryLoaded
  <2> QED
    BY <1>1, <1>3, <2>2, QueryKeeps DEF StatusInv
<1>4. ASSUME NEW g \in Games, Store(p, g) PROVE StatusInv'
  <2>1. g \in pass[p].todo /\ Query(p) /\ UNCHANGED <<espn, db, poll>>
    BY <1>4, StoreIs
  <2>2. PICK m \in PassState : StoreMakes(p, g, m)
    BY <1>4, StoreIs
  <2>3. ASSUME NEW h \in DOMAIN m.mine, h # g
        PROVE  h \notin m.inserts /\ Loaded(m.base[h], m.mine[h], Found(p)[h])
    <3>1. h \in DOMAIN pass[p].mine /\ m.mine[h] = pass[p].mine[h] /\ m.base[h] = pass[p].mine[h]
      BY <2>2, <2>3 DEF StoreMakes
    <3>2. h \notin m.inserts
      BY <2>2, <2>3 DEF StoreMakes
    <3> QED
      BY <3>1, <3>2, FlushKeeps, FoundIsFlushed
  <2>4. IF g \in m.inserts
        THEN ~Present(Found(p)[g]) /\ Present(m.mine[g]) /\ m.base[g] = m.mine[g]
        ELSE Loaded(m.base[g], m.mine[g], Found(p)[g])
    <3>1. CASE Found(p)[g].status # "absent"
      <4>1. /\ g \notin m.inserts /\ m.base[g] = Found(p)[g]
            /\ m.mine[g] = Stored(Found(p)[g], pass[p].report[g]) /\ Found(p)[g] \in RowSet
        BY <2>2, <3>1, FoundTyped DEF StoreMakes
      <4> QED
        BY <3>1, <4>1 DEF Loaded, Stored, Final, Present, RowSet
    <3>2. CASE Found(p)[g].status = "absent"
      <4>1. /\ g \in m.inserts /\ m.base[g] = m.mine[g] /\ MadeFrom(m.mine[g], pass[p].report[g])
        BY <2>2, <3>2 DEF StoreMakes
      <4>2. pass[p].report[g] \in Events
        BY <2>1, MemoryTyped
      <4> QED
        BY <3>2, <4>1, <4>2 DEF MadeFrom, StatusOf, Present, Events
    <3> QED
      BY <3>1, <3>2
  <2> QED
    BY <1>3, <2>1, <2>2, <2>3, <2>4 DEF StoreMakes
<1>5. CASE Reconcile(p)
  <2>1. Query(p) /\ UNCHANGED <<espn, db, poll>>
    BY <1>5, ReconcileIs
  <2>2. PICK m \in PassState : ReconcileMakes(p, m)
    BY <1>5, ReconcileIs
  <2>3. ASSUME NEW g \in DOMAIN m.mine
        PROVE  g \notin m.inserts /\ Loaded(m.base[g], m.mine[g], Found(p)[g])
    <3>1. /\ g \notin m.inserts /\ m.mine[g] = Reconciled(m.base[g], g \in DOMAIN m.report)
          /\ IF g \in DOMAIN pass[p].mine THEN m.base[g] = pass[p].mine[g]
             ELSE m.base[g] = Found(p)[g] /\ Found(p)[g].status # "absent"
      BY <2>2, <2>3 DEF ReconcileMakes
    <3>2. Loaded(m.base[g], m.base[g], Found(p)[g])
      <4>1. CASE g \in DOMAIN pass[p].mine
        BY <3>1, <4>1, FlushKeeps, FoundIsFlushed
      <4>2. CASE g \notin DOMAIN pass[p].mine
        BY <3>1, <4>2 DEF Loaded, Present
      <4> QED
        BY <4>1, <4>2
    <3>3. m.base[g] \in RowSet
      BY <2>2, <2>3, OnIs DEF PassState, ReconcileMakes
    <3> QED
      BY <3>1, <3>2, <3>3 DEF Loaded, Reconciled, Final, Present, RowSet
  <2> QED
    BY <1>3, <2>1, <2>2, <2>3 DEF ReconcileMakes
<1>6. ASSUME pass'[p].mine = <<>>, OneRow', TxKeeps', PollKeeps' PROVE StatusInv'
  BY <1>1, <1>6, IdleLoaded DEF StatusInv
<1>7. CASE FetchAny(p)
  <2>1. pass'[p].mine = <<>> /\ UNCHANGED <<db, lock, tx>>
    BY <1>7 DEF FetchAny, Fetch, Idle, Typed
  <2> QED
    BY <1>6, <2>1 DEF StatusInv, OneRow, TxKeeps, PollKeeps, db
<1>8. CASE Commit(p)
  <2>1. pass'[p].mine = <<>>
    BY <1>8 DEF Commit, Idle, Typed
  <2>2. CASE UNCHANGED <<db, lock, tx>>
    BY <1>6, <2>1, <2>2 DEF StatusInv, OneRow, TxKeeps, PollKeeps, db
  <2>3. CASE extra' = Flushed(p).extra /\ lock' = Free
    <3>1. lock' \notin Pollers
      BY <2>3 DEF GameAssumption
    <3> QED
      BY <1>6, <2>1, <2>3, <3>1, FlushKeeps DEF OneRow, TxKeeps, PollKeeps
  <2> QED
    BY <1>8, <2>2, <2>3 DEF Commit, Release
<1>9. CASE Abort(p)
  <2>1. pass'[p].mine = <<>> /\ UNCHANGED db /\ (lock' = Free \/ UNCHANGED <<lock, tx>>)
    BY <1>9 DEF Abort, Idle, Typed, Release
  <2>2. Free \notin Pollers
    BY DEF GameAssumption
  <2> QED
    BY <1>6, <2>1, <2>2 DEF StatusInv, OneRow, TxKeeps, PollKeeps, db
<1> QED
  BY <1>4, <1>5, <1>7, <1>8, <1>9 DEF Pass

\* A poll's write touches open rows only, and makes none final.
LEMMA LiveRowKeeps ==
    ASSUME NEW r, NEW event
    PROVE  LET w == LiveRow(r, event)
           IN  /\ Final(w) = Final(r) /\ Present(w) = Present(r)
               /\ Final(r) \/ ~Present(r) => w = r
  BY DEF LiveRow, Final, Present

LEMMA PollWritesKeep ==
    ASSUME Typed, GameAssumption, NEW q \in Pollers, NEW g \in Games
    PROVE  LET w == PollWrites(q, View(q)).row[g]
               r == View(q).row[g]
           IN  /\ Final(w) = Final(r) /\ Present(w) = Present(r) /\ (Final(r) => w = r)
               /\ PollWrites(q, View(q)).extra = View(q).extra
               /\ w = IF g \in DOMAIN poll[q].board /\ Live(poll[q].board[g])
                      THEN LiveRow(r, poll[q].board[g]) ELSE r
<1>1. View(q) \in Tables
  BY ViewTyped
<1>2. PollWrites(q, View(q)).row[g] =
        IF g \in DOMAIN poll[q].board /\ Live(poll[q].board[g])
        THEN LiveRow(View(q).row[g], poll[q].board[g]) ELSE View(q).row[g]
  BY <1>1 DEF PollWrites, Tables
<1>3. PollWrites(q, View(q)).extra = View(q).extra
  BY <1>1 DEF PollWrites, Tables
<1> QED
  BY <1>2, <1>3, LiveRowKeeps

LEMMA StatusPoll ==
    ASSUME Typed, GameAssumption, StatusInv, NEW q \in Pollers, Poll(q)
    PROVE  StatusInv'
<1>1. q # Free /\ q \notin Passes
  BY DEF GameAssumption
<1>2. pass' = pass /\ \A p \in Passes : p # q /\ p # Free
  BY DEF Poll, StartPoll, PollFetch, PollWrite, PollCommit, PollAbort, GameAssumption
<1>3. ASSUME \A p \in Passes : \A g \in Games :
                Final(View(p)'.row[g]) = Final(View(p).row[g]) /\ Present(View(p)'.row[g]) = Present(View(p).row[g])
      PROVE  \A p \in Passes : MemoryLoaded(p)'
  <2> SUFFICES ASSUME NEW p \in Passes, NEW g \in DOMAIN pass[p].mine
               PROVE  IF g \in pass[p].inserts
                      THEN ~Present(View(p)'.row[g]) /\ Present(pass[p].mine[g]) /\ pass[p].base[g] = pass[p].mine[g]
                      ELSE Loaded(pass[p].base[g], pass[p].mine[g], View(p)'.row[g])
    BY <1>2 DEF MemoryLoaded
  <2>1. g \in Games
    BY MemoryTyped
  <2>2. IF g \in pass[p].inserts
        THEN ~Present(View(p).row[g]) /\ Present(pass[p].mine[g]) /\ pass[p].base[g] = pass[p].mine[g]
        ELSE Loaded(pass[p].base[g], pass[p].mine[g], View(p).row[g])
    BY DEF StatusInv, MemoryLoaded
  <2> QED
    BY <1>3, <2>1, <2>2 DEF Loaded
<1>4. CASE UNCHANGED <<db, lock, tx>>
  <2>1. \A p \in Passes : View(p)' = View(p)
    BY <1>4 DEF View, db
  <2> QED
    BY <1>3, <1>4, <2>1 DEF StatusInv, OneRow, TxKeeps, PollKeeps, db
<1>5. CASE lock \in {Free, q} /\ lock' = q /\ tx' = PollWrites(q, View(q)) /\ UNCHANGED db
  <2>1. \A p \in Passes : View(p)' = View(p)
    BY <1>2, <1>5 DEF View, db
  <2>2. \A g \in Games : StatusKept(row[g], View(q).row[g]) /\ StatusKept(View(q).row[g], row[g])
    BY <1>1, <1>5 DEF View, StatusInv, TxKeeps, PollKeeps, StatusKept
  <2>3. View(q).extra = {}
    BY <1>1, <1>5 DEF View, StatusInv, OneRow
  <2>4. \A g \in Games : StatusKept(row[g], tx'.row[g]) /\ StatusKept(tx'.row[g], row[g])
    BY <1>5, <2>2, PollWritesKeep DEF StatusKept
  <2>5. OneRow'
    <3>1. PollWrites(q, View(q)).extra = {}
      BY <2>3, ViewTyped DEF PollWrites, Tables
    <3> QED
      BY <1>5, <3>1 DEF StatusInv, OneRow, db
  <2> QED
    BY <1>3, <1>5, <2>1, <2>4, <2>5 DEF StatusInv, TxKeeps, PollKeeps, db
<1>6. CASE PollWrite(q)
  BY <1>4, <1>5, <1>6, PollWriteIs DEF db
<1>7. CASE PollCommit(q)
  <2>1. lock = q /\ row' = tx.row /\ extra' = tx.extra /\ lock' = Free
    BY <1>7 DEF PollCommit, Release
  <2>2. \A p \in Passes : View(p).row = row /\ View(p)'.row = tx.row
    BY <1>2, <2>1 DEF View
  <2>3. lock' \notin Pollers
    BY <2>1 DEF GameAssumption
  <2>4. \A g \in Games : Final(tx.row[g]) = Final(row[g]) /\ Present(tx.row[g]) = Present(row[g])
    BY <1>1, <2>1 DEF StatusInv, TxKeeps, PollKeeps, StatusKept, Final, Present
  <2>5. OneRow' /\ TxKeeps' /\ PollKeeps'
    BY <1>1, <2>1, <2>3 DEF StatusInv, OneRow, TxKeeps, PollKeeps
  <2> QED
    BY <1>3, <2>2, <2>4, <2>5 DEF StatusInv
<1>8. CASE PollAbort(q)
  <2>1. CASE lock = q /\ lock' = Free /\ UNCHANGED db
    <3>1. \A p \in Passes : View(p)' = View(p)
      BY <1>2, <2>1 DEF View, db
    <3>2. lock' \notin Pollers
      BY <2>1 DEF GameAssumption
    <3> QED
      BY <1>3, <2>1, <3>1, <3>2 DEF StatusInv, OneRow, TxKeeps, PollKeeps, db
  <2> QED
    BY <1>4, <1>8, <2>1 DEF PollAbort, Release, db
<1> QED
  BY <1>4, <1>6, <1>7, <1>8 DEF Poll, StartPoll, PollFetch

LEMMA StatusStep ==
    ASSUME Typed, GameAssumption, OnePass, StatusInv, [Next]_vars PROVE StatusInv'
<1>1. ASSUME UNCHANGED <<db, lock, tx, pass>> PROVE StatusInv'
  <2>1. \A p \in Passes : View(p)' = View(p)
    BY <1>1 DEF View, db
  <2> QED
    BY <1>1, <2>1 DEF StatusInv, OneRow, TxKeeps, PollKeeps, MemoryLoaded, db
<1> QED
  BY <1>1, StatusPass, StatusPoll DEF Next, vars, Play, Turn, db

LEMMA FinalStep ==
    ASSUME Typed, GameAssumption, StatusInv, [Next]_vars PROVE StillFinal
<1>1. ASSUME NEW p \in Passes, Commit(p) PROVE StillFinal
  <2>1. CASE row' = Flushed(p).row /\ lock \in {Free, p}
    <3>1. \A g \in Games : StatusKept(row[g], View(p).row[g])
      BY <2>1 DEF View, StatusInv, TxKeeps, StatusKept, GameAssumption
    <3> QED
      BY <2>1, <3>1, FlushKeeps DEF StillFinal, StatusKept, Final
  <2> QED
    BY <1>1, <2>1 DEF Commit, StillFinal, db
<1>2. ASSUME NEW q \in Pollers, PollCommit(q) PROVE StillFinal
  BY <1>2 DEF PollCommit, StillFinal, StatusInv, TxKeeps, StatusKept, Final, GameAssumption
<1>3. row' = row \/ (\E p \in Passes : Commit(p)) \/ (\E q \in Pollers : PollCommit(q))
  <2>1. ASSUME NEW g \in Games, Play(g) \/ Turn(g) PROVE row' = row
    BY <2>1 DEF Play, Turn, db
  <2>2. ASSUME NEW p \in Passes, Pass(p) PROVE row' = row \/ Commit(p)
    BY <2>2 DEF Pass, FetchAny, Fetch, Store, Reconcile, Abort, db
  <2>3. ASSUME NEW q \in Pollers, Poll(q) PROVE row' = row \/ PollCommit(q)
    BY <2>3 DEF Poll, StartPoll, PollFetch, PollWrite, PollAbort, db
  <2> QED
    BY <2>1, <2>2, <2>3 DEF Next, vars, db
<1> QED
  BY <1>1, <1>2, <1>3 DEF StillFinal

\* One results pass at a time, any number of live polls: a final row stays final,
\* though passes and polls write what they made of rows and scores they read before.
THEOREM FinalRowsStayFinal == ASSUME GameAssumption, OnePass PROVE Spec => FinalStays
<1>1. Init => Typed /\ StatusInv
  BY TypeInit, StatusInit
<1>2. Typed /\ StatusInv /\ [Next]_vars => (Typed /\ StatusInv)' /\ StillFinal
  BY TypeStep, StatusStep, FinalStep
<1> QED
  BY <1>1, <1>2, PTL DEF Spec, FinalStays

-----------------------------------------------------------------------------
(* Scores *)

Scored == RowSet \cup Events

LEMMA ScoredIs ==
    ASSUME GameAssumption, NEW r \in Scored PROVE r.home \in Nat /\ r.away \in Nat
  BY DEF Scored, RowSet, Events, Score, GameAssumption

LEMMA AtMostSteps ==
    ASSUME GameAssumption, NEW r \in Scored, NEW s \in Scored, NEW t \in Scored
    PROVE  /\ AtMost(r, s) /\ AtMost(s, t) => AtMost(r, t)
           /\ Points(r) = Points(s) => AtMost(r, s)
           /\ AtMost(r, s) /\ Points(s) = Points(t) => AtMost(r, t)
           /\ AtMost(s, t) /\ Points(r) = Points(s) => AtMost(r, t)
  BY ScoredIs DEF AtMost, Points

\* A final score that ESPN has not corrected is the one it shows.
LEMMA SurePoints ==
    ASSUME NEW g, FeedSaid(g), Sure(g), NEW r, Points(r) \in said[g]
    PROVE  Points(feed[g]) = Points(r)
  BY DEF FeedSaid, Sure

LEMMA FollowsUpdated ==
    ASSUME GameAssumption, NEW g, NEW f \in RowSet, NEW now \in RowSet, NEW base \in RowSet,
           NEW mine \in RowSet, feed[g] \in Events, FeedSaid(g),
           Loaded(base, mine, now), Updated(f, now, base, mine),
           Follows(g, base, mine, now), Fits(g, now)
    PROVE  Fits(g, f) /\ Follows(g, mine, mine, f) /\ (Final(f) \/ Points(f) = Points(now))
<1>1. Loaded(mine, mine, f)
  BY LoadedUpdated
<1>2. \A r \in Scored : r.home \in Nat /\ r.away \in Nat
  BY ScoredIs
<1>3. /\ f \in Scored /\ now \in Scored /\ base \in Scored /\ mine \in Scored /\ feed[g] \in Scored
  BY DEF Scored
<1>4. CASE ~Final(mine)
  <2>1. mine.home = base.home /\ mine.away = base.away
    BY <1>4 DEF Follows, Points
  <2>2. f.home = now.home /\ f.away = now.away
    BY <2>1 DEF Updated
  <2>3. ~Final(f)
    BY <1>1, <1>4 DEF Loaded
  <2> QED
    BY <1>4, <2>1, <2>2, <2>3 DEF Fits, Follows, AtMost, Points
<1>5. CASE Final(mine)
  <2>1. Final(f)
    BY <1>1, <1>5 DEF Loaded
  <2>2. ASSUME Sure(g) PROVE Points(f) = Points(mine) /\ Points(mine) \in said[g] /\ Points(feed[g]) = Points(mine)
    <3>1. Points(mine) \in said[g]
      BY <1>5, <2>2 DEF Follows
    <3>2. Points(feed[g]) = Points(mine)
      BY <2>2, <3>1, SurePoints
    <3>3. feed[g].home = mine.home /\ feed[g].away = mine.away
      BY <3>2 DEF Points
    <3>4. AtMost(base, now) /\ AtMost(now, feed[g])
      BY <2>2 DEF Follows, Fits
    <3>5. f.home = mine.home
      BY <1>2, <1>3, <3>3, <3>4 DEF Updated, AtMost
    <3>6. f.away = mine.away
      BY <1>2, <1>3, <3>3, <3>4 DEF Updated, AtMost
    <3> QED
      BY <3>1, <3>2, <3>5, <3>6 DEF Points
  <2>3. Sure(g) => AtMost(f, feed[g]) /\ AtMost(mine, f)
    BY <1>3, <2>2, AtMostSteps
  <2> QED
    BY <1>5, <2>1, <2>2, <2>3 DEF Fits, Follows
<1> QED
  BY <1>4, <1>5

LEMMA ViewFits ==
    ASSUME GameAssumption, ScoreInv, NEW p \in Passes \cup Pollers, NEW g \in Games
    PROVE  Fits(g, View(p).row[g])
  BY DEF View, ScoreInv, RowsFit, GameAssumption

\* After the flush every row has the score it should, and a loaded row's is the
\* pass's own; an open row's score the flush leaves as it was.
LEMMA ScoreFlush ==
    ASSUME Typed, GameAssumption, StatusInv, ScoreInv, NEW p \in Passes
    PROVE  /\ \A g \in Games :
                 /\ Fits(g, Flushed(p).row[g])
                 /\ Present(View(p).row[g]) =>
                       Final(Flushed(p).row[g]) \/ Points(Flushed(p).row[g]) = Points(View(p).row[g])
           /\ \A g \in DOMAIN pass[p].mine :
                 Follows(g, pass[p].mine[g], pass[p].mine[g], Flushed(p).row[g])
<1>1. ASSUME NEW g \in Games, g \notin DOMAIN pass[p].mine PROVE Flushed(p).row[g] = View(p).row[g]
  BY <1>1, FlushedRow
<1>2. ASSUME NEW g \in DOMAIN pass[p].mine
      PROVE  /\ Fits(g, Flushed(p).row[g])
             /\ Present(View(p).row[g]) =>
                   Final(Flushed(p).row[g]) \/ Points(Flushed(p).row[g]) = Points(View(p).row[g])
             /\ Follows(g, pass[p].mine[g], pass[p].mine[g], Flushed(p).row[g])
  <2>1. g \in Games /\ pass[p].mine[g] \in RowSet /\ pass[p].base[g] \in RowSet
    BY MemoryTyped
  <2>2. CASE g \in pass[p].inserts
    <3>1. /\ ~Present(View(p).row[g]) /\ Flushed(p).row[g] = pass[p].mine[g]
      BY <2>1, <2>2, FlushedRow DEF StatusInv, MemoryLoaded
    <3>2. Fits(g, pass[p].mine[g])
      BY <2>2 DEF ScoreInv, PassFollows
    <3>3. pass[p].mine[g] \in Scored
      BY <2>1 DEF Scored
    <3>4. AtMost(pass[p].mine[g], pass[p].mine[g])
      BY <3>3, AtMostSteps
    <3> QED
      BY <3>1, <3>2, <3>4 DEF Follows, Fits
  <2>3. CASE g \notin pass[p].inserts
    <3>1. /\ Loaded(pass[p].base[g], pass[p].mine[g], View(p).row[g])
          /\ Follows(g, pass[p].base[g], pass[p].mine[g], View(p).row[g])
      BY <2>3 DEF StatusInv, MemoryLoaded, ScoreInv, PassFollows
    <3>2. /\ Updated(Flushed(p).row[g], View(p).row[g], pass[p].base[g], pass[p].mine[g])
          /\ Flushed(p).row[g] \in RowSet /\ View(p).row[g] \in RowSet
      BY <2>1, <2>3, FlushedRow
    <3>3. feed[g] \in Events /\ FeedSaid(g)
      BY <2>1 DEF Typed, ScoreInv
    <3>4. Fits(g, View(p).row[g])
      BY <2>1, ViewFits
    <3> QED
      BY <2>1, <3>1, <3>2, <3>3, <3>4, FollowsUpdated
  <2> QED
    BY <2>2, <2>3
<1> QED
  BY <1>1, <1>2, ViewFits

-----------------------------------------------------------------------------
(* Every step keeps them *)

LEMMA ScoreInit == ASSUME GameAssumption, Init PROVE ScoreInv
<1>1. /\ \A p \in Passes : DOMAIN pass[p].mine = {} /\ DOMAIN pass[p].report = {}
      /\ \A q \in Pollers : DOMAIN poll[q].board = {} /\ poll[q].todo = {}
  BY EmptyOn DEF Init, Idle, NoPoll
<1>2. lock = Free /\ lock \notin Pollers
  BY DEF Init, GameAssumption
<1>3. \A g \in Games : FeedSaid(g) /\ Fits(g, row[g])
  BY DEF Init, FeedSaid, Fits, AtMost, Final, NoRow
<1> QED
  BY <1>1, <1>2, <1>3 DEF ScoreInv, RowsFit, PollRaises, PassFollows, PollAhead

\* ESPN's scores rise, and a correction makes them unsure.
EspnMoves(g) ==
    /\ said[g] \subseteq said'[g]
    /\ Sure(g)' => Sure(g) /\ AtMost(feed[g], feed'[g])

LEMMA EspnStep ==
    ASSUME GameAssumption, Typed, ScoreInv, NEW h \in Games, Play(h) \/ Turn(h)
    PROVE  \A g \in Games : EspnMoves(g) /\ FeedSaid(g)'
<1> SUFFICES ASSUME NEW g \in Games PROVE EspnMoves(g) /\ FeedSaid(g)'
  OBVIOUS
<1>1. /\ feed \in [Games -> Events] /\ said \in [Games -> SUBSET (Score \X Score)]
      /\ feed[g].home \in Nat /\ feed[g].away \in Nat
  BY ScoredIs DEF Typed, Scored
<1>2. FeedSaid(g)
  BY DEF ScoreInv
<1>3. ASSUME feed'[g] = feed[g], said'[g] = said[g] PROVE EspnMoves(g) /\ FeedSaid(g)'
  BY <1>1, <1>2, <1>3 DEF EspnMoves, Sure, AtMost, FeedSaid, Points
<1>4. ASSUME feed[g].phase # "final", feed'[g].phase # "final", said'[g] = said[g],
             AtMost(feed[g], feed'[g])
      PROVE  EspnMoves(g) /\ FeedSaid(g)'
  BY <1>2, <1>4 DEF EspnMoves, Sure, FeedSaid
<1>5. CASE h # g
  <2>1. feed'[g] = feed[g] /\ said'[g] = said[g]
    BY <1>1, <1>5 DEF Play, Turn
  <2> QED
    BY <1>3, <2>1
<1>6. CASE h = g /\ Play(g)
  <2>1. CASE feed' = [feed EXCEPT ![g].phase = "final"] /\ feed[g].phase = "in"
    <3>1. /\ feed'[g].phase = "final" /\ feed'[g].home = feed[g].home /\ feed'[g].away = feed[g].away
      BY <1>1, <2>1 DEF Events
    <3>2. said'[g] = said[g] \cup {Points(feed[g])} /\ said[g] = {}
      BY <1>1, <1>2, <1>6, <2>1, <3>1 DEF Play, Points, FeedSaid
    <3> QED
      BY <1>1, <3>1, <3>2 DEF EspnMoves, Sure, AtMost, FeedSaid, Points
  <2>2. CASE feed' = [feed EXCEPT ![g].phase = "in"] /\ feed[g].phase = "pre"
    <3>1. /\ feed'[g].phase = "in" /\ feed'[g].home = feed[g].home /\ feed'[g].away = feed[g].away
      BY <1>1, <2>2 DEF Events
    <3> QED
      BY <1>1, <1>4, <1>6, <2>2, <3>1 DEF Play, AtMost
  <2>3. CASE feed' = [feed EXCEPT ![g].home = @ + 1] /\ feed[g].phase = "in"
    <3>1. /\ feed'[g].phase = "in" /\ feed'[g].home = feed[g].home + 1 /\ feed'[g].away = feed[g].away
      BY <1>1, <2>3 DEF Events
    <3> QED
      BY <1>1, <1>4, <1>6, <2>3, <3>1 DEF Play, AtMost
  <2>4. CASE feed' = [feed EXCEPT ![g].away = @ + 1] /\ feed[g].phase = "in"
    <3>1. /\ feed'[g].phase = "in" /\ feed'[g].home = feed[g].home /\ feed'[g].away = feed[g].away + 1
      BY <1>1, <2>4 DEF Events
    <3> QED
      BY <1>1, <1>4, <1>6, <2>4, <3>1 DEF Play, AtMost
  <2> QED
    BY <1>6, <2>1, <2>2, <2>3, <2>4 DEF Play
<1>7. CASE h = g /\ Turn(g)
  <2>1. CASE UNCHANGED said /\ \E from, to \in {"pre", "postponed"} :
                feed[g].phase = from /\ feed' = [feed EXCEPT ![g].phase = to]
    <3>1. /\ feed[g].phase # "final" /\ feed'[g].phase # "final"
          /\ feed'[g].home = feed[g].home /\ feed'[g].away = feed[g].away
      BY <1>1, <2>1 DEF Events
    <3> QED
      BY <1>1, <1>4, <2>1, <3>1 DEF AtMost
  <2>2. CASE feed[g].phase = "final" /\ \E x, y \in Score :
                /\ feed' = [feed EXCEPT ![g].home = x, ![g].away = y]
                /\ said' = [said EXCEPT ![g] = @ \cup {<<x, y>>}]
    <3>1. PICK x, y \in Score : /\ feed' = [feed EXCEPT ![g].home = x, ![g].away = y]
                                /\ said' = [said EXCEPT ![g] = @ \cup {<<x, y>>}]
      BY <2>2
    <3>2. /\ feed'[g].phase = "final" /\ feed'[g].home = x /\ feed'[g].away = y
          /\ said'[g] = said[g] \cup {<<x, y>>} /\ Points(feed[g]) \in said[g]
      BY <1>1, <1>2, <2>2, <3>1 DEF Events, FeedSaid
    <3>3. Sure(g)' => Sure(g) /\ <<x, y>> = Points(feed[g])
      BY <3>2 DEF Sure
    <3>4. Sure(g)' => AtMost(feed[g], feed'[g])
      BY <1>1, <3>2, <3>3 DEF AtMost, Points
    <3> QED
      BY <3>2, <3>3, <3>4 DEF EspnMoves, FeedSaid, Points
  <2> QED
    BY <1>7, <2>1, <2>2 DEF Turn
<1> QED
  BY <1>5, <1>6, <1>7

LEMMA ScorePlay ==
    ASSUME GameAssumption, Typed, ScoreInv, NEW h \in Games, Play(h) \/ Turn(h)
    PROVE  ScoreInv'
<1>1. UNCHANGED <<row, extra, lock, tx, pass, poll>>
  BY DEF Play, Turn, db
<1>2. \A g \in Games : EspnMoves(g) /\ FeedSaid(g)'
  BY EspnStep
<1>3. Typed'
  BY TypePlay
<1>4. \A g \in Games : feed[g] \in Scored /\ feed'[g] \in Scored /\ row[g] \in Scored
  BY <1>3 DEF Typed, Scored
<1>5. ASSUME NEW g \in Games, NEW r \in Scored, Sure(g) => AtMost(r, feed[g])
      PROVE  Sure(g)' => AtMost(r, feed'[g])
  BY <1>2, <1>4, <1>5, AtMostSteps DEF EspnMoves
<1>6. \A g \in Games : Sure(g)' => Sure(g)
  BY <1>2 DEF EspnMoves
<1>7. \A g \in Games : said[g] \subseteq said'[g]
  BY <1>2 DEF EspnMoves
<1>8. ASSUME NEW g \in Games PROVE RowsFit(g)' /\ PollRaises(g)'
  <2>1. RowsFit(g) /\ PollRaises(g)
    BY DEF ScoreInv
  <2>2. PollRaises(g)'
    BY <1>1, <1>6, <2>1 DEF PollRaises
  <2>3. Fits(g, row[g])'
    BY <1>1, <1>4, <1>5, <1>6, <1>7, <2>1 DEF RowsFit, Fits
  <2>4. lock # Free => Fits(g, tx.row[g])'
    <3>1. lock # Free => tx.row[g] \in Scored
      BY DEF Typed, Tables, Scored
    <3> QED
      BY <1>1, <1>5, <1>6, <1>7, <2>1, <3>1 DEF RowsFit, Fits
  <2> QED
    BY <1>1, <2>2, <2>3, <2>4 DEF RowsFit
<1>9. ASSUME NEW p \in Passes PROVE PassFollows(p)'
  <2>1. PassFollows(p) /\ View(p)' = View(p)
    BY <1>1 DEF ScoreInv, View
  <2>2. ASSUME NEW g \in DOMAIN pass[p].report PROVE Past(g, pass[p].report[g])'
    <3>1. g \in Games /\ pass[p].report[g] \in Scored
      BY MemoryTyped DEF Scored
    <3> QED
      BY <1>1, <1>5, <1>6, <1>7, <2>1, <3>1 DEF PassFollows, Past
  <2>3. ASSUME NEW g \in DOMAIN pass[p].mine
        PROVE  IF g \in pass[p].inserts THEN Fits(g, pass[p].mine[g])'
               ELSE Follows(g, pass[p].base[g], pass[p].mine[g], View(p).row[g])'
    <3>1. g \in Games /\ pass[p].mine[g] \in Scored
      BY MemoryTyped DEF Scored
    <3>2. CASE g \in pass[p].inserts
      BY <1>1, <1>5, <1>6, <1>7, <2>1, <3>1, <3>2 DEF PassFollows, Fits
    <3>3. CASE g \notin pass[p].inserts
      BY <1>1, <1>6, <1>7, <2>1, <3>1, <3>3 DEF PassFollows, Follows
    <3> QED
      BY <3>2, <3>3
  <2> QED
    BY <1>1, <2>2, <2>3 DEF PassFollows
<1>10. ASSUME NEW q \in Pollers PROVE PollAhead(q)'
  <2>1. PollAhead(q)
    BY DEF ScoreInv
  <2>2. ASSUME NEW g \in DOMAIN poll[q].board
        PROVE  Past(g, poll[q].board[g])' /\ g \in Games
    <3>1. poll[q].board \in On(Events)
      BY DEF Typed, PollState
    <3>2. g \in Games /\ poll[q].board[g] \in Scored
      BY <3>1, OnIs DEF Scored
    <3> QED
      BY <1>1, <1>5, <1>6, <1>7, <2>1, <3>2 DEF PollAhead, Past
  <2>3. ASSUME NEW g \in DOMAIN poll[q].board, NEW r, Behind(g, r, poll[q].board[g])
        PROVE  Final(r) \/ (Sure(g)' => AtMost(r, poll[q].board[g]))
    BY <1>6, <2>2, <2>3 DEF Behind
  <2> QED
    BY <1>1, <2>1, <2>2, <2>3 DEF PollAhead, Behind
<1> QED
  BY <1>2, <1>8, <1>9, <1>10 DEF ScoreInv

\* What is true of ESPN and the boards stays true when only pass p moves.
LEMMA ScoreQuery ==
    ASSUME Typed, GameAssumption, StatusInv, ScoreInv, NEW p \in Passes, Query(p), UNCHANGED <<espn, db, poll>>
    PROVE  /\ \A g \in Games : FeedSaid(g)' /\ RowsFit(g)' /\ PollRaises(g)'
           /\ \A q \in Pollers : PollAhead(q)'
<1>1. \A g \in Games : FeedSaid(g)'
  BY DEF espn, ScoreInv, FeedSaid
<1>2. CASE UNCHANGED <<lock, tx>>
  BY <1>1, <1>2 DEF ScoreInv, RowsFit, PollRaises, PollAhead, Fits, Past, Behind, Sure, espn, db
<1>3. CASE lock \in {Free, p} /\ lock' = p /\ tx' = Flushed(p)
  <2>1. p \notin Pollers /\ p # Free
    BY DEF GameAssumption
  <2>2. \A g \in Games : Fits(g, Flushed(p).row[g]) /\ Fits(g, row[g])
    BY ScoreFlush DEF ScoreInv, RowsFit
  <2>3. \A g \in Games : RowsFit(g)' /\ PollRaises(g)'
    BY <1>3, <2>1, <2>2 DEF RowsFit, PollRaises, Fits, Sure, espn, db
  <2>4. ASSUME NEW q \in Pollers PROVE PollAhead(q)'
    <3>1. PollAhead(q)
      BY DEF ScoreInv
    <3>2. ASSUME NEW g \in DOMAIN poll[q].board PROVE Behind(g, Flushed(p).row[g], poll[q].board[g])
      <4>1. g \in Games
        BY OnIs DEF Typed, PollState
      <4>2. Present(View(p).row[g]) /\ Behind(g, View(p).row[g], poll[q].board[g])
        BY <1>3, <2>1, <3>1, <4>1 DEF View, PollAhead, StatusInv, TxKeeps, StatusKept
      <4>3. StatusKept(View(p).row[g], Flushed(p).row[g])
        BY <4>1, FlushKeeps
      <4>4. Final(Flushed(p).row[g]) \/ Points(Flushed(p).row[g]) = Points(View(p).row[g])
        BY <4>1, <4>2, ScoreFlush
      <4> QED
        BY <4>2, <4>3, <4>4 DEF Behind, StatusKept, AtMost, Points
    <3> QED
      BY <1>3, <3>1, <3>2 DEF PollAhead, Past, Behind, Sure, espn, db
  <2> QED
    BY <1>1, <2>3, <2>4
<1> QED
  BY <1>2, <1>3, QueryIs

LEMMA ScorePass ==
    ASSUME Typed, GameAssumption, OnePass, StatusInv, ScoreInv, NEW p \in Passes, Pass(p)
    PROVE  ScoreInv'
<1>1. \A q \in Passes : q = p
  BY DEF OnePass
<1>2. p # Free /\ p \notin Pollers
  BY DEF GameAssumption
<1>3. PassFollows(p)
  BY DEF ScoreInv
<1>4. ASSUME NEW m \in PassState, pass' = [pass EXCEPT ![p] = m], m.report = pass[p].report,
             Query(p), UNCHANGED <<espn, db, poll>>,
             \A g \in DOMAIN m.mine :
                 IF g \in m.inserts THEN Fits(g, m.mine[g])
                 ELSE Follows(g, m.base[g], m.mine[g], Found(p)[g])
      PROVE  ScoreInv'
  <2>1. pass'[p] = m /\ View(p)'.row = Found(p)
    BY <1>4, QueryIs DEF Typed, db
  <2>2. \A g \in DOMAIN m.report : Past(g, m.report[g])
    BY <1>3, <1>4 DEF PassFollows
  <2>3. PassFollows(p)'
    BY <1>4, <2>1, <2>2 DEF PassFollows, Past, Fits, Follows, Sure, espn
  <2> QED
    BY <1>1, <1>4, <2>3, ScoreQuery DEF ScoreInv
<1>5. ASSUME NEW g \in Games, Store(p, g) PROVE ScoreInv'
  <2>1. g \in pass[p].todo /\ Query(p) /\ UNCHANGED <<espn, db, poll>>
    BY <1>5, StoreIs
  <2>2. PICK m \in PassState : StoreMakes(p, g, m)
    BY <1>5, StoreIs
  <2>3. ASSUME NEW h \in DOMAIN m.mine, h # g
        PROVE  h \notin m.inserts /\ Follows(h, m.base[h], m.mine[h], Found(p)[h])
    <3>1. h \in DOMAIN pass[p].mine /\ m.mine[h] = pass[p].mine[h] /\ m.base[h] = pass[p].mine[h]
      BY <2>2, <2>3 DEF StoreMakes
    <3>2. h \notin m.inserts
      BY <2>2, <2>3 DEF StoreMakes
    <3> QED
      BY <3>1, <3>2, ScoreFlush, FoundIsFlushed
  <2> DEFINE event == pass[p].report[g]
             found == Found(p)[g]
  <2>4. event \in Events /\ Past(g, event)
    BY <1>3, <2>1, MemoryTyped DEF PassFollows
  <2>5. found \in RowSet /\ Fits(g, found)
    BY FoundTyped, ScoreFlush, FoundIsFlushed
  <2> HIDE DEF event, found
  <2>6. IF g \in m.inserts THEN Fits(g, m.mine[g]) ELSE Follows(g, m.base[g], m.mine[g], found)
    <3>1. CASE found.status # "absent"
      <4>1. g \notin m.inserts /\ m.base[g] = found /\ m.mine[g] = Stored(found, event)
        BY <2>2, <3>1 DEF StoreMakes, event, found
      <4>2. AtMost(found, found)
        BY <2>5, AtMostSteps DEF Scored
      <4> QED
        BY <2>4, <2>5, <4>1, <4>2 DEF Follows, Fits, Stored, Past, Final, Points, RowSet, Events
    <3>2. CASE found.status = "absent"
      <4>1. g \in m.inserts /\ MadeFrom(m.mine[g], event)
        BY <2>2, <3>2 DEF StoreMakes, event, found
      <4>2. Final(m.mine[g]) => event.phase = "final"
        BY <2>4, <4>1 DEF MadeFrom, StatusOf, Final, Events
      <4> QED
        BY <2>4, <4>1, <4>2 DEF MadeFrom, Fits, Past, AtMost, Points
    <3> QED
      BY <3>1, <3>2
  <2> QED
    BY <1>4, <2>1, <2>2, <2>3, <2>6 DEF StoreMakes, found
<1>6. CASE Reconcile(p)
  <2>1. Query(p) /\ UNCHANGED <<espn, db, poll>>
    BY <1>6, ReconcileIs
  <2>2. PICK m \in PassState : ReconcileMakes(p, m)
    BY <1>6, ReconcileIs
  <2>3. ASSUME NEW g \in DOMAIN m.mine
        PROVE  g \notin m.inserts /\ Follows(g, m.base[g], m.mine[g], Found(p)[g])
    <3>1. /\ g \notin m.inserts /\ m.mine[g] = Reconciled(m.base[g], g \in DOMAIN m.report)
          /\ IF g \in DOMAIN pass[p].mine THEN m.base[g] = pass[p].mine[g]
             ELSE m.base[g] = Found(p)[g] /\ Found(p)[g].status # "absent"
      BY <2>2, <2>3 DEF ReconcileMakes
    <3>2. m.base[g] \in RowSet /\ g \in Games
      BY <2>2, <2>3, OnIs DEF PassState, ReconcileMakes
    <3>3. Follows(g, m.base[g], m.base[g], Found(p)[g])
      <4>1. CASE g \in DOMAIN pass[p].mine
        BY <3>1, <4>1, ScoreFlush, FoundIsFlushed
      <4>2. CASE g \notin DOMAIN pass[p].mine
        <5>1. m.base[g] = Found(p)[g] /\ Fits(g, Found(p)[g])
          BY <3>1, <3>2, <4>2, ScoreFlush, FoundIsFlushed
        <5>2. AtMost(m.base[g], m.base[g])
          BY <3>2, AtMostSteps DEF Scored
        <5> QED
          BY <5>1, <5>2 DEF Follows, Fits
      <4> QED
        BY <4>1, <4>2
    <3>4. Points(m.mine[g]) = Points(m.base[g]) /\ (Final(m.mine[g]) = Final(m.base[g]))
      BY <3>1, <3>2 DEF Reconciled, Final, Points, RowSet
    <3> QED
      BY <3>1, <3>3, <3>4 DEF Follows
  <2> QED
    BY <1>4, <2>1, <2>2, <2>3 DEF ReconcileMakes
<1>7. ASSUME pass'[p].mine = <<>>, \A g \in DOMAIN pass'[p].report : Past(g, pass[p].report[g])',
             \A g \in Games : FeedSaid(g)' /\ RowsFit(g)' /\ PollRaises(g)', \A q \in Pollers : PollAhead(q)'
      PROVE  ScoreInv'
  BY <1>1, <1>7, EmptyOn DEF ScoreInv, PassFollows
<1>8. ASSUME UNCHANGED <<espn, db, lock, tx, poll>>
      PROVE  /\ \A g \in Games : FeedSaid(g)' /\ RowsFit(g)' /\ PollRaises(g)'
             /\ \A q \in Pollers : PollAhead(q)'
  BY <1>8 DEF ScoreInv, FeedSaid, RowsFit, PollRaises, PollAhead, Fits, Past, Behind, Sure, espn, db
<1>9. CASE FetchAny(p)
  <2>1. PICK listed \in SUBSET Games :
          pass'[p].mine = <<>> /\ pass'[p].report = [g \in listed |-> feed[g]]
    BY <1>9 DEF FetchAny, Fetch, Idle, Typed
  <2>2. UNCHANGED <<espn, db, lock, tx, poll>>
    BY <1>9 DEF FetchAny, Fetch
  <2>3. ASSUME NEW g \in listed PROVE Past(g, feed[g])
    <3>1. FeedSaid(g) /\ feed[g] \in Scored
      BY DEF ScoreInv, Typed, Scored
    <3> QED
      BY <3>1, AtMostSteps DEF Past, FeedSaid
  <2>4. \A g \in DOMAIN pass'[p].report : Past(g, pass[p].report[g])'
    BY <2>1, <2>2, <2>3 DEF Past, Sure, espn
  <2> QED
    BY <1>7, <1>8, <2>1, <2>2, <2>4
<1>10. ASSUME pass' = [pass EXCEPT ![p] = Idle]
       PROVE  pass'[p].mine = <<>> /\ DOMAIN pass'[p].report = {}
  BY <1>10, EmptyOn DEF Idle, Typed
<1>11. CASE Commit(p)
  <2>1. pass' = [pass EXCEPT ![p] = Idle] /\ UNCHANGED <<espn, poll>>
    BY <1>11 DEF Commit
  <2>2. CASE UNCHANGED <<db, lock, tx>>
    BY <1>7, <1>8, <1>10, <2>1, <2>2
  <2>3. CASE lock \in {Free, p} /\ row' = Flushed(p).row /\ lock' = Free
    <3>1. \A g \in Games : FeedSaid(g)' /\ RowsFit(g)' /\ PollRaises(g)'
      <4>1. Free \notin Pollers
        BY DEF GameAssumption
      <4> QED
        BY <2>1, <2>3, <4>1, ScoreFlush DEF ScoreInv, FeedSaid, RowsFit, PollRaises, Fits, Sure, espn
    <3>2. ASSUME NEW q \in Pollers PROVE PollAhead(q)'
      <4>1. PollAhead(q)
        BY DEF ScoreInv
      <4>2. ASSUME NEW g \in Games, Present(row[g])
            PROVE  Present(View(p).row[g]) /\ Present(Flushed(p).row[g])
        BY <1>2, <2>3, <4>2, FlushKeeps DEF View, StatusInv, TxKeeps, StatusKept
      <4>3. ASSUME NEW g \in DOMAIN poll[q].board
            PROVE  Present(Flushed(p).row[g]) /\ Behind(g, Flushed(p).row[g], poll[q].board[g])
        <5>1. g \in Games
          BY OnIs DEF Typed, PollState
        <5>2. Present(View(p).row[g]) /\ Behind(g, View(p).row[g], poll[q].board[g])
          BY <1>2, <2>3, <4>1, <4>2, <5>1 DEF View, PollAhead
        <5>3. Final(Flushed(p).row[g]) \/ Points(Flushed(p).row[g]) = Points(View(p).row[g])
          BY <5>1, <5>2, ScoreFlush
        <5>4. StatusKept(View(p).row[g], Flushed(p).row[g])
          BY <5>1, FlushKeeps
        <5> QED
          BY <5>2, <5>3, <5>4 DEF Behind, StatusKept, AtMost, Points
      <4>4. poll[q].todo \subseteq Games
        BY DEF Typed, PollState
      <4> QED
        BY <2>1, <2>3, <4>1, <4>2, <4>3, <4>4 DEF PollAhead, Past, Behind, Sure, espn
    <3> QED
      BY <1>7, <1>10, <2>1, <3>1, <3>2
  <2> QED
    BY <1>11, <2>2, <2>3 DEF Commit, Release
<1>12. CASE Abort(p)
  <2>1. pass' = [pass EXCEPT ![p] = Idle] /\ UNCHANGED <<espn, db, poll>>
    BY <1>12 DEF Abort
  <2>2. CASE UNCHANGED <<lock, tx>>
    BY <1>7, <1>8, <1>10, <2>1, <2>2
  <2>3. CASE lock' = Free
    <3>1. Free \notin Pollers
      BY DEF GameAssumption
    <3>2. \A g \in Games : FeedSaid(g)' /\ RowsFit(g)' /\ PollRaises(g)'
      BY <2>1, <2>3, <3>1 DEF ScoreInv, FeedSaid, RowsFit, PollRaises, Fits, Sure, espn, db
    <3>3. \A q \in Pollers : PollAhead(q)'
      BY <2>1, <2>3 DEF ScoreInv, PollAhead, Past, Behind, Sure, espn, db
    <3> QED
      BY <1>7, <1>10, <2>1, <3>2, <3>3
  <2> QED
    BY <1>12, <2>2, <2>3 DEF Abort, Release
<1> QED
  BY <1>5, <1>6, <1>9, <1>11, <1>12 DEF Pass

LEMMA ScorePoll ==
    ASSUME Typed, GameAssumption, OnePoll, StatusInv, ScoreInv, NEW q \in Pollers, Poll(q)
    PROVE  ScoreInv'
<1>1. /\ q # Free /\ q \notin Passes /\ \A o \in Pollers : o = q
      /\ \A p \in Passes : p # q /\ p # Free
  BY DEF GameAssumption, OnePoll
<1>2. UNCHANGED <<espn, pass>>
  BY DEF Poll, StartPoll, PollFetch, PollWrite, PollCommit, PollAbort
<1>3. PollAhead(q) /\ \A g \in Games : FeedSaid(g)'
  BY <1>2 DEF ScoreInv, FeedSaid, espn
<1>4. \A g \in DOMAIN poll[q].board : g \in Games /\ poll[q].board[g] \in Events
  BY OnIs DEF Typed, PollState
<1>5. ASSUME \A p \in Passes : View(p)' = View(p) PROVE \A p \in Passes : PassFollows(p)'
  BY <1>2, <1>5 DEF ScoreInv, PassFollows, Past, Fits, Follows, Sure, espn
<1>6. ASSUME UNCHANGED <<db, lock, tx>>, PollAhead(q)' PROVE ScoreInv'
  <2>1. \A p \in Passes : View(p)' = View(p)
    BY <1>6 DEF View, db
  <2>2. \A g \in Games : RowsFit(g)' /\ PollRaises(g)'
    BY <1>2, <1>6 DEF ScoreInv, RowsFit, PollRaises, Fits, Sure, espn, db
  <2> QED
    BY <1>1, <1>3, <1>5, <1>6, <2>1, <2>2 DEF ScoreInv
<1>7. CASE StartPoll(q)
  <2>1. UNCHANGED <<db, lock, tx>> /\ poll'[q] = [poll[q] EXCEPT !.todo = Candidates]
    BY <1>7 DEF StartPoll, Typed
  <2>2. poll'[q].board = poll[q].board /\ poll'[q].todo = Candidates
    BY <2>1 DEF Typed, PollState
  <2>3. \A g \in Candidates : Present(row[g])
    BY DEF Candidates, Present
  <2>4. PollAhead(q)'
    BY <1>2, <1>3, <2>1, <2>2, <2>3 DEF PollAhead, Past, Behind, Sure, espn, db
  <2> QED
    BY <1>6, <2>1, <2>4
<1>8. ASSUME NEW b, PollFetch(q, b) PROVE ScoreInv'
  <2> DEFINE games == {g \in poll[q].todo : BoardOf[g] = b}
             board == [g \in games |-> feed[g]]
  <2>1. games \subseteq Games /\ games \subseteq poll[q].todo
    BY DEF Typed, PollState
  <2>2. UNCHANGED <<db, lock, tx>> /\ poll'[q] = [todo |-> poll[q].todo \ games, board |-> board]
    BY <1>8 DEF PollFetch, Typed
  <2>3. ASSUME NEW g \in games
        PROVE  /\ Present(row[g]) /\ Past(g, feed[g]) /\ Behind(g, row[g], feed[g])
               /\ lock # Free => Behind(g, tx.row[g], feed[g])
    <3>1. FeedSaid(g) /\ RowsFit(g) /\ feed[g] \in Scored /\ Present(row[g])
      BY <1>3, <2>1 DEF ScoreInv, Typed, Scored, PollAhead
    <3>2. AtMost(feed[g], feed[g])
      BY <3>1, AtMostSteps
    <3> QED
      BY <3>1, <3>2 DEF FeedSaid, RowsFit, Past, Behind, Fits
  <2>4. PollAhead(q)'
    <3>1. /\ DOMAIN poll'[q].board = games /\ \A g \in games : poll'[q].board[g] = feed[g]
          /\ poll'[q].todo \subseteq poll[q].todo
      BY <2>2
    <3> HIDE DEF games
    <3> QED
      BY <1>2, <1>3, <2>2, <2>3, <3>1 DEF PollAhead, Past, Behind, Sure, espn, db
  <2> QED
    BY <1>6, <2>2, <2>4
<1>9. CASE PollWrite(q)
  <2>1. UNCHANGED db /\ poll'[q] = [poll[q] EXCEPT !.board = <<>>]
    BY <1>9, PollWriteIs DEF Typed
  <2>2. poll'[q].todo = poll[q].todo /\ DOMAIN poll'[q].board = {}
    BY <2>1, EmptyOn DEF Typed, PollState
  <2>3. PollAhead(q)'
    BY <1>3, <2>1, <2>2 DEF PollAhead, db
  <2>4. CASE UNCHANGED <<lock, tx>>
    BY <1>6, <2>1, <2>3, <2>4
  <2>5. CASE lock \in {Free, q} /\ lock' = q /\ tx' = PollWrites(q, View(q))
    <3>1. \A p \in Passes : View(p)' = View(p)
      BY <1>1, <2>1, <2>5 DEF View, db
    <3>2. ASSUME NEW g \in Games
          PROVE  /\ Fits(g, tx'.row[g])
                 /\ Final(row[g]) => tx'.row[g] = row[g]
                 /\ Sure(g) => AtMost(row[g], tx'.row[g])
      <4> DEFINE r == View(q).row[g]
                 event == poll[q].board[g]
      <4>1. Fits(g, r)
        BY ViewFits
      <4>2. /\ Final(row[g]) => r = row[g] /\ Final(r)
            /\ Sure(g) => AtMost(row[g], r)
        <5>1. CASE lock = Free
          <6>1. r = row[g] /\ row[g] \in Scored
            BY <1>1, <5>1 DEF View, Typed, Scored
          <6> QED
            BY <6>1, AtMostSteps
        <5>2. CASE lock = q
          BY <5>2 DEF View, ScoreInv, PollRaises
        <5> QED
          BY <2>5, <5>1, <5>2
      <4>3. r \in RowSet /\ row[g] \in Scored /\ feed[g] \in Scored
        BY ViewTyped DEF Tables, Typed, Scored
      <4> HIDE DEF r
      <4>4. CASE tx'.row[g] = r
        BY <4>1, <4>2, <4>4
      <4>5. CASE g \in DOMAIN poll[q].board /\ tx'.row[g] = LiveRow(r, event) /\ tx'.row[g] # r
        <5>1. event \in Events /\ Past(g, event)
          BY <1>3, <1>4, <4>5 DEF PollAhead
        <5>2. Behind(g, r, event)
          BY <1>1, <1>3, <2>5, <4>5 DEF PollAhead, View, r
        <5>3. ~Final(r)
          BY <4>5, LiveRowKeeps
        <5> HIDE DEF event
        <5>4. tx'.row[g].home = event.home /\ tx'.row[g].away = event.away /\ ~Final(tx'.row[g])
          BY <4>5 DEF LiveRow, Final
        <5>5. Sure(g) => AtMost(row[g], event)
          BY <4>2, <4>3, <5>1, <5>2, <5>3, AtMostSteps DEF Behind, Scored
        <5> QED
          BY <4>2, <5>1, <5>3, <5>4, <5>5 DEF Fits, Past, AtMost
      <4> QED
        BY <2>5, <4>4, <4>5, PollWritesKeep DEF r
    <3>3. \A g \in Games : RowsFit(g)' /\ PollRaises(g)'
      BY <1>2, <2>1, <2>5, <3>2 DEF ScoreInv, RowsFit, PollRaises, Fits, Sure, espn, db
    <3> QED
      BY <1>1, <1>3, <1>5, <2>3, <3>1, <3>3 DEF ScoreInv
  <2> QED
    BY <1>9, <2>4, <2>5, PollWriteIs
<1>10. ASSUME lock' = Free, lock = q, poll'[q] = NoPoll \/ poll'[q] = poll[q], UNCHANGED db
       PROVE  ScoreInv'
  <2>1. \A p \in Passes : View(p)' = View(p)
    BY <1>1, <1>10 DEF View, db
  <2>2. Free \notin Pollers
    BY DEF GameAssumption
  <2>3. \A g \in Games : RowsFit(g)' /\ PollRaises(g)'
    BY <1>2, <1>10, <2>2 DEF ScoreInv, RowsFit, PollRaises, Fits, Sure, espn, db
  <2>4. PollAhead(q)'
    BY <1>2, <1>3, <1>10, EmptyOn DEF NoPoll, PollAhead, Past, Behind, Sure, espn, db
  <2> QED
    BY <1>1, <1>3, <1>5, <2>1, <2>3, <2>4 DEF ScoreInv
<1>11. CASE PollAbort(q)
  <2>1. poll'[q] = NoPoll /\ UNCHANGED db
    BY <1>11 DEF PollAbort, Typed
  <2>2. PollAhead(q)'
    BY <2>1, EmptyOn DEF NoPoll, PollAhead
  <2> QED
    BY <1>6, <1>10, <1>11, <2>1, <2>2 DEF PollAbort, Release
<1>12. CASE PollCommit(q)
  <2>1. lock = q /\ poll'[q] = NoPoll /\ row' = tx.row /\ extra' = tx.extra /\ lock' = Free
    BY <1>12 DEF PollCommit, Release
  <2>2. \A p \in Passes : View(p).row = row /\ View(p)'.row = tx.row
    BY <1>1, <2>1 DEF View
  <2>3. \A g \in Games : RowsFit(g)' /\ PollRaises(g)'
    <3>1. Free \notin Pollers
      BY DEF GameAssumption
    <3> QED
      BY <1>1, <1>2, <2>1, <3>1 DEF ScoreInv, RowsFit, PollRaises, Fits, Sure, espn
  <2>4. PollAhead(q)'
    BY <2>1, EmptyOn DEF NoPoll, PollAhead
  <2>5. ASSUME NEW p \in Passes PROVE PassFollows(p)'
    <3>1. PassFollows(p)
      BY DEF ScoreInv
    <3>2. ASSUME NEW g \in DOMAIN pass[p].mine, g \notin pass[p].inserts
          PROVE  Follows(g, pass[p].base[g], pass[p].mine[g], tx.row[g])
      <4>1. Follows(g, pass[p].base[g], pass[p].mine[g], row[g]) /\ Loaded(pass[p].base[g], pass[p].mine[g], row[g])
        BY <2>2, <3>1, <3>2 DEF PassFollows, StatusInv, MemoryLoaded
      <4>2. g \in Games /\ pass[p].base[g] \in Scored /\ row[g] \in Scored /\ tx.row[g] \in Scored
        BY <1>1, <2>1, MemoryTyped DEF Scored, Typed, Tables
      <4>3. PollRaises(g) /\ lock \in Pollers
        BY <2>1, <4>2 DEF ScoreInv
      <4> QED
        BY <4>1, <4>2, <4>3, AtMostSteps DEF PollRaises, Follows, Loaded
    <3> QED
      BY <1>2, <2>2, <3>1, <3>2 DEF PassFollows, Past, Fits, Follows, Sure, espn
  <2> QED
    BY <1>1, <1>3, <2>3, <2>4, <2>5 DEF ScoreInv
<1> QED
  BY <1>7, <1>8, <1>9, <1>11, <1>12 DEF Poll

LEMMA ScoreStep ==
    ASSUME Typed, GameAssumption, OnePass, OnePoll, StatusInv, ScoreInv, [Next]_vars PROVE ScoreInv'
<1>1. CASE UNCHANGED vars
  <2>1. \A p \in Passes : View(p)' = View(p)
    BY <1>1 DEF View, vars
  <2> QED
    BY <1>1, <2>1 DEF vars, ScoreInv, FeedSaid, RowsFit, PollRaises, PassFollows, PollAhead, Fits, Past,
                      Behind, Follows, Sure
<1> QED
  BY <1>1, ScorePlay, ScorePass, ScorePoll DEF Next

LEMMA Corrected ==
    ASSUME Typed, GameAssumption, NEW g \in Games, ~Sure(g) PROVE Cardinality(said[g]) > 1
<1>1. PICK x, y \in said[g] : x # y
  BY DEF Sure
<1>2. IsFiniteSet(said[g])
  <2>1. IsFiniteSet(Score)
    BY FS_Interval DEF Score, GameAssumption
  <2>2. IsFiniteSet(Score \X Score)
    BY <2>1, FS_Product
  <2> QED
    BY <2>2, FS_Subset DEF Typed
<1>3. Cardinality({x, y}) = 2
  <2>1. IsFiniteSet({x}) /\ Cardinality({x}) = 1
    BY FS_Singleton
  <2>2. Cardinality({x} \cup {y}) = 2
    <3> DEFINE X == {x}
    <3>1. y \notin X /\ IsFiniteSet(X) /\ Cardinality(X) = 1
      BY <1>1, <2>1
    <3> HIDE DEF X
    <3>2. Cardinality(X \cup {y}) = Cardinality(X) + 1
      BY <3>1, FS_AddElement
    <3> QED
      BY <3>1, <3>2 DEF X
  <2>3. {x} \cup {y} = {x, y}
    OBVIOUS
  <2> QED
    BY <2>2, <2>3
<1>4. Cardinality({x, y}) <= Cardinality(said[g])
  BY <1>2, FS_Subset
<1>5. Cardinality(said[g]) \in Nat
  BY <1>2, FS_CardinalityType
<1> QED
  BY <1>3, <1>4, <1>5

\* One results pass at a time beside one live poll: the score of a final row is the
\* one ESPN gave as final, until ESPN corrects it; and every event has one row.
THEOREM FinalScores ==
    ASSUME GameAssumption, OnePass, OnePoll PROVE Spec => []ScoreAsReported
<1>1. Init => Typed /\ StatusInv /\ ScoreInv
  BY TypeInit, StatusInit, ScoreInit
<1>2. Typed /\ StatusInv /\ ScoreInv /\ [Next]_vars => (Typed /\ StatusInv /\ ScoreInv)'
  BY TypeStep, StatusStep, ScoreStep
<1>3. Typed /\ StatusInv /\ ScoreInv => ScoreAsReported
  BY Corrected DEF ScoreAsReported, StatusInv, OneRow, ScoreInv, RowsFit, Fits, Final, Points
<1> QED
  BY <1>1, <1>2, <1>3, PTL DEF Spec

-----------------------------------------------------------------------------
(* The result of a bout is its winner's whoever writes it, and the ratings   *)
(* of the fighters are made of each rated row once.                          *)
CONSTANTS Red, Blue, FightDay, LastDay, MAX_DAYS_FROM, ADJACENT_DAYS, LOOKBACK_DAYS, MaxRows, None
VARIABLES today, truth, card, bouts, made, scout, rated, history, raced
Bouts == INSTANCE CombatBouts WITH a <- Red, b <- Blue

Fighters == {Red, Blue}
Scores == [home : {0, 1}, away : {0, 1}]
BoutRow == [day : Int, home : Fighters, status : {"scheduled", "final", "canceled"}, score : Scores \cup {None},
            pick : {"none", "open", "graded", "void"}, feed : BOOLEAN, priced : BOOLEAN]

\* A row that has a score has the true one, in its own corner order.
True(held) == Bouts!Scored(held) => held.score = Bouts!WithDraws(held, truth)

\* A row whose result a rating may be made of.
Decisive(held) == held.status = "final" /\ Bouts!Scored(held)

BoutsTyped ==
    /\ truth \in Fighters \cup {"draw"} /\ made \in Nat
    /\ Bouts!Ids \in SUBSET (1 .. made) /\ bouts \in [Bouts!Ids -> BoutRow]
    /\ \A i \in Bouts!Ids : True(bouts[i])
    /\ scout \in [pc : {"idle", "scores", "list", "rate"}, unrated : SUBSET (1 .. made)]
    /\ history \in SUBSET (1 .. made) /\ raced \in BOOLEAN

\* What the scout has listed is still to be rated when it rates it: what was rated since was
\* rated by a script, and then raced says so.
Listed ==
    scout.pc = "rate" => /\ \A i \in scout.unrated \cap Bouts!Ids : Decisive(bouts[i])
                         /\ ~raced => scout.unrated \cap history = {}

\* The ratings are made of the rows in history, each once, with the true result.
Rated ==
    /\ rated \in Seq([id : Nat, result : Fighters \cup {"draw"}])
    /\ {rated[n].id : n \in DOMAIN rated} = history
    /\ Cardinality(history) = Len(rated)
    /\ \A n \in DOMAIN rated : rated[n].result = truth
    /\ \A i \in history : i \in Bouts!Ids /\ Decisive(bouts[i])

BoutsInv == BoutsTyped /\ Listed /\ (raced \/ Rated)

LEMMA BoutsCount == \A S : Bouts!Cardinality(S) = Cardinality(S)
  BY DEF Bouts!Cardinality, Cardinality

\* A true score names the winner.
LEMMA TrueNames ==
    ASSUME Bouts!BoutsAssumption, truth \in Fighters \cup {"draw"}, NEW held \in BoutRow, True(held), Bouts!Scored(held)
    PROVE  Bouts!actual_score(held) = truth
<1>1. held.score = Bouts!WithDraws(held, truth) /\ held.home \in Fighters /\ held.score # None
  BY DEF True, BoutRow, Bouts!Scored
<1>2. Red # Blue /\ truth # None /\ Red # None /\ Blue # None /\ Red # "draw" /\ Blue # "draw"
  BY DEF Bouts!BoutsAssumption, Fighters
<1>3. CASE truth = "draw"
  <2>1. held.score.home = 1 /\ held.score.away = 1
    BY <1>1, <1>3 DEF Bouts!WithDraws
  <2>2. Bouts!_winner(held) = None
    BY <2>1 DEF Bouts!_winner
  <2> QED
    BY <1>3, <2>2 DEF Bouts!actual_score
<1>4. CASE truth # "draw" /\ truth = held.home
  <2>1. held.score.home = 1 /\ held.score.away = 0
    BY <1>1, <1>4 DEF Bouts!WithDraws, Bouts!Binary
  <2>2. Bouts!_winner(held) = held.home
    BY <1>1, <2>1 DEF Bouts!_winner, Bouts!Scored
  <2> QED
    BY <1>2, <1>4, <2>2 DEF Bouts!actual_score
<1>5. CASE truth # "draw" /\ truth # held.home
  <2>1. held.score.home = 0 /\ held.score.away = 1
    BY <1>1, <1>5 DEF Bouts!WithDraws, Bouts!Binary
  <2>2. Bouts!_winner(held) = Bouts!Away(held)
    BY <1>1, <2>1 DEF Bouts!_winner, Bouts!Scored
  <2>3. Bouts!Away(held) = truth
    BY <1>1, <1>2, <1>5 DEF Bouts!Away, Bouts!Other, Fighters
  <2> QED
    BY <1>2, <2>2, <2>3 DEF Bouts!actual_score
<1> QED
  BY <1>3, <1>4, <1>5

\* An order without ties.
Ranks(R, S) ==
    /\ \A i \in S : <<i, i>> \notin R
    /\ \A i, j \in S : i # j => <<i, j>> \in R \/ <<j, i>> \in R
    /\ \A i, j, k \in S : <<i, j>> \in R /\ <<j, k>> \in R => <<i, k>> \in R
Before(i, R, S) == {j \in S : <<j, i>> \in R}

\* Each member of S once, and the true result of each once.
Enumerates(order, S) ==
    /\ order \in [1 .. Cardinality(S) -> S] /\ Cardinality(S) \in Nat
    /\ {order[n] : n \in 1 .. Cardinality(S)} = S
Rates(list, S) ==
    /\ list \in Seq([id : Nat, result : Fighters \cup {"draw"}])
    /\ Len(list) = Cardinality(S)
    /\ {list[n].id : n \in DOMAIN list} = S
    /\ \A n \in DOMAIN list : list[n].result = truth

\* In such an order of finitely many ids there is one with any number before it.
LEMMA RankTaken ==
    ASSUME NEW S, IsFiniteSet(S), NEW R, Ranks(R, S)
    PROVE  /\ Cardinality(S) \in Nat
           /\ \A n \in 1 .. Cardinality(S) : \E i \in S : Cardinality(Before(i, R, S)) = n - 1
           /\ \A i \in S : Cardinality(Before(i, R, S)) \in 0 .. Cardinality(S) - 1
           /\ \A i, j \in S : i # j => Cardinality(Before(i, R, S)) # Cardinality(Before(j, R, S))
<1> DEFINE rank == [i \in S |-> Cardinality(Before(i, R, S)) + 1]
           N == Cardinality(S)
<1>1. N \in Nat
  BY FS_CardinalityType
<1>2. ASSUME NEW i \in S PROVE Cardinality(Before(i, R, S)) \in Nat /\ Cardinality(Before(i, R, S)) < N
  <2>1. Before(i, R, S) \in SUBSET S /\ Before(i, R, S) # S
    BY DEF Ranks, Before
  <2>2. /\ IsFiniteSet(Before(i, R, S)) /\ Cardinality(Before(i, R, S)) <= N
        /\ Cardinality(Before(i, R, S)) # N
    BY <2>1, FS_Subset
  <2>3. Cardinality(Before(i, R, S)) \in Nat
    BY <2>2, FS_CardinalityType
  <2> QED
    BY <1>1, <2>2, <2>3
<1>3. ASSUME NEW i \in S, NEW j \in S, <<i, j>> \in R PROVE Cardinality(Before(i, R, S)) # Cardinality(Before(j, R, S))
  <2>1. Before(i, R, S) \in SUBSET Before(j, R, S) /\ i \in Before(j, R, S) /\ i \notin Before(i, R, S) /\ Before(j, R, S) \in SUBSET S
    BY <1>3 DEF Ranks, Before
  <2>2. IsFiniteSet(Before(j, R, S))
    BY <2>1, FS_Subset
  <2> QED
    BY <2>1, <2>2, FS_Subset
<1>4. rank \in [S -> 1 .. N]
  BY <1>1, <1>2
<1>5. \A i, j \in S : i # j => rank[i] # rank[j]
  <2> SUFFICES ASSUME NEW i \in S, NEW j \in S, i # j PROVE rank[i] # rank[j]
    OBVIOUS
  <2>1. Cardinality(Before(i, R, S)) # Cardinality(Before(j, R, S))
    <3>1. <<i, j>> \in R \/ <<j, i>> \in R
      BY DEF Ranks
    <3>2. CASE <<i, j>> \in R
      BY <1>3, <3>2
    <3>3. CASE <<j, i>> \in R
      BY <1>3, <3>3
    <3> QED
      BY <3>1, <3>2, <3>3
  <2>2. Cardinality(Before(i, R, S)) \in Nat /\ Cardinality(Before(j, R, S)) \in Nat
    BY <1>2
  <2> QED
    BY <2>1, <2>2
<1>6. rank \in Surjection(S, 1 .. N)
  <2>1. rank \in Injection(S, 1 .. N)
    BY <1>4, <1>5 DEF Injection, IsInjective
  <2>2. IsFiniteSet(1 .. N) /\ Cardinality(1 .. N) = N
    BY <1>1, FS_Interval
  <2> QED
    BY <2>1, <2>2, FS_Injection
<1>7. \A i \in S : rank[i] = Cardinality(Before(i, R, S)) + 1 /\ Cardinality(Before(i, R, S)) \in Nat
  BY <1>2
<1> HIDE DEF rank
<1>8. ASSUME NEW n \in 1 .. N PROVE \E i \in S : Cardinality(Before(i, R, S)) = n - 1
  <2>1. PICK i \in S : rank[i] = n
    BY <1>6 DEF Surjection
  <2>2. Cardinality(Before(i, R, S)) = n - 1
    BY <1>7, <2>1
  <2> QED
    BY <2>2
<1>9. \A i, j \in S : i # j => Cardinality(Before(i, R, S)) # Cardinality(Before(j, R, S))
  <2> QED
    BY <1>5, <1>7
<1>10. \A i \in S : Cardinality(Before(i, R, S)) \in 0 .. N - 1
  <2> QED
    BY <1>1, <1>2
<1> QED
  BY <1>1, <1>8, <1>9, <1>10

\* One of them comes before all others.
Leads(i, R, S) == \A j \in S : i # j => <<i, j>> \in R

LEMMA FirstOf ==
    ASSUME NEW S, IsFiniteSet(S), S # {}, NEW R, Ranks(R, S)
    PROVE  \E i \in S : Leads(i, R, S)
<1>1. Cardinality(S) \in Nat /\ Cardinality(S) # 0
  BY FS_CardinalityType, FS_EmptySet
<1>2. PICK i \in S : Cardinality(Before(i, R, S)) = 0
  BY <1>1, RankTaken
<1>3. Before(i, R, S) = {}
  <2>1. Before(i, R, S) \in SUBSET S
    BY DEF Before
  <2>2. IsFiniteSet(Before(i, R, S))
    BY <2>1, FS_Subset
  <2> QED
    BY <1>2, <2>2, FS_EmptySet
<1> QED
  BY <1>3 DEF Ranks, Before, Leads

\* To enumerate finitely many ids in such an order is to list each once.
LEMMA InOrderLists ==
    ASSUME NEW S, IsFiniteSet(S), NEW R, Ranks(R, S)
    PROVE  Enumerates(Bouts!InOrder(S, R), S)
<1> DEFINE N == Cardinality(S)
<1>1. /\ N \in Nat
      /\ \A n \in 1 .. N : \E i \in S : Cardinality(Before(i, R, S)) = n - 1
      /\ \A i \in S : Cardinality(Before(i, R, S)) \in 0 .. N - 1
      /\ \A i, j \in S : i # j => Cardinality(Before(i, R, S)) # Cardinality(Before(j, R, S))
  BY RankTaken
<1>2. ASSUME NEW n \in 1 .. N
      PROVE  /\ Bouts!InOrder(S, R)[n] \in S
             /\ Cardinality(Before(Bouts!InOrder(S, R)[n], R, S)) = n - 1
  <2>1. Bouts!InOrder(S, R)[n] = CHOOSE i \in S : Cardinality(Before(i, R, S)) = n - 1
    BY BoutsCount DEF Bouts!InOrder, Before
  <2> QED
    BY <1>1, <2>1
<1>3. DOMAIN Bouts!InOrder(S, R) = 1 .. N /\ Bouts!InOrder(S, R) \in [1 .. N -> S]
  <2> DEFINE at(n) == CHOOSE i \in S : Bouts!Cardinality(Before(i, R, S)) = n - 1
  <2>1. Bouts!InOrder(S, R) = [n \in 1 .. Bouts!Cardinality(S) |-> at(n)]
    BY DEF Bouts!InOrder, Before
  <2> HIDE DEF at
  <2>2. Bouts!Cardinality(S) = N
    BY BoutsCount
  <2> QED
    BY <1>2, <2>1, <2>2
<1>4. ASSUME NEW i \in S PROVE \E n \in 1 .. N : Bouts!InOrder(S, R)[n] = i
  <2> DEFINE n == Cardinality(Before(i, R, S)) + 1
  <2>1. n \in 1 .. N /\ Cardinality(Before(i, R, S)) = n - 1
    BY <1>1
  <2> HIDE DEF n
  <2>2. Bouts!InOrder(S, R)[n] = i
    BY <1>1, <1>2, <2>1
  <2> QED
    BY <2>1, <2>2
<1> QED
  BY <1>1, <1>2, <1>3, <1>4 DEF Enumerates


\* The rows of bouts in any order, applied: a result of each, the true one.
LEMMA AppliedAll ==
    ASSUME Bouts!BoutsAssumption, truth \in Fighters \cup {"draw"},
           NEW rows, NEW S \in SUBSET DOMAIN rows, IsFiniteSet(S), S \in SUBSET Nat,
           \A i \in S : rows[i] \in BoutRow /\ Decisive(rows[i]) /\ True(rows[i]),
           NEW order, Enumerates(order, S)
    PROVE  Rates([n \in 1 .. Len(order) |-> [id |-> order[n], result |-> Bouts!actual_score(rows[order[n]])]], S)
<1> DEFINE N == Cardinality(S)
           list == [n \in 1 .. Len(order) |-> [id |-> order[n], result |-> Bouts!actual_score(rows[order[n]])]]
<1>1. /\ Len(order) = N /\ DOMAIN order = 1 .. N /\ N \in Nat
      /\ {order[n] : n \in 1 .. N} = S
  BY DEF Enumerates
<1>2. \A n \in 1 .. N : order[n] \in S /\ Bouts!actual_score(rows[order[n]]) = truth
  <2> SUFFICES ASSUME NEW n \in 1 .. N PROVE order[n] \in S /\ Bouts!actual_score(rows[order[n]]) = truth
    OBVIOUS
  <2>1. order[n] \in S
    BY DEF Enumerates
  <2> QED
    BY <2>1, TrueNames DEF Decisive
<1> HIDE DEF N
<1>3. list = [n \in 1 .. N |-> [id |-> order[n], result |-> truth]]
  BY <1>1, <1>2
<1>4. Len(list) = N /\ DOMAIN list = 1 .. N /\ list \in Seq([id : Nat, result : Fighters \cup {"draw"}])
  BY <1>1, <1>2, <1>3
<1> HIDE DEF list
<1>5. \A n \in 1 .. N : list[n].id = order[n] /\ list[n].result = truth
  <2> SUFFICES ASSUME NEW n \in 1 .. N PROVE list[n].id = order[n] /\ list[n].result = truth
    OBVIOUS
  <2>1. list[n] = [id |-> order[n], result |-> truth]
    BY <1>3
  <2> HIDE DEF list
  <2> QED
    BY <2>1
<1>6. {list[n].id : n \in 1 .. N} = S
  BY <1>1, <1>5
<1>7. Rates(list, S)
  BY <1>4, <1>5, <1>6 DEF Rates, N
<1> QED
  BY <1>7 DEF list

\* The scout's order of ids and a script's order of dates have no ties.
LEMMA ByIdLists ==
    ASSUME NEW S \in SUBSET Nat, IsFiniteSet(S)
    PROVE  Enumerates(Bouts!ById(S), S)
<1> DEFINE R == {p \in S \X S : p[1] < p[2]}
<1>1. \A i, j \in S : <<i, j>> \in R <=> i < j
  OBVIOUS
<1>2. Bouts!ById(S) = Bouts!InOrder(S, R)
  BY DEF Bouts!ById
<1> HIDE DEF R
<1>3. Ranks(R, S)
  BY <1>1 DEF Ranks
<1> QED
  BY <1>2, <1>3, InOrderLists

\* A rating rebuilt from what is stored is made of every stored result once.
LEMMA Rebuilt ==
    ASSUME Bouts!BoutsAssumption, truth \in Fighters \cup {"draw"}, NEW rows,
           DOMAIN rows \in SUBSET Nat, IsFiniteSet(DOMAIN rows), rows \in [DOMAIN rows -> BoutRow],
           \A i \in DOMAIN rows : True(rows[i])
    PROVE  Rates(Bouts!Replayed(rows), {i \in DOMAIN rows : Decisive(rows[i])})
<1> DEFINE S == {i \in DOMAIN rows : rows[i].status = "final" /\ Bouts!Scored(rows[i])}
           R == {p \in S \X S : \/ rows[p[1]].day < rows[p[2]].day
                                \/ rows[p[1]].day = rows[p[2]].day /\ p[1] < p[2]}
           order == Bouts!InOrder(S, R)
           list == Bouts!Replayed(rows)
<1>1. \A i, j \in S : <<i, j>> \in R <=> \/ rows[i].day < rows[j].day
                                         \/ rows[i].day = rows[j].day /\ i < j
  OBVIOUS
<1>2. \A i \in S : i \in Nat /\ rows[i].day \in Int
  BY DEF BoutRow
<1>3. S \in SUBSET DOMAIN rows /\ \A i \in S : rows[i] \in BoutRow /\ Decisive(rows[i]) /\ True(rows[i])
  BY DEF Decisive
<1>4. IsFiniteSet(S) /\ S \in SUBSET Nat
  BY <1>3, FS_Subset
<1>5. list = [n \in 1 .. Len(order) |-> [id |-> order[n], result |-> Bouts!actual_score(rows[order[n]])]]
  BY DEF Bouts!Replayed
<1> HIDE DEF S
<1> HIDE DEF R
<1>6. Ranks(R, S)
  BY <1>1, <1>2 DEF Ranks
<1>7. Enumerates(order, S)
  BY <1>4, <1>6, InOrderLists
<1> HIDE DEF order
<1>8. Rates([n \in 1 .. Len(order) |-> [id |-> order[n], result |-> Bouts!actual_score(rows[order[n]])]], S)
  BY <1>3, <1>4, <1>7, AppliedAll
<1> QED
  BY <1>5, <1>8 DEF S, Decisive

-----------------------------------------------------------------------------
(* The actions *)

\* A row keeps its place, day and corners; its score stays, or becomes the true one.
Kept(held, new) ==
    /\ new \in BoutRow /\ new.home = held.home
    /\ new.score = held.score \/ new.score = Bouts!WithDraws(held, truth)
    /\ Decisive(held) => Decisive(new)

LEMMA ScoresAre ==
    ASSUME NEW held \in BoutRow
    PROVE  Bouts!WithDraws(held, truth) \in Scores /\ Bouts!Binary(held, truth) \in Scores
  BY DEF Bouts!WithDraws, Bouts!Binary, Scores

LEMMA FinalKeeps ==
    ASSUME Bouts!BoutsAssumption, NEW held \in BoutRow,
           NEW score, score = Bouts!WithDraws(held, truth) \/ (score = Bouts!Binary(held, truth) /\ truth # "draw")
    PROVE  Kept(held, Bouts!Final(held, score))
<1>1. score = Bouts!WithDraws(held, truth) /\ score \in Scores /\ score # None
  BY ScoresAre DEF Bouts!WithDraws, Scores, Bouts!BoutsAssumption
<1>2. Bouts!Final(held, score) = [held EXCEPT !.status = "final", !.score = score]
  BY DEF Bouts!Final
<1> QED
  BY <1>1, <1>2 DEF Kept, BoutRow, Decisive, Bouts!Scored

LEMMA KeptTrue ==
    ASSUME NEW held \in BoutRow, NEW new, True(held), Kept(held, new)
    PROVE  True(new)
  BY DEF True, Kept, Bouts!Scored, Bouts!WithDraws, Bouts!Binary

\* Each row of the table after a step is one of before, kept, or a new one that is true.
Follow ==
    /\ truth' = truth /\ made' \in Nat /\ made <= made'
    /\ bouts' = [i \in DOMAIN bouts' |-> bouts'[i]] /\ DOMAIN bouts' \in SUBSET (1 .. made')
    /\ \A i \in DOMAIN bouts' :
          \/ i \in DOMAIN bouts /\ Kept(bouts[i], bouts'[i])
          \/ i \notin 1 .. made /\ bouts'[i] \in BoutRow /\ True(bouts'[i])

LEMMA FollowTyped ==
    ASSUME BoutsTyped, Follow
    PROVE  /\ bouts' \in [DOMAIN bouts' -> BoutRow]
           /\ \A i \in DOMAIN bouts' : True(bouts'[i]) /\ True(bouts[i])'
           /\ \A i \in (1 .. made) \cap DOMAIN bouts' : /\ i \in DOMAIN bouts
                                                        /\ Decisive(bouts[i]) => Decisive(bouts'[i])
<1>1. \A i \in DOMAIN bouts : bouts[i] \in BoutRow /\ True(bouts[i])
  BY DEF BoutsTyped, Bouts!Ids
<1>2. \A i \in DOMAIN bouts' : bouts'[i] \in BoutRow
  BY DEF Follow, Kept
<1>3. \A i \in DOMAIN bouts' : True(bouts'[i])
  BY <1>1, KeptTrue DEF Follow
<1>4. \A i \in DOMAIN bouts' : True(bouts[i])'
  BY <1>3 DEF Follow, True, Bouts!Scored, Bouts!WithDraws, Bouts!Binary
<1>5. bouts' \in [DOMAIN bouts' -> BoutRow]
  BY <1>2 DEF Follow
<1> QED
  BY <1>3, <1>4, <1>5 DEF Follow, Kept

\* The ratings stay, and no row they are made of goes.
LEMMA RowsHold ==
    ASSUME BoutsInv, Follow, rated' = rated, raced' = raced,
           scout' = scout \/ scout' \in [pc : {"idle", "scores", "list"}, unrated : SUBSET (1 .. made)],
           history' \in SUBSET history,
           \A i \in DOMAIN bouts : Decisive(bouts[i]) => i \in DOMAIN bouts' /\ (i \in history => i \in history')
    PROVE  BoutsInv'
<1>1. BoutsTyped
  BY DEF BoutsInv
<1>2. BoutsTyped'
  BY <1>1, FollowTyped DEF BoutsTyped, Follow, Bouts!Ids
<1>3. Listed'
  <2>1. Listed /\ scout.unrated \in SUBSET (1 .. made)
    BY <1>1 DEF BoutsInv, BoutsTyped
  <2>2. \A i \in scout.unrated \cap DOMAIN bouts' : i \in DOMAIN bouts /\ (Decisive(bouts[i]) => Decisive(bouts'[i]))
    BY <1>1, <2>1, FollowTyped
  <2>3. CASE scout' = scout
    BY <2>1, <2>2, <2>3 DEF Listed, Bouts!Ids, Decisive, Bouts!Scored
  <2>4. CASE scout'.pc # "rate"
    BY <2>4 DEF Listed
  <2> QED
    BY <2>3, <2>4
<1>4. Rated => Rated'
  <2> SUFFICES ASSUME Rated PROVE Rated'
    OBVIOUS
  <2>1. history' = history
    BY DEF Rated, Bouts!Ids
  <2>2. \A i \in history : i \in DOMAIN bouts' /\ Decisive(bouts'[i])
    BY <1>1, FollowTyped DEF Rated, Bouts!Ids, BoutsTyped
  <2> QED
    BY <2>1, <2>2 DEF Rated, Follow, Bouts!Ids, Decisive, Bouts!Scored
<1> QED
  BY <1>2, <1>3, <1>4 DEF BoutsInv

\* The ratings are rebuilt from the table a script leaves.
LEMMA RebuildHolds ==
    ASSUME Bouts!BoutsAssumption, BoutsInv, Follow, scout' = scout, Bouts!rebuild_combat_elo(bouts')
    PROVE  BoutsInv'
<1> DEFINE S == {i \in DOMAIN bouts' : Decisive(bouts'[i])}
<1>1. BoutsTyped
  BY DEF BoutsInv
<1>2. /\ bouts' \in [DOMAIN bouts' -> BoutRow] /\ \A i \in DOMAIN bouts' : True(bouts'[i]) /\ True(bouts[i])'
      /\ DOMAIN bouts' \in SUBSET (1 .. made') /\ made' \in Nat
  BY <1>1, FollowTyped DEF Follow
<1>3. Rates(Bouts!Replayed(bouts'), S)
  <2>1. DOMAIN bouts' \in SUBSET Nat /\ IsFiniteSet(DOMAIN bouts')
    <3>1. \A n \in Nat : IsFiniteSet(1 .. n)
      BY FS_Interval
    <3> QED
      BY <1>2, <3>1, FS_Subset
  <2>2. truth \in Fighters \cup {"draw"}
    BY <1>1 DEF BoutsTyped
  <2> QED
    BY <1>2, <2>1, <2>2, Rebuilt
<1>4. rated' = Bouts!Replayed(bouts') /\ history' = S /\ raced' = (raced \/ scout.pc = "rate")
  BY <1>3 DEF Bouts!rebuild_combat_elo, Rates
<1> HIDE DEF S
<1>5. BoutsTyped'
  BY <1>1, <1>2, <1>4 DEF BoutsTyped, Follow, Bouts!Ids, S
<1>6. Listed'
  <2>1. Listed /\ scout.unrated \in SUBSET (1 .. made)
    BY <1>1 DEF BoutsInv, BoutsTyped
  <2>2. \A i \in scout.unrated \cap DOMAIN bouts' : i \in DOMAIN bouts /\ (Decisive(bouts[i]) => Decisive(bouts'[i]))
    BY <1>1, <2>1, FollowTyped
  <2> QED
    BY <1>4, <2>1, <2>2 DEF Listed, Bouts!Ids, Decisive, Bouts!Scored
<1>7. Rated'
  <2>1. Rates(rated', history') /\ truth' = truth
    BY <1>3, <1>4 DEF Follow
  <2>2. \A i \in history' : i \in DOMAIN bouts' /\ Decisive(bouts'[i])
    BY <1>4 DEF S
  <2> QED
    BY <2>1, <2>2 DEF Rated, Rates, Bouts!Ids, Decisive, Bouts!Scored
<1> QED
  BY <1>5, <1>6, <1>7 DEF BoutsInv

\* Rows that are finalized, graded or voided are kept, and so are the others.
LEMMA Changed ==
    ASSUME Bouts!BoutsAssumption, BoutsTyped, NEW held \in BoutRow
    PROVE  /\ Kept(held, held)
           /\ truth # "draw" => Kept(held, Bouts!Final(held, Bouts!Binary(held, truth)))
           /\ Kept(held, Bouts!Final(held, Bouts!WithDraws(held, truth)))
           /\ Kept(held, [held EXCEPT !.pick = "graded"])
           /\ held.status = "scheduled" => \A p \in {"none", "void"} : Kept(held, [held EXCEPT !.status = "canceled", !.pick = p])
<1>1. Kept(held, held)
  BY DEF Kept
<1>2. truth # "draw" => Kept(held, Bouts!Final(held, Bouts!Binary(held, truth)))
  BY FinalKeeps
<1>3. Kept(held, Bouts!Final(held, Bouts!WithDraws(held, truth)))
  BY FinalKeeps
<1>4. Kept(held, [held EXCEPT !.pick = "graded"])
  BY DEF Kept, BoutRow, Decisive, Bouts!Scored
<1>5. held.status = "scheduled" => \A p \in {"none", "void"} : Kept(held, [held EXCEPT !.status = "canceled", !.pick = p])
  BY DEF Kept, BoutRow, Decisive, Bouts!Scored
<1> QED
  BY <1>1, <1>2, <1>3, <1>4, <1>5

\* A step that changes no row's place, nor the ratings.
LEMMA InPlace ==
    ASSUME Bouts!BoutsAssumption, BoutsInv, UNCHANGED <<truth, made, rated, history, raced>>,
           scout' = scout \/ scout' \in [pc : {"idle", "scores", "list"}, unrated : SUBSET (1 .. made)],
           bouts' = [i \in Bouts!Ids |-> bouts'[i]], \A i \in Bouts!Ids : Kept(bouts[i], bouts'[i])
    PROVE  BoutsInv'
<1>1. DOMAIN bouts' = DOMAIN bouts /\ bouts' = [i \in DOMAIN bouts' |-> bouts'[i]]
  BY DEF Bouts!Ids
<1>2. Follow
  BY <1>1 DEF Follow, BoutsInv, BoutsTyped, Bouts!Ids
<1> QED
  BY <1>1, <1>2, RowsHold

LEMMA FinalizedHolds ==
    ASSUME Bouts!BoutsAssumption, BoutsInv, UNCHANGED <<truth, made, rated, history, raced>>,
           scout' \in [pc : {"idle", "scores", "list"}, unrated : SUBSET (1 .. made)],
           NEW S, S = {} \/ truth # "draw", bouts' = Bouts!Finalized(S)
    PROVE  BoutsInv'
<1>1. BoutsTyped /\ \A i \in Bouts!Ids : bouts[i] \in BoutRow
  BY DEF BoutsInv, BoutsTyped
<1>2. /\ bouts' = [i \in Bouts!Ids |-> bouts'[i]]
      /\ \A i \in Bouts!Ids : bouts'[i] = bouts[i] \/ (truth # "draw" /\ bouts'[i] = Bouts!Final(bouts[i], Bouts!Binary(bouts[i], truth)))
  BY DEF Bouts!Finalized
<1>3. \A i \in Bouts!Ids : Kept(bouts[i], bouts'[i])
  BY <1>1, <1>2, Changed
<1> QED
  BY <1>2, <1>3, InPlace

LEMMA VoidedHolds ==
    ASSUME Bouts!BoutsAssumption, BoutsInv, UNCHANGED <<truth, made, scout, rated, history, raced>>,
           NEW S, \A i \in S : bouts[i].status = "scheduled", bouts' = Bouts!Voided(bouts, S)
    PROVE  BoutsInv'
<1>1. BoutsTyped /\ \A i \in Bouts!Ids : bouts[i] \in BoutRow
  BY DEF BoutsInv, BoutsTyped
<1>2. bouts' = [i \in Bouts!Ids |-> bouts'[i]]
  BY DEF Bouts!Voided, Bouts!Ids
<1>3. \A i \in Bouts!Ids \ S : bouts'[i] = bouts[i]
  BY DEF Bouts!Voided, Bouts!Ids
<1>4. \A i \in Bouts!Ids \cap S : \E p \in {"none", "void"} :
          bouts'[i] = [bouts[i] EXCEPT !.status = "canceled", !.pick = p]
  <2> SUFFICES ASSUME NEW i \in Bouts!Ids \cap S
               PROVE  \E p \in {"none", "void"} : bouts'[i] = [bouts[i] EXCEPT !.status = "canceled", !.pick = p]
    OBVIOUS
  <2> DEFINE p == IF bouts[i].pick = "none" THEN "none" ELSE "void"
  <2>1. bouts'[i] = [bouts[i] EXCEPT !.status = "canceled", !.pick = p]
    BY <1>1 DEF Bouts!Voided, Bouts!Ids, BoutRow
  <2> QED
    BY <2>1
<1>5. ASSUME NEW i \in Bouts!Ids PROVE Kept(bouts[i], bouts'[i])
  <2>1. bouts[i] \in BoutRow
    BY <1>1
  <2>2. CASE i \in S
    <3>1. PICK p \in {"none", "void"} : bouts'[i] = [bouts[i] EXCEPT !.status = "canceled", !.pick = p]
      BY <1>4, <2>2
    <3>2. bouts[i].status = "scheduled"
      BY <2>2
    <3>3. Kept(bouts[i], [bouts[i] EXCEPT !.status = "canceled", !.pick = p])
      BY <1>1, <2>1, <3>2, Changed
    <3> QED
      BY <3>1, <3>3
  <2>3. CASE i \notin S
    <3>1. Kept(bouts[i], bouts[i])
      BY <1>1, <2>1, Changed
    <3> QED
      BY <1>3, <2>3, <3>1
  <2> QED
    BY <2>2, <2>3
<1> QED
  BY <1>2, <1>5, InPlace

\* A new row, after all others.
LEMMA NewRow ==
    ASSUME Bouts!BoutsAssumption, BoutsTyped, truth' = truth, made' = made + 1,
           NEW held \in BoutRow, True(held), bouts' = Bouts!With(made + 1, held)
    PROVE  Follow /\ DOMAIN bouts \in SUBSET DOMAIN bouts'
<1>1. made \in Nat /\ DOMAIN bouts \in SUBSET (1 .. made) /\ \A i \in DOMAIN bouts : bouts[i] \in BoutRow
  BY DEF BoutsTyped, Bouts!Ids
<1>2. DOMAIN bouts' = DOMAIN bouts \cup {made + 1} /\ bouts' = [i \in DOMAIN bouts' |-> bouts'[i]]
  BY DEF Bouts!With, Bouts!Ids
<1>3. bouts'[made + 1] = held
  BY DEF Bouts!With, Bouts!Ids
<1>4. \A i \in DOMAIN bouts : bouts'[i] = bouts[i]
  BY <1>1 DEF Bouts!With, Bouts!Ids
<1>5. \A i \in DOMAIN bouts : Kept(bouts[i], bouts[i])
  BY <1>1, Changed
<1>6. DOMAIN bouts' \in SUBSET (1 .. made + 1) /\ made + 1 \notin 1 .. made
  BY <1>1, <1>2
<1> QED
  BY <1>1, <1>2, <1>3, <1>4, <1>5, <1>6 DEF Follow

LEMMA NewFinalTrue ==
    ASSUME Bouts!BoutsAssumption, BoutsTyped, NEW f \in Fighters
    PROVE  Bouts!NewFinal(f) \in BoutRow /\ True(Bouts!NewFinal(f))
<1>1. Bouts!WithDraws([home |-> f], truth) \in Scores
  BY DEF Bouts!WithDraws, Bouts!Binary, Scores
<1>2. Bouts!NewFinal(f) \in BoutRow
  BY <1>1 DEF Bouts!NewFinal, BoutRow, Bouts!BoutsAssumption
<1>3. Bouts!NewFinal(f).home = f /\ Bouts!NewFinal(f).score = Bouts!WithDraws([home |-> f], truth)
  BY DEF Bouts!NewFinal
<1> QED
  BY <1>2, <1>3 DEF True, Bouts!WithDraws, Bouts!Binary

\* Rows are dropped.
LEMMA Dropped ==
    ASSUME Bouts!BoutsAssumption, BoutsTyped, truth' = truth, made' = made, NEW S, bouts' = Bouts!Without(S)
    PROVE  Follow /\ DOMAIN bouts' = DOMAIN bouts \ S
<1>1. made \in Nat /\ DOMAIN bouts \in SUBSET (1 .. made) /\ \A i \in DOMAIN bouts : bouts[i] \in BoutRow
  BY DEF BoutsTyped, Bouts!Ids
<1>2. DOMAIN bouts' = DOMAIN bouts \ S /\ bouts' = [i \in DOMAIN bouts' |-> bouts'[i]]
  BY DEF Bouts!Without, Bouts!Ids
<1>3. \A i \in DOMAIN bouts' : bouts'[i] = bouts[i]
  BY DEF Bouts!Without, Bouts!Ids
<1>4. \A i \in DOMAIN bouts : Kept(bouts[i], bouts[i])
  BY <1>1, Changed
<1> QED
  BY <1>1, <1>2, <1>3, <1>4 DEF Follow

-----------------------------------------------------------------------------

\* The two lists of results are put one after the other.
LEMMA RatesMore ==
    ASSUME Rated, NEW list, NEW U, Rates(list, U), IsFiniteSet(U), IsFiniteSet(history), U \cap history = {},
           rated' = rated \o list
    PROVE  /\ rated' \in Seq([id : Nat, result : Fighters \cup {"draw"}])
           /\ {rated'[n].id : n \in DOMAIN rated'} = history \cup U
           /\ Cardinality(history \cup U) = Len(rated')
           /\ \A n \in DOMAIN rated' : rated'[n].result = truth
<1> DEFINE R == [id : Nat, result : Fighters \cup {"draw"}]
<1>1. /\ rated \in Seq(R) /\ list \in Seq(R)
      /\ {rated[n].id : n \in DOMAIN rated} = history /\ {list[n].id : n \in DOMAIN list} = U
      /\ \A n \in DOMAIN rated : rated[n].result = truth
      /\ \A n \in DOMAIN list : list[n].result = truth
  BY DEF Rated, Rates
<1>2. Len(rated) = Cardinality(history) /\ Len(list) = Cardinality(U)
  BY DEF Rated, Rates
<1> HIDE DEF R
<1>3. rated' \in Seq(R) /\ Len(rated') = Len(rated) + Len(list)
  <2>1. rated \o list \in Seq(R) /\ Len(rated \o list) = Len(rated) + Len(list)
    BY <1>1
  <2> QED
    BY <2>1
<1>4. /\ DOMAIN rated = 1 .. Len(rated) /\ DOMAIN list = 1 .. Len(list) /\ Len(rated) \in Nat /\ Len(list) \in Nat
      /\ DOMAIN rated' = 1 .. Len(rated')
  BY <1>1, <1>3
<1>5. /\ \A n \in 1 .. Len(rated) : (rated \o list)[n] = rated[n]
      /\ \A n \in 1 .. Len(list) : (rated \o list)[Len(rated) + n] = list[n]
  BY <1>1, <1>4
<1>6. /\ \A n \in DOMAIN rated : n \in DOMAIN rated' /\ rated'[n] = rated[n]
      /\ \A n \in DOMAIN list : Len(rated) + n \in DOMAIN rated' /\ rated'[Len(rated) + n] = list[n]
  BY <1>3, <1>4, <1>5
<1>7. \A n \in DOMAIN rated' : n \in DOMAIN rated \/ \E m \in DOMAIN list : n = Len(rated) + m
  <2> SUFFICES ASSUME NEW n \in DOMAIN rated', n \notin DOMAIN rated PROVE \E m \in DOMAIN list : n = Len(rated) + m
    OBVIOUS
  <2>1. n - Len(rated) \in DOMAIN list /\ n = Len(rated) + (n - Len(rated))
    BY <1>3, <1>4
  <2> QED
    BY <2>1
<1>8. {rated'[n].id : n \in DOMAIN rated'} = history \cup U
  <2>1. ASSUME NEW i \in history \cup U PROVE \E n \in DOMAIN rated' : rated'[n].id = i
    <3>1. CASE i \in history
      BY <1>1, <1>6, <3>1
    <3>2. CASE i \in U
      <4>1. PICK n \in DOMAIN list : list[n].id = i
        BY <1>1, <3>2
      <4> QED
        BY <1>6, <4>1
    <3> QED
      BY <3>1, <3>2
  <2>2. ASSUME NEW n \in DOMAIN rated' PROVE rated'[n].id \in history \cup U
    <3>1. \A m \in DOMAIN rated : rated[m].id \in history
      BY <1>1
    <3>2. \A m \in DOMAIN list : list[m].id \in U
      BY <1>1
    <3> QED
      BY <1>6, <1>7, <3>1, <3>2
  <2> QED
    BY <2>1, <2>2
<1>9. \A n \in DOMAIN rated' : rated'[n].result = truth
  BY <1>1, <1>6, <1>7
<1>10. Cardinality(history \cup U) = Cardinality(history) + Cardinality(U)
  <2>1. Cardinality(history \cup U) = Cardinality(history) + Cardinality(U) - Cardinality(U \cap history)
    <3>1. Cardinality(history \cup U) = Cardinality(history) + Cardinality(U) - Cardinality(history \cap U)
      BY FS_Union
    <3> QED
      BY <3>1
  <2>2. Cardinality(U \cap history) = 0
    BY FS_EmptySet
  <2> QED
    BY <1>2, <1>4, <2>1, <2>2
<1> QED
  BY <1>2, <1>3, <1>8, <1>9, <1>10 DEF R

LEMMA GradeHolds ==
    ASSUME Bouts!BoutsAssumption, BoutsInv, Bouts!grade_completed_games
    PROVE  BoutsInv'
<1> DEFINE U == scout.unrated \cap Bouts!Ids
           list == Bouts!Applied(Bouts!ById(U))
<1>1. /\ bouts' = Bouts!Graded(bouts) /\ rated' = rated \o list /\ history' = history \cup U
      /\ UNCHANGED <<truth, made, raced>> /\ scout' = [pc |-> "idle", unrated |-> {}] /\ scout.pc = "rate"
  BY DEF Bouts!grade_completed_games
<1>2. /\ BoutsTyped /\ \A i \in Bouts!Ids : bouts[i] \in BoutRow /\ True(bouts[i])
      /\ Bouts!Ids = DOMAIN bouts /\ made \in Nat /\ DOMAIN bouts \in SUBSET (1 .. made)
  BY DEF BoutsInv, BoutsTyped, Bouts!Ids
<1>3. /\ U \in SUBSET (1 .. made) /\ U \in SUBSET DOMAIN bouts
      /\ \A i \in U : bouts[i] \in BoutRow /\ True(bouts[i]) /\ Decisive(bouts[i])
  BY <1>1, <1>2 DEF BoutsInv, Listed
<1>4. /\ history \in SUBSET (1 .. made) /\ IsFiniteSet(history)
      /\ IsFiniteSet(U) /\ U \in SUBSET Nat
  <2>1. IsFiniteSet(1 .. made)
    <3>1. \A n \in Nat : IsFiniteSet(1 .. n)
      BY FS_Interval
    <3> QED
      BY <1>2, <3>1
  <2>2. history \in SUBSET (1 .. made) /\ U \in SUBSET (1 .. made)
    BY <1>2, <1>3 DEF BoutsTyped
  <2>3. IsFiniteSet(history) /\ IsFiniteSet(U)
    BY <2>1, <2>2, FS_Subset
  <2> QED
    BY <1>2, <2>2, <2>3
<1>5. ~raced => U \cap history = {}
  BY <1>1 DEF BoutsInv, Listed
<1> HIDE DEF U
<1>6. Rates(list, U)
  <2> DEFINE order == Bouts!ById(U)
  <2>1. Enumerates(order, U)
    BY <1>4, ByIdLists
  <2>2. truth \in Fighters \cup {"draw"}
    BY <1>2 DEF BoutsTyped
  <2>3. list = [n \in 1 .. Len(order) |-> [id |-> order[n], result |-> Bouts!actual_score(bouts[order[n]])]]
    BY DEF Bouts!Applied
  <2> HIDE DEF order, list
  <2>4. Rates([n \in 1 .. Len(order) |-> [id |-> order[n], result |-> Bouts!actual_score(bouts[order[n]])]], U)
    BY <1>3, <1>4, <2>1, <2>2, AppliedAll
  <2> QED
    BY <2>3, <2>4
<1> HIDE DEF list
<1>7. /\ bouts' = [i \in DOMAIN bouts' |-> bouts'[i]] /\ DOMAIN bouts' = DOMAIN bouts
      /\ \A i \in DOMAIN bouts : bouts'[i] = bouts[i] \/ bouts'[i] = [bouts[i] EXCEPT !.pick = "graded"]
  BY <1>1 DEF Bouts!Graded
<1>8. ASSUME NEW i \in DOMAIN bouts PROVE Kept(bouts[i], bouts'[i])
  <2>1. bouts[i] \in BoutRow
    BY <1>2
  <2>2. Kept(bouts[i], bouts[i]) /\ Kept(bouts[i], [bouts[i] EXCEPT !.pick = "graded"])
    BY <1>2, <2>1, Changed
  <2> QED
    BY <1>7, <2>2
<1>9. Follow
  BY <1>1, <1>2, <1>7, <1>8 DEF Follow
<1>10. BoutsTyped'
  BY <1>1, <1>2, <1>3, <1>9, FollowTyped DEF BoutsTyped, Follow, Bouts!Ids
<1>11. Listed'
  BY <1>1 DEF Listed
<1>12. ASSUME ~raced PROVE Rated'
  <2>1. Rated
    BY <1>12 DEF BoutsInv
  <2>2. /\ rated' \in Seq([id : Nat, result : Fighters \cup {"draw"}])
        /\ {rated'[n].id : n \in DOMAIN rated'} = history \cup U
        /\ Cardinality(history \cup U) = Len(rated')
        /\ \A n \in DOMAIN rated' : rated'[n].result = truth
    BY <1>1, <1>4, <1>5, <1>6, <1>12, <2>1, RatesMore
  <2>3. \A i \in history \cup U : i \in DOMAIN bouts' /\ Decisive(bouts'[i])
    <3>1. \A i \in history \cup U : i \in DOMAIN bouts /\ Decisive(bouts[i])
      BY <1>2, <1>3, <2>1 DEF Rated
    <3> QED
      BY <1>7, <1>8, <3>1 DEF Kept
  <2>4. \A i \in history' : i \in Bouts!Ids' /\ Decisive(bouts[i])'
    BY <1>1, <2>3 DEF Bouts!Ids, Decisive, Bouts!Scored
  <2> QED
    BY <1>1, <2>2, <2>4 DEF Rated
<1> QED
  BY <1>1, <1>10, <1>11, <1>12 DEF BoutsInv

LEMMA BoutsStep ==
    ASSUME Bouts!BoutsAssumption, BoutsInv, [Bouts!Next]_Bouts!vars
    PROVE  BoutsInv'
<1> BoutsTyped /\ \A i \in Bouts!Ids : bouts[i] \in BoutRow /\ Kept(bouts[i], bouts[i])
  BY Changed DEF BoutsInv, BoutsTyped
<1> bouts = [i \in Bouts!Ids |-> bouts[i]] /\ made \in Nat
  BY DEF BoutsTyped, Bouts!Ids
<1>1. CASE UNCHANGED Bouts!vars
  BY <1>1, InPlace DEF Bouts!vars
<1>2. CASE Bouts!Announce
  <2>1. PICK d \in FightDay - 1 .. FightDay + 1, f \in Fighters, p \in {"none", "open"}, priced \in BOOLEAN :
           bouts' = Bouts!With(made + 1, [day |-> d, home |-> f, status |-> "scheduled", score |-> None,
                                          pick |-> p, feed |-> TRUE, priced |-> priced])
    BY <1>2 DEF Bouts!Announce, Fighters
  <2> DEFINE held == [day |-> d, home |-> f, status |-> "scheduled", score |-> None,
                     pick |-> p, feed |-> TRUE, priced |-> priced]
  <2>2. held \in BoutRow /\ True(held)
    BY DEF BoutRow, True, Bouts!Scored, Bouts!BoutsAssumption
  <2> HIDE DEF held
  <2>3. Follow /\ DOMAIN bouts \in SUBSET DOMAIN bouts'
    BY <1>2, <2>1, <2>2, NewRow DEF Bouts!Announce, held
  <2> QED
    BY <1>2, <2>3, RowsHold DEF Bouts!Announce
<1>3. CASE Bouts!NextDay
  BY <1>3, InPlace DEF Bouts!NextDay
<1>4. CASE Bouts!finalize_stuck_bouts
  <2>1. scout' \in [pc : {"idle", "scores", "list"}, unrated : SUBSET (1 .. made)]
    BY <1>4 DEF Bouts!finalize_stuck_bouts, BoutsTyped
  <2>2. PICK failed \in SUBSET {bouts[i].day : i \in Bouts!stuck_bouts} :
           bouts' = Bouts!Finalized({i \in Bouts!stuck_bouts : Bouts!EspnLists(bouts[i].day) /\ bouts[i].day \notin failed})
    BY <1>4 DEF Bouts!finalize_stuck_bouts
  <2> DEFINE S == {i \in Bouts!stuck_bouts : Bouts!EspnLists(bouts[i].day) /\ bouts[i].day \notin failed}
  <2>3. S = {} \/ truth # "draw"
    BY DEF Bouts!EspnLists, Bouts!Decided
  <2> HIDE DEF S
  <2> QED
    BY <1>4, <2>1, <2>2, <2>3, FinalizedHolds DEF Bouts!finalize_stuck_bouts, S
<1>5. CASE Bouts!finalize_from_scores
  <2>1. scout' \in [pc : {"idle", "scores", "list"}, unrated : SUBSET (1 .. made)]
    BY <1>5 DEF Bouts!finalize_from_scores, BoutsTyped
  <2>2. PICK answered \in BOOLEAN :
           bouts' = Bouts!Finalized(IF answered /\ Bouts!ScoresList THEN Bouts!stuck_combat ELSE {})
    BY <1>5 DEF Bouts!finalize_from_scores
  <2> DEFINE S == IF answered /\ Bouts!ScoresList THEN Bouts!stuck_combat ELSE {}
  <2>3. S = {} \/ truth # "draw"
    BY DEF Bouts!ScoresList, Bouts!Decided
  <2> HIDE DEF S
  <2> QED
    BY <1>5, <2>1, <2>2, <2>3, FinalizedHolds DEF Bouts!finalize_from_scores, S
<1>6. CASE Bouts!ListUnrated
  <2>1. scout' = [pc |-> "rate", unrated |-> Bouts!Rateable \ history]
    BY <1>6 DEF Bouts!ListUnrated
  <2>2. Bouts!Rateable \in SUBSET (1 .. made) /\ \A i \in Bouts!Rateable : Decisive(bouts[i])
    BY DEF Bouts!Rateable, BoutsTyped, Decisive
  <2>3. Listed'
    BY <1>6, <2>1, <2>2 DEF Listed, Bouts!ListUnrated, Decisive, Bouts!Scored
  <2>4. BoutsTyped'
    BY <1>6, <2>1, <2>2 DEF BoutsTyped, Bouts!ListUnrated, Bouts!Ids, True, Bouts!Scored, Bouts!WithDraws, Bouts!Binary
  <2>5. raced' = raced /\ (Rated => Rated')
    BY <1>6 DEF Bouts!ListUnrated, Rated, Bouts!Ids, Decisive, Bouts!Scored
  <2> QED
    BY <2>3, <2>4, <2>5 DEF BoutsInv
<1>7. CASE Bouts!grade_completed_games
  BY <1>7, GradeHolds
<1>8. CASE Bouts!dedupe_combat_games
  <2>1. Follow
    BY <1>8, Dropped DEF Bouts!dedupe_combat_games
  <2> QED
    BY <1>8, <2>1, RebuildHolds DEF Bouts!dedupe_combat_games
<1>9. CASE Bouts!merge_date_splits
  <2>1. PICK i \in Bouts!Ids, j \in Bouts!Ids :
           /\ Bouts!Split(i, j)
           /\ LET drop == IF Bouts!Kept(i, j) = i THEN j ELSE i IN
              bouts' = Bouts!Without({drop}) /\ history' = history \ {drop}
    BY <1>9 DEF Bouts!merge_date_splits
  <2> DEFINE drop == IF Bouts!Kept(i, j) = i THEN j ELSE i
  <2>2. bouts[drop].status # "final"
    <3>1. ~(bouts[i].status = "final" /\ bouts[j].status = "final")
      BY <2>1 DEF Bouts!Split
    <3> QED
      BY <3>1 DEF Bouts!Kept
  <2> HIDE DEF drop
  <2>3. /\ bouts' = Bouts!Without({drop}) /\ history' = history \ {drop} /\ ~Decisive(bouts[drop])
        /\ UNCHANGED <<truth, made, scout, rated, raced>>
    BY <1>9, <2>1, <2>2 DEF drop, Decisive, Bouts!merge_date_splits
  <2>4. Follow /\ DOMAIN bouts' = DOMAIN bouts \ {drop}
    BY <2>3, Dropped
  <2> QED
    BY <2>3, <2>4, RowsHold
<1>10. CASE Bouts!void_stuck_bouts
  <2>1. PICK S \in SUBSET Bouts!voidable : bouts' = Bouts!Voided(bouts, S)
    BY <1>10 DEF Bouts!void_stuck_bouts
  <2> QED
    BY <1>10, <2>1, VoidedHolds DEF Bouts!void_stuck_bouts, Bouts!voidable
<1>11. CASE Bouts!void_reschedules
  BY <1>11, VoidedHolds DEF Bouts!void_reschedules, Bouts!stale_reschedules
<1>12. ASSUME made' = made + 1, NEW f \in Fighters, bouts' = Bouts!With(made + 1, Bouts!NewFinal(f)), truth' = truth
       PROVE  Follow /\ DOMAIN bouts \in SUBSET DOMAIN bouts'
  BY <1>12, NewRow, NewFinalTrue
<1>13. CASE Bouts!ingest_recent_ufc_event
  <2>1. CASE Bouts!Known # {}
    <3> DEFINE i == Bouts!Min(Bouts!Known)
    <3>1. /\ bouts' = [bouts EXCEPT ![i] = Bouts!Final(@, Bouts!WithDraws(@, truth))]
          /\ UNCHANGED <<truth, made, scout, rated, history, raced>>
      BY <1>13, <2>1 DEF Bouts!ingest_recent_ufc_event
    <3> HIDE DEF i
    <3>2. /\ bouts' = [j \in Bouts!Ids |-> bouts'[j]]
          /\ \A j \in Bouts!Ids : bouts'[j] = bouts[j] \/ bouts'[j] = Bouts!Final(bouts[j], Bouts!WithDraws(bouts[j], truth))
      BY <3>1 DEF Bouts!Ids
    <3>3. \A j \in Bouts!Ids : Kept(bouts[j], bouts'[j])
      BY <3>2, Changed
    <3> QED
      BY <3>1, <3>2, <3>3, InPlace
  <2>2. CASE Bouts!Known = {}
    <3>1. PICK f \in Fighters : bouts' = Bouts!With(made + 1, Bouts!NewFinal(f))
      BY <1>13, <2>2 DEF Bouts!ingest_recent_ufc_event, Fighters
    <3>2. made' = made + 1 /\ UNCHANGED <<truth, scout, rated, history, raced>>
      BY <1>13, <2>2 DEF Bouts!ingest_recent_ufc_event
    <3>3. Follow /\ DOMAIN bouts \in SUBSET DOMAIN bouts'
      BY <1>12, <3>1, <3>2
    <3> QED
      BY <3>2, <3>3, RowsHold
  <2> QED
    BY <2>1, <2>2
<1>14. ASSUME NEW unfinished \in BOOLEAN, Bouts!import_bouts(unfinished) PROVE BoutsInv'
  <2>1. truth' = truth /\ scout' = scout /\ Bouts!rebuild_combat_elo(bouts')
    BY <1>14 DEF Bouts!import_bouts
  <2>2. \/ made' = made /\ bouts' = bouts
        \/ /\ made' = made
           /\ bouts' = [i \in Bouts!Ids |-> IF i \in Bouts!Near
                                            THEN Bouts!Final(bouts[i], Bouts!WithDraws(bouts[i], truth)) ELSE bouts[i]]
        \/ made' = made + 1 /\ \E f \in Fighters : bouts' = Bouts!With(made + 1, Bouts!NewFinal(f))
    BY <1>14 DEF Bouts!import_bouts, Fighters
  <2>3. Follow
    <3>1. CASE made' = made /\ bouts' = bouts
      BY <2>1, <3>1 DEF Follow, BoutsTyped, Bouts!Ids
    <3>2. CASE /\ made' = made
               /\ bouts' = [i \in Bouts!Ids |-> IF i \in Bouts!Near
                                                THEN Bouts!Final(bouts[i], Bouts!WithDraws(bouts[i], truth)) ELSE bouts[i]]
      <4>1. /\ bouts' = [i \in DOMAIN bouts' |-> bouts'[i]] /\ DOMAIN bouts' = DOMAIN bouts
            /\ \A j \in Bouts!Ids : bouts'[j] = bouts[j] \/ bouts'[j] = Bouts!Final(bouts[j], Bouts!WithDraws(bouts[j], truth))
        BY <3>2 DEF Bouts!Ids
      <4>2. \A j \in Bouts!Ids : Kept(bouts[j], bouts'[j])
        BY <4>1, Changed
      <4> QED
        BY <2>1, <3>2, <4>1, <4>2 DEF Follow, BoutsTyped, Bouts!Ids
    <3>3. CASE made' = made + 1 /\ \E f \in Fighters : bouts' = Bouts!With(made + 1, Bouts!NewFinal(f))
      BY <1>12, <2>1, <3>3
    <3> QED
      BY <2>2, <3>1, <3>2, <3>3
  <2> QED
    BY <2>1, <2>3, RebuildHolds
<1> QED
  BY <1>1, <1>2, <1>3, <1>4, <1>5, <1>6, <1>7, <1>8, <1>9, <1>10, <1>11, <1>13, <1>14 DEF Bouts!Next

THEOREM BoutsInvHolds ==
    ASSUME Bouts!BoutsAssumption
    PROVE  Bouts!Spec => []BoutsInv
<1>1. Bouts!Init => BoutsInv
  <2> SUFFICES ASSUME Bouts!Init PROVE BoutsInv
    OBVIOUS
  <2>0. bouts \in [{} -> BoutRow] /\ DOMAIN bouts = {}
    BY DEF Bouts!Init
  <2>1. BoutsTyped /\ Listed
    BY <2>0 DEF Bouts!Init, BoutsTyped, Listed, Bouts!Ids, Fighters
  <2>2. Rated
    BY FS_EmptySet DEF Bouts!Init, Rated, Bouts!Ids
  <2> QED
    BY <2>1, <2>2 DEF BoutsInv
<1>2. BoutsInv /\ [Bouts!Next]_Bouts!vars => BoutsInv'
  BY BoutsStep
<1> QED
  BY <1>1, <1>2, PTL DEF Bouts!Spec

\* Whoever wrote a result, from whichever source and in whichever corner order, it names the
\* fighter who won (match_bout of bout_matching.py, corner_scores of its callers).
THEOREM WinnerNamed ==
    ASSUME Bouts!BoutsAssumption
    PROVE  Bouts!Spec => []Bouts!RightWinner
<1>1. BoutsInv => Bouts!RightWinner
  BY TrueNames DEF BoutsInv, BoutsTyped, Bouts!RightWinner
<1> QED
  BY <1>1, BoutsInvHolds, PTL

\* Unless a script replays the ratings between a grading pass's list and its writes, each rated
\* row counts once, with the result it has, and nothing rated has been deleted
\* (grade_completed_games of grading.py, rebuild_combat_elo of its scripts).
THEOREM EachBoutRatedOnce ==
    ASSUME Bouts!BoutsAssumption
    PROVE  Bouts!Spec => []Bouts!RatingsAddUp
<1>1. BoutsInv => Bouts!RatingsAddUp
  <2> SUFFICES ASSUME BoutsInv, ~raced PROVE Bouts!RatingsAddUp
    BY DEF Bouts!RatingsAddUp
  <2>1. Rated /\ BoutsTyped
    BY DEF BoutsInv
  <2>2. \A i \in history : i \in Bouts!Ids /\ Bouts!actual_score(bouts[i]) = truth
    BY <2>1, TrueNames DEF Rated, BoutsTyped, Decisive
  <2>3. \A n \in DOMAIN rated : rated[n].id \in history
    BY <2>1 DEF Rated
  <2>4. Bouts!Cardinality(history) = Cardinality(history)
    BY BoutsCount
  <2> QED
    BY <2>1, <2>2, <2>3, <2>4 DEF Bouts!RatingsAddUp, Rated
<1> QED
  BY <1>1, BoutsInvHolds, PTL

-----------------------------------------------------------------------------
(* The owner's scripts repair the games of one pair of teams, who meet on    *)
(* dates too far apart for a script to take one game for another.            *)
CONSTANTS Played, First, Day, Today, Rows, Quotes, Faults
VARIABLES world, label, games, odds, picks, series, indexed, repairing, owner, quoteOf
Fixing == INSTANCE Repairs WITH Events <- Played

\* A row is filed under its game's date or the day after, has nothing of another game, and
\* the result of its own if it has one.
RowColumns == {"team", "day", "espn", "status", "score", "flags"}
Own(held, e) ==
    /\ DOMAIN held = RowColumns
    /\ held.day \in {Day[e], Day[e] + 1}
    /\ held.espn \in {e, None} /\ held.score \in {e, None} /\ held.flags \in {e, None}
    /\ held.status = "final" => held.score = e

RowsOwn ==
    /\ owner \in [Rows -> Played] /\ games = [r \in Rows |-> games[r]]
    /\ \A r \in Fixing!Present : Own(games[r], owner[r])

\* What refers to a row refers to one that is there, of the same game.
QuotesOwn ==
    /\ DOMAIN odds \in SUBSET Quotes /\ picks \in SUBSET Fixing!Present /\ series \in SUBSET Fixing!Present
    /\ \A q \in DOMAIN odds : odds[q] \in Fixing!Present /\ owner[odds[q]] = quoteOf[q]

FixInv == RowsOwn /\ QuotesOwn

LEMMA FixCount == \A S : Fixing!Cardinality(S) = Cardinality(S)
  BY DEF Fixing!Cardinality, Cardinality

LEMMA FixFinite ==
    ASSUME Fixing!RepairsAssumption, NEW S \in SUBSET Rows
    PROVE  IsFiniteSet(S) /\ S \in SUBSET Nat
<1>1. IsFiniteSet(Rows) /\ Rows \in SUBSET Nat
  BY DEF Fixing!RepairsAssumption, Fixing!IsFiniteSet, IsFiniteSet
<1> QED
  BY <1>1, FS_Subset

LEMMA LeastRow ==
    ASSUME Fixing!RepairsAssumption, NEW S \in SUBSET Rows, S # {}
    PROVE  Fixing!Least(S) \in S
<1> DEFINE R == {p \in S \X S : p[1] < p[2]}
<1>1. IsFiniteSet(S) /\ S \in SUBSET Nat
  BY FixFinite
<1>2. \A i, j \in S : <<i, j>> \in R <=> i < j
  OBVIOUS
<1> HIDE DEF R
<1>3. Ranks(R, S)
  <2>1. \A i \in S : <<i, i>> \notin R
    BY <1>1, <1>2
  <2>2. \A i, j \in S : i # j => <<i, j>> \in R \/ <<j, i>> \in R
    BY <1>1, <1>2
  <2>3. \A i, j, k \in S : <<i, j>> \in R /\ <<j, k>> \in R => <<i, k>> \in R
    BY <1>1, <1>2
  <2> QED
    BY <2>1, <2>2, <2>3 DEF Ranks
<1>4. PICK i \in S : Leads(i, R, S)
  BY <1>1, <1>3, FirstOf
<1>5. \A j \in S : i # j => i < j
  BY <1>2, <1>4 DEF Leads
<1>6. i \in Nat /\ \A j \in S : i <= j
  BY <1>1, <1>5
<1> QED
  BY <1>6 DEF Fixing!Least

LEMMA EarliestRow ==
    ASSUME Fixing!RepairsAssumption, FixInv, NEW S \in SUBSET Fixing!Present, S # {}
    PROVE  Fixing!Earliest(S) \in S
<1> DEFINE R == {p \in S \X S : \/ games[p[1]].day < games[p[2]].day
                                \/ games[p[1]].day = games[p[2]].day /\ p[1] < p[2]}
<1>1. IsFiniteSet(S) /\ S \in SUBSET Nat
  BY FixFinite DEF Fixing!Present
<1>2. \A i, j \in S : <<i, j>> \in R <=> \/ games[i].day < games[j].day
                                         \/ games[i].day = games[j].day /\ i < j
  OBVIOUS
<1>3. \A i \in S : games[i].day \in Nat
  <2> SUFFICES ASSUME NEW i \in S PROVE games[i].day \in Nat
    OBVIOUS
  <2>1. Own(games[i], owner[i]) /\ Day[owner[i]] \in Nat
    BY DEF FixInv, RowsOwn, Fixing!RepairsAssumption, Fixing!Present
  <2> QED
    BY <2>1 DEF Own
<1> HIDE DEF R
<1>4. Ranks(R, S)
  BY <1>1, <1>2, <1>3 DEF Ranks
<1>5. PICK i \in S : Leads(i, R, S)
  BY <1>1, <1>4, FirstOf
<1>6. \A j \in S : i # j => \/ games[i].day < games[j].day
                            \/ games[i].day = games[j].day /\ i < j
  BY <1>2, <1>5 DEF Leads
<1>7. ASSUME NEW j \in S PROVE games[i].day < games[j].day \/ (games[i].day = games[j].day /\ i <= j)
  <2>1. i \in Nat /\ j \in Nat
    BY <1>1
  <2>2. CASE i = j
    BY <2>1, <2>2
  <2>3. CASE i # j
    BY <1>6, <2>1, <2>3
  <2> QED
    BY <2>2, <2>3
<1> QED
  BY <1>7 DEF Fixing!Earliest

\* Rows a day apart are of one game.
LEMMA SameEvent ==
    ASSUME Fixing!RepairsAssumption, Fixing!FarApart, NEW e \in Played, NEW f \in Played,
           NEW d \in {Day[e], Day[e] + 1}, NEW c \in {Day[f], Day[f] + 1}, c - d \in -1 .. 1
    PROVE  e = f
<1>1. Day[e] \in Nat /\ Day[f] \in Nat
  BY DEF Fixing!RepairsAssumption
<1>2. ~(Day[e] + 2 < Day[f]) /\ ~(Day[f] + 2 < Day[e])
  BY <1>1
<1> QED
  BY <1>2 DEF Fixing!FarApart

\* Whichever requests fail, a lookup ends on the row's own game or on none.
LEMMA LookedOwn ==
    ASSUME Fixing!RepairsAssumption, Fixing!FarApart, NEW e \in Played, NEW day \in {Day[e], Day[e] + 1}, NEW failed
    PROVE  Fixing!Looked(day, failed) \in {e, None}
<1> DEFINE hits == {i \in DOMAIN Fixing!Offsets \ failed : Fixing!Board(day + Fixing!Offsets[i]) # {}}
           i == Fixing!Least(hits)
<1>1. DOMAIN Fixing!Offsets = {1, 2, 3} /\ \A j \in {1, 2, 3} : Fixing!Offsets[j] \in -1 .. 1
  BY DEF Fixing!Offsets
<1>2. CASE hits = {}
  BY <1>2 DEF Fixing!Looked
<1>3. CASE hits # {}
  <2>1. hits \in SUBSET {1, 2, 3}
    BY <1>1
  <2> HIDE DEF hits
  <2>2. \E j \in hits : \A k \in hits : j <= k
    <3>1. CASE 1 \in hits
      BY <2>1, <3>1
    <3>2. CASE 1 \notin hits /\ 2 \in hits
      BY <2>1, <3>2
    <3>3. CASE 1 \notin hits /\ 2 \notin hits
      <4>1. hits = {3}
        BY <1>3, <2>1, <3>3
      <4> QED
        BY <4>1
    <3> QED
      BY <3>1, <3>2, <3>3
  <2>3. i \in hits
    BY <2>2 DEF Fixing!Least
  <2> HIDE DEF i
  <2>4. Fixing!Looked(day, failed) = CHOOSE f \in Fixing!Board(day + Fixing!Offsets[i]) : TRUE
    BY <1>3 DEF Fixing!Looked, hits, i
  <2>5. Fixing!Board(day + Fixing!Offsets[i]) # {} /\ Fixing!Offsets[i] \in -1 .. 1
    BY <1>1, <2>1, <2>3 DEF hits
  <2>6. PICK f \in Fixing!Board(day + Fixing!Offsets[i]) : Fixing!Looked(day, failed) = f
    BY <2>4, <2>5
  <2>7. f \in Played /\ Day[f] = day + Fixing!Offsets[i]
    BY <2>6 DEF Fixing!Board
  <2>8. Day[f] - day \in -1 .. 1
    BY <2>5, <2>7 DEF Fixing!RepairsAssumption
  <2>9. f = e
    BY <2>7, <2>8, SameEvent
  <2> QED
    BY <2>6, <2>9
<1> QED
  BY <1>2, <1>3

\* Rows that share an ESPN id are of its game.
LEMMA TwinsOwn ==
    ASSUME FixInv, NEW r \in Fixing!Present, games[r].espn # None, NEW q \in Fixing!Twins(r)
    PROVE  /\ q \in Fixing!Present /\ owner[q] = owner[r] /\ owner[r] = games[r].espn
           /\ Fixing!Twins(q) = Fixing!Twins(r)
<1>1. q \in Fixing!Present /\ games[q].espn = games[r].espn
  BY DEF Fixing!Twins
<1>2. Own(games[q], owner[q]) /\ Own(games[r], owner[r])
  BY <1>1 DEF FixInv, RowsOwn
<1>3. owner[q] = owner[r] /\ owner[r] = games[r].espn
  BY <1>1, <1>2 DEF Own
<1>4. Fixing!Twins(q) = Fixing!Twins(r)
  BY <1>1 DEF Fixing!Twins
<1> QED
  BY <1>1, <1>3, <1>4

\* The survivor is one of the rows, and no other has picks.
LEMMA SurvivorIs ==
    ASSUME Fixing!RepairsAssumption, FixInv, NEW S \in SUBSET Fixing!Present, S # {}, Fixing!Survivor(S) # None
    PROVE  Fixing!Survivor(S) \in S /\ S \cap picks \in SUBSET {Fixing!Survivor(S)}
<1> DEFINE picked == S \cap picks
           final == {r \in S : games[r].status = "final"}
<1>1. IsFiniteSet(picked) /\ picked \in SUBSET Rows /\ S \in SUBSET Rows
  BY FixFinite DEF Fixing!Present
<1>2. Cardinality(picked) \in Nat /\ (Cardinality(picked) = 0 <=> picked = {})
  BY <1>1, FS_CardinalityType, FS_EmptySet
<1>3. Fixing!Cardinality(picked) = Cardinality(picked)
  BY FixCount
<1>4. final \in SUBSET Fixing!Present
  OBVIOUS
<1> HIDE DEF picked, final
<1>5. CASE Cardinality(picked) > 1
  BY <1>2, <1>3, <1>5 DEF Fixing!Survivor, picked, final
<1>6. CASE Cardinality(picked) = 1
  <2>1. Fixing!Survivor(S) = Fixing!Least(picked)
    BY <1>2, <1>3, <1>6 DEF Fixing!Survivor, picked, final
  <2>2. PICK x : picked = {x}
    BY <1>1, <1>6, FS_Singleton
  <2>3. Fixing!Least(picked) \in picked
    BY <1>1, <2>2, LeastRow
  <2> QED
    BY <2>1, <2>2, <2>3 DEF picked
<1>7. CASE picked = {} /\ final # {}
  <2>1. Fixing!Survivor(S) = Fixing!Earliest(final)
    BY <1>2, <1>3, <1>7 DEF Fixing!Survivor, picked, final
  <2>2. Fixing!Earliest(final) \in final
    BY <1>4, <1>7, EarliestRow
  <2> QED
    BY <1>7, <2>1, <2>2 DEF picked, final
<1>8. CASE picked = {} /\ final = {}
  <2>1. Fixing!Survivor(S) = Fixing!Earliest(S)
    BY <1>2, <1>3, <1>8 DEF Fixing!Survivor, picked, final
  <2>2. Fixing!Earliest(S) \in S
    BY EarliestRow
  <2> QED
    BY <1>8, <2>1, <2>2 DEF picked
<1> QED
  BY <1>2, <1>5, <1>6, <1>7, <1>8

\* What a step keeps: each decided game, each game's newest quote, what quotes and picks are of.
LEMMA LosesNot ==
    ASSUME RowsOwn, QuotesOwn, RowsOwn', QuotesOwn', quoteOf' = quoteOf, Fixing!RepairsAssumption,
           \A r \in Fixing!Present : games[r].status = "final" =>
               \E s \in Fixing!Present' : owner'[s] = owner[r] /\ games'[s].status = "final",
           \A q \in DOMAIN odds \ DOMAIN odds' : \E p \in DOMAIN odds : p > q /\ quoteOf[p] = quoteOf[q],
           {owner[r] : r \in picks} = {owner'[r] : r \in picks'}
    PROVE  Fixing!LosesNothing
<1>1. ASSUME NEW e \in Played, Fixing!Decided(e) PROVE Fixing!Decided(e)'
  <2>1. PICK r \in Fixing!Present : owner[r] = e /\ games[r].status = "final"
    BY <1>1 DEF Fixing!Decided
  <2>2. PICK s \in Fixing!Present' : owner'[s] = e /\ games'[s].status = "final"
    BY <2>1
  <2>3. games'[s].score = e
    BY <2>2 DEF RowsOwn, Own, RowColumns
  <2> QED
    BY <2>2, <2>3 DEF Fixing!Decided
<1>2. ASSUME NEW e \in Played PROVE Fixing!Best(e) \subseteq DOMAIN odds'
  <2> SUFFICES ASSUME NEW q \in Fixing!Best(e), q \notin DOMAIN odds' PROVE FALSE
    OBVIOUS
  <2>1. q \in DOMAIN odds /\ quoteOf[q] = e /\ \A p \in DOMAIN odds : quoteOf[p] = e => p <= q
    BY DEF Fixing!Best
  <2>2. PICK p \in DOMAIN odds : p > q /\ quoteOf[p] = quoteOf[q]
    BY <2>1
  <2>3. p \in Nat /\ q \in Nat
    BY <2>1, <2>2 DEF QuotesOwn, Fixing!RepairsAssumption
  <2> QED
    BY <2>1, <2>2, <2>3
<1>3. \A q \in DOMAIN odds' : owner'[odds'[q]] = quoteOf[q]
  BY DEF QuotesOwn
<1> QED
  BY <1>1, <1>2, <1>3 DEF Fixing!LosesNothing

\* What every step of the scripts does.
Repaired == FixInv' /\ Fixing!LosesNothing

\* A step that only fills in rows, or makes one of a game of its own.
LEMMA Filling ==
    ASSUME Fixing!RepairsAssumption, FixInv, UNCHANGED <<picks, quoteOf>>,
           owner' \in [Rows -> Played], games' = [r \in Rows |-> games'[r]],
           \A r \in Fixing!Present : owner'[r] = owner[r] /\ games'[r].status # "absent"
                                     /\ (games[r].status = "final" => games'[r].status = "final"),
           \A r \in Rows : games'[r].status # "absent" => Own(games'[r], owner'[r]),
           odds' = odds, series' \in SUBSET Fixing!Present
    PROVE  Repaired
<1>1. Fixing!Present \in SUBSET Fixing!Present' /\ Fixing!Present \in SUBSET Rows
  BY DEF Fixing!Present
<1>2. RowsOwn'
  BY DEF RowsOwn, Fixing!Present, Own, RowColumns
<1>3. QuotesOwn'
  BY <1>1 DEF FixInv, QuotesOwn
<1>4. Fixing!LosesNothing
  BY <1>1, <1>2, <1>3, LosesNot DEF FixInv, QuotesOwn
<1> QED
  BY <1>2, <1>3, <1>4 DEF Repaired, FixInv

\* Rows are moved into others of the same games that stay.
Moves(into) ==
    /\ games' = [r \in Rows |-> games'[r]]
    /\ \A r \in Fixing!Present :
           /\ into[r] \in Fixing!Present /\ owner[into[r]] = owner[r] /\ into[into[r]] = into[r]
           /\ games[r].status = "final" => games'[into[r]].status = "final"
           /\ into[r] = r => games'[r].status # "absent"
    /\ \A r \in Rows : games'[r].status # "absent" => r \in Fixing!Present /\ Own(games'[r], owner[r])
    /\ DOMAIN odds' \in SUBSET DOMAIN odds /\ \A q \in DOMAIN odds' : odds'[q] = into[odds[q]]
    /\ \A q \in DOMAIN odds \ DOMAIN odds' : \E p \in DOMAIN odds : p > q /\ quoteOf[p] = quoteOf[q]
    /\ picks' = {into[r] : r \in picks} /\ series' = {into[r] : r \in series}

LEMMA Moving ==
    ASSUME Fixing!RepairsAssumption, FixInv, UNCHANGED <<owner, quoteOf>>, NEW into, Moves(into)
    PROVE  Repaired
<1>1. \A r \in Fixing!Present : into[r] \in Fixing!Present' /\ owner'[into[r]] = owner[r]
  BY DEF Moves, Fixing!Present
<1>2. RowsOwn'
  BY DEF Moves, FixInv, RowsOwn, Fixing!Present, Own, RowColumns
<1>3. QuotesOwn'
  <2>1. DOMAIN odds' \in SUBSET Quotes /\ picks' \in SUBSET Fixing!Present' /\ series' \in SUBSET Fixing!Present'
    BY <1>1 DEF Moves, FixInv, QuotesOwn
  <2>2. \A q \in DOMAIN odds' : odds'[q] \in Fixing!Present' /\ owner'[odds'[q]] = quoteOf'[q]
    BY <1>1 DEF Moves, FixInv, QuotesOwn
  <2> QED
    BY <2>1, <2>2 DEF QuotesOwn
<1>4. {owner[r] : r \in picks} = {owner'[r] : r \in picks'}
  BY DEF Moves, FixInv, QuotesOwn
<1>5. \A r \in Fixing!Present : games[r].status = "final" =>
          \E s \in Fixing!Present' : owner'[s] = owner[r] /\ games'[s].status = "final"
  BY <1>1 DEF Moves
<1>6. Fixing!LosesNothing
  BY <1>2, <1>3, <1>4, <1>5, LosesNot DEF Moves, FixInv
<1> QED
  BY <1>2, <1>3, <1>6 DEF Repaired, FixInv

LEMMA MergeRepairs ==
    ASSUME Fixing!RepairsAssumption, FixInv, Fixing!merge_duplicate_games
    PROVE  Repaired
<1> DEFINE dropped == UNION {Fixing!Colliding(Fixing!Twins(r)) : r \in Fixing!Merging}
           into == [r \in Rows |-> IF r \in Fixing!Losers THEN Fixing!Survivor(Fixing!Twins(r)) ELSE r]
<1>1. /\ Fixing!Losers \cap series = {} /\ UNCHANGED <<picks, series, owner, quoteOf>>
      /\ games' = [r \in Rows |-> CASE r \in Fixing!Losers -> Fixing!NoGame
                                    [] r \in Fixing!Merging \ Fixing!Losers -> Fixing!Inherited(r)
                                    [] OTHER -> games[r]]
      /\ odds' = [q \in DOMAIN odds \ dropped |-> IF odds[q] \in Fixing!Losers
                                                  THEN Fixing!Survivor(Fixing!Twins(odds[q])) ELSE odds[q]]
  BY DEF Fixing!merge_duplicate_games
<1>2. /\ Fixing!Losers \in SUBSET Fixing!Merging /\ Fixing!Merging \in SUBSET Fixing!Present
      /\ Fixing!Present \in SUBSET Rows
  BY DEF Fixing!Losers, Fixing!Merging, Fixing!Present
<1>3. ASSUME NEW r \in Fixing!Merging
      PROVE  /\ Fixing!Survivor(Fixing!Twins(r)) \in Fixing!Twins(r)
             /\ Fixing!Twins(r) \cap picks \in SUBSET {Fixing!Survivor(Fixing!Twins(r))}
             /\ games[r].espn # None /\ r \in Fixing!Twins(r) /\ Fixing!Twins(r) \in SUBSET Fixing!Present
  <2>1. /\ r \in Fixing!Present /\ games[r].espn # None /\ Fixing!Survivor(Fixing!Twins(r)) # None
        /\ r \in Fixing!Twins(r) /\ Fixing!Twins(r) \in SUBSET Fixing!Present
    BY DEF Fixing!Merging, Fixing!Twins
  <2> QED
    BY <2>1, SurvivorIs
<1>4. ASSUME NEW r \in Fixing!Losers
      PROVE  /\ into[r] \in Fixing!Twins(r) /\ into[r] \notin Fixing!Losers /\ into[r] \in Fixing!Merging
             /\ into[r] # r /\ r \notin picks
  <2> DEFINE s == Fixing!Survivor(Fixing!Twins(r))
  <2>1. r \in Fixing!Merging /\ r \in Rows /\ s # r
    BY <1>2 DEF Fixing!Losers
  <2>2. s \in Fixing!Twins(r) /\ Fixing!Twins(s) = Fixing!Twins(r) /\ s \in Fixing!Present
    BY <1>2, <1>3, <2>1, TwinsOwn
  <2>3. s \in Fixing!Merging
    BY <2>1, <2>2 DEF Fixing!Merging, Fixing!Twins
  <2>4. s \notin Fixing!Losers
    BY <2>2 DEF Fixing!Losers
  <2>5. r \notin picks
    BY <1>3, <2>1
  <2>6. into[r] = s
    BY <2>1
  <2> QED
    BY <2>1, <2>2, <2>3, <2>4, <2>5, <2>6
<1>5. \A r \in Rows \ Fixing!Losers : into[r] = r
  OBVIOUS
<1> HIDE DEF into
<1>6. ASSUME NEW r \in Fixing!Present
      PROVE  /\ into[r] \in Fixing!Present /\ owner[into[r]] = owner[r] /\ into[into[r]] = into[r]
             /\ games[r].status = "final" => games'[into[r]].status = "final"
  <2>1. CASE r \notin Fixing!Losers
    <3>1. into[r] = r /\ r \in Rows
      BY <1>2, <1>5, <2>1
    <3>2. games'[r] = IF r \in Fixing!Merging THEN Fixing!Inherited(r) ELSE games[r]
      BY <1>1, <2>1, <3>1
    <3>3. games[r].status = "final" => Fixing!Inherited(r) = games[r]
      BY DEF Fixing!Inherited
    <3> QED
      BY <3>1, <3>2, <3>3
  <2>2. CASE r \in Fixing!Losers
    <3> DEFINE s == into[r]
    <3>1. /\ s \in Fixing!Twins(r) /\ s \notin Fixing!Losers /\ s \in Fixing!Merging /\ games[r].espn # None
          /\ s \in Fixing!Present /\ s \in Rows
      BY <1>2, <1>3, <1>4, <2>2
    <3>2. owner[s] = owner[r] /\ Fixing!Twins(s) = Fixing!Twins(r)
      BY <3>1, TwinsOwn
    <3>3. games'[s] = Fixing!Inherited(s)
      BY <1>1, <3>1
    <3>4. Own(games[s], owner[s])
      BY <3>1 DEF FixInv, RowsOwn
    <3>5. ASSUME games[r].status = "final" PROVE games'[s].status = "final"
      <4>1. r \in {q \in Fixing!Twins(s) : games[q].status = "final"}
        BY <3>2, <3>5 DEF Fixing!Twins
      <4>2. games[s].status # "final" =>
                Fixing!Inherited(s) = [games[s] EXCEPT !.status = "final",
                     !.score = games[Fixing!Earliest({q \in Fixing!Twins(s) : games[q].status = "final"})].score]
        BY <4>1 DEF Fixing!Inherited
      <4>3. games[s].status = "final" => Fixing!Inherited(s) = games[s]
        BY DEF Fixing!Inherited
      <4> QED
        BY <3>3, <3>4, <4>2, <4>3 DEF Own, RowColumns
    <3> QED
      BY <1>5, <3>1, <3>2, <3>5
  <2> QED
    BY <2>1, <2>2
<1>7. ASSUME NEW r \in Rows
      PROVE  /\ games'[r].status # "absent" => r \in Fixing!Present /\ Own(games'[r], owner[r])
             /\ r \in Fixing!Present /\ into[r] = r => games'[r].status # "absent"
  <2>1. CASE r \in Fixing!Losers
    <3>1. games'[r] = Fixing!NoGame
      BY <1>1, <2>1
    <3> QED
      BY <1>4, <2>1, <3>1 DEF Fixing!NoGame
  <2>2. CASE r \in Fixing!Merging \ Fixing!Losers
    <3> DEFINE final == {q \in Fixing!Twins(r) : games[q].status = "final"}
               f == Fixing!Earliest(final)
    <3>1. games'[r] = Fixing!Inherited(r) /\ r \in Fixing!Present /\ Own(games[r], owner[r])
      BY <1>1, <1>2, <2>2 DEF FixInv, RowsOwn
    <3>2. CASE games[r].status # "final" /\ final # {}
      <4>1. final \in SUBSET Fixing!Present
        BY <1>3, <2>2
      <4> HIDE DEF final
      <4>2. f \in final
        BY <3>2, <4>1, EarliestRow
      <4> HIDE DEF f
      <4>3. f \in Fixing!Twins(r) /\ f \in Fixing!Present /\ games[f].status = "final"
        BY <4>1, <4>2 DEF final
      <4>4. owner[f] = owner[r]
        BY <1>3, <2>2, <3>1, <4>3, TwinsOwn
      <4>5. games[f].score = owner[r]
        BY <4>3, <4>4 DEF FixInv, RowsOwn, Own, RowColumns
      <4>6. games'[r] = [games[r] EXCEPT !.status = "final", !.score = owner[r]]
        BY <3>1, <3>2, <4>5 DEF Fixing!Inherited, final, f
      <4> QED
        BY <3>1, <4>6 DEF Own, RowColumns
    <3>3. CASE ~(games[r].status # "final" /\ final # {})
      <4>1. games'[r] = games[r]
        BY <3>1, <3>3 DEF Fixing!Inherited
      <4> QED
        BY <3>1, <4>1 DEF Fixing!Present
    <3> QED
      BY <3>2, <3>3
  <2>3. CASE r \notin Fixing!Merging
    <3>1. games'[r] = games[r]
      BY <1>1, <1>2, <2>3
    <3> QED
      BY <3>1 DEF FixInv, RowsOwn, Fixing!Present
  <2> QED
    BY <2>1, <2>2, <2>3
<1>8. games' = [r \in Rows |-> games'[r]] /\ DOMAIN odds' = DOMAIN odds \ dropped
  BY <1>1
<1>9. \A q \in DOMAIN odds' : odds'[q] = into[odds[q]]
  <2>1. \A q \in DOMAIN odds : odds[q] \in Rows
    BY <1>2 DEF FixInv, QuotesOwn
  <2> QED
    BY <1>1, <1>8, <2>1 DEF into
<1>10. ASSUME NEW q \in dropped PROVE \E p \in DOMAIN odds : p > q /\ quoteOf[p] = quoteOf[q]
  <2>1. PICK r \in Fixing!Merging : q \in Fixing!Colliding(Fixing!Twins(r))
    OBVIOUS
  <2>2. PICK p \in DOMAIN odds : odds[p] \in Fixing!Twins(r) /\ p > q /\ q \in DOMAIN odds /\ odds[q] \in Fixing!Twins(r)
    BY <2>1 DEF Fixing!Colliding
  <2>3. owner[odds[p]] = owner[r] /\ owner[odds[q]] = owner[r]
    BY <1>2, <1>3, <2>2, TwinsOwn
  <2> QED
    BY <2>2, <2>3 DEF FixInv, QuotesOwn
<1> HIDE DEF dropped
<1>11. picks' = {into[r] : r \in picks} /\ series' = {into[r] : r \in series}
  <2>1. \A r \in picks \cup series : into[r] = r
    BY <1>1, <1>2, <1>4, <1>5 DEF FixInv, QuotesOwn
  <2> QED
    BY <1>1, <2>1
<1>12. Moves(into)
  BY <1>1, <1>2, <1>6, <1>7, <1>8, <1>9, <1>10, <1>11 DEF Moves
<1> QED
  BY <1>1, <1>12, Moving

\* Rows that fix_team_identity moves, if it is not refused.
LEMMA RepointRepairs ==
    ASSUME Fixing!RepairsAssumption, FixInv, UNCHANGED <<owner, quoteOf>>,
           NEW into, Fixing!Repointed(into),
           \A r \in Rows : into[r] # r =>
               /\ r \in Fixing!Present /\ into[r] \in Fixing!Present /\ owner[into[r]] = owner[r]
               /\ into[into[r]] = into[r] /\ games[r].status # "final"
    PROVE  Repaired
<1>1. CASE Fixing!Refused(into)
  <2>1. UNCHANGED <<games, odds, picks, series>>
    BY <1>1 DEF Fixing!Repointed
  <2> QED
    BY <2>1, Filling DEF FixInv, RowsOwn, QuotesOwn, Fixing!Present
<1>2. CASE ~Fixing!Refused(into)
  <2>1. /\ games' = [r \in Rows |-> IF into[r] # r THEN Fixing!NoGame ELSE games[r]]
        /\ odds' = [q \in DOMAIN odds |-> into[odds[q]]]
        /\ picks' = {into[r] : r \in picks} /\ series' = {into[r] : r \in series}
    BY <1>2 DEF Fixing!Repointed
  <2>2. Fixing!Present \in SUBSET Rows
    BY DEF Fixing!Present
  <2>3. \A r \in Rows : /\ into[r] # r => games'[r].status = "absent"
                        /\ into[r] = r => games'[r] = games[r]
    BY <2>1 DEF Fixing!NoGame
  <2>4. games' = [r \in Rows |-> games'[r]] /\ DOMAIN odds' = DOMAIN odds /\ \A q \in DOMAIN odds' : odds'[q] = into[odds[q]]
    BY <2>1
  <2>5. ASSUME NEW r \in Fixing!Present
        PROVE  /\ into[r] \in Fixing!Present /\ owner[into[r]] = owner[r] /\ into[into[r]] = into[r]
               /\ games[r].status = "final" => games'[into[r]].status = "final"
               /\ into[r] = r => games'[r].status # "absent"
    BY <2>2, <2>3 DEF Fixing!Present
  <2>6. ASSUME NEW r \in Rows, games'[r].status # "absent" PROVE r \in Fixing!Present /\ Own(games'[r], owner[r])
    BY <2>3, <2>6 DEF Fixing!Present, FixInv, RowsOwn
  <2>7. Moves(into)
    BY <2>1, <2>4, <2>5, <2>6 DEF Moves
  <2> QED
    BY <2>7, Moving
<1> QED
  BY <1>1, <1>2

LEMMA DuplicatesRepair ==
    ASSUME Fixing!RepairsAssumption, Fixing!FarApart, FixInv, Fixing!resolve_duplicate_games
    PROVE  Repaired
<1> DEFINE final(r) == {q \in Fixing!SameFixture(r) : games[q].status = "final"}
           into == [r \in Rows |-> IF r \in Fixing!Present /\ Fixing!Cardinality(final(r)) = 1
                                   THEN Fixing!Least(final(r)) ELSE r]
<1>1. Fixing!Repointed(into) /\ UNCHANGED <<owner, quoteOf>>
  BY DEF Fixing!resolve_duplicate_games
<1>2. ASSUME NEW r \in Rows, into[r] # r
      PROVE  /\ r \in Fixing!Present /\ into[r] \in Fixing!Present /\ owner[into[r]] = owner[r]
             /\ into[into[r]] = into[r] /\ games[r].status # "final"
  <2> DEFINE s == Fixing!Least(final(r))
  <2>1. r \in Fixing!Present /\ Fixing!Cardinality(final(r)) = 1 /\ into[r] = s
    BY <1>2
  <2>2. final(r) \in SUBSET Rows /\ final(r) \in SUBSET Fixing!Present
    BY DEF Fixing!SameFixture, Fixing!Present
  <2>3. Cardinality(final(r)) = 1 /\ IsFiniteSet(final(r))
    BY <2>1, <2>2, FixCount, FixFinite
  <2>4. PICK x : final(r) = {x}
    BY <2>3, FS_Singleton
  <2>5. s \in final(r)
    BY <2>2, <2>4, LeastRow
  <2>6. s \in Fixing!Present /\ s \in Rows /\ games[s].day = games[r].day /\ games[s].team = games[r].team
    BY <2>2, <2>5 DEF Fixing!SameFixture
  <2>7. Fixing!SameFixture(s) = Fixing!SameFixture(r)
    BY <2>6 DEF Fixing!SameFixture
  <2>8. final(s) = final(r)
    BY <2>7
  <2>9. into[s] = s
    BY <2>1, <2>6, <2>8
  <2>10. games[r].status # "final"
    <3>1. games[r].status = "final" => r \in final(r)
      BY <2>1 DEF Fixing!SameFixture
    <3> QED
      BY <1>2, <2>1, <2>4, <2>5, <3>1
  <2>11. owner[s] = owner[r]
    <3>1. Own(games[s], owner[s]) /\ Own(games[r], owner[r]) /\ owner[s] \in Played /\ owner[r] \in Played
      BY <2>1, <2>6 DEF FixInv, RowsOwn, Fixing!Present
    <3>2. games[s].day \in {Day[owner[s]], Day[owner[s]] + 1} /\ games[r].day \in {Day[owner[r]], Day[owner[r]] + 1}
      BY <3>1 DEF Own, RowColumns
    <3>3. games[r].day - games[s].day \in -1 .. 1
      BY <2>6, <3>1, <3>2 DEF Fixing!RepairsAssumption
    <3> QED
      BY <3>1, <3>2, <3>3, SameEvent
  <2> QED
    BY <2>1, <2>6, <2>9, <2>10, <2>11
<1> HIDE DEF into
<1> QED
  BY <1>1, <1>2, RepointRepairs

LEMMA TwinsRepair ==
    ASSUME Fixing!RepairsAssumption, Fixing!FarApart, FixInv, Fixing!resolve_offset_twins
    PROVE  Repaired
<1> DEFINE home(r) == {q \in Rows : Fixing!Real(q) /\ (<<r, q>> \in Fixing!Neighbours \/ <<q, r>> \in Fixing!Neighbours)}
           into == [r \in Rows |-> IF r \in Fixing!Present /\ Fixing!Empty(r) /\ home(r) # {}
                                   THEN Fixing!Earliest(home(r)) ELSE r]
<1>1. Fixing!Repointed(into) /\ UNCHANGED <<owner, quoteOf>>
  BY DEF Fixing!resolve_offset_twins
<1>2. ASSUME NEW r \in Rows, into[r] # r
      PROVE  /\ r \in Fixing!Present /\ into[r] \in Fixing!Present /\ owner[into[r]] = owner[r]
             /\ into[into[r]] = into[r] /\ games[r].status # "final"
  <2> DEFINE s == Fixing!Earliest(home(r))
  <2>1. r \in Fixing!Present /\ Fixing!Empty(r) /\ home(r) # {} /\ into[r] = s
    BY <1>2
  <2>2. home(r) \in SUBSET Fixing!Present
    BY DEF Fixing!Real, Fixing!Present
  <2> HIDE DEF into
  <2>3. s \in home(r)
    BY <2>1, <2>2, EarliestRow
  <2> HIDE DEF s
  <2>4. /\ s \in Fixing!Present /\ s \in Rows /\ Fixing!Real(s)
        /\ <<r, s>> \in Fixing!Neighbours \/ <<s, r>> \in Fixing!Neighbours
    BY <2>2, <2>3
  <2>5. games[s].day - games[r].day = 1 \/ games[r].day - games[s].day = 1
    BY <2>4 DEF Fixing!Neighbours
  <2>6. into[s] = s
    BY <2>4 DEF into, Fixing!Real, Fixing!Empty
  <2>7. owner[s] = owner[r]
    <3>1. Own(games[s], owner[s]) /\ Own(games[r], owner[r]) /\ owner[s] \in Played /\ owner[r] \in Played
      BY <2>1, <2>4 DEF FixInv, RowsOwn, Fixing!Present
    <3>2. games[s].day \in {Day[owner[s]], Day[owner[s]] + 1} /\ games[r].day \in {Day[owner[r]], Day[owner[r]] + 1}
      BY <3>1 DEF Own, RowColumns
    <3>3. games[r].day - games[s].day \in -1 .. 1
      BY <2>5, <3>1, <3>2 DEF Fixing!RepairsAssumption
    <3> QED
      BY <3>1, <3>2, <3>3, SameEvent
  <2> QED
    BY <2>1, <2>4, <2>6, <2>7 DEF Fixing!Empty
<1> HIDE DEF into
<1> QED
  BY <1>1, <1>2, RepointRepairs

\* The repair of the team rows, and of the odds rows.
LEMMA OthersRepair ==
    ASSUME Fixing!RepairsAssumption, FixInv,
           \/ Fixing!repair \/ Fixing!Stop \/ Fixing!seed_from_odds \/ Fixing!backfill_game_flags
           \/ \E e \in Played : Fixing!Play(e)
           \/ UNCHANGED Fixing!vars
    PROVE  Repaired
<1>1. /\ UNCHANGED <<picks, quoteOf, owner, odds>> /\ games' = [r \in Rows |-> games'[r]]
      /\ series' \in SUBSET Fixing!Present
  BY DEF FixInv, RowsOwn, QuotesOwn, Fixing!repair, Fixing!Stop, Fixing!seed_from_odds,
         Fixing!backfill_game_flags, Fixing!Play, Fixing!vars
<1>2. ASSUME NEW r \in Rows
      PROVE  /\ r \in Fixing!Present => games'[r].status = games[r].status /\ Own(games'[r], owner[r])
             /\ r \notin Fixing!Present => games'[r].status = "absent"
  <2>1. r \in Fixing!Present => Own(games[r], owner[r])
    BY DEF FixInv, RowsOwn
  <2>2. CASE Fixing!repair
    <3>1. PICK merged, team : games'[r] = IF games[r].team \in merged THEN [games[r] EXCEPT !.team = team] ELSE games[r]
      BY <2>2 DEF Fixing!repair
    <3> QED
      BY <2>1, <3>1 DEF Own, RowColumns, Fixing!Present
  <2>3. CASE Fixing!backfill_game_flags
    <3>1. \/ games'[r] = games[r]
          \/ r \in Fixing!Present /\ games'[r] = [games[r] EXCEPT !.flags = games[r].espn]
      BY <2>3 DEF Fixing!backfill_game_flags
    <3> QED
      BY <2>1, <3>1 DEF Own, RowColumns, Fixing!Present
  <2>4. CASE games' = games
    BY <2>1, <2>4 DEF Fixing!Present
  <2> QED
    BY <2>2, <2>3, <2>4 DEF Fixing!Stop, Fixing!seed_from_odds, Fixing!Play, Fixing!vars
<1>3. owner' \in [Rows -> Played] /\ Fixing!Present \in SUBSET Rows
  BY <1>1 DEF FixInv, RowsOwn, Fixing!Present
<1>4. \A r \in Fixing!Present : owner'[r] = owner[r] /\ games'[r].status # "absent"
                                /\ (games[r].status = "final" => games'[r].status = "final")
  BY <1>1, <1>2, <1>3 DEF Fixing!Present
<1>5. \A r \in Rows : games'[r].status # "absent" => Own(games'[r], owner'[r])
  BY <1>1, <1>2
<1> QED
  BY <1>1, <1>3, <1>4, <1>5, Filling

\* What a lookup finds is written to the row it was for.
LEMMA LookupsRepair ==
    ASSUME Fixing!RepairsAssumption, Fixing!FarApart, FixInv, NEW failed,
           Fixing!restore_miscanceled_games(failed) \/ Fixing!backfill_espn_ids(failed)
    PROVE  Repaired
<1>1. UNCHANGED <<picks, quoteOf, owner, odds, series>> /\ games' = [r \in Rows |-> games'[r]]
  BY DEF FixInv, RowsOwn, Fixing!restore_miscanceled_games, Fixing!backfill_espn_ids
<1>2. ASSUME NEW r \in Rows
      PROVE  /\ r \in Fixing!Present =>
                    /\ games'[r].status # "absent" /\ (games[r].status = "final" => games'[r].status = "final")
                    /\ Own(games'[r], owner[r])
             /\ r \notin Fixing!Present => games'[r].status = "absent"
  <2> DEFINE f == Fixing!Looked(games[r].day, failed)
  <2>1. r \in Fixing!Present => Own(games[r], owner[r])
    BY DEF FixInv, RowsOwn
  <2>2. r \in Fixing!Present => f \in {owner[r], None}
    BY <2>1, LookedOwn DEF FixInv, RowsOwn, Own, RowColumns
  <2>3. \/ games'[r] = games[r]
        \/ /\ r \in Fixing!Present /\ f # None
           /\ games'[r] = [games[r] EXCEPT !.status = "final", !.score = f, !.espn = IF @ = None THEN f ELSE @]
        \/ r \in Fixing!Present /\ games'[r] = [games[r] EXCEPT !.espn = f]
    BY DEF Fixing!restore_miscanceled_games, Fixing!backfill_espn_ids
  <2> HIDE DEF f
  <2> QED
    BY <2>1, <2>2, <2>3 DEF Own, RowColumns, Fixing!Present
<1>3. owner' \in [Rows -> Played] /\ Fixing!Present \in SUBSET Rows /\ series' \in SUBSET Fixing!Present
  BY <1>1 DEF FixInv, RowsOwn, QuotesOwn, Fixing!Present
<1>4. \A r \in Fixing!Present : owner'[r] = owner[r] /\ games'[r].status # "absent"
                                /\ (games[r].status = "final" => games'[r].status = "final")
  BY <1>1, <1>2, <1>3
<1>5. \A r \in Rows : games'[r].status # "absent" => Own(games'[r], owner'[r])
  BY <1>1, <1>2
<1> QED
  BY <1>1, <1>3, <1>4, <1>5, Filling

\* A stored event is written to a row of its own.
LEMMA FetchRepairs ==
    ASSUME Fixing!RepairsAssumption, Fixing!FarApart, FixInv, NEW d, Fixing!fetch_date(d)
    PROVE  Repaired
<1>1. PICK e \in Fixing!Board(d) :
          IF Fixing!Found(e) # {}
          THEN /\ games' = [games EXCEPT ![Fixing!Least(Fixing!Found(e))] = Fixing!Filled(@, e)]
               /\ UNCHANGED owner
          ELSE \E r \in Rows \ Fixing!Present :
                  /\ games' = [games EXCEPT ![r] = Fixing!Fresh(e)]
                  /\ owner' = [owner EXCEPT ![r] = e]
  BY DEF Fixing!fetch_date
<1>2. UNCHANGED <<picks, quoteOf, odds, series>> /\ series' \in SUBSET Fixing!Present
  BY DEF Fixing!fetch_date, FixInv, QuotesOwn
<1>3. e \in Played /\ e # None /\ Day[e] \in Nat
  BY DEF Fixing!Board, Fixing!RepairsAssumption
<1>4. owner \in [Rows -> Played] /\ games = [r \in Rows |-> games[r]] /\ Fixing!Present \in SUBSET Rows
  BY DEF FixInv, RowsOwn, Fixing!Present
<1>5. \A r \in Fixing!Present : Own(games[r], owner[r])
  BY DEF FixInv, RowsOwn
<1>6. PICK r \in Rows :
          /\ games' = [games EXCEPT ![r] = games'[r]] /\ owner' \in [Rows -> Played] /\ Own(games'[r], owner'[r])
          /\ \A q \in Fixing!Present : owner'[q] = owner[q]
          /\ \A q \in Rows \ {r} : owner'[q] = owner[q]
          /\ r \in Fixing!Present => games'[r].status # "absent"
                                     /\ (games[r].status = "final" => games'[r].status = "final")
  <2>1. CASE Fixing!Found(e) # {}
    <3> DEFINE r == Fixing!Least(Fixing!Found(e))
    <3>1. Fixing!Found(e) \in SUBSET Fixing!Present
      BY DEF Fixing!Found
    <3>2. r \in Fixing!Found(e)
      BY <1>4, <2>1, <3>1, LeastRow
    <3>3. games' = [games EXCEPT ![r] = Fixing!Filled(games[r], e)] /\ owner' = owner
      BY <1>1, <2>1
    <3> HIDE DEF r
    <3>4. r \in Fixing!Present /\ r \in Rows /\ Own(games[r], owner[r]) /\ owner[r] \in Played
      BY <1>4, <1>5, <3>1, <3>2
    <3>5. owner[r] = e
      <4>1. games[r].espn = e \/ games[r].day = Day[e]
        BY <3>2 DEF Fixing!Found
      <4>2. CASE games[r].espn = e
        BY <1>3, <3>4, <4>2 DEF Own, RowColumns
      <4>3. CASE games[r].day = Day[e]
        <5>1. games[r].day \in {Day[owner[r]], Day[owner[r]] + 1} /\ Day[e] \in {Day[e], Day[e] + 1}
          BY <3>4 DEF Own, RowColumns
        <5>2. Day[e] - games[r].day \in -1 .. 1
          BY <1>3, <4>3
        <5> QED
          BY <1>3, <3>4, <5>1, <5>2, SameEvent
      <4> QED
        BY <4>1, <4>2, <4>3
    <3>6. games'[r] = Fixing!Filled(games[r], e)
      BY <1>4, <3>3, <3>4
    <3>7. /\ Own(Fixing!Filled(games[r], e), e)
          /\ Fixing!Filled(games[r], e).status \in {games[r].status, "final"}
      BY <3>4, <3>5 DEF Fixing!Filled, Own, RowColumns
    <3>8. games[r].status # "absent"
      BY <3>4 DEF Fixing!Present
    <3> QED
      BY <1>4, <3>3, <3>4, <3>5, <3>6, <3>7, <3>8
  <2>2. CASE Fixing!Found(e) = {}
    <3>1. PICK r \in Rows \ Fixing!Present : games' = [games EXCEPT ![r] = Fixing!Fresh(e)] /\ owner' = [owner EXCEPT ![r] = e]
      BY <1>1, <2>2
    <3>2. games'[r] = Fixing!Fresh(e) /\ owner'[r] = e
      BY <1>4, <3>1
    <3>3. Own(Fixing!Fresh(e), e)
      BY DEF Fixing!Fresh, Own, RowColumns
    <3> QED
      BY <1>3, <1>4, <3>1, <3>2, <3>3
  <2> QED
    BY <2>1, <2>2
<1>7. games' = [q \in Rows |-> games'[q]] /\ \A q \in Rows \ {r} : games'[q] = games[q]
  BY <1>4, <1>6
<1>8. \A q \in Fixing!Present : owner'[q] = owner[q] /\ games'[q].status # "absent"
                                /\ (games[q].status = "final" => games'[q].status = "final")
  BY <1>4, <1>6, <1>7 DEF Fixing!Present
<1>9. \A q \in Rows : games'[q].status # "absent" => Own(games'[q], owner'[q])
  BY <1>5, <1>6, <1>7 DEF Fixing!Present
<1> QED
  BY <1>2, <1>6, <1>7, <1>8, <1>9, Filling

LEMMA DedupeRepairs ==
    ASSUME Fixing!RepairsAssumption, FixInv, Fixing!dedupe_odds_rows
    PROVE  Repaired
<1> DEFINE dropped == UNION {Fixing!Colliding({r}) : r \in Rows}
           into == [r \in Rows |-> r]
<1>1. /\ DOMAIN odds' = DOMAIN odds \ dropped /\ \A q \in DOMAIN odds' : odds'[q] = odds[q]
      /\ UNCHANGED <<games, picks, series, owner, quoteOf>>
  BY DEF Fixing!dedupe_odds_rows
<1>2. ASSUME NEW q \in dropped PROVE \E p \in DOMAIN odds : p > q /\ quoteOf[p] = quoteOf[q]
  <2>1. PICK r \in Rows : q \in Fixing!Colliding({r})
    OBVIOUS
  <2>2. PICK p \in DOMAIN odds : odds[p] = r /\ p > q /\ q \in DOMAIN odds /\ odds[q] = r
    BY <2>1 DEF Fixing!Colliding
  <2> QED
    BY <2>2 DEF FixInv, QuotesOwn
<1> HIDE DEF dropped
<1>3. Fixing!Present \in SUBSET Rows /\ \A r \in Rows : into[r] = r
  BY DEF Fixing!Present
<1> HIDE DEF into
<1>4. \A q \in DOMAIN odds' : odds'[q] = into[odds[q]]
  BY <1>1, <1>3 DEF FixInv, QuotesOwn
<1>5. picks' = {into[r] : r \in picks} /\ series' = {into[r] : r \in series}
  <2>1. \A r \in picks \cup series : into[r] = r
    BY <1>3 DEF FixInv, QuotesOwn
  <2> QED
    BY <1>1, <2>1
<1>6. \A r \in Fixing!Present :
          /\ into[r] \in Fixing!Present /\ owner[into[r]] = owner[r] /\ into[into[r]] = into[r]
          /\ games[r].status = "final" => games'[into[r]].status = "final"
          /\ into[r] = r => games'[r].status # "absent"
  BY <1>1, <1>3 DEF Fixing!Present
<1>7. /\ games' = [r \in Rows |-> games'[r]]
      /\ \A r \in Rows : games'[r].status # "absent" => r \in Fixing!Present /\ Own(games'[r], owner[r])
  BY <1>1 DEF FixInv, RowsOwn, Fixing!Present
<1>8. Moves(into)
  BY <1>1, <1>2, <1>4, <1>5, <1>6, <1>7 DEF Moves
<1> QED
  BY <1>1, <1>8, Moving

LEMMA RepairsStep ==
    ASSUME Fixing!RepairsAssumption, Fixing!FarApart, FixInv, [Fixing!Next]_(Fixing!vars)
    PROVE  Repaired
<1>1. CASE Fixing!merge_duplicate_games
  BY <1>1, MergeRepairs
<1>2. CASE Fixing!resolve_duplicate_games
  BY <1>2, DuplicatesRepair
<1>3. CASE Fixing!resolve_offset_twins
  BY <1>3, TwinsRepair
<1>4. CASE \E failed \in Faults : Fixing!restore_miscanceled_games(failed) \/ Fixing!backfill_espn_ids(failed)
  BY <1>4, LookupsRepair
<1>5. CASE \E d \in Fixing!daterange : Fixing!fetch_date(d)
  BY <1>5, FetchRepairs
<1>6. CASE Fixing!dedupe_odds_rows
  BY <1>6, DedupeRepairs
<1>7. CASE \/ Fixing!repair \/ Fixing!Stop \/ Fixing!seed_from_odds \/ Fixing!backfill_game_flags
           \/ \E e \in Played : Fixing!Play(e)
           \/ UNCHANGED Fixing!vars
  BY <1>7, OthersRepair
<1> QED
  BY <1>1, <1>2, <1>3, <1>4, <1>5, <1>6, <1>7 DEF Fixing!Next

LEMMA RepairsStart == ASSUME Fixing!RepairsAssumption, Fixing!Init PROVE FixInv
<1>1. ASSUME NEW e \in Played, NEW held \in Fixing!Made(e) PROVE Own(held, e)
  <2> DEFINE listed == [Fixing!NoGame EXCEPT !.team = 1, !.day = Day[e], !.status = "scheduled"]
             Base == {[listed EXCEPT !.espn = e, !.flags = e], [listed EXCEPT !.day = @ + 1], listed}
             Quoted == {[listed EXCEPT !.team = t] : t \in Fixing!Team({"name", "alias"})}
  <2>1. \/ held \in Base \/ \E b \in Base : held = [b EXCEPT !.status = "canceled"]
        \/ \E b \in Base : held = [b EXCEPT !.status = "final", !.score = e]
        \/ held \in Quoted \/ \E b \in Quoted : held = [b EXCEPT !.status = "canceled"]
    BY DEF Fixing!Made
  <2>2. /\ DOMAIN listed = RowColumns /\ listed.day = Day[e] /\ listed.espn = None
        /\ listed.status = "scheduled" /\ listed.score = None /\ listed.flags = None
    BY DEF Fixing!NoGame, RowColumns
  <2> HIDE DEF listed
  <2>3. ASSUME NEW b \in Base \cup Quoted PROVE Own(b, e) /\ b.status # "final"
    <3>1. CASE b = [listed EXCEPT !.espn = e, !.flags = e]
      BY <2>2, <3>1 DEF Own, RowColumns
    <3>2. CASE b = [listed EXCEPT !.day = @ + 1]
      BY <2>2, <3>2 DEF Own, RowColumns
    <3>3. CASE b = listed
      BY <2>2, <3>3 DEF Own
    <3>4. CASE \E t \in Fixing!Team({"name", "alias"}) : b = [listed EXCEPT !.team = t]
      BY <2>2, <3>4 DEF Own, RowColumns
    <3> QED
      BY <3>1, <3>2, <3>3, <3>4
  <2> HIDE DEF Base, Quoted
  <2> QED
    BY <2>1, <2>3 DEF Own, RowColumns
<1>2. RowsOwn
  <2>1. owner \in [Rows -> Played] /\ games = [r \in Rows |-> games[r]]
        /\ \A r \in Fixing!Present : games[r] \in Fixing!Made(owner[r])
    BY DEF Fixing!Init
  <2>2. \A r \in Fixing!Present : owner[r] \in Played
    BY <2>1 DEF Fixing!Present
  <2> QED
    BY <1>1, <2>1, <2>2 DEF RowsOwn
<1>3. QuotesOwn
  <2>1. /\ odds \in [Quotes -> Fixing!Present] /\ quoteOf = [q \in Quotes |-> owner[odds[q]]]
        /\ picks \in {{r} : r \in Fixing!Present} /\ series = {}
    BY DEF Fixing!Init
  <2> QED
    BY <2>1 DEF QuotesOwn
<1> QED
  BY <1>2, <1>3 DEF FixInv

\* A row's result, ESPN id and flags stay those of the game it was made for, through every
\* script, however its requests fail and wherever it is stopped.
THEOREM OwnResultHolds ==
    ASSUME Fixing!RepairsAssumption, Fixing!FarApart PROVE Fixing!Spec => []Fixing!OwnResult
<1>1. Fixing!Init => FixInv
  BY RepairsStart
<1>2. FixInv /\ [Fixing!Next]_(Fixing!vars) => FixInv'
  BY RepairsStep DEF Repaired
<1>3. FixInv => Fixing!OwnResult
  <2> SUFFICES ASSUME FixInv, NEW r \in Fixing!Present
               PROVE  {games[r].score, games[r].espn, games[r].flags} \subseteq {owner[r], None}
    BY DEF Fixing!OwnResult
  <2> QED
    BY DEF FixInv, RowsOwn, Own, RowColumns
<1> QED
  BY <1>1, <1>2, <1>3, PTL DEF Fixing!Spec

\* No script loses a decided result or a game's newest quote, or moves a quote or a pick onto
\* another game: merging rows, moving what refers to them and clearing doubles included.
THEOREM RepairsLoseNothing ==
    ASSUME Fixing!RepairsAssumption, Fixing!FarApart PROVE Fixing!Spec => Fixing!NothingLost
<1>1. Fixing!Init => FixInv
  BY RepairsStart
<1>2. FixInv /\ [Fixing!Next]_(Fixing!vars) => FixInv' /\ [Fixing!LosesNothing]_(Fixing!vars)
  BY RepairsStep DEF Repaired
<1> QED
  BY <1>1, <1>2, PTL DEF Fixing!Spec, Fixing!NothingLost
=============================================================================
