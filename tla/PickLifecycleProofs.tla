------------------------ MODULE PickLifecycleProofs ------------------------
(***************************************************************************)
(* What holds of stored picks for any slate, runs, digests and graders: a  *)
(* graded pick is history, and what was emailed stays published as long as *)
(* no run overlaps another or the digest; and a starred pick of one game   *)
(* has the reasons its tier asks for (Selection).                          *)
(***************************************************************************)
EXTENDS PickLifecycle, FiniteSetTheorems, TLAPS

-----------------------------------------------------------------------------
(* Types *)

Advised == [pick : Rows, side : {a.side : a \in Answers} \cup {Absent},
            odds : {a.odds : a \in Answers} \cup {0}]

RunState ==
    [loaded : SUBSET Rows, seen : [Rows -> RowSet] \cup {<<>>}, emailed : SUBSET Rows,
     graded : SUBSET Rows, todo : SUBSET Games, busy : BOOLEAN]

Versions == {Tracked(row) : row \in RowSet}

\* The types of the tables and of what is in memory.
Typed ==
    /\ pick \in [Rows -> RowSet] /\ results \in [Rows -> Nat]
    /\ vers \in [Rows -> Seq(Versions)]
    /\ emailed \subseteq Advised /\ inbox \subseteq Advised
    /\ lock \in Runs \cup {Free}
    /\ lock # Free => tx.pick \in [Rows -> RowSet] /\ tx.vers \in [Rows -> Seq(Versions)]
    /\ run \in [Runs -> RunState]
    /\ \A r \in Runs : run[r].busy => run[r].seen \in [Rows -> RowSet]
    /\ \A r \in Runs : run[r].todo # {} \/ lock = r => run[r].busy
    /\ due \in [Graders -> SUBSET Rows]
    /\ digest \in [Digests -> [at : {"idle", "selected", "sent", "done"}, says : SUBSET Advised]]

\* The tables a run changes.
Work(r) == IF lock = r THEN tx.pick ELSE pick
WorkVers(r) == IF lock = r THEN tx.vers ELSE vers

\* The first row of a market.
Inserted(answers, m) ==
    [market |-> m, side |-> answers[m].side, odds |-> answers[m].odds,
     tracked |-> answers[m].tracked, withdrawn |-> FALSE]

\* What pricing a game writes, row by row.
Outcome(r, answers, id) ==
    LET changed == Changed(r, answers) IN
    /\ lock \in {Free, r} /\ lock' = r
    /\ DOMAIN id = Fresh(r, answers)
    /\ \A m \in DOMAIN id : id[m] \in Rows /\ Work(r)[id[m]].market = Absent
    /\ \A m, n \in DOMAIN id : id[m] = id[n] => m = n
    /\ tx'.pick = [p \in Rows |-> tx'.pick[p]] /\ tx'.vers = [p \in Rows |-> tx'.vers[p]]
    /\ \A p \in Rows : p \in DOMAIN changed =>
          /\ tx'.pick[p] = Update(Work(r)[p], run[r].seen[p], changed[p])
          /\ tx'.vers[p] = Versioned(WorkVers(r)[p], changed[p])
    /\ \A m \in DOMAIN id : id[m] \notin DOMAIN changed =>
          /\ tx'.pick[id[m]] = Inserted(answers, m)
          /\ tx'.vers[id[m]] = Versioned(WorkVers(r)[id[m]], Inserted(answers, m))
    /\ \A p \in Rows : p \notin DOMAIN changed /\ (\A m \in DOMAIN id : id[m] # p) =>
          tx'.pick[p] = Work(r)[p] /\ tx'.vers[p] = WorkVers(r)[p]

\* What pricing a game does to one row: nothing, a refresh or a withdrawal of a
\* pick that the run knows and may change, or an insertion.
Rewritten(r, p) ==
    \E new \in RowSet :
        /\ p \in run[r].loaded /\ Refreshable(r, p)
        /\ new.market = run[r].seen[p].market
        /\ p \in run[r].emailed => ~ new.withdrawn /\ new.tracked = run[r].seen[p].tracked
        /\ tx'.pick[p] = Update(Work(r)[p], run[r].seen[p], new)

Priced(r) ==
    /\ lock \in {Free, r} /\ lock' = r
    /\ tx'.pick \in [Rows -> RowSet] /\ tx'.vers \in [Rows -> Seq(Versions)]
    /\ \A p \in Rows : \/ tx'.pick[p] = Work(r)[p]
                       \/ Rewritten(r, p)
                       \/ Work(r)[p].market = Absent

\* A side with a price of that side.
Pairs(row) == [side |-> row.side, odds |-> row.odds] \in Answers

\* An answer is a pick on a known side at a known price, or none.
LEMMA AnswersTyped ==
    ASSUME NEW g \in Games, NEW answers \in Responses(g), NEW m \in DOMAIN answers
    PROVE  /\ m \in Markets /\ GameOf[m] = g
           /\ \/ answers[m] = NoAnswer
              \/ answers[m] \in AnswerSet /\ Pairs(answers[m])
<1> DEFINE priced == {a \in AnswerSet : [side |-> a.side, odds |-> a.odds] \in Answers}
<1>1. PICK silent \in SUBSET (MarketsOf(g) \cap Props) :
          answers \in [MarketsOf(g) \ silent -> {NoAnswer} \cup priced]
  BY DEF Responses
<1> QED BY <1>1 DEF MarketsOf, Pairs

LEMMA UpdateTyped ==
    ASSUME NEW row \in RowSet, NEW seen \in RowSet, NEW new \in RowSet
    PROVE  /\ Update(row, seen, new) \in RowSet
           /\ new.market = seen.market => Update(row, seen, new).market = row.market
           /\ Update(row, seen, new).withdrawn \in {row.withdrawn, new.withdrawn}
           /\ Update(row, seen, new).tracked \in {row.tracked, new.tracked}
           /\ row = seen => Update(row, seen, new) = new
BY DEF Update, RowSet

\* What a run computes for one row it knows.
LEMMA ChangedTyped ==
    ASSUME Typed, PickAssumption, NEW r \in Runs, NEW g \in Games, NEW answers \in Responses(g),
           run[r].busy, NEW p \in DOMAIN Changed(r, answers)
    PROVE  LET new == Changed(r, answers)[p] IN
           /\ p \in run[r].loaded /\ Refreshable(r, p) /\ p \in Rows
           /\ new \in RowSet /\ new.market = run[r].seen[p].market
           /\ GameOf[new.market] = g /\ (Pairs(run[r].seen[p]) => Pairs(new))
           /\ p \in run[r].emailed => ~ new.withdrawn /\ new.tracked = run[r].seen[p].tracked
<1> DEFINE seen == run[r].seen
           answer(q) == answers[seen[q].market]
           touched == UNION {Known(r, m) : m \in DOMAIN answers}
           new == Changed(r, answers)[p]
<1>1. /\ p \in touched
      /\ IF answer(p) = NoAnswer THEN Withdrawable(r, p) ELSE Refreshable(r, p)
      /\ new = IF answer(p) = NoAnswer THEN [seen[p] EXCEPT !.withdrawn = TRUE]
                                       ELSE Refreshed(r, p, answer(p))
  BY DEF Changed
<1>2. PICK m \in DOMAIN answers : p \in run[r].loaded /\ seen[p].market = m
  BY <1>1 DEF Known
<1>3. p \in Rows /\ seen[p] \in RowSet
  BY <1>2 DEF Typed, RunState
<1>4. /\ answer(p) = NoAnswer \/ (answer(p) \in AnswerSet /\ Pairs(answer(p)))
      /\ GameOf[seen[p].market] = g
  <2>1. answer(p) = answers[m]
    BY <1>2
  <2> HIDE DEF seen, answer, touched, new
  <2> QED BY <1>2, <2>1, AnswersTyped
<1> HIDE DEF seen, answer, touched, new
<1>5. CASE answer(p) = NoAnswer
  <2>1. new = [seen[p] EXCEPT !.withdrawn = TRUE] /\ Withdrawable(r, p)
    BY <1>1, <1>5
  <2>2. /\ new \in RowSet /\ new.market = seen[p].market
        /\ new.side = seen[p].side /\ new.odds = seen[p].odds
    BY <1>3, <2>1 DEF RowSet
  <2>3. Pairs(seen[p]) => Pairs(new)
    BY <2>2 DEF Pairs
  <2> QED BY <1>2, <1>3, <1>4, <2>1, <2>2, <2>3 DEF Withdrawable, seen, new
<1>6. CASE answer(p) # NoAnswer
  <2>1. /\ new = Refreshed(r, p, answer(p)) /\ Refreshable(r, p)
        /\ answer(p) \in AnswerSet /\ Pairs(answer(p))
    BY <1>1, <1>4, <1>6
  <2>2. /\ new \in RowSet /\ new.market = seen[p].market /\ new.withdrawn = FALSE
        /\ new.side = answer(p).side /\ new.odds = answer(p).odds
        /\ p \in run[r].emailed => new.tracked = seen[p].tracked
    BY <1>3, <2>1 DEF Refreshed, RowSet, AnswerSet, seen
  <2>3. Pairs(new)
    BY <2>1, <2>2 DEF Pairs
  <2> QED BY <1>2, <1>3, <1>4, <2>1, <2>2, <2>3 DEF seen, new
<1> QED BY <1>5, <1>6

\* Recording a version makes the row's the latest one.
LEMMA VersionedLast ==
    ASSUME NEW history \in Seq(Versions), NEW row \in RowSet
    PROVE  /\ Versioned(history, row) \in Seq(Versions)
           /\ Versioned(history, row) # <<>> /\ Last(Versioned(history, row)) = Tracked(row)
<1>1. CASE history # <<>> /\ Last(history) = Tracked(row)
  BY <1>1 DEF Versioned
<1>2. CASE ~ (history # <<>> /\ Last(history) = Tracked(row))
  <2> DEFINE v == Tracked(row)
             longer == Append(history, v)
  <2>1. v \in Versions
    BY DEF Versions
  <2>2. Versioned(history, row) = longer
    BY <1>2 DEF Versioned
  <2> HIDE DEF v
  <2>3. /\ longer \in Seq(Versions) /\ Len(longer) = Len(history) + 1 /\ Len(history) \in Nat
        /\ longer[Len(history) + 1] = v
    BY <2>1
  <2> HIDE DEF longer
  <2>4. longer # <<>> /\ Last(longer) = v
    BY <2>3 DEF Last
  <2> QED BY <2>2, <2>3, <2>4 DEF v
<1> QED BY <1>1, <1>2

\* What pricing a game writes.
LEMMA PriceRows ==
    ASSUME NEW r \in Runs, NEW g \in Games,
           NEW answers \in Responses(g), Price(r, g, answers), ~ UNCHANGED <<lock, tx>>
    PROVE  \E id \in NewIds(Work(r), Fresh(r, answers)) : Outcome(r, answers, id)
<1> DEFINE changed == Changed(r, answers)
           fresh == Fresh(r, answers)
           work == IF lock = r THEN tx ELSE [pick |-> pick, vers |-> vers]
           made(id, p) == CHOOSE m \in DOMAIN id : id[m] = p
<1>1. work.pick = Work(r) /\ work.vers = WorkVers(r)
  BY DEF Work, WorkVers
<1>2. PICK id \in NewIds(Work(r), fresh) :
        lock \in {Free, r} /\ lock' = r /\ tx' = Written(r, work, answers, id)
  BY <1>1 DEF Price
<1>3. /\ DOMAIN id = fresh
      /\ \A m \in DOMAIN id : id[m] \in Rows /\ Work(r)[id[m]].market = Absent
      /\ \A m, n \in DOMAIN id : id[m] = id[n] => m = n
  BY <1>2 DEF NewIds, Stored
<1>4. \A m \in DOMAIN id : made(id, id[m]) = m
  BY <1>3
<1> DEFINE row(p) == [market |-> made(id, p), side |-> answers[made(id, p)].side,
                      odds |-> answers[made(id, p)].odds,
                      tracked |-> answers[made(id, p)].tracked, withdrawn |-> FALSE]
<1>5. \A m \in DOMAIN id : row(id[m]) = Inserted(answers, m)
  BY <1>4 DEF Inserted
<1>6. /\ \A p \in Rows : p \in DOMAIN changed =>
            /\ tx'.pick[p] = Update(Work(r)[p], run[r].seen[p], changed[p])
            /\ tx'.vers[p] = Versioned(WorkVers(r)[p], changed[p])
      /\ \A p \in Rows : p \notin DOMAIN changed /\ p \in {id[m] : m \in DOMAIN id} =>
            tx'.pick[p] = row(p) /\ tx'.vers[p] = Versioned(WorkVers(r)[p], row(p))
      /\ \A p \in Rows : p \notin DOMAIN changed /\ p \notin {id[m] : m \in DOMAIN id} =>
            tx'.pick[p] = Work(r)[p] /\ tx'.vers[p] = WorkVers(r)[p]
      /\ tx'.pick = [p \in Rows |-> tx'.pick[p]] /\ tx'.vers = [p \in Rows |-> tx'.vers[p]]
  <2> DEFINE ids == {id[m] : m \in DOMAIN id}
             new == [p \in DOMAIN changed \cup ids |-> IF p \in DOMAIN changed THEN changed[p] ELSE row(p)]
  <2>1. tx' = [pick |-> [p \in Rows |->
                   IF p \in DOMAIN changed THEN Update(work.pick[p], run[r].seen[p], new[p])
                   ELSE IF p \in DOMAIN new THEN new[p] ELSE work.pick[p]],
               vers |-> [p \in Rows |->
                   IF p \in DOMAIN new THEN Versioned(work.vers[p], new[p]) ELSE work.vers[p]]]
    BY <1>2, Zenon DEF Written
  <2>2. /\ DOMAIN new = DOMAIN changed \cup ids
        /\ \A p \in DOMAIN new : new[p] = IF p \in DOMAIN changed THEN changed[p] ELSE row(p)
    OBVIOUS
  <2> HIDE DEF work, fresh, changed, row, new, ids, made
  <2>3. /\ tx'.pick = [p \in Rows |->
               IF p \in DOMAIN changed THEN Update(Work(r)[p], run[r].seen[p], new[p])
               ELSE IF p \in DOMAIN new THEN new[p] ELSE Work(r)[p]]
        /\ tx'.vers = [p \in Rows |->
               IF p \in DOMAIN new THEN Versioned(WorkVers(r)[p], new[p]) ELSE WorkVers(r)[p]]
    BY <1>1, <2>1
  <2> QED BY <2>2, <2>3 DEF ids
<1>7. \A m \in DOMAIN id : id[m] \notin DOMAIN changed =>
         /\ tx'.pick[id[m]] = Inserted(answers, m)
         /\ tx'.vers[id[m]] = Versioned(WorkVers(r)[id[m]], Inserted(answers, m))
  <2> SUFFICES ASSUME NEW m \in DOMAIN id, id[m] \notin DOMAIN changed
               PROVE  /\ tx'.pick[id[m]] = Inserted(answers, m)
                      /\ tx'.vers[id[m]] = Versioned(WorkVers(r)[id[m]], Inserted(answers, m))
    OBVIOUS
  <2> HIDE DEF changed, row, made
  <2>1. id[m] \in Rows /\ id[m] \in {id[n] : n \in DOMAIN id}
    BY <1>3
  <2>2. row(id[m]) = Inserted(answers, m)
    BY <1>5
  <2>3. tx'.pick[id[m]] = row(id[m]) /\ tx'.vers[id[m]] = Versioned(WorkVers(r)[id[m]], row(id[m]))
    BY <1>6, <2>1
  <2> QED BY <2>2, <2>3
<1>8. \A p \in Rows : p \notin DOMAIN changed /\ (\A m \in DOMAIN id : id[m] # p) =>
         tx'.pick[p] = Work(r)[p] /\ tx'.vers[p] = WorkVers(r)[p]
  <2> HIDE DEF changed, row, made
  <2> QED BY <1>6
<1>9. Outcome(r, answers, id)
  <2> HIDE DEF changed, fresh, row, made
  <2>1. \A p \in Rows : p \in DOMAIN changed =>
            /\ tx'.pick[p] = Update(Work(r)[p], run[r].seen[p], changed[p])
            /\ tx'.vers[p] = Versioned(WorkVers(r)[p], changed[p])
    BY <1>6
  <2>2. tx'.pick = [p \in Rows |-> tx'.pick[p]] /\ tx'.vers = [p \in Rows |-> tx'.vers[p]]
    BY <1>6
  <2>3. lock \in {Free, r} /\ lock' = r
    BY <1>2
  <2> QED BY <1>3, <1>7, <1>8, <2>1, <2>2, <2>3, Zenon DEF Outcome, changed, fresh
<1> HIDE DEF fresh
<1> QED BY <1>9 DEF fresh

\* In types, and in what it may touch.
LEMMA PriceWrites ==
    ASSUME Typed, PickAssumption, NEW r \in Runs, NEW g \in Games,
           NEW answers \in Responses(g), Price(r, g, answers)
    PROVE  UNCHANGED <<lock, tx>> \/ Priced(r)
<1> DEFINE changed == Changed(r, answers)
<1>1. CASE UNCHANGED <<lock, tx>>
  BY <1>1
<1>2. CASE ~ UNCHANGED <<lock, tx>>
  <2>1. PICK id \in NewIds(Work(r), Fresh(r, answers)) : Outcome(r, answers, id)
    BY <1>2, PriceRows
  <2>2. run[r].busy /\ run[r].seen \in [Rows -> RowSet]
    BY DEF Typed, Price
  <2>3. Work(r) \in [Rows -> RowSet] /\ WorkVers(r) \in [Rows -> Seq(Versions)]
    BY <2>1, PickAssumption DEF Outcome, Typed, Work, WorkVers, Free
  <2>4. ASSUME NEW p \in Rows
        PROVE  /\ tx'.pick[p] \in RowSet /\ tx'.vers[p] \in Seq(Versions)
               /\ \/ tx'.pick[p] = Work(r)[p]
                  \/ Rewritten(r, p)
                  \/ Work(r)[p].market = Absent
    <3>1. CASE p \in DOMAIN changed
      <4>1. /\ p \in run[r].loaded /\ Refreshable(r, p)
            /\ changed[p] \in RowSet /\ changed[p].market = run[r].seen[p].market
            /\ p \in run[r].emailed =>
                 ~ changed[p].withdrawn /\ changed[p].tracked = run[r].seen[p].tracked
        BY <2>2, <3>1, ChangedTyped
      <4> HIDE DEF changed
      <4>2. /\ tx'.pick[p] = Update(Work(r)[p], run[r].seen[p], changed[p])
            /\ tx'.vers[p] = Versioned(WorkVers(r)[p], changed[p])
        BY <2>1, <3>1 DEF Outcome, changed
      <4>3. tx'.pick[p] \in RowSet
        BY <2>2, <2>3, <4>1, <4>2, UpdateTyped
      <4>4. tx'.vers[p] \in Seq(Versions)
        BY <2>3, <4>1, <4>2, VersionedLast
      <4>5. Rewritten(r, p)
        BY <4>1, <4>2 DEF Rewritten
      <4> QED BY <4>3, <4>4, <4>5
    <3>2. ASSUME p \notin DOMAIN changed, NEW m \in DOMAIN id, id[m] = p
          PROVE  /\ tx'.pick[p] \in RowSet /\ tx'.vers[p] \in Seq(Versions)
                 /\ Work(r)[p].market = Absent
      <4>1. m \in Markets /\ answers[m] \in AnswerSet
        BY <2>1, AnswersTyped DEF Outcome, Fresh
      <4>2. Inserted(answers, m) \in RowSet
        BY <4>1 DEF Inserted, RowSet, AnswerSet
      <4>3. /\ tx'.pick[p] = Inserted(answers, m) /\ Work(r)[p].market = Absent
            /\ tx'.vers[p] = Versioned(WorkVers(r)[p], Inserted(answers, m))
        BY <2>1, <3>2 DEF Outcome
      <4> QED BY <2>3, <4>2, <4>3, VersionedLast
    <3>3. CASE p \notin DOMAIN changed /\ \A m \in DOMAIN id : id[m] # p
      BY <2>1, <2>3, <3>3 DEF Outcome
    <3> QED BY <3>1, <3>2, <3>3
  <2>5. tx'.pick \in [Rows -> RowSet] /\ tx'.vers \in [Rows -> Seq(Versions)]
    BY <2>1, <2>4 DEF Outcome
  <2> QED BY <2>1, <2>4, <2>5 DEF Priced, Outcome
<1> QED BY <1>1, <1>2

-----------------------------------------------------------------------------
(* Type correctness *)

LEMMA TypedInit ==
    ASSUME PickAssumption, Init
    PROVE  Typed
<1>1. NoRow \in RowSet
  BY DEF NoRow, RowSet
<1>2. AtRest \in RunState
  BY DEF AtRest, RunState
<1> QED BY <1>1, <1>2, PickAssumption DEF Init, Typed, AtRest, Free

\* A run that loads.
LEMMA LoadTyped ==
    ASSUME PickAssumption, Typed, NEW r \in Runs, Load(r)
    PROVE  Typed'
<1> DEFINE mem == [loaded |-> Stored(pick), seen |-> pick, busy |-> TRUE,
                   emailed |-> {e.pick : e \in emailed},
                   graded |-> {p \in Rows : results[p] > 0},
                   todo |-> {g \in Games \ final : NotStarted(g)}]
<1>1. mem \in RunState
  BY DEF Typed, RunState, Stored, Advised
<1>2. run' = [run EXCEPT ![r] = mem] /\ mem.busy /\ mem.seen = pick
  BY DEF Load
<1> HIDE DEF mem
<1>3. run' \in [Runs -> RunState]
  BY <1>1, <1>2 DEF Typed
<1>4. \A s \in Runs : run'[s] = IF s = r THEN mem ELSE run[s]
  BY <1>2 DEF Typed
<1> QED BY <1>2, <1>3, <1>4 DEF Load, Typed, db

\* A run that has dealt with a game.
LEMMA DoneTyped ==
    ASSUME Typed, NEW r \in Runs, NEW g \in Games, g \in run[r].todo,
           run' = [run EXCEPT ![r].todo = @ \ {g}]
    PROVE  /\ run' \in [Runs -> RunState]
           /\ \A s \in Runs : /\ run'[s].busy = run[s].busy /\ run'[s].seen = run[s].seen
                              /\ run'[s].loaded = run[s].loaded /\ run'[s].emailed = run[s].emailed
                              /\ run'[s].todo \subseteq run[s].todo
           /\ run[r].busy
<1>1. run \in [Runs -> RunState]
  BY DEF Typed
<1>2. \A s \in Runs : run'[s] = IF s = r THEN [run[s] EXCEPT !.todo = @ \ {g}] ELSE run[s]
  BY <1>1
<1>3. [run[r] EXCEPT !.todo = @ \ {g}] \in RunState
  BY <1>1 DEF RunState
<1> QED BY <1>1, <1>2, <1>3 DEF Typed, RunState

LEMMA LeaveTyped ==
    ASSUME PickAssumption, Typed, NEW r \in Runs, Leave(r)
    PROVE  /\ run' \in [Runs -> RunState]
           /\ run'[r] = AtRest /\ ~ run'[r].busy /\ run'[r].todo = {}
           /\ \A s \in Runs \ {r} : run'[s] = run[s]
           /\ lock' = IF lock = r THEN Free ELSE lock
           /\ tx' = IF lock = r THEN NoTx ELSE tx
           /\ Free \notin Runs
<1>1. AtRest \in RunState /\ ~ AtRest.busy /\ AtRest.todo = {}
  BY DEF AtRest, RunState
<1> QED BY <1>1, PickAssumption DEF Leave, Typed, Free

LEMMA TypedNext ==
    ASSUME PickAssumption, Typed, [Next]_vars
    PROVE  Typed'
<1>1. ASSUME NEW r \in Runs, Load(r) PROVE Typed'
  BY <1>1, LoadTyped
<1>2. ASSUME NEW r \in Runs, Commit(r) PROVE Typed'
  <2>1. pick' \in [Rows -> RowSet] /\ vers' \in [Rows -> Seq(Versions)]
    BY <1>2 DEF Commit, db, Typed, Free, PickAssumption
  <2>2. Leave(r)
    BY <1>2 DEF Commit
  <2>3. /\ run' \in [Runs -> RunState] /\ ~ run'[r].busy /\ run'[r].todo = {}
        /\ \A s \in Runs \ {r} : run'[s] = run[s]
        /\ \/ lock' = Free
           \/ lock # r /\ UNCHANGED <<lock, tx>>
    BY <2>2, LeaveTyped
  <2>4. /\ \A s \in Runs : run'[s].busy => run'[s].seen \in [Rows -> RowSet]
        /\ \A s \in Runs : run'[s].todo # {} \/ lock' = s => run'[s].busy
        /\ lock' \in Runs \cup {Free}
        /\ lock' # Free => tx'.pick \in [Rows -> RowSet] /\ tx'.vers \in [Rows -> Seq(Versions)]
    BY <2>3, PickAssumption DEF Typed, Free
  <2> QED BY <1>2, <2>1, <2>3, <2>4 DEF Commit, Typed
<1>3. ASSUME NEW r \in Runs, Abort(r) PROVE Typed'
  <2>1. Leave(r)
    BY <1>3 DEF Abort
  <2>2. /\ run' \in [Runs -> RunState] /\ ~ run'[r].busy /\ run'[r].todo = {}
        /\ \A s \in Runs \ {r} : run'[s] = run[s]
        /\ \/ lock = r /\ lock' = Free
           \/ lock # r /\ UNCHANGED <<lock, tx>>
    BY <2>1, LeaveTyped
  <2>3. UNCHANGED <<db, results, emailed, inbox, clock, runs, due, digest, overlap>>
    BY <1>3 DEF Abort
  <2>4. /\ \A s \in Runs : run'[s].busy => run'[s].seen \in [Rows -> RowSet]
        /\ \A s \in Runs : run'[s].todo # {} \/ lock' = s => run'[s].busy
        /\ lock' \in Runs \cup {Free}
        /\ lock' # Free => tx'.pick \in [Rows -> RowSet] /\ tx'.vers \in [Rows -> Seq(Versions)]
    BY <2>2, PickAssumption DEF Typed, Free
  <2> QED BY <2>2, <2>3, <2>4 DEF Typed, db
<1>4. ASSUME NEW r \in Runs, NEW g \in Games, Skip(r, g) PROVE Typed'
  BY <1>4, DoneTyped DEF Skip, Typed, db
<1>5. ASSUME NEW r \in Runs, NEW g \in Games, NEW answers \in Responses(g), Price(r, g, answers)
      PROVE  Typed'
  <2>1. /\ run' \in [Runs -> RunState]
        /\ \A s \in Runs : run'[s].busy = run[s].busy /\ run'[s].seen = run[s].seen
                           /\ run'[s].todo \subseteq run[s].todo
        /\ run[r].busy
    BY <1>5, DoneTyped DEF Price
  <2>2. \/ UNCHANGED <<lock, tx>>
        \/ lock' = r /\ tx'.pick \in [Rows -> RowSet] /\ tx'.vers \in [Rows -> Seq(Versions)]
    BY <1>5, PriceWrites DEF Priced
  <2> QED BY <1>5, <2>1, <2>2 DEF Price, Typed, db
<1>6. ASSUME NEW g \in Games, KickOff(g) \/ Finish(g) PROVE Typed'
  BY <1>6 DEF KickOff, Finish, Typed, db
<1>7. ASSUME NEW g \in Graders, ReadDue(g) PROVE Typed'
  BY <1>7 DEF ReadDue, Typed, db, clock, Stored
<1>8. ASSUME NEW g \in Graders, CommitResults(g) PROVE Typed'
  BY <1>8 DEF CommitResults, Typed, db, clock
<1>9. ASSUME NEW d \in Digests, Select(d) PROVE Typed'
  <2>1. PICK shown \in SUBSET Stored(pick) :
          digest' = [digest EXCEPT ![d] = [at |-> "selected", says |-> {Advice(p, pick[p]) : p \in shown}]]
    BY <1>9 DEF Select
  <2>2. {Advice(p, pick[p]) : p \in shown} \subseteq Advised
    <3>1. pick \in [Rows -> RowSet] /\ shown \subseteq Rows
      BY DEF Typed, Stored
    <3> QED BY <3>1 DEF Advice, Advised, RowSet
  <2>3. digest' \in [Digests -> [at : {"idle", "selected", "sent", "done"}, says : SUBSET Advised]]
    BY <2>1, <2>2 DEF Typed
  <2> QED BY <1>9, <2>3 DEF Select, Typed, db, clock
<1>10. ASSUME NEW d \in Digests, Send(d) PROVE Typed'
  <2>1. inbox' \subseteq Advised
    BY <1>10 DEF Send, Typed
  <2>2. digest' \in [Digests -> [at : {"idle", "selected", "sent", "done"}, says : SUBSET Advised]]
    <3>1. CASE digest' = [digest EXCEPT ![d].at = "sent"]
      BY <3>1 DEF Typed
    <3>2. CASE digest' = [digest EXCEPT ![d] = [at |-> "done", says |-> {}]]
      BY <3>2 DEF Typed
    <3> QED BY <1>10, <3>1, <3>2 DEF Send
  <2> QED BY <1>10, <2>1, <2>2 DEF Send, Typed, db, clock
<1>11. ASSUME NEW d \in Digests, Record(d) PROVE Typed'
  <2>1. emailed' \subseteq Advised
    BY <1>11 DEF Record, AsEmailed, Typed
  <2> QED BY <1>11, <2>1 DEF Record, Typed, db, clock
<1>12. CASE UNCHANGED vars
  BY <1>12 DEF vars, Typed, db
<1> QED BY <1>1, <1>2, <1>3, <1>4, <1>5, <1>6, <1>7, <1>8, <1>9, <1>10, <1>11, <1>12 DEF Next, Run

-----------------------------------------------------------------------------
(* A graded pick is history *)

\* One process grades, and every game has a start time.
OneGrader == \A g, h \in Graders : g = h
Timed == NoStart = {}

\* A pick on a final game.
Settled(p) == pick[p].market # Absent /\ GameOf[pick[p].market] \in final

\* A run knows the picks it loaded by their markets, which never change.
KnownRows ==
    \A r \in Runs : run[r].busy =>
        \A p \in run[r].loaded : /\ pick[p].market # Absent
                                 /\ run[r].seen[p].market = pick[p].market

\* An open transaction has every stored pick, and those on final games as they are.
TxKeeps ==
    lock # Free => \A p \in Rows : pick[p].market # Absent =>
        /\ tx.pick[p].market = pick[p].market
        /\ Settled(p) => tx.pick[p] = pick[p]

\* What a pass has read is not graded yet, and stands.
DueStands ==
    \A g \in Graders : \A p \in due[g] :
        Settled(p) /\ ~ pick[p].withdrawn /\ results[p] = 0

GradeInv ==
    /\ Typed /\ final \subseteq started /\ KnownRows /\ TxKeeps /\ DueStands
    /\ \A p \in Rows : results[p] > 0 => Settled(p)

\* Whoever commits leaves settled picks alone, and every pick its market.
LEMMA CommitKeeps ==
    ASSUME GradeInv, NEW r \in Runs, Commit(r)
    PROVE  \A p \in Rows : pick[p].market # Absent =>
               /\ pick'[p].market = pick[p].market
               /\ Settled(p) => pick'[p] = pick[p]
BY PickAssumption DEF Commit, GradeInv, TxKeeps, db, Free

\* A transaction goes on keeping what is settled: pricing changes picks whose
\* game has not started, and inserts where there is none.
LEMMA PriceKeeps ==
    ASSUME GradeInv, Timed, NEW r \in Runs, NEW g \in Games,
           NEW answers \in Responses(g), Price(r, g, answers)
    PROVE  TxKeeps'
<1>1. /\ UNCHANGED <<pick, final>> /\ g \in run[r].todo /\ run[r].busy
  BY DEF Price, GradeInv, Typed, db, clock
<1>2. CASE UNCHANGED <<lock, tx>>
  BY <1>1, <1>2 DEF GradeInv, TxKeeps, Settled
<1>3. CASE Priced(r)
  <2>1. ASSUME NEW p \in Rows, pick[p].market # Absent
        PROVE  /\ tx'.pick[p].market = pick[p].market
               /\ Settled(p) => tx'.pick[p] = pick[p]
    <3>1. /\ Work(r)[p].market = pick[p].market
          /\ Settled(p) => Work(r)[p] = pick[p]
      BY <1>3, <2>1, PickAssumption DEF Priced, Work, GradeInv, TxKeeps, Free
    <3>2. CASE tx'.pick[p] = Work(r)[p]
      BY <3>1, <3>2
    <3>3. CASE Rewritten(r, p)
      <4>1. PICK new \in RowSet :
              /\ p \in run[r].loaded /\ Refreshable(r, p)
              /\ new.market = run[r].seen[p].market
              /\ tx'.pick[p] = Update(Work(r)[p], run[r].seen[p], new)
        BY <3>3 DEF Rewritten
      <4>2. Work(r)[p] \in RowSet /\ run[r].seen[p] \in RowSet
        BY <1>1, <1>3, PickAssumption DEF Priced, Work, GradeInv, Typed, Free
      <4>3. tx'.pick[p].market = Work(r)[p].market
        BY <4>1, <4>2, UpdateTyped
      <4>4. ~ Settled(p)
        BY <1>1, <4>1 DEF GradeInv, KnownRows, Refreshable, NotStarted, Settled, Timed
      <4> QED BY <3>1, <4>3, <4>4
    <3>4. CASE Work(r)[p].market = Absent
      BY <2>1, <3>1, <3>4
    <3> QED BY <1>3, <3>2, <3>3, <3>4 DEF Priced
  <2> QED BY <1>1, <2>1 DEF TxKeeps, Settled
<1> QED BY <1>2, <1>3, PriceWrites, PickAssumption DEF GradeInv

LEMMA KnownRowsNext ==
    ASSUME GradeInv, [Next]_vars
    PROVE  KnownRows'
<1>1. ASSUME NEW r \in Runs, Load(r) PROVE KnownRows'
  <2>1. /\ run'[r].loaded = Stored(pick) /\ run'[r].seen = pick
        /\ \A s \in Runs \ {r} : run'[s] = run[s]
        /\ pick' = pick
    BY <1>1 DEF Load, GradeInv, Typed, db
  <2> QED BY <2>1 DEF GradeInv, KnownRows, Stored
<1>2. ASSUME NEW r \in Runs, Commit(r) PROVE KnownRows'
  <2>1. Leave(r)
    BY <1>2 DEF Commit
  <2>2. /\ ~ run'[r].busy /\ \A s \in Runs \ {r} : run'[s] = run[s]
    BY <2>1, LeaveTyped, PickAssumption DEF GradeInv
  <2>3. \A s \in Runs : run[s].loaded \subseteq Rows
    BY DEF GradeInv, Typed, RunState
  <2> QED BY <1>2, <2>2, <2>3, CommitKeeps DEF GradeInv, KnownRows
<1>3. ASSUME NEW r \in Runs, Abort(r) PROVE KnownRows'
  <2>1. Leave(r) /\ pick' = pick
    BY <1>3 DEF Abort, db
  <2> QED BY <2>1, LeaveTyped, PickAssumption DEF GradeInv, KnownRows
<1>4. ASSUME NEW r \in Runs, NEW g \in Games,
             Skip(r, g) \/ \E answers \in Responses(g) : Price(r, g, answers)
      PROVE  KnownRows'
  <2>1. /\ pick' = pick /\ g \in run[r].todo /\ run' = [run EXCEPT ![r].todo = @ \ {g}]
    BY <1>4 DEF Skip, Price, db
  <2> QED BY <2>1, DoneTyped DEF GradeInv, KnownRows
<1>5. CASE UNCHANGED <<pick, run>>
  BY <1>5 DEF GradeInv, KnownRows
<1>6. ASSUME \/ \E g \in Games : KickOff(g) \/ Finish(g)
             \/ \E g \in Graders : ReadDue(g) \/ CommitResults(g)
             \/ \E d \in Digests : Select(d) \/ Send(d) \/ Record(d)
             \/ UNCHANGED vars
      PROVE  UNCHANGED <<pick, run>>
  BY <1>6 DEF KickOff, Finish, ReadDue, CommitResults, Select, Send, Record, db, vars
<1> QED BY <1>1, <1>2, <1>3, <1>4, <1>5, <1>6 DEF Next, Run

\* Games become final, and results are written, while nobody holds the lock.
LEMMA TxKeepsNext ==
    ASSUME GradeInv, Timed, [Next]_vars
    PROVE  TxKeeps'
<1>1. ASSUME NEW r \in Runs, Commit(r) \/ Abort(r) PROVE TxKeeps'
  <2>1. Leave(r) /\ UNCHANGED final
    BY <1>1 DEF Commit, Abort, clock
  <2>2. lock' = (IF lock = r THEN Free ELSE lock) /\ tx' = (IF lock = r THEN NoTx ELSE tx)
    BY <2>1 DEF Leave
  <2>3. CASE lock \in {Free, r}
    BY <2>2, <2>3 DEF TxKeeps
  <2>4. CASE lock \notin {Free, r}
    <3>1. pick' = pick
      BY <1>1, <2>4 DEF Commit, Abort, db
    <3> QED BY <2>1, <2>2, <3>1 DEF TxKeeps, GradeInv, Settled
  <2> QED BY <2>3, <2>4
<1>2. ASSUME NEW r \in Runs, NEW g \in Games, NEW answers \in Responses(g), Price(r, g, answers)
      PROVE  TxKeeps'
  BY <1>2, PriceKeeps
<1>3. ASSUME NEW g \in Games, Finish(g) PROVE TxKeeps'
  BY <1>3 DEF Finish, TxKeeps
<1>4. CASE UNCHANGED <<pick, lock, tx, final>>
  BY <1>4 DEF GradeInv, TxKeeps, Settled
<1>5. ASSUME \/ \E r \in Runs : Load(r) \/ \E g \in Games : Skip(r, g)
             \/ \E g \in Games : KickOff(g)
             \/ \E g \in Graders : ReadDue(g) \/ CommitResults(g)
             \/ \E d \in Digests : Select(d) \/ Send(d) \/ Record(d)
             \/ UNCHANGED vars
      PROVE  UNCHANGED <<pick, lock, tx, final>>
  BY <1>5 DEF Load, Skip, KickOff, ReadDue, CommitResults, Select, Send, Record, db, clock, vars
<1> QED BY <1>1, <1>2, <1>3, <1>4, <1>5 DEF Next, Run

\* Settled picks, and what is due, change by grading only.
LEMMA SettledKept ==
    ASSUME GradeInv, [Next]_vars, NEW p \in Rows
    PROVE  /\ Settled(p) => Settled(p)' /\ pick'[p] = pick[p]
           /\ final' \subseteq started'
<1>1. ASSUME NEW r \in Runs, Commit(r) PROVE pick[p].market # Absent => pick'[p].market = pick[p].market
                                              /\ (Settled(p) => pick'[p] = pick[p])
  BY <1>1, CommitKeeps
<1>2. ASSUME ~ \E r \in Runs : Commit(r) PROVE pick' = pick
  BY <1>2 DEF Next, Run, Load, Abort, Skip, Price, KickOff, Finish, ReadDue, CommitResults, Select,
              Send, Record, db, vars
<1>3. final \subseteq final' /\ final' \subseteq started'
  BY DEF Next, Run, Load, Commit, Abort, Skip, Price, KickOff, Finish, ReadDue, CommitResults, Select,
         Send, Record, clock, vars, GradeInv
<1> QED BY <1>1, <1>2, <1>3 DEF Settled

LEMMA DueStandsNext ==
    ASSUME GradeInv, OneGrader, [Next]_vars
    PROVE  DueStands' /\ \A p \in Rows : results'[p] > 0 => Settled(p)'
<1>1. \A g \in Graders : due[g] \subseteq Rows
  BY DEF GradeInv, Typed
<1>2. ASSUME NEW g \in Graders, ReadDue(g) PROVE DueStands' /\ results' = results
  <2>1. /\ \A h \in Graders : due'[h] = IF h = g THEN {p \in Stored(pick) : Gradeable(p)} ELSE due[h]
        /\ UNCHANGED <<pick, final, results>>
    BY <1>2 DEF ReadDue, GradeInv, Typed, db, clock
  <2> QED BY <2>1 DEF GradeInv, DueStands, Gradeable, Stored, Settled
<1>3. ASSUME NEW g \in Graders, CommitResults(g)
      PROVE  DueStands' /\ \A p \in Rows : results'[p] > 0 => Settled(p)'
  <2>1. /\ \A h \in Graders : due'[h] = {}
        /\ \A p \in Rows : results'[p] > 0 => results[p] > 0 \/ p \in due[g]
        /\ UNCHANGED <<pick, final>>
    BY <1>3 DEF CommitResults, GradeInv, Typed, OneGrader, db, clock
  <2> QED BY <2>1 DEF GradeInv, DueStands, Settled
<1>4. ASSUME UNCHANGED <<due, results>>
      PROVE  DueStands' /\ \A p \in Rows : results'[p] > 0 => Settled(p)'
  BY <1>1, <1>4, SettledKept DEF GradeInv, DueStands
<1>5. ASSUME ~ \E g \in Graders : ReadDue(g) \/ CommitResults(g)
      PROVE  UNCHANGED <<due, results>>
  BY <1>5 DEF Next, Run, Load, Commit, Abort, Skip, Price, KickOff, Finish, Select, Send, Record, vars
<1> QED BY <1>2, <1>3, <1>4, <1>5, SettledKept DEF GradeInv

LEMMA GradeNext ==
    ASSUME GradeInv, OneGrader, Timed, [Next]_vars
    PROVE  GradeInv'
<1>1. 1 \in Rows
  BY PickAssumption DEF Rows
<1> QED BY <1>1, TypedNext, KnownRowsNext, TxKeepsNext, DueStandsNext, SettledKept, PickAssumption
        DEF GradeInv

\* With one grading process and every start time known, a result is put once on a
\* pick that stands, and a graded pick is never rewritten, withdrawn or graded
\* again, however many runs overlap.
THEOREM GradedIsHistory == ASSUME OneGrader, Timed PROVE Spec => GradedForGood
<1>1. Init => GradeInv
  <2>1. ASSUME Init PROVE KnownRows /\ TxKeeps /\ DueStands
    BY <2>1 DEF Init, KnownRows, TxKeeps, DueStands, AtRest
  <2>2. ASSUME Init PROVE \A p \in Rows : ~ (results[p] > 0)
    BY <2>2 DEF Init
  <2> QED BY <2>1, <2>2, TypedInit, PickAssumption DEF GradeInv, Init
<1>2. GradeInv /\ [Next]_vars => GradeInv'
  BY GradeNext
<1>3. GradeInv /\ [Next]_vars =>
        [\A p \in Rows :
          /\ results[p] > 0 => pick'[p] = pick[p] /\ results'[p] = results[p]
          /\ results'[p] # results[p] => results'[p] = 1 /\ ~pick[p].withdrawn]_vars
  <2> SUFFICES ASSUME GradeInv, [Next]_vars, NEW p \in Rows
               PROVE  /\ results[p] > 0 => pick'[p] = pick[p] /\ results'[p] = results[p]
                      /\ results'[p] # results[p] => results'[p] = 1 /\ ~pick[p].withdrawn
    OBVIOUS
  <2>1. results[p] > 0 => pick'[p] = pick[p]
    BY SettledKept DEF GradeInv
  <2>2. CASE \E g \in Graders : CommitResults(g)
    <3>1. PICK g \in Graders : CommitResults(g)
      BY <2>2
    <3>2. results'[p] = IF p \in due[g] THEN results[p] + 1 ELSE results[p]
      BY <3>1 DEF CommitResults
    <3>3. p \in due[g] => results[p] = 0 /\ ~ pick[p].withdrawn
      BY DEF GradeInv, DueStands
    <3> QED BY <2>1, <3>2, <3>3
  <2>3. CASE ~ \E g \in Graders : CommitResults(g)
    <3>1. results' = results
      BY <2>3 DEF Next, Run, Load, Commit, Abort, Skip, Price, KickOff, Finish, ReadDue, Select, Send,
                  Record, vars
    <3> QED BY <2>1, <3>1
  <2> QED BY <2>2, <2>3
<1> QED BY <1>1, <1>2, <1>3, PTL DEF Spec, GradedForGood

-----------------------------------------------------------------------------
(* What was emailed stands *)

Stands(table, p) == table[p].market # Absent /\ Published(table[p])
Sending(d) == digest[d].at \in {"selected", "sent"}

\* What no overlap means: a run is alone, and works from what is stored; what is
\* being emailed, and what was, is published, also as an open transaction has it.
Undisturbed ==
    /\ \A r, s \in Runs : run[r].busy /\ run[s].busy => r = s
    /\ \A r \in Runs : run[r].busy =>
          ~ Mailing /\ run[r].seen = pick /\ run[r].emailed = {e.pick : e \in emailed}
    /\ \A d \in Digests : Sending(d) => \A a \in digest[d].says : Stands(pick, a.pick)
    /\ \A e \in emailed : Stands(pick, e.pick)
    /\ lock # Free => \A e \in emailed : Stands(tx.pick, e.pick)

\* What is recorded was sent.
SentFirst ==
    /\ emailed \subseteq inbox
    /\ \A d \in Digests : digest[d].at = "sent" => digest[d].says \subseteq inbox

MailInv == Typed /\ SentFirst /\ (~ overlap => Undisturbed)

LEMMA SentFirstNext ==
    ASSUME Typed, SentFirst, [Next]_vars
    PROVE  SentFirst'
<1>1. ASSUME NEW d \in Digests, Select(d) PROVE SentFirst'
  <2>1. /\ \A c \in Digests \ {d} : digest'[c] = digest[c]
        /\ digest'[d].at = "selected" /\ UNCHANGED <<emailed, inbox>>
    BY <1>1 DEF Select, Typed
  <2> QED BY <2>1 DEF SentFirst
<1>2. ASSUME NEW d \in Digests, Send(d) PROVE SentFirst'
  <2>1. CASE digest' = [digest EXCEPT ![d].at = "sent"] /\ inbox' = inbox \cup digest[d].says
    <3>1. /\ \A c \in Digests \ {d} : digest'[c] = digest[c]
          /\ digest'[d].says = digest[d].says
      BY <2>1 DEF Typed
    <3> QED BY <1>2, <2>1, <3>1 DEF Send, SentFirst
  <2>2. CASE digest' = [digest EXCEPT ![d] = [at |-> "done", says |-> {}]] /\ inbox' = inbox
    <3>1. /\ \A c \in Digests \ {d} : digest'[c] = digest[c]
          /\ digest'[d].at = "done"
      BY <2>2 DEF Typed
    <3> QED BY <1>2, <2>2, <3>1 DEF Send, SentFirst
  <2> QED BY <1>2, <2>1, <2>2 DEF Send
<1>3. ASSUME NEW d \in Digests, Record(d) PROVE SentFirst'
  <2>1. /\ \A c \in Digests \ {d} : digest'[c] = digest[c]
        /\ digest'[d].at = "done" /\ digest[d].at = "sent" /\ inbox' = inbox
        /\ emailed' \subseteq emailed \cup digest[d].says
    BY <1>3 DEF Record, Typed, AsEmailed
  <2> QED BY <2>1 DEF SentFirst
<1>4. CASE UNCHANGED <<emailed, inbox, digest>>
  BY <1>4 DEF SentFirst
<1>5. ASSUME ~ \E d \in Digests : Select(d) \/ Send(d) \/ Record(d)
      PROVE  UNCHANGED <<emailed, inbox, digest>>
  BY <1>5 DEF Next, Run, Load, Commit, Abort, Skip, Price, KickOff, Finish, ReadDue, CommitResults, vars
<1> QED BY <1>1, <1>2, <1>3, <1>4, <1>5

\* A run that is alone leaves what was emailed published.
LEMMA PriceLeavesEmailed ==
    ASSUME Typed, Undisturbed, NEW r \in Runs, NEW g \in Games,
           NEW answers \in Responses(g), Price(r, g, answers)
    PROVE  lock' # Free => \A e \in emailed : Stands(tx'.pick, e.pick)
<1>1. CASE UNCHANGED <<lock, tx>>
  BY <1>1 DEF Undisturbed
<1>2. CASE Priced(r)
  <2> SUFFICES ASSUME NEW e \in emailed PROVE Stands(tx'.pick, e.pick)
    OBVIOUS
  <2> DEFINE p == e.pick
             seen == run[r].seen[p]
  <2>1. /\ run[r].busy /\ run[r].seen = pick /\ p \in run[r].emailed /\ p \in Rows
    <3>1. run[r].busy
      BY DEF Price, Typed
    <3> QED BY <3>1 DEF Undisturbed, Typed, Advised
  <2>2. Stands(Work(r), p) /\ Stands(pick, p) /\ Work(r)[p] \in RowSet /\ seen \in RowSet
    BY <1>2, <2>1, PickAssumption DEF Priced, Work, Undisturbed, Free, Typed
  <2>3. CASE tx'.pick[p] = Work(r)[p]
    BY <2>2, <2>3 DEF Stands
  <2>4. CASE Rewritten(r, p)
    <3>1. PICK new \in RowSet :
            /\ new.market = seen.market /\ ~ new.withdrawn /\ new.tracked = seen.tracked
            /\ tx'.pick[p] = Update(Work(r)[p], seen, new)
      BY <2>1, <2>4 DEF Rewritten
    <3>2. ~ seen.tracked /\ ~ Work(r)[p].tracked /\ ~ Work(r)[p].withdrawn /\ Work(r)[p].market # Absent
      BY <2>1, <2>2 DEF Stands, Published
    <3> HIDE DEF p, seen
    <3>3. /\ tx'.pick[p].market # Absent
          /\ tx'.pick[p].withdrawn \in {Work(r)[p].withdrawn, new.withdrawn}
          /\ tx'.pick[p].tracked \in {Work(r)[p].tracked, new.tracked}
      BY <2>2, <3>1, <3>2, UpdateTyped
    <3>4. ~ tx'.pick[p].withdrawn /\ ~ tx'.pick[p].tracked
      BY <3>1, <3>2, <3>3, Zenon
    <3> QED BY <3>3, <3>4 DEF Stands, Published, p
  <2>5. Work(r)[p].market # Absent
    BY <2>2 DEF Stands
  <2> QED BY <1>2, <2>1, <2>3, <2>4, <2>5 DEF Priced
<1> QED BY <1>1, <1>2, PriceWrites, PickAssumption

\* There is no end to an overlap.
LEMMA NoOverlapBefore ==
    ASSUME [Next]_vars, ~ overlap'
    PROVE  ~ overlap
<1>1. ASSUME NEW r \in Runs, Load(r) PROVE ~ overlap
  BY <1>1, Zenon DEF Load
<1>2. ASSUME NEW d \in Digests, Select(d) PROVE ~ overlap
  BY <1>2, Zenon DEF Select
<1>3. ASSUME overlap' = overlap PROVE ~ overlap
  BY <1>3
<1>4. ASSUME ~ \E r \in Runs : Load(r), ~ \E d \in Digests : Select(d)
      PROVE  overlap' = overlap
  BY <1>4 DEF Next, Run, Commit, Abort, Skip, Price, KickOff, Finish, ReadDue, CommitResults,
              Send, Record, vars
<1> QED BY <1>1, <1>2, <1>3, <1>4

LEMMA UndisturbedNext ==
    ASSUME MailInv, [Next]_vars, ~ overlap'
    PROVE  Undisturbed'
<1>0. ~ overlap /\ Undisturbed /\ Typed
  BY NoOverlapBefore DEF MailInv
<1>1. ASSUME NEW r \in Runs, Load(r) PROVE Undisturbed'
  <2>1. /\ ~ Mailing /\ \A s \in Runs : ~ run[s].busy
        /\ run'[r].seen = pick /\ run'[r].emailed = {e.pick : e \in emailed}
        /\ \A s \in Runs \ {r} : run'[s] = run[s]
        /\ UNCHANGED <<pick, emailed, lock, tx, digest>>
    BY <1>0, <1>1 DEF Load, Typed, Running, db
  <2> QED BY <1>0, <2>1 DEF Undisturbed, Mailing, Sending
<1>2. ASSUME NEW r \in Runs, Commit(r) PROVE Undisturbed'
  <2>1. /\ ~ run'[r].busy /\ \A s \in Runs \ {r} : run'[s] = run[s]
        /\ run[r].busy /\ UNCHANGED <<emailed, digest>>
        /\ lock' = IF lock = r THEN Free ELSE lock
    BY <1>0, <1>2, LeaveTyped, PickAssumption DEF Commit
  <2>2. \A s \in Runs : ~ run'[s].busy
    BY <1>0, <2>1 DEF Undisturbed
  <2>3. lock' = Free
    BY <1>0, <2>1 DEF Undisturbed, Typed
  <2>4. \A d \in Digests : ~ Sending(d)
    BY <1>0, <2>1 DEF Undisturbed, Mailing, Sending
  <2>5. \A e \in emailed : Stands(pick', e.pick)
    BY <1>0, <1>2, PickAssumption DEF Commit, Undisturbed, db, Free
  <2> QED BY <2>1, <2>2, <2>3, <2>4, <2>5 DEF Undisturbed, Sending
<1>3. ASSUME NEW r \in Runs, Abort(r) PROVE Undisturbed'
  <2>1. /\ ~ run'[r].busy /\ \A s \in Runs \ {r} : run'[s] = run[s]
        /\ UNCHANGED <<pick, emailed, digest>>
        /\ \/ lock' = Free
           \/ UNCHANGED <<lock, tx>>
    BY <1>0, <1>3, LeaveTyped, PickAssumption DEF Abort, db
  <2> QED BY <1>0, <2>1 DEF Undisturbed, Mailing, Sending
<1>4. ASSUME NEW r \in Runs, NEW g \in Games,
             Skip(r, g) \/ \E answers \in Responses(g) : Price(r, g, answers)
      PROVE  Undisturbed'
  <2>1. /\ \A s \in Runs : /\ run'[s].busy = run[s].busy /\ run'[s].seen = run[s].seen
                           /\ run'[s].emailed = run[s].emailed
        /\ UNCHANGED <<pick, emailed, digest>>
    BY <1>0, <1>4, DoneTyped DEF Skip, Price, db
  <2>2. lock' # Free => \A e \in emailed : Stands(tx'.pick, e.pick)
    BY <1>0, <1>4, PriceLeavesEmailed DEF Skip, Undisturbed
  <2> QED BY <1>0, <2>1, <2>2 DEF Undisturbed, Mailing, Sending
<1>5. ASSUME NEW d \in Digests, Select(d) PROVE Undisturbed'
  <2>1. /\ \A s \in Runs : ~ run[s].busy
        /\ \A c \in Digests \ {d} : digest'[c] = digest[c]
        /\ \A a \in digest'[d].says : Stands(pick, a.pick)
        /\ UNCHANGED <<pick, emailed, run, lock, tx>>
    <3>1. PICK shown \in SUBSET {p \in Stored(pick) : Published(pick[p])} :
            digest' = [digest EXCEPT ![d] = [at |-> "selected", says |-> {Advice(p, pick[p]) : p \in shown}]]
      BY <1>5 DEF Select
    <3>2. digest'[d].says = {Advice(p, pick[p]) : p \in shown}
      BY <1>0, <3>1 DEF Typed
    <3>3. ~ Running
      BY <1>5, Zenon DEF Select
    <3>4. /\ \A c \in Digests \ {d} : digest'[c] = digest[c]
          /\ UNCHANGED <<pick, emailed, run, lock, tx>>
      BY <1>0, <1>5, <3>1 DEF Select, db, Typed
    <3>5. \A a \in digest'[d].says : Stands(pick, a.pick)
      BY <3>1, <3>2 DEF Advice, Stands, Stored
    <3> QED BY <3>3, <3>4, <3>5 DEF Running
  <2> QED BY <1>0, <2>1 DEF Undisturbed, Mailing, Sending
<1>6. ASSUME NEW d \in Digests, Send(d) PROVE Undisturbed'
  <2>1. /\ \A c \in Digests : /\ Sending(c)' => Sending(c)
                              /\ digest'[c].says \subseteq digest[c].says
        /\ UNCHANGED <<pick, emailed, run, lock, tx>>
    <3>1. CASE digest' = [digest EXCEPT ![d].at = "sent"]
      <4>1. \A c \in Digests : digest'[c] = IF c = d THEN [digest[d] EXCEPT !.at = "sent"] ELSE digest[c]
        BY <1>0, <3>1 DEF Typed
      <4>2. digest'[d].says = digest[d].says
        BY <1>0, <4>1 DEF Typed
      <4> QED BY <1>6, <4>1, <4>2 DEF Send, Sending, db
    <3>2. CASE digest' = [digest EXCEPT ![d] = [at |-> "done", says |-> {}]]
      <4>1. \A c \in Digests : digest'[c] = IF c = d THEN [at |-> "done", says |-> {}] ELSE digest[c]
        BY <1>0, <3>2 DEF Typed
      <4> QED BY <1>6, <4>1 DEF Send, Sending, db
    <3> QED BY <1>6, <3>1, <3>2 DEF Send
  <2> QED BY <1>0, <2>1 DEF Undisturbed, Mailing, Sending
<1>7. ASSUME NEW d \in Digests, Record(d) PROVE Undisturbed'
  <2>1. /\ \A c \in Digests \ {d} : digest'[c] = digest[c]
        /\ digest'[d].at = "done" /\ Sending(d)
        /\ emailed' \subseteq emailed \cup digest[d].says
        /\ UNCHANGED <<pick, run, lock, tx>>
    BY <1>0, <1>7 DEF Record, Typed, AsEmailed, Sending, db
  <2>2. \A s \in Runs : ~ run[s].busy
    BY <1>0, <2>1 DEF Undisturbed, Mailing, Sending
  <2>3. lock = Free
    BY <1>0, <2>2 DEF Typed
  <2> QED BY <1>0, <2>1, <2>2, <2>3 DEF Undisturbed, Mailing, Sending
<1>8. CASE UNCHANGED <<pick, emailed, run, lock, tx, digest>>
  BY <1>0, <1>8 DEF Undisturbed, Mailing, Sending
<1>9. ASSUME \/ \E g \in Games : KickOff(g) \/ Finish(g)
             \/ \E g \in Graders : ReadDue(g) \/ CommitResults(g)
             \/ UNCHANGED vars
      PROVE  UNCHANGED <<pick, emailed, run, lock, tx, digest>>
  BY <1>9 DEF KickOff, Finish, ReadDue, CommitResults, db, vars
<1> QED BY <1>1, <1>2, <1>3, <1>4, <1>5, <1>6, <1>7, <1>8, <1>9 DEF Next, Run

\* What is recorded as emailed was sent, and as long as no run has overlapped
\* another or the digest it stays published, through every later run.
THEOREM EmailedPicksStand == Spec => []EmailedStands
<1>1. Init => MailInv
  <2>1. ASSUME Init PROVE SentFirst /\ Undisturbed
    BY <2>1 DEF Init, SentFirst, Undisturbed, AtRest, Sending
  <2> QED BY <2>1, TypedInit, PickAssumption DEF MailInv
<1>2. MailInv /\ [Next]_vars => MailInv'
  BY TypedNext, SentFirstNext, UndisturbedNext, PickAssumption DEF MailInv
<1>3. MailInv => EmailedStands
  BY DEF MailInv, SentFirst, Undisturbed, EmailedStands, Stands
<1> QED BY <1>1, <1>2, <1>3, PTL DEF Spec

-----------------------------------------------------------------------------
(* One run after another *)

\* The tables agree: a price is its side's, the latest version is the pick, and a
\* market has one pick.
Agreed(table, versions) ==
    /\ \A p \in Rows : table[p].market # Absent =>
          /\ Pairs(table[p])
          /\ versions[p] # <<>> /\ Last(versions[p]) = Tracked(table[p])
    /\ \A p, q \in Rows :
          table[p].market # Absent /\ table[p].market = table[q].market => p = q

\* A transaction is ahead of what is stored only in games already dealt with.
Ahead(table, todo) ==
    \A p \in Rows :
        /\ pick[p].market # Absent =>
              /\ table[p].market = pick[p].market
              /\ GameOf[pick[p].market] \in todo => table[p] = pick[p]
        /\ pick[p].market = Absent /\ table[p].market # Absent =>
              GameOf[table[p].market] \notin todo

Alone ==
    /\ Agreed(pick, vers)
    /\ \A r \in Runs : run[r].busy => run[r].loaded = Stored(pick)
    /\ lock # Free => Agreed(tx.pick, tx.vers) /\ Ahead(tx.pick, run[lock].todo)

AgreeInv == MailInv /\ (~ overlap => Undisturbed /\ Alone)

\* A run that is alone writes each row of the game it deals with once, from what
\* is stored.
LEMMA PriceAgrees ==
    ASSUME Typed, Undisturbed, Alone, PickAssumption, NEW r \in Runs, NEW g \in Games,
           NEW answers \in Responses(g), Price(r, g, answers), ~ UNCHANGED <<lock, tx>>
    PROVE  lock' = r /\ Agreed(tx'.pick, tx'.vers) /\ Ahead(tx'.pick, run[r].todo \ {g})
<1> DEFINE changed == Changed(r, answers)
           seen == run[r].seen
           todo == run[r].todo
<1>1. PICK id \in NewIds(Work(r), Fresh(r, answers)) : Outcome(r, answers, id)
  BY PriceRows
<1>2. /\ g \in todo /\ run[r].busy /\ seen = pick /\ run[r].loaded = Stored(pick)
      /\ pick \in [Rows -> RowSet] /\ lock \in {Free, r}
  <2>1. g \in todo /\ run[r].busy
    BY DEF Typed, Price
  <2> QED BY <1>1, <2>1 DEF Undisturbed, Alone, Typed, Outcome
<1>3. /\ Work(r) \in [Rows -> RowSet] /\ WorkVers(r) \in [Rows -> Seq(Versions)]
      /\ Agreed(Work(r), WorkVers(r)) /\ Ahead(Work(r), todo)
  BY <1>2, PickAssumption DEF Typed, Alone, Ahead, Work, WorkVers, Free
<1>4. ASSUME NEW p \in Rows, p \in DOMAIN changed
      PROVE  /\ pick[p].market # Absent /\ GameOf[pick[p].market] = g
             /\ tx'.pick[p] \in RowSet /\ tx'.pick[p].market = pick[p].market
             /\ Pairs(tx'.pick[p])
             /\ tx'.vers[p] # <<>> /\ Last(tx'.vers[p]) = Tracked(tx'.pick[p])
  <2>1. /\ p \in run[r].loaded /\ changed[p] \in RowSet /\ changed[p].market = seen[p].market
        /\ GameOf[changed[p].market] = g /\ (Pairs(seen[p]) => Pairs(changed[p]))
    BY <1>2, <1>4, ChangedTyped
  <2> HIDE DEF changed, seen, todo
  <2>2. /\ pick[p].market # Absent /\ GameOf[pick[p].market] = g /\ Pairs(pick[p])
        /\ Work(r)[p] = pick[p]
    BY <1>2, <1>3, <2>1 DEF Stored, Alone, Agreed, Ahead
  <2>3. tx'.pick[p] = changed[p] /\ tx'.vers[p] = Versioned(WorkVers(r)[p], changed[p])
    <3>1. /\ tx'.pick[p] = Update(Work(r)[p], seen[p], changed[p])
          /\ tx'.vers[p] = Versioned(WorkVers(r)[p], changed[p])
      BY <1>1, <1>4 DEF Outcome, changed, seen
    <3> QED BY <1>2, <2>1, <2>2, <3>1, UpdateTyped
  <2>4. WorkVers(r)[p] \in Seq(Versions)
    BY <1>3
  <2> QED BY <1>2, <2>1, <2>2, <2>3, <2>4, VersionedLast
<1>5. ASSUME NEW m \in DOMAIN id
      PROVE  /\ id[m] \in Rows /\ Work(r)[id[m]].market = Absent /\ id[m] \notin DOMAIN changed
             /\ tx'.pick[id[m]].market = m /\ m # Absent /\ GameOf[m] = g
             /\ Pairs(tx'.pick[id[m]])
             /\ tx'.vers[id[m]] # <<>> /\ Last(tx'.vers[id[m]]) = Tracked(tx'.pick[id[m]])
             /\ \A q \in Rows : Work(r)[q].market # m
  <2>1. /\ id[m] \in Rows /\ Work(r)[id[m]].market = Absent /\ m \in Fresh(r, answers)
    BY <1>1 DEF Outcome
  <2>2. /\ m \in DOMAIN answers /\ m \in Markets /\ GameOf[m] = g /\ m # Absent
        /\ answers[m] \in AnswerSet /\ Pairs(answers[m]) /\ Known(r, m) = {}
    BY <2>1, AnswersTyped, PickAssumption DEF Fresh, Absent
  <2>3. id[m] \notin DOMAIN changed
    BY <1>3, <1>4, <2>1 DEF Ahead
  <2> HIDE DEF changed, seen, todo
  <2>4. /\ tx'.pick[id[m]] = Inserted(answers, m)
        /\ tx'.vers[id[m]] = Versioned(WorkVers(r)[id[m]], Inserted(answers, m))
    BY <1>1, <2>3 DEF Outcome, changed
  <2>5. /\ Inserted(answers, m) \in RowSet /\ Inserted(answers, m).market = m
        /\ Pairs(Inserted(answers, m))
    BY <2>2 DEF Inserted, RowSet, AnswerSet, Pairs
  <2>6. WorkVers(r)[id[m]] \in Seq(Versions)
    BY <1>3, <2>1
  <2>7. ASSUME NEW q \in Rows, Work(r)[q].market = m PROVE FALSE
    <3>1. pick[q].market = m
      BY <1>2, <1>3, <2>2, <2>7 DEF Ahead
    <3>2. q \in run[r].loaded /\ seen[q].market = m
      BY <1>2, <2>2, <3>1 DEF Stored
    <3>3. \A p \in run[r].loaded : seen[p].market = m => p = q
      BY <1>2, <2>2, <3>1 DEF Alone, Agreed, Stored
    <3>4. q <= q
      BY PickAssumption DEF Rows
    <3>5. q \in Known(r, m)
      BY <3>2, <3>3, <3>4 DEF Known, seen
    <3> QED BY <2>2, <3>5
  <2> QED BY <2>1, <2>2, <2>3, <2>4, <2>5, <2>6, <2>7, VersionedLast
<1>6. ASSUME NEW p \in Rows, p \notin DOMAIN changed, \A m \in DOMAIN id : id[m] # p
      PROVE  tx'.pick[p] = Work(r)[p] /\ tx'.vers[p] = WorkVers(r)[p]
  BY <1>1, <1>6 DEF Outcome
<1> HIDE DEF changed, seen, todo
<1>7. ASSUME NEW p \in Rows, tx'.pick[p].market # Absent
      PROVE  /\ Pairs(tx'.pick[p]) /\ tx'.vers[p] # <<>> /\ Last(tx'.vers[p]) = Tracked(tx'.pick[p])
             /\ \/ Work(r)[p].market = tx'.pick[p].market
                \/ \E m \in DOMAIN id : id[m] = p /\ tx'.pick[p].market = m
  <2>1. CASE p \in DOMAIN changed
    BY <1>3, <1>4, <2>1 DEF Ahead
  <2>2. CASE \E m \in DOMAIN id : id[m] = p
    BY <1>5, <2>2
  <2>3. CASE p \notin DOMAIN changed /\ \A m \in DOMAIN id : id[m] # p
    BY <1>3, <1>6, <1>7, <2>3 DEF Agreed
  <2> QED BY <2>1, <2>2, <2>3
<1>8. ASSUME NEW p \in Rows, NEW q \in Rows, tx'.pick[p].market # Absent,
             tx'.pick[p].market = tx'.pick[q].market
      PROVE  p = q
  <2>1. CASE Work(r)[p].market = tx'.pick[p].market /\ Work(r)[q].market = tx'.pick[q].market
    BY <1>3, <1>8, <2>1 DEF Agreed
  <2>2. CASE \E m \in DOMAIN id : id[m] = p /\ tx'.pick[p].market = m
    <3>1. PICK m \in DOMAIN id : id[m] = p /\ tx'.pick[p].market = m
      BY <2>2
    <3>2. Work(r)[q].market # tx'.pick[q].market
      BY <1>5, <1>8, <3>1
    <3>3. tx'.pick[q].market # Absent
      BY <1>8
    <3>4. PICK n \in DOMAIN id : id[n] = q /\ tx'.pick[q].market = n
      BY <1>7, <3>2, <3>3
    <3> QED BY <1>8, <3>1, <3>4
  <2>3. CASE \E m \in DOMAIN id : id[m] = q /\ tx'.pick[q].market = m
    BY <1>5, <1>7, <1>8, <2>3
  <2> QED BY <1>7, <1>8, <2>1, <2>2, <2>3
<1>9. Ahead(tx'.pick, todo \ {g})
  <2> SUFFICES ASSUME NEW p \in Rows
               PROVE  /\ pick[p].market # Absent =>
                            /\ tx'.pick[p].market = pick[p].market
                            /\ GameOf[pick[p].market] \in todo \ {g} => tx'.pick[p] = pick[p]
                      /\ pick[p].market = Absent /\ tx'.pick[p].market # Absent =>
                            GameOf[tx'.pick[p].market] \notin todo \ {g}
    BY DEF Ahead
  <2>1. CASE p \in DOMAIN changed
    BY <1>4, <2>1
  <2>2. CASE \E m \in DOMAIN id : id[m] = p
    BY <1>3, <1>5, <2>2 DEF Ahead
  <2>3. CASE p \notin DOMAIN changed /\ \A m \in DOMAIN id : id[m] # p
    BY <1>3, <1>6, <2>3 DEF Ahead
  <2> QED BY <2>1, <2>2, <2>3
<1>10. Agreed(tx'.pick, tx'.vers)
  BY <1>7, <1>8, Zenon DEF Agreed
<1> QED BY <1>1, <1>9, <1>10 DEF Outcome, todo

LEMMA AloneNext ==
    ASSUME AgreeInv, PickAssumption, [Next]_vars, ~ overlap'
    PROVE  Alone'
<1>0. ~ overlap /\ Undisturbed /\ Alone /\ Typed
  BY NoOverlapBefore DEF AgreeInv, MailInv
<1>1. ASSUME NEW r \in Runs, Load(r) PROVE Alone'
  <2>1. /\ \A s \in Runs : ~ run[s].busy
        /\ run'[r].loaded = Stored(pick) /\ \A s \in Runs \ {r} : run'[s] = run[s]
        /\ UNCHANGED <<pick, vers, lock, tx>>
    BY <1>0, <1>1 DEF Load, Typed, Running, db
  <2>2. lock = Free
    BY <1>0, <2>1 DEF Typed
  <2> QED BY <1>0, <2>1, <2>2 DEF Alone, Agreed, Stored
<1>2. ASSUME NEW r \in Runs, Commit(r) \/ Abort(r) PROVE Alone'
  <2>1. /\ ~ run'[r].busy /\ \A s \in Runs \ {r} : run'[s] = run[s]
        /\ run[r].busy /\ lock' = IF lock = r THEN Free ELSE lock
    BY <1>0, <1>2, LeaveTyped, PickAssumption DEF Commit, Abort
  <2>2. lock' = Free /\ \A s \in Runs : ~ run'[s].busy
    BY <1>0, <2>1 DEF Undisturbed, Typed
  <2>3. Agreed(pick', vers')
    BY <1>0, <1>2, PickAssumption DEF Commit, Abort, Alone, db, Free
  <2> QED BY <2>2, <2>3 DEF Alone, Agreed
<1>3. ASSUME NEW r \in Runs, NEW g \in Games,
             Skip(r, g) \/ \E answers \in Responses(g) : Price(r, g, answers)
      PROVE  Alone'
  <2>1. /\ \A s \in Runs : /\ run'[s].busy = run[s].busy /\ run'[s].loaded = run[s].loaded
                           /\ run'[s].todo \subseteq run[s].todo
        /\ run[r].busy /\ run'[r].todo = run[r].todo \ {g}
        /\ UNCHANGED <<pick, vers>>
    <3>1. g \in run[r].todo /\ run' = [run EXCEPT ![r].todo = @ \ {g}] /\ UNCHANGED <<pick, vers>>
      BY <1>3 DEF Skip, Price, db
    <3>2. run'[r].todo = run[r].todo \ {g}
      BY <1>0, <3>1 DEF Typed, RunState
    <3> QED BY <1>0, <3>1, <3>2, DoneTyped
  <2>2. CASE UNCHANGED <<lock, tx>>
    <3>1. \A s \in Runs : Ahead(tx.pick, run[s].todo) => Ahead(tx.pick, run'[s].todo)
      BY <2>1 DEF Ahead
    <3>2. lock \in Runs \cup {Free}
      BY <1>0 DEF Typed
    <3> QED BY <1>0, <2>1, <2>2, <3>1, <3>2 DEF Alone, Agreed, Ahead, Stored
  <2>3. CASE ~ UNCHANGED <<lock, tx>>
    <3>1. PICK answers \in Responses(g) : Price(r, g, answers)
      BY <1>3, <2>3 DEF Skip
    <3>2. lock' = r /\ Agreed(tx'.pick, tx'.vers) /\ Ahead(tx'.pick, run'[r].todo)
      BY <1>0, <2>1, <2>3, <3>1, PriceAgrees
    <3> QED BY <1>0, <2>1, <3>2 DEF Alone, Agreed, Ahead, Stored
  <2> QED BY <2>2, <2>3
<1>4. CASE UNCHANGED <<pick, vers, run, lock, tx>>
  BY <1>0, <1>4 DEF Alone, Agreed, Ahead, Stored
<1>5. ASSUME \/ \E g \in Games : KickOff(g) \/ Finish(g)
             \/ \E g \in Graders : ReadDue(g) \/ CommitResults(g)
             \/ \E d \in Digests : Select(d) \/ Send(d) \/ Record(d)
             \/ UNCHANGED vars
      PROVE  UNCHANGED <<pick, vers, run, lock, tx>>
  BY <1>5 DEF KickOff, Finish, ReadDue, CommitResults, Select, Send, Record, db, vars
<1> QED BY <1>1, <1>2, <1>3, <1>4, <1>5 DEF Next, Run

\* As long as no run has overlapped another or the digest, each stored pick has a
\* price of its side and its latest version is the pick, and a market has one pick.
THEOREM RowsOfOneRun == Spec => []RowsAgree
<1>1. Init => AgreeInv
  <2>1. ASSUME Init PROVE SentFirst /\ Undisturbed
    BY <2>1 DEF Init, SentFirst, Undisturbed, AtRest, Sending
  <2>2. ASSUME Init PROVE Alone
    BY <2>2 DEF Init, Alone, Agreed, AtRest, NoRow
  <2> QED BY <2>1, <2>2, TypedInit, PickAssumption DEF MailInv, AgreeInv
<1>2. AgreeInv /\ [Next]_vars => AgreeInv'
  BY TypedNext, SentFirstNext, UndisturbedNext, AloneNext, PickAssumption DEF AgreeInv, MailInv
<1>3. AgreeInv => RowsAgree
  BY DEF AgreeInv, Alone, Agreed, Pairs, RowsAgree, PricedOnItsSide, VersionsFollow,
         OnePickPerMarket, Stored
<1> QED BY <1>1, <1>2, <1>3, PTL DEF Spec

-----------------------------------------------------------------------------
(* Type correctness: whoever refers to a pick refers to a stored one *)

\* What runs, emails and passes refer to are picks of the set.
References(picks) ==
    /\ \A r \in Runs : run[r].emailed \subseteq picks
    /\ \A e \in emailed \cup inbox : e.pick \in picks
    /\ \A d \in Digests : \A e \in digest[d].says : e.pick \in picks
    /\ \A g \in Graders : due[g] \subseteq picks

\* No pick is deleted, and a transaction has every stored one.
StoredInv ==
    /\ Typed /\ References(Stored(pick))
    /\ lock = Free => tx = NoTx
    /\ lock # Free => Stored(pick) \subseteq Stored(tx.pick)

\* An open transaction goes on having what is stored.
LEMMA PriceStores ==
    ASSUME StoredInv, NEW r \in Runs, NEW g \in Games, NEW answers \in Responses(g),
           Price(r, g, answers)
    PROVE  /\ lock' = Free => tx' = NoTx
           /\ lock' # Free => Stored(pick) \subseteq Stored(tx'.pick)
<1>1. Typed /\ run[r].busy /\ run[r].seen \in [Rows -> RowSet]
  BY DEF StoredInv, Typed, Price
<1>2. CASE UNCHANGED <<lock, tx>>
  BY <1>2 DEF StoredInv
<1>3. CASE Priced(r)
  <2>1. lock' = r /\ r # Free
    BY <1>3, PickAssumption DEF Priced, Free
  <2>2. Work(r) \in [Rows -> RowSet] /\ Stored(pick) \subseteq Stored(Work(r))
    BY <1>1, <1>3, <2>1 DEF Priced, Work, StoredInv, Typed
  <2>3. ASSUME NEW p \in Rows, Work(r)[p].market # Absent PROVE tx'.pick[p].market # Absent
    <3>1. CASE tx'.pick[p] = Work(r)[p]
      BY <2>3, <3>1
    <3>2. CASE Rewritten(r, p)
      <4>1. PICK new \in RowSet : /\ new.market = run[r].seen[p].market
                                  /\ tx'.pick[p] = Update(Work(r)[p], run[r].seen[p], new)
        BY <3>2 DEF Rewritten
      <4>2. tx'.pick[p].market = Work(r)[p].market
        BY <1>1, <2>2, <4>1, UpdateTyped
      <4> QED BY <2>3, <4>2
    <3> QED BY <1>3, <2>3, <3>1, <3>2 DEF Priced
  <2> QED BY <2>1, <2>2, <2>3 DEF Stored
<1> QED BY <1>1, <1>2, <1>3, PriceWrites, PickAssumption

LEMMA TablesKept ==
    ASSUME StoredInv, [Next]_vars
    PROVE  /\ Stored(pick) \subseteq Stored(pick')
           /\ lock' = Free => tx' = NoTx
           /\ lock' # Free => Stored(pick') \subseteq Stored(tx'.pick)
<1>1. ASSUME NEW r \in Runs, Commit(r) \/ Abort(r)
      PROVE  /\ Stored(pick) \subseteq Stored(pick')
             /\ lock' = Free => tx' = NoTx
             /\ lock' # Free => Stored(pick') \subseteq Stored(tx'.pick)
  <2>1. lock' = (IF lock = r THEN Free ELSE lock) /\ tx' = (IF lock = r THEN NoTx ELSE tx)
    BY <1>1 DEF Commit, Abort, Leave
  <2>2. pick' = pick \/ (lock = r /\ pick' = tx.pick)
    BY <1>1 DEF Commit, Abort, db
  <2>3. r # Free
    BY PickAssumption DEF Free
  <2> QED BY <2>1, <2>2, <2>3 DEF StoredInv
<1>2. ASSUME NEW r \in Runs, NEW g \in Games, NEW answers \in Responses(g), Price(r, g, answers)
      PROVE  /\ pick' = pick
             /\ lock' = Free => tx' = NoTx
             /\ lock' # Free => Stored(pick) \subseteq Stored(tx'.pick)
  BY <1>2, PriceStores DEF Price, db
<1>3. ASSUME \/ \E r \in Runs : Load(r) \/ \E g \in Games : Skip(r, g)
             \/ \E g \in Games : KickOff(g) \/ Finish(g)
             \/ \E g \in Graders : ReadDue(g) \/ CommitResults(g)
             \/ \E d \in Digests : Select(d) \/ Send(d) \/ Record(d)
             \/ UNCHANGED vars
      PROVE  UNCHANGED <<pick, lock, tx>>
  BY <1>3 DEF Load, Skip, KickOff, Finish, ReadDue, CommitResults, Select, Send, Record, db, vars
<1>4. CASE UNCHANGED <<pick, lock, tx>>
  BY <1>4 DEF StoredInv
<1> QED BY <1>1, <1>2, <1>3, <1>4 DEF Next, Run

\* What is read refers to what is stored.
LEMMA ReferencesKept ==
    ASSUME StoredInv, [Next]_vars
    PROVE  References(Stored(pick))'
<1> DEFINE S == Stored(pick)
           T == Stored(pick')
<1>1. S \subseteq T /\ Typed /\ References(S)
  BY TablesKept DEF StoredInv
<1> HIDE DEF T
<1>2. ASSUME NEW r \in Runs, run' = [run EXCEPT ![r] = AtRest] \/
                             \E g \in Games : run' = [run EXCEPT ![r].todo = @ \ {g}]
      PROVE  \A q \in Runs : run'[q].emailed \subseteq T
  <2>1. \A q \in Runs : run'[q].emailed \in {run[q].emailed, {}}
    <3>1. run \in [Runs -> RunState]
      BY <1>1 DEF Typed
    <3>2. CASE run' = [run EXCEPT ![r] = AtRest]
      BY <3>1, <3>2 DEF AtRest
    <3>3. ASSUME NEW g \in Games, run' = [run EXCEPT ![r].todo = @ \ {g}]
          PROVE  \A q \in Runs : run'[q].emailed = run[q].emailed
      BY <3>1, <3>3 DEF RunState
    <3> QED BY <1>2, <3>2, <3>3
  <2> QED BY <1>1, <2>1 DEF References
<1>3. ASSUME NEW r \in Runs, Load(r) PROVE \A q \in Runs : run'[q].emailed \subseteq T
  <2> DEFINE mail == {e.pick : e \in emailed}
             mem == [loaded |-> Stored(pick), seen |-> pick, busy |-> TRUE, emailed |-> mail,
                     graded |-> {p \in Rows : results[p] > 0},
                     todo |-> {g \in Games \ final : NotStarted(g)}]
  <2>2. run' = [run EXCEPT ![r] = mem] /\ mem.emailed = mail
    BY <1>3 DEF Load
  <2>3. mail \subseteq S
    BY <1>1 DEF References
  <2> HIDE DEF mem, mail
  <2>1. \A q \in Runs : run'[q].emailed = IF q = r THEN mail ELSE run[q].emailed
    BY <1>1, <2>2 DEF Typed
  <2> QED BY <1>1, <2>1, <2>3 DEF References
<1>4. \A q \in Runs : run'[q].emailed \subseteq T
  <2>1. CASE run' = run
    BY <1>1, <2>1 DEF References
  <2>2. ASSUME \/ \E g \in Games : KickOff(g) \/ Finish(g)
               \/ \E g \in Graders : ReadDue(g) \/ CommitResults(g)
               \/ \E d \in Digests : Select(d) \/ Send(d) \/ Record(d)
               \/ UNCHANGED vars
        PROVE  run' = run
    BY <2>2 DEF KickOff, Finish, ReadDue, CommitResults, Select, Send, Record, vars
  <2>3. ASSUME NEW r \in Runs, Commit(r) \/ Abort(r) PROVE run' = [run EXCEPT ![r] = AtRest]
    BY <2>3 DEF Commit, Abort, Leave
  <2>4. ASSUME NEW r \in Runs, NEW g \in Games, Skip(r, g) \/ \E answers \in Responses(g) : Price(r, g, answers)
        PROVE  run' = [run EXCEPT ![r].todo = @ \ {g}]
    BY <2>4 DEF Skip, Price
  <2> QED BY <1>2, <1>3, <2>1, <2>2, <2>3, <2>4 DEF Next, Run
<1>5. ASSUME NEW d \in Digests, Select(d) \/ Send(d) \/ Record(d)
      PROVE  /\ \A e \in emailed' \cup inbox' : e.pick \in T
             /\ \A c \in Digests : \A e \in digest'[c].says : e.pick \in T
  <2>1. CASE Select(d)
    <3>1. PICK shown \in SUBSET S :
            digest' = [digest EXCEPT ![d] = [at |-> "selected", says |-> {Advice(p, pick[p]) : p \in shown}]]
      BY <2>1 DEF Select
    <3>2. \A c \in Digests : digest'[c].says = IF c = d THEN {Advice(p, pick[p]) : p \in shown}
                                               ELSE digest[c].says
      BY <1>1, <3>1 DEF Typed
    <3>3. \A e \in {Advice(p, pick[p]) : p \in shown} : e.pick \in S
      BY DEF Advice
    <3> QED BY <1>1, <2>1, <3>2, <3>3 DEF Select, References
  <2>2. CASE Send(d) \/ Record(d)
    <3>1. /\ emailed' \subseteq emailed \cup digest[d].says /\ inbox' \subseteq inbox \cup digest[d].says
          /\ \/ digest' = [digest EXCEPT ![d].at = "sent"]
             \/ digest' = [digest EXCEPT ![d] = [at |-> "done", says |-> {}]]
      BY <2>2 DEF Send, Record, AsEmailed
    <3>2. \A c \in Digests : digest'[c].says \in {digest[c].says, {}}
      BY <1>1, <3>1 DEF Typed
    <3> QED BY <1>1, <3>1, <3>2 DEF References
  <2> QED BY <1>5, <2>1, <2>2
<1>6. /\ \A e \in emailed' \cup inbox' : e.pick \in T
      /\ \A d \in Digests : \A e \in digest'[d].says : e.pick \in T
  <2>1. ASSUME ~ \E d \in Digests : Select(d) \/ Send(d) \/ Record(d)
        PROVE  UNCHANGED <<emailed, inbox, digest>>
    BY <2>1 DEF Next, Run, Load, Commit, Abort, Skip, Price, KickOff, Finish, ReadDue, CommitResults, vars
  <2> QED BY <1>1, <1>5, <2>1 DEF References
<1>7. \A g \in Graders : due'[g] \subseteq T
  <2>1. ASSUME NEW g \in Graders, ReadDue(g) \/ CommitResults(g)
        PROVE  \A h \in Graders : due'[h] \subseteq due[h] \cup S
    BY <1>1, <2>1 DEF ReadDue, CommitResults, Typed
  <2>2. ASSUME ~ \E g \in Graders : ReadDue(g) \/ CommitResults(g)
        PROVE  due' = due
    BY <2>2 DEF Next, Run, Load, Commit, Abort, Skip, Price, KickOff, Finish, Select, Send, Record, vars
  <2> QED BY <1>1, <2>1, <2>2 DEF References
<1> QED BY <1>4, <1>6, <1>7 DEF References, T

\* However runs, digests and passes overlap, every column and every variable in memory is of
\* its type, the lock is held exactly while a transaction is open, and what the emails, runs
\* and passes refer to is stored.
THEOREM PicksTypeCorrect == Spec => []TypeOK
<1>1. Init => StoredInv
  <2> SUFFICES ASSUME Init PROVE StoredInv
    OBVIOUS
  <2>1. References(Stored(pick))
    BY DEF Init, References, AtRest
  <2> QED BY <2>1, TypedInit, PickAssumption DEF Init, StoredInv
<1>2. StoredInv /\ [Next]_vars => StoredInv'
  <2> SUFFICES ASSUME StoredInv, [Next]_vars PROVE StoredInv'
    OBVIOUS
  <2>1. Typed'
    BY TypedNext, PickAssumption DEF StoredInv
  <2> QED BY <2>1, TablesKept, ReferencesKept DEF StoredInv
<1>3. StoredInv => TypeOK
  <2> SUFFICES ASSUME StoredInv PROVE TypeOK
    OBVIOUS
  <2>1. lock # Free => tx # NoTx
    <3>1. 1 \in Rows
      BY PickAssumption DEF Rows
    <3>2. <<>> \notin [Rows -> RowSet]
      BY <3>1
    <3> QED BY <3>2 DEF StoredInv, Typed, NoTx
  <2>2. \A p \in Rows : \A v \in Range(vers[p]) : v \in {Tracked(row) : row \in RowSet}
    <3> SUFFICES ASSUME NEW p \in Rows, NEW v \in Range(vers[p]) PROVE v \in Versions
      BY DEF Versions
    <3>1. vers[p] \in Seq(Versions)
      BY DEF StoredInv, Typed
    <3>2. PICK i \in DOMAIN vers[p] : v = vers[p][i]
      BY DEF Range
    <3>3. \A s \in Seq(Versions) : \A j \in DOMAIN s : s[j] \in Versions
      OBVIOUS
    <3> QED BY <3>1, <3>2, <3>3
  <2>3. \A r \in Runs : run[r].todo \subseteq Games
    BY DEF StoredInv, Typed, RunState
  <2> QED BY <2>1, <2>2, <2>3 DEF StoredInv, References, Typed, TypeOK
<1> QED BY <1>1, <1>2, <1>3, PTL DEF Spec

-----------------------------------------------------------------------------
(* The stars of a game's picks: what the strategies say of its moneyline.    *)
CONSTANTS
    Books, Quotes, Contests, Models, Settlements, MIN_PICKS_PER_TIER, MAX_PICKS_PER_TIER,
    MIN_CALIBRATION_SAMPLE, UNITS_PER_BANKROLL, MaxUpdates, MaxViews, MaxResults, MaxNights, None
VARIABLES contest, rows, model, thresholds, settled, stored, begun, count, same
Picking == INSTANCE Selection WITH results <- settled, started <- begun

Reasoned(p) == p.tier >= 2 => \E f \in p.factors : f.code \in Picking!Signals /\ f.side = p.side

Counts == contest.name # "recent_form" /\ contest.sport \notin Picking!COMBAT_SPORTS

\* A pick has the columns of one, and a moneyline's stars have their reason.
Columns == {"side", "tier", "chance", "odds", "line", "factors", "tracked", "stake", "emailed",
            "withdrawn", "clv", "unmoved"}
StarsInv ==
    /\ stored = [m \in Picking!Markets |-> stored[m]]
    /\ \A m \in Picking!Markets : stored[m] # None => DOMAIN stored[m] = Columns
    /\ Counts /\ stored["moneyline"] # None => Reasoned(stored["moneyline"])

LEMMA PickCount == \A S : Picking!Cardinality(S) = Cardinality(S)
  BY DEF Picking!Cardinality, Cardinality

LEMMA SignalCount ==
    ASSUME NEW S \in SUBSET Picking!Signals
    PROVE  Cardinality(S) \in Nat /\ (Cardinality(S) >= 1 => S # {})
<1>1. IsFiniteSet(Picking!Signals)
  <2>1. IsFiniteSet({}) /\ Picking!Signals = (({} \cup {"point_diff"}) \cup {"elo"}) \cup {"net"}
    BY FS_EmptySet DEF Picking!Signals
  <2>2. \A T, x : IsFiniteSet(T) => IsFiniteSet(T \cup {x})
    BY FS_AddElement
  <2> QED
    BY <2>1, <2>2
<1>2. IsFiniteSet(S)
  BY <1>1, FS_Subset
<1> QED
  BY <1>2, FS_CardinalityType, FS_EmptySet

\* Two stars or more ask for a vote, of which there must be one.
LEMMA StarsNeedVotes ==
    ASSUME NEW edge, NEW votes, votes[1] \in Nat, votes[2] \in Nat,
           Picking!calculate_confidence(edge, votes) >= 2
    PROVE  votes[1] >= 1
<1> DEFINE S == {0} \cup {t \in Picking!Tiers :
                    /\ edge >= 100 * thresholds[t]
                    /\ IF votes[2] = 0 THEN Picking!DEFAULT_MIN_MODELS[t] = 0
                                       ELSE votes[1] >= Picking!Required(t, votes[2])}
           top == Picking!Max(S)
<1>1. Picking!calculate_confidence(edge, votes) = top
  BY DEF Picking!calculate_confidence
<1>2. S \in SUBSET (0 .. 5) /\ 0 \in S
  BY DEF Picking!Tiers
<1>3. top \in S
  <2> HIDE DEF S
  <2>1. \E x \in S : \A y \in S : x >= y
    <3>1. CASE 5 \in S
      BY <1>2, <3>1
    <3>2. CASE 5 \notin S /\ 4 \in S
      BY <1>2, <3>2
    <3>3. CASE 5 \notin S /\ 4 \notin S /\ 3 \in S
      BY <1>2, <3>3
    <3>4. CASE 5 \notin S /\ 4 \notin S /\ 3 \notin S /\ 2 \in S
      BY <1>2, <3>4
    <3>5. CASE 5 \notin S /\ 4 \notin S /\ 3 \notin S /\ 2 \notin S
      <4>1. S \in SUBSET (0 .. 1)
        BY <1>2, <3>5
      <4>2. CASE 1 \in S
        BY <4>1, <4>2
      <4>3. CASE 1 \notin S
        BY <1>2, <4>1, <4>3
      <4> QED
        BY <4>2, <4>3
    <3> QED
      BY <3>1, <3>2, <3>3, <3>4, <3>5
  <2> QED
    BY <2>1 DEF Picking!Max
<1> HIDE DEF top
<1>4. top \in 2 .. 5 /\ top # 0
  BY <1>1, <1>2, <1>3
<1>5. Picking!DEFAULT_MIN_MODELS[top] \in 1 .. 3
  BY <1>4 DEF Picking!DEFAULT_MIN_MODELS
<1>6. votes[2] # 0 /\ votes[1] >= Picking!Required(top, votes[2])
  BY <1>3, <1>4, <1>5
<1>7. Picking!Required(top, votes[2]) >= 1
  <2>1. PICK k \in 1 .. 3 : Picking!DEFAULT_MIN_MODELS[top] = k
    BY <1>5
  <2>2. \A j \in {1, 2, 3} : (j * votes[2] + 2) \div 3 >= 1
    BY <1>6
  <2>3. k \in {1, 2, 3}
    OBVIOUS
  <2> QED
    BY <2>1, <2>2, <2>3 DEF Picking!Required
<1>8. Picking!Required(top, votes[2]) \in Int
  BY <1>5 DEF Picking!Required
<1> QED
  BY <1>6, <1>7, <1>8

\* What is predicted for the moneyline has a signal of its side behind its stars.
LEMMA PredictedReasoned ==
    ASSUME NEW avg, Counts, Picking!Predicted("moneyline", avg) # None
    PROVE  Reasoned(Picking!Predicted("moneyline", avg))
<1> DEFINE p == Picking!Predicted("moneyline", avg)
           side == Picking!Chosen("moneyline", avg)
           votes == Picking!Votes("moneyline", side)
<1>1. /\ p.side = side /\ p.tier = Picking!Tier("moneyline", side, avg)
      /\ p.factors = Picking!build_factors("moneyline", side)
  BY DEF Picking!Predicted
<1> SUFFICES ASSUME p.tier >= 2 PROVE \E f \in p.factors : f.code \in Picking!Signals /\ f.side = p.side
  BY DEF Reasoned
<1> HIDE DEF p
<1>2. Picking!calculate_confidence(Picking!Edge("moneyline", side, avg), votes) >= 2
  BY <1>1 DEF Picking!Tier
<1> HIDE DEF side
<1>3. /\ votes[1] = Cardinality(Picking!Agreeing(side))
      /\ votes[2] = Cardinality(Picking!Available(side)) \/ votes[2] = 3
  BY PickCount DEF Picking!Votes, Counts
<1>4. Picking!Agreeing(side) \in SUBSET Picking!Signals /\ Picking!Available(side) \in SUBSET Picking!Signals
  BY DEF Picking!Agreeing, Picking!Available
<1>5. votes[1] \in Nat /\ votes[2] \in Nat
  BY <1>3, <1>4, SignalCount
<1> HIDE DEF votes
<1>6. votes[1] >= 1
  BY <1>2, <1>5, StarsNeedVotes
<1>7. PICK s \in Picking!Signals : s \in Picking!Agreeing(side)
  BY <1>3, <1>4, <1>6, SignalCount
<1>8. s \in Picking!FACTOR_CODES
  BY DEF Picking!FACTOR_CODES, Counts
<1>9. [code |-> s, side |-> side] \in p.factors
  BY <1>1, <1>7, <1>8 DEF Picking!build_factors
<1> QED
  BY <1>1, <1>9

\* Sizing and storing leave a prediction's stars and reasons alone.
LEMMA StoredReasoned ==
    ASSUME StarsInv, Picking!generate_and_store_picks
    PROVE  StarsInv'
<1> DEFINE new == Picking!Sized(Picking!predict)
<1>1. /\ contest' = contest
      /\ stored' = [m \in Picking!Markets |->
                       IF new[m] = None THEN Picking!_withdraw_stale(stored[m])
                       ELSE IF stored[m] = None THEN new[m] ELSE Picking!_refresh_pick(stored[m], new[m])]
  BY DEF Picking!generate_and_store_picks
<1>2. PICK avg : Picking!predict = [moneyline |-> Picking!Predicted("moneyline", avg),
                                    spread |-> Picking!Predicted("spread", avg),
                                    over_under |-> Picking!Predicted("over_under", avg)]
  BY DEF Picking!predict
<1>3. ASSUME NEW m \in Picking!Markets
      PROVE  Picking!predict[m] # None => DOMAIN Picking!predict[m] = Columns
  <2>1. Picking!predict[m] = Picking!Predicted(m, avg)
    BY <1>2 DEF Picking!Markets
  <2> QED
    BY <2>1 DEF Picking!Predicted, Columns
<1>4. ASSUME Counts, Picking!predict["moneyline"] # None PROVE Reasoned(Picking!predict["moneyline"])
  <2>1. Picking!predict["moneyline"] = Picking!Predicted("moneyline", avg)
    BY <1>2
  <2> QED
    BY <1>4, <2>1, PredictedReasoned
<1>5. ASSUME NEW m \in Picking!Markets, new[m] # None
      PROVE  /\ DOMAIN new[m] = Columns /\ Picking!predict[m] # None
             /\ new[m].tier = Picking!predict[m].tier /\ new[m].side = Picking!predict[m].side
             /\ new[m].factors = Picking!predict[m].factors
  <2>1. PICK fraction :
            new[m] = (CASE m \in Picking!Keepers(Picking!predict) ->
                             [Picking!predict[m] EXCEPT !.stake =
                                 Picking!fractional_kelly(Picking!predict[m].chance, Picking!predict[m].odds, fraction)]
                        [] Picking!predict[m] = None \/ Picking!predict[m].tier = 0 -> None
                        [] OTHER -> Picking!predict[m])
    BY DEF Picking!Sized
  <2>2. m \in Picking!Keepers(Picking!predict) =>
            Picking!predict[m] # None /\ ~(Picking!predict[m] = None \/ Picking!predict[m].tier = 0)
    BY DEF Picking!Keepers
  <2> HIDE DEF new
  <2>3. CASE m \in Picking!Keepers(Picking!predict)
    <3>1. PICK x : new[m] = [Picking!predict[m] EXCEPT !.stake = x]
      BY <2>1, <2>2, <2>3
    <3>2. DOMAIN Picking!predict[m] = Columns
      BY <1>3, <2>2, <2>3
    <3> QED
      BY <2>2, <2>3, <3>1, <3>2 DEF Columns
  <2>4. CASE m \notin Picking!Keepers(Picking!predict)
    <3>1. new[m] = Picking!predict[m]
      BY <1>5, <2>1, <2>4
    <3> QED
      BY <1>3, <1>5, <3>1
  <2> QED
    BY <2>3, <2>4
<1> HIDE DEF new
<1>6. ASSUME NEW m \in Picking!Markets, stored'[m] # None
      PROVE  /\ DOMAIN stored'[m] = Columns
             /\ \/ stored[m] # None /\ \A c \in {"tier", "side", "factors"} : stored'[m][c] = stored[m][c]
                \/ new[m] # None /\ \A c \in {"tier", "side", "factors"} : stored'[m][c] = new[m][c]
  <2>1. CASE new[m] = None
    <3>1. stored'[m] = Picking!_withdraw_stale(stored[m])
      BY <1>1, <2>1
    <3> QED
      BY <1>6, <3>1 DEF Picking!_withdraw_stale, StarsInv, Columns
  <2>2. CASE new[m] # None
    <3>1. stored'[m] = new[m] \/ stored'[m] = Picking!_refresh_pick(stored[m], new[m])
      BY <1>1, <2>2
    <3> QED
      BY <1>5, <2>2, <3>1 DEF Picking!_refresh_pick, Columns
  <2> QED
    BY <2>1, <2>2
<1>7. "moneyline" \in Picking!Markets
  BY DEF Picking!Markets
<1>8. Counts' = Counts
  BY <1>1 DEF Counts
<1>9. ASSUME Counts, stored'["moneyline"] # None PROVE Reasoned(stored'["moneyline"])
  <2>1. CASE stored["moneyline"] # None
             /\ \A c \in {"tier", "side", "factors"} : stored'["moneyline"][c] = stored["moneyline"][c]
    BY <1>9, <2>1 DEF StarsInv, Reasoned
  <2>2. CASE new["moneyline"] # None
             /\ \A c \in {"tier", "side", "factors"} : stored'["moneyline"][c] = new["moneyline"][c]
    BY <1>4, <1>5, <1>7, <1>9, <2>2 DEF Reasoned
  <2> QED
    BY <1>6, <1>7, <1>9, <2>1, <2>2
<1>10. stored' = [m \in Picking!Markets |-> stored'[m]]
  BY <1>1
<1> QED
  BY <1>6, <1>8, <1>9, <1>10 DEF StarsInv, Reasoned

LEMMA StarsStep == ASSUME StarsInv, [Picking!Next]_(Picking!vars) PROVE StarsInv'
<1>1. CASE Picking!generate_and_store_picks
  BY <1>1, StoredReasoned
<1>2. CASE Picking!Review \/ Picking!Settle \/ Picking!Recalibrate \/ UNCHANGED Picking!vars
  <2>1. UNCHANGED <<contest, stored>>
    BY <1>2 DEF Picking!Review, Picking!Settle, Picking!Recalibrate, Picking!vars
  <2> QED
    BY <2>1 DEF StarsInv, Counts, Reasoned
<1>3. CASE Picking!Email \/ Picking!Grade \/ \E b \in Books : Picking!FeedBook(b)
  <2>1. contest' = contest /\ stored' = [m \in Picking!Markets |-> stored'[m]]
    BY <1>3 DEF Picking!Email, Picking!Grade, Picking!FeedBook, StarsInv
  <2>2. ASSUME NEW m \in Picking!Markets, stored'[m] # None
        PROVE  stored[m] # None /\ DOMAIN stored'[m] = Columns
               /\ \A c \in {"tier", "side", "factors"} : stored'[m][c] = stored[m][c]
    <3>1. CASE Picking!Email
      <4>1. PICK n \in Picking!Markets : stored[n] # None /\ stored' = [stored EXCEPT ![n].emailed = TRUE]
        BY <3>1 DEF Picking!Email
      <4>2. stored'[m] = IF m = n THEN [stored[m] EXCEPT !.emailed = TRUE] ELSE stored[m]
        BY <4>1 DEF StarsInv
      <4> QED
        BY <2>2, <4>1, <4>2 DEF StarsInv, Columns
    <3>2. CASE Picking!Grade
      <4>1. stored'[m] = IF stored[m] = None \/ stored[m].withdrawn THEN stored[m]
                         ELSE [stored[m] EXCEPT !.clv = Picking!compute_pick_clv(m, stored[m])]
        BY <3>2 DEF Picking!Grade
      <4> QED
        BY <2>2, <4>1 DEF StarsInv, Columns
    <3>3. CASE \E b \in Books : Picking!FeedBook(b)
      <4>1. stored'[m] = IF stored[m] = None THEN None ELSE [stored[m] EXCEPT !.unmoved = FALSE]
        BY <3>3 DEF Picking!FeedBook
      <4> QED
        BY <2>2, <4>1 DEF StarsInv, Columns
    <3> QED
      BY <1>3, <3>1, <3>2, <3>3
  <2>3. "moneyline" \in Picking!Markets
    BY DEF Picking!Markets
  <2> QED
    BY <2>1, <2>2, <2>3 DEF StarsInv, Counts, Reasoned
<1> QED
  BY <1>1, <1>2, <1>3 DEF Picking!Next

\* Two stars or more on a moneyline are never without a signal that speaks for its side,
\* whatever the books quote, the statistics say and the recalibration makes of the thresholds.
THEOREM StarsReasoned == Picking!Spec => []Picking!StarsHaveReasons
<1>1. Picking!Init => StarsInv
  BY DEF Picking!Init, StarsInv, Picking!Markets
<1>2. StarsInv /\ [Picking!Next]_(Picking!vars) => StarsInv'
  BY StarsStep
<1>3. StarsInv => Picking!StarsHaveReasons
  BY DEF StarsInv, Picking!StarsHaveReasons, Counts, Reasoned
<1> QED
  BY <1>1, <1>2, <1>3, PTL DEF Picking!Spec
=============================================================================
