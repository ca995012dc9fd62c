--------------------------- MODULE HindsightProofs ---------------------------
(***************************************************************************)
(* Whatever the owner's requests do to each other, one strategy of each    *)
(* kind is active, of a name the pipelines can run; neither the tuner nor  *)
(* a prop backtest has seen what it is judged on, and no statistic the     *)
(* games of its own day; a game to be played is priced on the rating the   *)
(* replay will store for it; and a prop is settled on what its player did. *)
(***************************************************************************)
EXTENDS Strategies, FiniteSetTheorems, SequenceTheorems, WellFoundedInduction, TLAPS

-----------------------------------------------------------------------------
(* The invariant *)

Request == [op : {"promote", "update", "tune", "backtest"}, id : Ids, row : RowSet]

Typed ==
    /\ strategies \in [Ids -> RowSet \cup {None}]
    /\ DOMAIN requests = Threads
    /\ \A t \in Threads : requests[t] # None => requests[t] \in Request
    /\ edits \in 0 .. MaxEdits

\* The row a request has loaded is still there, under its name and of its kind; one that
\* is to be promoted is of a name that can run.
Loaded(t) ==
    requests[t] # None =>
        LET row == requests[t].row
            stored == strategies[requests[t].id]
        IN  /\ requests[t].id \in Saved
            /\ row.name = stored.name /\ row.strategy_type = stored.strategy_type
            /\ requests[t].op = "promote" => row.name \in promotable(row.strategy_type)

One(kind) == \E i \in Ids : Active(kind) = {i} /\ strategies[i].name \in promotable(kind)

\* The last answer is a report on the logs or the games that were asked for.
Answered ==
    \/ answer = None
    \/ \E s \in Logs : answer = [logs |-> s, picks |-> [i \in Tested(s) |-> backtest(i, s)]]
    \/ \E played \in Histories : answer = tune_game_strategy(played)

StrategiesInv == Typed /\ (\A t \in Threads : Loaded(t)) /\ One("game") /\ One("prop")

-----------------------------------------------------------------------------
(* The rows *)

\* A nonempty set of numbers has a least one.
LEMMA LeastNumber ==
    ASSUME NEW S \in SUBSET Nat, S # {}
    PROVE  Min(S) \in S /\ \A k \in S : Min(S) <= k
<1> DEFINE R == {p \in Nat \X Nat : p[1] < p[2]}
<1>1. IsWellFoundedOn(R, Nat)
  <2>1. R = OpToRel(<, Nat)
    BY DEF OpToRel
  <2> QED
    BY <2>1, NatLessThanWellFounded
<1>2. ASSUME NEW k \in Nat, NEW n \in Nat, k < n PROVE <<k, n>> \in R
  <2> DEFINE p == <<k, n>>
  <2>1. p \in Nat \X Nat /\ p[1] = k /\ p[2] = n
    OBVIOUS
  <2>2. p[1] < p[2]
    BY <1>2, <2>1
  <2> HIDE DEF p
  <2>3. p \in R
    BY <2>1, <2>2
  <2> QED
    BY <2>3 DEF p
<1> HIDE DEF R
<1>3. PICK n \in S : \A k \in S : <<k, n>> \notin R
  BY <1>1, WFMin
<1>4. ASSUME NEW k \in S PROVE n <= k
  <2>1. k \in Nat /\ n \in Nat /\ <<k, n>> \notin R
    BY <1>3
  <2>2. ~(k < n)
    BY <1>2, <2>1
  <2> QED
    BY <2>1, <2>2
<1> QED
  BY <1>4 DEF Min

\* The tuner chooses a bar of its grid, if any.
LEMMA BestIs ==
    ASSUME StrategiesAssumption, NEW train
    PROVE  Best(train) \in Edges \cup {None}
<1> DEFINE best == {i \in Eligible(train) : \A j \in Eligible(train) : Score(train, j) <= Score(train, i)}
<1>1. best \in SUBSET (DOMAIN Grid)
  BY DEF Eligible
<1>2. Best(train) = IF best = {} THEN None ELSE Grid[Min(best)]
  BY DEF Best
<1>3. DOMAIN Grid \in SUBSET Nat /\ \A i \in DOMAIN Grid : Grid[i] \in Edges
  BY DEF StrategiesAssumption
<1> HIDE DEF best
<1>4. best # {} => Min(best) \in best
  BY <1>1, <1>3, LeastNumber
<1> QED
  BY <1>1, <1>2, <1>3, <1>4

\* A step that leaves every row where it is, of its name and kind and as active as it was,
\* and adds rows that are not active, keeps one active row of each kind.
RowsStay ==
    /\ strategies' \in [Ids -> RowSet \cup {None}]
    /\ \A i \in Saved :
          /\ strategies'[i] # None
          /\ strategies'[i].name = strategies[i].name
          /\ strategies'[i].strategy_type = strategies[i].strategy_type
    /\ \A i \in Saved' \ Saved : strategies'[i].active = FALSE

LEMMA OneStays ==
    ASSUME RowsStay, \A i \in Saved : strategies'[i].active = strategies[i].active, NEW kind, One(kind)
    PROVE  One(kind)'
<1>1. PICK i \in Ids : Active(kind) = {i} /\ strategies[i].name \in promotable(kind)
  BY DEF One
<1>2. Active(kind)' = Active(kind)
  BY DEF Active, Saved, RowsStay
<1>3. strategies'[i].name = strategies[i].name
  BY <1>1 DEF Active, RowsStay
<1>4. promotable(kind)' = promotable(kind)
  BY DEF promotable
<1> QED
  BY <1>1, <1>2, <1>3, <1>4 DEF One

LEMMA LoadedStays ==
    ASSUME RowsStay, NEW t \in Threads, Loaded(t), Typed, requests'[t] \in {requests[t], None}
    PROVE  Loaded(t)'
<1>1. CASE requests'[t] = None
  BY <1>1 DEF Loaded
<1>2. CASE requests'[t] # None
  <2>1. requests'[t] = requests[t] /\ requests[t].id \in Saved
    BY <1>2 DEF Loaded
  <2>2. requests[t].id \in Saved'
    BY <2>1 DEF RowsStay, Saved
  <2>3. promotable(requests[t].row.strategy_type)' = promotable(requests[t].row.strategy_type)'
    OBVIOUS
  <2> QED
    BY <2>1, <2>2 DEF Loaded, RowsStay, promotable, STRATEGY_MAP, GameStrategies
<1> QED
  BY <1>1, <1>2

LEMMA RequestsStay ==
    ASSUME Typed, NEW t \in Threads, requests' = [requests EXCEPT ![t] = None]
    PROVE  /\ DOMAIN requests' = Threads
           /\ \A u \in Threads : requests'[u] \in {requests[u], None}
           /\ \A u \in Threads : requests'[u] # None => requests'[u] \in Request
  BY DEF Typed

\* A step of a request that changes configs only, or of none that adds a row.
LEMMA StayKeeps ==
    ASSUME StrategiesInv, RowsStay, \A i \in Saved : strategies'[i].active = strategies[i].active,
           DOMAIN requests' = Threads, \A u \in Threads : requests'[u] \in {requests[u], None},
           edits' \in 0 .. MaxEdits
    PROVE  StrategiesInv'
<1>1. Typed'
  BY DEF StrategiesInv, Typed, RowsStay
<1>2. \A u \in Threads : Loaded(u)'
  BY LoadedStays DEF StrategiesInv
<1>3. One("game")' /\ One("prop")'
  BY OneStays DEF StrategiesInv
<1> QED
  BY <1>1, <1>2, <1>3 DEF StrategiesInv

LEMMA StrategiesInit ==
    ASSUME StrategiesAssumption, Init
    PROVE  StrategiesInv
<1> DEFINE first == Row("ensemble", "game", None, TRUE)
           second == Row("prop_value", "prop", None, TRUE)
<1>1. first \in RowSet /\ second \in RowSet /\ None \notin RowSet /\ {1, 2} \subseteq Ids
  BY DEF Row, RowSet, Names, Kinds, Sports, StrategiesAssumption
<1>2. /\ first.active = TRUE /\ first.strategy_type = "game" /\ first.name = "ensemble"
      /\ second.active = TRUE /\ second.strategy_type = "prop" /\ second.name = "prop_value"
  BY DEF Row
<1> HIDE DEF first, second
<1>3. /\ strategies = [i \in Ids |-> IF i \in {1, 2} THEN <<first, second>>[i] ELSE None]
      /\ requests = [t \in Threads |-> None] /\ edits = 0
  <2>1. Seeds = <<first, second>> /\ DOMAIN Seeds = {1, 2}
    BY DEF Seeds, first, second
  <2> QED
    BY <2>1 DEF Init
<1>4. strategies[1] = first /\ strategies[2] = second /\ \A i \in Ids \ {1, 2} : strategies[i] = None
  BY <1>1, <1>3
<1>5. strategies \in [Ids -> RowSet \cup {None}] /\ Saved = {1, 2}
  <2>1. Saved = {1, 2}
    BY <1>1, <1>4 DEF Saved
  <2>2. \A i \in Ids : strategies[i] \in RowSet \cup {None}
    BY <1>1, <1>4
  <2> QED
    BY <1>3, <2>1, <2>2
<1>6. Typed /\ \A t \in Threads : Loaded(t)
  BY <1>3, <1>5 DEF Typed, Loaded, StrategiesAssumption
<1>7. Active("game") = {1} /\ Active("prop") = {2}
  BY <1>2, <1>4, <1>5 DEF Active
<1>8. "ensemble" \in promotable("game") /\ "prop_value" \in promotable("prop")
  BY DEF promotable, STRATEGY_MAP, GameStrategies
<1>9. One("game") /\ One("prop")
  BY <1>1, <1>2, <1>4, <1>7, <1>8 DEF One
<1> QED
  BY <1>6, <1>9 DEF StrategiesInv

\* A new row is not active.
LEMMA AddedKeeps ==
    ASSUME StrategiesAssumption, StrategiesInv, UNCHANGED <<requests, edits>>,
           NEW i \in Ids \ Saved, NEW row \in RowSet, row.active = FALSE,
           strategies' = [strategies EXCEPT ![i] = row]
    PROVE  StrategiesInv'
<1>1. strategies \in [Ids -> RowSet \cup {None}] /\ DOMAIN requests = Threads /\ edits \in 0 .. MaxEdits
  BY DEF StrategiesInv, Typed
<1>2. strategies'[i] = row /\ \A j \in Saved : strategies'[j] = strategies[j]
  BY <1>1 DEF Saved
<1>3. \A j \in Saved' \ Saved : j = i
  BY <1>1 DEF Saved
<1>4. RowsStay
  BY <1>1, <1>2, <1>3 DEF RowsStay, Saved
<1> QED
  BY <1>1, <1>2, <1>4, StayKeeps

LEMMA CreateKeeps ==
    ASSUME StrategiesAssumption, StrategiesInv, migrate_combat_sports_strategy \/ create_strategy
    PROVE  StrategiesInv'
<1>1. CASE migrate_combat_sports_strategy
  <2> DEFINE row == Row("combat_sports", "game", None, FALSE)
  <2>1. PICK i \in Ids \ Saved : strategies' = [strategies EXCEPT ![i] = row] /\ UNCHANGED <<requests, edits>>
    BY <1>1 DEF migrate_combat_sports_strategy
  <2>2. row \in RowSet /\ row.active = FALSE
    BY DEF Row, RowSet, Names, Kinds, Sports, StrategiesAssumption
  <2> HIDE DEF row
  <2> QED
    BY <2>1, <2>2, AddedKeeps
<1>2. CASE create_strategy
  <2>1. PICK c \in Creations, i \in Ids \ Saved :
          /\ strategies' = [strategies EXCEPT ![i] = Row(c.name, c.strategy_type, c.sport, FALSE)]
          /\ UNCHANGED <<requests, edits>>
    BY <1>2 DEF create_strategy
  <2> DEFINE row == Row(c.name, c.strategy_type, c.sport, FALSE)
  <2>2. row \in RowSet /\ row.active = FALSE
    BY DEF Row, RowSet, Names, Kinds, Sports, StrategiesAssumption
  <2>3. strategies' = [strategies EXCEPT ![i] = row]
    BY <2>1
  <2> HIDE DEF row
  <2> QED
    BY <2>1, <2>2, <2>3, AddedKeeps
<1> QED
  BY <1>1, <1>2

LEMMA LoadKeeps ==
    ASSUME StrategiesAssumption, StrategiesInv, NEW t \in Threads, Load(t)
    PROVE  StrategiesInv'
<1>1. PICK i \in Saved, op \in {"promote", "update", "tune", "backtest"} :
        /\ op = "promote" => strategies[i].name \in promotable(strategies[i].strategy_type)
        /\ requests' = [requests EXCEPT ![t] = [op |-> op, id |-> i, row |-> strategies[i]]]
        /\ UNCHANGED <<strategies, edits>>
  BY DEF Load
<1> DEFINE request == [op |-> op, id |-> i, row |-> strategies[i]]
<1>2. Typed /\ i \in Ids /\ strategies[i] \in RowSet
  BY DEF StrategiesInv, Typed, Saved
<1>3. request \in Request /\ request.op = op /\ request.id = i /\ request.row = strategies[i]
  BY <1>2 DEF Request
<1>4. requests' = [requests EXCEPT ![t] = request]
  BY <1>1
<1> HIDE DEF request
<1>5. DOMAIN requests' = Threads /\ requests'[t] = request /\ \A u \in Threads \ {t} : requests'[u] = requests[u]
  BY <1>2, <1>4 DEF Typed
<1>6. Typed'
  BY <1>1, <1>2, <1>3, <1>5 DEF Typed
<1>7. Loaded(t)'
  BY <1>1, <1>3, <1>5 DEF Loaded, Saved, promotable, STRATEGY_MAP, GameStrategies
<1>8. \A u \in Threads \ {t} : Loaded(u)'
  BY <1>1, <1>5 DEF StrategiesInv, Loaded, Saved, promotable, STRATEGY_MAP, GameStrategies
<1>9. One("game")' /\ One("prop")'
  BY <1>1 DEF StrategiesInv, One, Active, Saved, promotable, STRATEGY_MAP, GameStrategies
<1> QED
  BY <1>6, <1>7, <1>8, <1>9 DEF StrategiesInv

\* Promoting switches off what was active of the kind, and nothing else.
LEMMA PromoteKeeps ==
    ASSUME StrategiesAssumption, StrategiesInv, NEW t \in Threads, promote_strategy(t)
    PROVE  StrategiesInv'
<1> DEFINE r == requests[t]
           i == r.id
           kind0 == r.row.strategy_type
<1>1. /\ r # None /\ r.op = "promote" /\ strategies' = Promoted(i, r.row)
      /\ requests' = [requests EXCEPT ![t] = None] /\ UNCHANGED edits
  BY DEF promote_strategy
<1>2. /\ Typed /\ r \in Request /\ Loaded(t) /\ i \in Saved /\ i \in Ids /\ strategies[i] \in RowSet
      /\ strategies[i].strategy_type = kind0 /\ strategies[i].name \in promotable(kind0)
  BY <1>1 DEF StrategiesInv, Typed, Loaded, Saved
<1>3. ASSUME NEW row \in RowSet, NEW on \in BOOLEAN
      PROVE  LET new == [row EXCEPT !.active = on]
             IN  /\ new \in RowSet /\ new.active = on /\ new.name = row.name
                 /\ new.strategy_type = row.strategy_type
  BY DEF RowSet
<1>4. \A j \in Saved : strategies[j] \in RowSet
  BY <1>2 DEF Typed, Saved
<1>5. ASSUME NEW j \in Ids
      PROVE  /\ j \notin Saved => strategies'[j] = strategies[j]
             /\ j \in Saved =>
                  /\ strategies'[j] \in RowSet
                  /\ strategies'[j].name = strategies[j].name
                  /\ strategies'[j].strategy_type = strategies[j].strategy_type
                  /\ strategies'[j].active =
                        IF j = i THEN TRUE
                        ELSE IF strategies[j].strategy_type = kind0 THEN FALSE ELSE strategies[j].active
  <2>1. strategies'[j] = IF j = i THEN [strategies[j] EXCEPT !.active = TRUE]
                         ELSE IF j \in Saved /\ strategies[j].strategy_type = kind0
                              THEN [strategies[j] EXCEPT !.active = FALSE] ELSE strategies[j]
    BY <1>1 DEF Promoted
  <2> HIDE DEF i, kind0
  <2>2. CASE j = i
    BY <1>2, <1>3, <2>1, <2>2
  <2>3. CASE j # i /\ j \in Saved /\ strategies[j].strategy_type = kind0
    <3>1. strategies'[j] = [strategies[j] EXCEPT !.active = FALSE]
      BY <2>1, <2>3
    <3>2. strategies[j] \in RowSet
      BY <1>4, <2>3
    <3>3. /\ strategies'[j] \in RowSet /\ strategies'[j].active = FALSE
          /\ strategies'[j].name = strategies[j].name
          /\ strategies'[j].strategy_type = strategies[j].strategy_type
      BY <3>1, <3>2 DEF RowSet
    <3> QED
      BY <2>3, <3>3
  <2>4. CASE j # i /\ ~(j \in Saved /\ strategies[j].strategy_type = kind0)
    <3>1. strategies'[j] = strategies[j]
      BY <2>1, <2>4
    <3> QED
      BY <1>2, <1>4, <2>4, <3>1
  <2> QED
    BY <2>2, <2>3, <2>4
<1> HIDE DEF i, kind0
<1>6. None \notin RowSet
  BY DEF StrategiesAssumption
<1>7. strategies' \in [Ids -> RowSet \cup {None}]
  <2>1. \A j \in Ids : strategies'[j] \in RowSet \cup {None}
    BY <1>2, <1>5 DEF Typed
  <2> QED
    BY <1>1, <2>1 DEF Promoted
<1>8. Saved' = Saved
  BY <1>4, <1>5, <1>6 DEF Saved
<1>9. RowsStay
  BY <1>5, <1>6, <1>7, <1>8 DEF RowsStay, Saved
<1>10. /\ DOMAIN requests' = Threads
       /\ \A u \in Threads : requests'[u] \in {requests[u], None}
       /\ \A u \in Threads : requests'[u] # None => requests'[u] \in Request
  BY <1>1, <1>2, RequestsStay
<1>11. Typed'
  BY <1>1, <1>2, <1>7, <1>10 DEF Typed
<1>12. \A u \in Threads : Loaded(u)'
  BY <1>2, <1>9, <1>10, LoadedStays DEF StrategiesInv
<1>13. ASSUME NEW kind \in {"game", "prop"}, One(kind) PROVE One(kind)'
  <2>1. promotable(kind)' = promotable(kind)
    BY DEF promotable
  <2>2. CASE kind = kind0
    <3>1. Active(kind)' = {i}
      BY <1>2, <1>5, <1>8, <2>2 DEF Active, Saved
    <3>2. strategies'[i].name \in promotable(kind)
      BY <1>2, <1>5, <2>2
    <3> QED
      BY <1>2, <2>1, <3>1, <3>2 DEF One
  <2>3. CASE kind # kind0
    <3>1. Active(kind)' = Active(kind)
      <4>1. ASSUME NEW j \in Saved
            PROVE  /\ strategies'[j].strategy_type = strategies[j].strategy_type
                   /\ strategies[j].strategy_type = kind => strategies'[j].active = strategies[j].active
        BY <1>2, <1>5, <2>3 DEF Saved
      <4> QED
        BY <1>8, <4>1 DEF Active
    <3>2. PICK k \in Ids : Active(kind) = {k} /\ strategies[k].name \in promotable(kind)
      BY <1>13 DEF One
    <3>3. strategies'[k].name = strategies[k].name
      BY <1>5, <3>2 DEF Active
    <3> QED
      BY <2>1, <3>1, <3>2, <3>3 DEF One
  <2> QED
    BY <2>2, <2>3
<1> QED
  BY <1>11, <1>12, <1>13 DEF StrategiesInv

\* A config written over a row, or none.
LEMMA ConfigKeeps ==
    ASSUME StrategiesAssumption, StrategiesInv, NEW t \in Threads, requests[t] # None,
           NEW config \in [min_edge : Edges, saved : {0, 1}],
           strategies' \in {strategies, Written(requests[t], config)},
           requests' = [requests EXCEPT ![t] = None], edits' \in 0 .. MaxEdits
    PROVE  StrategiesInv'
<1> DEFINE i == requests[t].id
<1>1. Typed /\ i \in Saved /\ i \in Ids /\ strategies[i] \in RowSet
  BY DEF StrategiesInv, Typed, Loaded, Saved
<1>2. DOMAIN requests' = Threads /\ \A u \in Threads : requests'[u] \in {requests[u], None}
  BY <1>1, RequestsStay
<1> DEFINE new == [strategies[i] EXCEPT !.config = config]
<1>3. /\ new \in RowSet /\ new.active = strategies[i].active /\ new.name = strategies[i].name
      /\ new.strategy_type = strategies[i].strategy_type
  BY <1>1 DEF RowSet
<1>4. strategies' = strategies \/ strategies' = [strategies EXCEPT ![i] = new]
  BY <1>1 DEF Written, Typed
<1> HIDE DEF i, new
<1>5. /\ strategies' \in [Ids -> RowSet \cup {None}]
      /\ \A j \in Ids : strategies'[j] = strategies[j] \/ (j = i /\ strategies'[j] = new)
  BY <1>1, <1>3, <1>4 DEF Typed
<1>6. None \notin RowSet
  BY DEF StrategiesAssumption
<1>7. RowsStay /\ \A j \in Saved : strategies'[j].active = strategies[j].active
  BY <1>1, <1>3, <1>5, <1>6 DEF RowsStay, Saved
<1> QED
  BY <1>2, <1>7, StayKeeps

LEMMA UpdateKeeps ==
    ASSUME StrategiesAssumption, StrategiesInv, NEW t \in Threads, update_strategy(t)
    PROVE  StrategiesInv'
<1>1. PICK e \in Edges, saved \in {0, 1} :
        /\ strategies' = Written(requests[t], [min_edge |-> e, saved |-> saved])
        /\ requests[t] # None /\ requests' = [requests EXCEPT ![t] = None]
        /\ edits < MaxEdits /\ edits' = edits + 1
  BY DEF update_strategy
<1> DEFINE config == [min_edge |-> e, saved |-> saved]
<1>2. config \in [min_edge : Edges, saved : {0, 1}] /\ strategies' = Written(requests[t], config)
  BY <1>1
<1>3. edits' \in 0 .. MaxEdits
  BY <1>1 DEF StrategiesInv, Typed, StrategiesAssumption
<1> HIDE DEF config
<1> QED
  BY <1>1, <1>2, <1>3, ConfigKeeps

LEMMA TuneKeeps ==
    ASSUME StrategiesAssumption, StrategiesInv, NEW t \in Threads, auto_tune(t)
    PROVE  StrategiesInv'
<1>1. PICK played \in Histories, apply_best \in BOOLEAN :
        /\ strategies' = IF apply_best THEN apply_tuned_config(requests[t], tune_game_strategy(played).best)
                         ELSE strategies
        /\ requests[t] # None /\ requests' = [requests EXCEPT ![t] = None]
        /\ edits < MaxEdits /\ edits' = edits + 1
  BY DEF auto_tune
<1> DEFINE best == Best(Train(played))
           config == [requests[t].row.config EXCEPT !.min_edge = best]
<1>2. best \in Edges \cup {None} /\ tune_game_strategy(played).best = best
  BY BestIs DEF tune_game_strategy
<1>3. edits' \in 0 .. MaxEdits
  BY <1>1 DEF StrategiesInv, Typed, StrategiesAssumption
<1>4. requests[t].row.config \in [min_edge : Edges, saved : {0, 1}]
  BY <1>1 DEF StrategiesInv, Typed, Request, RowSet
<1> HIDE DEF best
<1>5. CASE best = None
  <2>1. strategies' = strategies
    BY <1>1, <1>2, <1>5 DEF apply_tuned_config
  <2> QED
    BY <1>1, <1>3, <1>4, <2>1, ConfigKeeps
<1>6. CASE best # None
  <2>1. config \in [min_edge : Edges, saved : {0, 1}]
    BY <1>2, <1>4, <1>6
  <2>2. strategies' \in {strategies, Written(requests[t], config)}
    BY <1>1, <1>2, <1>6 DEF apply_tuned_config
  <2> HIDE DEF config
  <2> QED
    BY <1>1, <1>3, <2>1, <2>2, ConfigKeeps
<1> QED
  BY <1>5, <1>6

LEMMA BacktestKeeps ==
    ASSUME StrategiesAssumption, StrategiesInv, NEW t \in Threads, PropBacktest(t)
    PROVE  StrategiesInv'
<1>1. requests' = [requests EXCEPT ![t] = None] /\ UNCHANGED <<strategies, edits>>
  BY DEF PropBacktest
<1>2. Typed /\ edits \in 0 .. MaxEdits
  BY DEF StrategiesInv, Typed
<1>3. DOMAIN requests' = Threads /\ \A u \in Threads : requests'[u] \in {requests[u], None}
  BY <1>1, <1>2, RequestsStay
<1>4. RowsStay
  BY <1>1, <1>2 DEF RowsStay, Typed, Saved
<1> QED
  BY <1>1, <1>2, <1>3, <1>4, StayKeeps

LEMMA StrategiesStep ==
    ASSUME StrategiesAssumption, StrategiesInv, [Next]_vars
    PROVE  StrategiesInv'
<1>1. CASE migrate_combat_sports_strategy \/ create_strategy
  BY <1>1, CreateKeeps
<1>2. ASSUME NEW t \in Threads,
             Load(t) \/ promote_strategy(t) \/ update_strategy(t) \/ auto_tune(t) \/ PropBacktest(t)
      PROVE  StrategiesInv'
  BY <1>2, LoadKeeps, PromoteKeeps, UpdateKeeps, TuneKeeps, BacktestKeeps
<1>3. CASE UNCHANGED vars
  <2>1. UNCHANGED <<strategies, requests, edits>>
    BY <1>3 DEF vars
  <2>2. RowsStay
    BY <2>1 DEF RowsStay, StrategiesInv, Typed, Saved
  <2> QED
    BY <2>1, <2>2, StayKeeps DEF StrategiesInv, Typed
<1> QED
  BY <1>1, <1>2, <1>3 DEF Next

LEMMA StrategiesHold ==
    ASSUME StrategiesAssumption
    PROVE  Spec => []StrategiesInv
<1>1. Init => StrategiesInv
  BY StrategiesInit
<1>2. StrategiesInv /\ [Next]_vars => StrategiesInv'
  BY StrategiesStep
<1> QED
  BY <1>1, <1>2, PTL DEF Spec

-----------------------------------------------------------------------------
(* Hindsight *)

\* What a prefix is made of does not change with an entry after it.
LEMMA PrefixStays ==
    ASSUME NEW S, NEW s \in Seq(S), NEW n \in Int, NEW j \in 1 .. Len(s), n < j, NEW v \in S
    PROVE  SubSeq([s EXCEPT ![j] = v], 1, n) = SubSeq(s, 1, n)
<1> DEFINE t == [s EXCEPT ![j] = v]
<1>1. t \in Seq(S) /\ Len(t) = Len(s) /\ \A k \in 1 .. Len(s) : t[k] = IF k = j THEN v ELSE s[k]
  BY ExceptSeq
<1>2. \A k \in 1 .. n : k \in 1 .. Len(s) /\ k # j
  <2>1. Len(s) \in Nat /\ j \in Int /\ j <= Len(s)
    OBVIOUS
  <2> QED
    BY <2>1
<1>3. \A k \in 1 .. n : s[k] \in S /\ t[k] = s[k]
  BY <1>1, <1>2, ElementOfSeq
<1> HIDE DEF t
<1>4. \A k \in 1 .. n : t[k] \in S
  BY <1>3
<1> DEFINE a == SubSeq(s, 1, n)
           b == SubSeq(t, 1, n)
<1>5. a \in Seq(S) /\ Len(a) = (IF 1 <= n THEN n - 1 + 1 ELSE 0) /\ \A k \in 1 .. n - 1 + 1 : a[k] = s[1 + k - 1]
  BY <1>3, SubSeqProperties
<1>6. b \in Seq(S) /\ Len(b) = (IF 1 <= n THEN n - 1 + 1 ELSE 0) /\ \A k \in 1 .. n - 1 + 1 : b[k] = t[1 + k - 1]
  BY <1>4, SubSeqProperties
<1> HIDE DEF a, b
<1>7. Len(a) = Len(b) /\ \A k \in 1 .. Len(b) : k \in 1 .. n
  BY <1>5, <1>6
<1>8. \A k \in 1 .. n : k \in 1 .. n - 1 + 1 /\ 1 + k - 1 = k
  OBVIOUS
<1>9. \A k \in 1 .. Len(b) : b[k] = a[k]
  BY <1>3, <1>5, <1>6, <1>7, <1>8
<1>10. b = a
  BY <1>5, <1>6, <1>7, <1>9, SeqEqual
<1> QED
  BY <1>10 DEF a, b, t

\* Two logs give game i the same pick: the same side and line, or none in both.
SamePick(i, s, t) ==
    /\ i \in Tested(s) <=> i \in Tested(t)
    /\ backtest(i, t).predicted = backtest(i, s).predicted
    /\ backtest(i, t).line = backtest(i, s).line

\* A prop backtest's side and line of a game stay when that game or a later one ends otherwise.
LEMMA BacktestForesees ==
    ASSUME NEW S, NEW s \in Seq(S), NEW i \in 1 .. Len(s), NEW j \in i .. Len(s), NEW v \in S
    PROVE  SamePick(i, s, [s EXCEPT ![j] = v])
<1> DEFINE t == [s EXCEPT ![j] = v]
<1>1. j \in 1 .. Len(s) /\ i - 1 \in Int /\ i - 1 < j
  <2>1. Len(s) \in Nat
    OBVIOUS
  <2> QED
    BY <2>1
<1>2. Before(i, t) = Before(i, s)
  BY <1>1, PrefixStays DEF Before
<1>3. DOMAIN t = DOMAIN s
  OBVIOUS
<1> HIDE DEF t
<1>4. Side(i, t) = Side(i, s)
  BY <1>2 DEF Side
<1>5. i \in Tested(s) <=> i \in Tested(t)
  BY <1>3, <1>4 DEF Tested
<1>6. \A x : backtest(i, x).predicted = Side(i, x) /\ backtest(i, x).line = Mean(Before(i, x))
  BY DEF backtest
<1>7. /\ backtest(i, t).predicted = backtest(i, s).predicted
      /\ backtest(i, t).line = backtest(i, s).line
  BY <1>2, <1>4, <1>6
<1> QED
  BY <1>5, <1>7 DEF SamePick, t

\* What the tuner chooses stays when a game it validates on ends otherwise.
LEMMA TunerForesees ==
    ASSUME NEW S, NEW s \in Seq(S), WalkForward(s), NEW i \in Split(s) + 1 .. Len(s), NEW v \in S
    PROVE  tune_game_strategy([s EXCEPT ![i] = v]).best = tune_game_strategy(s).best
<1> DEFINE t == [s EXCEPT ![i] = v]
<1>1. Len(s) \in Nat
  OBVIOUS
<1>2. Split(s) \in Nat
  <2> DEFINE n == Len(s)
  <2> HIDE DEF n
  <2>1. n \in Nat => (7 * n) \div 10 \in Nat
    OBVIOUS
  <2> QED
    BY <1>1, <2>1 DEF Split, n
<1>3. i \in 1 .. Len(s) /\ Split(s) < i
  BY <1>1, <1>2
<1>4. Len(t) = Len(s)
  BY <1>3, ExceptSeq
<1>5. SubSeq(t, 1, Split(s)) = SubSeq(s, 1, Split(s))
  BY <1>2, <1>3, PrefixStays
<1> HIDE DEF t
<1>6. Split(t) = Split(s)
  BY <1>4 DEF Split
<1>7. WalkForward(t)
  BY <1>4, <1>6 DEF WalkForward
<1>8. Train(t) = Train(s)
  BY <1>5, <1>6, <1>7 DEF Train
<1>9. tune_game_strategy(t).best = Best(Train(t)) /\ tune_game_strategy(s).best = Best(Train(s))
  BY DEF tune_game_strategy
<1> QED
  BY <1>8, <1>9 DEF t

LEMMA AnsweredHolds ==
    Spec => []Answered
<1>1. Init => Answered
  BY DEF Init, Answered
<1>2. Answered /\ [Next]_vars => Answered'
  <2> SUFFICES ASSUME Answered, [Next]_vars PROVE Answered'
    OBVIOUS
  <2>1. CASE UNCHANGED vars
    BY <2>1 DEF vars, Answered
  <2>2. CASE answer' = None
    BY <2>2 DEF Answered
  <2>3. ASSUME NEW t \in Threads, auto_tune(t) PROVE Answered'
    BY <2>3 DEF auto_tune, Answered
  <2>4. ASSUME NEW t \in Threads, PropBacktest(t) PROVE Answered'
    BY <2>4 DEF PropBacktest, Answered
  <2> QED
    BY <2>1, <2>2, <2>3, <2>4 DEF Next, migrate_combat_sports_strategy, create_strategy, Load, promote_strategy,
                                  update_strategy
<1> QED
  BY <1>1, <1>2, PTL DEF Spec

-----------------------------------------------------------------------------
(* What is promised *)

\* Whatever requests promote, edit, tune and create at once, each kind the pipelines run has
\* one active strategy, and it has a name they can run (promote_strategy, _promotable).
THEOREM OneActiveOfEachKind ==
    ASSUME StrategiesAssumption
    PROVE  Spec => []OneOfEachKind
<1>1. StrategiesInv => OneOfEachKind
  <2> SUFFICES ASSUME StrategiesInv, NEW kind \in {"game", "prop"}
               PROVE  Cardinality(Active(kind)) = 1 /\ \A i \in Active(kind) : strategies[i].name \in promotable(kind)
    BY DEF OneOfEachKind
  <2>1. PICK i \in Ids : Active(kind) = {i} /\ strategies[i].name \in promotable(kind)
    BY DEF StrategiesInv, One
  <2> QED
    BY <2>1, FS_Singleton
<1> QED
  BY <1>1, StrategiesHold, PTL

\* Nothing is judged with hindsight: the tuner's choice does not depend on the games it is
\* validated on (tune_game_strategy's split), nor a prop backtest's side and line on the game
\* they are for or a later one (prior_logs).
THEOREM NothingForeseen ==
    ASSUME StrategiesAssumption
    PROVE  Spec => []NoHindsight
<1>1. Answered => NoHindsight
  <2> SUFFICES ASSUME Answered, answer # None PROVE NoHindsight
    BY DEF NoHindsight
  <2>1. ASSUME NEW s \in Logs, answer = [logs |-> s, picks |-> [i \in Tested(s) |-> backtest(i, s)]]
        PROVE  NoHindsight
    <3>1. /\ "logs" \in DOMAIN answer /\ answer.logs = s /\ DOMAIN answer.picks = Tested(s)
          /\ \A i \in Tested(s) : answer.picks[i] = backtest(i, s)
      BY <2>1
    <3>2. s \in Seq(Values) /\ DOMAIN s = 1 .. Len(s)
      BY DEF StrategiesAssumption
    <3>3. ASSUME NEW i \in DOMAIN s, NEW j \in i .. Len(s), NEW v \in Values
          PROVE  SamePick(i, s, [s EXCEPT ![j] = v])
      <4>1. i \in 1 .. Len(s)
        BY <3>2
      <4> QED
        BY <3>2, <4>1, BacktestForesees
    <3>4. ASSUME NEW i \in DOMAIN answer.logs, NEW j \in i .. Len(answer.logs), NEW v \in Values
          PROVE  LET t == [answer.logs EXCEPT ![j] = v]
                     other == backtest(i, t)
                 IN  /\ i \in DOMAIN answer.picks <=> i \in Tested(t)
                     /\ i \in DOMAIN answer.picks =>
                            /\ other.predicted = answer.picks[i].predicted
                            /\ other.line = answer.picks[i].line
      <4>1. i \in DOMAIN s /\ j \in i .. Len(s)
        BY <3>1
      <4> DEFINE t == [s EXCEPT ![j] = v]
      <4>2. SamePick(i, s, t)
        BY <3>3, <4>1
      <4>3. t = [answer.logs EXCEPT ![j] = v]
        BY <3>1
      <4> HIDE DEF t
      <4>4. i \in DOMAIN answer.picks => answer.picks[i] = backtest(i, s)
        BY <3>1
      <4> QED
        BY <3>1, <4>2, <4>3, <4>4 DEF SamePick
    <3> QED
      BY <3>1, <3>4 DEF NoHindsight
  <2>2. ASSUME NEW played \in Histories, answer = tune_game_strategy(played)
        PROVE  NoHindsight
    <3>1. /\ "logs" \notin DOMAIN answer /\ answer.games = played /\ answer.walk_forward = WalkForward(played)
          /\ answer.best = tune_game_strategy(played).best
      BY <2>2 DEF tune_game_strategy
    <3>2. played \in Seq(Picked)
      BY DEF StrategiesAssumption
    <3>3. ASSUME WalkForward(played), NEW i \in Split(played) + 1 .. Len(played), NEW g \in Picked
          PROVE  tune_game_strategy([played EXCEPT ![i] = g]).best = tune_game_strategy(played).best
      BY <3>2, <3>3, TunerForesees
    <3> QED
      BY <3>1, <3>3 DEF NoHindsight
  <2> QED
    BY <2>1, <2>2 DEF Answered
<1> QED
  BY <1>1, AnsweredHolds, PTL

\* Every row is of a name, kind and sport it was created with, and a request's row is there.
THEOREM StrategiesTypeCorrect ==
    ASSUME StrategiesAssumption
    PROVE  Spec => []TypeOK
<1>1. StrategiesInv => TypeOK
  BY DEF StrategiesInv, Typed, Loaded, Saved, TypeOK
<1> QED
  BY <1>1, StrategiesHold, PTL
-----------------------------------------------------------------------------
(* The statistics of a team sport know nothing of the day they are for or of *)
(* a later one.                                                              *)
CONSTANTS Teams, Fixture, Scores, DEFAULT_LOOKBACK, MIN_VENUE_GAMES, Seed, HomeEdge,
          MaxResults, Boxable, Absent, Scheduled
VARIABLES game, boxes, stats, elo, rating, entered, replayed
Stats == INSTANCE TeamStats

\* A statistic made of results before a day, and a row of them.
Past(value, day) == value # None => \A line \in value : line.game \in Stats!Fixtures /\ Stats!Day(line.game) < day
Seen(row, day) == \A name \in DOMAIN row : Past(row[name], day)

StatsInv ==
    /\ DOMAIN stats \subseteq Stats!Fixtures
    /\ \A g \in DOMAIN stats, s \in Stats!Sides : Seen(stats[g][s], Stats!Day(g))

\* The lines of some games are of those games.
LEMMA LinesAre ==
    ASSUME NEW S, NEW t, NEW line \in Stats!Lines(S, t)
    PROVE  line.game \in S
  BY DEF Stats!Lines, Stats!_points_for_against

\* A row is computed from the games before its day, whatever pool it was handed.
LEMMA ComputedBefore ==
    ASSUME NEW S \in SUBSET Stats!Fixtures, NEW t, NEW day
    PROVE  Seen(Stats!compute_team_stats(S, t, day), day)
<1> DEFINE prior == Stats!strictly_before(S, day)
           played == Stats!_team_games(prior, t)
           last == Stats!Lines(Stats!LastN(played), t)
           row == Stats!compute_team_stats(S, t, day)
<1>1. \A g \in prior : g \in Stats!Fixtures /\ Stats!Day(g) < day
  BY DEF Stats!strictly_before
<1> HIDE DEF prior
<1>2. ASSUME NEW T \in SUBSET prior, NEW u, NEW lines \in SUBSET Stats!Lines(T, u)
      PROVE  Past(lines, day)
  <2>1. \A line \in lines : line.game \in T
    BY LinesAre
  <2> QED
    BY <1>1, <2>1 DEF Past
<1>3. played \in SUBSET prior
  BY DEF Stats!_team_games
<1> HIDE DEF played
<1>4. Stats!LastN(played) \in SUBSET prior
  BY <1>3 DEF Stats!LastN
<1>5. Past(last, day) /\ Past(Stats!Won(last), day) /\ Past(Stats!Lost(last), day)
  BY <1>2, <1>4 DEF Stats!Won, Stats!Lost
<1>6. Past(Stats!rest_days(played, t), day)
  BY <1>2, <1>3 DEF Stats!rest_days
<1>7. ASSUME NEW venue
      PROVE  LET at == Stats!Lines({g \in played : Stats!Side(g, t) = venue}, t) IN
             Past(Stats!Won(at), day) /\ Past(Stats!Lost(at), day)
  <2>1. {g \in played : Stats!Side(g, t) = venue} \in SUBSET prior
    BY <1>3
  <2> QED
    BY <1>2, <2>1 DEF Stats!Won, Stats!Lost
<1>8. ASSUME NEW T \in SUBSET prior, NEW least PROVE Past(Stats!Rolling(T, t, least), day)
  <2>1. Stats!LastN(T) \in SUBSET prior
    BY DEF Stats!LastN
  <2>2. Past(Stats!Lines(Stats!LastN(T), t), day) /\ Past(None, day)
    BY <1>2, <2>1 DEF Past
  <2> QED
    BY <2>2 DEF Stats!Rolling
<1>9. \A venue : Stats!_at_venue(played, t, venue) \in SUBSET prior
  BY <1>3 DEF Stats!_at_venue
<1>10. Past(Stats!adjusted_points(prior, t), day)
  <2>1. ASSUME NEW line \in Stats!opponent_rates(prior)
        PROVE  line.game \in Stats!Fixtures /\ Stats!Day(line.game) < day
    <3>1. PICK u \in Teams : line \in Stats!Lines(Stats!_team_games(prior, u), u)
      BY DEF Stats!opponent_rates
    <3>2. line.game \in prior
      BY <3>1, LinesAre DEF Stats!_team_games
    <3> QED
      BY <1>1, <3>2
  <2>2. ASSUME NEW line \in last PROVE line.game \in Stats!Fixtures /\ Stats!Day(line.game) < day
    BY <1>1, <1>4, LinesAre
  <2> QED
    BY <2>1, <2>2 DEF Past, Stats!adjusted_points, played
<1>11. Past(Stats!rolling_ratings(played, t, boxes \cap S), day)
  <2>1. Stats!_box_pairs(played, boxes \cap S) \in SUBSET prior
    BY <1>4 DEF Stats!_box_pairs
  <2>2. Past(Stats!Lines(Stats!_box_pairs(played, boxes \cap S), t), day) /\ Past(None, day)
    BY <1>2, <2>1 DEF Past
  <2> QED
    BY <2>2 DEF Stats!rolling_ratings
<1>12. row =
       [rest_days |-> Stats!rest_days(played, t), point_diff |-> last,
        home_wins |-> Stats!Won(Stats!Lines({g \in played : Stats!Side(g, t) = "home"}, t)),
        home_losses |-> Stats!Lost(Stats!Lines({g \in played : Stats!Side(g, t) = "home"}, t)),
        away_wins |-> Stats!Won(Stats!Lines({g \in played : Stats!Side(g, t) = "away"}, t)),
        away_losses |-> Stats!Lost(Stats!Lines({g \in played : Stats!Side(g, t) = "away"}, t)),
        last_n_wins |-> Stats!Won(last), last_n_losses |-> Stats!Lost(last),
        points |-> Stats!Rolling(played, t, Stats!rolling_points.games),
        points_home |-> Stats!Rolling(Stats!_at_venue(played, t, "home"), t, Stats!rolling_points.venue),
        points_away |-> Stats!Rolling(Stats!_at_venue(played, t, "away"), t, Stats!rolling_points.venue),
        adjusted |-> Stats!adjusted_points(prior, t),
        possessions |-> Stats!rolling_ratings(played, t, boxes \cap S)]
  BY DEF Stats!compute_team_stats, played, prior
<1> HIDE DEF last, row
<1>13. /\ Past(row.rest_days, day) /\ Past(row.point_diff, day)
       /\ Past(row.home_wins, day) /\ Past(row.home_losses, day)
       /\ Past(row.away_wins, day) /\ Past(row.away_losses, day)
       /\ Past(row.last_n_wins, day) /\ Past(row.last_n_losses, day)
  BY <1>5, <1>6, <1>7, <1>12
<1>14. /\ Past(row.points, day) /\ Past(row.points_home, day) /\ Past(row.points_away, day)
       /\ Past(row.adjusted, day) /\ Past(row.possessions, day)
  BY <1>3, <1>8, <1>9, <1>10, <1>11, <1>12
<1>15. DOMAIN row = {"rest_days", "point_diff", "home_wins", "home_losses", "away_wins", "away_losses",
                     "last_n_wins", "last_n_losses", "points", "points_home", "points_away", "adjusted",
                     "possessions"}
  BY <1>12
<1> QED
  BY <1>13, <1>14, <1>15 DEF Seen, row

\* A stored row that keeps what the new one lacks stays of its own past.
LEMMA WithStatsKeeps ==
    ASSUME StatsInv, NEW S \in SUBSET Stats!Fixtures, NEW pool, \A g \in S : pool[g] \in SUBSET Stats!Fixtures,
           stats' = Stats!WithStats(S, pool)
    PROVE  StatsInv'
<1>1. DOMAIN stats' = S \cup DOMAIN stats
  BY DEF Stats!WithStats
<1>2. \A g \in S : stats'[g] = Stats!store_team_stats_for_game(g, pool[g])
  BY DEF Stats!WithStats
<1>3. \A g \in DOMAIN stats \ S : stats'[g] = stats[g]
  BY DEF Stats!WithStats
<1>4. ASSUME NEW old, NEW new, NEW day, Seen(old, day), Seen(new, day)
      PROVE  Seen(Stats!_upsert_stats(old, new), day)
  BY <1>4 DEF Seen, Stats!_upsert_stats
<1>5. ASSUME NEW g \in S, NEW s \in Stats!Sides PROVE Seen(stats'[g][s], Stats!Day(g))
  <2> DEFINE old == IF Stats!_game_has_stats(g) THEN stats[g][s] ELSE <<>>
             new == Stats!compute_team_stats(pool[g], Stats!Team(g, s), Stats!Day(g))
  <2>1. Seen(old, Stats!Day(g))
    BY DEF StatsInv, Seen, Stats!_game_has_stats
  <2>2. Seen(new, Stats!Day(g))
    BY ComputedBefore
  <2>3. stats'[g][s] = Stats!_upsert_stats(old, new)
    BY <1>2 DEF Stats!store_team_stats_for_game
  <2> HIDE DEF old, new
  <2> QED
    BY <1>4, <2>1, <2>2, <2>3
<1>6. ASSUME NEW g \in DOMAIN stats \ S, NEW s \in Stats!Sides PROVE Seen(stats'[g][s], Stats!Day(g))
  BY <1>3 DEF StatsInv
<1> QED
  BY <1>1, <1>5, <1>6 DEF StatsInv, Stats!Fixtures, Stats!Day

LEMMA StatsStep ==
    ASSUME StatsInv, [Stats!Next]_Stats!vars
    PROVE  StatsInv'
<1>1. ASSUME NEW day, Stats!_refresh_team_stats(day) PROVE StatsInv'
  <2>1. stats' = Stats!WithStats(Stats!Touched(day), [g \in Stats!Fixtures |-> Stats!_final_games])
    BY <1>1 DEF Stats!_refresh_team_stats
  <2>2. Stats!Touched(day) \in SUBSET Stats!Fixtures /\ Stats!_final_games \in SUBSET Stats!Fixtures
    BY DEF Stats!Touched, Stats!_final_games
  <2> QED
    BY <2>1, <2>2, WithStatsKeeps
<1>2. ASSUME NEW force, Stats!backfill_team_stats(force) PROVE StatsInv'
  <2> DEFINE S == {g \in Stats!_final_games : force \/ ~Stats!_game_has_stats(g)}
             pool == [g \in Stats!Fixtures |-> {h \in Stats!_final_games : Stats!Earlier(h, g)}]
  <2>1. stats' = Stats!WithStats(S, pool)
    BY <1>2 DEF Stats!backfill_team_stats
  <2>2. S \in SUBSET Stats!Fixtures /\ \A g \in S : pool[g] \in SUBSET Stats!Fixtures
    BY DEF Stats!_final_games
  <2> QED
    BY <2>1, <2>2, WithStatsKeeps
<1>3. CASE UNCHANGED stats
  BY <1>3 DEF StatsInv, Seen, Past, Stats!Fixtures, Stats!Day, Stats!Sides
<1> QED
  BY <1>1, <1>2, <1>3 DEF Stats!Next, Stats!vars, Stats!Store, Stats!Finish, Stats!store_team_box,
     Stats!compute_historical_elo

\* The latest of some games is one of them, and the others come before it.
LEMMA LatestIs ==
    ASSUME Stats!StatsAssumption, NEW S \in SUBSET Stats!Fixtures, S # {}
    PROVE  Stats!Latest(S) \in S /\ \A h \in S \ {Stats!Latest(S)} : Stats!Earlier(h, Stats!Latest(S))
<1> DEFINE After(g) == {h \in S : Stats!Earlier(g, h)}
           sizes == {Cardinality(After(g)) : g \in S}
<1>1. \A g \in S : IsFiniteSet(After(g)) /\ Cardinality(After(g)) \in Nat
  <2>1. IsFiniteSet(S)
    <3>1. IsFiniteSet(Stats!Fixtures)
      BY DEF Stats!StatsAssumption, Stats!IsFiniteSet, IsFiniteSet
    <3> QED
      BY <3>1, FS_Subset
  <2>2. \A g \in S : IsFiniteSet(After(g))
    BY <2>1, FS_Subset
  <2> QED
    BY <2>2, FS_CardinalityType
<1>2. sizes \in SUBSET Nat /\ sizes # {}
  BY <1>1
<1>3. \A g, h \in S : /\ g \in Nat /\ Stats!Day(g) \in Nat
                      /\ h \in After(g) <=> (Stats!Day(g) < Stats!Day(h) \/ (Stats!Day(g) = Stats!Day(h) /\ g < h))
  BY DEF Stats!StatsAssumption, Stats!Earlier, Stats!Day
<1> HIDE DEF sizes
<1>4. Min(sizes) \in sizes /\ \A n \in sizes : Min(sizes) <= n
  BY <1>2, LeastNumber, Zenon
<1>5. PICK g \in S : Min(sizes) = Cardinality(After(g))
  BY <1>4 DEF sizes
<1>6. \A h \in S : Cardinality(After(g)) <= Cardinality(After(h))
  BY <1>4, <1>5 DEF sizes
<1> HIDE DEF After
<1>7. ASSUME NEW h \in S \ {g} PROVE Stats!Earlier(h, g)
  <2>1. SUFFICES ASSUME ~Stats!Earlier(h, g) PROVE FALSE
    OBVIOUS
  <2>2. h \in After(g)
    BY <1>3, <2>1 DEF Stats!Earlier
  <2>3. After(h) \subseteq After(g)
    <3>1. \A k \in S : k \in After(h) => k \in After(g)
      BY <1>3, <2>2
    <3>2. After(h) \subseteq S
      BY DEF After
    <3> QED
      BY <3>1, <3>2
  <2>4. h \notin After(h)
    BY <1>3
  <2>5. IsFiniteSet(After(g)) /\ Cardinality(After(h)) \in Nat /\ Cardinality(After(g)) \in Nat
    BY <1>1
  <2>6. Cardinality(After(h)) <= Cardinality(After(g)) /\ Cardinality(After(h)) # Cardinality(After(g))
    BY <2>2, <2>3, <2>4, <2>5, FS_Subset
  <2> QED
    BY <1>6, <2>5, <2>6
<1> QED
  BY <1>7 DEF Stats!Latest

\* Games arrive late, out of order and corrected, a day's statistics are recomputed by the
\* passes of three days and by the backfill, and an upcoming game borrows an earlier row: none
\* was computed from a result of its own day or of a later one (strictly_before of team_stats.py,
\* _team_stat_rows of pick_generator.py).
THEOREM NothingSeenAhead ==
    ASSUME Stats!StatsAssumption
    PROVE  Stats!Spec => []Stats!NoLookahead
<1>1. Stats!Init => StatsInv
  BY DEF Stats!Init, StatsInv
<1>2. StatsInv /\ [Stats!Next]_Stats!vars => StatsInv'
  BY StatsStep
<1>3. StatsInv => Stats!NoLookahead
  <2> SUFFICES ASSUME StatsInv PROVE Stats!NoLookahead
    OBVIOUS
  <2>1. ASSUME NEW row, NEW day, Seen(row, day), NEW h \in Stats!Cited(row)
        PROVE  h \in Stats!Fixtures /\ Stats!Day(h) < day
    BY <2>1 DEF Seen, Past, Stats!Cited
  <2>2. ASSUME NEW g \in DOMAIN stats, NEW s \in Stats!Sides, NEW h \in Stats!Cited(stats[g][s])
        PROVE  h \in Stats!Fixtures /\ Stats!Day(h) < Stats!Day(g)
    BY <2>1 DEF StatsInv
  <2>3. ASSUME NEW g \in Stats!Fixtures, NEW s \in Stats!Sides,
               NEW h \in Stats!Cited(Stats!_team_stat_rows(Stats!Team(g, s), g))
        PROVE  Stats!Day(h) < Stats!Day(g)
    <3> DEFINE t == Stats!Team(g, s)
               S == {k \in DOMAIN stats : Stats!Plays(k, t) /\ Stats!Day(k) < Stats!Day(g)}
               row == Stats!_team_stat_rows(t, g)
    <3>1. \A k : Stats!Side(k, t) \in Stats!Sides
      BY DEF Stats!Side, Stats!Sides
    <3>2. CASE g \in DOMAIN stats
      <4>1. row = stats[g][Stats!Side(g, t)]
        BY <3>2 DEF Stats!_team_stat_rows, Stats!_game_has_stats
      <4> QED
        BY <2>2, <3>1, <3>2, <4>1
    <3>3. CASE g \notin DOMAIN stats /\ S # {} /\ Stats!Latest(S) # None
      <4>1. row = stats[Stats!Latest(S)][Stats!Side(Stats!Latest(S), t)]
        BY <3>3 DEF Stats!_team_stat_rows, Stats!_game_has_stats
      <4>2. Stats!Latest(S) \in S
        <5>1. S \in SUBSET Stats!Fixtures
          BY DEF StatsInv
        <5> QED
          BY <3>3, <5>1, LatestIs
      <4>3. /\ Stats!Latest(S) \in DOMAIN stats
            /\ Stats!Day(Stats!Latest(S)) < Stats!Day(g)
        BY <4>2
      <4>4. h \in Stats!Fixtures /\ Stats!Day(h) < Stats!Day(Stats!Latest(S))
        BY <2>2, <3>1, <4>1, <4>3
      <4>5. Stats!Day(h) \in Nat /\ Stats!Day(Stats!Latest(S)) \in Nat /\ Stats!Day(g) \in Nat
        BY <4>3, <4>4 DEF StatsInv, Stats!StatsAssumption, Stats!Day
      <4> QED
        BY <4>3, <4>4, <4>5
    <3>4. CASE g \notin DOMAIN stats /\ (S = {} \/ Stats!Latest(S) = None)
      <4>1. row = <<>>
        BY <3>4 DEF Stats!_team_stat_rows, Stats!_game_has_stats, Stats!Latest
      <4> QED
        BY <4>1 DEF Stats!Cited
    <3> QED
      BY <3>2, <3>3, <3>4
  <2> QED
    BY <2>2, <2>3 DEF Stats!NoLookahead
<1> QED
  BY <1>1, <1>2, <1>3, PTL DEF Stats!Spec

-----------------------------------------------------------------------------
(* The ratings of a team sport: what the replay makes of any results m.      *)

Ended(m, g, into) == IF m[g] \in Scores THEN Stats!apply_result(into, m[g]) ELSE into
After(m, state, g) ==
    LET into == Stats!Entering(state, g)
    IN  [ratings |-> [t \in Teams |-> IF Stats!Plays(g, t) THEN Ended(m, g, into)[Stats!Side(g, t)]
                                      ELSE state.ratings[t]],
         season |-> [t \in Teams |-> IF Stats!Plays(g, t) THEN Fixture[g].season ELSE state.season[t]],
         rows |-> [h \in DOMAIN state.rows \cup {g} |-> IF h = g THEN into ELSE state.rows[h]]]
Following(m, f, S) ==
    IF S = {} THEN Stats!Unrated ELSE After(m, f[S \ {Stats!Latest(S)}], Stats!Latest(S))
Replaying(m) == CHOOSE f : f = [S \in SUBSET Stats!Fixtures |-> Following(m, f, S)]

LEMMA ReplayIs == Stats!Replay = Replaying(game) /\ Stats!Replay' = Replaying(game')
  BY DEF Stats!Replay, Stats!Replayed, Replaying, Following, After, Ended

LEMMA FixturesFinite ==
    ASSUME Stats!StatsAssumption
    PROVE  IsFiniteSet(Stats!Fixtures)
           /\ \A S \in SUBSET Stats!Fixtures : IsFiniteSet(S) /\ Cardinality(S) \in Nat
<1>1. IsFiniteSet(Stats!Fixtures)
  BY DEF Stats!StatsAssumption, Stats!IsFiniteSet, IsFiniteSet
<1> QED
  BY <1>1, FS_Subset, FS_CardinalityType

\* Without its latest game a set of games is a smaller one.
LEMMA LatestTakes ==
    ASSUME Stats!StatsAssumption, NEW S \in SUBSET Stats!Fixtures, S # {}
    PROVE  /\ S \ {Stats!Latest(S)} \in SUBSET Stats!Fixtures
           /\ Cardinality(S) # 0 /\ Cardinality(S \ {Stats!Latest(S)}) = Cardinality(S) - 1
<1>1. Stats!Latest(S) \in S
  BY LatestIs
<1>2. IsFiniteSet(S)
  BY FixturesFinite
<1> QED
  BY <1>1, <1>2, FS_RemoveElement, FS_EmptySet

\* There is a replay of every set of at most n games: from one for n games
\* the next game's is made.
LEMMA ReplayExists ==
    ASSUME Stats!StatsAssumption, NEW m
    PROVE  \E f : f = [S \in SUBSET Stats!Fixtures |-> Following(m, f, S)]
<1> DEFINE Small(n) == {S \in SUBSET Stats!Fixtures : Cardinality(S) <= n}
           Replays(n) == \E f : f = [S \in Small(n) |-> Following(m, f, S)]
           Bad == {n \in Nat : ~ Replays(n)}
<1>0. \A S \in SUBSET Stats!Fixtures : IsFiniteSet(S) /\ Cardinality(S) \in Nat
  BY FixturesFinite
<1>1. Replays(0)
  <2>1. Small(0) = {{}}
    BY <1>0, FS_EmptySet
  <2> DEFINE f == [S \in Small(0) |-> Stats!Unrated]
  <2>2. [S \in Small(0) |-> Following(m, f, S)] = f
    BY <2>1 DEF Following
  <2> QED
    BY <2>2
<1>2. ASSUME NEW n \in Nat, Replays(n) PROVE Replays(n + 1)
  <2>1. PICK f : f = [S \in Small(n) |-> Following(m, f, S)]
    BY <1>2
  <2> DEFINE F == [S \in Small(n + 1) |-> Following(m, f, S)]
  <2>2. ASSUME NEW S \in Small(n + 1) PROVE Following(m, f, S) = Following(m, F, S)
    <3>1. CASE S = {}
      BY <3>1 DEF Following
    <3>2. CASE S # {}
      <4> DEFINE R == S \ {Stats!Latest(S)}
      <4>1. R \in SUBSET Stats!Fixtures /\ Cardinality(R) = Cardinality(S) - 1 /\ Cardinality(S) \in Nat
        BY <3>2, LatestTakes, <1>0
      <4>2. R \in Small(n) /\ R \in Small(n + 1)
        BY <4>1
      <4>3. f[R] = Following(m, f, R)
        BY <2>1, <4>2
      <4>4. F[R] = Following(m, f, R)
        BY <4>2
      <4>5. f[R] = F[R]
        BY <4>3, <4>4
      <4> HIDE DEF F, R
      <4>6. Following(m, f, S) = After(m, f[R], Stats!Latest(S)) /\ Following(m, F, S) = After(m, F[R], Stats!Latest(S))
        BY <3>2 DEF Following, R
      <4> QED
        BY <4>5, <4>6
    <3> QED
      BY <3>1, <3>2
  <2>3. F = [S \in Small(n + 1) |-> Following(m, F, S)]
    <3> HIDE DEF Small
    <3> QED
      BY <2>2
  <2> QED
    BY <2>3
<1>3. Bad = {}
  <2> SUFFICES ASSUME Bad # {} PROVE FALSE
    OBVIOUS
  <2> HIDE DEF Replays
  <2>1. Min(Bad) \in Bad /\ \A k \in Bad : Min(Bad) <= k
    BY LeastNumber, Bad \subseteq Nat
  <2> DEFINE n == Min(Bad)
  <2>2. n # 0 /\ n - 1 \in Nat
    BY <1>1, <2>1
  <2>3. Replays(n - 1)
    BY <2>1, <2>2
  <2>4. Replays((n - 1) + 1)
    BY <2>2, <2>3, <1>2
  <2> QED
    BY <2>1, <2>2, <2>4
<1>4. Replays(Cardinality(Stats!Fixtures))
  <2> HIDE DEF Replays
  <2> QED
    BY <1>0, <1>3
<1>5. Small(Cardinality(Stats!Fixtures)) = SUBSET Stats!Fixtures
  BY <1>0, FixturesFinite, FS_Subset
<1> QED
  BY <1>4, <1>5

LEMMA ReplayTakes ==
    ASSUME Stats!StatsAssumption, NEW m, NEW S \in SUBSET Stats!Fixtures
    PROVE  Replaying(m)[S] =
             IF S = {} THEN Stats!Unrated
             ELSE After(m, Replaying(m)[S \ {Stats!Latest(S)}], Stats!Latest(S))
<1>1. Replaying(m) = [T \in SUBSET Stats!Fixtures |-> Following(m, Replaying(m), T)]
  BY ReplayExists DEF Replaying
<1>2. Replaying(m)[S] = Following(m, Replaying(m), S)
  BY <1>1
<1> QED
  BY <1>2 DEF Following

\* What holds of the replay of no game, and of a set when of the set without its latest, holds of all.
LEMMA OneByOne ==
    ASSUME Stats!StatsAssumption, NEW B \in SUBSET SUBSET Stats!Fixtures,
           \A S \in B : S # {} /\ S \ {Stats!Latest(S)} \in B
    PROVE  B = {}
<1> SUFFICES ASSUME B # {} PROVE FALSE
  OBVIOUS
<1> DEFINE sizes == {Cardinality(S) : S \in B}
<1>1. sizes \in SUBSET Nat /\ sizes # {}
  BY FixturesFinite
<1>2. \A S \in B : Cardinality(S) \in sizes
  OBVIOUS
<1>3. \A n \in sizes : \E S \in B : n = Cardinality(S)
  OBVIOUS
<1> HIDE DEF sizes
<1>4. Min(sizes) \in sizes /\ \A n \in sizes : Min(sizes) <= n
  BY <1>1, LeastNumber, Zenon
<1>5. PICK S \in B : Min(sizes) = Cardinality(S)
  BY <1>3, <1>4
<1>6. Cardinality(S \ {Stats!Latest(S)}) = Cardinality(S) - 1 /\ Cardinality(S) \in Nat
  BY LatestTakes, FixturesFinite
<1> QED
  BY <1>2, <1>4, <1>5, <1>6

\* Games are ordered, by their days and then their ids.
LEMMA GamesOrdered ==
    ASSUME Stats!StatsAssumption, NEW g \in Stats!Fixtures, NEW h \in Stats!Fixtures, NEW k \in Stats!Fixtures
    PROVE  /\ ~Stats!Earlier(g, g)
           /\ Stats!Earlier(g, h) => ~Stats!Earlier(h, g)
           /\ Stats!Earlier(g, h) /\ Stats!Earlier(h, k) => Stats!Earlier(g, k)
<1>1. \A x \in {g, h, k} : x \in Nat /\ Stats!Day(x) \in Nat
  BY DEF Stats!StatsAssumption, Stats!Day
<1> QED
  BY <1>1 DEF Stats!Earlier

LEMMA LatestUnique ==
    ASSUME Stats!StatsAssumption, NEW S \in SUBSET Stats!Fixtures, NEW l \in S,
           \A h \in S \ {l} : Stats!Earlier(h, l)
    PROVE  Stats!Latest(S) = l
<1>1. Stats!Latest(S) \in S /\ \A h \in S \ {Stats!Latest(S)} : Stats!Earlier(h, Stats!Latest(S))
  BY LatestIs
<1> QED
  BY <1>1, GamesOrdered

\* A game's row is what its teams bring from the games before it.
Preceding(S, g) == {h \in S : Stats!Earlier(h, g)}

LEMMA ReplayRows ==
    ASSUME Stats!StatsAssumption, NEW m, NEW S \in SUBSET Stats!Fixtures
    PROVE  /\ DOMAIN Replaying(m)[S].rows = S
           /\ \A g \in S : Replaying(m)[S].rows[g] = Stats!Entering(Replaying(m)[Preceding(S, g)], g)
<1> DEFINE Right(T) == /\ DOMAIN Replaying(m)[T].rows = T
                       /\ \A g \in T : Replaying(m)[T].rows[g] = Stats!Entering(Replaying(m)[Preceding(T, g)], g)
           B == {T \in SUBSET Stats!Fixtures : ~Right(T)}
<1>1. ASSUME NEW T \in B PROVE T # {} /\ T \ {Stats!Latest(T)} \in B
  <2>1. T # {}
    <3> SUFFICES ASSUME T = {} PROVE FALSE
      OBVIOUS
    <3>1. Replaying(m)[T] = Stats!Unrated
      BY ReplayTakes
    <3> QED
      BY <3>1 DEF Stats!Unrated
  <2> DEFINE l == Stats!Latest(T)
             R == T \ {l}
             old == Replaying(m)[R]
  <2>2. l \in T /\ R \in SUBSET Stats!Fixtures /\ \A h \in R : Stats!Earlier(h, l)
    BY <2>1, LatestIs
  <2>3. Replaying(m)[T] = After(m, old, l)
    BY <2>1, ReplayTakes
  <2>4. /\ Preceding(T, l) = R
        /\ \A g \in R : Preceding(T, g) = Preceding(R, g)
    BY <2>2, GamesOrdered DEF Preceding
  <2> HIDE DEF l, R, old
  <2>5. /\ DOMAIN Replaying(m)[T].rows = DOMAIN old.rows \cup {l}
        /\ Replaying(m)[T].rows[l] = Stats!Entering(old, l)
        /\ \A g \in DOMAIN old.rows \ {l} : Replaying(m)[T].rows[g] = old.rows[g]
    BY <2>3 DEF After
  <2>6. ASSUME Right(R) PROVE Right(T)
    <3>1. DOMAIN Replaying(m)[T].rows = T
      BY <2>2, <2>5, <2>6 DEF R, old
    <3>2. Replaying(m)[T].rows[l] = Stats!Entering(Replaying(m)[Preceding(T, l)], l)
      BY <2>4, <2>5 DEF old
    <3>3. ASSUME NEW g \in R PROVE Replaying(m)[T].rows[g] = Stats!Entering(Replaying(m)[Preceding(T, g)], g)
      <4>1. g \in DOMAIN old.rows \ {l} /\ old.rows[g] = Stats!Entering(Replaying(m)[Preceding(R, g)], g)
        BY <2>6 DEF old, R
      <4> QED
        BY <2>4, <2>5, <4>1
    <3> QED
      BY <3>1, <3>2, <3>3 DEF R
  <2> QED
    BY <2>1, <2>2, <2>6 DEF R, l
<1> HIDE DEF Right
<1>2. B = {}
  <2> HIDE DEF B
  <2>1. B \in SUBSET SUBSET Stats!Fixtures
    BY DEF B
  <2> QED
    BY <1>1, <2>1, OneByOne
<1>3. Right(S)
  BY <1>2
<1> QED
  BY <1>3 DEF Right

\* A team's rating is what its last game of the set left it with, and the seed without one.
LEMMA ReplayTeam ==
    ASSUME Stats!StatsAssumption, NEW m, NEW S \in SUBSET Stats!Fixtures, NEW t \in Teams
    PROVE  LET played == Stats!_team_games(S, t)
               last == Stats!Latest(played)
               end == Replaying(m)[S]
           IN  /\ played = {} => end.ratings[t] = Seed /\ end.season[t] = None
               /\ played # {} => /\ end.ratings[t] = Ended(m, last, end.rows[last])[Stats!Side(last, t)]
                                 /\ end.season[t] = Fixture[last].season
<1> DEFINE Of(T) == Stats!_team_games(T, t)
           Newest(T) == Stats!Latest(Of(T))
           End(T) == Replaying(m)[T]
           Right(T) ==
             /\ Of(T) = {} => End(T).ratings[t] = Seed /\ End(T).season[t] = None
             /\ Of(T) # {} =>
                  /\ End(T).ratings[t] = Ended(m, Newest(T), End(T).rows[Newest(T)])[Stats!Side(Newest(T), t)]
                  /\ End(T).season[t] = Fixture[Newest(T)].season
           B == {T \in SUBSET Stats!Fixtures : ~Right(T)}
<1>1. ASSUME NEW T \in B PROVE T # {} /\ T \ {Stats!Latest(T)} \in B
  <2>1. T # {}
    <3> SUFFICES ASSUME T = {} PROVE FALSE
      OBVIOUS
    <3>1. End(T) = Stats!Unrated /\ Of(T) = {}
      BY ReplayTakes DEF Stats!_team_games
    <3> QED
      BY <3>1 DEF Stats!Unrated
  <2> DEFINE l == Stats!Latest(T)
             R == T \ {l}
             into == Stats!Entering(End(R), l)
  <2>2. l \in T /\ R \in SUBSET Stats!Fixtures /\ \A h \in R : Stats!Earlier(h, l)
    BY <2>1, LatestIs
  <2>3. End(T) = After(m, End(R), l)
    BY <2>1, ReplayTakes
  <2>4. DOMAIN End(R).rows = R
    BY <2>2, ReplayRows
  <2> HIDE DEF l, R, End
  <2>5. /\ Stats!Plays(l, t) => /\ End(T).ratings[t] = Ended(m, l, into)[Stats!Side(l, t)]
                                /\ End(T).season[t] = Fixture[l].season
        /\ ~Stats!Plays(l, t) => /\ End(T).ratings[t] = End(R).ratings[t]
                                 /\ End(T).season[t] = End(R).season[t]
        /\ End(T).rows[l] = into
        /\ \A g \in R \ {l} : End(T).rows[g] = End(R).rows[g]
    BY <2>3, <2>4 DEF After
  <2>6. CASE Stats!Plays(l, t)
    <3>1. l \in Of(T) /\ Of(T) \in SUBSET Stats!Fixtures /\ \A h \in Of(T) \ {l} : Stats!Earlier(h, l)
      BY <2>2, <2>6 DEF Stats!_team_games, R
    <3>2. Newest(T) = l
      BY <3>1, LatestUnique
    <3> QED
      BY <2>5, <2>6, <3>1, <3>2
  <2>7. CASE ~Stats!Plays(l, t)
    <3>1. Of(T) = Of(R)
      BY <2>7 DEF Stats!_team_games, R
    <3>2. ASSUME Of(R) # {} PROVE Newest(R) \in R \ {l}
      <4>1. Newest(R) \in Of(R)
        BY <2>2, <3>2, LatestIs DEF Stats!_team_games
      <4> QED
        BY <4>1 DEF Stats!_team_games, R
    <3>3. Right(R) => Right(T)
      BY <2>5, <2>7, <3>1, <3>2
    <3> QED
      BY <2>1, <2>2, <3>3 DEF R, l
  <2> QED
    BY <2>6, <2>7
<1> HIDE DEF Right
<1>2. B = {}
  <2> HIDE DEF B
  <2>1. B \in SUBSET SUBSET Stats!Fixtures
    BY DEF B
  <2> QED
    BY <1>1, <2>1, OneByOne
<1>3. Right(S)
  BY <1>2
<1> QED
  BY <1>3 DEF Right

\* A replay depends on the results of its games only.
LEMMA ReplaySame ==
    ASSUME Stats!StatsAssumption, NEW m, NEW n, NEW S \in SUBSET Stats!Fixtures, \A g \in S : m[g] = n[g]
    PROVE  Replaying(m)[S] = Replaying(n)[S]
<1> DEFINE Agree(T) == \A g \in T : m[g] = n[g]
           B == {T \in SUBSET Stats!Fixtures : Agree(T) /\ Replaying(m)[T] # Replaying(n)[T]}
<1>1. ASSUME NEW T \in B PROVE T # {} /\ T \ {Stats!Latest(T)} \in B
  <2> DEFINE l == Stats!Latest(T)
             R == T \ {l}
  <2>1. T # {}
    BY ReplayTakes
  <2>2. l \in T /\ R \in SUBSET Stats!Fixtures
    BY <2>1, LatestIs
  <2>3. Replaying(m)[T] = After(m, Replaying(m)[R], l) /\ Replaying(n)[T] = After(n, Replaying(n)[R], l)
    BY <2>1, ReplayTakes
  <2>4. \A into : Ended(m, l, into) = Ended(n, l, into)
    BY <2>2 DEF Ended
  <2>5. \A state : After(m, state, l) = After(n, state, l)
    BY <2>4 DEF After
  <2>6. Replaying(m)[R] # Replaying(n)[R]
    BY <2>3, <2>5
  <2> QED
    BY <2>1, <2>2, <2>6
<1>2. B = {}
  <2> HIDE DEF B
  <2>1. B \in SUBSET SUBSET Stats!Fixtures
    BY DEF B
  <2> QED
    BY <1>1, <2>1, OneByOne
<1> QED
  BY <1>2

\* A row the replay wrote is that of the finals before its game, and a team with no final is unrated.
RatingsInv ==
    /\ game \in [Stats!Fixtures -> {Absent, Scheduled} \cup Scores]
    /\ DOMAIN elo \subseteq Stats!_final_games
    /\ replayed =>
          /\ DOMAIN elo = Stats!_final_games
          /\ \A g \in Stats!_final_games : elo[g] = Stats!Replay[Stats!_final_games].rows[g]
    /\ \A t \in Teams : Stats!_team_games(Stats!_final_games, t) = {} => rating[t] = Seed

LEMMA RatingsStart == ASSUME Stats!StatsAssumption, Stats!Init PROVE RatingsInv
<1>1. Stats!_final_games = {}
  BY DEF Stats!Init, Stats!_final_games, Stats!StatsAssumption
<1>2. game \in [Stats!Fixtures -> {Absent, Scheduled} \cup Scores] /\ DOMAIN elo = {}
  BY DEF Stats!Init
<1>3. \A t \in Teams : rating[t] = Seed
  BY DEF Stats!Init
<1> QED
  BY <1>1, <1>2, <1>3 DEF RatingsInv

\* A replay writes the row of every final; the table keeps the seed of a team without a final.
LEMMA RatingsReplayed ==
    ASSUME Stats!StatsAssumption, RatingsInv, game' = game, elo' = Stats!backfill_elo_history,
           \A t \in Teams : Stats!_team_games(Stats!_final_games, t) = {} => rating'[t] = rating[t]
    PROVE  RatingsInv'
<1>1. Stats!_final_games' = Stats!_final_games
  BY DEF Stats!_final_games
<1>2. Stats!Replay' = Stats!Replay
  BY ReplayIs
<1>3. DOMAIN elo' = Stats!_final_games
      /\ \A g \in Stats!_final_games : elo'[g] = Stats!Replay[Stats!_final_games].rows[g]
  BY DEF RatingsInv, Stats!backfill_elo_history
<1>4. \A t \in Teams : Stats!_team_games(Stats!_final_games, t)' = Stats!_team_games(Stats!_final_games, t)
  BY <1>1 DEF Stats!_team_games, Stats!Plays
<1> QED
  BY <1>1, <1>2, <1>3, <1>4 DEF RatingsInv, Stats!Fixtures

\* A result that is entered or corrected stays until a replay has seen it.
LEMMA RatingsFinish ==
    ASSUME Stats!StatsAssumption, RatingsInv, NEW g \in Stats!Fixtures, Stats!Finish(g)
    PROVE  RatingsInv'
<1>1. PICK score \in Scores : game' = [game EXCEPT ![g] = score]
  BY DEF Stats!Finish
<1>2. game' \in [Stats!Fixtures -> {Absent, Scheduled} \cup Scores]
  BY <1>1 DEF RatingsInv
<1>3. Stats!_final_games' = Stats!_final_games \cup {g}
  BY <1>1 DEF RatingsInv, Stats!_final_games, Stats!Fixtures
<1>4. ASSUME NEW t \in Teams, Stats!_team_games(Stats!_final_games, t)' = {}
      PROVE  Stats!_team_games(Stats!_final_games, t) = {}
  BY <1>3, <1>4 DEF Stats!_team_games, Stats!Plays
<1>5. UNCHANGED <<elo, rating>> /\ replayed' = FALSE
  BY DEF Stats!Finish
<1> QED
  BY <1>2, <1>3, <1>4, <1>5 DEF RatingsInv, Stats!Fixtures

LEMMA RatingsStore ==
    ASSUME Stats!StatsAssumption, RatingsInv, NEW g \in Stats!Fixtures, Stats!Store(g)
    PROVE  RatingsInv'
<1>1. game' = [game EXCEPT ![g] = Scheduled] /\ game[g] = Absent
  BY DEF Stats!Store, Stats!Stored
<1>2. game' \in [Stats!Fixtures -> {Absent, Scheduled} \cup Scores]
  BY <1>1 DEF RatingsInv
<1>3. Stats!_final_games' = Stats!_final_games
  BY <1>1 DEF RatingsInv, Stats!_final_games, Stats!Fixtures, Stats!StatsAssumption
<1>4. g \notin Stats!_final_games /\ Stats!_final_games \in SUBSET Stats!Fixtures
  BY <1>1 DEF Stats!_final_games, Stats!StatsAssumption
<1>5. \A h \in Stats!_final_games : game'[h] = game[h]
  BY <1>1, <1>4 DEF RatingsInv
<1>6. Replaying(game')[Stats!_final_games] = Replaying(game)[Stats!_final_games]
  BY <1>4, <1>5, ReplaySame
<1>7. Stats!Replay'[Stats!_final_games] = Stats!Replay[Stats!_final_games]
  BY <1>6, ReplayIs
<1>8. \A t \in Teams : Stats!_team_games(Stats!_final_games, t)' = Stats!_team_games(Stats!_final_games, t)
  BY <1>3 DEF Stats!_team_games, Stats!Plays
<1>9. UNCHANGED <<elo, rating, replayed>>
  BY DEF Stats!Store
<1> QED
  BY <1>2, <1>3, <1>7, <1>8, <1>9 DEF RatingsInv, Stats!Fixtures

LEMMA RatingsStep ==
    ASSUME Stats!StatsAssumption, RatingsInv, [Stats!Next]_Stats!vars
    PROVE  RatingsInv'
<1>1. ASSUME NEW g \in Stats!Fixtures, Stats!Store(g) \/ Stats!Finish(g) PROVE RatingsInv'
  BY <1>1, RatingsStore, RatingsFinish
<1>2. ASSUME UNCHANGED <<game, elo, rating, replayed>> PROVE RatingsInv'
  <2>1. Stats!Replay' = Stats!Replay
    BY <1>2, ReplayIs
  <2>2. Stats!_final_games' = Stats!_final_games
    BY <1>2 DEF Stats!_final_games
  <2>3. \A t \in Teams : Stats!_team_games(Stats!_final_games, t)' = Stats!_team_games(Stats!_final_games, t)
    BY <2>2 DEF Stats!_team_games, Stats!Plays
  <2> QED
    BY <1>2, <2>1, <2>2, <2>3 DEF RatingsInv, Stats!Fixtures
<1>3. ASSUME NEW g \in Stats!Fixtures, Stats!store_team_box(g) PROVE RatingsInv'
  BY <1>2, <1>3 DEF Stats!store_team_box
<1>4. ASSUME NEW day, Stats!_refresh_team_stats(day) PROVE RatingsInv'
  BY <1>4, RatingsReplayed DEF Stats!_refresh_team_stats
<1>5. ASSUME NEW force, Stats!backfill_team_stats(force) PROVE RatingsInv'
  BY <1>5, RatingsReplayed DEF Stats!backfill_team_stats
<1>6. ASSUME Stats!compute_historical_elo PROVE RatingsInv'
  <2>1. ASSUME NEW t \in Teams, Stats!_team_games(Stats!_final_games, t) = {} PROVE rating'[t] = rating[t]
    <3>1. ~ \E g \in Stats!Fixtures : Stats!Plays(g, t) /\ Stats!Decisive(g)
      BY <2>1 DEF Stats!Decisive, Stats!_team_games
    <3> QED
      BY <1>6, <3>1 DEF Stats!compute_historical_elo
  <2> QED
    BY <1>6, <2>1, RatingsReplayed DEF Stats!compute_historical_elo
<1>7. ASSUME UNCHANGED Stats!vars PROVE RatingsInv'
  BY <1>2, <1>7 DEF Stats!vars
<1> QED
  BY <1>1, <1>3, <1>4, <1>5, <1>6, <1>7 DEF Stats!Next

\* A team comes into a game with what its last final left it with; the finals of others, and
\* the later ones, make no difference.
LEMMA ServedIs ==
    ASSUME Stats!StatsAssumption, RatingsInv, replayed, NEW g \in Stats!Fixtures, NEW s \in Stats!Sides,
           game[g] = Scheduled,
           \A h \in Stats!_final_games : Stats!Plays(h, Stats!Team(g, s)) => Stats!Day(h) < Stats!Day(g)
    PROVE  Stats!_team_elo(Stats!Team(g, s), g) = Stats!Replay[Stats!_final_games \cup {g}].rows[g][s]
<1> DEFINE t == Stats!Team(g, s)
           F == Stats!_final_games
           P == Stats!_team_games(F, t)
           B == Preceding(F \cup {g}, g)
           into == Replaying(game)[B]
           q == Stats!Latest(P)
<1>1. t \in Teams /\ F \in SUBSET Stats!Fixtures /\ g \notin F
  BY DEF Stats!Team, Stats!StatsAssumption, Stats!_final_games
<1>2. B \in SUBSET F
  BY GamesOrdered DEF Preceding
<1>3. Stats!_team_games(B, t) = P
  BY <1>2 DEF Stats!_team_games, Preceding, Stats!Earlier
<1>4. Stats!Replay[F \cup {g}].rows[g] = Stats!Entering(into, g)
  <2>1. F \cup {g} \in SUBSET Stats!Fixtures /\ g \in F \cup {g}
    BY <1>1
  <2> HIDE DEF F
  <2> QED
    BY <2>1, ReplayIs, ReplayRows
<1>5. Stats!Replay[F \cup {g}].rows[g][s] =
        IF Stats!NewSeason(into, t, g) THEN Stats!season_carry(into.ratings[t]) ELSE into.ratings[t]
  BY <1>4 DEF Stats!Entering
<1>6. /\ DOMAIN elo = F /\ \A h \in F : elo[h] = Replaying(game)[F].rows[h]
      /\ P = {} => rating[t] = Seed
  BY <1>1, ReplayIs DEF RatingsInv
<1>7. {h \in DOMAIN elo : Stats!Plays(h, t) /\ Stats!Day(h) < Stats!Day(g)} = P
  BY <1>6 DEF Stats!_team_games
<1>8. P \in SUBSET Stats!Fixtures /\ None \notin Stats!Fixtures
  BY <1>1 DEF Stats!_team_games, Stats!StatsAssumption
<1>9. B \in SUBSET Stats!Fixtures
  BY <1>1, <1>2
<1>10. /\ P = {} => into.ratings[t] = Seed /\ into.season[t] = None
       /\ P # {} => /\ into.ratings[t] = Ended(game, q, into.rows[q])[Stats!Side(q, t)]
                    /\ into.season[t] = Fixture[q].season
  <2> HIDE DEF B, P, t
  <2> QED
    BY <1>1, <1>3, <1>9, ReplayTeam
<1>11. CASE P = {}
  <2>1. Stats!Latest(P) = None
    BY <1>11 DEF Stats!Latest
  <2>2. Stats!_team_elo(t, g) = rating[t]
    BY <1>1, <1>6, <1>7, <2>1 DEF Stats!_team_elo
  <2> QED
    BY <1>5, <1>6, <1>10, <1>11, <2>2 DEF Stats!NewSeason
<1>12. CASE P # {}
  <2>1. q \in P
    BY <1>8, <1>12, LatestIs
  <2>2. q \in F /\ q \in B /\ q # None /\ Fixture[q].season # None /\ game[q] \in Scores
    <3>1. q \in F /\ q \in B
      BY <1>3, <2>1 DEF Stats!_team_games
    <3> QED
      BY <1>1, <1>8, <3>1 DEF Stats!_final_games, Stats!StatsAssumption
  <2>3. Preceding(B, q) = Preceding(F, q)
    <3>1. Stats!Earlier(q, g)
      BY <2>2 DEF Preceding
    <3>2. \A h \in F : Stats!Earlier(h, q) => h \in B
      BY <1>1, <2>2, <3>1, GamesOrdered DEF Preceding
    <3> QED
      BY <1>2, <3>2 DEF Preceding
  <2>4. into.rows[q] = elo[q]
    <3> HIDE DEF B, F, q
    <3> QED
      BY <1>1, <1>6, <1>9, <2>2, <2>3, ReplayRows
  <2>5. into.ratings[t] = Stats!_rating_after(q, t)
    BY <1>10, <1>12, <2>2, <2>4 DEF Ended, Stats!_rating_after
  <2>6. Stats!NewSeason(into, t, g) <=> Stats!_new_season(q, g)
    BY <1>10, <1>12, <2>2 DEF Stats!NewSeason, Stats!_new_season
  <2>7. Stats!_team_elo(t, g) = IF Stats!_new_season(q, g) THEN Stats!season_carry(Stats!_rating_after(q, t))
                                ELSE Stats!_rating_after(q, t)
    BY <1>1, <1>6, <1>7, <2>2 DEF Stats!_team_elo
  <2> QED
    BY <1>5, <2>5, <2>6, <2>7
<1> QED
  BY <1>11, <1>12

\* Once a replay has seen the results, a game still to be played is priced on the rating the replay will
\* store for it: a late game, a corrected score, a draw, the turn of a season and the teams in between
\* included (_team_elo of pick_generator.py, backfill_elo_history of team_stats.py).
THEOREM RatingsServedAsTrained ==
    ASSUME Stats!StatsAssumption
    PROVE  Stats!Spec => []Stats!ServedAsTrained
<1>1. Stats!Init => RatingsInv
  BY RatingsStart
<1>2. RatingsInv /\ [Stats!Next]_Stats!vars => RatingsInv'
  BY RatingsStep
<1>3. RatingsInv => Stats!ServedAsTrained
  BY ServedIs DEF Stats!ServedAsTrained
<1> QED
  BY <1>1, <1>2, <1>3, PTL DEF Stats!Spec

\* A rating is a whole number, whatever is played.
LEMMA MovesWhole ==
    ASSUME Stats!StatsAssumption, NEW r, r.home \in Int, r.away \in Int, NEW score \in Int \X Int
    PROVE  LET new == Stats!apply_result(r, score) IN new.home \in Int /\ new.away \in Int
<1>1. ASSUME NEW edge \in Int, NEW margin \in Int PROVE Stats!Movement(edge, margin) \in Int
  <2> DEFINE x == 3 * margin - edge
  <2>1. x \in Int
    OBVIOUS
  <2> HIDE DEF x
  <2>2. \E y \in {1, x} : \A z \in {1, x} : y >= z
    <3>1. CASE x >= 1
      BY <2>1, <3>1
    <3>2. CASE ~(x >= 1)
      BY <2>1, <3>2
    <3> QED
      BY <3>1, <3>2
  <2>3. Stats!Max({1, x}) \in {1, x}
    BY <2>2 DEF Stats!Max
  <2> QED
    BY <2>1, <2>3 DEF Stats!Movement, x
<1>2. HomeEdge \in Int /\ score[1] \in Int /\ score[2] \in Int
  BY DEF Stats!StatsAssumption
<1>3. ASSUME NEW won \in BOOLEAN, NEW margin \in Int
      PROVE  LET new == Stats!update(r, won, margin) IN new.home \in Int /\ new.away \in Int
  <2> DEFINE gain == IF won THEN Stats!Movement(r.home + HomeEdge - r.away, margin)
                     ELSE Stats!Movement(r.away - r.home - HomeEdge, margin)
             d == IF won THEN gain ELSE -gain
  <2>1. gain \in Int
    <3>1. r.home + HomeEdge - r.away \in Int /\ r.away - r.home - HomeEdge \in Int
      BY <1>2
    <3>2. Stats!Movement(r.home + HomeEdge - r.away, margin) \in Int
      BY <1>1, <3>1
    <3>3. Stats!Movement(r.away - r.home - HomeEdge, margin) \in Int
      BY <1>1, <3>1
    <3> QED
      BY <3>2, <3>3
  <2> HIDE DEF gain
  <2>2. d \in Int
    BY <2>1
  <2> HIDE DEF d
  <2>3. Stats!update(r, won, margin) = [home |-> r.home + d, away |-> r.away - d]
    BY DEF Stats!update, d, gain
  <2> QED
    BY <2>2, <2>3
<1> DEFINE won == score[1] > score[2]
           margin == IF won THEN score[1] - score[2] ELSE score[2] - score[1]
<1>4. won \in BOOLEAN /\ margin \in Int
  BY <1>2
<1> HIDE DEF won, margin
<1>5. Stats!update(r, won, margin).home \in Int /\ Stats!update(r, won, margin).away \in Int
  BY <1>3, <1>4
<1>6. Stats!apply_result(r, score) = IF score[1] = score[2] THEN r ELSE Stats!update(r, won, margin)
  BY DEF Stats!apply_result, won, margin
<1> QED
  BY <1>5, <1>6

LEMMA ReplayWhole ==
    ASSUME Stats!StatsAssumption, NEW m, NEW S \in SUBSET Stats!Fixtures
    PROVE  \A t \in Teams : Replaying(m)[S].ratings[t] \in Int
<1> DEFINE Whole(T) == \A t \in Teams : Replaying(m)[T].ratings[t] \in Int
           B == {T \in SUBSET Stats!Fixtures : ~Whole(T)}
<1>1. ASSUME NEW T \in B PROVE T # {} /\ T \ {Stats!Latest(T)} \in B
  <2>1. T # {}
    <3> SUFFICES ASSUME T = {} PROVE FALSE
      OBVIOUS
    <3>1. Replaying(m)[T] = Stats!Unrated
      BY ReplayTakes
    <3> QED
      BY <3>1 DEF Stats!Unrated, Stats!StatsAssumption
  <2> DEFINE l == Stats!Latest(T)
             R == T \ {l}
             old == Replaying(m)[R]
             into == Stats!Entering(old, l)
  <2>2. l \in T /\ R \in SUBSET Stats!Fixtures
    BY <2>1, LatestIs
  <2>3. Replaying(m)[T] = After(m, old, l)
    BY <2>1, ReplayTakes
  <2>4. ASSUME Whole(R) PROVE Whole(T)
    <3> HIDE DEF l, R
    <3>1. \A t \in Teams : old.ratings[t] \in Int
      BY <2>4
    <3>2. \A t \in Teams : Stats!season_carry(old.ratings[t]) \in Int
      BY <3>1 DEF Stats!season_carry, Stats!StatsAssumption
    <3>3. into.home \in Int /\ into.away \in Int
      <4>1. Stats!Team(l, "home") \in Teams /\ Stats!Team(l, "away") \in Teams
        BY <2>2 DEF Stats!Team, Stats!StatsAssumption
      <4> HIDE DEF old
      <4> QED
        BY <3>1, <3>2, <4>1 DEF Stats!Entering, Stats!Sides
    <3>4. Ended(m, l, into).home \in Int /\ Ended(m, l, into).away \in Int
      <4> HIDE DEF into
      <4>1. m[l] \in Scores => m[l] \in Int \X Int
        BY DEF Stats!StatsAssumption
      <4> QED
        BY <3>3, <4>1, MovesWhole DEF Ended
    <3>5. \A t \in Teams : Ended(m, l, into)[Stats!Side(l, t)] \in Int
      BY <3>4 DEF Stats!Side
    <3> HIDE DEF old
    <3> QED
      BY <2>3, <3>1, <3>5 DEF After
  <2> QED
    BY <2>1, <2>2, <2>4
<1> HIDE DEF Whole
<1>2. B = {}
  <2> HIDE DEF B
  <2>1. B \in SUBSET SUBSET Stats!Fixtures
    BY DEF B
  <2> QED
    BY <1>1, <2>1, OneByOne
<1>3. Whole(S)
  BY <1>2
<1> QED
  BY <1>3 DEF Whole

StatsTypes == StatsInv /\ RatingsInv /\ Stats!TypeOK

LEMMA StatsTypesStep ==
    ASSUME Stats!StatsAssumption, StatsTypes, [Stats!Next]_Stats!vars
    PROVE  Stats!TypeOK'
<1>1. StatsInv' /\ RatingsInv'
  BY StatsStep, RatingsStep DEF StatsTypes
<1>2. boxes' \subseteq Stats!Fixtures /\ entered' \in 0 .. MaxResults /\ replayed' \in BOOLEAN
  <2>1. boxes \subseteq Stats!Fixtures /\ entered \in 0 .. MaxResults /\ replayed \in BOOLEAN /\ MaxResults \in Nat
    BY DEF StatsTypes, Stats!TypeOK, Stats!StatsAssumption
  <2>2. CASE \E g \in Stats!Fixtures : Stats!Store(g)
    BY <2>1, <2>2 DEF Stats!Store
  <2>3. CASE \E g \in Stats!Fixtures : Stats!Finish(g)
    <3>1. entered' = entered + 1 /\ entered < MaxResults /\ boxes' = boxes /\ replayed' = FALSE
      BY <2>3 DEF Stats!Finish
    <3>2. entered' \in 0 .. MaxResults
      BY <2>1, <3>1
    <3>3. boxes' \subseteq Stats!Fixtures /\ replayed' \in BOOLEAN
      BY <2>1, <3>1
    <3> QED
      BY <3>2, <3>3
  <2>4. CASE \E g \in Stats!Fixtures : Stats!store_team_box(g)
    BY <2>1, <2>4 DEF Stats!store_team_box, Stats!_final_games
  <2>5. CASE (\E day : Stats!_refresh_team_stats(day)) \/ \E force : Stats!backfill_team_stats(force)
    BY <2>1, <2>5 DEF Stats!_refresh_team_stats, Stats!backfill_team_stats
  <2>6. CASE Stats!compute_historical_elo
    BY <2>1, <2>6 DEF Stats!compute_historical_elo
  <2>7. CASE UNCHANGED Stats!vars
    BY <2>1, <2>7 DEF Stats!vars
  <2> QED
    BY <2>2, <2>3, <2>4, <2>5, <2>6, <2>7 DEF Stats!Next
<1>3. rating' \in [Teams -> Int]
  <2>1. CASE Stats!compute_historical_elo
    <3>1. \A t \in Teams : Stats!Replay[Stats!_final_games].ratings[t] \in Int
      <4>1. Stats!_final_games \in SUBSET Stats!Fixtures
        BY DEF Stats!_final_games
      <4> QED
        BY <4>1, ReplayIs, ReplayWhole
    <3> QED
      BY <2>1, <3>1 DEF StatsTypes, Stats!TypeOK, Stats!compute_historical_elo
  <2>2. CASE UNCHANGED rating
    BY <2>2 DEF StatsTypes, Stats!TypeOK
  <2> QED
    BY <2>1, <2>2 DEF Stats!Next, Stats!vars, Stats!Store, Stats!Finish, Stats!store_team_box,
       Stats!_refresh_team_stats, Stats!backfill_team_stats
<1>4. DOMAIN stats' \subseteq Stats!Fixtures /\ DOMAIN elo' \subseteq Stats!Fixtures
      /\ game' \in [Stats!Fixtures -> {Absent, Scheduled} \cup Scores]
  BY <1>1 DEF StatsInv, RatingsInv, Stats!Fixtures, Stats!_final_games
<1> QED
  BY <1>2, <1>3, <1>4 DEF Stats!TypeOK, Stats!Fixtures

\* Every row, rating and result is of its type.
THEOREM StatsTypeCorrect ==
    ASSUME Stats!StatsAssumption
    PROVE  Stats!Spec => []Stats!TypeOK
<1>1. Stats!Init => StatsTypes
  <2>1. Stats!Init => StatsInv
    BY DEF Stats!Init, StatsInv
  <2>2. Stats!Init => Stats!TypeOK
    BY DEF Stats!Init, Stats!TypeOK, Stats!StatsAssumption
  <2> QED
    BY <2>1, <2>2, RatingsStart DEF StatsTypes
<1>2. StatsTypes /\ [Stats!Next]_Stats!vars => StatsTypes'
  BY StatsStep, RatingsStep, StatsTypesStep DEF StatsTypes
<1> QED
  BY <1>1, <1>2, PTL DEF Stats!Spec, StatsTypes

-----------------------------------------------------------------------------
(* Player lines and the props they settle: an instance of PropLines with     *)
(* variables of its own.                                                     *)
CONSTANTS Events, Inside, Rows, Offered, Legacy, MarketStats, Label, KEY_FIELD, LABEL_FIELD, ADDITIVE,
          FOOTBALL_FIELDS, Hollow
VARIABLES final, merged, logs, pass, market, outcome, cut
Boxes == INSTANCE PropLines WITH Props <- Offered

\* The event of a clear row, and the key of a prop's line.
OwnEvent(r) == IF Rows[r].espn # None THEN Rows[r].espn ELSE CHOOSE e \in Boxes!Own(r) : TRUE
LineKey(p) == <<Offered[p].player, Boxes!Day(Offered[p].row)>>
\* Fields that are what the prop's player did in its game.
TrueFields(p, fields) ==
    \A f \in Boxes!SettledFields \cap DOMAIN fields :
        fields[f] = Boxes!Did(OwnEvent(Offered[p].row), Offered[p].player, f)

\* What is stored under a prop's key, and what a pass is about to store there, is of its player's
\* game; its market is one its label names; and what is settled was settled on that.
LinesInv ==
    /\ \A p \in DOMAIN Offered : Boxes!Clear(Offered[p].row) =>
          /\ LineKey(p) \in DOMAIN logs => TrueFields(p, logs[LineKey(p)].fields)
          /\ \A line \in pass.lines : line.key = LineKey(p) => TrueFields(p, line.fields)
    /\ final \subseteq DOMAIN Rows /\ pass = [row |-> pass.row, lines |-> pass.lines]
    /\ DOMAIN market = DOMAIN Offered /\ DOMAIN outcome = DOMAIN Offered
    /\ \A p \in DOMAIN Offered : market[p] \in Boxes!build_label_to_market(Offered[p].label) \cup {None}
    /\ Boxes!SettledOnOwnLine

\* A sum over one number is the number.
LEMMA SumOfOne ==
    ASSUME NEW f, NEW y, DOMAIN f = {y}, f[y] \in Int
    PROVE  Boxes!SumFunction(f) = f[y]
<1> DEFINE P(g) == g = [s \in SUBSET {y} |-> IF s = {} THEN 0
                                             ELSE LET x == CHOOSE x \in s : TRUE IN f[x] + g[s \ {x}]]
           iter == CHOOSE g : P(g)
<1>1. Boxes!SumFunction(f) = iter[{y}]
  BY DEF Boxes!SumFunction, Boxes!SumFunctionOnSet, Boxes!FoldFunctionOnSet, Boxes!MapThenFoldSet
<1>2. P([s \in SUBSET {y} |-> IF s = {} THEN 0 ELSE f[y]])
  <2>1. \A s \in SUBSET {y} : s # {} => s = {y} /\ (CHOOSE x \in s : TRUE) = y /\ s \ {y} = {}
    OBVIOUS
  <2> QED
    BY <2>1
<1>3. P(iter)
  BY <1>2
<1>4. iter[{}] = 0
  BY <1>3
<1>5. iter[{y}] = f[y] + iter[{}]
  <2>1. (CHOOSE x \in {y} : TRUE) = y /\ {y} \ {y} = {}
    OBVIOUS
  <2> QED
    BY <1>3, <2>1
<1> QED
  BY <1>1, <1>4, <1>5

\* An entry that is read by its keys.
LEMMA ReadByKey ==
    ASSUME NEW entry, entry.keyed
    PROVE  Boxes!_naming(entry) = KEY_FIELD
  BY DEF Boxes!_naming

\* A parsed number that a prop may be settled on is what the player did.
LEMMA ParsedRight ==
    ASSUME Boxes!LinesAssumption, Boxes!OwnPlayers, Boxes!Legible,
           NEW p \in DOMAIN Offered, NEW e \in DOMAIN Events, NEW t, NEW f \in Boxes!SettledFields,
           Events[e].day \in Boxes!Day(Offered[p].row) - 2 .. Boxes!Day(Offered[p].row) + 2,
           <<t, Offered[p].player>> \in DOMAIN Boxes!BoxScore[e],
           f \in DOMAIN Boxes!BoxScore[e][<<t, Offered[p].player>>]
    PROVE  Boxes!BoxScore[e][<<t, Offered[p].player>>][f] = Boxes!Did(e, Offered[p].player, f)
<1> DEFINE blocks == Events[e].blocks
           player == Offered[p].player
           read == {i \in DOMAIN blocks : Boxes!_fits(blocks[i])}
           places == {x \in read \X Boxes!Columns :
                         /\ <<blocks[x[1]].team, blocks[x[1]].player>> = <<t, player>>
                         /\ x[2] \in DOMAIN blocks[x[1]].cells /\ Boxes!Reads(blocks[x[1]], x[2], f)}
           cells == Boxes!Cells(blocks, places)
<1>1. /\ Boxes!BoxScore[e][<<t, player>>][f] = Boxes!_put(cells, f)
      /\ places # {} /\ \E i \in read : blocks[i].team = t /\ blocks[i].player = player
  BY DEF Boxes!BoxScore, Boxes!parse_box_score
<1>2. places = Boxes!Places(e, player, f)
  <2>1. ASSUME NEW x \in places PROVE x \in Boxes!Places(e, player, f)
    <3>1. /\ x \in (DOMAIN blocks) \X Boxes!Columns /\ Boxes!_fits(blocks[x[1]])
          /\ blocks[x[1]].player = player /\ x[2] \in DOMAIN blocks[x[1]].cells
          /\ Boxes!Reads(blocks[x[1]], x[2], f)
      OBVIOUS
    <3>2. blocks[x[1]].keyed
      BY <3>1 DEF Boxes!Legible
    <3>3. x[2] \in DOMAIN KEY_FIELD /\ KEY_FIELD[x[2]] = f
      BY <3>1, <3>2, ReadByKey DEF Boxes!Reads
    <3> QED
      BY <3>1, <3>3 DEF Boxes!Places, Boxes!_fits
  <2>2. ASSUME NEW x \in Boxes!Places(e, player, f) PROVE x \in places
    <3>1. /\ x \in (DOMAIN blocks) \X (DOMAIN KEY_FIELD) /\ ~blocks[x[1]].didNotPlay
          /\ blocks[x[1]].player = player /\ x[2] \in DOMAIN blocks[x[1]].cells /\ KEY_FIELD[x[2]] = f
      BY DEF Boxes!Places
    <3>2. blocks[x[1]].keyed /\ blocks[x[1]].aligned
      BY DEF Boxes!Legible
    <3>3. Boxes!_naming(blocks[x[1]]) = KEY_FIELD /\ KEY_FIELD # <<>>
      BY <3>1, <3>2, ReadByKey
    <3>4. blocks[x[1]].team = t
      <4>1. PICK i \in read : blocks[i].team = t /\ blocks[i].player = player
        BY <1>1
      <4>2. x[1] \in DOMAIN blocks /\ i \in DOMAIN blocks
        BY <3>1
      <4> QED
        BY <3>1, <4>1, <4>2 DEF Boxes!OwnPlayers
    <3> QED
      BY <3>1, <3>2, <3>3, <3>4 DEF Boxes!_fits, Boxes!Reads, Boxes!Columns
  <2> QED
    BY <2>1, <2>2
<1>3. Boxes!Did(e, player, f) = Boxes!SumFunction(cells)
  BY <1>2 DEF Boxes!Did
<1>4. CASE f \in ADDITIVE
  BY <1>1, <1>3, <1>4 DEF Boxes!_put
<1>5. CASE f \notin ADDITIVE
  <2>0. PICK x : x \in Boxes!Places(e, player, f)
    BY <1>1, <1>2
  <2>1. x \in places /\ places = {x}
    <3>1. Boxes!Places(e, player, f) = {x}
      BY <1>5, <2>0 DEF Boxes!Legible
    <3> QED
      BY <1>2, <3>1
  <2>2. DOMAIN cells = {x} /\ cells[x] = blocks[x[1]].cells[x[2]]
    BY <2>1 DEF Boxes!Cells
  <2>3. x[1] \in Nat /\ cells[x] \in Int
    <3>1. x[1] \in DOMAIN blocks /\ x[2] \in DOMAIN blocks[x[1]].cells
      BY <2>1
    <3> QED
      BY <2>2, <3>1 DEF Boxes!LinesAssumption
  <2>4. Boxes!_put(cells, f) = cells[x]
    <3>1. (CHOOSE y \in {x} : \A z \in {x} : z[1] <= y[1]) = x
      BY <2>3
    <3> QED
      BY <1>5, <2>2, <3>1 DEF Boxes!_put, Boxes!LastBlock
  <2>5. Boxes!SumFunction(cells) = cells[x]
    BY <2>2, <2>3, SumOfOne
  <2> QED
    BY <1>1, <1>3, <2>4, <2>5
<1> QED
  BY <1>4, <1>5

LEMMA BoxCount == \A S : Boxes!Cardinality(S) = Cardinality(S) /\ (Boxes!IsFiniteSet(S) <=> IsFiniteSet(S))
  BY DEF Boxes!Cardinality, Cardinality, Boxes!IsFiniteSet, IsFiniteSet

\* The own event of a row that its date and teams identify is of those, and the only one that is.
LEMMA OwnEventFits ==
    ASSUME Boxes!LinesAssumption, NEW r \in DOMAIN Rows, Boxes!Identified(r)
    PROVE  OwnEvent(r) \in Boxes!Own(r) /\ (Rows[r].espn = None => Boxes!Own(r) = {OwnEvent(r)})
<1>1. CASE Rows[r].espn # None
  BY <1>1 DEF OwnEvent, Boxes!LinesAssumption
<1>2. CASE Rows[r].espn = None
  <2>1. Cardinality(Boxes!Own(r)) = 1
    BY <1>2, BoxCount DEF Boxes!Identified
  <2>2. IsFiniteSet(Boxes!Own(r))
    <3>1. Boxes!Own(r) \subseteq DOMAIN Events
      BY DEF Boxes!Own
    <3> QED
      BY <3>1, BoxCount, FS_Subset DEF Boxes!LinesAssumption
  <2>3. PICK x : Boxes!Own(r) = {x}
    BY <2>1, <2>2, FS_Singleton
  <2> QED
    BY <1>2, <2>3 DEF OwnEvent
<1> QED
  BY <1>1, <1>2

\* An event a pass finds for a row is of its dates, and of a clear row its own.
LEMMA EventFound ==
    ASSUME Boxes!LinesAssumption, NEW r \in DOMAIN Rows, NEW failed, NEW e \in Boxes!EventOf(r, failed)
    PROVE  /\ e \in DOMAIN Events /\ Events[e].day \in Boxes!Window(r)
           /\ Boxes!Clear(r) => e = OwnEvent(r)
<1>1. CASE Rows[r].espn # None
  BY <1>1 DEF Boxes!EventOf, OwnEvent, Boxes!LinesAssumption, Boxes!Own
<1>2. CASE Rows[r].espn = None
  <2>1. Boxes!Day(r) \in Int
    BY DEF Boxes!LinesAssumption
  <2>2. PICK i \in 1 .. 3 : e \in Boxes!On(Boxes!Day(r) + Boxes!Offsets[i], r)
    BY <1>2 DEF Boxes!EventOf, Boxes!resolve_espn_event
  <2>3. Boxes!Day(r) + Boxes!Offsets[i] \in Boxes!Window(r)
    BY <2>1 DEF Boxes!Offsets, Boxes!Window
  <2>4. e \in DOMAIN Events /\ Events[e].day \in Boxes!Window(r)
    BY <2>2, <2>3 DEF Boxes!On
  <2>5. Boxes!Clear(r) => e = OwnEvent(r)
    <3> SUFFICES ASSUME Boxes!Clear(r) PROVE e = OwnEvent(r)
      OBVIOUS
    <3>1. UNION {Boxes!On(d, r) : d \in Boxes!Window(r)} = Boxes!Own(r)
      BY <1>2 DEF Boxes!Clear
    <3>2. e \in Boxes!Own(r)
      BY <2>2, <2>3, <3>1
    <3> QED
      BY <1>2, <3>2, OwnEventFits DEF Boxes!Clear
  <2> QED
    BY <2>4, <2>5
<1> QED
  BY <1>1, <1>2

\* A parsed line has a block of its player and team behind it.
LEMMA LineBehind ==
    ASSUME NEW e \in DOMAIN Events, NEW k \in DOMAIN Boxes!BoxScore[e]
    PROVE  k = <<k[1], k[2]>> /\ \E i \in DOMAIN Events[e].blocks :
               Events[e].blocks[i].team = k[1] /\ Events[e].blocks[i].player = k[2]
  BY DEF Boxes!BoxScore, Boxes!parse_box_score

\* The lines a pass sets out to store are those of the row's own event.
LEMMA LinesRight ==
    ASSUME Boxes!LinesAssumption, Boxes!OwnPlayers, Boxes!Legible,
           NEW r \in DOMAIN Rows, NEW failed, NEW e \in Boxes!EventOf(r, failed),
           NEW line \in Boxes!Lines(r, e),
           NEW p \in DOMAIN Offered, Boxes!Clear(Offered[p].row), line.key = LineKey(p)
    PROVE  TrueFields(p, line.fields)
<1> DEFINE home == Offered[p].row
           blocks == Events[e].blocks
<1>1. PICK k \in DOMAIN Boxes!BoxScore[e] :
          /\ k[1] \in Boxes!SidesOf(Rows[r])
          /\ line = [key |-> <<k[2], Boxes!Day(r)>>, team |-> k[1], fields |-> Boxes!BoxScore[e][k], event |-> e]
  BY DEF Boxes!Lines
<1>2. /\ e \in DOMAIN Events /\ Events[e].day \in Boxes!Day(r) - 1 .. Boxes!Day(r) + 1
      /\ Boxes!Clear(r) => e = OwnEvent(r)
  BY EventFound DEF Boxes!Window
<1>3. k[2] = Offered[p].player /\ Boxes!Day(r) = Boxes!Day(home) /\ line.fields = Boxes!BoxScore[e][k]
  BY <1>1 DEF LineKey
<1>4. home \in DOMAIN Rows /\ Boxes!Day(home) \in Int /\ Events[e].day \in Int
  BY <1>2 DEF Boxes!LinesAssumption
<1>5. Events[e].day \in Boxes!Day(home) - 2 .. Boxes!Day(home) + 2
  BY <1>2, <1>3, <1>4
<1>6. k = <<k[1], Offered[p].player>> /\ k[1] \in Boxes!SidesOf(Rows[home])
  <2>1. PICK i \in DOMAIN blocks : blocks[i].team = k[1] /\ blocks[i].player = k[2]
    BY <1>2, LineBehind
  <2> QED
    BY <1>2, <1>3, <1>5, <2>1, LineBehind DEF Boxes!OwnPlayers
<1>7. r = home
  BY <1>1, <1>3, <1>6 DEF Boxes!Clear, Boxes!Identified
<1>8. e = OwnEvent(home)
  BY <1>2, <1>7
<1>9. ASSUME NEW f \in Boxes!SettledFields \cap DOMAIN line.fields
      PROVE  line.fields[f] = Boxes!Did(OwnEvent(home), Offered[p].player, f)
  BY <1>2, <1>3, <1>5, <1>6, <1>8, <1>9, ParsedRight
<1> QED
  BY <1>9 DEF TrueFields

LEMMA LinesInit == ASSUME Boxes!LinesAssumption, Boxes!Init PROVE LinesInv
<1>1. pass = [row |-> pass.row, lines |-> pass.lines] /\ pass.lines = {}
  BY DEF Boxes!Init, Boxes!idle
<1>2. ASSUME NEW p \in DOMAIN Offered, LineKey(p) \in DOMAIN logs PROVE TrueFields(p, logs[LineKey(p)].fields)
  <2>1. CASE logs = <<>>
    BY <1>2, <2>1
  <2>2. CASE logs = Hollow
    BY <1>2, <2>2 DEF TrueFields, Boxes!LinesAssumption
  <2> QED
    BY <2>1, <2>2 DEF Boxes!Init
<1>3. ASSUME NEW p \in DOMAIN Offered
      PROVE  market[p] \in Boxes!build_label_to_market(Offered[p].label) \cup {None} /\ outcome[p] = None
  BY DEF Boxes!Init, Boxes!LinesAssumption
<1> QED
  BY <1>1, <1>2, <1>3 DEF LinesInv, Boxes!Init, Boxes!SettledOnOwnLine

\* A prop settled now is settled on its player's line, and the line is true.
LEMMA GradedRight ==
    ASSUME Boxes!LinesAssumption, LinesInv, NEW p \in DOMAIN Offered, Boxes!grade(p),
           Boxes!Clear(Offered[p].row), outcome'[p] # None
    PROVE  Boxes!SettledRight(p)'
<1> DEFINE r == Offered[p].row
           m == market[p]
           stat == Boxes!prop_box_score(Offered[p].player, Boxes!Day(r))
<1>1. outcome'[p] = Boxes!grade_prop_pick(Offered[p], m, stat) /\ m # None
  BY DEF Boxes!grade, LinesInv
<1>2. /\ stat # None /\ m \in DOMAIN MarketStats /\ MarketStats[m] \subseteq DOMAIN stat
      /\ outcome'[p] = Boxes!Settled(Boxes!SumFunction([f \in MarketStats[m] |-> stat[f]]),
                                     Offered[p].over, Offered[p].line)
  BY <1>1 DEF Boxes!grade_prop_pick
<1>3. TrueFields(p, stat)
  BY <1>2 DEF Boxes!prop_box_score, LinesInv, LineKey
<1>4. m \in Boxes!build_label_to_market(Offered[p].label)
  BY <1>1 DEF LinesInv
<1>5. [f \in MarketStats[m] |-> stat[f]] = [f \in MarketStats[m] |-> Boxes!Did(OwnEvent(r), Offered[p].player, f)]
  <2>1. \A f \in MarketStats[m] : stat[f] = Boxes!Did(OwnEvent(r), Offered[p].player, f)
    BY <1>2, <1>3 DEF TrueFields, Boxes!SettledFields
  <2> HIDE DEF stat, m
  <2> QED
    BY <2>1
<1>6. OwnEvent(r) \in Boxes!Own(r)
  <2>1. r \in DOMAIN Rows /\ Boxes!Identified(r)
    BY DEF Boxes!LinesAssumption, Boxes!Clear
  <2> QED
    BY <2>1, OwnEventFits
<1> QED
  BY <1>2, <1>4, <1>5, <1>6 DEF Boxes!SettledRight

\* What is settled stays settled as it was.
LEMMA SettledStays ==
    ASSUME Boxes!SettledOnOwnLine, UNCHANGED outcome
    PROVE  Boxes!SettledOnOwnLine'
  BY DEF Boxes!SettledOnOwnLine, Boxes!SettledRight

LEMMA LinesStep ==
    ASSUME Boxes!LinesAssumption, Boxes!OwnPlayers, Boxes!Legible, LinesInv, [Boxes!Next]_Boxes!vars
    PROVE  LinesInv'
<1> USE DEF LinesInv
<1>1. ASSUME Boxes!collect_box_scores_for_final_games PROVE LinesInv'
  <2>1. PICK r \in Boxes!Pending :
            \E e \in UNION {Boxes!EventOf(r, failed) : failed \in SUBSET {Events[x].day : x \in DOMAIN Events}} :
                pass' = [row |-> r, lines |-> Boxes!Lines(r, e)]
    BY <1>1 DEF Boxes!collect_box_scores_for_final_games
  <2>2. PICK failed : \E e \in Boxes!EventOf(r, failed) : pass' = [row |-> r, lines |-> Boxes!Lines(r, e)]
    BY <2>1
  <2>0. PICK e \in Boxes!EventOf(r, failed) : pass' = [row |-> r, lines |-> Boxes!Lines(r, e)]
    BY <2>2
  <2>3. r \in DOMAIN Rows
    BY DEF Boxes!Pending
  <2>4. pass'.lines = Boxes!Lines(r, e) /\ pass' = [row |-> pass'.row, lines |-> pass'.lines]
    BY <2>0
  <2>5. \A p \in DOMAIN Offered : Boxes!Clear(Offered[p].row) =>
            \A line \in pass'.lines : line.key = LineKey(p) => TrueFields(p, line.fields)
    BY <2>3, <2>4, LinesRight
  <2>6. UNCHANGED <<final, logs, market, outcome>>
    BY <1>1 DEF Boxes!collect_box_scores_for_final_games
  <2>7. Boxes!SettledOnOwnLine'
    BY <2>6, SettledStays
  <2> QED
    BY <2>4, <2>5, <2>6, <2>7
<1>2. ASSUME Boxes!store_stats PROVE LinesInv'
  <2>1. PICK line \in pass.lines :
            /\ logs' = [k \in DOMAIN logs \cup {line.key} |-> IF k = line.key THEN Boxes!Stored(line) ELSE logs[k]]
            /\ pass' = IF pass.lines = {line} THEN Boxes!idle ELSE [pass EXCEPT !.lines = @ \ {line}]
    BY <1>2 DEF Boxes!store_stats
  <2>2. pass' = [row |-> pass'.row, lines |-> pass'.lines] /\ pass'.lines \subseteq pass.lines
    BY <2>1 DEF Boxes!idle
  <2>3. ASSUME NEW p \in DOMAIN Offered, Boxes!Clear(Offered[p].row), LineKey(p) \in DOMAIN logs'
        PROVE  TrueFields(p, logs'[LineKey(p)].fields)
    <3>1. CASE LineKey(p) # line.key
      BY <2>1, <2>3, <3>1
    <3>2. CASE LineKey(p) = line.key
      <4>1. logs'[LineKey(p)].fields = Boxes!Stored(line).fields
        BY <2>1, <3>2
      <4>2. TrueFields(p, line.fields)
        BY <2>3, <3>2
      <4>3. line.key \in DOMAIN logs => TrueFields(p, logs[line.key].fields)
        BY <2>3, <3>2
      <4> QED
        BY <4>1, <4>2, <4>3 DEF Boxes!Stored, TrueFields
    <3> QED
      BY <3>1, <3>2
  <2>4. UNCHANGED <<final, market, outcome>>
    BY <1>2 DEF Boxes!store_stats
  <2>5. Boxes!SettledOnOwnLine'
    BY <2>4, SettledStays
  <2> QED
    BY <2>2, <2>3, <2>4, <2>5
<1>3. ASSUME Boxes!Stop PROVE LinesInv'
  <2>1. pass' = [row |-> pass'.row, lines |-> pass'.lines] /\ pass'.lines = {} /\ UNCHANGED <<final, logs, market, outcome>>
    BY <1>3 DEF Boxes!Stop, Boxes!idle
  <2>2. Boxes!SettledOnOwnLine'
    BY <2>1, SettledStays
  <2> QED
    BY <2>1, <2>2
<1>4. ASSUME NEW p \in DOMAIN Offered, Boxes!grade(p) PROVE LinesInv'
  <2>1. UNCHANGED <<final, logs, pass, market>> /\ DOMAIN outcome' = DOMAIN outcome
        /\ \A q \in DOMAIN Offered : q # p => outcome'[q] = outcome[q]
    BY <1>4 DEF Boxes!grade
  <2>2. Boxes!SettledOnOwnLine'
    BY <1>4, <2>1, GradedRight DEF Boxes!SettledOnOwnLine, Boxes!SettledRight
  <2> QED
    BY <2>1, <2>2
<1>5. ASSUME Boxes!backfill_prop_fields PROVE LinesInv'
  <2>1. UNCHANGED <<final, logs, pass, outcome>> /\ DOMAIN market' = DOMAIN Offered
    BY <1>5 DEF Boxes!backfill_prop_fields
  <2>2. ASSUME NEW p \in DOMAIN Offered PROVE market'[p] \in Boxes!build_label_to_market(Offered[p].label) \cup {None}
    <3>1. CASE Boxes!Cardinality(Boxes!build_label_to_market(Offered[p].label)) = 1
      <4>1. Boxes!build_label_to_market(Offered[p].label) # {}
        <5>1. Boxes!Cardinality({}) = 0
          BY BoxCount, FS_EmptySet
        <5>2. 0 # 1
          OBVIOUS
        <5> QED
          BY <3>1, <5>1, <5>2, Zenon
      <4> QED
        BY <1>5, <4>1 DEF Boxes!backfill_prop_fields
    <3>2. CASE Boxes!Cardinality(Boxes!build_label_to_market(Offered[p].label)) # 1
      BY <1>5, <3>2 DEF Boxes!backfill_prop_fields
    <3> QED
      BY <3>1, <3>2
  <2>3. Boxes!SettledOnOwnLine'
    BY <2>1, SettledStays
  <2> QED
    BY <2>1, <2>2, <2>3
<1>6. ASSUME UNCHANGED <<pass, market, outcome>>, final' \subseteq DOMAIN Rows, DOMAIN logs' \subseteq DOMAIN logs,
             \A k \in DOMAIN logs' : logs'[k] = logs[k]
      PROVE  LinesInv'
  <2>1. Boxes!SettledOnOwnLine'
    BY <1>6, SettledStays
  <2> QED
    BY <1>6, <2>1
<1>7. ASSUME Boxes!refetch_football_box_scores \/ Boxes!dedupe_game_logs PROVE LinesInv'
  <2>1. UNCHANGED <<final, pass, market, outcome>> /\ DOMAIN logs' \subseteq DOMAIN logs
        /\ \A k \in DOMAIN logs' : logs'[k] = logs[k]
    BY <1>7 DEF Boxes!refetch_football_box_scores, Boxes!dedupe_game_logs, Boxes!Restrict
  <2> QED
    BY <1>6, <2>1
<1>8. ASSUME NEW r \in DOMAIN Rows, Boxes!Finish(r) \/ Boxes!Merge(r) PROVE LinesInv'
  BY <1>6, <1>8 DEF Boxes!Finish, Boxes!Merge
<1>9. ASSUME UNCHANGED Boxes!vars PROVE LinesInv'
  BY <1>6, <1>9 DEF Boxes!vars
<1> QED
  BY <1>1, <1>2, <1>3, <1>4, <1>5, <1>7, <1>8, <1>9 DEF Boxes!Next

\* A prop on a game that its date and teams identify, and whose abbreviations no other event's name
\* around that date holds, is settled only on what its player did in that game, through stops between two players, hollow rows, copies, refetches and merges.
THEOREM LinesSettleOwn ==
    ASSUME Boxes!LinesAssumption, Boxes!OwnPlayers, Boxes!Legible
    PROVE  Boxes!Spec => []Boxes!SettledOnOwnLine
<1>1. Boxes!Init => LinesInv
  BY LinesInit
<1>2. LinesInv /\ [Boxes!Next]_Boxes!vars => LinesInv'
  BY LinesStep
<1>3. LinesInv => Boxes!SettledOnOwnLine
  BY DEF LinesInv
<1> QED
  BY <1>1, <1>2, <1>3, PTL DEF Boxes!Spec
=============================================================================
