-------------------------- MODULE PaperBetsProofs ---------------------------
(*****************************************************************************)
(* Theorems about PaperBets, for every number of players, games, bets,      *)
(* request threads and grading passes: types, and that a cash out is final  *)
(* whatever passes run, because what a pass has graded could not be cashed  *)
(* out any more.  With one grading pass at a time no player is ever         *)
(* overdrawn and every settled bet keeps its result, the records of a bet   *)
(* agree, and requests and passes implement the ledger, although legs,      *)
(* parlays and events are written in separate transactions, each from what  *)
(* an earlier one had read.                                                 *)
(*****************************************************************************)
EXTENDS PaperBetsInv, PaperBetsLedger, FiniteSetTheorems, TLAPS

-----------------------------------------------------------------------------
(* Sums: a sum is a natural number, depends only on the rows it sums, grows *)
(* with them, and adds up over disjoint sets of rows.                        *)

\* The coins of finitely many rows are finitely many.
LEMMA CoinsFinite ==
    ASSUME NEW S, IsFiniteSet(S), NEW col, \A x \in S : col[x] \in Nat
    PROVE  IsFiniteSet(Coins(S, col))
<1> DEFINE purse == [x \in S |-> {x} \X (1..col[x])]
           P == {{x} \X (1..col[x]) : x \in S}
<1>1. purse \in Surjection(S, P)
  BY DEF Surjection
<1>2. IsFiniteSet(P)
  BY <1>1, FS_Surjection
<1>3. ASSUME NEW T \in P PROVE IsFiniteSet(T)
  <2>1. PICK x \in S : T = {x} \X (1..col[x])
    BY DEF P
  <2>2. IsFiniteSet({x}) /\ IsFiniteSet(1..col[x])
    <3>1. 1 \in Int /\ col[x] \in Int
      OBVIOUS
    <3>2. IsFiniteSet(1..col[x])
      BY <3>1, FS_Interval
    <3> QED BY <3>2, FS_Singleton
  <2> QED BY <2>1, <2>2, FS_Product
<1> QED BY <1>2, <1>3, FS_UNION DEF Coins

\* A sum of natural numbers is one.
LEMMA TotalType ==
    ASSUME NEW S, IsFiniteSet(S), NEW col, \A x \in S : col[x] \in Nat
    PROVE  Total(S, col) \in Nat
BY CoinsFinite, FS_CardinalityType DEF Total

\* A sum depends only on the column's values in the rows summed.
LEMMA TotalSame ==
    ASSUME NEW S, NEW col, NEW alt, \A x \in S : col[x] = alt[x]
    PROVE  Total(S, col) = Total(S, alt)
<1>1. Coins(S, col) = Coins(S, alt)
  BY DEF Coins
<1> QED BY <1>1 DEF Total

\* More rows, or larger amounts, never sum to less.
LEMMA TotalMonotone ==
    ASSUME NEW S, IsFiniteSet(S), NEW R \in SUBSET S,
           NEW col, NEW alt,
           \A x \in R : col[x] \in Nat /\ col[x] <= alt[x],
           \A x \in S : alt[x] \in Nat
    PROVE  Total(R, col) <= Total(S, alt)
<1>1. IsFiniteSet(Coins(S, alt))
  BY CoinsFinite
<1>2. Coins(R, col) \subseteq Coins(S, alt)
  BY DEF Coins
<1> QED BY <1>1, <1>2, FS_Subset DEF Total

\* Disjoint sets of rows sum apart.
LEMMA TotalSplit ==
    ASSUME NEW S, IsFiniteSet(S), NEW R, IsFiniteSet(R), S \cap R = {},
           NEW col, \A x \in S \cup R : col[x] \in Nat
    PROVE  Total(S \cup R, col) = Total(S, col) + Total(R, col)
<1>1. IsFiniteSet(Coins(S, col)) /\ IsFiniteSet(Coins(R, col))
  BY CoinsFinite
<1>2. Coins(S \cup R, col) = Coins(S, col) \cup Coins(R, col)
  BY DEF Coins
<1>3. Coins(S, col) \cap Coins(R, col) = {}
  BY DEF Coins
<1>4. Cardinality(Coins(S, col) \cap Coins(R, col)) = 0
  BY <1>3, FS_EmptySet
<1>5. /\ Cardinality(Coins(S, col)) \in Nat /\ Cardinality(Coins(R, col)) \in Nat
      /\ Cardinality(Coins(S \cup R, col))
           = Cardinality(Coins(S, col)) + Cardinality(Coins(R, col))
               - Cardinality(Coins(S, col) \cap Coins(R, col))
  BY <1>1, <1>2, FS_Union, FS_CardinalityType
<1> QED BY <1>4, <1>5 DEF Total

\* One row sums to its amount.
LEMMA TotalOne ==
    ASSUME NEW x, NEW col, col[x] \in Nat
    PROVE  Total({x}, col) = col[x]
<1>1. Coins({x}, col) = {x} \X (1..col[x])
  BY DEF Coins
<1>2. IsFiniteSet({x}) /\ Cardinality({x}) = 1
  BY FS_Singleton
<1>3. IsFiniteSet(1..col[x]) /\ Cardinality(1..col[x]) = col[x]
  <2>1. 1 \in Int /\ col[x] \in Int
    OBVIOUS
  <2>2. /\ IsFiniteSet(1..col[x])
        /\ Cardinality(1..col[x]) = IF 1 > col[x] THEN 0 ELSE col[x] - 1 + 1
    BY <2>1, FS_Interval, Zenon
  <2>3. (IF 1 > col[x] THEN 0 ELSE col[x] - 1 + 1) = col[x]
    OBVIOUS
  <2> QED BY <2>2, <2>3
<1>4. Cardinality({x} \X (1..col[x])) = Cardinality({x}) * Cardinality(1..col[x])
  BY <1>2, <1>3, FS_Product, Zenon
<1>5. 1 * col[x] = col[x]
  OBVIOUS
<1>6. Cardinality({x} \X (1..col[x])) = col[x]
  BY <1>2, <1>3, <1>4, <1>5, Zenon
<1> QED BY <1>1, <1>6 DEF Total

\* The rows of S under a name that says which table they come from.
Tagged(tag, S) == {<<tag, x>> : x \in S}

\* Rows known by another name sum to the same.
LEMMA TotalTagged ==
    ASSUME NEW tag, NEW S, IsFiniteSet(S),
           NEW col, NEW alt, \A x \in S : col[x] \in Nat /\ alt[<<tag, x>>] = col[x]
    PROVE  /\ Total(Tagged(tag, S), alt) = Total(S, col)
           /\ IsFiniteSet(Tagged(tag, S))
<1> DEFINE T == Tagged(tag, S)
           C == Coins(S, col)
           D == Coins(T, alt)
           f == [c \in C |-> <<<<tag, c[1]>>, c[2]>>]
<1>0. /\ \A x \in S : <<tag, x>> \in T
      /\ \A t \in T : \E x \in S : t = <<tag, x>>
  BY DEF Tagged
<1> HIDE DEF T
<1>1. IsFiniteSet(T)
  <2>1. [x \in S |-> <<tag, x>>] \in Surjection(S, T)
    BY <1>0 DEF Surjection
  <2> QED BY <2>1, FS_Surjection
<1>2. IsFiniteSet(C)
  BY CoinsFinite
<1>3. /\ \A c \in C : \E x \in S : c[1] = x /\ c[2] \in 1..col[x] /\ c = <<c[1], c[2]>>
      /\ \A x \in S : \A i \in 1..col[x] : <<x, i>> \in C
      /\ \A d \in D : \E x \in S : d[1] = <<tag, x>> /\ d[2] \in 1..col[x] /\ d = <<d[1], d[2]>>
      /\ \A x \in S : \A i \in 1..col[x] : <<<<tag, x>>, i>> \in D
  BY <1>0 DEF Coins
<1> HIDE DEF C, D
<1>4. f \in [C -> D]
  <2>1. ASSUME NEW c \in C PROVE <<<<tag, c[1]>>, c[2]>> \in D
    BY <1>3
  <2> QED BY <2>1
<1>5. ASSUME NEW a \in C, NEW b \in C, f[a] = f[b] PROVE a = b
  <2>1. a[1] = b[1] /\ a[2] = b[2]
    BY <1>5
  <2> QED BY <1>3, <2>1
<1>6. ASSUME NEW d \in D PROVE \E c \in C : f[c] = d
  <2>1. PICK x \in S : d[1] = <<tag, x>> /\ d[2] \in 1..col[x] /\ d = <<d[1], d[2]>>
    BY <1>3
  <2>2. <<x, d[2]>> \in C /\ f[<<x, d[2]>>] = d
    BY <1>3, <2>1
  <2> QED BY <2>2
<1>7. f \in Bijection(C, D)
  BY <1>4, <1>5, <1>6 DEF Bijection, Injection, IsInjective, Surjection
<1>8. ExistsBijection(C, D)
  BY <1>7 DEF ExistsBijection
<1> QED BY <1>1, <1>2, <1>8, FS_Bijection DEF Total, C, D, T

-----------------------------------------------------------------------------
(* Type correctness *)

\* What the constants' assumptions say of the ids.
LEMMA Ids ==
    /\ IsFiniteSet(PickIds) /\ IsFiniteSet(ParlayIds)
    /\ PickIds \subseteq Nat /\ ParlayIds \subseteq Nat /\ 1 \in PickIds
    /\ AnyUser \in Users /\ AnyGame \in Games
    /\ <<"straight", 1>> \in Keys
    /\ \A k \in Keys : \/ k[1] = "straight" /\ k[2] \in PickIds
                       \/ k[1] = "parlay" /\ k[2] \in ParlayIds
    /\ NoPick \in PickRow /\ NoParlayRow \in ParlayRow /\ Idle \in RequestState
<1>1. IsFiniteSet(PickIds) /\ IsFiniteSet(ParlayIds)
  BY IdsAssumption, FS_Interval DEF PickIds, ParlayIds
<1>2. AnyUser \in Users /\ AnyGame \in Games
  BY IdsAssumption DEF AnyUser, AnyGame
<1> QED BY <1>1, <1>2, IdsAssumption, AmountAssumption DEF PickIds, ParlayIds, Keys, NoPick,
                                                           NoParlayRow, PickRow, ParlayRow,
                                                           Idle, RequestState, Results,
                                                           NoParlay, Absent

\* What is available is an integer: every sum is over finitely many rows.
LEMMA AvailableType ==
    ASSUME RowsOK, NEW u \in Users
    PROVE  AvailableOf(u) \in Int /\ OpenStakes(u) \in Nat
<1>1. ASSUME NEW b \in BOOLEAN
      PROVE  /\ IsFiniteSet(Straights(u, b)) /\ Straights(u, b) \subseteq PickIds
             /\ IsFiniteSet(Parlays(u, b)) /\ Parlays(u, b) \subseteq ParlayIds
  BY Ids, FS_Subset DEF Straights, Picked, Parlays, Parlayed
<1>2. \A p \in PickIds : PickStake[p] \in Nat /\ PickBack[p] \in Nat
  BY DEF RowsOK, PickRow, PickStake, PickBack
<1>3. \A q \in ParlayIds : ParlayStake[q] \in Nat /\ ParlayBack[q] \in Nat
  BY DEF RowsOK, ParlayRow, ParlayStake, ParlayBack
<1>4. ASSUME NEW b \in BOOLEAN
      PROVE  /\ Total(Straights(u, b), PickStake) \in Nat
             /\ Total(Straights(u, b), PickBack) \in Nat
             /\ Total(Parlays(u, b), ParlayStake) \in Nat
             /\ Total(Parlays(u, b), ParlayBack) \in Nat
  BY <1>1, <1>2, <1>3, TotalType
<1> DEFINE a == Total(Straights(u, TRUE), PickBack)
           b == Total(Straights(u, TRUE), PickStake)
           c == Total(Parlays(u, TRUE), ParlayBack)
           d == Total(Parlays(u, TRUE), ParlayStake)
           e == Total(Straights(u, FALSE), PickStake)
           f == Total(Parlays(u, FALSE), ParlayStake)
<1>5. a \in Nat /\ b \in Nat /\ c \in Nat /\ d \in Nat /\ e \in Nat /\ f \in Nat
  BY <1>4
<1>6. /\ BalanceOf(u) = StartingBalance + (a - b) + (c - d)
      /\ OpenStakes(u) = e + f
      /\ AvailableOf(u) = BalanceOf(u) - OpenStakes(u)
  <2>1. BalanceOf(u) = StartingBalance + (a - b) + (c - d)
    BY DEF BalanceOf
  <2>2. OpenStakes(u) = e + f
    BY DEF OpenStakes
  <2> QED BY <2>1, <2>2 DEF AvailableOf
<1> HIDE DEF a, b, c, d, e, f
<1> QED BY <1>5, <1>6, AmountAssumption

\* What a settled bet returns is an amount.
LEMMA BackType ==
    ASSUME NEW result, NEW stake \in Nat, NEW dec \in Nat
    PROVE  BackFor(result, stake, dec) \in Nat
BY DEF BackFor

\* The initial state has the types.
LEMMA TypeInit == Init => TypeOK
BY Ids DEF Init, TypeOK, RowsOK, GamesOK, RequestsOK, GradersOK, RequestState, Steps,
           Idle, NoVerdict, NoParlayVerdict, Keys, Free, Statuses

\* A game's step changes no row and nothing in memory.
LEMMA TypeGame ==
    ASSUME TypeOK, NEW g \in Games, Game(g)
    PROVE  TypeOK'
<1> USE DEF TypeOK, GamesOK, GameStep, Statuses, Scores
<1>1. CASE KickOff(g)
  BY <1>1 DEF KickOff, rows, gr, RowsOK, RequestsOK, GradersOK
<1>2. CASE Begin(g) \/ Cancel(g) \/ Restore(g)
  <2>1. GamesOK'
    BY <1>2 DEF Begin, Cancel, Restore
  <2>2. UNCHANGED <<rows, lock, rq, gr, aborts>>
    BY <1>2 DEF Begin, Cancel, Restore
  <2> QED BY <2>1, <2>2 DEF rows, gr, RowsOK, RequestsOK, GradersOK
<1>3. ASSUME NEW s \in Scores, Finish(g, s) \/ CorrectScore(g, s) PROVE TypeOK'
  <2>1. GamesOK'
    BY <1>3 DEF Finish, CorrectScore
  <2>2. UNCHANGED <<rows, lock, rq, gr, aborts>>
    BY <1>3 DEF Finish, CorrectScore
  <2> QED BY <2>1, <2>2 DEF rows, gr, RowsOK, RequestsOK, GradersOK
<1>4. ASSUME NEW r \in Graded, BoxScore(g, r) PROVE TypeOK'
  BY <1>4 DEF BoxScore, rows, gr, RowsOK, RequestsOK, GradersOK
<1> QED BY <1>1, <1>2, <1>3, <1>4, Game(g) DEF Game

\* Midnight changes only the day and the games that have started.
LEMMA TypeNextDay ==
    ASSUME TypeOK, NextDay
    PROVE  TypeOK'
<1>1. GamesOK'
  BY DEF TypeOK, GamesOK, NextDay
<1>2. RowsOK' /\ RequestsOK' /\ GradersOK'
  BY DEF TypeOK, RowsOK, RequestsOK, GradersOK, NextDay, rows, gr
<1> QED BY <1>1, <1>2 DEF TypeOK

\* A request that ends leaves an idle thread and a free lock.
LEMMA ReleaseType ==
    ASSUME RequestsOK, NEW r \in Requests, Release(r)
    PROVE  RequestsOK'
BY Ids DEF RequestsOK, Release

\* A request's step keeps the types.
LEMMA TypeRequest ==
    ASSUME TypeOK, NEW r \in Requests, Request(r)
    PROVE  TypeOK'
<1> USE DEF TypeOK
<1>1. ASSUME NEW u \in Users, ReadLegs(r, u) PROVE TypeOK'
  <2>1. RequestsOK'
    <3> DEFINE row == [Idle EXCEPT !.pc = "legs", !.user = u,
                                   !.saw = {g \in Games : status[g] = "scheduled"}]
    <3>1. row \in RequestState
      BY Ids DEF RequestState
    <3>2. rq' = [rq EXCEPT ![r] = row] /\ UNCHANGED lock
      BY <1>1 DEF ReadLegs
    <3> HIDE DEF row
    <3> QED BY <3>1, <3>2 DEF RequestsOK
  <2> QED BY <1>1, <2>1 DEF ReadLegs, rows, games, gr, RowsOK, GamesOK, GradersOK
<1>2. ASSUME NEW u \in Users, NEW op \in {"place", "parlay", "cashout"},
             HoldBankroll(r, u, op)
      PROVE  TypeOK'
  <2>1. RequestsOK'
    <3> DEFINE row == [rq[r] EXCEPT !.pc = op, !.user = u]
    <3>1. row \in RequestState
      BY DEF RequestsOK, RequestState
    <3>2. rq' = [rq EXCEPT ![r] = row] /\ lock' = r
      BY <1>2 DEF HoldBankroll, RequestsOK
    <3> HIDE DEF row
    <3> QED BY <3>1, <3>2 DEF RequestsOK
  <2> QED BY <1>2, <2>1 DEF HoldBankroll, rows, games, gr, RowsOK, GamesOK, GradersOK
<1>3. CASE ReadAvailable(r)
  <2>1. AvailableOf(rq[r].user) \in Int
    BY AvailableType DEF RequestsOK, RequestState
  <2>2. rq' = [rq EXCEPT ![r] = [rq[r] EXCEPT
                   !.pc = IF @ = "place" THEN "checked" ELSE "checked parlay",
                   !.seen = AvailableOf(rq[r].user)]]
    BY <1>3 DEF ReadAvailable, RequestsOK, RequestState
  <2>3. [rq[r] EXCEPT !.pc = IF @ = "place" THEN "checked" ELSE "checked parlay",
                      !.seen = AvailableOf(rq[r].user)] \in RequestState
    BY <2>1 DEF RequestsOK, RequestState
  <2>4. RequestsOK'
    <3>1. rq' \in [Requests -> RequestState]
      BY <2>2, <2>3 DEF RequestsOK
    <3> QED BY <1>3, <3>1 DEF ReadAvailable, RequestsOK
  <2> QED BY <1>3, <2>4 DEF ReadAvailable, rows, games, gr, RowsOK, GamesOK, GradersOK
<1>4. CASE Place(r)
  <2>1. ASSUME NEW p \in PickIds, NEW g \in Games, NEW side \in Sides,
               NEW stake \in Stakes, NEW dec \in Decimals,
               PlacePick(r, p, g, side, stake, dec)
        PROVE  TypeOK'
    <3>1. RequestsOK'
      BY <2>1, ReleaseType DEF PlacePick
    <3>2. rq[r].user \in Users
      BY DEF RequestsOK, RequestState
    <3>3. RowsOK'
      BY <2>1, <3>2, AmountAssumption
         DEF PlacePick, RowsOK, PickRow, Results, NoParlay
    <3> QED BY <2>1, <3>1, <3>3 DEF PlacePick, games, gr, GamesOK, GradersOK
  <2>2. ASSUME NEW q \in ParlayIds, NEW S \in SUBSET PickIds, NEW leg \in [S -> Legs],
               NEW stake \in Stakes, NEW dec \in Decimals,
               PlaceParlay(r, q, leg, stake, dec)
        PROVE  TypeOK'
    <3>1. RequestsOK'
      BY <2>2, ReleaseType DEF PlaceParlay
    <3>2. rq[r].user \in Users
      BY DEF RequestsOK, RequestState
    <3>3. parlay' \in [ParlayIds -> ParlayRow]
      BY <2>2, <3>2, AmountAssumption DEF PlaceParlay, RowsOK, ParlayRow, Results
    <3>4. pick' \in [PickIds -> PickRow]
      BY <2>2, <3>2 DEF PlaceParlay, RowsOK, PickRow, Results, Legs
    <3>5. RowsOK'
      BY <2>2, <3>3, <3>4 DEF PlaceParlay, RowsOK
    <3> QED BY <2>2, <3>1, <3>5 DEF PlaceParlay, games, gr, GamesOK, GradersOK
  <2> QED BY <1>4, <2>1, <2>2 DEF Place
<1>5. ASSUME NEW k \in Keys, LoadBet(r, k) PROVE TypeOK'
  <2>1. RequestsOK'
    <3> DEFINE row == [rq[r] EXCEPT !.pc = "offer", !.key = k]
    <3>1. row \in RequestState
      BY DEF RequestsOK, RequestState
    <3>2. rq' = [rq EXCEPT ![r] = row] /\ UNCHANGED lock
      BY <1>5 DEF LoadBet, RequestsOK
    <3> HIDE DEF row
    <3> QED BY <3>1, <3>2 DEF RequestsOK
  <2> QED BY <1>5, <2>1 DEF LoadBet, rows, games, gr, RowsOK, GamesOK, GradersOK
<1>6. ASSUME NEW offer \in 1..MaxOffer, CashOut(r, offer) PROVE TypeOK'
  <2>1. RequestsOK'
    BY <1>6, ReleaseType DEF CashOut
  <2>2. offer \in Nat
    BY AmountAssumption
  <2>3. RowsOK'
    <3>1. CASE rq[r].key[1] = "straight"
      <4>1. ASSUME NEW b \in PickIds
            PROVE  [pick[b] EXCEPT !.result = "cashed_out", !.back = offer] \in PickRow
        BY <2>2 DEF RowsOK, PickRow, Results
      <4>2. pick' = [pick EXCEPT ![rq[r].key[2]] =
                        [@ EXCEPT !.result = "cashed_out", !.back = offer]]
        BY <1>6, <3>1 DEF CashOut
      <4>3. pick' \in [PickIds -> PickRow]
        BY <4>1, <4>2 DEF RowsOK
      <4>4. UNCHANGED <<parlay, feed>>
        BY <1>6, <3>1, Zenon DEF CashOut
      <4> QED BY <4>3, <4>4 DEF RowsOK
    <3>2. CASE rq[r].key[1] # "straight"
      <4>1. ASSUME NEW b \in ParlayIds
            PROVE  [parlay[b] EXCEPT !.result = "cashed_out", !.back = offer] \in ParlayRow
        BY <2>2 DEF RowsOK, ParlayRow, Results
      <4>2. parlay' = [parlay EXCEPT ![rq[r].key[2]] =
                        [@ EXCEPT !.result = "cashed_out", !.back = offer]]
        BY <1>6, <3>2 DEF CashOut
      <4>3. parlay' \in [ParlayIds -> ParlayRow]
        BY <4>1, <4>2 DEF RowsOK
      <4>4. UNCHANGED <<pick, feed>>
        BY <1>6, <3>2, Zenon DEF CashOut
      <4> QED BY <4>3, <4>4 DEF RowsOK
    <3> QED BY <3>1, <3>2
  <2> QED BY <1>6, <2>1, <2>3 DEF CashOut, games, gr, GamesOK, GradersOK
<1>7. CASE Refuse(r)
  <2>1. RequestsOK'
    BY <1>7, ReleaseType DEF Refuse
  <2> QED BY <1>7, <2>1 DEF Refuse, rows, games, gr, RowsOK, GamesOK, GradersOK
<1> QED BY <1>1, <1>2, <1>3, <1>4, <1>5, <1>6, <1>7, Request(r) DEF Request

\* A grading pass's step keeps the types.
LEMMA TypeGrader ==
    ASSUME TypeOK, NEW g \in Graders, GradeStep(g) \/ Abort(g)
    PROVE  TypeOK'
<1> USE DEF TypeOK
<1>1. CASE ReadPending(g)
  <2>1. GradersOK'
    BY <1>1 DEF ReadPending, GradersOK, Steps, GradePick, PendingFinal, Picked, Graded
  <2> QED BY <1>1, <2>1 DEF ReadPending, rows, games, RowsOK, GamesOK, RequestsOK
<1>2. CASE GradeProps(g)
  <2>1. GradersOK'
    <3>1. PICK p \in PickIds : GradeProp(g, p)
      BY <1>2 DEF GradeProps
    <3>2. pick[p].game \in Games
      BY DEF RowsOK, PickRow
    <3>3. verdict' \in [Graders -> [PickIds -> Graded \cup {Pending}]]
      BY <3>1, <3>2 DEF GradeProp, GradersOK, GamesOK
    <3> QED BY <3>1, <3>3 DEF GradeProp, GradersOK
  <2>2. RequestsOK'
    BY <1>2 DEF GradeProps, GradeProp, Flush, RequestsOK
  <2> QED BY <1>2, <2>1, <2>2 DEF GradeProps, GradeProp, rows, games, RowsOK, GamesOK
<1>3. CASE PushUngradeable(g)
  <2>1. GradersOK'
    BY <1>3 DEF PushUngradeable, GradersOK, Steps, Graded
  <2>2. RequestsOK'
    BY <1>3 DEF PushUngradeable, Flush, RequestsOK
  <2> QED BY <1>3, <2>1, <2>2 DEF PushUngradeable, rows, games, RowsOK, GamesOK
<1>4. CASE CommitGrades(g)
  <2>1. ASSUME NEW p \in PickIds, verdict[g][p] # Pending
        PROVE  GradedRow(pick[p], verdict[g][p]) \in PickRow
    <3>1. pick[p] \in PickRow /\ verdict[g][p] \in Results
      BY <2>1 DEF RowsOK, GradersOK, Results
    <3>2. BackFor(verdict[g][p], pick[p].stake, pick[p].dec) \in Nat
      BY <3>1, BackType DEF PickRow
    <3> QED BY <3>1, <3>2 DEF GradedRow, PickRow
  <2>2. RowsOK'
    BY <1>4, <2>1 DEF CommitGrades, RowsOK
  <2>3. GradersOK'
    BY <1>4 DEF CommitGrades, GradersOK, Steps, Keys, NoVerdict
  <2>4. RequestsOK'
    BY <1>4 DEF CommitGrades, RequestsOK
  <2> QED BY <1>4, <2>2, <2>3, <2>4 DEF CommitGrades, games, GamesOK
<1>5. CASE ReadParlays(g)
  <2>1. GradersOK'
    BY <1>5 DEF ReadParlays, GradersOK, Steps, Parlayed
  <2> QED BY <1>5, <2>1 DEF ReadParlays, rows, games, RowsOK, GamesOK, RequestsOK
<1>11. CASE ReadLegRows(g)
  <2>1. PICK q \in ParlayIds : ReadLegsOf(g, q)
    BY <1>11 DEF ReadLegRows
  <2>2. GradersOK'
    BY <2>1 DEF ReadLegsOf, GradersOK, Steps, ParlayResult, Graded
  <2>3. RequestsOK'
    BY <2>1 DEF ReadLegsOf, Flush, RequestsOK
  <2> QED BY <2>1, <2>2, <2>3 DEF ReadLegsOf, rows, games, RowsOK, GamesOK
<1>6. CASE CommitParlays(g)
  <2>1. ASSUME NEW q \in ParlayIds, pverdict[g][q] # Pending
        PROVE  GradedRow(parlay[q], pverdict[g][q]) \in ParlayRow
    <3>1. parlay[q] \in ParlayRow /\ pverdict[g][q] \in Results
      BY <2>1 DEF RowsOK, GradersOK, Results
    <3>2. BackFor(pverdict[g][q], parlay[q].stake, parlay[q].dec) \in Nat
      BY <3>1, BackType DEF ParlayRow
    <3> QED BY <3>1, <3>2 DEF GradedRow, ParlayRow
  <2>2. RowsOK'
    BY <1>6, <2>1 DEF CommitParlays, RowsOK
  <2>3. GradersOK'
    BY <1>6 DEF CommitParlays, GradersOK, Steps, Keys, NoParlayVerdict
  <2>4. RequestsOK'
    BY <1>6 DEF CommitParlays, RequestsOK
  <2> QED BY <1>6, <2>2, <2>3, <2>4 DEF CommitParlays, games, GamesOK
<1>7. ASSUME NEW k \in Keys, CheckAnnounced(g, k) PROVE TypeOK'
  <2>1. GradersOK'
    <3>1. CASE feed[k] = {} /\ ResultOf(k) \in Graded
      <4>1. {<<k, ResultOf(k)>>} \in SUBSET (Keys \X Graded)
        BY <3>1
      <4>2. cur' = [cur EXCEPT ![g] = {<<k, ResultOf(k)>>}]
        BY <1>7, <3>1 DEF CheckAnnounced
      <4> QED BY <1>7, <3>1, <4>1, <4>2 DEF CheckAnnounced, GradersOK, Steps
    <3>2. CASE ~(feed[k] = {} /\ ResultOf(k) \in Graded)
      BY <1>7, <3>2 DEF CheckAnnounced, GradersOK
    <3> QED BY <3>1, <3>2
  <2> QED BY <1>7, <2>1 DEF CheckAnnounced, rows, games, RowsOK, GamesOK, RequestsOK
<1>8. CASE InsertEvent(g)
  <2>1. PICK k \in Keys, result \in Graded :
          feed' = [feed EXCEPT ![k] = IF FeedTakes(k) THEN @ \cup {<<g, result>>} ELSE @]
    BY <1>8 DEF InsertEvent
  <2>2. RowsOK'
    BY <1>8, <2>1 DEF InsertEvent, RowsOK
  <2>3. GradersOK'
    BY <1>8 DEF InsertEvent, GradersOK, Steps
  <2> QED BY <1>8, <2>2, <2>3 DEF InsertEvent, games, GamesOK, RequestsOK
<1>9. CASE EndPass(g)
  BY <1>9 DEF EndPass, rows, games, RowsOK, GamesOK, RequestsOK, GradersOK, Steps
<1>10. CASE Abort(g)
  <2>1. GradersOK'
    BY <1>10 DEF Abort, GradersOK, Steps, NoVerdict, NoParlayVerdict
  <2>2. RequestsOK'
    BY <1>10 DEF Abort, RequestsOK
  <2> QED BY <1>10, <2>1, <2>2 DEF Abort, rows, games, RowsOK, GamesOK
<1> QED BY <1>1, <1>2, <1>3, <1>4, <1>5, <1>6, <1>7, <1>8, <1>9, <1>10, <1>11 DEF GradeStep

\* Every step keeps the types.
LEMMA TypeNext == TypeOK /\ [Next]_vars => TypeOK'
<1> SUFFICES ASSUME TypeOK, [Next]_vars PROVE TypeOK'
  OBVIOUS
<1>1. CASE UNCHANGED vars
  BY <1>1 DEF vars, TypeOK, RowsOK, GamesOK, RequestsOK, GradersOK
<1>2. CASE Next
  BY <1>2, TypeGame, TypeNextDay, TypeRequest, TypeGrader DEF Next
<1> QED BY <1>1, <1>2

\* Every row and every variable keeps its type.
THEOREM TypeCorrect == Spec => []TypeOK
BY TypeInit, TypeNext, PTL DEF Spec
-----------------------------------------------------------------------------
(* What a request's steps do *)

\* A request changes no game, nothing of a grading pass, and never the feed.
LEMMA RequestFrame ==
    ASSUME NEW r \in Requests, Request(r)
    PROVE  UNCHANGED <<feed, games, gr, aborts>>
<1>1. ASSUME NEW u \in Users, ReadLegs(r, u) PROVE UNCHANGED <<feed, games, gr, aborts>>
  BY <1>1, Zenon DEF ReadLegs, rows
<1>2. ASSUME NEW u \in Users, NEW op \in {"place", "parlay", "cashout"}, HoldBankroll(r, u, op)
      PROVE  UNCHANGED <<feed, games, gr, aborts>>
  BY <1>2, Zenon DEF HoldBankroll, rows
<1>3. CASE ReadAvailable(r)
  BY <1>3, Zenon DEF ReadAvailable, rows
<1>4. CASE Place(r)
  <2>1. ASSUME NEW p \in PickIds, NEW g \in Games, NEW side \in Sides,
               NEW stake \in Stakes, NEW dec \in Decimals, PlacePick(r, p, g, side, stake, dec)
        PROVE  UNCHANGED <<feed, games, gr, aborts>>
    BY <2>1, Zenon DEF PlacePick
  <2>2. ASSUME NEW q \in ParlayIds, NEW leg, NEW stake \in Stakes, NEW dec \in Decimals,
               PlaceParlay(r, q, leg, stake, dec)
        PROVE  UNCHANGED <<feed, games, gr, aborts>>
    BY <2>2, Zenon DEF PlaceParlay
  <2> QED BY <1>4, <2>1, <2>2, Zenon DEF Place
<1>5. ASSUME NEW k \in Keys, LoadBet(r, k) PROVE UNCHANGED <<feed, games, gr, aborts>>
  BY <1>5, Zenon DEF LoadBet, rows
<1>6. ASSUME NEW offer \in 1..MaxOffer, CashOut(r, offer)
      PROVE  UNCHANGED <<feed, games, gr, aborts>>
  BY <1>6, Zenon DEF CashOut
<1>7. CASE Refuse(r)
  BY <1>7, Zenon DEF Refuse, rows
<1> QED BY <1>1, <1>2, <1>3, <1>4, <1>5, <1>6, <1>7, Request(r), Zenon DEF Request

\* Placing, refusing and cashing out end the request.
LEMMA EndingSteps ==
    ASSUME NEW r \in Requests,
           Refuse(r) \/ Place(r) \/ (\E offer \in 1..MaxOffer : CashOut(r, offer))
    PROVE  Release(r)
<1>1. CASE Refuse(r)
  BY <1>1, Zenon DEF Refuse
<1>2. CASE Place(r)
  <2>1. ASSUME NEW p \in PickIds, NEW g \in Games, NEW side \in Sides,
               NEW stake \in Stakes, NEW dec \in Decimals, PlacePick(r, p, g, side, stake, dec)
        PROVE  Release(r)
    BY <2>1, Zenon DEF PlacePick
  <2>2. ASSUME NEW q \in ParlayIds, NEW leg, NEW stake \in Stakes, NEW dec \in Decimals,
               PlaceParlay(r, q, leg, stake, dec)
        PROVE  Release(r)
    BY <2>2, Zenon DEF PlaceParlay
  <2> QED BY <1>2, <2>1, <2>2, Zenon DEF Place
<1>3. ASSUME NEW offer \in 1..MaxOffer, CashOut(r, offer) PROVE Release(r)
  BY <1>3, Zenon DEF CashOut
<1> QED BY <1>1, <1>2, <1>3

\* An ended request is idle.
LEMMA ReleasePc ==
    ASSUME TypeOK, NEW r \in Requests, Release(r)
    PROVE  rq'[r].pc = "idle"
<1>1. rq'[r] = Idle
  BY Zenon DEF Release, TypeOK, RequestsOK
<1> QED BY <1>1 DEF Idle

\* A request that took the lock is at its operation.
LEMMA HoldPc ==
    ASSUME TypeOK, NEW r \in Requests, NEW u \in Users, NEW op, HoldBankroll(r, u, op)
    PROVE  rq'[r].pc = op
<1>1. rq[r] = [pc |-> rq[r].pc, user |-> rq[r].user, saw |-> rq[r].saw,
               seen |-> rq[r].seen, key |-> rq[r].key]
  BY DEF TypeOK, RequestsOK, RequestState
<1>2. rq'[r] = [rq[r] EXCEPT !.pc = op, !.user = u]
  BY DEF HoldBankroll, TypeOK, RequestsOK, RequestState
<1> QED BY <1>1, <1>2

\* A request that read a parlay's legs holds no lock yet.
LEMMA LegsPc ==
    ASSUME TypeOK, NEW r \in Requests, NEW u \in Users, ReadLegs(r, u)
    PROVE  rq'[r].pc = "legs"
<1>1. rq'[r] = [Idle EXCEPT !.pc = "legs", !.user = u,
                            !.saw = {g \in Games : status[g] = "scheduled"}]
  BY Zenon DEF ReadLegs, TypeOK, RequestsOK
<1> QED BY <1>1 DEF Idle


-----------------------------------------------------------------------------
(* What steps leave alone *)

\* A decided game stays decided.
LEMMA DecidedStable ==
    ASSUME TypeOK, [Next]_vars, NEW g \in Games, Decided(g)
    PROVE  Decided(g)'
<1>1. CASE UNCHANGED <<status, day>>
  BY <1>1 DEF Decided
<1>2. ASSUME NEW h \in Games, Begin(h) \/ Cancel(h) \/ Restore(h) PROVE Decided(g)'
  BY <1>2 DEF Begin, Cancel, Restore, GameStep, Decided, TypeOK, GamesOK
<1>3. ASSUME NEW h \in Games, NEW s \in Scores, Finish(h, s) PROVE Decided(g)'
  BY <1>3 DEF Finish, GameStep, Decided, TypeOK, GamesOK
<1>4. CASE NextDay
  BY <1>4, DayAssumption DEF NextDay, Decided, TypeOK, GamesOK
<1>5. ASSUME NEW h \in Games, Game(h) PROVE Decided(g)'
  <2>1. CASE KickOff(h)
    BY <2>1, <1>1 DEF KickOff
  <2>2. ASSUME NEW s \in Scores, CorrectScore(h, s) PROVE Decided(g)'
    BY <2>2, <1>1 DEF CorrectScore, GameStep
  <2>3. ASSUME NEW r \in Graded, BoxScore(h, r) PROVE Decided(g)'
    BY <2>3, <1>1 DEF BoxScore, GameStep
  <2> QED BY <1>5, <1>2, <1>3, <2>1, <2>2, <2>3 DEF Game
<1>6. ASSUME NEW r \in Requests, Request(r) PROVE UNCHANGED games
  BY <1>6, RequestFrame
<1>7. ASSUME NEW h \in Graders, GradeStep(h) \/ Abort(h) PROVE UNCHANGED games
  BY <1>7 DEF GradeStep, ReadPending, GradeProps, GradeProp, PushUngradeable, CommitGrades,
              ReadParlays, ReadLegRows, ReadLegsOf, CommitParlays, CheckAnnounced, InsertEvent,
              EndPass, Abort
<1> QED BY <1>1, <1>4, <1>5, <1>6, <1>7, SMTT(60) DEF Next, vars, games

\* A pass that has nothing to write, or may not, changes no bet.
LEMMA LockedOut ==
    ASSUME TypeOK, NEW r \in Requests, lock = r,
           NEW g \in Graders, GradeStep(g) \/ Abort(g)
    PROVE  /\ UNCHANGED <<pick, parlay, games, rq>>
           /\ lock' = lock
<1>1. r # g /\ r # Free
  BY IdsAssumption DEF Free
<1>2. CASE CommitGrades(g)
  <2>1. ~Touched(g)
    BY <1>1, <1>2 DEF CommitGrades, LockFor
  <2>2. \A p \in PickIds : verdict[g][p] = Pending
    BY <2>1 DEF Touched
  <2>3. pick' = [p \in PickIds |-> pick[p]]
    BY <1>2, <2>2 DEF CommitGrades
  <2> QED BY <1>1, <1>2, <2>3 DEF CommitGrades, TypeOK, RowsOK
<1>3. CASE CommitParlays(g)
  <2>1. \A q \in ParlayIds : pverdict[g][q] = Pending
    BY <1>1, <1>3 DEF CommitParlays, LockFor
  <2>2. parlay' = [q \in ParlayIds |-> parlay[q]]
    BY <1>3, <2>1 DEF CommitParlays
  <2> QED BY <1>1, <1>3, <2>2 DEF CommitParlays, TypeOK, RowsOK
<1>4. CASE GradeProps(g) \/ PushUngradeable(g) \/ ReadLegRows(g)
  BY <1>4, <1>1 DEF GradeProps, GradeProp, PushUngradeable, ReadLegRows, ReadLegsOf,
                    Flush, LockFor, rows
<1>5. CASE Abort(g)
  BY <1>5, <1>1 DEF Abort, rows
<1>6. CASE InsertEvent(g)
  BY <1>6, <1>1 DEF InsertEvent
<1>7. CASE ReadPending(g) \/ ReadParlays(g) \/ EndPass(g) \/ \E k \in Keys : CheckAnnounced(g, k)
  BY <1>7 DEF ReadPending, ReadParlays, CheckAnnounced, EndPass, rows
<1> QED BY <1>2, <1>3, <1>4, <1>5, <1>6, <1>7 DEF GradeStep

\* A request changes no other request's memory, and while another holds the
\* lock it changes no bet.
LEMMA OtherRequest ==
    ASSUME TypeOK, LockHeld, NEW r \in Requests, Request(r), NEW s \in Requests, s # r
    PROVE  /\ rq'[s] = rq[s]
           /\ lock = s => UNCHANGED <<pick, parlay, games, lock>>
<1>1. CASE rq[r].pc \in {"idle", "legs"} /\ \E u \in Users : ReadLegs(r, u)
  BY <1>1 DEF ReadLegs, rows, TypeOK, RequestsOK
<1>2. ASSUME NEW u \in Users, NEW op \in {"place", "parlay", "cashout"}, HoldBankroll(r, u, op)
      PROVE  rq'[s] = rq[s] /\ lock # s
  BY <1>2, IdsAssumption DEF HoldBankroll, TypeOK, RequestsOK, Free
<1>3. CASE Refuse(r)
  BY <1>3 DEF Refuse, Release, rows, TypeOK, RequestsOK, LockHeld
<1>4. CASE ReadAvailable(r)
  BY <1>4 DEF ReadAvailable, TypeOK, RequestsOK, LockHeld
<1>5. ASSUME NEW k \in Keys, LoadBet(r, k) PROVE rq'[s] = rq[s] /\ lock # s
  BY <1>5 DEF LoadBet, TypeOK, RequestsOK, LockHeld
<1>6. ASSUME NEW offer \in 1..MaxOffer, CashOut(r, offer) PROVE rq'[s] = rq[s] /\ lock # s
  BY <1>6 DEF CashOut, Release, TypeOK, RequestsOK, LockHeld
<1>7. ASSUME NEW p \in PickIds, NEW g \in Games, NEW side \in Sides, NEW stake \in Stakes,
             NEW dec \in Decimals, PlacePick(r, p, g, side, stake, dec)
      PROVE  rq'[s] = rq[s] /\ lock # s
  BY <1>7 DEF PlacePick, Release, TypeOK, RequestsOK, LockHeld
<1>8. ASSUME NEW q \in ParlayIds, NEW S \in SUBSET PickIds, NEW leg \in [S -> Legs],
             NEW stake \in Stakes, NEW dec \in Decimals, PlaceParlay(r, q, leg, stake, dec)
      PROVE  rq'[s] = rq[s] /\ lock # s
  BY <1>8 DEF PlaceParlay, Release, TypeOK, RequestsOK, LockHeld
<1>9. CASE Place(r)
  BY <1>9, <1>7, <1>8 DEF Place
<1>10. \A u \in Users : ReadLegs(r, u) => rq[r].pc \in {"idle", "legs"}
  BY DEF ReadLegs
<1> QED BY <1>1, <1>2, <1>3, <1>4, <1>5, <1>6, <1>9, <1>10 DEF Request

\* A game's or the day's step changes no bet and nothing in memory, and only a
\* kickoff is possible while a request holds the lock.
LEMMA GameFrame ==
    ASSUME NextDay \/ \E h \in Games : Game(h)
    PROVE  /\ UNCHANGED <<pick, parlay, lock, rq, gpc, verdict, props, unread, pverdict>>
           /\ lock # Free => UNCHANGED <<status, day>>
<1>1. CASE NextDay
  BY <1>1 DEF NextDay, AtRest, rows, gr
<1>2. ASSUME NEW h \in Games, Game(h)
      PROVE  /\ UNCHANGED <<pick, parlay, lock, rq, gpc, verdict, props, unread, pverdict>>
             /\ lock # Free => UNCHANGED <<status, day>>
  BY <1>2 DEF Game, KickOff, Begin, Cancel, Restore, Finish, CorrectScore, BoxScore,
              GameStep, rows, gr
<1> QED BY <1>1, <1>2

-----------------------------------------------------------------------------
(* The invariant that holds whatever passes run *)

LEMMA LockHeldNext ==
    ASSUME TypeOK, LockHeld, [Next]_vars
    PROVE  LockHeld'
<1> SUFFICES ASSUME NEW s \in Requests, rq'[s].pc \notin {"idle", "legs"}
             PROVE  lock' = s
  BY DEF LockHeld
<1>0. s # Free
  BY IdsAssumption DEF Free
<1>1. CASE rq'[s] = rq[s] /\ lock' = lock
  BY <1>1 DEF LockHeld
<1>2. ASSUME NEW g \in Graders, GradeStep(g) \/ Abort(g) PROVE lock' = s
  <2>1. rq' = rq
    BY <1>2 DEF GradeStep, ReadPending, GradeProps, GradeProp, PushUngradeable, CommitGrades,
                ReadParlays, ReadLegRows, ReadLegsOf, CommitParlays, CheckAnnounced,
                InsertEvent, EndPass, Abort
  <2>2. lock = s
    BY <2>1 DEF LockHeld
  <2> QED BY <1>2, <2>2, LockedOut
<1>3. ASSUME NEW r \in Requests, Request(r), r # s PROVE lock' = s
  BY <1>3, OtherRequest DEF LockHeld
<1>4. ASSUME Request(s) PROVE lock' = s
  <2>1. ASSUME NEW u \in Users, ReadLegs(s, u) PROVE FALSE
    BY <2>1, LegsPc
  <2>2. ASSUME NEW u \in Users, NEW op \in {"place", "parlay", "cashout"}, HoldBankroll(s, u, op)
        PROVE  lock' = s
    BY <2>2 DEF HoldBankroll
  <2>3. ASSUME ReadAvailable(s) \/ \E k \in Keys : LoadBet(s, k)
        PROVE  lock' = s
    BY <2>3 DEF ReadAvailable, LoadBet, LockHeld
  <2>4. ASSUME Release(s) PROVE FALSE
    BY <2>4, ReleasePc
  <2>5. Refuse(s) \/ Place(s) \/ (\E offer \in 1..MaxOffer : CashOut(s, offer)) => Release(s)
    BY EndingSteps
  <2> QED BY <1>4, <2>1, <2>2, <2>3, <2>4, <2>5 DEF Request
<1>5. CASE NextDay \/ \E h \in Games : Game(h)
  BY <1>5, <1>1, GameFrame
<1>6. CASE UNCHANGED vars
  BY <1>6, <1>1 DEF vars
<1> QED BY <1>2, <1>3, <1>4, <1>5, <1>6 DEF Next

\* Every game dated before today has started.
LEMMA DayStartsNext ==
    ASSUME TypeOK, DayStarts, [Next]_vars
    PROVE  DayStarts'
<1>1. CASE NextDay
  BY <1>1, DayAssumption DEF NextDay, DayStarts, TypeOK, GamesOK
<1>2. CASE day' = day /\ started \subseteq started'
  BY <1>2 DEF DayStarts
<1>3. ASSUME NEW h \in Games, Game(h) PROVE day' = day /\ started \subseteq started'
  BY <1>3 DEF Game, KickOff, Begin, Cancel, Restore, Finish, CorrectScore, BoxScore, GameStep
<1>4. ASSUME NEW r \in Requests, Request(r) PROVE UNCHANGED games
  BY <1>4, RequestFrame
<1>5. ASSUME NEW h \in Graders, GradeStep(h) \/ Abort(h) PROVE UNCHANGED games
  BY <1>5 DEF GradeStep, ReadPending, GradeProps, GradeProp, PushUngradeable, CommitGrades,
              ReadParlays, ReadLegRows, ReadLegsOf, CommitParlays, CheckAnnounced, InsertEvent,
              EndPass, Abort
<1> QED BY <1>1, <1>2, <1>3, <1>4, <1>5 DEF Next, vars, games

\* A request gets to its offer by loading the bet.
LEMMA OffersAreLoaded ==
    ASSUME TypeOK, NEW s \in Requests, Request(s), rq'[s].pc = "offer"
    PROVE  \E k \in Keys : LoadBet(s, k)
<1>1. ASSUME NEW u \in Users, ReadLegs(s, u) PROVE FALSE
  BY <1>1, LegsPc
<1>2. ASSUME NEW u \in Users, NEW op \in {"place", "parlay", "cashout"}, HoldBankroll(s, u, op)
      PROVE  FALSE
  BY <1>2, HoldPc
<1>3. ASSUME ReadAvailable(s) PROVE FALSE
  <2>1. rq'[s].pc \in {"checked", "checked parlay"}
    BY <1>3 DEF ReadAvailable, TypeOK, RequestsOK, RequestState
  <2> QED BY <2>1
<1>4. ASSUME Release(s) PROVE FALSE
  BY <1>4, ReleasePc
<1>5. Refuse(s) \/ Place(s) \/ (\E offer \in 1..MaxOffer : CashOut(s, offer)) => Release(s)
  BY EndingSteps
<1> QED BY <1>1, <1>2, <1>3, <1>4, <1>5 DEF Request

\* What OfferOpen says of one request.
LEMMA OfferOpenNext ==
    ASSUME TypeOK, LockHeld, DayStarts, OfferOpen, [Next]_vars
    PROVE  OfferOpen'
<1> SUFFICES ASSUME NEW s \in Requests, rq'[s].pc = "offer"
             PROVE  /\ Owns(rq[s].user, rq[s].key)'
                    /\ ResultOf(rq[s].key)' = Pending
                    /\ \A g \in GamesOf(rq[s].key)' : ~Decided(g)'
  BY Zenon DEF OfferOpen
<1>0. s # Free
  BY IdsAssumption DEF Free
<1>1. ASSUME rq'[s] = rq[s], UNCHANGED <<pick, parlay, status, day>>
      PROVE  /\ Owns(rq[s].user, rq[s].key)'
             /\ ResultOf(rq[s].key)' = Pending
             /\ \A g \in GamesOf(rq[s].key)' : ~Decided(g)'
  BY <1>1 DEF OfferOpen, Owns, ResultOf, GamesOf, Decided, Picked, Parlayed, LegsOf
<1>2. ASSUME rq'[s] = rq[s] PROVE lock = s
  BY <1>2 DEF LockHeld
<1>3. CASE NextDay \/ \E h \in Games : Game(h)
  BY <1>0, <1>1, <1>2, <1>3, GameFrame
<1>4. CASE \E g \in Graders : GradeStep(g) \/ Abort(g)
  <2>1. rq' = rq
    BY <1>4 DEF GradeStep, ReadPending, GradeProps, GradeProp, PushUngradeable, CommitGrades,
                ReadParlays, ReadLegRows, ReadLegsOf, CommitParlays, CheckAnnounced,
                InsertEvent, EndPass, Abort
  <2> QED BY <1>1, <1>2, <1>4, <2>1, LockedOut DEF games
<1>5. ASSUME NEW r \in Requests, Request(r), r # s
      PROVE  rq'[s] = rq[s] /\ UNCHANGED <<pick, parlay, status, day>>
  BY <1>2, <1>5, OtherRequest DEF games
<1>6. CASE Request(s)
  <2>1. PICK k \in Keys : LoadBet(s, k)
    BY <1>6, OffersAreLoaded
  <2>2. rq'[s].key = k /\ rq'[s].user = rq[s].user
    BY <2>1 DEF LoadBet, TypeOK, RequestsOK, RequestState
  <2>3. UNCHANGED <<pick, parlay, status, day>>
    BY <2>1 DEF LoadBet, rows, games
  <2>4. \A g \in GamesOf(k) : g \in Games
    BY DEF GamesOf, LegsOf, Picked, TypeOK, RowsOK, PickRow, Keys
  <2>5. \A g \in GamesOf(k) : ~Decided(g)
    BY <2>1, <2>4, DayAssumption
       DEF LoadBet, EveryLegOpen, OpenForBetting, Decided, DayStarts, TypeOK, GamesOK
  <2>6. Owns(rq[s].user, k) /\ ResultOf(k) = Pending
    BY <2>1 DEF LoadBet
  <2> QED BY <2>2, <2>3, <2>5, <2>6
          DEF Owns, ResultOf, GamesOf, Decided, Picked, Parlayed, LegsOf
<1>7. CASE UNCHANGED vars
  BY <1>1, <1>7 DEF vars
<1> QED BY <1>1, <1>3, <1>4, <1>5, <1>6, <1>7 DEF Next

\* Grading a row sets its result and what it returns, and nothing else.
LEMMA GradedRowFields ==
    /\ \A row \in PickRow, result \in Graded :
          LET new == GradedRow(row, result) IN
          /\ new.user = row.user /\ new.game = row.game /\ new.stake = row.stake
          /\ new.parlay = row.parlay /\ new.result = result /\ new.back \in Nat
    /\ \A row \in ParlayRow, result \in Graded :
          LET new == GradedRow(row, result) IN
          /\ new.user = row.user /\ new.stake = row.stake
          /\ new.result = result /\ new.back \in Nat
<1>1. ASSUME NEW row \in PickRow, NEW result \in Graded
      PROVE  LET new == GradedRow(row, result) IN
             /\ new.user = row.user /\ new.game = row.game /\ new.stake = row.stake
             /\ new.parlay = row.parlay /\ new.result = result /\ new.back \in Nat
  <2>1. BackFor(result, row.stake, row.dec) \in Nat
    BY BackType DEF PickRow
  <2> QED BY <2>1 DEF GradedRow, PickRow
<1>2. ASSUME NEW row \in ParlayRow, NEW result \in Graded
      PROVE  LET new == GradedRow(row, result) IN
             /\ new.user = row.user /\ new.stake = row.stake
             /\ new.result = result /\ new.back \in Nat
  <2>1. BackFor(result, row.stake, row.dec) \in Nat
    BY BackType DEF ParlayRow
  <2> QED BY <2>1 DEF GradedRow, ParlayRow
<1> QED BY <1>1, <1>2

\* Committing its verdicts is all a pass writes to the bets.
LEMMA CommittedRows ==
    ASSUME TypeOK, NEW g \in Graders
    PROVE  /\ CommitGrades(g) =>
                /\ parlay' = parlay
                /\ \A p \in PickIds :
                      IF verdict[g][p] = Pending THEN pick'[p] = pick[p]
                      ELSE /\ verdict[g][p] \in Graded /\ pick'[p].result = verdict[g][p]
                           /\ pick'[p].user = pick[p].user /\ pick'[p].game = pick[p].game
                           /\ pick'[p].stake = pick[p].stake
                           /\ pick'[p].parlay = pick[p].parlay /\ pick'[p].back \in Nat
           /\ CommitParlays(g) =>
                /\ pick' = pick
                /\ \A q \in ParlayIds :
                      IF pverdict[g][q] = Pending THEN parlay'[q] = parlay[q]
                      ELSE /\ pverdict[g][q] \in Graded /\ parlay'[q].result = pverdict[g][q]
                           /\ parlay'[q].user = parlay[q].user
                           /\ parlay'[q].stake = parlay[q].stake /\ parlay'[q].back \in Nat
<1>1. ASSUME NEW p \in PickIds PROVE pick[p] \in PickRow /\ verdict[g][p] \in Graded \cup {Pending}
  BY DEF TypeOK, RowsOK, GradersOK
<1>2. ASSUME NEW q \in ParlayIds
      PROVE  parlay[q] \in ParlayRow /\ pverdict[g][q] \in Graded \cup {Pending}
  BY DEF TypeOK, RowsOK, GradersOK
<1>3. ASSUME CommitGrades(g), NEW p \in PickIds
      PROVE  pick'[p] = IF verdict[g][p] = Pending THEN pick[p] ELSE GradedRow(pick[p], verdict[g][p])
  BY <1>3 DEF CommitGrades
<1>4. ASSUME CommitParlays(g), NEW q \in ParlayIds
      PROVE  parlay'[q] = IF pverdict[g][q] = Pending THEN parlay[q]
                          ELSE GradedRow(parlay[q], pverdict[g][q])
  BY <1>4 DEF CommitParlays
<1>5. (CommitGrades(g) => parlay' = parlay) /\ (CommitParlays(g) => pick' = pick)
  BY DEF CommitGrades, CommitParlays
<1> QED BY <1>1, <1>2, <1>3, <1>4, <1>5, GradedRowFields

\* Placing bets changes no row that is there.
LEMMA PlacedRows ==
    ASSUME TypeOK, NEW r \in Requests, Place(r)
    PROVE  /\ \A p \in Picked : pick'[p] = pick[p]
           /\ \A q \in Parlayed : parlay'[q] = parlay[q]
           /\ \A p \in PickIds : pick'[p] # pick[p] => pick'[p].result = Pending /\ pick'[p].back = 0
           /\ \A q \in ParlayIds :
                 parlay'[q] # parlay[q] => parlay'[q].result = Pending /\ parlay'[q].back = 0
           /\ UNCHANGED <<games, gr>>
<1>1. ASSUME NEW p \in PickIds, NEW g \in Games, NEW side \in Sides, NEW stake \in Stakes,
             NEW dec \in Decimals, PlacePick(r, p, g, side, stake, dec)
      PROVE  /\ \A x \in PickIds \ {p} : pick'[x] = pick[x]
             /\ p \notin Picked /\ parlay' = parlay
             /\ pick'[p].result = Pending /\ pick'[p].back = 0
             /\ UNCHANGED <<games, gr>>
  BY <1>1 DEF PlacePick, NextPickIds, TypeOK, RowsOK
<1>2. ASSUME NEW q \in ParlayIds, NEW S \in SUBSET PickIds, NEW leg \in [S -> Legs],
             NEW stake \in Stakes, NEW dec \in Decimals, PlaceParlay(r, q, leg, stake, dec)
      PROVE  /\ \A x \in PickIds \ S : pick'[x] = pick[x]
             /\ \A x \in S : pick'[x].result = Pending /\ pick'[x].back = 0
             /\ S \cap Picked = {} /\ q \notin Parlayed
             /\ \A x \in ParlayIds \ {q} : parlay'[x] = parlay[x]
             /\ parlay'[q].result = Pending /\ parlay'[q].back = 0
             /\ UNCHANGED <<games, gr>>
  BY <1>2 DEF PlaceParlay, NextPickIds, TypeOK, RowsOK
<1>3. Picked \subseteq PickIds /\ Parlayed \subseteq ParlayIds
  BY DEF Picked, Parlayed
<1> QED BY <1>1, <1>2, <1>3 DEF Place

\* Cashing out settles one bet.
LEMMA CashedRows ==
    ASSUME TypeOK, NEW r \in Requests, NEW offer \in 1..MaxOffer, CashOut(r, offer)
    PROVE  LET k == rq[r].key IN
           /\ k[1] = "straight" =>
                /\ k[2] \in PickIds /\ parlay' = parlay
                /\ \A p \in PickIds \ {k[2]} : pick'[p] = pick[p]
                /\ pick'[k[2]].user = pick[k[2]].user /\ pick'[k[2]].game = pick[k[2]].game
                /\ pick'[k[2]].stake = pick[k[2]].stake
                /\ pick'[k[2]].parlay = pick[k[2]].parlay
                /\ pick'[k[2]].result = "cashed_out" /\ pick'[k[2]].back = offer
           /\ k[1] # "straight" =>
                /\ k[1] = "parlay" /\ k[2] \in ParlayIds /\ pick' = pick
                /\ \A q \in ParlayIds \ {k[2]} : parlay'[q] = parlay[q]
                /\ parlay'[k[2]].user = parlay[k[2]].user
                /\ parlay'[k[2]].stake = parlay[k[2]].stake
                /\ parlay'[k[2]].result = "cashed_out" /\ parlay'[k[2]].back = offer
           /\ UNCHANGED <<games, gr>>
<1> DEFINE k == rq[r].key
<1>1. k \in Keys
  BY DEF TypeOK, RequestsOK, RequestState
<1>2. CASE k[1] = "straight"
  <2>1. k[2] \in PickIds /\ pick[k[2]] \in PickRow
    BY <1>1, <1>2, Ids DEF TypeOK, RowsOK
  <2>2. pick' = [pick EXCEPT ![k[2]].result = "cashed_out", ![k[2]].back = offer]
    BY <1>2 DEF CashOut
  <2>3. UNCHANGED <<parlay, games, gr>>
    BY <1>2 DEF CashOut
  <2> HIDE DEF k
  <2>4. pick'[k[2]] = [pick[k[2]] EXCEPT !.result = "cashed_out", !.back = offer]
    BY <2>1, <2>2 DEF TypeOK, RowsOK
  <2>5. \A p \in PickIds \ {k[2]} : pick'[p] = pick[p]
    BY <2>1, <2>2 DEF TypeOK, RowsOK
  <2> QED BY <1>2, <2>1, <2>3, <2>4, <2>5 DEF PickRow, k
<1>3. CASE k[1] # "straight"
  <2>1. k[1] = "parlay" /\ k[2] \in ParlayIds /\ parlay[k[2]] \in ParlayRow
    BY <1>1, <1>3, Ids DEF TypeOK, RowsOK
  <2>2. parlay' = [parlay EXCEPT ![k[2]].result = "cashed_out", ![k[2]].back = offer]
    BY <1>3 DEF CashOut
  <2>3. UNCHANGED <<pick, games, gr>>
    BY <1>3 DEF CashOut
  <2> HIDE DEF k
  <2>4. parlay'[k[2]] = [parlay[k[2]] EXCEPT !.result = "cashed_out", !.back = offer]
    BY <2>1, <2>2 DEF TypeOK, RowsOK
  <2>5. \A q \in ParlayIds \ {k[2]} : parlay'[q] = parlay[q]
    BY <2>1, <2>2 DEF TypeOK, RowsOK
  <2> QED BY <1>3, <2>1, <2>3, <2>4, <2>5 DEF ParlayRow, k
<1> QED BY <1>2, <1>3

\* A row once written keeps its player, game, stake, price and parlay, and
\* is never absent again.
LEMMA RowsStable ==
    ASSUME TypeOK, [Next]_vars
    PROVE  /\ \A p \in Picked :
                 /\ pick'[p].user = pick[p].user /\ pick'[p].game = pick[p].game
                 /\ pick'[p].stake = pick[p].stake /\ pick'[p].parlay = pick[p].parlay
                 /\ pick'[p].result # Absent
           /\ \A q \in Parlayed :
                 /\ parlay'[q].user = parlay[q].user /\ parlay'[q].stake = parlay[q].stake
                 /\ parlay'[q].result # Absent
<1> DEFINE Kept ==
           /\ \A p \in Picked :
                 /\ pick'[p].user = pick[p].user /\ pick'[p].game = pick[p].game
                 /\ pick'[p].stake = pick[p].stake /\ pick'[p].parlay = pick[p].parlay
                 /\ pick'[p].result # Absent
           /\ \A q \in Parlayed :
                 /\ parlay'[q].user = parlay[q].user /\ parlay'[q].stake = parlay[q].stake
                 /\ parlay'[q].result # Absent
<1>1. ASSUME UNCHANGED <<pick, parlay>> PROVE Kept
  BY <1>1 DEF Picked, Parlayed
<1>2. CASE NextDay \/ \E h \in Games : Game(h)
  BY <1>1, <1>2, GameFrame
<1>3. ASSUME NEW r \in Requests, Request(r) PROVE Kept
  <2>1. CASE Place(r)
    BY <2>1, PlacedRows DEF Picked, Parlayed
  <2>2. ASSUME NEW offer \in 1..MaxOffer, CashOut(r, offer) PROVE Kept
    <3>1. CASE rq[r].key[1] = "straight"
      BY <2>2, <3>1, CashedRows DEF Picked, Parlayed, TypeOK, RowsOK, PickRow, Absent
    <3>2. CASE rq[r].key[1] # "straight"
      BY <2>2, <3>2, CashedRows DEF Picked, Parlayed, TypeOK, RowsOK, ParlayRow, Absent
    <3> QED BY <3>1, <3>2
  <2>3. CASE \/ \E u \in Users : ReadLegs(r, u)
             \/ \E u \in Users, op \in {"place", "parlay", "cashout"} : HoldBankroll(r, u, op)
             \/ ReadAvailable(r) \/ (\E k \in Keys : LoadBet(r, k)) \/ Refuse(r)
    BY <2>3, <1>1 DEF ReadLegs, HoldBankroll, ReadAvailable, LoadBet, Refuse, rows
  <2> QED BY <1>3, <2>1, <2>2, <2>3 DEF Request
<1>4. ASSUME NEW g \in Graders, GradeStep(g) \/ Abort(g) PROVE Kept
  <2>1. CASE CommitGrades(g)
    BY <2>1, CommittedRows DEF Picked, Parlayed, Graded, Absent
  <2>2. CASE CommitParlays(g)
    BY <2>2, CommittedRows DEF Picked, Parlayed, Graded, Absent
  <2>3. CASE ~CommitGrades(g) /\ ~CommitParlays(g)
    BY <1>1, <1>4, <2>3
       DEF GradeStep, ReadPending, GradeProps, GradeProp, PushUngradeable, ReadParlays,
           ReadLegRows, ReadLegsOf, CheckAnnounced, InsertEvent, EndPass, Abort, rows
  <2> QED BY <2>1, <2>2, <2>3
<1>5. CASE UNCHANGED vars
  BY <1>1, <1>5 DEF vars
<1> QED BY <1>2, <1>3, <1>4, <1>5 DEF Next

\* Reading a parlay's legs writes no row, and settles in memory that parlay only.
LEMMA LegRowsRead ==
    ASSUME TypeOK, NEW g \in Graders, ReadLegRows(g)
    PROVE  /\ UNCHANGED <<pick, parlay, verdict, props>>
           /\ \A h \in Graders : unread'[h] \subseteq unread[h]
           /\ \A h \in Graders, q \in ParlayIds : pverdict'[h][q] # pverdict[h][q] =>
                 /\ q \in unread[h] /\ AllGraded(q)
                 /\ pverdict'[h][q] = ParlayResult({pick[p].result : p \in LegsOf(q)})
<1>1. PICK x \in ParlayIds : ReadLegsOf(g, x)
  BY DEF ReadLegRows
<1>2. /\ UNCHANGED <<pick, parlay, verdict, props>>
      /\ unread' = [unread EXCEPT ![g] = @ \ {x}] /\ x \in unread[g]
  BY <1>1 DEF ReadLegsOf, rows
<1> DEFINE outcome == ParlayResult({pick[p].result : p \in LegsOf(x)})
<1>3. IF AllGraded(x) THEN pverdict' = [pverdict EXCEPT ![g][x] = outcome]
                      ELSE pverdict' = pverdict
  BY <1>1 DEF ReadLegsOf
<1>4. ASSUME NEW h \in Graders, NEW q \in ParlayIds, pverdict'[h][q] # pverdict[h][q]
      PROVE  h = g /\ q = x /\ AllGraded(x) /\ pverdict'[g][x] = outcome
  <2> HIDE DEF outcome
  <2> QED BY <1>3, <1>4 DEF TypeOK, GradersOK
<1>5. \A h \in Graders : unread'[h] \subseteq unread[h]
  BY <1>2 DEF TypeOK, GradersOK
<1> QED BY <1>2, <1>4, <1>5

\* Steps that write no row of bets, and no verdict.
Quiet == UNCHANGED <<pick, parlay, verdict, props, unread, pverdict>>

\* Any other step places, cashes out, or is a pass's.
LEMMA QuietSteps ==
    ASSUME [Next]_vars
    PROVE  \/ Quiet
           \/ \E r \in Requests : Place(r) \/ \E offer \in 1..MaxOffer : CashOut(r, offer)
           \/ \E g \in Graders :
                 \/ ReadPending(g) \/ GradeProps(g) \/ PushUngradeable(g) \/ CommitGrades(g)
                 \/ ReadParlays(g) \/ ReadLegRows(g) \/ CommitParlays(g) \/ Abort(g)
<1>1. CASE NextDay \/ \E h \in Games : Game(h)
  BY <1>1, GameFrame DEF Quiet
<1>2. ASSUME NEW r \in Requests, Request(r), ~Place(r),
             ~ \E offer \in 1..MaxOffer : CashOut(r, offer)
      PROVE  Quiet
  <2>1. UNCHANGED gr
    BY <1>2, RequestFrame
  <2>2. UNCHANGED rows
    BY <1>2, Zenon DEF Request, ReadLegs, HoldBankroll, ReadAvailable, LoadBet, Refuse
  <2> QED BY <2>1, <2>2 DEF rows, gr, Quiet
<1>3. ASSUME NEW g \in Graders,
             (\E k \in Keys : CheckAnnounced(g, k)) \/ InsertEvent(g) \/ EndPass(g)
      PROVE  Quiet
  BY <1>3 DEF CheckAnnounced, InsertEvent, EndPass, rows, Quiet
<1>4. CASE UNCHANGED vars
  BY <1>4 DEF vars, Quiet
<1> QED BY <1>1, <1>2, <1>3, <1>4 DEF Next, GradeStep

\* What can be settled can still be, unless it is being cashed out.
LEMMA SettleableStable ==
    ASSUME TypeOK, [Next]_vars, NEW p \in PickIds, Settleable(p),
           pick'[p].result # "cashed_out"
    PROVE  Settleable(p)'
<1>1. p \in Picked /\ pick[p].game \in Games
  BY DEF Settleable, Picked, TypeOK, RowsOK, PickRow
<1>2. Decided(pick[p].game)'
  BY <1>1, DecidedStable, RowsStable DEF Settleable, Decided
<1> QED BY <1>1, <1>2, RowsStable DEF Settleable

\* A cash out is of one bet, on undecided games.
LEMMA CashOutOpen ==
    ASSUME TypeOK, OfferOpen, NEW r \in Requests, NEW offer \in 1..MaxOffer, CashOut(r, offer)
    PROVE  LET k == rq[r].key IN
           /\ k[1] = "straight" =>
                /\ ~Decided(pick[k[2]].game) /\ pick[k[2]].result = Pending
                /\ pick[k[2]].parlay = NoParlay
           /\ k[1] # "straight" =>
                /\ parlay[k[2]].result = Pending
                /\ \A p \in LegsOf(k[2]) : ~Decided(pick[p].game)
<1>1. rq[r].pc = "offer"
  BY DEF CashOut
<1>2. /\ Owns(rq[r].user, rq[r].key) /\ ResultOf(rq[r].key) = Pending
      /\ \A g \in GamesOf(rq[r].key) : ~Decided(g)
  BY <1>1 DEF OfferOpen
<1> QED BY <1>1, <1>2 DEF Owns, ResultOf, GamesOf

\* What a pass has graded stays settleable: its game is decided, so no cash out
\* takes it.
LEMMA VerdictDecidedNext ==
    ASSUME TypeOK, TypeOK', OfferOpen, VerdictDecided, [Next]_vars
    PROVE  VerdictDecided'
<1> SUFFICES ASSUME NEW g \in Graders, NEW p \in PickIds, (verdict'[g][p] # Pending \/ p \in props'[g])
             PROVE  Settleable(p)'
  BY Zenon DEF VerdictDecided
<1>1. ASSUME Settleable(p), pick' = pick PROVE Settleable(p)'
  BY <1>1, SettleableStable DEF Settleable
<1>2. CASE Quiet
  BY <1>1, <1>2 DEF Quiet, VerdictDecided
<1>3. ASSUME NEW r \in Requests, Place(r) PROVE Settleable(p)'
  <2>1. UNCHANGED gr
    BY <1>3, PlacedRows
  <2>2. Settleable(p)
    BY <2>1 DEF VerdictDecided, gr
  <2>3. p \in Picked
    BY <2>2 DEF Settleable, Picked
  <2>4. pick'[p] = pick[p]
    BY <1>3, <2>3, PlacedRows
  <2> QED BY <2>2, <2>4, SettleableStable DEF Settleable
<1>4. ASSUME NEW r \in Requests, NEW offer \in 1..MaxOffer, CashOut(r, offer)
      PROVE  Settleable(p)'
  <2>1. UNCHANGED gr
    BY <1>4 DEF CashOut
  <2>2. Settleable(p)
    BY <2>1 DEF VerdictDecided, gr
  <2>3. pick'[p] = pick[p]
    <3>1. CASE rq[r].key[1] = "straight"
      <4>1. p # rq[r].key[2]
        BY <1>4, <2>2, <3>1, CashOutOpen DEF Settleable
      <4> QED BY <1>4, <2>2, <3>1, <4>1, CashedRows DEF Settleable
    <3>2. CASE rq[r].key[1] # "straight"
      BY <1>4, <2>2, <3>2, CashedRows DEF Settleable
    <3> QED BY <3>1, <3>2
  <2> QED BY <2>2, <2>3, SettleableStable DEF Settleable
<1>5. ASSUME NEW h \in Graders, ReadPending(h) PROVE Settleable(p)'
  <2>1. CASE h = g
    <3>1. p \in PendingFinal
      BY <1>5, <2>1 DEF ReadPending, TypeOK, GradersOK
    <3>2. Settleable(p)
      BY <3>1 DEF PendingFinal, Picked, Settleable, Decided, Pending, Absent
    <3> QED BY <1>1, <1>5, <3>2 DEF ReadPending, rows
  <2>2. CASE h # g
    BY <1>1, <1>5, <2>2 DEF ReadPending, rows, TypeOK, GradersOK, VerdictDecided
  <2> QED BY <2>1, <2>2
<1>6. ASSUME NEW h \in Graders, GradeProps(h) PROVE Settleable(p)'
  BY <1>1, <1>6 DEF GradeProps, GradeProp, rows, TypeOK, GradersOK, VerdictDecided
<1>7. ASSUME NEW h \in Graders, PushUngradeable(h) PROVE Settleable(p)'
  <2>1. ASSUME verdict[g][p] = Pending, p \notin props[g] PROVE Settleable(p)
    <3>1. p \in Picked /\ Ungradeable(p)
      BY <1>7, <2>1 DEF PushUngradeable, TypeOK, GradersOK
    <3>2. pick[p].game \in Games /\ pick[p].result = Pending
      BY <1>7, <2>1, <3>1 DEF PushUngradeable, TypeOK, GradersOK, RowsOK, PickRow
    <3> QED BY <3>1, <3>2, DayAssumption
            DEF Ungradeable, Settleable, Decided, TypeOK, GamesOK, Pending, Absent
  <2> QED BY <1>1, <1>7, <2>1 DEF PushUngradeable, rows, VerdictDecided
<1>8. ASSUME NEW h \in Graders, CommitGrades(h) PROVE Settleable(p)'
  <2>1. Settleable(p)
    BY <1>8 DEF CommitGrades, TypeOK, GradersOK, NoVerdict, VerdictDecided
  <2>2. pick'[p].result # "cashed_out"
    BY <1>8, <2>1, CommittedRows DEF Settleable, Graded
  <2> QED BY <2>1, <2>2, SettleableStable
<1>9. ASSUME NEW h \in Graders, ReadParlays(h) \/ CommitParlays(h) \/ Abort(h)
      PROVE  Settleable(p)'
  BY <1>1, <1>9 DEF ReadParlays, CommitParlays, Abort, rows, TypeOK, GradersOK, NoVerdict,
                    VerdictDecided
<1>10. ASSUME NEW h \in Graders, ReadLegRows(h) PROVE Settleable(p)'
  BY <1>1, <1>10, LegRowsRead DEF VerdictDecided
<1> QED BY <1>2, <1>3, <1>4, <1>5, <1>6, <1>7, <1>8, <1>9, <1>10, QuietSteps

\* A leg is only settled by a pass, on a decided game.
LEMMA LegsDecidedNext ==
    ASSUME TypeOK, TypeOK', OfferOpen, VerdictDecided, LegsDecided, [Next]_vars
    PROVE  LegsDecided'
<1> SUFFICES ASSUME NEW p \in PickIds, pick'[p].parlay # NoParlay,
                    pick'[p].result \notin {Absent, Pending}
             PROVE  Decided(pick[p].game)'
  BY DEF LegsDecided
<1>1. ASSUME pick'[p] = pick[p] PROVE Decided(pick[p].game)'
  <2>1. Decided(pick[p].game) /\ pick[p].game \in Games
    BY <1>1 DEF LegsDecided, TypeOK, RowsOK, PickRow
  <2> QED BY <1>1, <2>1, DecidedStable DEF Decided
<1>2. CASE pick' = pick
  BY <1>1, <1>2
<1>3. ASSUME NEW r \in Requests, Place(r) PROVE Decided(pick[p].game)'
  BY <1>1, <1>3, PlacedRows
<1>4. ASSUME NEW r \in Requests, NEW offer \in 1..MaxOffer, CashOut(r, offer)
      PROVE  pick'[p] = pick[p]
  BY <1>4, CashOutOpen, CashedRows
<1>5. ASSUME NEW g \in Graders, CommitGrades(g) PROVE Decided(pick[p].game)'
  <2>1. CASE verdict[g][p] = Pending
    BY <1>1, <1>5, <2>1, CommittedRows
  <2>2. CASE verdict[g][p] # Pending
    <3>1. Decided(pick[p].game) /\ pick[p].game \in Games /\ pick'[p].game = pick[p].game
      BY <1>5, <2>2, CommittedRows DEF VerdictDecided, Settleable, TypeOK, RowsOK, PickRow
    <3> QED BY <3>1, DecidedStable DEF Decided
  <2> QED BY <2>1, <2>2
<1>6. ASSUME NEW g \in Graders,
             \/ ReadPending(g) \/ GradeProps(g) \/ PushUngradeable(g)
             \/ ReadParlays(g) \/ ReadLegRows(g) \/ CommitParlays(g) \/ Abort(g)
      PROVE  pick' = pick
  BY <1>6 DEF ReadPending, GradeProps, GradeProp, PushUngradeable, ReadParlays, ReadLegRows,
              ReadLegsOf, CommitParlays, Abort, rows
<1> QED BY <1>1, <1>2, <1>3, <1>4, <1>5, <1>6, QuietSteps DEF Quiet

\* A parlay a pass is about to settle has a leg on a decided game.
LEMMA ParlayVerdictDecidedNext ==
    ASSUME TypeOK, TypeOK', OfferOpen, LegsDecided, ParlayVerdictDecided, [Next]_vars
    PROVE  ParlayVerdictDecided'
<1> DEFINE Due(q) == \E p \in LegsOf(q) : Decided(pick[p].game)
<1> SUFFICES ASSUME NEW g \in Graders, NEW q \in ParlayIds, pverdict'[g][q] # Pending
             PROVE  Due(q)'
  BY Zenon DEF ParlayVerdictDecided
<1>1. ASSUME Due(q) PROVE Due(q)'
  <2>1. PICK p \in LegsOf(q) : Decided(pick[p].game)
    BY <1>1
  <2>2. p \in Picked /\ pick[p].parlay = q /\ pick[p].game \in Games
    BY DEF LegsOf, Picked, TypeOK, RowsOK, PickRow
  <2>3. pick'[p].game = pick[p].game /\ p \in LegsOf(q)'
    BY <2>2, RowsStable DEF LegsOf, Picked
  <2>4. Decided(pick[p].game)'
    BY <2>1, <2>2, <2>3, DecidedStable DEF Decided
  <2> QED BY <2>3, <2>4
<1>2. ASSUME pverdict'[g][q] = pverdict[g][q] PROVE Due(q)'
  BY <1>1, <1>2 DEF ParlayVerdictDecided
<1>3. CASE Quiet
  BY <1>2, <1>3 DEF Quiet
<1>4. ASSUME NEW r \in Requests, Place(r) \/ \E offer \in 1..MaxOffer : CashOut(r, offer)
      PROVE  Due(q)'
  BY <1>2, <1>4, PlacedRows, CashedRows DEF gr
<1>5. ASSUME NEW h \in Graders, ReadLegRows(h), pverdict'[g][q] # pverdict[g][q] PROVE Due(q)'
  <2>1. AllGraded(q)
    BY <1>5, LegRowsRead
  <2>2. LegsOf(q) # {}
    BY <2>1, FS_EmptySet DEF AllGraded
  <2>3. PICK p \in LegsOf(q) : pick[p].result # Pending
    BY <2>1, <2>2 DEF AllGraded
  <2>4. Decided(pick[p].game)
    BY <2>3, IdsAssumption DEF LegsOf, Picked, LegsDecided, NoParlay, ParlayIds
  <2> QED BY <1>1, <2>4
<1>6. ASSUME NEW h \in Graders, CommitParlays(h) \/ Abort(h) PROVE Due(q)'
  <2>1. pverdict' = [pverdict EXCEPT ![h] = NoParlayVerdict]
    BY <1>6 DEF CommitParlays, Abort
  <2>2. g # h
    BY <2>1 DEF NoParlayVerdict, TypeOK, GradersOK
  <2> QED BY <1>2, <2>1, <2>2 DEF TypeOK, GradersOK
<1>7. ASSUME NEW h \in Graders,
             \/ ReadPending(h) \/ GradeProps(h) \/ PushUngradeable(h) \/ CommitGrades(h)
             \/ ReadParlays(h)
      PROVE  Due(q)'
  BY <1>2, <1>7 DEF ReadPending, GradeProps, GradeProp, PushUngradeable, CommitGrades, ReadParlays
<1> QED BY <1>2, <1>3, <1>4, <1>5, <1>6, <1>7, QuietSteps

\* The invariant holds at the start.
LEMMA SafeInit == Init => SafeInv
BY DayAssumption
   DEF Init, SafeInv, LockHeld, DayStarts, OfferOpen, VerdictDecided, LegsDecided,
       ParlayVerdictDecided, Idle, NoVerdict, NoParlayVerdict, NoPick

\* Every step keeps it.
LEMMA SafeNext ==
    ASSUME TypeOK, TypeOK', SafeInv, [Next]_vars
    PROVE  SafeInv'
BY LockHeldNext, DayStartsNext, OfferOpenNext, VerdictDecidedNext, LegsDecidedNext,
   ParlayVerdictDecidedNext DEF SafeInv

\* A request about to cash out finds the bet open, and what a pass has graded
\* is decided, whatever else runs.
THEOREM Safe == Spec => [](TypeOK /\ SafeInv)
<1>1. Init => TypeOK /\ SafeInv
  BY TypeInit, SafeInit
<1>2. TypeOK /\ SafeInv /\ [Next]_vars => (TypeOK /\ SafeInv)'
  BY TypeNext, SafeNext
<1> QED BY <1>1, <1>2, PTL DEF Spec

\* A straight bet that was cashed out is never graded as well: a pass that read
\* it before the cash out found it on a decided game, and then there was no cash
\* out.
THEOREM CashOutsAreFinal == Spec => CashOutFinal
<1> DEFINE Keeps ==
      \A p \in PickIds : pick[p].result = "cashed_out" => pick'[p].result = "cashed_out"
<1>1. ASSUME TypeOK, SafeInv, [Next]_vars PROVE Keeps
  <2> SUFFICES ASSUME NEW p \in PickIds, pick[p].result = "cashed_out"
               PROVE  pick'[p].result = "cashed_out"
    OBVIOUS
  <2>1. ASSUME NEW r \in Requests, Place(r) PROVE pick'[p].result = "cashed_out"
    BY <1>1, <2>1, PlacedRows DEF Picked, Absent
  <2>2. ASSUME NEW r \in Requests, NEW offer \in 1..MaxOffer, CashOut(r, offer)
        PROVE  pick'[p].result = "cashed_out"
    BY <1>1, <2>2, CashedRows
  <2>3. ASSUME NEW g \in Graders, CommitGrades(g) PROVE pick'[p].result = "cashed_out"
    BY <1>1, <2>3, CommittedRows DEF SafeInv, VerdictDecided, Settleable
  <2>4. ASSUME NEW g \in Graders,
               \/ ReadPending(g) \/ GradeProps(g) \/ PushUngradeable(g)
               \/ ReadParlays(g) \/ ReadLegRows(g) \/ CommitParlays(g) \/ Abort(g)
        PROVE  pick' = pick
    BY <2>4 DEF ReadPending, GradeProps, GradeProp, PushUngradeable, ReadParlays, ReadLegRows,
                ReadLegsOf, CommitParlays, Abort, rows
  <2> QED BY <1>1, <2>1, <2>2, <2>3, <2>4, QuietSteps DEF Quiet
<1>2. TypeOK /\ SafeInv /\ [Next]_vars => [Keeps]_vars
  BY <1>1
<1> QED BY <1>2, Safe, PTL DEF Spec, CashOutFinal

-----------------------------------------------------------------------------
(* Cashing out too late *)

\* What OfferScheduled says of one request.
LEMMA OfferScheduledNext ==
    ASSUME TypeOK, LockHeld, OfferScheduled, [Next]_vars
    PROVE  OfferScheduled'
<1> SUFFICES ASSUME NEW s \in Requests, rq'[s].pc = "offer"
             PROVE  \A g \in GamesOf(rq[s].key)' : status'[g] = "scheduled"
  BY Zenon DEF OfferScheduled
<1>0. s # Free
  BY IdsAssumption DEF Free
<1>1. ASSUME rq'[s] = rq[s], UNCHANGED <<pick, parlay, status>>
      PROVE  \A g \in GamesOf(rq[s].key)' : status'[g] = "scheduled"
  BY <1>1 DEF OfferScheduled, GamesOf, Picked, LegsOf
<1>2. ASSUME rq'[s] = rq[s] PROVE lock = s
  BY <1>2 DEF LockHeld
<1>3. CASE NextDay \/ \E h \in Games : Game(h)
  BY <1>0, <1>1, <1>2, <1>3, GameFrame
<1>4. CASE \E g \in Graders : GradeStep(g) \/ Abort(g)
  <2>1. rq' = rq
    BY <1>4 DEF GradeStep, ReadPending, GradeProps, GradeProp, PushUngradeable, CommitGrades,
                ReadParlays, ReadLegRows, ReadLegsOf, CommitParlays, CheckAnnounced,
                InsertEvent, EndPass, Abort
  <2> QED BY <1>1, <1>2, <1>4, <2>1, LockedOut DEF games
<1>5. ASSUME NEW r \in Requests, Request(r), r # s
      PROVE  rq'[s] = rq[s] /\ UNCHANGED <<pick, parlay, status>>
  BY <1>2, <1>5, OtherRequest DEF games
<1>6. CASE Request(s)
  <2>1. PICK k \in Keys : LoadBet(s, k)
    BY <1>6, OffersAreLoaded
  <2>2. rq'[s].key = k
    BY <2>1 DEF LoadBet, TypeOK, RequestsOK, RequestState
  <2>3. UNCHANGED <<pick, parlay, status>>
    BY <2>1 DEF LoadBet, rows, games
  <2>4. \A g \in GamesOf(k) : status[g] = "scheduled"
    BY <2>1 DEF LoadBet, EveryLegOpen, OpenForBetting
  <2> QED BY <2>2, <2>3, <2>4 DEF GamesOf, Picked, LegsOf
<1>7. CASE UNCHANGED vars
  BY <1>1, <1>7 DEF vars
<1> QED BY <1>1, <1>3, <1>4, <1>5, <1>6, <1>7 DEF Next

\* A bet is cashed out by a request that holds an offer for it, and nothing
\* else.
LEMMA OnlyOffersCashOut ==
    ASSUME TypeOK, TypeOK', [Next]_vars, NEW k \in Keys,
           ResultOf(k)' = "cashed_out", ResultOf(k) # "cashed_out"
    PROVE  \E r \in Requests : \E offer \in 1..MaxOffer :
              CashOut(r, offer) /\ rq[r].key[1] = k[1] /\ rq[r].key[2] = k[2]
<1>1. \/ k[1] = "straight" /\ k[2] \in PickIds
      \/ k[1] = "parlay" /\ k[2] \in ParlayIds
  BY Ids
<1>2. ~Quiet
  BY DEF Quiet, ResultOf
<1>3. ASSUME NEW r \in Requests, Place(r) PROVE FALSE
  <2>1. /\ \A p \in PickIds : pick'[p] = pick[p] \/ pick'[p].result = Pending
        /\ \A q \in ParlayIds : parlay'[q] = parlay[q] \/ parlay'[q].result = Pending
    BY <1>3, PlacedRows
  <2> QED BY <1>1, <2>1 DEF ResultOf, Pending
<1>4. ASSUME NEW g \in Graders, CommitGrades(g) PROVE FALSE
  <2>1. /\ \A p \in PickIds : pick'[p] = pick[p] \/ pick'[p].result \in Graded
        /\ parlay' = parlay
    BY <1>4, CommittedRows
  <2> QED BY <1>1, <2>1 DEF ResultOf, Graded
<1>5. ASSUME NEW g \in Graders, CommitParlays(g) PROVE FALSE
  <2>1. /\ \A q \in ParlayIds : parlay'[q] = parlay[q] \/ parlay'[q].result \in Graded
        /\ pick' = pick
    BY <1>5, CommittedRows
  <2> QED BY <1>1, <2>1 DEF ResultOf, Graded
<1>6. ASSUME NEW g \in Graders,
             \/ ReadPending(g) \/ GradeProps(g) \/ PushUngradeable(g)
             \/ ReadParlays(g) \/ ReadLegRows(g) \/ Abort(g)
      PROVE  FALSE
  <2>1. UNCHANGED <<pick, parlay>>
    BY <1>6 DEF ReadPending, GradeProps, GradeProp, PushUngradeable, ReadParlays, ReadLegRows,
                ReadLegsOf, Abort, rows
  <2> QED BY <2>1 DEF ResultOf
<1>7. PICK r \in Requests : \E offer \in 1..MaxOffer : CashOut(r, offer)
  BY <1>2, <1>3, <1>4, <1>5, <1>6, QuietSteps
<1>8. PICK offer \in 1..MaxOffer : CashOut(r, offer)
  BY <1>7
<1>9. rq[r].key[1] = k[1] /\ rq[r].key[2] = k[2]
  <2>1. CASE rq[r].key[1] = "straight"
    <3>1. parlay' = parlay /\ \A p \in PickIds \ {rq[r].key[2]} : pick'[p] = pick[p]
      BY <1>8, <2>1, CashedRows
    <3> QED BY <1>1, <2>1, <3>1 DEF ResultOf
  <2>2. CASE rq[r].key[1] # "straight"
    <3>1. /\ rq[r].key[1] = "parlay" /\ pick' = pick
          /\ \A q \in ParlayIds \ {rq[r].key[2]} : parlay'[q] = parlay[q]
      BY <1>8, <2>2, CashedRows
    <3> QED BY <1>1, <3>1 DEF ResultOf
  <2> QED BY <2>1, <2>2
<1> QED BY <1>8, <1>9

\* No bet is cashed out once a game it rides on has left "scheduled" or a leg
\* of it is settled: the request has held the write lock since it priced the
\* bet, and what it priced was open.
THEOREM NoCashOutTooLate == Spec => NoLateCashOut
<1> DEFINE OnTime ==
       \A k \in Keys : ResultOf(k)' = "cashed_out" /\ ResultOf(k) # "cashed_out" =>
          /\ k[1] = "parlay" => \A p \in LegsOf(k[2]) : pick[p].result = Pending
          /\ \A g \in GamesOf(k) : status[g] = "scheduled"
<1>1. ASSUME TypeOK, TypeOK', SafeInv, OfferScheduled, [Next]_vars PROVE OnTime
  <2> SUFFICES ASSUME NEW k \in Keys, ResultOf(k)' = "cashed_out", ResultOf(k) # "cashed_out"
               PROVE  /\ k[1] = "parlay" => \A p \in LegsOf(k[2]) : pick[p].result = Pending
                      /\ \A g \in GamesOf(k) : status[g] = "scheduled"
    OBVIOUS
  <2>1. PICK r \in Requests, offer \in 1..MaxOffer :
           CashOut(r, offer) /\ rq[r].key[1] = k[1] /\ rq[r].key[2] = k[2]
    BY <1>1, OnlyOffersCashOut
  <2>2. GamesOf(k) = GamesOf(rq[r].key)
    BY <2>1 DEF GamesOf
  <2>3. \A g \in GamesOf(k) : status[g] = "scheduled"
    BY <1>1, <2>1, <2>2 DEF OfferScheduled, CashOut
  <2>4. ASSUME k[1] = "parlay", NEW p \in LegsOf(k[2]) PROVE pick[p].result = Pending
    <3>1. ~Decided(pick[p].game)
      BY <1>1, <2>1, <2>4, CashOutOpen DEF SafeInv
    <3>2. p \in PickIds /\ pick[p].result # Absent /\ pick[p].parlay = k[2]
      BY DEF LegsOf, Picked
    <3>3. k[2] # NoParlay
      BY <2>4, Ids, IdsAssumption DEF NoParlay, ParlayIds
    <3> QED BY <1>1, <3>1, <3>2, <3>3 DEF SafeInv, LegsDecided
  <2> QED BY <2>3, <2>4
<1>2. Init => OfferScheduled
  BY DEF Init, OfferScheduled, Idle
<1>3. TypeOK /\ SafeInv /\ OfferScheduled /\ [Next]_vars => OfferScheduled'
  BY OfferScheduledNext DEF SafeInv
<1>4. TypeOK /\ TypeOK' /\ SafeInv /\ OfferScheduled /\ [Next]_vars => [OnTime]_vars
  BY <1>1
<1> QED BY <1>2, <1>3, <1>4, Safe, PTL DEF Spec, NoLateCashOut

-----------------------------------------------------------------------------
(* What is available, as one sum over all of a player's bets *)

StraightsOf(pk, u) ==
    {p \in PickIds : pk[p].result # Absent /\ pk[p].user = u /\ pk[p].parlay = NoParlay}
ParlaysOf(pl, u) == {q \in ParlayIds : pl[q].result # Absent /\ pl[q].user = u}

StakeCol(S, rows_) == [x \in S |-> rows_[x].stake]
BackCol(S, rows_) == [x \in S |-> rows_[x].back]

\* Returns less stakes: an open bet has returned nothing.
Net(S, T, row) == Total(T, BackCol(S, row)) - Total(T, StakeCol(S, row))

Money(pk, pl, u) ==
    StartingBalance + Net(PickIds, StraightsOf(pk, u), pk) + Net(ParlayIds, ParlaysOf(pl, u), pl)

Open(T, row) == {x \in T : row[x].result = Pending}

\* Over a column's settled rows returns and stakes count, over the open ones
\* stakes only: together that is Net over all rows.
LEMMA NetSplit ==
    ASSUME NEW S, IsFiniteSet(S), NEW T \in SUBSET S, NEW row,
           \A x \in S : row[x].stake \in Nat /\ row[x].back \in Nat,
           \A x \in S : row[x].result = Pending => row[x].back = 0
    PROVE  /\ Net(S, T, row) = (Total(T \ Open(T, row), BackCol(S, row))
                                 - Total(T \ Open(T, row), StakeCol(S, row)))
                               - Total(Open(T, row), StakeCol(S, row))
           /\ Net(S, T, row) \in Int
<1> DEFINE O == Open(T, row)
           B == BackCol(S, row)
           K == StakeCol(S, row)
<1>1. O \in SUBSET S /\ IsFiniteSet(O) /\ T \ O \in SUBSET S /\ IsFiniteSet(T \ O) /\ IsFiniteSet(T)
  BY FS_Subset DEF Open
<1>2. \A x \in S : B[x] \in Nat /\ K[x] \in Nat
  BY DEF BackCol, StakeCol
<1>3. (T \ O) \cup O = T /\ (T \ O) \cap O = {}
  BY DEF Open
<1>4. \A x \in O : B[x] = 0
  BY <1>1 DEF Open, BackCol
<1>5. Total(O, B) = 0
  <2>1. Coins(O, B) = {}
    BY <1>4 DEF Coins
  <2> QED BY <2>1, FS_EmptySet DEF Total
<1> HIDE DEF O, B, K
<1>6. Total(T, B) = Total(T \ O, B) + Total(O, B)
  BY <1>1, <1>2, <1>3, TotalSplit
<1>7. Total(T, K) = Total(T \ O, K) + Total(O, K)
  BY <1>1, <1>2, <1>3, TotalSplit
<1>8. /\ Total(T \ O, B) \in Nat /\ Total(T \ O, K) \in Nat /\ Total(O, K) \in Nat
      /\ Total(T, B) \in Nat /\ Total(T, K) \in Nat
  BY <1>1, <1>2, TotalType
<1>9. Net(S, T, row) = Total(T, B) - Total(T, K)
  BY DEF Net, B, K
<1> QED BY <1>5, <1>6, <1>7, <1>8, <1>9 DEF O, B, K

\* What the bankroll queries compute.
LEMMA MoneyForm ==
    ASSUME NEW pk \in [PickIds -> PickRow], NEW pl \in [ParlayIds -> ParlayRow], NEW u,
           \A p \in PickIds : pk[p].result = Pending => pk[p].back = 0,
           \A q \in ParlayIds : pl[q].result = Pending => pl[q].back = 0
    PROVE  LET s == StraightsOf(pk, u)
               l == ParlaysOf(pl, u) IN
           /\ Money(pk, pl, u)
                = (StartingBalance
                     + (Total(s \ Open(s, pk), BackCol(PickIds, pk))
                          - Total(s \ Open(s, pk), StakeCol(PickIds, pk)))
                     + (Total(l \ Open(l, pl), BackCol(ParlayIds, pl))
                          - Total(l \ Open(l, pl), StakeCol(ParlayIds, pl))))
                  - (Total(Open(s, pk), StakeCol(PickIds, pk))
                       + Total(Open(l, pl), StakeCol(ParlayIds, pl)))
           /\ Money(pk, pl, u) \in Int
<1> DEFINE s == StraightsOf(pk, u)
           l == ParlaysOf(pl, u)
<1>1. s \in SUBSET PickIds /\ l \in SUBSET ParlayIds
  BY DEF StraightsOf, ParlaysOf
<1>2. /\ \A p \in PickIds : pk[p].stake \in Nat /\ pk[p].back \in Nat
      /\ \A q \in ParlayIds : pl[q].stake \in Nat /\ pl[q].back \in Nat
  BY DEF PickRow, ParlayRow
<1> DEFINE a == Total(s \ Open(s, pk), BackCol(PickIds, pk))
           b == Total(s \ Open(s, pk), StakeCol(PickIds, pk))
           c == Total(l \ Open(l, pl), BackCol(ParlayIds, pl))
           d == Total(l \ Open(l, pl), StakeCol(ParlayIds, pl))
           e == Total(Open(s, pk), StakeCol(PickIds, pk))
           f == Total(Open(l, pl), StakeCol(ParlayIds, pl))
<1>3. Net(PickIds, s, pk) = (a - b) - e /\ Net(PickIds, s, pk) \in Int
  BY <1>1, <1>2, Ids, NetSplit
<1>4. Net(ParlayIds, l, pl) = (c - d) - f /\ Net(ParlayIds, l, pl) \in Int
  BY <1>1, <1>2, Ids, NetSplit
<1>5. a \in Nat /\ b \in Nat /\ c \in Nat /\ d \in Nat /\ e \in Nat /\ f \in Nat
  <2>1. /\ IsFiniteSet(s \ Open(s, pk)) /\ IsFiniteSet(Open(s, pk))
        /\ IsFiniteSet(l \ Open(l, pl)) /\ IsFiniteSet(Open(l, pl))
        /\ s \ Open(s, pk) \subseteq PickIds /\ Open(s, pk) \subseteq PickIds
        /\ l \ Open(l, pl) \subseteq ParlayIds /\ Open(l, pl) \subseteq ParlayIds
    BY <1>1, Ids, FS_Subset DEF Open
  <2>2. /\ \A p \in PickIds : BackCol(PickIds, pk)[p] \in Nat /\ StakeCol(PickIds, pk)[p] \in Nat
        /\ \A q \in ParlayIds :
              BackCol(ParlayIds, pl)[q] \in Nat /\ StakeCol(ParlayIds, pl)[q] \in Nat
    BY <1>2 DEF BackCol, StakeCol
  <2> QED BY <2>1, <2>2, TotalType
<1>6. Money(pk, pl, u) = StartingBalance + Net(PickIds, s, pk) + Net(ParlayIds, l, pl)
  BY DEF Money
<1> HIDE DEF a, b, c, d, e, f
<1>7. Money(pk, pl, u) = (StartingBalance + (a - b) + (c - d)) - (e + f) /\ Money(pk, pl, u) \in Int
  BY <1>3, <1>4, <1>5, <1>6, AmountAssumption
<1> QED BY <1>7 DEF a, b, c, d, e, f

\* Settling bets, which had returned nothing, never lowers what is available.
LEMMA MoneyGrows ==
    ASSUME NEW pk \in [PickIds -> PickRow], NEW pl \in [ParlayIds -> ParlayRow],
           NEW pk2 \in [PickIds -> PickRow], NEW pl2 \in [ParlayIds -> ParlayRow], NEW u,
           \A p \in PickIds :
              /\ pk2[p].user = pk[p].user /\ pk2[p].parlay = pk[p].parlay
              /\ pk2[p].stake = pk[p].stake /\ pk[p].back <= pk2[p].back
              /\ (pk2[p].result = Absent) = (pk[p].result = Absent),
           \A q \in ParlayIds :
              /\ pl2[q].user = pl[q].user
              /\ pl2[q].stake = pl[q].stake /\ pl[q].back <= pl2[q].back
              /\ (pl2[q].result = Absent) = (pl[q].result = Absent)
    PROVE  Money(pk, pl, u) <= Money(pk2, pl2, u)
<1> DEFINE s == StraightsOf(pk, u)
           l == ParlaysOf(pl, u)
<1>1. /\ s = StraightsOf(pk2, u) /\ l = ParlaysOf(pl2, u)
      /\ s \in SUBSET PickIds /\ l \in SUBSET ParlayIds
      /\ IsFiniteSet(s) /\ IsFiniteSet(l)
  BY Ids, FS_Subset DEF StraightsOf, ParlaysOf
<1>2. /\ \A p \in PickIds : /\ pk[p].stake \in Nat /\ pk[p].back \in Nat
                            /\ pk2[p].stake \in Nat /\ pk2[p].back \in Nat
      /\ \A q \in ParlayIds : /\ pl[q].stake \in Nat /\ pl[q].back \in Nat
                              /\ pl2[q].stake \in Nat /\ pl2[q].back \in Nat
  BY DEF PickRow, ParlayRow
<1>3. /\ StakeCol(PickIds, pk) = StakeCol(PickIds, pk2)
      /\ StakeCol(ParlayIds, pl) = StakeCol(ParlayIds, pl2)
  BY DEF StakeCol
<1> DEFINE a == Total(s, BackCol(PickIds, pk))
           a2 == Total(s, BackCol(PickIds, pk2))
           b == Total(s, StakeCol(PickIds, pk))
           c == Total(l, BackCol(ParlayIds, pl))
           c2 == Total(l, BackCol(ParlayIds, pl2))
           d == Total(l, StakeCol(ParlayIds, pl))
<1>4. a \in Nat /\ a2 \in Nat /\ b \in Nat /\ a <= a2
  BY <1>1, <1>2, TotalType, TotalMonotone DEF BackCol, StakeCol
<1>5. c \in Nat /\ c2 \in Nat /\ d \in Nat /\ c <= c2
  BY <1>1, <1>2, TotalType, TotalMonotone DEF BackCol, StakeCol
<1>6. /\ Money(pk, pl, u) = StartingBalance + (a - b) + (c - d)
      /\ Money(pk2, pl2, u) = StartingBalance + (a2 - b) + (c2 - d)
  BY <1>1, <1>3 DEF Money, Net
<1> HIDE DEF a, a2, b, c, c2, d
<1> QED BY <1>4, <1>5, <1>6, AmountAssumption

\* The rows T2 net what the rows T did, less an amount.
NetLess(S, T, row, T2, row2, amount) == Net(S, T2, row2) = Net(S, T, row) - amount

\* A new row that has returned nothing takes its stake from the net.
LEMMA NetAdd ==
    ASSUME NEW S, IsFiniteSet(S), NEW T \in SUBSET S, NEW x \in S, x \notin T,
           NEW T2, T2 = T \cup {x}, NEW row, NEW row2,
           \A y \in S : row[y].stake \in Nat /\ row[y].back \in Nat,
           \A y \in S : row2[y].stake \in Nat /\ row2[y].back \in Nat,
           \A y \in T : row2[y] = row[y],
           row2[x].back = 0
    PROVE  NetLess(S, T, row, T2, row2, row2[x].stake)
<1> DEFINE B == BackCol(S, row)
           B2 == BackCol(S, row2)
           K == StakeCol(S, row)
           K2 == StakeCol(S, row2)
<1>1. IsFiniteSet(T) /\ IsFiniteSet({x}) /\ T \cap {x} = {}
  BY FS_Subset, FS_Singleton
<1>2. \A y \in S : B[y] \in Nat /\ K[y] \in Nat /\ B2[y] \in Nat /\ K2[y] \in Nat
  BY DEF BackCol, StakeCol
<1>3. \A y \in T : B[y] = B2[y] /\ K[y] = K2[y]
  BY DEF BackCol, StakeCol
<1>4. B2[x] = 0 /\ K2[x] = row2[x].stake
  BY DEF BackCol, StakeCol
<1> HIDE DEF B, B2, K, K2
<1>5. Total(T \cup {x}, B2) = Total(T, B2) + Total({x}, B2)
  BY <1>1, <1>2, TotalSplit
<1>6. Total(T \cup {x}, K2) = Total(T, K2) + Total({x}, K2)
  BY <1>1, <1>2, TotalSplit
<1>7. Total({x}, B2) = 0 /\ Total({x}, K2) = row2[x].stake
  BY <1>2, <1>4, TotalOne
<1>8. Total(T, B2) = Total(T, B) /\ Total(T, K2) = Total(T, K)
  BY <1>3, TotalSame
<1>9. Total(T, B) \in Nat /\ Total(T, K) \in Nat
  BY <1>1, <1>2, TotalType
<1>10. /\ Net(S, T, row) = Total(T, B) - Total(T, K)
       /\ Net(S, T \cup {x}, row2) = Total(T \cup {x}, B2) - Total(T \cup {x}, K2)
  BY DEF Net, B, B2, K, K2
<1> QED BY <1>4, <1>5, <1>6, <1>7, <1>8, <1>9, <1>10 DEF NetLess

\* Rows that do not change net the same.
LEMMA NetSame ==
    ASSUME NEW S, NEW T \in SUBSET S, NEW row, NEW row2, \A y \in T : row2[y] = row[y]
    PROVE  Net(S, T, row2) = Net(S, T, row)
<1>1. \A y \in T : /\ BackCol(S, row)[y] = BackCol(S, row2)[y]
                   /\ StakeCol(S, row)[y] = StakeCol(S, row2)[y]
  BY DEF BackCol, StakeCol
<1> QED BY <1>1, TotalSame DEF Net

\* AvailableOf, before and after a step.
LEMMA AvailableIsMoney ==
    ASSUME TypeOK, OpenBack, NEW u \in Users
    PROVE  AvailableOf(u) = Money(pick, parlay, u) /\ Money(pick, parlay, u) \in Int
<1> DEFINE s == StraightsOf(pick, u)
           l == ParlaysOf(parlay, u)
<1>1. /\ Straights(u, TRUE) = s \ Open(s, pick) /\ Straights(u, FALSE) = Open(s, pick)
      /\ Parlays(u, TRUE) = l \ Open(l, parlay) /\ Parlays(u, FALSE) = Open(l, parlay)
  BY DEF Straights, Parlays, Picked, Parlayed, StraightsOf, ParlaysOf, Open
<1>2. /\ PickStake = StakeCol(PickIds, pick) /\ PickBack = BackCol(PickIds, pick)
      /\ ParlayStake = StakeCol(ParlayIds, parlay) /\ ParlayBack = BackCol(ParlayIds, parlay)
  BY DEF PickStake, PickBack, ParlayStake, ParlayBack, StakeCol, BackCol
<1> QED BY <1>1, <1>2, MoneyForm DEF TypeOK, RowsOK, OpenBack, AvailableOf, BalanceOf, OpenStakes

\* The same after a step.
LEMMA AvailableIsMoneyAfter ==
    ASSUME TypeOK', OpenBack', NEW u \in Users
    PROVE  AvailableOf(u)' = Money(pick', parlay', u) /\ Money(pick', parlay', u) \in Int
<1> DEFINE s == StraightsOf(pick', u)
           l == ParlaysOf(parlay', u)
<1>1. /\ Straights(u, TRUE)' = s \ Open(s, pick') /\ Straights(u, FALSE)' = Open(s, pick')
      /\ Parlays(u, TRUE)' = l \ Open(l, parlay') /\ Parlays(u, FALSE)' = Open(l, parlay')
  BY DEF Straights, Parlays, Picked, Parlayed, StraightsOf, ParlaysOf, Open
<1>2. /\ PickStake' = StakeCol(PickIds, pick') /\ PickBack' = BackCol(PickIds, pick')
      /\ ParlayStake' = StakeCol(ParlayIds, parlay') /\ ParlayBack' = BackCol(ParlayIds, parlay')
  BY DEF PickStake, PickBack, ParlayStake, ParlayBack, StakeCol, BackCol
<1> QED BY <1>1, <1>2, MoneyForm DEF TypeOK, RowsOK, OpenBack, AvailableOf, BalanceOf, OpenStakes

-----------------------------------------------------------------------------
(* The invariant of one pass at a time *)

\* A parlay gets its legs when it is placed, and keeps them.
LEMMA LegsKept ==
    ASSUME TypeOK, TypeOK', SafeInv, [Next]_vars, NEW q \in Parlayed
    PROVE  LegsOf(q)' = LegsOf(q)
<1>0. q \in ParlayIds /\ q # NoParlay
  BY IdsAssumption DEF Parlayed, ParlayIds, NoParlay
<1>1. ASSUME NEW p \in LegsOf(q) PROVE p \in LegsOf(q)'
  BY <1>1, RowsStable DEF LegsOf, Picked
<1>2. ASSUME NEW p \in PickIds, pick'[p].parlay = q, p \notin Picked, p \in Picked'
      PROVE  FALSE
  <2>1. pick[p].result = Absent /\ pick'[p].result # Absent /\ pick'[p] # pick[p]
    BY <1>2 DEF Picked
  <2>2. ASSUME NEW r \in Requests, Place(r) PROVE FALSE
    <3>1. ASSUME NEW x \in PickIds, NEW g \in Games, NEW side \in Sides, NEW stake \in Stakes,
                 NEW dec \in Decimals, PlacePick(r, x, g, side, stake, dec)
          PROVE  FALSE
      <4>1. pick'[x].parlay = NoParlay /\ \A y \in PickIds \ {x} : pick'[y] = pick[y]
        BY <3>1 DEF PlacePick, TypeOK, RowsOK
      <4> QED BY <1>0, <1>2, <2>1, <4>1
    <3>2. ASSUME NEW x \in ParlayIds, NEW S \in SUBSET PickIds, NEW leg \in [S -> Legs],
                 NEW stake \in Stakes, NEW dec \in Decimals, PlaceParlay(r, x, leg, stake, dec)
          PROVE  FALSE
      <4>1. /\ x \notin Parlayed
            /\ \A y \in S : pick'[y].parlay = x
            /\ \A y \in PickIds \ S : pick'[y] = pick[y]
        BY <3>2 DEF PlaceParlay
      <4> QED BY <1>2, <2>1, <4>1
    <3> QED BY <2>2, <3>1, <3>2 DEF Place
  <2>3. ASSUME NEW r \in Requests, NEW offer \in 1..MaxOffer, CashOut(r, offer) PROVE FALSE
    <3>1. pick'[p] = pick[p] \/ pick[p].result = Pending
      BY <2>3, CashedRows, CashOutOpen DEF SafeInv
    <3> QED BY <2>1, <3>1 DEF Pending, Absent
  <2>4. ASSUME NEW g \in Graders, CommitGrades(g) PROVE FALSE
    <3>1. verdict[g][p] # Pending
      BY <2>1, <2>4, CommittedRows
    <3> QED BY <2>1, <3>1 DEF SafeInv, VerdictDecided, Settleable
  <2>5. ASSUME NEW g \in Graders,
               \/ ReadPending(g) \/ GradeProps(g) \/ PushUngradeable(g)
               \/ ReadParlays(g) \/ ReadLegRows(g) \/ CommitParlays(g) \/ Abort(g)
        PROVE  pick' = pick
    BY <2>5 DEF ReadPending, GradeProps, GradeProp, PushUngradeable, ReadParlays, ReadLegRows,
                ReadLegsOf, CommitParlays, Abort, rows
  <2> QED BY <2>1, <2>2, <2>3, <2>4, <2>5, QuietSteps DEF Quiet
<1>3. ASSUME NEW p \in LegsOf(q)' PROVE p \in LegsOf(q)
  <2>1. p \in PickIds /\ p \in Picked' /\ pick'[p].parlay = q
    BY <1>3 DEF LegsOf, Picked
  <2>2. p \in Picked
    BY <1>2, <2>1
  <2>3. pick[p].parlay = q
    BY <2>1, <2>2, RowsStable
  <2> QED BY <2>2, <2>3 DEF LegsOf
<1> QED BY <1>1, <1>3

\* A pass that writes its results has no prop left to look up.
LEMMA PropsDoneNext ==
    ASSUME TypeOK, PropsDone, [Next]_vars
    PROVE  PropsDone'
<1>1. CASE gpc' = gpc /\ props' = props
  BY <1>1 DEF PropsDone
<1>2. ASSUME NEW r \in Requests, Request(r) PROVE gpc' = gpc /\ props' = props
  BY <1>2, RequestFrame DEF gr
<1>3. ASSUME NEW g \in Graders, ReadPending(g) \/ GradeProps(g) \/ PushUngradeable(g)
      PROVE  PropsDone'
  BY <1>3 DEF ReadPending, GradeProps, GradeProp, PushUngradeable, PropsDone, TypeOK, GradersOK
<1>4. ASSUME NEW g \in Graders,
             \/ CommitGrades(g) \/ ReadParlays(g) \/ ReadLegRows(g) \/ CommitParlays(g)
             \/ (\E k \in Keys : CheckAnnounced(g, k)) \/ InsertEvent(g) \/ EndPass(g) \/ Abort(g)
      PROVE  PropsDone'
  BY <1>4 DEF CommitGrades, ReadParlays, ReadLegRows, ReadLegsOf, CommitParlays,
              CheckAnnounced, InsertEvent, EndPass, Abort, PropsDone, TypeOK, GradersOK
<1>5. CASE NextDay \/ \E h \in Games : Game(h)
  BY <1>1, <1>5, GameFrame
<1>6. CASE UNCHANGED vars
  BY <1>1, <1>6 DEF vars
<1> QED BY <1>1, <1>2, <1>3, <1>4, <1>5, <1>6 DEF Next, GradeStep

\* Nor has it legs to read when it does not settle parlays.
LEMMA LegsReadNext ==
    ASSUME TypeOK, LegsRead, [Next]_vars
    PROVE  LegsRead'
<1>1. CASE gpc' = gpc /\ unread' = unread
  BY <1>1 DEF LegsRead
<1>2. ASSUME NEW r \in Requests, Request(r) PROVE gpc' = gpc /\ unread' = unread
  BY <1>2, RequestFrame DEF gr
<1>3. ASSUME NEW g \in Graders, ReadParlays(g) \/ ReadLegRows(g) PROVE LegsRead'
  BY <1>3 DEF ReadParlays, ReadLegRows, ReadLegsOf, LegsRead, TypeOK, GradersOK
<1>4. ASSUME NEW g \in Graders,
             \/ ReadPending(g) \/ GradeProps(g) \/ PushUngradeable(g) \/ CommitGrades(g)
             \/ CommitParlays(g)
             \/ (\E k \in Keys : CheckAnnounced(g, k)) \/ InsertEvent(g) \/ EndPass(g) \/ Abort(g)
      PROVE  LegsRead'
  BY <1>4 DEF ReadPending, GradeProps, GradeProp, PushUngradeable, CommitGrades, CommitParlays,
              CheckAnnounced, InsertEvent, EndPass, Abort, LegsRead, TypeOK, GradersOK
<1>5. CASE NextDay \/ \E h \in Games : Game(h)
  BY <1>1, <1>5, GameFrame
<1>6. CASE UNCHANGED vars
  BY <1>1, <1>6 DEF vars
<1> QED BY <1>1, <1>2, <1>3, <1>4, <1>5, <1>6 DEF Next, GradeStep

\* A parlay's legs are graded after a step only if they were before it, or the
\* step commits grades.
LEMMA GradedBefore ==
    ASSUME TypeOK, TypeOK', SafeInv, [Next]_vars, NEW q \in Parlayed, AllGraded(q)',
           \A g \in Graders : ~CommitGrades(g)
    PROVE  AllGraded(q)
<1>1. LegsOf(q)' = LegsOf(q)
  BY LegsKept
<1>2. ASSUME NEW p \in LegsOf(q), pick[p].result = Pending PROVE FALSE
  <2>1. p \in Picked /\ p \in PickIds /\ pick[p].parlay = q /\ pick'[p].result # Pending
    BY <1>1 DEF LegsOf, Picked, AllGraded
  <2>2. ASSUME NEW r \in Requests, Place(r) PROVE FALSE
    BY <1>2, <2>1, <2>2, PlacedRows
  <2>3. ASSUME NEW r \in Requests, NEW offer \in 1..MaxOffer, CashOut(r, offer) PROVE FALSE
    <3>1. q # NoParlay
      BY IdsAssumption DEF Parlayed, ParlayIds, NoParlay
    <3> QED BY <1>2, <2>1, <2>3, <3>1, CashedRows, CashOutOpen DEF SafeInv
  <2>4. ASSUME NEW g \in Graders,
               \/ ReadPending(g) \/ GradeProps(g) \/ PushUngradeable(g)
               \/ ReadParlays(g) \/ ReadLegRows(g) \/ CommitParlays(g) \/ Abort(g)
        PROVE  pick' = pick
    BY <2>4 DEF ReadPending, GradeProps, GradeProp, PushUngradeable, ReadParlays, ReadLegRows,
                ReadLegsOf, CommitParlays, Abort, rows
  <2> QED BY <1>2, <2>1, <2>2, <2>3, <2>4, QuietSteps DEF Quiet
<1> QED BY <1>1, <1>2 DEF AllGraded

\* With one pass, what it read as unsettled is unsettled still once all its legs
\* are graded: nobody else grades a leg, and a parlay with a graded leg is on a
\* decided game, so it is not cashed out.
LEMMA UnreadOpenNext ==
    ASSUME OneGrader, TypeOK, TypeOK', SafeInv, LegsRead, UnreadOpen, [Next]_vars
    PROVE  UnreadOpen'
<1> SUFFICES ASSUME NEW g \in Graders, NEW q \in unread'[g]
             PROVE  /\ parlay'[q].result # Absent
                    /\ AllGraded(q)' => parlay'[q].result = Pending
  BY DEF UnreadOpen
<1>0. q \in ParlayIds
  BY DEF TypeOK, GradersOK
<1>1. ASSUME NEW h \in Graders, ReadParlays(h) PROVE parlay'[q].result = Pending
  <2>1. h = g
    BY DEF OneGrader
  <2> QED BY <1>1, <2>1 DEF ReadParlays, rows, TypeOK, GradersOK
<1>2. ASSUME NEW h \in Graders, CommitGrades(h) \/ CommitParlays(h) \/ Abort(h) PROVE FALSE
  <2>1. h = g
    BY DEF OneGrader
  <2> QED BY <1>2, <2>1 DEF CommitGrades, CommitParlays, Abort, LegsRead, TypeOK, GradersOK
<1>3. ASSUME q \in unread[g], parlay'[q] = parlay[q], \A h \in Graders : ~CommitGrades(h)
      PROVE  /\ parlay'[q].result # Absent
             /\ AllGraded(q)' => parlay'[q].result = Pending
  <2>1. q \in Parlayed
    BY <1>0, <1>3 DEF UnreadOpen, Parlayed
  <2> QED BY <1>3, <2>1, GradedBefore DEF UnreadOpen
<1>4. ASSUME NEW h \in Graders,
             ReadPending(h) \/ GradeProps(h) \/ PushUngradeable(h) \/ ReadLegRows(h)
      PROVE  q \in unread[g] /\ parlay' = parlay
  BY <1>4, LegRowsRead DEF ReadPending, GradeProps, GradeProp, PushUngradeable, rows
<1>5. ASSUME NEW r \in Requests, Place(r) PROVE q \in unread[g] /\ parlay'[q] = parlay[q]
  <2>1. q \in unread[g]
    BY <1>5, PlacedRows DEF gr
  <2> QED BY <1>0, <1>5, <2>1, PlacedRows DEF UnreadOpen, Parlayed
<1>6. ASSUME NEW r \in Requests, NEW offer \in 1..MaxOffer, CashOut(r, offer),
             parlay'[q] # parlay[q], \A h \in Graders : ~CommitGrades(h)
      PROVE  /\ parlay'[q].result # Absent
             /\ AllGraded(q)' => parlay'[q].result = Pending
  <2> DEFINE k == rq[r].key
  <2>1. k[1] # "straight" /\ q = k[2] /\ parlay'[q].result = "cashed_out"
    BY <1>0, <1>6, CashedRows
  <2>2. parlay[q].result = Pending /\ \A p \in LegsOf(q) : ~Decided(pick[p].game)
    BY <1>6, <2>1, CashOutOpen DEF SafeInv
  <2> HIDE DEF k
  <2>3. ASSUME AllGraded(q)' PROVE FALSE
    <3>1. q \in Parlayed
      BY <1>0, <2>2 DEF Parlayed, Pending, Absent
    <3>2. AllGraded(q)
      BY <1>6, <2>3, <3>1, GradedBefore
    <3>3. PICK p \in LegsOf(q) : pick[p].result # Pending
      BY <3>2, FS_EmptySet DEF AllGraded
    <3>4. Decided(pick[p].game)
      BY <1>0, <3>3, IdsAssumption DEF SafeInv, LegsOf, Picked, LegsDecided, NoParlay, ParlayIds
    <3> QED BY <2>2, <3>4
  <2> QED BY <2>1, <2>3 DEF Absent
<1>7. ASSUME NEW r \in Requests, NEW offer \in 1..MaxOffer, CashOut(r, offer)
      PROVE  q \in unread[g]
  BY <1>7, CashedRows DEF gr
<1>8. CASE \E h \in Graders : CommitGrades(h)
  BY <1>2, <1>8
<1>9. CASE Quiet
  BY <1>3, <1>8, <1>9 DEF Quiet
<1> QED BY <1>1, <1>2, <1>3, <1>4, <1>5, <1>6, <1>7, <1>8, <1>9, QuietSteps DEF Pending, Absent

\* With one pass, only the pass itself settles what it has graded: requests cannot,
\* for its games are decided, and it forgets its verdicts when it has written them.
LEMMA VerdictFreshNext ==
    ASSUME OneGrader, TypeOK, TypeOK', SafeInv, VerdictFresh, PropsDone, [Next]_vars
    PROVE  VerdictFresh'
<1> SUFFICES ASSUME NEW g \in Graders, NEW p \in PickIds,
                    (verdict'[g][p] # Pending \/ p \in props'[g])
             PROVE  pick'[p].result = Pending
  BY Zenon DEF VerdictFresh
<1>1. CASE Quiet
  BY <1>1 DEF Quiet, VerdictFresh
<1>2. ASSUME NEW r \in Requests, Place(r) PROVE pick'[p].result = Pending
  <2>1. pick[p].result = Pending
    BY <1>2, PlacedRows DEF gr, VerdictFresh
  <2> QED BY <1>2, <2>1, PlacedRows DEF Picked, Pending, Absent
<1>3. ASSUME NEW r \in Requests, NEW offer \in 1..MaxOffer, CashOut(r, offer)
      PROVE  pick'[p].result = Pending
  <2>1. pick[p].result = Pending /\ Decided(pick[p].game)
    BY <1>3, CashedRows DEF gr, VerdictFresh, SafeInv, VerdictDecided, Settleable
  <2> DEFINE k == rq[r].key
  <2>0. k[1] = "straight" => ~Decided(pick[k[2]].game)
    BY <1>3, CashOutOpen DEF SafeInv
  <2>2. pick'[p] = pick[p]
    <3>1. CASE k[1] = "straight"
      <4>1. k[2] # p
        BY <2>0, <2>1, <3>1
      <4> QED BY <1>3, <3>1, <4>1, CashedRows
    <3>2. CASE k[1] # "straight"
      BY <1>3, <3>2, CashedRows
    <3> QED BY <3>1, <3>2
  <2> QED BY <2>1, <2>2
<1>4. ASSUME NEW h \in Graders, ReadPending(h) PROVE pick'[p].result = Pending
  <2>1. h = g
    BY DEF OneGrader
  <2>2. p \in PendingFinal /\ pick' = pick
    BY <1>4, <2>1 DEF ReadPending, rows, TypeOK, GradersOK
  <2> QED BY <2>2 DEF PendingFinal
<1>5. ASSUME NEW h \in Graders, GradeProps(h) PROVE pick'[p].result = Pending
  BY <1>5 DEF GradeProps, GradeProp, rows, TypeOK, GradersOK, VerdictFresh
<1>6. ASSUME NEW h \in Graders, PushUngradeable(h) PROVE pick'[p].result = Pending
  BY <1>6 DEF PushUngradeable, rows, TypeOK, GradersOK, VerdictFresh
<1>7. ASSUME NEW h \in Graders, CommitGrades(h) PROVE FALSE
  <2>1. h = g
    BY DEF OneGrader
  <2> QED BY <1>7, <2>1 DEF CommitGrades, PropsDone, NoVerdict, TypeOK, GradersOK
<1>8. ASSUME NEW h \in Graders, ReadParlays(h) \/ CommitParlays(h) \/ Abort(h)
      PROVE  pick'[p].result = Pending
  BY <1>8 DEF ReadParlays, CommitParlays, Abort, rows, TypeOK, GradersOK, NoVerdict, VerdictFresh
<1>9. ASSUME NEW h \in Graders, ReadLegRows(h) PROVE pick'[p].result = Pending
  BY <1>9, LegRowsRead DEF VerdictFresh
<1> QED BY <1>1, <1>2, <1>3, <1>4, <1>5, <1>6, <1>7, <1>8, <1>9, QuietSteps

\* Likewise for the parlays it has graded.
LEMMA ParlayVerdictFreshNext ==
    ASSUME OneGrader, TypeOK, TypeOK', SafeInv, UnreadOpen, ParlayVerdictFresh, [Next]_vars
    PROVE  ParlayVerdictFresh'
<1> SUFFICES ASSUME NEW g \in Graders, NEW q \in ParlayIds, pverdict'[g][q] # Pending
             PROVE  parlay'[q].result = Pending
  BY Zenon DEF ParlayVerdictFresh
<1>1. CASE Quiet
  BY <1>1 DEF Quiet, ParlayVerdictFresh
<1>2. ASSUME NEW r \in Requests, Place(r) PROVE parlay'[q].result = Pending
  <2>1. parlay[q].result = Pending
    BY <1>2, PlacedRows DEF gr, ParlayVerdictFresh
  <2> QED BY <1>2, <2>1, PlacedRows DEF Parlayed, Pending, Absent
<1>3. ASSUME NEW r \in Requests, NEW offer \in 1..MaxOffer, CashOut(r, offer)
      PROVE  parlay'[q].result = Pending
  <2>1. parlay[q].result = Pending /\ \E p \in LegsOf(q) : Decided(pick[p].game)
    BY <1>3, CashedRows DEF gr, ParlayVerdictFresh, SafeInv, ParlayVerdictDecided
  <2>2. parlay'[q] = parlay[q]
    <3>1. CASE rq[r].key[1] = "straight"
      BY <1>3, <3>1, CashedRows DEF SafeInv
    <3>2. CASE rq[r].key[1] # "straight"
      <4>1. q # rq[r].key[2]
        BY <1>3, <2>1, <3>2, CashOutOpen DEF SafeInv
      <4> QED BY <1>3, <3>2, <4>1, CashedRows DEF SafeInv
    <3> QED BY <3>1, <3>2
  <2> QED BY <2>1, <2>2
<1>4. ASSUME NEW h \in Graders, ReadParlays(h) \/ ReadLegRows(h) PROVE parlay'[q].result = Pending
  <2>1. CASE ReadParlays(h)
    BY <2>1 DEF ReadParlays, rows, ParlayVerdictFresh
  <2>2. CASE ReadLegRows(h)
    BY <2>2, LegRowsRead DEF UnreadOpen, ParlayVerdictFresh
  <2> QED BY <1>4, <2>1, <2>2
<1>5. ASSUME NEW h \in Graders, CommitParlays(h) PROVE FALSE
  <2>1. h = g
    BY DEF OneGrader
  <2> QED BY <1>5, <2>1 DEF CommitParlays, NoParlayVerdict, TypeOK, GradersOK
<1>6. ASSUME NEW h \in Graders,
             ReadPending(h) \/ GradeProps(h) \/ PushUngradeable(h) \/ CommitGrades(h) \/ Abort(h)
      PROVE  parlay'[q].result = Pending
  <2>1. parlay' = parlay
    BY <1>6 DEF ReadPending, GradeProps, GradeProp, PushUngradeable, CommitGrades, Abort, rows
  <2>2. pverdict[g][q] # Pending
    BY <1>6, SMTT(60) DEF ReadPending, GradeProps, GradeProp, PushUngradeable, CommitGrades,
                          Abort, TypeOK, GradersOK, NoParlayVerdict
  <2> QED BY <2>1, <2>2 DEF ParlayVerdictFresh
<1> QED BY <1>1, <1>2, <1>3, <1>4, <1>5, <1>6, QuietSteps

\* Only settling a bet gives it a return.
LEMMA OpenBackNext ==
    ASSUME TypeOK, OpenBack, [Next]_vars
    PROVE  OpenBack'
<1>1. ASSUME NEW p \in PickIds, pick'[p].result = Pending PROVE pick'[p].back = 0
  <2>1. CASE pick'[p] = pick[p]
    BY <1>1, <2>1 DEF OpenBack
  <2>2. ASSUME NEW r \in Requests, Place(r) PROVE pick'[p].back = 0
    BY <2>1, <2>2, PlacedRows
  <2>3. ASSUME NEW r \in Requests, NEW offer \in 1..MaxOffer, CashOut(r, offer)
        PROVE  pick'[p].back = 0
    BY <1>1, <2>1, <2>3, CashedRows DEF Pending
  <2>4. ASSUME NEW g \in Graders, CommitGrades(g) PROVE pick'[p].back = 0
    BY <1>1, <2>1, <2>4, CommittedRows
  <2>5. ASSUME NEW g \in Graders,
               \/ ReadPending(g) \/ GradeProps(g) \/ PushUngradeable(g)
               \/ ReadParlays(g) \/ ReadLegRows(g) \/ CommitParlays(g) \/ Abort(g)
        PROVE  pick' = pick
    BY <2>5 DEF ReadPending, GradeProps, GradeProp, PushUngradeable, ReadParlays, ReadLegRows,
                ReadLegsOf, CommitParlays, Abort, rows
  <2> QED BY <2>1, <2>2, <2>3, <2>4, <2>5, QuietSteps DEF Quiet
<1>2. ASSUME NEW q \in ParlayIds, parlay'[q].result = Pending PROVE parlay'[q].back = 0
  <2>1. CASE parlay'[q] = parlay[q]
    BY <1>2, <2>1 DEF OpenBack
  <2>2. ASSUME NEW r \in Requests, Place(r) PROVE parlay'[q].back = 0
    BY <2>1, <2>2, PlacedRows
  <2>3. ASSUME NEW r \in Requests, NEW offer \in 1..MaxOffer, CashOut(r, offer)
        PROVE  parlay'[q].back = 0
    BY <1>2, <2>1, <2>3, CashedRows DEF Pending
  <2>4. ASSUME NEW g \in Graders, CommitParlays(g) PROVE parlay'[q].back = 0
    BY <1>2, <2>1, <2>4, CommittedRows
  <2>5. ASSUME NEW g \in Graders,
               \/ ReadPending(g) \/ GradeProps(g) \/ PushUngradeable(g)
               \/ CommitGrades(g) \/ ReadParlays(g) \/ ReadLegRows(g) \/ Abort(g)
        PROVE  parlay' = parlay
    BY <2>5 DEF ReadPending, GradeProps, GradeProp, PushUngradeable, CommitGrades, ReadParlays,
                ReadLegRows, ReadLegsOf, Abort, rows
  <2> QED BY <2>1, <2>2, <2>3, <2>4, <2>5, QuietSteps DEF Quiet
<1> QED BY <1>1, <1>2 DEF OpenBack

\* An amount is at most itself.
LEMMA AtMostItself == ASSUME NEW n \in Int, NEW m, n = m PROVE n <= m
<1>1. n <= n
  OBVIOUS
<1> QED BY <1>1, Zenon

\* While a request holds the lock nobody else changes what is available.
LEMMA SeenCoveredNext ==
    ASSUME TypeOK, LockHeld, SeenCovered, [Next]_vars
    PROVE  SeenCovered'
<1> SUFFICES ASSUME NEW s \in Requests, rq'[s].pc \in {"checked", "checked parlay"}
             PROVE  rq'[s].seen <= AvailableOf(rq[s].user)'
  BY DEF SeenCovered
<1>0. rq[s].user \in Users
  BY DEF TypeOK, RequestsOK, RequestState
<1>1. ASSUME rq'[s] = rq[s], UNCHANGED <<pick, parlay>>
      PROVE  rq'[s].seen <= AvailableOf(rq[s].user)'
  BY <1>1 DEF SeenCovered, AvailableOf, BalanceOf, OpenStakes, Straights, Parlays,
              Picked, Parlayed, PickStake, PickBack, ParlayStake, ParlayBack
<1>2. ASSUME rq'[s] = rq[s] PROVE lock = s
  BY <1>2 DEF LockHeld
<1>3. CASE NextDay \/ \E h \in Games : Game(h)
  BY <1>1, <1>3, GameFrame
<1>4. CASE \E g \in Graders : GradeStep(g) \/ Abort(g)
  <2>1. rq' = rq
    BY <1>4 DEF GradeStep, ReadPending, GradeProps, GradeProp, PushUngradeable, CommitGrades,
                ReadParlays, ReadLegRows, ReadLegsOf, CommitParlays, CheckAnnounced,
                InsertEvent, EndPass, Abort
  <2> QED BY <1>1, <1>2, <1>4, <2>1, LockedOut
<1>5. ASSUME NEW r \in Requests, Request(r), r # s
      PROVE  rq'[s] = rq[s] /\ UNCHANGED <<pick, parlay>>
  BY <1>2, <1>5, OtherRequest
<1>6. CASE Request(s)
  <2>1. ReadAvailable(s)
    <3>1. ASSUME NEW u \in Users, ReadLegs(s, u) PROVE FALSE
      BY <3>1, LegsPc
    <3>2. ASSUME NEW u \in Users, NEW op \in {"place", "parlay", "cashout"},
                 HoldBankroll(s, u, op)
          PROVE  FALSE
      BY <3>2, HoldPc
    <3>3. ASSUME NEW k \in Keys, LoadBet(s, k) PROVE FALSE
      BY <3>3 DEF LoadBet, TypeOK, RequestsOK, RequestState
    <3>4. ASSUME Release(s) PROVE FALSE
      BY <3>4, ReleasePc
    <3>5. Refuse(s) \/ Place(s) \/ (\E offer \in 1..MaxOffer : CashOut(s, offer)) => Release(s)
      BY EndingSteps
    <3> QED BY <1>6, <3>1, <3>2, <3>3, <3>4, <3>5 DEF Request
  <2>2. rq'[s].seen = AvailableOf(rq[s].user) /\ rq'[s].user = rq[s].user
    BY <2>1 DEF ReadAvailable, TypeOK, RequestsOK, RequestState
  <2>3. AvailableOf(rq[s].user)' = AvailableOf(rq[s].user)
    <3>1. UNCHANGED <<pick, parlay>>
      BY <2>1 DEF ReadAvailable, rows
    <3> QED BY <2>2, <3>1 DEF AvailableOf, BalanceOf, OpenStakes, Straights, Parlays,
              Picked, Parlayed, PickStake, PickBack, ParlayStake, ParlayBack
  <2>4. AvailableOf(rq[s].user) \in Int
    BY <1>0, AvailableType DEF TypeOK
  <2>5. rq'[s].seen \in Int /\ rq'[s].seen = AvailableOf(rq[s].user)'
    BY <2>2, <2>3, <2>4, Zenon
  <2> QED BY <2>5, AtMostItself, Zenon
<1>7. CASE UNCHANGED vars
  BY <1>1, <1>7 DEF vars
<1> QED BY <1>1, <1>3, <1>4, <1>5, <1>6, <1>7 DEF Next

\* A step that writes no row of bets changes nothing available.
LEMMA AvailableSame ==
    ASSUME UNCHANGED <<pick, parlay>>, NEW u
    PROVE  AvailableOf(u)' = AvailableOf(u)
BY DEF AvailableOf, BalanceOf, OpenStakes, Straights, Parlays, Picked, Parlayed, PickStake,
       PickBack, ParlayStake, ParlayBack

\* What accepting a bet of user v does to the balances.
Covered(v) ==
    \A u \in Users : IF u = v THEN AvailableOf(u)' >= 0 ELSE AvailableOf(u)' = AvailableOf(u)

\* A new straight bet is affordable, so its player stays at zero or more.
LEMMA PlacePickCovered ==
    ASSUME TypeOK, TypeOK', OpenBack, OpenBack', SeenCovered,
           NEW r \in Requests, NEW p \in PickIds, NEW g \in Games, NEW side \in Sides,
           NEW stake \in Stakes, NEW dec \in Decimals, PlacePick(r, p, g, side, stake, dec)
    PROVE  Covered(rq[r].user)
<1> SUFFICES ASSUME NEW u \in Users
             PROVE  IF u = rq[r].user THEN AvailableOf(u)' >= 0 ELSE AvailableOf(u)' = AvailableOf(u)
  BY Zenon DEF Covered
<1> DEFINE s == StraightsOf(pick, u)
           s2 == StraightsOf(pick', u)
           l == ParlaysOf(parlay, u)
           v == rq[r].user
<1>1. /\ parlay' = parlay /\ p \notin Picked
      /\ pick' = [pick EXCEPT ![p] =
           [user |-> v, game |-> g, side |-> side, stake |-> stake,
            dec |-> dec, result |-> Pending, back |-> 0, parlay |-> NoParlay]]
  BY DEF PlacePick, NextPickIds
<1>2. /\ pick'[p].user = v /\ pick'[p].stake = stake /\ pick'[p].back = 0
      /\ pick'[p].result = Pending /\ pick'[p].parlay = NoParlay
      /\ \A x \in PickIds \ {p} : pick'[x] = pick[x]
  BY <1>1 DEF TypeOK, RowsOK
<1>3. p \notin s /\ s \in SUBSET PickIds /\ pick[p].result = Absent
  BY <1>1 DEF StraightsOf, Picked
<1>4. \A x \in PickIds : /\ pick[x].stake \in Nat /\ pick[x].back \in Nat
                         /\ pick'[x].stake \in Nat /\ pick'[x].back \in Nat
  BY DEF TypeOK, RowsOK, PickRow
<1>5. \A x \in s : pick'[x] = pick[x]
  BY <1>2, <1>3
<1>6. /\ AvailableOf(u) = Money(pick, parlay, u) /\ AvailableOf(u) \in Int
      /\ AvailableOf(u)' = Money(pick', parlay, u) /\ AvailableOf(u)' \in Int
  BY <1>1, AvailableIsMoney, AvailableIsMoneyAfter
<1>7. /\ Net(PickIds, s, pick) \in Int /\ Net(ParlayIds, l, parlay) \in Int
  <2>1. \A x \in ParlayIds : parlay[x].stake \in Nat /\ parlay[x].back \in Nat
    BY DEF TypeOK, RowsOK, ParlayRow
  <2>2. l \in SUBSET ParlayIds
    BY DEF ParlaysOf
  <2>3. Net(PickIds, s, pick) \in Int
    BY <1>3, <1>4, Ids, NetSplit DEF OpenBack
  <2>4. Net(ParlayIds, l, parlay) \in Int
    BY <2>1, <2>2, Ids, NetSplit DEF OpenBack
  <2> QED BY <2>3, <2>4
<1>8. CASE u # v
  <2>1. s2 = s
    BY <1>2, <1>3, <1>8 DEF StraightsOf
  <2>2. Net(PickIds, s2, pick') = Net(PickIds, s, pick)
    BY <1>3, <1>5, <2>1, NetSame
  <2>3. AvailableOf(u)' = AvailableOf(u)
    BY <1>6, <2>2 DEF Money
  <2> QED BY <1>8, <2>3
<1>9. CASE u = v
  <2>1. s2 = s \cup {p}
    BY <1>2, <1>3, <1>9 DEF StraightsOf, Pending, Absent
  <2>2. Net(PickIds, s2, pick') = Net(PickIds, s, pick) - stake
    <3> HIDE DEF s, s2
    <3>1. NetLess(PickIds, s, pick, s2, pick', pick'[p].stake)
      <4>1. /\ IsFiniteSet(PickIds) /\ s \in SUBSET PickIds /\ p \in PickIds /\ p \notin s
            /\ \A x \in PickIds : pick[x].stake \in Nat /\ pick[x].back \in Nat
            /\ \A x \in PickIds : pick'[x].stake \in Nat /\ pick'[x].back \in Nat
            /\ \A x \in s : pick'[x] = pick[x]
            /\ pick'[p].back = 0
        BY <1>2, <1>3, <1>4, <1>5, Ids
      <4> QED BY <2>1, <4>1, NetAdd, Zenon
    <3> QED BY <1>2, <3>1 DEF NetLess
  <2>3. stake <= rq[r].seen /\ rq[r].pc = "checked"
    BY DEF PlacePick, Affordable
  <2>4. rq[r].seen <= AvailableOf(u) /\ rq[r].seen \in Int
    BY <1>9, <2>3 DEF SeenCovered, TypeOK, RequestsOK, RequestState
  <2> DEFINE n == Net(PickIds, s, pick)
             m == Net(ParlayIds, l, parlay)
  <2>5. AvailableOf(u) = StartingBalance + n + m
    BY <1>6 DEF Money
  <2>6. AvailableOf(u)' = StartingBalance + (n - stake) + m
    BY <1>6, <2>2 DEF Money
  <2>7. stake \in Int
    BY AmountAssumption
  <2> HIDE DEF n, m
  <2>8. n \in Int /\ m \in Int
    BY <1>7 DEF n, m
  <2> DEFINE av == AvailableOf(u)
             av2 == AvailableOf(u)'
             seen == rq[r].seen
  <2>9. av \in Int /\ av2 \in Int /\ seen \in Int /\ seen <= av /\ stake <= seen
    BY <1>6, <2>3, <2>4
  <2>10. av = StartingBalance + n + m /\ av2 = StartingBalance + (n - stake) + m
    BY <2>5, <2>6
  <2> HIDE DEF av, av2, seen
  <2>11. av2 >= 0
    BY <2>7, <2>8, <2>9, <2>10, AmountAssumption
  <2> QED BY <1>9, <2>11 DEF av2
<1> QED BY <1>8, <1>9

\* A new parlay takes its stake from the net.
LEMMA ParlayAdds ==
    ASSUME NEW pl \in [ParlayIds -> ParlayRow], NEW pl2 \in [ParlayIds -> ParlayRow],
           NEW l \in SUBSET ParlayIds, NEW q \in ParlayIds, q \notin l,
           NEW l2, l2 = l \cup {q}, \A x \in l : pl2[x] = pl[x], pl2[q].back = 0
    PROVE  NetLess(ParlayIds, l, pl, l2, pl2, pl2[q].stake)
<1>1. IsFiniteSet(ParlayIds)
  BY Ids
<1>2. /\ \A x \in ParlayIds : pl[x].stake \in Nat /\ pl[x].back \in Nat
      /\ \A x \in ParlayIds : pl2[x].stake \in Nat /\ pl2[x].back \in Nat
  BY DEF ParlayRow
<1> QED BY <1>1, <1>2, NetAdd, Zenon

\* So is a new parlay; its legs are no straight bets.
LEMMA PlaceParlayCovered ==
    ASSUME TypeOK, TypeOK', OpenBack, OpenBack', SeenCovered,
           NEW r \in Requests, NEW q \in ParlayIds, NEW legs \in SUBSET PickIds,
           NEW leg \in [legs -> Legs], NEW stake \in Stakes, NEW dec \in Decimals,
           PlaceParlay(r, q, leg, stake, dec)
    PROVE  Covered(rq[r].user)
<1> SUFFICES ASSUME NEW u \in Users
             PROVE  IF u = rq[r].user THEN AvailableOf(u)' >= 0 ELSE AvailableOf(u)' = AvailableOf(u)
  BY Zenon DEF Covered
<1> DEFINE s == StraightsOf(pick, u)
           l == ParlaysOf(parlay, u)
           l2 == ParlaysOf(parlay', u)
           v == rq[r].user
<1>1. /\ q \notin Parlayed /\ legs \cap Picked = {}
      /\ parlay' = [parlay EXCEPT ![q] =
           [user |-> v, stake |-> stake, dec |-> dec, result |-> Pending, back |-> 0]]
      /\ \A x \in legs : pick'[x].parlay = q
      /\ \A x \in PickIds \ legs : pick'[x] = pick[x]
  BY DEF PlaceParlay, NextPickIds
<1>2. /\ parlay'[q].user = v /\ parlay'[q].stake = stake /\ parlay'[q].back = 0
      /\ parlay'[q].result = Pending
      /\ \A x \in ParlayIds \ {q} : parlay'[x] = parlay[x]
  BY <1>1 DEF TypeOK, RowsOK
<1>3. q \notin l /\ l \in SUBSET ParlayIds /\ parlay[q].result = Absent /\ q # NoParlay
  BY <1>1, IdsAssumption DEF ParlaysOf, Parlayed, ParlayIds, NoParlay
<1>4. \A x \in ParlayIds : /\ parlay[x].stake \in Nat /\ parlay[x].back \in Nat
                           /\ parlay'[x].stake \in Nat /\ parlay'[x].back \in Nat
  BY DEF TypeOK, RowsOK, ParlayRow
<1>5. \A x \in l : parlay'[x] = parlay[x]
  BY <1>2, <1>3
<1>6. /\ AvailableOf(u) = Money(pick, parlay, u) /\ AvailableOf(u) \in Int
      /\ AvailableOf(u)' = Money(pick', parlay', u) /\ AvailableOf(u)' \in Int
  BY AvailableIsMoney, AvailableIsMoneyAfter
<1>7. StraightsOf(pick', u) = s /\ s \in SUBSET PickIds /\ \A x \in s : pick'[x] = pick[x]
  <2>1. \A x \in legs : pick[x].result = Absent
    BY <1>1 DEF Picked
  <2> QED BY <1>1, <1>3, <2>1 DEF StraightsOf
<1>8. Net(PickIds, StraightsOf(pick', u), pick') = Net(PickIds, s, pick)
  BY <1>7, NetSame
<1>9. Net(PickIds, s, pick) \in Int /\ Net(ParlayIds, l, parlay) \in Int
  <2>1. \A x \in PickIds : pick[x].stake \in Nat /\ pick[x].back \in Nat
    BY DEF TypeOK, RowsOK, PickRow
  <2>2. Net(PickIds, s, pick) \in Int
    BY <1>7, <2>1, Ids, NetSplit DEF OpenBack
  <2>3. Net(ParlayIds, l, parlay) \in Int
    BY <1>3, <1>4, Ids, NetSplit DEF OpenBack
  <2> QED BY <2>2, <2>3
<1>10. CASE u # v
  <2>1. l2 = l
    BY <1>2, <1>3, <1>10 DEF ParlaysOf
  <2>2. Net(ParlayIds, l2, parlay') = Net(ParlayIds, l, parlay)
    BY <1>3, <1>5, <2>1, NetSame
  <2>3. AvailableOf(u)' = AvailableOf(u)
    BY <1>6, <1>8, <2>2 DEF Money
  <2> QED BY <1>10, <2>3
<1>11. CASE u = v
  <2>1. l2 = l \cup {q}
    BY <1>2, <1>3, <1>11 DEF ParlaysOf, Pending, Absent
  <2>2. Net(ParlayIds, l2, parlay') = Net(ParlayIds, l, parlay) - stake
    <3> HIDE DEF l, l2
    <3>1. NetLess(ParlayIds, l, parlay, l2, parlay', parlay'[q].stake)
      BY <1>2, <1>3, <1>5, <2>1, ParlayAdds DEF TypeOK, RowsOK
    <3> QED BY <1>2, <3>1 DEF NetLess
  <2>3. stake <= rq[r].seen /\ rq[r].pc = "checked parlay"
    BY DEF PlaceParlay, Affordable
  <2>4. rq[r].seen <= AvailableOf(u) /\ rq[r].seen \in Int
    BY <1>11, <2>3 DEF SeenCovered, TypeOK, RequestsOK, RequestState
  <2> DEFINE n == Net(PickIds, s, pick)
             m == Net(ParlayIds, l, parlay)
             av == AvailableOf(u)
             av2 == AvailableOf(u)'
             seen == rq[r].seen
  <2>5. av = StartingBalance + n + m
    BY <1>6 DEF Money
  <2>6. av2 = StartingBalance + n + (m - stake)
    BY <1>6, <1>8, <2>2 DEF Money
  <2>7. stake \in Int
    BY AmountAssumption
  <2>8. n \in Int /\ m \in Int
    BY <1>9
  <2>9. av \in Int /\ av2 \in Int /\ seen \in Int /\ seen <= av /\ stake <= seen
    BY <1>6, <2>3, <2>4
  <2> HIDE DEF n, m, av, av2, seen
  <2>10. av2 >= 0
    BY <2>5, <2>6, <2>7, <2>8, <2>9, AmountAssumption
  <2> QED BY <1>11, <2>10 DEF av2
<1> QED BY <1>10, <1>11

\* Either way.
LEMMA PlaceCovered ==
    ASSUME TypeOK, TypeOK', OpenBack, OpenBack', SeenCovered, NEW r \in Requests, Place(r)
    PROVE  Covered(rq[r].user)
BY PlacePickCovered, PlaceParlayCovered DEF Place

\* Settling open bets leaves every player with as much, or more.
LEMMA SettlingCovered ==
    ASSUME TypeOK, TypeOK', OpenBack, OpenBack', NeverOverdrawn,
           \A p \in PickIds :
              \/ pick'[p] = pick[p]
              \/ /\ pick[p].result = Pending /\ pick'[p].result # Absent
                 /\ pick'[p].user = pick[p].user /\ pick'[p].parlay = pick[p].parlay
                 /\ pick'[p].stake = pick[p].stake,
           \A q \in ParlayIds :
              \/ parlay'[q] = parlay[q]
              \/ /\ parlay[q].result = Pending /\ parlay'[q].result # Absent
                 /\ parlay'[q].user = parlay[q].user
                 /\ parlay'[q].stake = parlay[q].stake
    PROVE  NeverOverdrawn'
<1> SUFFICES ASSUME NEW u \in Users PROVE AvailableOf(u)' >= 0
  BY DEF NeverOverdrawn
<1>1. /\ pick \in [PickIds -> PickRow] /\ pick' \in [PickIds -> PickRow]
      /\ parlay \in [ParlayIds -> ParlayRow] /\ parlay' \in [ParlayIds -> ParlayRow]
  BY DEF TypeOK, RowsOK
<1>2. \A p \in PickIds :
        /\ pick'[p].user = pick[p].user /\ pick'[p].parlay = pick[p].parlay
        /\ pick'[p].stake = pick[p].stake /\ pick[p].back <= pick'[p].back
        /\ (pick'[p].result = Absent) = (pick[p].result = Absent)
  <2> TAKE p \in PickIds
  <2>1. pick[p].back \in Nat /\ pick'[p].back \in Nat
    BY <1>1 DEF PickRow
  <2> QED BY <2>1 DEF OpenBack, Pending, Absent
<1>3. \A q \in ParlayIds :
        /\ parlay'[q].user = parlay[q].user
        /\ parlay'[q].stake = parlay[q].stake /\ parlay[q].back <= parlay'[q].back
        /\ (parlay'[q].result = Absent) = (parlay[q].result = Absent)
  <2> TAKE q \in ParlayIds
  <2>1. parlay[q].back \in Nat /\ parlay'[q].back \in Nat
    BY <1>1 DEF ParlayRow
  <2> QED BY <2>1 DEF OpenBack, Pending, Absent
<1>4. Money(pick, parlay, u) <= Money(pick', parlay', u)
  BY <1>1, <1>2, <1>3, MoneyGrows
<1> DEFINE a == Money(pick, parlay, u)
           b == Money(pick', parlay', u)
<1>5. a = AvailableOf(u) /\ a \in Int /\ b = AvailableOf(u)' /\ b \in Int
  BY AvailableIsMoney, AvailableIsMoneyAfter
<1>6. a >= 0
  BY <1>5 DEF NeverOverdrawn
<1> HIDE DEF a, b
<1>7. b >= 0
  BY <1>4, <1>5, <1>6 DEF a, b
<1> QED BY <1>5, <1>7

\* No step overdraws a player.
LEMMA NeverOverdrawnNext ==
    ASSUME TypeOK, TypeOK', SafeInv, OnePassInv, OpenBack', [Next]_vars
    PROVE  NeverOverdrawn'
<1> USE DEF OnePassInv
<1>1. CASE UNCHANGED <<pick, parlay>>
  BY <1>1, AvailableSame DEF NeverOverdrawn
<1>2. ASSUME NEW r \in Requests, Place(r) PROVE NeverOverdrawn'
  <2>1. Covered(rq[r].user)
    BY <1>2, PlaceCovered
  <2> QED BY <2>1 DEF Covered, NeverOverdrawn
<1>3. ASSUME NEW r \in Requests, NEW offer \in 1..MaxOffer, CashOut(r, offer)
      PROVE  NeverOverdrawn'
  <2>1. \A p \in PickIds :
          \/ pick'[p] = pick[p]
          \/ /\ pick[p].result = Pending /\ pick'[p].result # Absent
             /\ pick'[p].user = pick[p].user /\ pick'[p].parlay = pick[p].parlay
             /\ pick'[p].stake = pick[p].stake
    BY <1>3, CashedRows, CashOutOpen DEF SafeInv, Absent
  <2>2. \A q \in ParlayIds :
          \/ parlay'[q] = parlay[q]
          \/ /\ parlay[q].result = Pending /\ parlay'[q].result # Absent
             /\ parlay'[q].user = parlay[q].user
             /\ parlay'[q].stake = parlay[q].stake
    BY <1>3, CashedRows, CashOutOpen DEF SafeInv, Absent
  <2> QED BY <2>1, <2>2, SettlingCovered
<1>4. ASSUME NEW g \in Graders, CommitGrades(g) PROVE NeverOverdrawn'
  <2>1. \A p \in PickIds :
          \/ pick'[p] = pick[p]
          \/ /\ pick[p].result = Pending /\ pick'[p].result # Absent
             /\ pick'[p].user = pick[p].user /\ pick'[p].parlay = pick[p].parlay
             /\ pick'[p].stake = pick[p].stake
    BY <1>4, CommittedRows DEF VerdictFresh, Graded, Absent
  <2>2. parlay' = parlay
    BY <1>4, CommittedRows
  <2> QED BY <2>1, <2>2, SettlingCovered
<1>5. ASSUME NEW g \in Graders, CommitParlays(g) PROVE NeverOverdrawn'
  <2>1. \A q \in ParlayIds :
          \/ parlay'[q] = parlay[q]
          \/ /\ parlay[q].result = Pending /\ parlay'[q].result # Absent
             /\ parlay'[q].user = parlay[q].user
             /\ parlay'[q].stake = parlay[q].stake
    BY <1>5, CommittedRows DEF ParlayVerdictFresh, Graded, Absent
  <2>2. pick' = pick
    BY <1>5, CommittedRows
  <2> QED BY <2>1, <2>2, SettlingCovered
<1>6. ASSUME NEW g \in Graders,
             \/ ReadPending(g) \/ GradeProps(g) \/ PushUngradeable(g)
             \/ ReadParlays(g) \/ ReadLegRows(g) \/ Abort(g)
      PROVE  UNCHANGED <<pick, parlay>>
  BY <1>6 DEF ReadPending, GradeProps, GradeProp, PushUngradeable, ReadParlays, ReadLegRows,
              ReadLegsOf, Abort, rows
<1> QED BY <1>1, <1>2, <1>3, <1>4, <1>5, <1>6, QuietSteps DEF Quiet

\* At the start nothing is bet and the whole balance is available.
LEMMA OnePassInit == Init => OnePassInv
<1> SUFFICES ASSUME Init PROVE OnePassInv
  OBVIOUS
<1>1. /\ VerdictFresh /\ PropsDone /\ LegsRead /\ UnreadOpen /\ ParlayVerdictFresh
      /\ OpenBack /\ SeenCovered
  BY DEF Init, VerdictFresh, PropsDone, LegsRead, UnreadOpen, ParlayVerdictFresh, OpenBack,
         SeenCovered, NoVerdict, NoParlayVerdict, NoPick, NoParlayRow, Idle
<1>2. ASSUME NEW u \in Users PROVE AvailableOf(u) >= 0
  <2>1. Picked = {} /\ Parlayed = {}
    BY DEF Init, Picked, Parlayed, NoPick, NoParlayRow
  <2>2. \A b \in BOOLEAN : Straights(u, b) = {} /\ Parlays(u, b) = {}
    BY <2>1 DEF Straights, Parlays
  <2>3. \A col : Total({}, col) = 0
    <3>1. \A col : Coins({}, col) = {}
      BY DEF Coins
    <3> QED BY <3>1, FS_EmptySet DEF Total
  <2>4. BalanceOf(u) = StartingBalance /\ OpenStakes(u) = 0
    <3>1. /\ Total(Straights(u, TRUE), PickBack) = 0 /\ Total(Straights(u, TRUE), PickStake) = 0
          /\ Total(Parlays(u, TRUE), ParlayBack) = 0 /\ Total(Parlays(u, TRUE), ParlayStake) = 0
          /\ Total(Straights(u, FALSE), PickStake) = 0
          /\ Total(Parlays(u, FALSE), ParlayStake) = 0
      BY <2>2, <2>3, Zenon
    <3>2. BalanceOf(u) = StartingBalance + (0 - 0) + (0 - 0) /\ OpenStakes(u) = 0 + 0
      BY <3>1, Zenon DEF BalanceOf, OpenStakes
    <3> QED BY <3>2, AmountAssumption
  <2> QED BY <2>4, AmountAssumption DEF AvailableOf
<1> QED BY <1>1, <1>2 DEF OnePassInv, NeverOverdrawn

\* With one pass, every step keeps the invariant.
LEMMA OnePassNext ==
    ASSUME OneGrader, TypeOK, TypeOK', SafeInv, OnePassInv, [Next]_vars
    PROVE  OnePassInv'
<1> USE DEF OnePassInv
<1>1. VerdictFresh' /\ PropsDone' /\ LegsRead' /\ UnreadOpen' /\ ParlayVerdictFresh'
  BY VerdictFreshNext, PropsDoneNext, LegsReadNext, UnreadOpenNext, ParlayVerdictFreshNext
<1>2. OpenBack' /\ SeenCovered'
  BY OpenBackNext, SeenCoveredNext DEF SafeInv
<1>3. NeverOverdrawn'
  BY <1>2, NeverOverdrawnNext
<1> QED BY <1>1, <1>2, <1>3

\* With one pass at a time, what a pass is about to write is of open bets, and
\* what a request has read under the lock still covers it.
THEOREM OnePass == ASSUME OneGrader PROVE Spec => [](TypeOK /\ SafeInv /\ OnePassInv)
<1>1. Init => TypeOK /\ SafeInv /\ OnePassInv
  BY TypeInit, SafeInit, OnePassInit
<1>2. TypeOK /\ SafeInv /\ OnePassInv /\ [Next]_vars => (TypeOK /\ SafeInv /\ OnePassInv)'
  BY TypeNext, SafeNext, OnePassNext
<1> QED BY <1>1, <1>2, PTL DEF Spec

\* With one pass at a time no player is ever overdrawn, however many requests
\* race for a bankroll: a stake is checked under the lock it is written under,
\* and everything else gives money back.
THEOREM NeverOverdrawnOnePass == ASSUME OneGrader PROVE Spec => []NeverOverdrawn
<1>1. TypeOK /\ SafeInv /\ OnePassInv => NeverOverdrawn
  BY DEF OnePassInv
<1> QED BY <1>1, OnePass, PTL

\* With one pass, no step changes the result of a settled row.
LEMMA FinalRowsKept ==
    ASSUME TypeOK, SafeInv, OnePassInv, [Next]_vars
    PROVE  /\ \A p \in PickIds : pick[p].result \in Graded \cup {"cashed_out"} =>
                 pick'[p].result = pick[p].result
           /\ \A q \in ParlayIds : parlay[q].result \in Graded \cup {"cashed_out"} =>
                 parlay'[q].result = parlay[q].result
<1> USE DEF OnePassInv
<1>1. ASSUME NEW p \in PickIds, pick[p].result \in Graded \cup {"cashed_out"}
      PROVE  pick'[p].result = pick[p].result
  <2>0. pick[p].result # Pending /\ p \in Picked
    BY <1>1 DEF Graded, Pending, Absent, Picked
  <2>1. ASSUME NEW r \in Requests, Place(r) PROVE pick'[p] = pick[p]
    BY <2>0, <2>1, PlacedRows
  <2>2. ASSUME NEW r \in Requests, NEW offer \in 1..MaxOffer, CashOut(r, offer)
        PROVE  pick'[p] = pick[p]
    BY <2>0, <2>2, CashedRows, CashOutOpen DEF SafeInv
  <2>3. ASSUME NEW g \in Graders, CommitGrades(g) PROVE pick'[p] = pick[p]
    BY <2>0, <2>3, CommittedRows DEF VerdictFresh
  <2>4. ASSUME NEW g \in Graders,
               \/ ReadPending(g) \/ GradeProps(g) \/ PushUngradeable(g)
               \/ ReadParlays(g) \/ ReadLegRows(g) \/ CommitParlays(g) \/ Abort(g)
        PROVE  pick' = pick
    BY <2>4 DEF ReadPending, GradeProps, GradeProp, PushUngradeable, ReadParlays, ReadLegRows,
                ReadLegsOf, CommitParlays, Abort, rows
  <2> QED BY <2>1, <2>2, <2>3, <2>4, QuietSteps DEF Quiet
<1>2. ASSUME NEW q \in ParlayIds, parlay[q].result \in Graded \cup {"cashed_out"}
      PROVE  parlay'[q].result = parlay[q].result
  <2>0. parlay[q].result # Pending /\ q \in Parlayed
    BY <1>2 DEF Graded, Pending, Absent, Parlayed
  <2>1. ASSUME NEW r \in Requests, Place(r) PROVE parlay'[q] = parlay[q]
    BY <2>0, <2>1, PlacedRows
  <2>2. ASSUME NEW r \in Requests, NEW offer \in 1..MaxOffer, CashOut(r, offer)
        PROVE  parlay'[q] = parlay[q]
    BY <2>0, <2>2, CashedRows, CashOutOpen DEF SafeInv
  <2>3. ASSUME NEW g \in Graders, CommitParlays(g) PROVE parlay'[q] = parlay[q]
    BY <2>0, <2>3, CommittedRows DEF ParlayVerdictFresh
  <2>4. ASSUME NEW g \in Graders,
               \/ ReadPending(g) \/ GradeProps(g) \/ PushUngradeable(g)
               \/ CommitGrades(g) \/ ReadParlays(g) \/ ReadLegRows(g) \/ Abort(g)
        PROVE  parlay' = parlay
    BY <2>4 DEF ReadPending, GradeProps, GradeProp, PushUngradeable, CommitGrades, ReadParlays,
                ReadLegRows, ReadLegsOf, Abort, rows
  <2> QED BY <2>1, <2>2, <2>3, <2>4, QuietSteps DEF Quiet
<1> QED BY <1>1, <1>2

\* With one pass at a time a settled bet or leg keeps its result: what a pass
\* writes was open when it read it, and nobody else has settled it since.
THEOREM SettledOnceOnePass == ASSUME OneGrader PROVE Spec => SettledOnce
<1> DEFINE Keeps == \A k \in Keys : Final(k) => ResultOf(k)' = ResultOf(k)
<1>1. ASSUME TypeOK, SafeInv, OnePassInv, [Next]_vars PROVE Keeps
  <2>1. ASSUME NEW k \in Keys
        PROVE  \/ k[1] = "straight" /\ k[2] \in PickIds
               \/ k[1] = "parlay" /\ k[2] \in ParlayIds
    BY Ids
  <2> QED BY <1>1, <2>1, FinalRowsKept DEF ResultOf, Final
<1>2. TypeOK /\ SafeInv /\ OnePassInv /\ [Next]_vars => [Keeps]_vars
  BY <1>1
<1> QED BY <1>2, OnePass, PTL DEF Spec, SettledOnce

-----------------------------------------------------------------------------
(* Open stakes, whatever passes run *)

\* Player u's stakes that are open after a step and were not before.
NewStakes(u) ==
    \/ \E p \in PickIds : pick'[p] # pick[p] /\ p \in Straights(u, FALSE)'
    \/ \E q \in ParlayIds : parlay'[q] # parlay[q] /\ q \in Parlays(u, FALSE)'

\* Without a new stake the open ones do not grow.
LEMMA NoNewStakes ==
    ASSUME TypeOK, TypeOK', NEW u \in Users, ~NewStakes(u)
    PROVE  ~(OpenStakes(u)' > OpenStakes(u))
<1> DEFINE s == Straights(u, FALSE)
           s2 == Straights(u, FALSE)'
           l == Parlays(u, FALSE)
           l2 == Parlays(u, FALSE)'
           K == PickStake
           K2 == PickStake'
           L == ParlayStake
           L2 == ParlayStake'
<1>1. /\ \A p \in PickIds : K[p] = pick[p].stake /\ K2[p] = pick'[p].stake
      /\ \A q \in ParlayIds : L[q] = parlay[q].stake /\ L2[q] = parlay'[q].stake
  BY DEF PickStake, ParlayStake
<1>2. /\ \A p \in PickIds : pick[p].stake \in Nat /\ pick'[p].stake \in Nat
      /\ \A q \in ParlayIds : parlay[q].stake \in Nat /\ parlay'[q].stake \in Nat
  BY DEF TypeOK, RowsOK, PickRow, ParlayRow
<1>3. /\ s \in SUBSET PickIds /\ s2 \in SUBSET PickIds
      /\ l \in SUBSET ParlayIds /\ l2 \in SUBSET ParlayIds
  BY DEF Straights, Parlays, Picked, Parlayed
<1>4. IsFiniteSet(s) /\ IsFiniteSet(s2) /\ IsFiniteSet(l) /\ IsFiniteSet(l2)
  BY <1>3, Ids, FS_Subset
<1>5. \A p \in s2 : p \in s /\ pick'[p] = pick[p]
  BY <1>3 DEF NewStakes, Straights, Picked
<1>6. \A q \in l2 : q \in l /\ parlay'[q] = parlay[q]
  BY <1>3 DEF NewStakes, Parlays, Parlayed
<1>7. OpenStakes(u) = Total(s, K) + Total(l, L) /\ OpenStakes(u)' = Total(s2, K2) + Total(l2, L2)
  BY DEF OpenStakes
<1> HIDE DEF s, s2, l, l2, K, K2, L, L2
<1>8. Total(s2, K2) <= Total(s, K)
  <2>1. s2 \in SUBSET s /\ \A p \in s2 : K2[p] \in Nat /\ K2[p] <= K[p]
    BY <1>1, <1>2, <1>3, <1>5
  <2>2. \A p \in s : K[p] \in Nat
    BY <1>1, <1>2, <1>3
  <2> QED BY <1>4, <2>1, <2>2, TotalMonotone
<1>9. Total(l2, L2) <= Total(l, L)
  <2>1. l2 \in SUBSET l /\ \A q \in l2 : L2[q] \in Nat /\ L2[q] <= L[q]
    BY <1>1, <1>2, <1>3, <1>6
  <2>2. \A q \in l : L[q] \in Nat
    BY <1>1, <1>2, <1>3
  <2> QED BY <1>4, <2>1, <2>2, TotalMonotone
<1>10. /\ Total(s, K) \in Nat /\ Total(s2, K2) \in Nat
       /\ Total(l, L) \in Nat /\ Total(l2, L2) \in Nat
  <2>1. /\ \A p \in s : K[p] \in Nat
        /\ \A p \in s2 : K2[p] \in Nat
        /\ \A q \in l : L[q] \in Nat
        /\ \A q \in l2 : L2[q] \in Nat
    BY <1>1, <1>2, <1>3
  <2> QED BY <1>4, <2>1, TotalType
<1> QED BY <1>7, <1>8, <1>9, <1>10

\* A bet that is placed is the stake of the player who asked for it.
LEMMA PlacedByUser ==
    ASSUME TypeOK, NEW r \in Requests, Place(r), NEW u \in Users, NewStakes(u)
    PROVE  u = rq[r].user
<1>1. ASSUME NEW p \in PickIds, NEW g \in Games, NEW side \in Sides, NEW stake \in Stakes,
             NEW dec \in Decimals, PlacePick(r, p, g, side, stake, dec)
      PROVE  u = rq[r].user
  <2>1. /\ \A x \in PickIds \ {p} : pick'[x] = pick[x]
        /\ pick'[p].user = rq[r].user /\ parlay' = parlay
    BY <1>1 DEF PlacePick, TypeOK, RowsOK
  <2> QED BY <2>1 DEF NewStakes, Straights
<1>2. ASSUME NEW q \in ParlayIds, NEW S \in SUBSET PickIds, NEW leg \in [S -> Legs],
             NEW stake \in Stakes, NEW dec \in Decimals, PlaceParlay(r, q, leg, stake, dec)
      PROVE  u = rq[r].user
  <2>1. /\ \A x \in PickIds \ S : pick'[x] = pick[x]
        /\ \A x \in S : pick'[x].parlay = q
        /\ \A x \in ParlayIds \ {q} : parlay'[x] = parlay[x]
        /\ parlay'[q].user = rq[r].user
    BY <1>2 DEF PlaceParlay, TypeOK, RowsOK
  <2>2. q # NoParlay
    BY IdsAssumption DEF ParlayIds, NoParlay
  <2> QED BY <2>1, <2>2 DEF NewStakes, Straights, Parlays
<1> QED BY <1>1, <1>2 DEF Place

\* Only placing a bet opens a stake: a pass closes bets, and so does a cash out.
LEMMA OnlyPlacingOpens ==
    ASSUME TypeOK, [Next]_vars, NEW u \in Users, NewStakes(u)
    PROVE  \E r \in Requests : Place(r) /\ rq[r].user = u
<1>1. ASSUME /\ \A p \in PickIds : pick'[p] = pick[p] \/ pick'[p].result # Pending
             /\ \A q \in ParlayIds : parlay'[q] = parlay[q] \/ parlay'[q].result # Pending
      PROVE  FALSE
  BY <1>1 DEF NewStakes, Straights, Parlays
<1>2. CASE Quiet
  BY <1>1, <1>2 DEF Quiet
<1>3. ASSUME NEW r \in Requests, NEW offer \in 1..MaxOffer, CashOut(r, offer)
      PROVE  FALSE
  <2>1. /\ \A p \in PickIds : pick'[p] = pick[p] \/ pick'[p].result # Pending
        /\ \A q \in ParlayIds : parlay'[q] = parlay[q] \/ parlay'[q].result # Pending
    BY <1>3, CashedRows DEF Pending
  <2> QED BY <1>1, <2>1
<1>4. ASSUME NEW g \in Graders, CommitGrades(g) \/ CommitParlays(g) PROVE FALSE
  <2>1. /\ \A p \in PickIds : pick'[p] = pick[p] \/ pick'[p].result # Pending
        /\ \A q \in ParlayIds : parlay'[q] = parlay[q] \/ parlay'[q].result # Pending
    BY <1>4, CommittedRows DEF Graded, Pending
  <2> QED BY <1>1, <2>1
<1>5. ASSUME NEW g \in Graders,
             \/ ReadPending(g) \/ GradeProps(g) \/ PushUngradeable(g)
             \/ ReadParlays(g) \/ ReadLegRows(g) \/ Abort(g)
      PROVE  FALSE
  <2>1. UNCHANGED <<pick, parlay>>
    BY <1>5 DEF ReadPending, GradeProps, GradeProp, PushUngradeable, ReadParlays, ReadLegRows,
                ReadLegsOf, Abort, rows
  <2> QED BY <1>1, <2>1
<1>6. \E r \in Requests : Place(r)
  BY <1>2, <1>3, <1>4, <1>5, QuietSteps
<1> QED BY <1>6, PlacedByUser

\* What a request read under the lock, and what open bets have returned, hold
\* with any number of passes.
LEMMA Bankroll == Spec => [](TypeOK /\ LockHeld /\ OpenBack /\ SeenCovered)
<1>1. Init => OpenBack /\ SeenCovered
  BY OnePassInit DEF OnePassInv
<1>2. TypeOK /\ SafeInv /\ OpenBack /\ SeenCovered /\ [Next]_vars => (OpenBack /\ SeenCovered)'
  BY OpenBackNext, SeenCoveredNext DEF SafeInv
<1>3. SafeInv => LockHeld
  BY DEF SafeInv
<1> QED BY <1>1, <1>2, <1>3, Safe, PTL DEF Spec

\* A bet is accepted only when the bankroll covers it, however many requests
\* and passes race: its player's balance was read under the lock the bet is
\* written under.
THEOREM StakesAreCovered == Spec => StakeCovered
<1> DEFINE Pays == \A u \in Users : OpenStakes(u)' > OpenStakes(u) => AvailableOf(u)' >= 0
<1>1. ASSUME TypeOK, TypeOK', OpenBack, OpenBack', SeenCovered, [Next]_vars PROVE Pays
  <2> SUFFICES ASSUME NEW u \in Users, OpenStakes(u)' > OpenStakes(u)
               PROVE  AvailableOf(u)' >= 0
    OBVIOUS
  <2>1. NewStakes(u)
    BY <1>1, NoNewStakes
  <2>2. PICK r \in Requests : Place(r) /\ rq[r].user = u
    BY <1>1, <2>1, OnlyPlacingOpens
  <2>3. Covered(u)
    BY <1>1, <2>2, PlaceCovered
  <2> QED BY <2>3 DEF Covered
<1>2. /\ TypeOK /\ TypeOK' /\ OpenBack /\ OpenBack' /\ SeenCovered /\ [Next]_vars => [Pays]_vars
  BY <1>1
<1> QED BY <1>2, Bankroll, PTL DEF Spec, StakeCovered

-----------------------------------------------------------------------------
(* The feed *)

\* The feed's unique index keeps every bet's key to one event.
LEMMA AnnouncedOnceNext ==
    ASSUME TypeOK, AnnouncedOnce, [Next]_vars
    PROVE  AnnouncedOnce'
<1>1. CASE UNCHANGED feed
  BY <1>1 DEF AnnouncedOnce
<1>2. ASSUME NEW g \in Graders, InsertEvent(g) PROVE AnnouncedOnce'
  <2>1. PICK k \in Keys, result \in Graded :
           feed' = [feed EXCEPT ![k] = IF FeedTakes(k) THEN @ \cup {<<g, result>>} ELSE @]
    BY <1>2 DEF InsertEvent
  <2>2. ASSUME NEW j \in Keys PROVE Cardinality(feed'[j]) <= 1
    <3>1. CASE feed'[j] = feed[j]
      BY <3>1 DEF AnnouncedOnce
    <3>2. CASE feed'[j] # feed[j]
      <4>1. feed'[j] = {<<g, result>>}
        BY <2>1, <3>2 DEF FeedTakes, TypeOK, RowsOK
      <4>2. Cardinality(feed'[j]) = 1
        BY <4>1, FS_Singleton, Zenon
      <4> QED BY <4>2
    <3> QED BY <3>1, <3>2
  <2> QED BY <2>2 DEF AnnouncedOnce
<1>3. CASE NextDay \/ \E h \in Games : Game(h)
  BY <1>1, <1>3 DEF Game, KickOff, Begin, Cancel, Restore, Finish, CorrectScore, BoxScore,
                    GameStep, NextDay, rows
<1>4. ASSUME NEW r \in Requests, Request(r) PROVE UNCHANGED feed
  BY <1>4, RequestFrame
<1>5. ASSUME NEW g \in Graders, GradeStep(g) \/ Abort(g), ~InsertEvent(g) PROVE UNCHANGED feed
  BY <1>5 DEF GradeStep, ReadPending, GradeProps, GradeProp, PushUngradeable, CommitGrades,
              ReadParlays, ReadLegRows, ReadLegsOf, CommitParlays, CheckAnnounced, EndPass,
              Abort, rows
<1> QED BY <1>1, <1>2, <1>3, <1>4, <1>5 DEF Next, vars

\* A bet is announced at most once, whatever passes race to announce it.
THEOREM AnnouncedAtMostOnce == Spec => []AnnouncedOnce
<1>1. Init => AnnouncedOnce
  BY FS_EmptySet DEF Init, AnnouncedOnce
<1>2. TypeOK /\ AnnouncedOnce /\ [Next]_vars => AnnouncedOnce'
  BY AnnouncedOnceNext
<1> QED BY <1>1, <1>2, TypeCorrect, PTL DEF Spec

\* What every step may use.
Known == TypeOK /\ SafeInv /\ OnePassInv

-----------------------------------------------------------------------------
(* Legs *)

\* So a parlay that matches its legs goes on matching them.
LEMMA MatchKept ==
    ASSUME Known, TypeOK', [Next]_vars, NEW q \in Parlayed, NEW result, MatchesLegs(q, result)
    PROVE  MatchesLegs(q, result)'
<1>1. LegsOf(q)' = LegsOf(q)
  BY LegsKept DEF Known
<1>2. \A p \in LegsOf(q) : pick'[p].result = pick[p].result
  <2>1. \A p \in LegsOf(q) : p \in PickIds /\ pick[p].result \in Graded
    BY DEF MatchesLegs, LegsOf, Picked
  <2> QED BY <2>1, FinalRowsKept DEF Known
<1> QED BY <1>1, <1>2 DEF MatchesLegs

\* A leg is settled by a pass or not at all.
LEMMA LegsNotCashedNext ==
    ASSUME Known, LegsNotCashed, [Next]_vars
    PROVE  LegsNotCashed'
<1> SUFFICES ASSUME NEW p \in PickIds, pick'[p].parlay # NoParlay, pick'[p].result = "cashed_out"
             PROVE  FALSE
  BY DEF LegsNotCashed
<1>1. pick'[p] # pick[p]
  BY DEF LegsNotCashed
<1>2. ASSUME NEW r \in Requests, Place(r) PROVE FALSE
  BY <1>1, <1>2, PlacedRows DEF Known, Pending
<1>3. ASSUME NEW r \in Requests, NEW offer \in 1..MaxOffer, CashOut(r, offer) PROVE FALSE
  BY <1>1, <1>3, CashedRows, CashOutOpen DEF Known, SafeInv
<1>4. ASSUME NEW g \in Graders, CommitGrades(g) PROVE FALSE
  BY <1>1, <1>4, CommittedRows DEF Known, Graded
<1>5. ASSUME NEW g \in Graders,
             \/ ReadPending(g) \/ GradeProps(g) \/ PushUngradeable(g)
             \/ ReadParlays(g) \/ ReadLegRows(g) \/ CommitParlays(g) \/ Abort(g)
      PROVE  pick' = pick
  BY <1>5 DEF ReadPending, GradeProps, GradeProp, PushUngradeable, ReadParlays, ReadLegRows,
              ReadLegsOf, CommitParlays, Abort, rows
<1> QED BY <1>1, <1>2, <1>3, <1>4, <1>5, QuietSteps DEF Quiet

-----------------------------------------------------------------------------
(* Parlays *)

\* What ParlayResult computes of legs that are all graded.
LEMMA ParlayResultMatches ==
    ASSUME NEW q, \A p \in LegsOf(q) : pick[p].result \in Graded
    PROVE  MatchesLegs(q, ParlayResult({pick[p].result : p \in LegsOf(q)}))
BY DEF ParlayResult, MatchesLegs, Graded

\* A pass reads legs that are graded for good.
LEMMA ParlayVerdictMatchesNext ==
    ASSUME Known, TypeOK', LegsNotCashed, ParlayVerdictMatches, [Next]_vars
    PROVE  ParlayVerdictMatches'
<1> SUFFICES ASSUME NEW g \in Graders, NEW q \in ParlayIds, pverdict'[g][q] # Pending
             PROVE  MatchesLegs(q, pverdict[g][q])'
  BY Zenon DEF ParlayVerdictMatches
<1>1. ASSUME pverdict'[g][q] = pverdict[g][q] PROVE MatchesLegs(q, pverdict[g][q])'
  <2>1. q \in Parlayed /\ MatchesLegs(q, pverdict[g][q])
    BY <1>1 DEF Known, OnePassInv, ParlayVerdictFresh, Parlayed, ParlayVerdictMatches,
                Pending, Absent
  <2>2. \A result : MatchesLegs(q, result) => MatchesLegs(q, result)'
    BY <2>1, MatchKept
  <2> QED BY <1>1, <2>1, <2>2 DEF MatchesLegs
<1>2. ASSUME NEW h \in Graders, ReadLegRows(h), pverdict'[g][q] # pverdict[g][q]
      PROVE  MatchesLegs(q, pverdict[g][q])'
  <2>1. /\ AllGraded(q)
        /\ pverdict'[g][q] = ParlayResult({pick[p].result : p \in LegsOf(q)})
    BY <1>2, LegRowsRead DEF Known
  <2>2. \A p \in LegsOf(q) : pick[p].result \in Graded
    <3> SUFFICES ASSUME NEW p \in LegsOf(q) PROVE pick[p].result \in Graded
      OBVIOUS
    <3>1. /\ p \in PickIds /\ pick[p].result \in Results
          /\ pick[p].result # Absent /\ pick[p].parlay = q
      BY DEF LegsOf, Picked, Known, TypeOK, RowsOK, PickRow
    <3>2. pick[p].result # Pending
      BY <2>1 DEF AllGraded
    <3>3. pick[p].result # "cashed_out"
      BY <3>1, IdsAssumption DEF LegsNotCashed, ParlayIds, NoParlay
    <3> QED BY <3>1, <3>2, <3>3 DEF Results
  <2>3. MatchesLegs(q, pverdict'[g][q])
    BY <2>1, <2>2, ParlayResultMatches
  <2>4. pick' = pick
    BY <1>2 DEF ReadLegRows, ReadLegsOf, rows
  <2> QED BY <2>3, <2>4 DEF MatchesLegs, LegsOf, Picked
<1>3. CASE Quiet
  BY <1>1, <1>3 DEF Quiet
<1>4. ASSUME NEW r \in Requests, Place(r) \/ \E offer \in 1..MaxOffer : CashOut(r, offer)
      PROVE  pverdict' = pverdict
  BY <1>4, PlacedRows, CashedRows DEF Known, gr
<1>5. ASSUME NEW h \in Graders,
             \/ ReadPending(h) \/ GradeProps(h) \/ PushUngradeable(h) \/ CommitGrades(h)
             \/ ReadParlays(h)
      PROVE  pverdict' = pverdict
  BY <1>5 DEF ReadPending, GradeProps, GradeProp, PushUngradeable, CommitGrades, ReadParlays
<1>6. ASSUME NEW h \in Graders, CommitParlays(h) \/ Abort(h)
      PROVE  pverdict'[g][q] = pverdict[g][q]
  <2>1. pverdict' = [pverdict EXCEPT ![h] = NoParlayVerdict]
    BY <1>6 DEF CommitParlays, Abort
  <2>2. g # h
    BY <2>1 DEF NoParlayVerdict, Known, TypeOK, GradersOK
  <2> QED BY <2>1, <2>2 DEF Known, TypeOK, GradersOK
<1> QED BY <1>1, <1>2, <1>3, <1>4, <1>5, <1>6, QuietSteps

\* What it writes is what it read.
LEMMA ParlayMatchesLegsNext ==
    ASSUME Known, TypeOK', ParlayVerdictMatches, ParlayMatchesLegs, [Next]_vars
    PROVE  ParlayMatchesLegs'
<1> SUFFICES ASSUME NEW q \in ParlayIds, parlay'[q].result \in Graded
             PROVE  MatchesLegs(q, parlay[q].result)'
  BY DEF ParlayMatchesLegs, MatchesLegs, Parlayed
<1>1. CASE parlay'[q] = parlay[q]
  <2>1. q \in Parlayed /\ MatchesLegs(q, parlay[q].result)
    BY <1>1 DEF ParlayMatchesLegs, MatchesLegs, Parlayed, Graded, Absent
  <2>2. \A result : MatchesLegs(q, result) => MatchesLegs(q, result)'
    BY <2>1, MatchKept
  <2> QED BY <1>1, <2>1, <2>2 DEF MatchesLegs
<1>2. ASSUME NEW g \in Graders, CommitParlays(g), parlay'[q] # parlay[q]
      PROVE  MatchesLegs(q, parlay[q].result)'
  <2>1. /\ pverdict[g][q] # Pending /\ parlay'[q].result = pverdict[g][q]
        /\ pick' = pick
    BY <1>2, CommittedRows DEF Known
  <2>2. MatchesLegs(q, parlay'[q].result)
    BY <2>1 DEF ParlayVerdictMatches
  <2> QED BY <2>1, <2>2 DEF MatchesLegs, LegsOf, Picked
<1>3. ASSUME NEW r \in Requests, Place(r) PROVE parlay'[q] = parlay[q]
  BY <1>3, PlacedRows DEF Known, Graded, Pending
<1>4. ASSUME NEW r \in Requests, NEW offer \in 1..MaxOffer, CashOut(r, offer)
      PROVE  parlay'[q] = parlay[q]
  BY <1>4, CashedRows DEF Known, Graded
<1>5. ASSUME NEW g \in Graders,
             \/ ReadPending(g) \/ GradeProps(g) \/ PushUngradeable(g)
             \/ CommitGrades(g) \/ ReadParlays(g) \/ ReadLegRows(g) \/ Abort(g)
      PROVE  parlay' = parlay
  BY <1>5 DEF ReadPending, GradeProps, GradeProp, PushUngradeable, CommitGrades, ReadParlays,
              ReadLegRows, ReadLegsOf, Abort, rows
<1> QED BY <1>1, <1>2, <1>3, <1>4, <1>5, QuietSteps DEF Quiet

-----------------------------------------------------------------------------
(* The feed *)

\* The result of a bet that is told stays as it is.
LEMMA ToldKept ==
    ASSUME Known, [Next]_vars, NEW k \in Keys, ResultOf(k) \in Graded
    PROVE  ResultOf(k)' = ResultOf(k)
BY FinalRowsKept, Ids DEF Known, ResultOf

\* Only a pass that announces changes what is told or about to be.
LEMMA Announcing ==
    ASSUME [Next]_vars
    PROVE  \/ UNCHANGED <<feed, cur>>
           \/ \E g \in Graders : (\E k \in Keys : CheckAnnounced(g, k)) \/ InsertEvent(g) \/ Abort(g)
<1>1. CASE NextDay \/ \E h \in Games : Game(h)
  BY <1>1 DEF Game, KickOff, Begin, Cancel, Restore, Finish, CorrectScore, BoxScore,
              GameStep, NextDay, rows, gr
<1>2. ASSUME NEW r \in Requests, Request(r) PROVE UNCHANGED <<feed, cur>>
  BY <1>2, RequestFrame DEF gr
<1>3. ASSUME NEW g \in Graders,
             \/ ReadPending(g) \/ GradeProps(g) \/ PushUngradeable(g) \/ CommitGrades(g)
             \/ ReadParlays(g) \/ ReadLegRows(g) \/ CommitParlays(g) \/ EndPass(g)
      PROVE  UNCHANGED <<feed, cur>>
  BY <1>3 DEF ReadPending, GradeProps, GradeProp, PushUngradeable, CommitGrades, ReadParlays,
              ReadLegRows, ReadLegsOf, CommitParlays, EndPass, rows
<1> QED BY <1>1, <1>2, <1>3 DEF Next, GradeStep, vars

\* An event is made from the bet's committed result, which does not change
\* between the two transactions, or after.
LEMMA TellingNext ==
    ASSUME Known, AboutToTell, AnnouncedTruth, [Next]_vars
    PROVE  AboutToTell' /\ AnnouncedTruth'
<1>1. \A g \in Graders : \A e \in cur[g] : e[1] \in Keys /\ ResultOf(e[1])' = ResultOf(e[1])
  <2> SUFFICES ASSUME NEW g \in Graders, NEW e \in cur[g]
               PROVE  e[1] \in Keys /\ ResultOf(e[1])' = ResultOf(e[1])
    OBVIOUS
  <2>1. e[1] \in Keys /\ e[2] \in Graded
    BY DEF Known, TypeOK, GradersOK
  <2> QED BY <2>1, ToldKept DEF AboutToTell
<1>2. \A k \in Keys : \A e \in feed[k] : ResultOf(k)' = ResultOf(k)
  <2> SUFFICES ASSUME NEW k \in Keys, NEW e \in feed[k] PROVE ResultOf(k)' = ResultOf(k)
    OBVIOUS
  <2>1. e[2] \in Graded
    BY DEF Known, TypeOK, RowsOK
  <2> QED BY <2>1, ToldKept DEF AnnouncedTruth
<1>3. CASE UNCHANGED <<feed, cur>>
  BY <1>1, <1>2, <1>3, Zenon DEF AboutToTell, AnnouncedTruth
<1>4. ASSUME NEW g \in Graders, NEW k \in Keys, CheckAnnounced(g, k)
      PROVE  AboutToTell' /\ AnnouncedTruth'
  <2>1. UNCHANGED <<pick, parlay, feed>>
    BY <1>4 DEF CheckAnnounced, rows
  <2>2. \A j \in Keys : ResultOf(j)' = ResultOf(j)
    BY <2>1 DEF ResultOf
  <2>3. /\ \A h \in Graders \ {g} : cur'[h] = cur[h]
        /\ cur'[g] \in {cur[g], {<<k, ResultOf(k)>>}}
    BY <1>4 DEF CheckAnnounced, Known, TypeOK, GradersOK
  <2>4. ASSUME NEW h \in Graders, NEW e \in cur'[h] PROVE e[2] = ResultOf(e[1])'
    <3>1. CASE e \in cur[h]
      BY <1>1, <3>1 DEF AboutToTell
    <3>2. CASE e = <<k, ResultOf(k)>>
      BY <2>2, <3>2
    <3> QED BY <2>3, <2>4, <3>1, <3>2
  <2>5. AboutToTell'
    BY <2>4, Zenon DEF AboutToTell
  <2>6. AnnouncedTruth'
    BY <1>2, <2>1, Zenon DEF AnnouncedTruth
  <2> QED BY <2>5, <2>6
<1>5. ASSUME NEW g \in Graders, InsertEvent(g)
      PROVE  AboutToTell' /\ AnnouncedTruth'
  <2>1. PICK k \in Keys, result \in Graded :
           /\ <<k, result>> \in cur[g]
           /\ feed' = [feed EXCEPT ![k] = IF FeedTakes(k) THEN @ \cup {<<g, result>>} ELSE @]
    BY <1>5 DEF InsertEvent
  <2>2. result = ResultOf(k) /\ ResultOf(k)' = ResultOf(k)
    <3>1. \A e \in cur[g] : e[2] = ResultOf(e[1])
      BY DEF AboutToTell
    <3>2. <<k, result>>[2] = ResultOf(<<k, result>>[1])
      BY <2>1, <3>1, Zenon
    <3> QED BY <1>1, <2>1, <3>2
  <2>3. \A h \in Graders : cur'[h] \subseteq cur[h]
    BY <1>5 DEF InsertEvent, Known, TypeOK, GradersOK
  <2>4. ASSUME NEW h \in Graders, NEW e \in cur'[h] PROVE e[2] = ResultOf(e[1])'
    BY <1>1, <2>3, <2>4 DEF AboutToTell
  <2>5. ASSUME NEW j \in Keys, NEW e \in feed'[j] PROVE e[2] = ResultOf(j)'
    <3>1. e \in feed[j] \/ (j = k /\ e = <<g, result>>)
      BY <2>1, <2>5 DEF Known, TypeOK, RowsOK
    <3>2. CASE e \in feed[j]
      BY <1>2, <3>2 DEF AnnouncedTruth
    <3>3. CASE j = k /\ e = <<g, result>>
      BY <2>2, <3>3
    <3> QED BY <3>1, <3>2, <3>3
  <2>6. AboutToTell'
    BY <2>4, Zenon DEF AboutToTell
  <2>7. AnnouncedTruth'
    BY <2>5, Zenon DEF AnnouncedTruth
  <2> QED BY <2>6, <2>7
<1>6. ASSUME NEW g \in Graders, Abort(g)
      PROVE  AboutToTell' /\ AnnouncedTruth'
  <2>1. feed' = feed /\ \A h \in Graders : cur'[h] \subseteq cur[h]
    BY <1>6 DEF Abort, rows, Known, TypeOK, GradersOK
  <2>2. ASSUME NEW h \in Graders, NEW e \in cur'[h] PROVE e[2] = ResultOf(e[1])'
    BY <1>1, <2>1, <2>2 DEF AboutToTell
  <2>3. AboutToTell'
    BY <2>2, Zenon DEF AboutToTell
  <2>4. AnnouncedTruth'
    BY <1>2, <2>1, Zenon DEF AnnouncedTruth
  <2> QED BY <2>3, <2>4
<1> QED BY <1>3, <1>4, <1>5, <1>6, Announcing

-----------------------------------------------------------------------------
(* Together *)

\* At the start there is nothing to agree on.
LEMMA RecordsInit == Init => RecordsInv
BY DEF Init, RecordsInv, LegsNotCashed, ParlayVerdictMatches, AboutToTell, RecordsAgree,
       ParlayMatchesLegs, AnnouncedTruth, Parlayed, NoPick, NoParlayRow, NoParlayVerdict

\* Every step keeps the invariant.
LEMMA RecordsNext ==
    ASSUME Known, TypeOK', RecordsInv, [Next]_vars
    PROVE  RecordsInv'
<1> USE DEF RecordsInv, RecordsAgree
<1>1. LegsNotCashed'
  BY LegsNotCashedNext
<1>2. ParlayVerdictMatches' /\ ParlayMatchesLegs'
  BY ParlayVerdictMatchesNext, ParlayMatchesLegsNext
<1>3. AboutToTell' /\ AnnouncedTruth'
  BY TellingNext
<1> QED BY <1>1, <1>2, <1>3

\* With one pass at a time, a settled parlay has the result its legs give it and
\* the feed tells the result the bet has.
THEOREM RecordsAgreeOnePass == ASSUME OneGrader PROVE Spec => []RecordsAgree
<1>1. Spec => []Known
  BY OnePass, PTL DEF Known
<1>2. Init => RecordsInv
  BY RecordsInit
<1>3. Known => TypeOK
  BY DEF Known
<1>4. Known /\ TypeOK' /\ RecordsInv /\ [Next]_vars => RecordsInv'
  BY RecordsNext
<1>5. RecordsInv => RecordsAgree
  BY DEF RecordsInv
<1> QED BY <1>1, <1>2, <1>3, <1>4, <1>5, PTL DEF Spec

-----------------------------------------------------------------------------
(* The refinement mapping *)

StraightEntry(row) == IF row.parlay # NoParlay THEN Nothing ELSE LedgerEntry(row)

\* A straight bet's entry and a parlay's.
LEMMA Entries ==
    /\ \A p \in PickIds : /\ <<"straight", p>> \in Keys
                          /\ LedgerBet[<<"straight", p>>] = StraightEntry(pick[p])
    /\ \A q \in ParlayIds : /\ <<"parlay", q>> \in Keys
                            /\ LedgerBet[<<"parlay", q>>] = LedgerEntry(parlay[q])
    /\ \A k \in Keys : \/ \E p \in PickIds : k = <<"straight", p>>
                       \/ \E q \in ParlayIds : k = <<"parlay", q>>
    /\ DOMAIN LedgerBet = Keys /\ LedgerBet = [k \in Keys |-> LedgerBet[k]]
BY DEF LedgerBet, Keys, StraightEntry

\* The same after a step.
LEMMA EntriesAfter ==
    /\ \A p \in PickIds : LedgerBet'[<<"straight", p>>] = StraightEntry(pick'[p])
    /\ \A q \in ParlayIds : LedgerBet'[<<"parlay", q>>] = LedgerEntry(parlay'[q])
    /\ LedgerBet' = [k \in Keys |-> LedgerBet'[k]]
BY DEF LedgerBet, Keys, StraightEntry, LedgerEntry

\* What an entry says of its row.
LEMMA EntryFields ==
    ASSUME NEW row
    PROVE  /\ row.result = Absent => LedgerEntry(row) = Nothing
           /\ row.result # Absent =>
                /\ LedgerEntry(row).user = row.user /\ LedgerEntry(row).stake = row.stake
                /\ LedgerEntry(row).back = row.back
                /\ LedgerEntry(row).state = IF row.result = Pending THEN "open" ELSE "settled"
           /\ Nothing.state = "none" /\ Nothing.back = 0
BY DEF LedgerEntry, Nothing

\* The ledger sums as the bankroll does.
LEMMA SameTotals == \A S, col : Ledger!Total(S, col) = Total(S, col)
<1>1. \A S : Ledger!Cardinality(S) = Cardinality(S)
  BY DEF Ledger!Cardinality, Cardinality
<1>2. \A S, col : Ledger!Coins(S, col) = Coins(S, col)
  BY DEF Ledger!Coins, Coins
<1> QED BY <1>1, <1>2 DEF Ledger!Total, Total

\* The ledger's free money is what the bankroll queries find available.
LEMMA FreeMoneyIsAvailable ==
    ASSUME TypeOK, OpenBack, NEW u \in Users
    PROVE  Ledger!FreeMoney(u) = AvailableOf(u)
<1> DEFINE s == StraightsOf(pick, u)
           l == ParlaysOf(parlay, u)
           S == Tagged("straight", s)
           L == Tagged("parlay", l)
           K == [k \in Keys |-> LedgerBet[k].stake]
           B == [k \in Keys |-> LedgerBet[k].back]
           O == {k \in Keys : LedgerBet[k].state # "none" /\ LedgerBet[k].user = u}
<1>1. s \in SUBSET PickIds /\ l \in SUBSET ParlayIds /\ IsFiniteSet(s) /\ IsFiniteSet(l)
  BY Ids, FS_Subset DEF StraightsOf, ParlaysOf
<1>2. /\ \A p \in PickIds : pick[p].stake \in Nat /\ pick[p].back \in Nat
      /\ \A q \in ParlayIds : parlay[q].stake \in Nat /\ parlay[q].back \in Nat
  BY DEF TypeOK, RowsOK, PickRow, ParlayRow
<1>3. \A p \in PickIds :
         LET k == <<"straight", p>> IN
         /\ k \in O <=> p \in s
         /\ p \in s => K[k] = pick[p].stake /\ B[k] = pick[p].back
  <2> SUFFICES ASSUME NEW p \in PickIds
               PROVE  LET k == <<"straight", p>> IN
                      /\ k \in O <=> p \in s
                      /\ p \in s => K[k] = pick[p].stake /\ B[k] = pick[p].back
    OBVIOUS
  <2> DEFINE k == <<"straight", p>>
  <2>1. k \in Keys /\ LedgerBet[k] = StraightEntry(pick[p])
    BY Entries
  <2>2. K[k] = LedgerBet[k].stake /\ B[k] = LedgerBet[k].back
    BY <2>1
  <2>3. k \in O <=> LedgerBet[k].state # "none" /\ LedgerBet[k].user = u
    BY <2>1
  <2> HIDE DEF k, K, B, O
  <2>4. CASE pick[p].parlay = NoParlay
    <3>1. LedgerBet[k] = LedgerEntry(pick[p])
      BY <2>1, <2>4 DEF StraightEntry
    <3> QED BY <2>2, <2>3, <2>4, <3>1, EntryFields DEF k, StraightsOf
  <2>5. CASE pick[p].parlay # NoParlay
    <3>1. LedgerBet[k] = Nothing /\ p \notin s
      BY <2>1, <2>5 DEF StraightEntry, StraightsOf
    <3> QED BY <2>3, <3>1, EntryFields DEF k
  <2> QED BY <2>4, <2>5
<1>4. \A q \in ParlayIds :
         LET k == <<"parlay", q>> IN
         /\ k \in O <=> q \in l
         /\ q \in l => K[k] = parlay[q].stake /\ B[k] = parlay[q].back
  <2> SUFFICES ASSUME NEW q \in ParlayIds
               PROVE  LET k == <<"parlay", q>> IN
                      /\ k \in O <=> q \in l
                      /\ q \in l => K[k] = parlay[q].stake /\ B[k] = parlay[q].back
    OBVIOUS
  <2> DEFINE k == <<"parlay", q>>
  <2>1. k \in Keys /\ LedgerBet[k] = LedgerEntry(parlay[q])
    BY Entries
  <2>2. K[k] = LedgerBet[k].stake /\ B[k] = LedgerBet[k].back
    BY <2>1
  <2>3. k \in O <=> LedgerBet[k].state # "none" /\ LedgerBet[k].user = u
    BY <2>1
  <2> HIDE DEF k, K, B, O
  <2> QED BY <2>1, <2>2, <2>3, EntryFields DEF k, ParlaysOf
<1>5. O = S \cup L /\ S \cap L = {}
  <2>0. /\ \A p \in PickIds : <<"straight", p>> \in S <=> p \in s
        /\ \A p \in PickIds : <<"straight", p>> \notin L
        /\ \A q \in ParlayIds : <<"parlay", q>> \in L <=> q \in l
        /\ \A q \in ParlayIds : <<"parlay", q>> \notin S
    BY DEF Tagged
  <2>1. \A k \in Keys : k \in O <=> k \in S \cup L
    <3> HIDE DEF O, S, L, s, l
    <3>1. /\ \A p \in PickIds : <<"straight", p>> \in O <=> <<"straight", p>> \in S \cup L
          /\ \A q \in ParlayIds : <<"parlay", q>> \in O <=> <<"parlay", q>> \in S \cup L
      BY <1>3, <1>4, <2>0
    <3> QED BY <3>1, Entries
  <2>2. S \subseteq Keys /\ L \subseteq Keys /\ O \subseteq Keys
    BY <1>1, Entries DEF Tagged
  <2>3. \A k \in Keys : ~ (k \in S /\ k \in L)
    <3> HIDE DEF S, L, s, l
    <3> QED BY <2>0, Entries
  <2> HIDE DEF S, L, O
  <2> QED BY <2>1, <2>2, <2>3
<1> HIDE DEF K, B, O
<1>6. /\ Total(S, K) = Total(s, StakeCol(PickIds, pick)) /\ IsFiniteSet(S)
      /\ Total(S, B) = Total(s, BackCol(PickIds, pick))
  <2> HIDE DEF s
  <2>1. \A p \in s : /\ StakeCol(PickIds, pick)[p] \in Nat /\ BackCol(PickIds, pick)[p] \in Nat
                     /\ K[<<"straight", p>>] = StakeCol(PickIds, pick)[p]
                     /\ B[<<"straight", p>>] = BackCol(PickIds, pick)[p]
    BY <1>1, <1>2, <1>3 DEF StakeCol, BackCol
  <2> DEFINE tag == "straight"
             stakes == StakeCol(PickIds, pick)
             backs == BackCol(PickIds, pick)
  <2>2. IsFiniteSet(s)
    BY <1>1
  <2>3. \A x \in s : stakes[x] \in Nat /\ K[<<tag, x>>] = stakes[x]
    BY <2>1
  <2>4. \A x \in s : backs[x] \in Nat /\ B[<<tag, x>>] = backs[x]
    BY <2>1
  <2> HIDE DEF s, K, B, tag, stakes, backs
  <2>5. Total(S, K) = Total(s, stakes) /\ IsFiniteSet(S)
    <3>1. S = Tagged(tag, s)
      BY DEF tag
    <3> HIDE DEF S
    <3> QED BY <2>2, <2>3, <3>1, TotalTagged
  <2>6. Total(S, B) = Total(s, backs)
    <3>1. S = Tagged(tag, s)
      BY DEF tag
    <3> HIDE DEF S
    <3> QED BY <2>2, <2>4, <3>1, TotalTagged
  <2> QED BY <2>5, <2>6 DEF stakes, backs
<1>7. /\ Total(L, K) = Total(l, StakeCol(ParlayIds, parlay)) /\ IsFiniteSet(L)
      /\ Total(L, B) = Total(l, BackCol(ParlayIds, parlay))
  <2> HIDE DEF l
  <2>1. \A q \in l : /\ StakeCol(ParlayIds, parlay)[q] \in Nat /\ BackCol(ParlayIds, parlay)[q] \in Nat
                     /\ K[<<"parlay", q>>] = StakeCol(ParlayIds, parlay)[q]
                     /\ B[<<"parlay", q>>] = BackCol(ParlayIds, parlay)[q]
    BY <1>1, <1>2, <1>4 DEF StakeCol, BackCol
  <2> DEFINE tag == "parlay"
             stakes == StakeCol(ParlayIds, parlay)
             backs == BackCol(ParlayIds, parlay)
  <2>2. IsFiniteSet(l)
    BY <1>1
  <2>3. \A x \in l : stakes[x] \in Nat /\ K[<<tag, x>>] = stakes[x]
    BY <2>1
  <2>4. \A x \in l : backs[x] \in Nat /\ B[<<tag, x>>] = backs[x]
    BY <2>1
  <2> HIDE DEF l, K, B, tag, stakes, backs
  <2>5. Total(L, K) = Total(l, stakes) /\ IsFiniteSet(L)
    <3>1. L = Tagged(tag, l)
      BY DEF tag
    <3> HIDE DEF L
    <3> QED BY <2>2, <2>3, <3>1, TotalTagged
  <2>6. Total(L, B) = Total(l, backs)
    <3>1. L = Tagged(tag, l)
      BY DEF tag
    <3> HIDE DEF L
    <3> QED BY <2>2, <2>4, <3>1, TotalTagged
  <2> QED BY <2>5, <2>6 DEF stakes, backs
<1>8. \A k \in S \cup L : K[k] \in Nat /\ B[k] \in Nat
  BY <1>1, <1>2, <1>3, <1>4 DEF Tagged
<1>9. /\ Total(O, K) = Total(S, K) + Total(L, K) /\ Total(O, B) = Total(S, B) + Total(L, B)
      /\ Total(S, K) \in Nat /\ Total(L, K) \in Nat /\ Total(S, B) \in Nat /\ Total(L, B) \in Nat
  <2> HIDE DEF S, L
  <2> QED BY <1>5, <1>6, <1>7, <1>8, TotalSplit, TotalType
<1>10. Ledger!FreeMoney(u) = StartingBalance + Total(O, B) - Total(O, K)
  <2>1. Ledger!Of(u) = O /\ Ledger!Stake = K /\ Ledger!Back = B
    BY DEF Ledger!Of, Ledger!Stake, Ledger!Back, K, B, O
  <2> QED BY <2>1, SameTotals DEF Ledger!FreeMoney
<1>11. AvailableOf(u) = StartingBalance + Net(PickIds, s, pick) + Net(ParlayIds, l, parlay)
  BY AvailableIsMoney DEF Money
<1> HIDE DEF S, L, s, l
<1>12. /\ Net(PickIds, s, pick) = Total(S, B) - Total(S, K)
       /\ Net(ParlayIds, l, parlay) = Total(L, B) - Total(L, K)
  BY <1>6, <1>7 DEF Net
<1> QED BY <1>9, <1>10, <1>11, <1>12, AmountAssumption

-----------------------------------------------------------------------------
(* Steps *)

\* Rows that are untouched are entries that are.
LEMMA InvisibleSteps ==
    ASSUME UNCHANGED <<pick, parlay>>
    PROVE  LedgerBet' = LedgerBet
BY DEF LedgerBet, LedgerEntry

\* Accepting a straight bet places one ledger bet.
LEMMA PlacePickPlaces ==
    ASSUME TypeOK, TypeOK', OpenBack, SeenCovered,
           NEW r \in Requests, NEW p \in PickIds, NEW g \in Games, NEW side \in Sides,
           NEW stake \in Stakes, NEW dec \in Decimals, PlacePick(r, p, g, side, stake, dec)
    PROVE  \E k \in Keys : Ledger!Place(k)
<1> DEFINE k == <<"straight", p>>
           v == rq[r].user
<1>1. /\ pick[p].result = Absent /\ parlay' = parlay
      /\ pick'[p].user = v /\ pick'[p].stake = stake /\ pick'[p].back = 0
      /\ pick'[p].result = Pending /\ pick'[p].parlay = NoParlay
      /\ \A x \in PickIds \ {p} : pick'[x] = pick[x]
  BY DEF PlacePick, NextPickIds, TypeOK, RowsOK, Picked
<1>2. k \in Keys /\ LedgerBet[k].state = "none"
  BY <1>1, Entries, EntryFields DEF StraightEntry
<1>3. /\ LedgerBet'[k].state = "open" /\ LedgerBet'[k].back = 0
      /\ LedgerBet'[k].user = v /\ LedgerBet'[k].stake = stake
  BY <1>1, EntriesAfter, EntryFields DEF StraightEntry, Pending, Absent
<1>4. \A j \in Keys \ {k} : LedgerBet'[j] = LedgerBet[j]
  <2>1. ASSUME NEW x \in PickIds \ {p}
        PROVE  LedgerBet'[<<"straight", x>>] = LedgerBet[<<"straight", x>>]
    <3>1. StraightEntry(pick'[x]) = StraightEntry(pick[x])
      BY <1>1
    <3> QED BY <3>1, Entries, EntriesAfter
  <2>2. ASSUME NEW q \in ParlayIds
        PROVE  LedgerBet'[<<"parlay", q>>] = LedgerBet[<<"parlay", q>>]
    <3>1. LedgerEntry(parlay'[q]) = LedgerEntry(parlay[q])
      BY <1>1
    <3> QED BY <3>1, Entries, EntriesAfter
  <2> QED BY <2>1, <2>2, Entries
<1>5. stake <= Ledger!FreeMoney(v)
  <2>1. v \in Users /\ rq[r].pc = "checked" /\ stake <= rq[r].seen
    BY DEF PlacePick, Affordable, TypeOK, RequestsOK, RequestState
  <2>2. Ledger!FreeMoney(v) = AvailableOf(v) /\ AvailableOf(v) \in Int
    BY <2>1, FreeMoneyIsAvailable, AvailableType DEF TypeOK
  <2> DEFINE seen == rq[r].seen
             free == AvailableOf(v)
  <2>3. seen <= free /\ seen \in Int /\ free \in Int
    BY <2>1, <2>2 DEF SeenCovered, TypeOK, RequestsOK, RequestState
  <2>4. stake \in Int /\ stake <= seen
    <3>1. stake \in Int
      BY AmountAssumption
    <3> QED BY <2>1, <3>1
  <2> HIDE DEF seen, free
  <2>5. stake <= free
    BY <2>3, <2>4
  <2> QED BY <2>2, <2>5 DEF free
<1> HIDE DEF k
<1> QED BY <1>2, <1>3, <1>4, <1>5 DEF Ledger!Place, Ledger!Same

\* So does accepting a parlay: its legs are no bets.
LEMMA PlaceParlayPlaces ==
    ASSUME TypeOK, TypeOK', OpenBack, SeenCovered,
           NEW r \in Requests, NEW q \in ParlayIds, NEW legs \in SUBSET PickIds,
           NEW leg \in [legs -> Legs], NEW stake \in Stakes, NEW dec \in Decimals,
           PlaceParlay(r, q, leg, stake, dec)
    PROVE  \E k \in Keys : Ledger!Place(k)
<1> DEFINE k == <<"parlay", q>>
           v == rq[r].user
<1>1. /\ parlay[q].result = Absent
      /\ parlay'[q].user = v /\ parlay'[q].stake = stake /\ parlay'[q].back = 0
      /\ parlay'[q].result = Pending
      /\ \A x \in ParlayIds \ {q} : parlay'[x] = parlay[x]
  BY DEF PlaceParlay, TypeOK, RowsOK, Parlayed
<1>2. /\ \A x \in legs : pick[x].result = Absent /\ pick'[x].parlay = q
      /\ \A x \in PickIds \ legs : pick'[x] = pick[x]
      /\ q # NoParlay
  <2>1. q # NoParlay
    BY IdsAssumption DEF ParlayIds, NoParlay
  <2>2. \A x \in legs : pick[x].result = Absent
    BY DEF PlaceParlay, NextPickIds, Picked
  <2> QED BY <2>1, <2>2 DEF PlaceParlay
<1>3. k \in Keys /\ LedgerBet[k].state = "none"
  BY <1>1, Entries, EntryFields
<1>4. /\ LedgerBet'[k].state = "open" /\ LedgerBet'[k].back = 0
      /\ LedgerBet'[k].user = v /\ LedgerBet'[k].stake = stake
  BY <1>1, EntriesAfter, EntryFields DEF Pending, Absent
<1>5. \A x \in PickIds : StraightEntry(pick'[x]) = StraightEntry(pick[x])
  BY <1>2, EntryFields DEF StraightEntry
<1>6. \A j \in Keys \ {k} : LedgerBet'[j] = LedgerBet[j]
  <2>1. ASSUME NEW x \in PickIds
        PROVE  LedgerBet'[<<"straight", x>>] = LedgerBet[<<"straight", x>>]
    <3>1. StraightEntry(pick'[x]) = StraightEntry(pick[x])
      BY <1>5
    <3>2. LedgerBet[<<"straight", x>>] = StraightEntry(pick[x])
      BY Entries
    <3>3. LedgerBet'[<<"straight", x>>] = StraightEntry(pick'[x])
      BY EntriesAfter
    <3> QED BY <3>1, <3>2, <3>3
  <2>2. ASSUME NEW x \in ParlayIds \ {q}
        PROVE  LedgerBet'[<<"parlay", x>>] = LedgerBet[<<"parlay", x>>]
    <3>1. LedgerEntry(parlay'[x]) = LedgerEntry(parlay[x])
      BY <1>1
    <3> QED BY <3>1, Entries, EntriesAfter
  <2> QED BY <2>1, <2>2, Entries
<1>7. stake <= Ledger!FreeMoney(v)
  <2>1. v \in Users /\ rq[r].pc = "checked parlay" /\ stake <= rq[r].seen
    BY DEF PlaceParlay, Affordable, TypeOK, RequestsOK, RequestState
  <2>2. Ledger!FreeMoney(v) = AvailableOf(v) /\ AvailableOf(v) \in Int
    BY <2>1, FreeMoneyIsAvailable, AvailableType DEF TypeOK
  <2> DEFINE seen == rq[r].seen
             free == AvailableOf(v)
  <2>3. seen <= free /\ seen \in Int /\ free \in Int
    BY <2>1, <2>2 DEF SeenCovered, TypeOK, RequestsOK, RequestState
  <2>4. stake \in Int /\ stake <= seen
    <3>1. stake \in Int
      BY AmountAssumption
    <3> QED BY <2>1, <3>1
  <2> HIDE DEF seen, free
  <2>5. stake <= free
    BY <2>3, <2>4
  <2> QED BY <2>2, <2>5 DEF free
<1> HIDE DEF k
<1> QED BY <1>3, <1>4, <1>6, <1>7 DEF Ledger!Place, Ledger!Same

\* A row as it was, or settled from open with its player and stake kept.
SettledFrom(old, new) ==
    \/ new = old
    \/ /\ old.result = Pending /\ new.result \notin {Absent, Pending}
       /\ new.user = old.user /\ new.stake = old.stake /\ new.back >= 0

\* Settling open rows settles the ledger bets they are; settling legs only is
\* invisible.
LEMMA SettlingSettles ==
    ASSUME \A p \in PickIds : /\ SettledFrom(pick[p], pick'[p])
                              /\ pick'[p].parlay = pick[p].parlay,
           \A q \in ParlayIds : SettledFrom(parlay[q], parlay'[q])
    PROVE  (\E S \in SUBSET Keys : Ledger!Settle(S)) \/ LedgerBet' = LedgerBet
<1> DEFINE S == {k \in Keys : LedgerBet'[k] # LedgerBet[k]}
<1>1. CASE S = {}
  <2>1. \A k \in Keys : LedgerBet'[k] = LedgerBet[k]
    BY <1>1
  <2> QED BY <2>1, Entries, EntriesAfter
<1>2. CASE S # {}
  <2>1. ASSUME NEW old, NEW new, SettledFrom(old, new), LedgerEntry(new) # LedgerEntry(old)
        PROVE  /\ LedgerEntry(old).state = "open" /\ LedgerEntry(new).state = "settled"
               /\ LedgerEntry(new).user = LedgerEntry(old).user
               /\ LedgerEntry(new).stake = LedgerEntry(old).stake
               /\ LedgerEntry(new).back >= 0
    BY <2>1, EntryFields DEF SettledFrom, Pending, Absent
  <2>2. ASSUME NEW k \in S
        PROVE  /\ LedgerBet[k].state = "open" /\ LedgerBet'[k].state = "settled"
               /\ LedgerBet'[k].user = LedgerBet[k].user
               /\ LedgerBet'[k].stake = LedgerBet[k].stake
               /\ LedgerBet'[k].back >= 0
    <3>1. ASSUME NEW p \in PickIds, k = <<"straight", p>>
          PROVE  \E old, new : /\ SettledFrom(old, new)
                               /\ LedgerBet[k] = LedgerEntry(old) /\ LedgerBet'[k] = LedgerEntry(new)
      <4>1. LedgerBet[k] = StraightEntry(pick[p]) /\ LedgerBet'[k] = StraightEntry(pick'[p])
        BY <3>1, Entries, EntriesAfter
      <4>2. pick[p].parlay = NoParlay /\ pick'[p].parlay = NoParlay
        BY <2>2, <4>1 DEF StraightEntry
      <4>3. LedgerBet[k] = LedgerEntry(pick[p]) /\ LedgerBet'[k] = LedgerEntry(pick'[p])
        BY <4>1, <4>2 DEF StraightEntry
      <4> QED BY <4>3
    <3>2. ASSUME NEW q \in ParlayIds, k = <<"parlay", q>>
          PROVE  \E old, new : /\ SettledFrom(old, new)
                               /\ LedgerBet[k] = LedgerEntry(old) /\ LedgerBet'[k] = LedgerEntry(new)
      <4>1. LedgerBet[k] = LedgerEntry(parlay[q]) /\ LedgerBet'[k] = LedgerEntry(parlay'[q])
        BY <3>2, Entries, EntriesAfter
      <4> QED BY <4>1
    <3>3. PICK old, new : /\ SettledFrom(old, new)
                          /\ LedgerBet[k] = LedgerEntry(old) /\ LedgerBet'[k] = LedgerEntry(new)
      BY <3>1, <3>2, Entries
    <3>4. LedgerBet'[k] # LedgerBet[k]
      BY <2>2
    <3> QED BY <2>1, <3>3, <3>4
  <2>3. \A k \in Keys \ S : LedgerBet'[k] = LedgerBet[k]
    OBVIOUS
  <2>4. S \in SUBSET Keys
    OBVIOUS
  <2> HIDE DEF S
  <2>5. Ledger!Settle(S)
    BY <1>2, <2>2, <2>3 DEF Ledger!Settle, Ledger!Same
  <2> QED BY <2>4, <2>5
<1> QED BY <1>1, <1>2

\* Every step is one of the ledger's, or invisible to it.
LEMMA LedgerNext ==
    ASSUME TypeOK, TypeOK', SafeInv, OnePassInv, [Next]_vars
    PROVE  Ledger!Next \/ LedgerBet' = LedgerBet
<1>1. ASSUME NEW r \in Requests, Place(r) PROVE Ledger!Next
  <2>1. \E k \in Keys : Ledger!Place(k)
    BY <1>1, PlacePickPlaces, PlaceParlayPlaces DEF Place, OnePassInv
  <2> QED BY <2>1 DEF Ledger!Next
<1>2. ASSUME \A p \in PickIds : /\ SettledFrom(pick[p], pick'[p])
                                /\ pick'[p].parlay = pick[p].parlay,
             \A q \in ParlayIds : SettledFrom(parlay[q], parlay'[q])
      PROVE  Ledger!Next \/ LedgerBet' = LedgerBet
  BY <1>2, SettlingSettles DEF Ledger!Next
<1>3. /\ \A p \in PickIds : pick'[p].back >= 0
      /\ \A q \in ParlayIds : parlay'[q].back >= 0
  BY DEF TypeOK, RowsOK, PickRow, ParlayRow
<1>4. ASSUME NEW r \in Requests, NEW offer \in 1..MaxOffer, CashOut(r, offer)
      PROVE  Ledger!Next \/ LedgerBet' = LedgerBet
  <2>1. \A p \in PickIds : /\ SettledFrom(pick[p], pick'[p])
                           /\ pick'[p].parlay = pick[p].parlay
    BY <1>3, <1>4, CashedRows, CashOutOpen DEF SafeInv, SettledFrom, Absent, Pending
  <2>2. \A q \in ParlayIds : SettledFrom(parlay[q], parlay'[q])
    BY <1>3, <1>4, CashedRows, CashOutOpen DEF SafeInv, SettledFrom, Absent, Pending
  <2> QED BY <1>2, <2>1, <2>2
<1>5. ASSUME NEW g \in Graders, CommitGrades(g)
      PROVE  Ledger!Next \/ LedgerBet' = LedgerBet
  <2>1. \A p \in PickIds : /\ SettledFrom(pick[p], pick'[p])
                           /\ pick'[p].parlay = pick[p].parlay
    BY <1>3, <1>5, CommittedRows DEF OnePassInv, VerdictFresh, SettledFrom, Graded, Absent,
                                     Pending
  <2>2. \A q \in ParlayIds : SettledFrom(parlay[q], parlay'[q])
    BY <1>5, CommittedRows DEF SettledFrom
  <2> QED BY <1>2, <2>1, <2>2
<1>6. ASSUME NEW g \in Graders, CommitParlays(g)
      PROVE  Ledger!Next \/ LedgerBet' = LedgerBet
  <2>1. \A p \in PickIds : /\ SettledFrom(pick[p], pick'[p])
                           /\ pick'[p].parlay = pick[p].parlay
    BY <1>6, CommittedRows DEF SettledFrom
  <2>2. \A q \in ParlayIds : SettledFrom(parlay[q], parlay'[q])
    BY <1>3, <1>6, CommittedRows
       DEF OnePassInv, ParlayVerdictFresh, SettledFrom, Graded, Absent, Pending
  <2> QED BY <1>2, <2>1, <2>2
<1>7. ASSUME NEW g \in Graders,
             \/ ReadPending(g) \/ GradeProps(g) \/ PushUngradeable(g)
             \/ ReadParlays(g) \/ ReadLegRows(g) \/ Abort(g)
      PROVE  UNCHANGED <<pick, parlay>>
  BY <1>7 DEF ReadPending, GradeProps, GradeProp, PushUngradeable, ReadParlays, ReadLegRows,
              ReadLegsOf, Abort, rows
<1> QED BY <1>1, <1>4, <1>5, <1>6, <1>7, QuietSteps, InvisibleSteps DEF Quiet

\* At the start there is no bet.
LEMMA LedgerInit == Init => Ledger!Init
<1> SUFFICES ASSUME Init PROVE \A k \in Keys : LedgerBet[k].state = "none"
  BY DEF Ledger!Init
<1>1. /\ \A p \in PickIds : pick[p].result = Absent
      /\ \A q \in ParlayIds : parlay[q].result = Absent
  BY DEF Init, NoPick, NoParlayRow
<1>2. /\ \A p \in PickIds : StraightEntry(pick[p]) = Nothing
      /\ \A q \in ParlayIds : LedgerEntry(parlay[q]) = Nothing
  BY <1>1, EntryFields DEF StraightEntry
<1>3. \A k \in Keys : LedgerBet[k] = Nothing
  BY <1>2, Entries
<1>4. Nothing.state = "none"
  BY EntryFields
<1> QED BY <1>3, <1>4

\* With one pass at a time, whatever requests and the pass do step by step, the
\* bankroll sees bets accepted within the free money and settled once.
THEOREM Implements == ASSUME OneGrader PROVE Spec => ImplementsLedger
<1>1. TypeOK /\ SafeInv /\ OnePassInv /\ TypeOK' /\ [Next]_vars => [Ledger!Next]_LedgerBet
  BY LedgerNext
<1> QED BY <1>1, LedgerInit, OnePass, PTL DEF Spec, ImplementsLedger, Ledger!Spec
=============================================================================
