--------------------------- MODULE PinGuardProofs ---------------------------
(***************************************************************************)
(* The PIN guard bounds the PINs compared within a lock's length, however  *)
(* many threads compare at once and whenever time passes; no bet outlives  *)
(* the account whose PIN allowed it, whatever request wrote first, and     *)
(* the stored streak and the figures of all pages agree with the bets      *)
(* (Accounts); and a published pick of a prop is what a book was offering  *)
(* (PropPicks).                                                            *)
(***************************************************************************)
EXTENDS PinGuard, FiniteSetTheorems, SequenceTheorems, WellFoundedInduction, TLAPS

\* While there is no lock the attempts that are not cleared are all counted;
\* beside a lock, none is younger than the lock.
PinInv ==
    /\ failures \in 0 .. MAX_FAILURES
    /\ left \in {None} \cup 0 .. LOCK_FOR
    /\ recent \in [Ages -> Nat]
    /\ left = None => failures < MAX_FAILURES /\ Total(Ages, recent) <= failures
    /\ left # None => \A age \in Ages : age < LOCK_FOR - left => recent[age] = 0
    /\ GuessesBounded

-----------------------------------------------------------------------------
LEMMA AgesFinite ==
    ASSUME Limits
    PROVE  IsFiniteSet(Ages) /\ 0 \in Ages
<1>1. 0 \in Int /\ LOCK_FOR - 1 \in Int
  BY DEF Limits
<1>2. IsFiniteSet(0 .. LOCK_FOR - 1)
  BY <1>1, FS_Interval
<1> QED BY <1>2 DEF Ages, Limits

\* The attempts of a lock's length are finitely many.
LEMMA AttemptsFinite ==
    ASSUME Limits, NEW col \in [Ages -> Nat]
    PROVE  IsFiniteSet(Coins(Ages, col)) /\ Total(Ages, col) \in Nat
<1> DEFINE Of(age) == {age} \X (1 .. col[age])
           all == [age \in Ages |-> Of(age)]
           P == {Of(age) : age \in Ages}
<1>1. IsFiniteSet(P)
  <2>1. all \in Surjection(Ages, P)
    BY DEF Surjection
  <2> QED BY <2>1, AgesFinite, FS_Surjection
<1>2. ASSUME NEW age \in Ages PROVE IsFiniteSet(Of(age))
  <2>1. 1 \in Int /\ col[age] \in Int
    OBVIOUS
  <2>2. IsFiniteSet({age}) /\ IsFiniteSet(1 .. col[age])
    BY <2>1, FS_Interval, FS_Singleton
  <2> QED BY <2>2, FS_Product
<1>3. Coins(Ages, col) = UNION P
  BY DEF Coins
<1>4. IsFiniteSet(UNION P)
  <2>1. \A T \in P : IsFiniteSet(T)
    BY <1>2
  <2> HIDE DEF P
  <2> QED BY <1>1, <2>1, FS_UNION
<1> HIDE DEF P
<1> QED BY <1>3, <1>4, FS_CardinalityType DEF Total

\* No attempts sum to none.
LEMMA NoneCounted ==
    ASSUME NEW col, \A age \in Ages : col[age] = 0
    PROVE  Total(Ages, col) = 0
<1>1. Coins(Ages, col) = {}
  BY DEF Coins
<1> QED BY <1>1, FS_EmptySet DEF Total

\* One attempt more.
LEMMA OneMore ==
    ASSUME Limits, NEW col \in [Ages -> Nat]
    PROVE  Total(Ages, [col EXCEPT ![0] = @ + 1]) = Total(Ages, col) + 1
<1> DEFINE alt == [col EXCEPT ![0] = @ + 1]
           new == <<0, col[0] + 1>>
<1>1. /\ 0 \in Ages /\ col[0] \in Nat /\ alt[0] = col[0] + 1
      /\ \A age \in Ages \ {0} : alt[age] = col[age]
  BY AgesFinite
<1>2. 1 .. alt[0] = (1 .. col[0]) \cup {col[0] + 1} /\ col[0] + 1 \notin 1 .. col[0]
  BY <1>1
<1> HIDE DEF alt
<1>3. new \notin Coins(Ages, col)
  BY <1>2 DEF Coins
<1>4. Coins(Ages, alt) = Coins(Ages, col) \cup {new}
  BY <1>1, <1>2 DEF Coins
<1> QED BY <1>3, <1>4, AttemptsFinite, FS_AddElement DEF Total, alt

\* As time passes attempts grow older, or too old.
LEMMA Older ==
    ASSUME Limits, NEW col \in [Ages -> Nat]
    PROVE  Total(Ages, [age \in Ages |-> IF age = 0 THEN 0 ELSE col[age - 1]]) <= Total(Ages, col)
<1> DEFINE alt == [age \in Ages |-> IF age = 0 THEN 0 ELSE col[age - 1]]
           C == Coins(Ages, alt)
           D == Coins(Ages, col)
           f == [c \in C |-> <<c[1] - 1, c[2]>>]
<1>1. \A age \in Ages \ {0} : age \in Int /\ age - 1 \in Ages
  BY DEF Ages, Limits
<1>2. \A age \in Ages : alt[age] = IF age = 0 THEN 0 ELSE col[age - 1]
  OBVIOUS
<1> HIDE DEF alt
<1>3. /\ \A c \in C : /\ c = <<c[1], c[2]>> /\ c[1] \in Ages \ {0}
                      /\ c[2] \in 1 .. col[c[1] - 1]
      /\ \A age \in Ages : \A i \in 1 .. col[age] : <<age, i>> \in D
  <2>1. \A c \in C : c = <<c[1], c[2]>> /\ c[1] \in Ages /\ c[2] \in 1 .. alt[c[1]]
    BY DEF Coins
  <2>2. \A age \in Ages : \A i \in 1 .. col[age] : <<age, i>> \in D
    BY DEF Coins
  <2> QED BY <1>2, <2>1, <2>2
<1>4. IsFiniteSet(D)
  BY AttemptsFinite
<1> HIDE DEF C, D
<1>5. f \in [C -> D]
  BY <1>1, <1>3
<1>6. ASSUME NEW a \in C, NEW b \in C, f[a] = f[b] PROVE a = b
  <2>1. a[1] - 1 = b[1] - 1 /\ a[2] = b[2]
    BY <1>6
  <2>2. a[1] = b[1]
    BY <1>1, <1>3, <2>1
  <2> QED BY <1>3, <2>1, <2>2
<1>7. f \in Injection(C, D)
  BY <1>5, <1>6 DEF Injection, IsInjective
<1>8. Cardinality(C) <= Cardinality(D)
  BY <1>4, <1>7, FS_Injection
<1> QED BY <1>8 DEF Total, C, D, alt

-----------------------------------------------------------------------------
LEMMA PinInit ==
    ASSUME Limits, Init
    PROVE  PinInv
<1>1. recent \in [Ages -> Nat] /\ \A age \in Ages : recent[age] = 0
  BY DEF Init, NoAttempts
<1>2. Total(Ages, recent) = 0
  BY <1>1, NoneCounted
<1> QED BY <1>1, <1>2 DEF Init, PinInv, GuessesBounded, Limits

\* A right PIN and the owner take the count, the lock and the attempts with them.
LEMMA ClearKeeps ==
    ASSUME Limits, Clear
    PROVE  PinInv'
<1>1. recent' \in [Ages -> Nat] /\ \A age \in Ages : recent'[age] = 0
  BY DEF Clear, NoAttempts
<1>2. Total(Ages, recent') = 0
  BY <1>1, NoneCounted
<1> QED BY <1>1, <1>2 DEF Clear, PinInv, GuessesBounded, Limits, Ages

LEMMA SameKeeps ==
    ASSUME PinInv, UNCHANGED <<failures, left, recent>>
    PROVE  PinInv'
BY DEF PinInv, GuessesBounded, Ages

\* An attempt is let through when the ones that count are fewer than the limit,
\* or the lock is over and with it all of them.
LEMMA ReserveKeeps ==
    ASSUME Limits, PinInv, NEW t \in Threads, Reserve(t)
    PROVE  PinInv'
<1>1. CASE Locked
  BY <1>1, SameKeeps DEF Reserve
<1>2. CASE ~ Locked
  <2>1. /\ failures' = Counted + 1
        /\ left' = IF Counted + 1 >= MAX_FAILURES THEN LOCK_FOR ELSE None
        /\ recent' = [recent EXCEPT ![0] = @ + 1]
    BY <1>2 DEF Reserve
  <2>2. recent \in [Ages -> Nat] /\ recent' \in [Ages -> Nat]
    BY <2>1, AgesFinite DEF PinInv
  <2>3. Total(Ages, recent') = Total(Ages, recent) + 1 /\ Total(Ages, recent) \in Nat
    BY <2>1, <2>2, OneMore, AttemptsFinite
  <2>4. Counted \in Nat /\ Counted < MAX_FAILURES /\ Total(Ages, recent) <= Counted
    <3>1. CASE left = None
      BY <3>1 DEF PinInv, Counted, Limits
    <3>2. CASE left # None
      <4>1. left = 0
        BY <1>2, <3>2 DEF Locked, PinInv, Limits
      <4>2. \A age \in Ages : recent[age] = 0
        BY <3>2, <4>1 DEF PinInv, Ages, Limits
      <4>3. Total(Ages, recent) = 0
        BY <4>2, NoneCounted
      <4> QED BY <4>1, <4>3 DEF Counted, Limits
    <3> QED BY <3>1, <3>2
  <2>5. failures' \in 0 .. MAX_FAILURES /\ Total(Ages, recent') <= failures'
    BY <2>1, <2>3, <2>4 DEF Limits
  <2>6. left' = None => failures' < MAX_FAILURES
    BY <2>1, <2>4 DEF Limits
  <2>7. left' # None => left' = LOCK_FOR
    BY <2>1
  <2>8. left' \in {None} \cup 0 .. LOCK_FOR
    BY <2>1 DEF Limits
  <2>9. Total(Ages, recent') <= MAX_FAILURES
    BY <2>3, <2>5 DEF Limits
  <2>10. left' # None => \A age \in Ages : ~ (age < LOCK_FOR - left')
    BY <2>7 DEF Ages, Limits
  <2> QED BY <2>2, <2>5, <2>6, <2>8, <2>9, <2>10 DEF PinInv, GuessesBounded, Ages
<1> QED BY <1>1, <1>2

\* A lock and the attempts before it grow old together.
LEMMA TickKeeps ==
    ASSUME Limits, PinInv, Tick
    PROVE  PinInv'
<1>1. /\ recent' = [age \in Ages |-> IF age = 0 THEN 0 ELSE recent[age - 1]]
      /\ left' = (IF Locked THEN left - 1 ELSE left) /\ failures' = failures
  BY DEF Tick
<1>2. recent \in [Ages -> Nat] /\ recent' \in [Ages -> Nat]
  <2>1. recent \in [Ages -> Nat] /\ \A age \in Ages \ {0} : age - 1 \in Ages
    BY DEF PinInv, Ages, Limits
  <2>2. \A age \in Ages : (IF age = 0 THEN 0 ELSE recent[age - 1]) \in Nat
    BY <2>1
  <2> QED BY <1>1, <2>1, <2>2
<1>3. /\ Total(Ages, recent') <= Total(Ages, recent)
      /\ Total(Ages, recent) \in Nat /\ Total(Ages, recent') \in Nat
  BY <1>1, <1>2, Older, AttemptsFinite
<1>4. CASE left = None
  BY <1>1, <1>2, <1>3, <1>4 DEF PinInv, GuessesBounded, Locked, Limits, Ages
<1>5. CASE left # None
  <2>1. left \in 0 .. LOCK_FOR /\ left' \in 0 .. LOCK_FOR /\ left' >= left - 1
    BY <1>1, <1>5 DEF PinInv, Locked, Limits
  <2>2. ASSUME NEW age \in Ages, age < LOCK_FOR - left' PROVE recent'[age] = 0
    <3>1. CASE age = 0
      BY <1>1, <3>1
    <3>2. CASE age # 0
      <4>1. age - 1 \in Ages /\ age - 1 < LOCK_FOR - left
        <5>1. age \in 1 .. LOCK_FOR - 1 /\ LOCK_FOR \in Nat
          BY <3>2 DEF Ages, Limits
        <5>2. age - 1 \in 0 .. LOCK_FOR - 1
          BY <5>1
        <5>3. left \in Int /\ left' \in Int /\ left' >= left - 1
          BY <2>1 DEF Limits
        <5>4. age - 1 < LOCK_FOR - left
          <6>1. \A a, n, l, m \in Int : a < n - m /\ m >= l - 1 => a - 1 < n - l
            OBVIOUS
          <6>2. age \in Int /\ LOCK_FOR \in Int
            BY <5>1
          <6> QED BY <2>2, <5>3, <6>1, <6>2
        <5> QED BY <5>2, <5>4 DEF Ages
      <4> QED BY <1>1, <1>5, <3>2, <4>1 DEF PinInv
    <3> QED BY <3>1, <3>2
  <2>3. left' # None
    BY <2>1 DEF Limits
  <2> QED BY <1>1, <1>2, <1>3, <2>1, <2>2, <2>3 DEF PinInv, GuessesBounded, Limits, Ages
<1> QED BY <1>4, <1>5

LEMMA PinNext ==
    ASSUME Limits, PinInv, [Next]_vars
    PROVE  PinInv'
<1>1. ASSUME NEW t \in Threads, Request(t) \/ FirstPin(t) PROVE PinInv'
  BY <1>1, SameKeeps DEF Request, FirstPin
<1>2. ASSUME NEW t \in Threads, Reserve(t) PROVE PinInv'
  BY <1>2, ReserveKeeps
<1>3. ASSUME NEW t \in Threads, Compare(t) PROVE PinInv'
  BY <1>3, ClearKeeps, SameKeeps DEF Compare
<1>4. CASE reset_pin
  BY <1>4, ClearKeeps DEF reset_pin
<1>5. CASE Tick
  BY <1>5, TickKeeps
<1>6. CASE UNCHANGED vars
  BY <1>6, SameKeeps DEF vars
<1> QED BY <1>1, <1>2, <1>3, <1>4, <1>5, <1>6 DEF Next

\* However many requests run at once, no more than MAX_FAILURES PINs are
\* compared within a lock's length, unless a right one or the owner came between.
THEOREM FewGuesses == ASSUME Limits PROVE Spec => []GuessesBounded
<1>1. Init => PinInv
  BY PinInit
<1>2. PinInv /\ [Next]_vars => PinInv'
  BY PinNext
<1>3. PinInv => GuessesBounded
  BY DEF PinInv
<1> QED BY <1>1, <1>2, <1>3, PTL DEF Spec

\* Whatever the threads do, a thread's place, the PINs it carries, the stored one and the
\* guard's counters are of their types.
THEOREM PinsTypeCorrect == ASSUME Limits PROVE Spec => []TypeOK
<1> DEFINE Known == Pins \cup {None}
           Typed == /\ stored \in Known
                    /\ request \in [Threads -> [pc : {"idle", "read", "compare"}, seen : Known, pin : Known]]
<1>1. Init => Typed
  BY DEF Init, Idle
<1>2. Typed /\ [Next]_vars => Typed'
  <2> SUFFICES ASSUME Typed, [Next]_vars PROVE Typed'
    OBVIOUS
  <2> USE DEF Idle
  <2>1. ASSUME NEW t \in Threads, Request(t) \/ FirstPin(t) PROVE Typed'
    BY <2>1 DEF Request, FirstPin
  <2>2. ASSUME NEW t \in Threads, Reserve(t) \/ Compare(t) PROVE Typed'
    BY <2>2 DEF Reserve, Compare
  <2>3. CASE reset_pin \/ Tick \/ UNCHANGED vars
    BY <2>3 DEF reset_pin, Tick, vars
  <2> QED BY <2>1, <2>2, <2>3 DEF Next
<1>3. Typed /\ PinInv => TypeOK
  BY DEF PinInv, TypeOK
<1>4. Init => PinInv
  BY PinInit
<1>5. PinInv /\ [Next]_vars => PinInv'
  BY PinNext
<1> QED BY <1>1, <1>2, <1>3, <1>4, <1>5, PTL DEF Spec

-----------------------------------------------------------------------------
(* The players' rows: what is placed, deleted and settled of them, by        *)
(* requests that loaded the player before they wrote.                        *)
CONSTANTS Names, Folded, Stakes, Starting, MaxUsers, MaxPicks, MaxParlays, MaxDay
VARIABLES users, picks, parlays, requests, today, missed
Users == INSTANCE Accounts

AccountRows ==
    /\ users \in [1 .. MaxUsers -> Users!UserRows \cup {None}]
    /\ picks \in [1 .. MaxPicks -> Users!PickRows \cup {None}]
    /\ parlays \in [1 .. MaxParlays -> Users!ParlayRows \cup {None}]
    /\ today \in Nat
    /\ requests = [t \in Threads |-> requests[t]]
    /\ \A t \in Threads : requests[t] # None /\ requests[t].op = "create" => requests[t].name \in Names

\* A player whose streaks are to be refreshed is there; a bet's player is, and a leg's parlay,
\* which is the same player's and has two legs.
Kept ==
    /\ missed \subseteq Users!Players
    /\ \A i \in Users!Rows(picks) :
           /\ picks[i].user \in Users!Players
           /\ picks[i].parlay # None => /\ picks[i].parlay \in Users!Rows(parlays)
                                        /\ parlays[picks[i].parlay].user = picks[i].user
    /\ \A p \in Users!Rows(parlays) : parlays[p].user \in Users!Players /\ Cardinality(Users!Legs(p)) = 2

AccountInv == AccountRows /\ Kept

LEMMA AccountCount == \A S : Users!Cardinality(S) = Cardinality(S)
  BY DEF Users!Cardinality, Cardinality

\* The greatest of some numbers is one of them.
LEMMA GreatestNumber ==
    ASSUME NEW S \in SUBSET Nat, IsFiniteSet(S), S # {}
    PROVE  Users!Max(S) \in S /\ \A j \in S : Users!Max(S) >= j
<1> DEFINE Above(i) == {j \in S : j > i}
           N == Cardinality(S)
           f == [i \in S |-> Cardinality(Above(i))]
<1>1. IsFiniteSet(S) /\ N \in Nat /\ S \in SUBSET Nat
  BY FS_CardinalityType
<1>2. ASSUME NEW i \in S
      PROVE  Cardinality(Above(i)) \in Nat /\ Cardinality(Above(i)) < N /\ IsFiniteSet(Above(i))
             /\ (Above(i) # {} => Cardinality(Above(i)) # 0)
  <2>1. Above(i) \in SUBSET S /\ Above(i) # S
    <3>1. ~(i > i)
      BY <1>1
    <3> QED
      BY <3>1
  <2>2. IsFiniteSet(Above(i)) /\ Cardinality(Above(i)) <= N /\ Cardinality(Above(i)) # N
    BY <1>1, <2>1, FS_Subset
  <2> HIDE DEF Above
  <2> QED
    BY <1>1, <2>2, FS_CardinalityType, FS_EmptySet
<1>3. ASSUME NEW i \in S, NEW j \in S, i < j PROVE Cardinality(Above(i)) # Cardinality(Above(j))
  <2>1. i \in Nat /\ j \in Nat /\ ~(j > j) /\ j > i
    BY <1>1, <1>3
  <2>2. \A k \in S : k > j => k > i
    BY <1>1, <2>1
  <2>3. Above(j) \in SUBSET Above(i) /\ j \in Above(i) /\ j \notin Above(j)
    BY <2>1, <2>2
  <2>4. IsFiniteSet(Above(i))
    BY <1>2
  <2> HIDE DEF Above
  <2> QED
    BY <2>3, <2>4, FS_Subset
<1>4. \E i \in S : Above(i) = {}
  <2> SUFFICES ASSUME \A i \in S : Above(i) # {} PROVE FALSE
    OBVIOUS
  <2> HIDE DEF Above
  <2>1. f \in [S -> 1 .. N - 1]
    BY <1>1, <1>2
  <2>2. N >= 1
    BY <1>1, FS_EmptySet
  <2>3. IsFiniteSet(1 .. N - 1) /\ Cardinality(1 .. N - 1) = N - 1
    <3>1. N - 1 \in Nat
      BY <1>1, <2>2
    <3> QED
      BY <3>1, FS_Interval
  <2>4. \E i, j \in S : i # j /\ f[i] = f[j]
    <3>1. N - 1 < N
      BY <1>1
    <3> HIDE DEF f, N
    <3>2. IsFiniteSet(S) /\ Cardinality(1 .. N - 1) < Cardinality(S)
      BY <1>1, <2>3, <3>1 DEF N
    <3> QED
      BY <2>1, <2>3, <3>2, FS_PigeonHole
  <2>5. PICK i \in S, j \in S : i < j /\ f[i] = f[j]
    BY <1>1, <2>4
  <2> QED
    BY <1>3, <2>5
<1>5. PICK i \in S : \A j \in S : i >= j
  BY <1>1, <1>4
<1> QED
  BY <1>5 DEF Users!Max

LEMMA GreatestOf ==
    ASSUME NEW n \in Nat, NEW S \in SUBSET (0 .. n), S # {}
    PROVE  Users!Max(S) \in S /\ \A j \in S : Users!Max(S) >= j
<1>1. IsFiniteSet(0 .. n)
  BY FS_Interval
<1>2. IsFiniteSet(S)
  BY <1>1, FS_Subset
<1>3. S \in SUBSET Nat
  OBVIOUS
<1> QED
  BY <1>2, <1>3, GreatestNumber

\* The next key is of no row.
LEMMA NextFree ==
    ASSUME NEW n \in Nat, NEW table, DOMAIN table = 1 .. n
    PROVE  /\ Users!NextId(table) \in Nat /\ Users!NextId(table) >= 1
           /\ \A i \in Users!Rows(table) : i < Users!NextId(table)
<1> DEFINE S == {0} \cup Users!Rows(table)
<1>1. S \in SUBSET (0 .. n) /\ S # {}
  BY DEF Users!Rows
<1>2. Users!Max(S) \in S /\ \A j \in S : Users!Max(S) >= j
  BY <1>1, GreatestOf
<1>3. Users!NextId(table) = Users!Max(S) + 1
  BY DEF Users!NextId
<1> HIDE DEF S
<1>4. Users!Max(S) \in Nat /\ \A i \in S : i \in Nat
  <2>1. S \subseteq 0 .. n
    BY <1>1
  <2>2. \A i \in S : i \in Nat
    BY <2>1
  <2> QED
    BY <1>2, <2>2
<1>5. 0 \in S /\ \A i \in Users!Rows(table) : i \in S
  BY DEF S
<1> QED
  BY <1>2, <1>3, <1>4, <1>5

\* A streak is of decided bets and has a length.
LEMMA StreakIs ==
    ASSUME Users!AccountsAssumption, AccountRows, NEW u
    PROVE  Users!streak(u) \in [type : {"none", "win", "loss"}, length : Nat]
<1> DEFINE D == Users!Decided(u)
           newest == picks[Users!Max(D)].result
           other == {i \in D : picks[i].result # newest}
           run == {i \in D : i > Users!Max({0} \cup other)}
<1>1. D \in SUBSET (0 .. MaxPicks) /\ \A i \in D : picks[i].result \in {"win", "loss"}
  BY DEF AccountRows, Users!AccountsAssumption, Users!Decided, Users!Straight, Users!Rows
<1>2. CASE D = {}
  BY <1>2 DEF Users!streak
<1>3. CASE D # {}
  <2>1. Users!streak(u) = [type |-> newest, length |-> Users!Cardinality(run)]
    BY <1>3 DEF Users!streak
  <2>2. IsFiniteSet(0 .. MaxPicks)
    BY FS_Interval DEF Users!AccountsAssumption
  <2>3. run \in SUBSET (0 .. MaxPicks)
    BY <1>1
  <2> HIDE DEF run
  <2>4. Users!Cardinality(run) \in Nat
    BY <2>2, <2>3, FS_Subset, FS_CardinalityType, AccountCount
  <2>5. Users!Max(D) \in D
    BY <1>1, <1>3, GreatestOf DEF Users!AccountsAssumption
  <2> HIDE DEF D
  <2>6. newest \in {"win", "loss"}
    BY <1>1, <2>5
  <2> QED
    BY <2>1, <2>4, <2>6
<1> QED
  BY <1>2, <1>3

\* What keeps the rows' references: players stay, and bets and parlays are re-written in place.
LEMMA SettledKept ==
    ASSUME AccountInv, Users!Players' = Users!Players, missed' \subseteq Users!Players,
           DOMAIN picks' = DOMAIN picks, Users!Rows(picks)' = Users!Rows(picks),
           Users!Rows(parlays)' = Users!Rows(parlays),
           \A i \in Users!Rows(picks) : picks'[i].user = picks[i].user /\ picks'[i].parlay = picks[i].parlay,
           \A p \in Users!Rows(parlays) : parlays'[p].user = parlays[p].user
    PROVE  Kept'
<1>1. ASSUME NEW p \in Users!Rows(parlays) PROVE Users!Legs(p)' = Users!Legs(p)
  BY DEF Users!Legs
<1> QED
  BY <1>1 DEF AccountInv, Kept

LEMMA SettlesKept ==
    ASSUME Users!AccountsAssumption, AccountInv,
           Users!grade_paper_picks \/ Users!settle_parlays_list \/ Users!cash_out \/ Users!RefreshStreaks
    PROVE  AccountInv'
<1>1. ASSUME NEW row \in Users!PickRows, NEW result \in Users!Results
      PROVE  /\ Users!Paid(row, result) \in Users!PickRows /\ Users!Paid(row, result).user = row.user
             /\ Users!Paid(row, result).parlay = row.parlay
  <2> DEFINE ended == [row EXCEPT !.result = result]
             pay == CASE result = "win" -> row.stake [] result = "loss" -> -row.stake [] OTHER -> 0
  <2>1. row.stake \in Nat
    BY DEF Users!PickRows
  <2>2. pay \in Int
    BY <2>1
  <2>3. ended \in Users!PickRows /\ ended.user = row.user /\ ended.parlay = row.parlay
    BY DEF Users!PickRows
  <2>4. Users!Paid(row, result) = [ended EXCEPT !.payout = pay]
    BY DEF Users!Paid
  <2> HIDE DEF ended, pay
  <2> QED
    BY <2>2, <2>3, <2>4 DEF Users!PickRows
<1>2. ASSUME NEW row \in Users!ParlayRows, NEW result \in Users!Results
      PROVE  Users!Paid(row, result) \in Users!ParlayRows /\ Users!Paid(row, result).user = row.user
  <2> DEFINE ended == [row EXCEPT !.result = result]
             pay == CASE result = "win" -> row.stake [] result = "loss" -> -row.stake [] OTHER -> 0
  <2>1. row.stake \in Nat
    BY DEF Users!ParlayRows
  <2>2. pay \in Int
    BY <2>1
  <2>3. ended \in Users!ParlayRows /\ ended.user = row.user
    BY DEF Users!ParlayRows
  <2>4. Users!Paid(row, result) = [ended EXCEPT !.payout = pay]
    BY DEF Users!Paid
  <2> HIDE DEF ended, pay
  <2> QED
    BY <2>2, <2>3, <2>4 DEF Users!ParlayRows
<1>3. UNCHANGED <<requests, today>>
  BY DEF Users!grade_paper_picks, Users!settle_parlays_list, Users!cash_out, Users!RefreshStreaks
<1>4. \A i \in Users!Rows(picks) : i \in DOMAIN picks /\ picks[i] \in Users!PickRows
  BY DEF AccountInv, AccountRows, Users!Rows
<1>5. \A p \in Users!Rows(parlays) : p \in DOMAIN parlays /\ parlays[p] \in Users!ParlayRows
  BY DEF AccountInv, AccountRows, Users!Rows
<1>6. None \notin Users!UserRows /\ None \notin Users!PickRows /\ None \notin Users!ParlayRows
  BY DEF Users!AccountsAssumption
<1>7. ASSUME NEW i \in Users!Rows(picks), NEW result \in Users!Results,
             picks' = [picks EXCEPT ![i] = Users!Paid(@, result)], UNCHANGED <<users, parlays>>,
             missed' \subseteq missed \cup {picks[i].user}
      PROVE  AccountInv'
  <2>1. picks' = [picks EXCEPT ![i] = Users!Paid(picks[i], result)]
    BY <1>7
  <2>2. picks' \in [1 .. MaxPicks -> Users!PickRows \cup {None}]
    BY <1>1, <1>4, <2>1 DEF AccountInv, AccountRows
  <2>3. Users!Rows(picks)' = Users!Rows(picks) /\ DOMAIN picks' = DOMAIN picks
    BY <1>1, <1>4, <1>6, <2>1 DEF Users!Rows
  <2>4. \A j \in Users!Rows(picks) : picks'[j].user = picks[j].user /\ picks'[j].parlay = picks[j].parlay
    BY <1>1, <1>4, <2>1
  <2>5. missed' \subseteq Users!Players /\ Users!Players' = Users!Players
    BY <1>7 DEF AccountInv, Kept, Users!Players, Users!Rows
  <2>6. Users!Rows(parlays)' = Users!Rows(parlays)
    BY <1>7 DEF Users!Rows
  <2>7. Kept'
    BY <1>7, <2>3, <2>4, <2>5, <2>6, SettledKept
  <2> QED
    BY <1>3, <1>7, <2>2, <2>7 DEF AccountInv, AccountRows
<1>8. ASSUME NEW p \in Users!Rows(parlays), NEW result \in Users!Results,
             parlays' = [parlays EXCEPT ![p] = Users!Paid(@, result)], UNCHANGED <<users, picks>>,
             missed' \subseteq missed \cup {parlays[p].user}
      PROVE  AccountInv'
  <2>1. parlays' = [parlays EXCEPT ![p] = Users!Paid(parlays[p], result)]
    BY <1>8
  <2>2. parlays' \in [1 .. MaxParlays -> Users!ParlayRows \cup {None}]
    BY <1>2, <1>5, <2>1 DEF AccountInv, AccountRows
  <2>3. Users!Rows(parlays)' = Users!Rows(parlays)
    BY <1>2, <1>5, <1>6, <2>1 DEF Users!Rows
  <2>4. \A q \in Users!Rows(parlays) : parlays'[q].user = parlays[q].user
    BY <1>2, <1>5, <2>1
  <2>5. missed' \subseteq Users!Players /\ Users!Players' = Users!Players
    BY <1>8 DEF AccountInv, Kept, Users!Players, Users!Rows
  <2>6. Users!Rows(picks)' = Users!Rows(picks)
    BY <1>8 DEF Users!Rows
  <2>7. Kept'
    BY <1>8, <2>3, <2>4, <2>5, <2>6, SettledKept
  <2> QED
    BY <1>3, <1>8, <2>2, <2>7 DEF AccountInv, AccountRows
<1>9. CASE Users!grade_paper_picks
  <2>1. PICK i \in Users!Pending(picks, Users!Rows(picks)), result \in {"win", "loss", "push"} :
            picks' = [picks EXCEPT ![i] = Users!Paid(@, result)] /\ missed' = missed \cup {picks[i].user}
    BY <1>9 DEF Users!grade_paper_picks
  <2>2. i \in Users!Rows(picks) /\ result \in Users!Results /\ UNCHANGED <<users, parlays>>
    BY <1>9 DEF Users!Pending, Users!Results, Users!grade_paper_picks
  <2> QED
    BY <1>7, <2>1, <2>2
<1>10. CASE Users!settle_parlays_list
  <2>1. PICK p \in Users!Pending(parlays, Users!Rows(parlays)) :
            /\ parlays' = [parlays EXCEPT ![p] = Users!Paid(@, Users!Outcome(p))]
            /\ missed' = missed \cup {parlays[p].user}
    BY <1>10 DEF Users!settle_parlays_list
  <2>2. p \in Users!Rows(parlays) /\ Users!Outcome(p) \in Users!Results /\ UNCHANGED <<users, picks>>
    BY <1>10 DEF Users!Pending, Users!Results, Users!Outcome, Users!settle_parlays_list
  <2> QED
    BY <1>8, <2>1, <2>2
<1>11. CASE Users!cash_out
  <2>1. "cashed_out" \in Users!Results /\ UNCHANGED <<users, missed>>
    BY <1>11 DEF Users!Results, Users!cash_out
  <2>2. \/ /\ UNCHANGED parlays
           /\ \E i \in Users!Rows(picks) : picks' = [picks EXCEPT ![i] = Users!Paid(@, "cashed_out")]
        \/ /\ UNCHANGED picks
           /\ \E p \in Users!Rows(parlays) : parlays' = [parlays EXCEPT ![p] = Users!Paid(@, "cashed_out")]
    BY <1>11 DEF Users!cash_out, Users!Pending
  <2>3. CASE UNCHANGED parlays /\ \E i \in Users!Rows(picks) : picks' = [picks EXCEPT ![i] = Users!Paid(@, "cashed_out")]
    BY <1>7, <2>1, <2>3
  <2>4. CASE UNCHANGED picks
             /\ \E p \in Users!Rows(parlays) : parlays' = [parlays EXCEPT ![p] = Users!Paid(@, "cashed_out")]
    BY <1>8, <2>1, <2>4
  <2> QED
    BY <2>2, <2>3, <2>4
<1>12. CASE Users!RefreshStreaks
  <2>1. PICK u \in missed : users' = Users!update_streaks(u) /\ missed' = missed \ {u}
    BY <1>12 DEF Users!RefreshStreaks
  <2>2. UNCHANGED <<picks, parlays>>
    BY <1>12 DEF Users!RefreshStreaks
  <2>3. u \in Users!Players /\ u \in DOMAIN users /\ users[u] \in Users!UserRows
    BY DEF AccountInv, AccountRows, Kept, Users!Players, Users!Rows
  <2>4. Users!streak(u) \in [type : {"none", "win", "loss"}, length : Nat]
    BY StreakIs DEF AccountInv
  <2>5. users[u].best \in Nat /\ Users!streak(u).length \in Nat
    BY <2>3, <2>4 DEF Users!UserRows
  <2>6. Users!Max({users[u].best, Users!streak(u).length}) \in Nat
    <3> DEFINE b == users[u].best
               l == Users!streak(u).length
    <3>1. b \in Nat /\ l \in Nat
      BY <2>5
    <3> HIDE DEF b, l
    <3>2. PICK n \in Nat : n = b + l
      BY <3>1
    <3>3. {b, l} \in SUBSET (0 .. n) /\ {b, l} # {}
      BY <3>1, <3>2
    <3>4. Users!Max({b, l}) \in {b, l}
      BY <3>3, GreatestOf
    <3> QED
      BY <3>1, <3>4 DEF b, l
  <2>7. PICK r \in Users!UserRows : users' = [users EXCEPT ![u] = r]
    <3> DEFINE best == IF Users!streak(u).type = "win" THEN Users!Max({users[u].best, Users!streak(u).length}) ELSE users[u].best
    <3>1. best \in Nat
      BY <2>5, <2>6
    <3>2. users' = [users EXCEPT ![u] = [[users[u] EXCEPT !.streak = Users!streak(u)] EXCEPT !.best = best]]
      BY <2>1, <2>3 DEF Users!update_streaks
    <3>3. [[users[u] EXCEPT !.streak = Users!streak(u)] EXCEPT !.best = best] \in Users!UserRows
      <4> DEFINE m == [users[u] EXCEPT !.streak = Users!streak(u)]
      <4>1. m \in Users!UserRows
        BY <2>3, <2>4 DEF Users!UserRows
      <4> HIDE DEF m, best
      <4>2. [m EXCEPT !.best = best] \in Users!UserRows
        BY <3>1, <4>1 DEF Users!UserRows
      <4> QED
        BY <4>2 DEF m
    <3> QED
      BY <3>2, <3>3
  <2>8. users' \in [1 .. MaxUsers -> Users!UserRows \cup {None}] /\ Users!Players' = Users!Players
    <3>1. users \in [1 .. MaxUsers -> Users!UserRows \cup {None}]
      BY DEF AccountInv, AccountRows
    <3> QED
      BY <1>6, <2>3, <2>7, <3>1 DEF Users!Players, Users!Rows
  <2>9. Users!Rows(picks)' = Users!Rows(picks) /\ Users!Rows(parlays)' = Users!Rows(parlays)
    BY <2>2 DEF Users!Rows
  <2>10. missed' \subseteq Users!Players
    BY <2>1 DEF AccountInv, Kept
  <2>11. Kept'
    BY <2>2, <2>8, <2>9, <2>10, SettledKept
  <2> QED
    BY <1>3, <2>2, <2>8, <2>11 DEF AccountInv, AccountRows
<1> QED
  BY <1>9, <1>10, <1>11, <1>12

\* A request's thread holds only what that request read.
LEMMA RequestKept ==
    ASSUME AccountRows, NEW t \in Threads, NEW held,
           requests' = [requests EXCEPT ![t] = held],
           held # None /\ held.op = "create" => held.name \in Names
    PROVE  /\ requests' = [s \in Threads |-> requests'[s]]
           /\ \A s \in Threads : requests'[s] # None /\ requests'[s].op = "create" => requests'[s].name \in Names
BY DEF AccountRows

LEMMA Answered ==
    ASSUME AccountRows, NEW t \in Threads, Users!Answer(t)
    PROVE  /\ requests' = [s \in Threads |-> requests'[s]]
           /\ \A s \in Threads : requests'[s] # None /\ requests'[s].op = "create" => requests'[s].name \in Names
BY RequestKept DEF Users!Answer

\* What writes no bet keeps every reference as long as no player goes.
LEMMA NothingPlaced ==
    ASSUME AccountInv, UNCHANGED <<picks, parlays, missed>>, Users!Players \subseteq Users!Players'
    PROVE  Kept'
<1>1. Users!Rows(picks)' = Users!Rows(picks) /\ Users!Rows(parlays)' = Users!Rows(parlays)
  BY DEF Users!Rows
<1>2. \A p : Users!Legs(p)' = Users!Legs(p)
  BY <1>1 DEF Users!Legs
<1>3. missed' \subseteq Users!Players'
  BY DEF AccountInv, Kept
<1> QED
  BY <1>1, <1>2, <1>3 DEF AccountInv, Kept

LEMMA ChecksKept ==
    ASSUME Users!AccountsAssumption, AccountInv,
           Users!NextDay \/ \E t \in Threads : Users!CheckName(t) \/ Users!LoadUser(t)
    PROVE  AccountInv'
<1>1. UNCHANGED <<users, picks, parlays, missed>>
  BY DEF Users!NextDay, Users!CheckName, Users!LoadUser
<1>2. Users!Players' = Users!Players
  BY <1>1 DEF Users!Players, Users!Rows
<1>3. Kept'
  BY <1>1, <1>2, NothingPlaced
<1>4. CASE Users!NextDay
  <2>1. today' \in Nat /\ UNCHANGED requests
    BY <1>4 DEF Users!NextDay, AccountInv, AccountRows
  <2> QED
    BY <1>1, <1>3, <2>1 DEF AccountInv, AccountRows
<1>5. CASE \E t \in Threads : Users!CheckName(t) \/ Users!LoadUser(t)
  <2>1. PICK t \in Threads : Users!CheckName(t) \/ Users!LoadUser(t)
    BY <1>5
  <2>2. UNCHANGED today
    BY <2>1 DEF Users!CheckName, Users!LoadUser
  <2>3. PICK held : /\ requests' = [requests EXCEPT ![t] = held]
                    /\ held # None /\ held.op = "create" => held.name \in Names
    <3>1. CASE Users!CheckName(t)
      BY <3>1 DEF Users!CheckName
    <3>2. CASE Users!LoadUser(t)
      <4>1. PICK u \in Users!Players : requests' = [requests EXCEPT ![t] = [op |-> "user", user |-> u]]
        BY <3>2 DEF Users!LoadUser
      <4> DEFINE held == [op |-> "user", user |-> u]
      <4>2. ~(held # None /\ held.op = "create") /\ requests' = [requests EXCEPT ![t] = held]
        BY <4>1
      <4> HIDE DEF held
      <4> QED
        BY <4>2
    <3> QED
      BY <2>1, <3>1, <3>2
  <2>4. /\ requests' = [s \in Threads |-> requests'[s]]
        /\ \A s \in Threads : requests'[s] # None /\ requests'[s].op = "create" => requests'[s].name \in Names
    BY <2>3, RequestKept DEF AccountInv
  <2> QED
    BY <1>1, <1>3, <2>2, <2>4 DEF AccountInv, AccountRows
<1> QED
  BY <1>4, <1>5

LEMMA CreateKept ==
    ASSUME Users!AccountsAssumption, AccountInv, NEW t \in Threads, Users!create_user(t)
    PROVE  AccountInv'
<1> DEFINE n == Users!NextId(users)
           new == [name |-> requests[t].name, streak |-> [type |-> "none", length |-> 0], best |-> 0]
<1>1. /\ requests[t] # None /\ requests[t].op = "create" /\ Users!Answer(t) /\ n <= MaxUsers
      /\ UNCHANGED <<picks, parlays, today, missed>>
      /\ users' = users \/ users' = [users EXCEPT ![n] = new]
  BY DEF Users!create_user
<1>2. MaxUsers \in Nat /\ None \notin Users!UserRows /\ users \in [1 .. MaxUsers -> Users!UserRows \cup {None}]
  BY DEF Users!AccountsAssumption, AccountInv, AccountRows
<1>3. n \in 1 .. MaxUsers
  BY <1>1, <1>2, NextFree
<1>4. new \in Users!UserRows
  BY <1>1 DEF AccountInv, AccountRows, Users!UserRows
<1> HIDE DEF n, new
<1>5. users' \in [1 .. MaxUsers -> Users!UserRows \cup {None}] /\ Users!Players \subseteq Users!Players'
  BY <1>1, <1>2, <1>3, <1>4 DEF Users!Players, Users!Rows
<1>6. Kept'
  BY <1>1, <1>5, NothingPlaced
<1> QED
  BY <1>1, <1>5, <1>6, Answered DEF AccountInv, AccountRows

\* A straight bet takes a key of its own and its player is there, as the foreign key has it.
LEMMA PlacePickKept ==
    ASSUME Users!AccountsAssumption, AccountInv, NEW t \in Threads, Users!place_pick(t)
    PROVE  AccountInv'
<1> DEFINE i == Users!NextId(picks)
           u == requests[t].user
<1>1. /\ Users!Answer(t) /\ i <= MaxPicks /\ UNCHANGED <<users, parlays, today, missed>>
      /\ \E stake \in Stakes, day \in today .. MaxDay :
             picks' = IF stake > Users!available_of(u) \/ ~Users!ForeignKey(u) THEN picks
                      ELSE [picks EXCEPT ![i] = Users!Pick(u, None, stake, day)]
  BY DEF Users!place_pick
<1>2. CASE picks' = picks
  <2>1. Kept'
    BY <1>1, <1>2, NothingPlaced DEF Users!Players, Users!Rows
  <2> QED
    BY <1>1, <1>2, <2>1, Answered DEF AccountInv, AccountRows
<1>3. CASE picks' # picks
  <2> HIDE DEF i, u
  <2>1. PICK stake \in Stakes, day \in today .. MaxDay :
            Users!ForeignKey(u) /\ picks' = [picks EXCEPT ![i] = Users!Pick(u, None, stake, day)]
    BY <1>1, <1>3
  <2>2. /\ MaxPicks \in Nat /\ MaxUsers \in Nat /\ MaxParlays \in Nat /\ Stakes \subseteq Nat /\ MaxDay \in Nat
        /\ None \notin Nat /\ None \notin Users!PickRows
    BY DEF Users!AccountsAssumption
  <2>3. /\ picks \in [1 .. MaxPicks -> Users!PickRows \cup {None}] /\ today \in Nat
        /\ users \in [1 .. MaxUsers -> Users!UserRows \cup {None}]
        /\ parlays \in [1 .. MaxParlays -> Users!ParlayRows \cup {None}]
    BY DEF AccountInv, AccountRows
  <2>4. i \in 1 .. MaxPicks /\ i \notin Users!Rows(picks)
    <3>1. DOMAIN picks = 1 .. MaxPicks
      BY <2>3
    <3>2. i \in Nat /\ i >= 1 /\ \A j \in Users!Rows(picks) : j < i
      BY <2>2, <3>1, NextFree DEF i
    <3> QED
      BY <1>1, <2>2, <3>2
  <2>5. u \in Users!Players /\ u \in Nat
    BY <2>1, <2>2, <2>3 DEF Users!ForeignKey, Users!Referenced, Users!Players, Users!Rows
  <2> DEFINE new == Users!Pick(u, None, stake, day)
  <2>6. new \in Users!PickRows /\ new.user = u /\ new.parlay = None
    <3>1. stake \in Nat /\ day \in Nat
      BY <2>2, <2>3
    <3> QED
      BY <2>5, <3>1 DEF Users!Pick, Users!PickRows
  <2>7. picks' = [picks EXCEPT ![i] = new]
    BY <2>1
  <2> HIDE DEF new
  <2>8. picks' \in [1 .. MaxPicks -> Users!PickRows \cup {None}]
    BY <2>3, <2>4, <2>6, <2>7
  <2>9. Users!Rows(picks)' = Users!Rows(picks) \cup {i} /\ picks'[i] = new
    BY <2>2, <2>3, <2>4, <2>6, <2>7 DEF Users!Rows
  <2>10. \A j \in Users!Rows(picks) : picks'[j] = picks[j]
    BY <2>3, <2>4, <2>7 DEF Users!Rows
  <2>11. Users!Players' = Users!Players /\ Users!Rows(parlays)' = Users!Rows(parlays)
    BY <1>1 DEF Users!Players, Users!Rows
  <2>12. ASSUME NEW p \in Users!Rows(parlays) PROVE Users!Legs(p)' = Users!Legs(p)
    <3>1. p # None
      BY <2>2, <2>3 DEF Users!Rows
    <3> QED
      BY <2>4, <2>6, <2>9, <2>10, <3>1 DEF Users!Legs
  <2>13. Kept'
    <3>1. missed' \subseteq Users!Players'
      BY <1>1, <2>11 DEF AccountInv, Kept
    <3>2. ASSUME NEW j \in Users!Rows(picks)'
          PROVE  /\ picks'[j].user \in Users!Players
                 /\ picks'[j].parlay # None => /\ picks'[j].parlay \in Users!Rows(parlays)
                                               /\ parlays[picks'[j].parlay].user = picks'[j].user
      BY <2>5, <2>6, <2>9, <2>10 DEF AccountInv, Kept
    <3>3. \A p \in Users!Rows(parlays) : parlays[p].user \in Users!Players /\ Cardinality(Users!Legs(p)') = 2
      BY <2>12 DEF AccountInv, Kept
    <3> QED
      BY <1>1, <2>11, <3>1, <3>2, <3>3 DEF Kept
  <2> QED
    BY <1>1, <2>8, <2>13, Answered DEF AccountInv, AccountRows
<1> QED
  BY <1>2, <1>3

\* A parlay takes the next key, which no leg has, and its two legs the next two.
LEMMA PlaceParlayKept ==
    ASSUME Users!AccountsAssumption, AccountInv, NEW t \in Threads, Users!place_parlay(t)
    PROVE  AccountInv'
<1>0. PICK i, p, u : i = Users!NextId(picks) /\ p = Users!NextId(parlays) /\ u = requests[t].user
  OBVIOUS
<1> DEFINE row(stake) == [user |-> u, stake |-> stake, result |-> None, payout |-> 0]
<1>1. /\ Users!Answer(t) /\ i + 1 <= MaxPicks /\ p <= MaxParlays /\ UNCHANGED <<users, today, missed>>
      /\ \/ UNCHANGED <<picks, parlays>>
         \/ \E stake \in Stakes, d1, d2 \in today .. MaxDay :
               /\ Users!ForeignKey(u) /\ parlays' = [parlays EXCEPT ![p] = row(stake)]
               /\ picks' = [picks EXCEPT ![i] = Users!Pick(u, p, 0, d1), ![i + 1] = Users!Pick(u, p, 0, d2)]
  <2>1. PICK stake \in Stakes, d1, d2 \in today .. MaxDay :
            \/ UNCHANGED <<picks, parlays>>
            \/ /\ Users!ForeignKey(requests[t].user)
               /\ parlays' = [parlays EXCEPT ![Users!NextId(parlays)] =
                                 [user |-> requests[t].user, stake |-> stake, result |-> None, payout |-> 0]]
               /\ picks' = [picks EXCEPT
                     ![Users!NextId(picks)] = Users!Pick(requests[t].user, Users!NextId(parlays), 0, d1),
                     ![Users!NextId(picks) + 1] = Users!Pick(requests[t].user, Users!NextId(parlays), 0, d2)]
    BY DEF Users!place_parlay
  <2>2. /\ Users!Answer(t) /\ Users!NextId(picks) + 1 <= MaxPicks /\ Users!NextId(parlays) <= MaxParlays
        /\ UNCHANGED <<users, today, missed>>
    BY DEF Users!place_parlay
  <2>3. \/ UNCHANGED <<picks, parlays>>
        \/ /\ Users!ForeignKey(u) /\ parlays' = [parlays EXCEPT ![p] = row(stake)]
           /\ picks' = [picks EXCEPT ![i] = Users!Pick(u, p, 0, d1), ![i + 1] = Users!Pick(u, p, 0, d2)]
    BY <1>0, <2>1
  <2> QED
    BY <1>0, <2>2, <2>3
<1> HIDE DEF row
<1>2. CASE UNCHANGED <<picks, parlays>>
  <2>1. Kept'
    BY <1>1, <1>2, NothingPlaced DEF Users!Players, Users!Rows
  <2> QED
    BY <1>1, <1>2, <2>1, Answered DEF AccountInv, AccountRows
<1>3. CASE ~UNCHANGED <<picks, parlays>>
  <2>1. PICK stake \in Stakes, d1 \in today .. MaxDay, d2 \in today .. MaxDay :
            /\ Users!ForeignKey(u) /\ parlays' = [parlays EXCEPT ![p] = row(stake)]
            /\ picks' = [picks EXCEPT ![i] = Users!Pick(u, p, 0, d1), ![i + 1] = Users!Pick(u, p, 0, d2)]
    BY <1>1, <1>3
  <2>2. /\ MaxPicks \in Nat /\ MaxUsers \in Nat /\ MaxParlays \in Nat /\ Stakes \subseteq Nat /\ MaxDay \in Nat
        /\ None \notin Nat /\ None \notin Users!PickRows /\ None \notin Users!ParlayRows
    BY DEF Users!AccountsAssumption
  <2>3. /\ picks \in [1 .. MaxPicks -> Users!PickRows \cup {None}] /\ today \in Nat
        /\ users \in [1 .. MaxUsers -> Users!UserRows \cup {None}]
        /\ parlays \in [1 .. MaxParlays -> Users!ParlayRows \cup {None}]
    BY DEF AccountInv, AccountRows
  <2>4. i \in Nat /\ i >= 1 /\ i \in 1 .. MaxPicks /\ i + 1 \in 1 .. MaxPicks
        /\ i \notin Users!Rows(picks) /\ i + 1 \notin Users!Rows(picks)
    <3>1. DOMAIN picks = 1 .. MaxPicks
      BY <2>3
    <3>2. i \in Nat /\ i >= 1 /\ \A j \in Users!Rows(picks) : j < i
      BY <1>0, <2>2, <3>1, NextFree
    <3>3. \A j \in Users!Rows(picks) : j \in Nat
      BY <3>1 DEF Users!Rows
    <3> QED
      BY <1>1, <2>2, <3>2, <3>3
  <2>5. p \in Nat /\ p \in 1 .. MaxParlays /\ p \notin Users!Rows(parlays)
    <3>1. DOMAIN parlays = 1 .. MaxParlays
      BY <2>3
    <3>2. p \in Nat /\ p >= 1 /\ \A q \in Users!Rows(parlays) : q < p
      BY <2>2, <3>1, <1>0, NextFree
    <3> QED
      BY <1>1, <2>2, <3>2
  <2>6. u \in Users!Players /\ u \in Nat
    BY <2>1, <2>2, <2>3 DEF Users!ForeignKey, Users!Referenced, Users!Players, Users!Rows
  <2> DEFINE first == Users!Pick(u, p, 0, d1)
             second == Users!Pick(u, p, 0, d2)
             new == row(stake)
  <2>7. /\ first \in Users!PickRows /\ first.user = u /\ first.parlay = p
        /\ second \in Users!PickRows /\ second.user = u /\ second.parlay = p
    <3>1. d1 \in Nat /\ d2 \in Nat
      BY <2>2, <2>3
    <3> QED
      BY <2>5, <2>6, <3>1 DEF Users!Pick, Users!PickRows
  <2>8. new \in Users!ParlayRows /\ new.user = u
    <3>1. stake \in Nat
      BY <2>2
    <3> QED
      BY <2>6, <3>1 DEF Users!ParlayRows, row
  <2>9. /\ picks' = [picks EXCEPT ![i] = first, ![i + 1] = second]
        /\ parlays' = [parlays EXCEPT ![p] = new]
    BY <2>1
  <2> HIDE DEF first, second, new, row
  <2>10. i # i + 1
    BY <2>4
  <2>11. /\ picks' \in [1 .. MaxPicks -> Users!PickRows \cup {None}]
         /\ picks'[i] = first /\ picks'[i + 1] = second
         /\ \A j \in 1 .. MaxPicks : j # i /\ j # i + 1 => picks'[j] = picks[j]
    BY <2>3, <2>4, <2>7, <2>9, <2>10
  <2>12. Users!Rows(picks)' = Users!Rows(picks) \cup {i, i + 1}
    BY <2>2, <2>3, <2>4, <2>7, <2>11 DEF Users!Rows
  <2>13. \A j \in Users!Rows(picks) : picks'[j] = picks[j]
    BY <2>3, <2>4, <2>11 DEF Users!Rows
  <2>14. /\ parlays' \in [1 .. MaxParlays -> Users!ParlayRows \cup {None}]
         /\ parlays'[p] = new /\ \A q \in Users!Rows(parlays) : parlays'[q] = parlays[q]
         /\ Users!Rows(parlays)' = Users!Rows(parlays) \cup {p}
    BY <2>2, <2>3, <2>5, <2>8, <2>9 DEF Users!Rows
  <2>15. Users!Players' = Users!Players
    BY <1>1 DEF Users!Players, Users!Rows
  <2>16. ASSUME NEW q \in Users!Rows(parlays) PROVE Users!Legs(q)' = Users!Legs(q)
    <3>1. q # p
      BY <2>5
    <3> QED
      BY <2>4, <2>7, <2>11, <2>12, <2>13, <3>1 DEF Users!Legs
  <2>17. Users!Legs(p)' = {i, i + 1}
    <3>1. ASSUME NEW j \in Users!Rows(picks) PROVE picks[j].parlay # p
      <4>1. p # None
        BY <2>2, <2>5
      <4> QED
        BY <2>5, <4>1 DEF AccountInv, Kept
    <3> QED
      BY <2>7, <2>11, <2>12, <2>13, <3>1 DEF Users!Legs
  <2>18. Cardinality({i, i + 1}) = 2
    <3>1. {i, i + 1} = {i} \cup {i + 1} /\ IsFiniteSet({i}) /\ Cardinality({i}) = 1
      BY FS_Singleton
    <3>2. Cardinality({i} \cup {i + 1}) = Cardinality({i}) + 1
      <4>1. i + 1 \notin {i}
        BY <2>10
      <4> QED
        BY <3>1, <4>1, FS_AddElement
    <3> QED
      BY <3>1, <3>2
  <2>19. Kept'
    <3>1. missed' \subseteq Users!Players'
      BY <1>1, <2>15 DEF AccountInv, Kept
    <3>2. ASSUME NEW j \in Users!Rows(picks)'
          PROVE  /\ picks'[j].user \in Users!Players
                 /\ picks'[j].parlay # None => /\ picks'[j].parlay \in Users!Rows(parlays)'
                                               /\ parlays'[picks'[j].parlay].user = picks'[j].user
      <4>1. CASE j \in Users!Rows(picks)
        BY <2>13, <2>14, <4>1 DEF AccountInv, Kept
      <4>2. CASE j \in {i, i + 1}
        BY <2>6, <2>7, <2>8, <2>11, <2>14, <4>2
      <4> QED
        BY <2>12, <4>1, <4>2
    <3>3. ASSUME NEW q \in Users!Rows(parlays)'
          PROVE  parlays'[q].user \in Users!Players /\ Cardinality(Users!Legs(q)') = 2
      <4>1. CASE q = p
        BY <2>6, <2>8, <2>14, <2>17, <2>18, <4>1
      <4>2. CASE q \in Users!Rows(parlays)
        BY <2>14, <2>16, <4>2 DEF AccountInv, Kept
      <4> QED
        BY <2>14, <4>1, <4>2
    <3> QED
      BY <2>15, <3>1, <3>2, <3>3 DEF Kept
  <2> QED
    BY <1>1, <2>11, <2>14, <2>19, Answered DEF AccountInv, AccountRows
<1> QED
  BY <1>2, <1>3

\* A player goes with the bets and the parlays, and a parlay's legs are its player's.
LEMMA DeleteKept ==
    ASSUME Users!AccountsAssumption, AccountInv, NEW t \in Threads, Users!delete_user(t)
    PROVE  AccountInv'
<1> DEFINE u == requests[t].user
<1>1. /\ Users!Answer(t) /\ UNCHANGED today
      /\ picks' = [i \in DOMAIN picks |-> IF i \in Users!Rows(picks) /\ picks[i].user = u THEN None ELSE picks[i]]
      /\ parlays' = [p \in DOMAIN parlays |-> IF p \in Users!Parlays(u) THEN None ELSE parlays[p]]
      /\ users' = [users EXCEPT ![u] = None] /\ missed' = missed \ {u}
  BY DEF Users!delete_user
<1> HIDE DEF u
<1>2. /\ picks \in [1 .. MaxPicks -> Users!PickRows \cup {None}]
      /\ users \in [1 .. MaxUsers -> Users!UserRows \cup {None}]
      /\ parlays \in [1 .. MaxParlays -> Users!ParlayRows \cup {None}]
  BY DEF AccountInv, AccountRows
<1>3. /\ picks' \in [1 .. MaxPicks -> Users!PickRows \cup {None}]
      /\ users' \in [1 .. MaxUsers -> Users!UserRows \cup {None}]
      /\ parlays' \in [1 .. MaxParlays -> Users!ParlayRows \cup {None}]
  BY <1>1, <1>2
<1>4. /\ Users!Rows(picks)' = {i \in Users!Rows(picks) : picks[i].user # u}
      /\ \A i \in Users!Rows(picks)' : picks'[i] = picks[i]
  BY <1>1 DEF Users!Rows
<1>5. /\ Users!Rows(parlays)' = {p \in Users!Rows(parlays) : parlays[p].user # u}
      /\ \A p \in Users!Rows(parlays)' : parlays'[p] = parlays[p]
  BY <1>1 DEF Users!Rows, Users!Parlays
<1>6. Users!Players' = Users!Players \ {u}
  BY <1>1, <1>2 DEF Users!Players, Users!Rows
<1>7. ASSUME NEW p \in Users!Rows(parlays)' PROVE Users!Legs(p)' = Users!Legs(p)
  <2>1. p \in Users!Rows(parlays) /\ parlays[p].user # u /\ p # None
    BY <1>2, <1>5 DEF Users!AccountsAssumption, Users!Rows
  <2>2. \A i \in Users!Legs(p) : picks[i].user # u
    BY <2>1 DEF Users!Legs, AccountInv, Kept
  <2> QED
    BY <1>4, <2>2 DEF Users!Legs
<1>8. Kept'
  <2>1. missed' \subseteq Users!Players'
    BY <1>1, <1>6 DEF AccountInv, Kept
  <2>2. ASSUME NEW i \in Users!Rows(picks)'
        PROVE  /\ picks'[i].user \in Users!Players'
               /\ picks'[i].parlay # None => /\ picks'[i].parlay \in Users!Rows(parlays)'
                                             /\ parlays'[picks'[i].parlay].user = picks'[i].user
    BY <1>4, <1>5, <1>6 DEF AccountInv, Kept
  <2>3. ASSUME NEW p \in Users!Rows(parlays)'
        PROVE  parlays'[p].user \in Users!Players' /\ Cardinality(Users!Legs(p)') = 2
    BY <1>5, <1>6, <1>7 DEF AccountInv, Kept
  <2> QED
    BY <2>1, <2>2, <2>3 DEF Kept
<1> QED
  BY <1>1, <1>3, <1>8, Answered DEF AccountInv, AccountRows

\* The players' rows start so, and every step keeps them so.
LEMMA AccountsStart ==
    ASSUME Users!AccountsAssumption, Users!Init PROVE AccountInv
<1>1. Users!Rows(picks) = {} /\ Users!Rows(parlays) = {} /\ Users!Players = {}
  BY DEF Users!Init, Users!Rows, Users!Players
<1>2. AccountRows
  BY DEF Users!Init, AccountRows
<1> QED
  BY <1>1, <1>2 DEF AccountInv, Kept, Users!Init

LEMMA AccountsStep ==
    ASSUME Users!AccountsAssumption, AccountInv, [Users!Next]_(Users!vars) PROVE AccountInv'
<1>1. CASE UNCHANGED Users!vars
  <2>1. UNCHANGED <<users, picks, parlays, requests, today, missed>>
    BY <1>1 DEF Users!vars
  <2>2. Kept'
    BY <2>1, NothingPlaced DEF Users!Players, Users!Rows
  <2> QED
    BY <2>1, <2>2 DEF AccountInv, AccountRows
<1>2. CASE Users!grade_paper_picks \/ Users!settle_parlays_list \/ Users!cash_out \/ Users!RefreshStreaks
  BY <1>2, SettlesKept
<1>3. CASE Users!NextDay \/ \E t \in Threads : Users!CheckName(t) \/ Users!LoadUser(t)
  BY <1>3, ChecksKept
<1>4. CASE \E t \in Threads : Users!create_user(t) \/ Users!delete_user(t)
  BY <1>4, CreateKept, DeleteKept
<1>5. CASE \E t \in Threads : Users!place_pick(t) \/ Users!place_parlay(t)
  BY <1>5, PlacePickKept, PlaceParlayKept
<1> QED
  BY <1>1, <1>2, <1>3, <1>4, <1>5 DEF Users!Next

\* No bet outlives its player and no parlay its legs, though a request loads the player, or finds
\* the name free, before it takes the write lock: the foreign key turns a late bet away, and a
\* deletion takes all of the player's rows in one transaction.
THEOREM NoOrphansHolds ==
    ASSUME Users!AccountsAssumption
    PROVE  Users!Spec => []Users!NoOrphans
<1>1. Users!Init => AccountInv
  BY AccountsStart
<1>2. AccountInv /\ [Users!Next]_(Users!vars) => AccountInv'
  BY AccountsStep
<1>3. AccountInv => Users!NoOrphans
  <2>1. \A p : Users!Cardinality(Users!Legs(p)) = Cardinality(Users!Legs(p))
    BY AccountCount
  <2> QED
    BY <2>1 DEF AccountInv, Kept, Users!NoOrphans
<1> QED
  BY <1>1, <1>2, <1>3, PTL DEF Users!Spec

-----------------------------------------------------------------------------
\* A player whose decided bets are as they were has the streak that was.
LEMMA SameStreak ==
    ASSUME Users!AccountsAssumption, AccountRows, NEW u, Users!Decided(u)' = Users!Decided(u),
           \A i \in Users!Decided(u) : picks'[i].result = picks[i].result
    PROVE  Users!streak(u)' = Users!streak(u)
<1>1. PICK D, n, newest : D = Users!Decided(u) /\ n = Users!Max(D) /\ newest = picks[n].result
  OBVIOUS
<1>2. CASE D = {}
  BY <1>1, <1>2 DEF Users!streak
<1>3. CASE D # {}
  <2>1. D \in SUBSET (0 .. MaxPicks)
    BY <1>1 DEF AccountRows, Users!Decided, Users!Straight, Users!Rows
  <2>2. n \in D
    BY <1>1, <1>3, <2>1, GreatestOf DEF Users!AccountsAssumption
  <2>3. picks'[n].result = newest /\ Users!Decided(u)' = D
    BY <1>1, <2>2
  <2>4. {i \in D : picks'[i].result # newest} = {i \in D : picks[i].result # newest}
    BY <1>1
  <2> DEFINE Streak(other) ==
                 [type |-> newest, length |-> Users!Cardinality({i \in D : i > Users!Max({0} \cup other)})]
  <2>5. Users!streak(u) = Streak({i \in D : picks[i].result # newest})
    BY <1>1, <1>3 DEF Users!streak
  <2>6. Users!streak(u)' = Streak({i \in D : picks'[i].result # newest})
    BY <1>1, <1>3, <2>3 DEF Users!streak
  <2> HIDE DEF Streak
  <2> QED
    BY <2>4, <2>5, <2>6
<1> QED
  BY <1>2, <1>3

\* A step after which a player's decided bets and the stored streak are what they were.
LEMMA StreakRests ==
    ASSUME Users!AccountsAssumption, AccountInv, Users!StreaksFollow, NEW u \in Users!Players, u \notin missed,
           users'[u] = users[u], Users!Decided(u)' = Users!Decided(u),
           \A i \in Users!Decided(u) : picks'[i].result = picks[i].result
    PROVE  users'[u].streak = Users!streak(u)'
<1>1. AccountRows
  BY DEF AccountInv
<1>2. Users!streak(u)' = Users!streak(u)
  BY <1>1, SameStreak
<1> QED
  BY <1>2 DEF Users!StreaksFollow

\* Straight bets that are placed, or end without being decided, count for no streak.
LEMMA DecidedRest ==
    ASSUME Users!AccountsAssumption, AccountInv, NEW u, DOMAIN picks' = DOMAIN picks,
           \A i \in Users!Rows(picks)' : picks'[i].user = u =>
               \/ i \in Users!Rows(picks) /\ picks'[i] = picks[i]
               \/ picks'[i].result \notin {"win", "loss"},
           \A i \in Users!Rows(picks) : picks[i].user = u =>
               \/ i \in Users!Rows(picks)' /\ picks'[i] = picks[i]
               \/ picks[i].result \notin {"win", "loss"}
    PROVE  /\ Users!Decided(u)' = Users!Decided(u)
           /\ \A i \in Users!Decided(u) : picks'[i].result = picks[i].result
BY DEF Users!Decided, Users!Straight

LEMMA StreaksStay ==
    ASSUME Users!AccountsAssumption, AccountInv, Users!StreaksFollow, AccountInv', Users!Next
    PROVE  Users!StreaksFollow'
<1>0. /\ picks \in [1 .. MaxPicks -> Users!PickRows \cup {None}] /\ None \notin Users!PickRows
      /\ users \in [1 .. MaxUsers -> Users!UserRows \cup {None}] /\ None \notin Users!UserRows
      /\ picks' \in [1 .. MaxPicks -> Users!PickRows \cup {None}] /\ None \notin {"win", "loss"}
      /\ \A i \in Users!Rows(picks) : picks[i] \in Users!PickRows
  BY DEF AccountInv, AccountRows, Users!AccountsAssumption, Users!Rows, Users!Results
<1> SUFFICES ASSUME NEW u \in Users!Players', u \notin missed' PROVE users'[u].streak = Users!streak(u)'
  BY DEF Users!StreaksFollow
<1>1. ASSUME UNCHANGED <<users, picks, missed>> PROVE users'[u].streak = Users!streak(u)'
  <2>1. u \in Users!Players /\ u \notin missed /\ Users!Decided(u)' = Users!Decided(u)
    BY <1>1 DEF Users!Players, Users!Rows, Users!Decided, Users!Straight
  <2> QED
    BY <1>1, <2>1, StreakRests
<1>2. CASE Users!grade_paper_picks
  <2>1. PICK i \in Users!Rows(picks), result \in {"win", "loss", "push"} :
            /\ picks' = [picks EXCEPT ![i] = Users!Paid(picks[i], result)] /\ missed' = missed \cup {picks[i].user}
            /\ UNCHANGED users
    BY <1>2 DEF Users!grade_paper_picks, Users!Pending
  <2>2. u \in Users!Players /\ u \notin missed /\ u # picks[i].user
    BY <2>1 DEF Users!Players, Users!Rows
  <2>3. Users!Paid(picks[i], result).user = picks[i].user
    BY <1>0, <2>1 DEF Users!Paid, Users!PickRows
  <2>4. \A j \in DOMAIN picks : j # i => picks'[j] = picks[j]
    BY <2>1
  <2>5. i \in DOMAIN picks /\ picks'[i].user = picks[i].user /\ DOMAIN picks' = DOMAIN picks
    BY <2>1, <2>3 DEF Users!Rows
  <2>6. /\ \A j \in Users!Rows(picks)' : picks'[j].user = u => j \in Users!Rows(picks) /\ picks'[j] = picks[j]
        /\ \A j \in Users!Rows(picks) : picks[j].user = u => j \in Users!Rows(picks)' /\ picks'[j] = picks[j]
    BY <2>2, <2>4, <2>5 DEF Users!Rows
  <2> QED
    BY <2>1, <2>2, <2>5, <2>6, DecidedRest, StreakRests
<1>3. CASE Users!settle_parlays_list
  <2>1. UNCHANGED <<users, picks>> /\ missed \subseteq missed'
    BY <1>3 DEF Users!settle_parlays_list
  <2>2. u \in Users!Players /\ u \notin missed /\ Users!Decided(u)' = Users!Decided(u)
    BY <2>1 DEF Users!Players, Users!Rows, Users!Decided, Users!Straight
  <2> QED
    BY <2>1, <2>2, StreakRests
<1>4. CASE Users!RefreshStreaks
  <2>1. PICK v \in missed : users' = Users!update_streaks(v) /\ missed' = missed \ {v} /\ UNCHANGED picks
    BY <1>4 DEF Users!RefreshStreaks
  <2>2. v \in Users!Players /\ v \in DOMAIN users /\ users[v] \in Users!UserRows
    BY <1>0 DEF AccountInv, Kept, Users!Players, Users!Rows
  <2>3. Users!streak(u)' = Users!streak(u)
    BY <2>1 DEF Users!streak, Users!Decided, Users!Straight, Users!Rows
  <2>4. CASE u = v
    <3>1. users'[v].streak = Users!streak(v)
      <4>1. PICK now, best : /\ now = Users!streak(v)
                             /\ users' = [users EXCEPT ![v] = [users[v] EXCEPT !.streak = now, !.best = best]]
        BY <2>1 DEF Users!update_streaks
      <4>2. \A row \in Users!UserRows : [row EXCEPT !.streak = now, !.best = best].streak = now
        BY DEF Users!UserRows
      <4> QED
        BY <2>2, <4>1, <4>2
    <3> QED
      BY <2>3, <2>4, <3>1
  <2>5. CASE u # v
    <3>1. users'[u] = users[u] /\ u \in Users!Players /\ u \notin missed
      BY <1>0, <2>1, <2>5 DEF Users!update_streaks, Users!Players, Users!Rows
    <3> QED
      BY <2>3, <3>1 DEF Users!StreaksFollow
  <2> QED
    BY <2>4, <2>5
<1>5. CASE Users!cash_out
  <2>1. UNCHANGED <<users, missed>>
    BY <1>5 DEF Users!cash_out
  <2>2. CASE UNCHANGED picks
    BY <1>1, <2>1, <2>2
  <2>3. CASE ~UNCHANGED picks
    <3>1. PICK i \in Users!Pending(picks, Users!Rows(picks)) :
              picks' = [picks EXCEPT ![i] = Users!Paid(picks[i], "cashed_out")]
      BY <1>5, <2>3 DEF Users!cash_out, Users!Pending
    <3>2. picks[i].result = None /\ i \in Users!Rows(picks) /\ i \in DOMAIN picks
      BY DEF Users!Pending, Users!Rows
    <3>3. Users!Paid(picks[i], "cashed_out").result = "cashed_out"
      BY <1>0, <3>2 DEF Users!Paid, Users!PickRows
    <3>4. \A j \in DOMAIN picks : j # i => picks'[j] = picks[j]
      BY <3>1
    <3>5. picks'[i].result = "cashed_out" /\ DOMAIN picks' = DOMAIN picks
      BY <3>1, <3>2, <3>3
    <3>6. /\ \A j \in Users!Rows(picks)' : picks'[j].user = u =>
                 (j \in Users!Rows(picks) /\ picks'[j] = picks[j]) \/ picks'[j].result \notin {"win", "loss"}
          /\ \A j \in Users!Rows(picks) : picks[j].user = u =>
                 (j \in Users!Rows(picks)' /\ picks'[j] = picks[j]) \/ picks[j].result \notin {"win", "loss"}
      BY <1>0, <3>2, <3>4, <3>5 DEF Users!Rows
    <3>7. u \in Users!Players /\ u \notin missed
      BY <2>1 DEF Users!Players, Users!Rows
    <3> QED
      BY <2>1, <3>5, <3>6, <3>7, DecidedRest, StreakRests
  <2> QED
    BY <2>2, <2>3
<1>6. CASE Users!NextDay \/ \E t \in Threads : Users!CheckName(t) \/ Users!LoadUser(t)
  BY <1>1, <1>6 DEF Users!NextDay, Users!CheckName, Users!LoadUser
<1>7. ASSUME NEW t \in Threads, Users!create_user(t) PROVE users'[u].streak = Users!streak(u)'
  <2>1. PICK n : n = Users!NextId(users)
    OBVIOUS
  <2>2. /\ UNCHANGED <<picks, missed>>
        /\ \/ UNCHANGED users
           \/ users' = [users EXCEPT ![n] =
                  [name |-> requests[t].name, streak |-> [type |-> "none", length |-> 0], best |-> 0]]
    BY <1>7, <2>1 DEF Users!create_user
  <2>3. n \notin Users!Players
    <3>1. DOMAIN users = 1 .. MaxUsers /\ MaxUsers \in Nat
      BY <1>0 DEF Users!AccountsAssumption
    <3>2. n \in Nat /\ \A i \in Users!Players : i < n
      BY <2>1, <3>1, NextFree DEF Users!Players
    <3> QED
      BY <3>2
  <2>4. Users!streak(u)' = Users!streak(u)
    BY <2>2 DEF Users!streak, Users!Decided, Users!Straight, Users!Rows
  <2>5. CASE u = n /\ ~UNCHANGED users
    <3>1. Users!Decided(u) = {}
      BY <2>3, <2>5 DEF AccountInv, Kept, Users!Decided, Users!Straight
    <3>2. Users!streak(u) = [type |-> "none", length |-> 0]
      BY <3>1 DEF Users!streak
    <3>3. u \in DOMAIN users
      BY <2>2, <2>5 DEF Users!Players, Users!Rows
    <3> QED
      BY <2>2, <2>4, <2>5, <3>2, <3>3
  <2>6. CASE u # n \/ UNCHANGED users
    <3>1. users'[u] = users[u] /\ u \in Users!Players /\ u \notin missed
      BY <2>2, <2>6 DEF Users!Players, Users!Rows
    <3> QED
      BY <2>4, <3>1 DEF Users!StreaksFollow
  <2> QED
    BY <2>5, <2>6
<1>8. ASSUME NEW t \in Threads, Users!place_pick(t) \/ Users!place_parlay(t)
      PROVE  users'[u].streak = Users!streak(u)'
  <2>1. UNCHANGED <<users, missed>> /\ DOMAIN picks' = DOMAIN picks
    BY <1>0, <1>8 DEF Users!place_pick, Users!place_parlay
  <2>2. \A j \in DOMAIN picks : picks'[j] = picks[j] \/ (picks[j] = None /\ picks'[j].result = None)
    <3>1. PICK n : n = Users!NextId(picks)
      OBVIOUS
    <3>2. n \notin Users!Rows(picks) /\ n + 1 \notin Users!Rows(picks)
      <4>1. DOMAIN picks = 1 .. MaxPicks /\ MaxPicks \in Nat
        BY <1>0 DEF Users!AccountsAssumption
      <4>2. n \in Nat /\ \A j \in Users!Rows(picks) : j < n
        BY <3>1, <4>1, NextFree
      <4>3. \A j \in Users!Rows(picks) : j \in Nat
        BY <4>1 DEF Users!Rows
      <4> QED
        BY <4>2, <4>3
    <3>3. ASSUME NEW stake, NEW day, NEW bet, bet = Users!Pick(requests[t].user, None, stake, day),
                 picks' = [picks EXCEPT ![n] = bet]
          PROVE  \A j \in DOMAIN picks : picks'[j] = picks[j] \/ (picks[j] = None /\ picks'[j].result = None)
      <4>1. bet.result = None
        BY <3>3 DEF Users!Pick
      <4> QED
        BY <3>2, <3>3, <4>1 DEF Users!Rows
    <3>4. ASSUME NEW p, NEW d1, NEW d2, NEW new, NEW second, new = Users!Pick(requests[t].user, p, 0, d1),
                 second = Users!Pick(requests[t].user, p, 0, d2),
                 picks' = [picks EXCEPT ![n] = new, ![n + 1] = second]
          PROVE  \A j \in DOMAIN picks : picks'[j] = picks[j] \/ (picks[j] = None /\ picks'[j].result = None)
      <4>1. new.result = None /\ second.result = None
        BY <3>4 DEF Users!Pick
      <4> QED
        BY <3>2, <3>4, <4>1 DEF Users!Rows
    <3>5. CASE Users!place_pick(t)
      <4>1. PICK stake \in Stakes, day \in today .. MaxDay :
                UNCHANGED picks \/ picks' = [picks EXCEPT ![n] = Users!Pick(requests[t].user, None, stake, day)]
        BY <3>1, <3>5 DEF Users!place_pick
      <4> QED
        BY <4>1, <3>3
    <3>6. CASE Users!place_parlay(t)
      <4>1. PICK d1, d2, p :
                \/ UNCHANGED picks
                \/ picks' = [picks EXCEPT ![n] = Users!Pick(requests[t].user, p, 0, d1),
                                          ![n + 1] = Users!Pick(requests[t].user, p, 0, d2)]
        BY <3>1, <3>6 DEF Users!place_parlay
      <4> QED
        BY <4>1, <3>4
    <3> QED
      BY <1>8, <3>5, <3>6
  <2>3. /\ \A j \in Users!Rows(picks)' : picks'[j].user = u =>
               (j \in Users!Rows(picks) /\ picks'[j] = picks[j]) \/ picks'[j].result \notin {"win", "loss"}
        /\ \A j \in Users!Rows(picks) : picks[j].user = u =>
               (j \in Users!Rows(picks)' /\ picks'[j] = picks[j]) \/ picks[j].result \notin {"win", "loss"}
    BY <1>0, <2>1, <2>2 DEF Users!Rows
  <2>4. u \in Users!Players /\ u \notin missed
    BY <2>1 DEF Users!Players, Users!Rows
  <2> QED
    BY <2>1, <2>3, <2>4, DecidedRest, StreakRests
<1>9. ASSUME NEW t \in Threads, Users!delete_user(t) PROVE users'[u].streak = Users!streak(u)'
  <2>1. PICK v : v = requests[t].user
    OBVIOUS
  <2>2. /\ picks' = [i \in DOMAIN picks |-> IF i \in Users!Rows(picks) /\ picks[i].user = v THEN None ELSE picks[i]]
        /\ users' = [users EXCEPT ![v] = None] /\ missed' = missed \ {v}
    BY <1>9, <2>1 DEF Users!delete_user
  <2>3. u # v /\ u \in Users!Players /\ u \notin missed /\ users'[u] = users[u]
    BY <1>0, <2>2 DEF Users!Players, Users!Rows
  <2>4. DOMAIN picks' = DOMAIN picks
    BY <2>2
  <2>5. /\ \A j \in Users!Rows(picks)' : picks'[j].user = u => j \in Users!Rows(picks) /\ picks'[j] = picks[j]
        /\ \A j \in Users!Rows(picks) : picks[j].user = u => j \in Users!Rows(picks)' /\ picks'[j] = picks[j]
    BY <2>2, <2>3 DEF Users!Rows
  <2> QED
    BY <2>3, <2>4, <2>5, DecidedRest, StreakRests
<1> QED
  BY <1>2, <1>3, <1>4, <1>5, <1>6, <1>7, <1>8, <1>9 DEF Users!Next

\* A player's stored streak is that of the decided bets, unless a settlement stopped before it had
\* refreshed it: nothing else that is placed, cashed out or deleted counts, nor does what a deleted
\* player who had the same id has won.
THEOREM StreaksHold ==
    ASSUME Users!AccountsAssumption
    PROVE  Users!Spec => []Users!StreaksFollow
<1>1. Users!Init => AccountInv /\ Users!StreaksFollow
  <2>1. Users!Init => Users!Players = {}
    BY DEF Users!Init, Users!Rows, Users!Players
  <2> QED
    BY <2>1, AccountsStart DEF Users!StreaksFollow
<1>2. AccountInv /\ Users!StreaksFollow /\ [Users!Next]_(Users!vars) => AccountInv' /\ Users!StreaksFollow'
  <2> SUFFICES ASSUME AccountInv, Users!StreaksFollow, [Users!Next]_(Users!vars)
               PROVE  AccountInv' /\ Users!StreaksFollow'
    OBVIOUS
  <2>1. AccountInv'
    BY AccountsStep
  <2>2. CASE Users!Next
    BY <2>1, <2>2, StreaksStay
  <2>3. CASE UNCHANGED Users!vars
    <3> SUFFICES ASSUME NEW u \in Users!Players', u \notin missed' PROVE users'[u].streak = Users!streak(u)'
      BY <2>1 DEF Users!StreaksFollow
    <3>1. /\ u \in Users!Players /\ u \notin missed /\ users' = users /\ picks' = picks
          /\ Users!Decided(u)' = Users!Decided(u)
      BY <2>3 DEF Users!vars, Users!Players, Users!Rows, Users!Decided, Users!Straight
    <3> QED
      BY <3>1, StreakRests
  <2> QED
    BY <2>1, <2>2, <2>3
<1> QED
  BY <1>1, <1>2, PTL DEF Users!Spec

-----------------------------------------------------------------------------
(* Sums *)

\* A nonempty set of numbers has a least one.
LEMMA LeastNumber ==
    ASSUME NEW S \in SUBSET Nat, S # {}
    PROVE  \E n \in S : \A k \in S : n <= k
<1> DEFINE R == {p \in Nat \X Nat : p[1] < p[2]}
<1>1. IsWellFoundedOn(R, Nat)
  <2>1. R = OpToRel(<, Nat)
    BY DEF OpToRel
  <2> QED
    BY <2>1, NatLessThanWellFounded
<1>2. ASSUME NEW k \in Nat, NEW n \in Nat, k < n PROVE <<k, n>> \in R
  <2> DEFINE p == <<k, n>>
  <2>1. p \in Nat \X Nat /\ p[1] = k /\ p[2] = n
    OBVIOUS
  <2>2. p[1] < p[2]
    BY <1>2, <2>1
  <2> HIDE DEF p
  <2>3. p \in R
    BY <2>1, <2>2
  <2> QED
    BY <2>3 DEF p
<1> HIDE DEF R
<1>3. PICK n \in S : \A k \in S : <<k, n>> \notin R
  BY <1>1, WFMin
<1>4. ASSUME NEW k \in S PROVE n <= k
  <2>1. k \in Nat /\ n \in Nat /\ <<k, n>> \notin R
    BY <1>3
  <2>2. ~(k < n)
    BY <1>2, <2>1
  <2> QED
    BY <2>1, <2>2
<1> QED
  BY <1>4

\* What a sum over a set is computed from: one of its elements and the sum of the rest.
Chosen(s) == CHOOSE x \in s : TRUE
Table(g, h) == h = [s \in SUBSET DOMAIN g |-> IF s = {} THEN 0 ELSE g[Chosen(s)] + h[s \ {Chosen(s)}]]
SumsOf(g) == CHOOSE h : Table(g, h)
Whole(g) == IsFiniteSet(DOMAIN g) /\ \A x \in DOMAIN g : g[x] \in Int

LEMMA ChosenIs ==
    ASSUME NEW s, IsFiniteSet(s), s # {}
    PROVE  /\ Chosen(s) \in s /\ IsFiniteSet(s \ {Chosen(s)})
           /\ Cardinality(s) \in Nat /\ Cardinality(s \ {Chosen(s)}) = Cardinality(s) - 1
<1>1. Chosen(s) \in s
  BY DEF Chosen
<1> QED
  BY <1>1, FS_RemoveElement, FS_CardinalityType

\* There is such a table, of whole numbers: one of the sets of n elements, for each n.
LEMMA TableExists ==
    ASSUME NEW g, Whole(g)
    PROVE  \E h \in [SUBSET DOMAIN g -> Int] : Table(g, h)
<1> DEFINE D == DOMAIN g
           Small(n) == {s \in SUBSET D : Cardinality(s) <= n}
           Add(h, s) == IF s = {} THEN 0 ELSE g[Chosen(s)] + h[s \ {Chosen(s)}]
           Sums(n) == {h \in [Small(n) -> Int] : \A s \in Small(n) : h[s] = Add(h, s)}
           Without == {n \in Nat : Sums(n) = {}}
<1>1. ASSUME NEW s \in SUBSET D
      PROVE  /\ IsFiniteSet(s) /\ Cardinality(s) \in Nat /\ Cardinality(s) <= Cardinality(D)
             /\ s # {} => /\ Chosen(s) \in s /\ s \ {Chosen(s)} \in SUBSET D /\ g[Chosen(s)] \in Int
                          /\ Cardinality(s \ {Chosen(s)}) = Cardinality(s) - 1
  BY ChosenIs, FS_Subset, FS_CardinalityType DEF Whole
<1>2. Sums(0) # {}
  <2>1. ASSUME NEW s \in Small(0) PROVE s = {}
    <3>1. s \in SUBSET D /\ Cardinality(s) <= 0
      OBVIOUS
    <3>2. IsFiniteSet(s) /\ Cardinality(s) \in Nat
      BY <1>1, <3>1
    <3>3. Cardinality(s) = 0
      BY <3>1, <3>2
    <3> QED
      BY <3>2, <3>3, FS_EmptySet, Zenon
  <2> DEFINE h == [s \in Small(0) |-> 0]
  <2>2. h \in Sums(0)
    BY <2>1
  <2> QED
    BY <2>2
<1>3. ASSUME NEW n \in Nat, Sums(n) # {} PROVE Sums(n + 1) # {}
  <2>1. PICK h : h \in Sums(n)
    BY <1>3
  <2> DEFINE k == [s \in Small(n + 1) |-> Add(h, s)]
  <2>2. ASSUME NEW s \in Small(n + 1), s # {} PROVE s \ {Chosen(s)} \in Small(n)
    BY <1>1, <2>2
  <2>3. ASSUME NEW s \in Small(n) PROVE s \in Small(n + 1)
    <3>1. s \in SUBSET D /\ Cardinality(s) <= n /\ Cardinality(s) \in Nat
      BY <1>1
    <3> QED
      BY <3>1
  <2>4. \A s \in Small(n) : k[s] = h[s]
    BY <2>1, <2>3
  <2>5. \A s \in Small(n) : h[s] \in Int
    BY <2>1
  <2>6. ASSUME NEW s \in Small(n + 1) PROVE k[s] \in Int /\ k[s] = Add(k, s)
    <3>1. s \in SUBSET D /\ k[s] = Add(h, s)
      OBVIOUS
    <3>2. CASE s = {}
      BY <3>1, <3>2
    <3>3. CASE s # {}
      <4>1. s \ {Chosen(s)} \in Small(n) /\ g[Chosen(s)] \in Int
        BY <1>1, <2>2, <3>1, <3>3
      <4>2. k[s \ {Chosen(s)}] = h[s \ {Chosen(s)}] /\ h[s \ {Chosen(s)}] \in Int
        BY <2>4, <2>5, <4>1
      <4> HIDE DEF k, Small
      <4> QED
        BY <3>1, <3>3, <4>1, <4>2
    <3> QED
      BY <3>2, <3>3
  <2>7. k \in [Small(n + 1) -> Int]
    BY <2>6
  <2>8. k \in Sums(n + 1)
    <3> HIDE DEF k, Small, Add
    <3> QED
      BY <2>6, <2>7
  <2> QED
    BY <2>8
<1>4. Without = {}
  <2> SUFFICES ASSUME Without # {} PROVE FALSE
    OBVIOUS
  <2>1. PICK n \in Without : \A k \in Without : n <= k
    BY LeastNumber
  <2>2. n \in Nat /\ Sums(n) = {}
    OBVIOUS
  <2> HIDE DEF Sums
  <2>3. n # 0
    BY <1>2, <2>2
  <2>4. n - 1 \in Nat /\ n - 1 \notin Without
    BY <2>1, <2>2, <2>3
  <2>5. Sums(n - 1) # {}
    BY <2>4
  <2>6. Sums((n - 1) + 1) # {}
    BY <1>3, <2>4, <2>5
  <2>7. (n - 1) + 1 = n
    BY <2>2
  <2> QED
    BY <2>2, <2>6, <2>7
<1>5. Cardinality(D) \in Nat
  BY <1>1
<1>6. PICK h : h \in Sums(Cardinality(D))
  BY <1>4, <1>5
<1>7. Small(Cardinality(D)) = SUBSET D
  BY <1>1
<1>8. h \in [SUBSET D -> Int] /\ \A s \in SUBSET D : h[s] = Add(h, s)
  BY <1>6, <1>7
<1>9. h = [s \in SUBSET D |-> Add(h, s)]
  BY <1>8
<1> QED
  BY <1>8, <1>9 DEF Table

\* Sums over subsets are what any such table has.
LEMMA TableIs ==
    ASSUME NEW g, Whole(g)
    PROVE  /\ SumsOf(g)[{}] = 0
           /\ \A s \in SUBSET DOMAIN g : s # {} => SumsOf(g)[s] = g[Chosen(s)] + SumsOf(g)[s \ {Chosen(s)}]
<1>1. Table(g, SumsOf(g))
  BY TableExists DEF SumsOf
<1> QED
  BY <1>1 DEF Table

\* Two tables of sums agree on the sets that both have, if the functions do.
LEMMA SumsAgree ==
    ASSUME NEW g, NEW k, Whole(g), Whole(k), DOMAIN k \subseteq DOMAIN g, \A x \in DOMAIN k : k[x] = g[x]
    PROVE  \A s \in SUBSET DOMAIN k : SumsOf(k)[s] = SumsOf(g)[s]
<1> DEFINE P(s) == SumsOf(k)[s] = SumsOf(g)[s]
           Bad == {n \in Nat : \E s \in SUBSET DOMAIN k : Cardinality(s) = n /\ ~P(s)}
<1>1. ASSUME NEW s \in SUBSET DOMAIN k PROVE IsFiniteSet(s) /\ Cardinality(s) \in Nat
  BY FS_Subset, FS_CardinalityType DEF Whole
<1>2. Bad = {}
  <2> SUFFICES ASSUME Bad # {} PROVE FALSE
    OBVIOUS
  <2>1. PICK n \in Bad : \A m \in Bad : n <= m
    BY LeastNumber
  <2>2. PICK s \in SUBSET DOMAIN k : Cardinality(s) = n /\ ~P(s)
    OBVIOUS
  <2>3. s # {}
    BY <2>2, TableIs
  <2> DEFINE rest == s \ {Chosen(s)}
  <2>4. /\ Chosen(s) \in s /\ rest \in SUBSET DOMAIN k /\ rest \in SUBSET DOMAIN g
        /\ Cardinality(rest) = n - 1 /\ n - 1 \in Nat
    <3>1. Chosen(s) \in s /\ Cardinality(rest) = Cardinality(s) - 1 /\ IsFiniteSet(rest)
      BY <1>1, <2>3, ChosenIs
    <3>2. Cardinality(rest) \in Nat
      BY <3>1, FS_CardinalityType
    <3> QED
      BY <2>2, <3>1, <3>2
  <2>5. n - 1 \notin Bad
    BY <2>1, <2>4
  <2> HIDE DEF rest, P
  <2>6. P(rest)
    BY <2>4, <2>5
  <2>7. SumsOf(k)[s] = k[Chosen(s)] + SumsOf(k)[rest] /\ SumsOf(g)[s] = g[Chosen(s)] + SumsOf(g)[rest]
    BY <2>2, <2>3, TableIs DEF rest
  <2>8. k[Chosen(s)] = g[Chosen(s)]
    BY <2>4
  <2> QED
    BY <2>2, <2>6, <2>7, <2>8 DEF P
<1> QED
  BY <1>1, <1>2

LEMMA SumsWhole ==
    ASSUME NEW g, Whole(g)
    PROVE  \A s \in SUBSET DOMAIN g : SumsOf(g)[s] \in Int
<1>1. PICK h \in [SUBSET DOMAIN g -> Int] : Table(g, h)
  BY TableExists
<1>2. Table(g, SumsOf(g))
  BY <1>1 DEF SumsOf
<1> DEFINE P(s) == SumsOf(g)[s] \in Int
           Bad == {n \in Nat : \E s \in SUBSET DOMAIN g : Cardinality(s) = n /\ ~P(s)}
<1>3. ASSUME NEW s \in SUBSET DOMAIN g PROVE IsFiniteSet(s) /\ Cardinality(s) \in Nat
  BY FS_Subset, FS_CardinalityType DEF Whole
<1>4. Bad = {}
  <2> SUFFICES ASSUME Bad # {} PROVE FALSE
    OBVIOUS
  <2>1. PICK n \in Bad : \A m \in Bad : n <= m
    BY LeastNumber
  <2>2. PICK s \in SUBSET DOMAIN g : Cardinality(s) = n /\ ~P(s)
    OBVIOUS
  <2>3. s # {}
    <3>1. SumsOf(g)[{}] \in Int
      BY TableIs
    <3> QED
      BY <2>2, <3>1, Zenon
  <2> DEFINE rest == s \ {Chosen(s)}
  <2>4. Chosen(s) \in s /\ rest \in SUBSET DOMAIN g /\ Cardinality(rest) = n - 1 /\ n - 1 \in Nat
    <3>1. Chosen(s) \in s /\ Cardinality(rest) = Cardinality(s) - 1 /\ IsFiniteSet(rest)
      BY <1>3, <2>3, ChosenIs
    <3>2. Cardinality(rest) \in Nat
      BY <3>1, FS_CardinalityType
    <3> QED
      BY <2>2, <3>1, <3>2
  <2>5. n - 1 \notin Bad
    BY <2>1, <2>4
  <2> HIDE DEF rest, P
  <2>6. P(rest)
    BY <2>4, <2>5
  <2>7. SumsOf(g)[s] = g[Chosen(s)] + SumsOf(g)[rest] /\ g[Chosen(s)] \in Int
    BY <2>2, <2>3, <2>4, TableIs DEF rest, Whole
  <2> QED
    BY <2>2, <2>6, <2>7 DEF P
<1> QED
  BY <1>3, <1>4

\* Of some subsets of a finite set, one that is none of them any more without any of its elements.
LEMMA SmallestOne ==
    ASSUME NEW D, IsFiniteSet(D), NEW B \in SUBSET SUBSET D, B # {}
    PROVE  \E s \in B : \A x \in s : s \ {x} \notin B
<1> DEFINE Sizes == {Cardinality(s) : s \in B}
<1>1. \A s \in B : IsFiniteSet(s) /\ Cardinality(s) \in Nat
  BY FS_Subset, FS_CardinalityType
<1>2. Sizes \in SUBSET Nat /\ Sizes # {}
  BY <1>1
<1>3. PICK n \in Sizes : \A k \in Sizes : n <= k
  <2> HIDE DEF Sizes
  <2> QED
    BY <1>2, LeastNumber
<1>4. PICK s \in B : Cardinality(s) = n
  OBVIOUS
<1>5. ASSUME NEW x \in s, s \ {x} \in B PROVE FALSE
  <2>1. Cardinality(s \ {x}) = n - 1 /\ n \in Nat
    BY <1>1, <1>4, FS_RemoveElement
  <2>2. Cardinality(s \ {x}) \in Sizes
    BY <1>5
  <2> HIDE DEF Sizes
  <2>3. n <= Cardinality(s \ {x})
    BY <1>3, <2>2
  <2> QED
    BY <2>1, <2>3
<1> QED
  BY <1>5

\* Any of its elements may be taken out of a sum first.
LEMMA SumTake ==
    ASSUME NEW g, Whole(g), NEW s \in SUBSET DOMAIN g, NEW y \in s
    PROVE  SumsOf(g)[s] = g[y] + SumsOf(g)[s \ {y}]
<1> DEFINE D == DOMAIN g
           h == SumsOf(g)
           B == {t \in SUBSET D : \E x \in t : h[t] # g[x] + h[t \ {x}]}
<1>0. IsFiniteSet(D) /\ (\A x \in D : g[x] \in Int) /\ \A t \in SUBSET D : h[t] \in Int
  BY SumsWhole DEF Whole
<1>1. ASSUME B # {} PROVE FALSE
  <2>1. PICK t \in B : \A x \in t : t \ {x} \notin B
    BY <1>0, <1>1, SmallestOne
  <2>2. PICK x \in t : h[t] # g[x] + h[t \ {x}]
    OBVIOUS
  <2> DEFINE c == Chosen(t)
             both == t \ {c, x}
  <2>3. t \in SUBSET D /\ c \in t /\ h[t] = g[c] + h[t \ {c}]
    BY <2>2, TableIs DEF Chosen
  <2>4. c # x
    BY <2>2, <2>3
  <2>5. t \ {c} \in SUBSET D /\ t \ {x} \in SUBSET D /\ both \in SUBSET D
    BY <2>3
  <2>6. x \in t \ {c} /\ c \in t \ {x} /\ (t \ {c}) \ {x} = both /\ (t \ {x}) \ {c} = both
    BY <2>2, <2>3, <2>4
  <2>7. t \ {c} \notin B /\ t \ {x} \notin B
    BY <2>1, <2>2, <2>3
  <2> HIDE DEF h, c
  <2>8. h[t \ {c}] = g[x] + h[both] /\ h[t \ {x}] = g[c] + h[both]
    BY <2>5, <2>6, <2>7
  <2>9. g[x] \in Int /\ g[c] \in Int /\ h[both] \in Int
    BY <1>0, <2>3, <2>5
  <2> QED
    BY <2>2, <2>3, <2>8, <2>9
<1> QED
  BY <1>1

\* The sum over two sets apart is that of their sums.
LEMMA SumApart ==
    ASSUME NEW g, Whole(g), NEW a \in SUBSET DOMAIN g, NEW b \in SUBSET DOMAIN g, a \cap b = {}
    PROVE  SumsOf(g)[a \cup b] = SumsOf(g)[a] + SumsOf(g)[b]
<1> DEFINE D == DOMAIN g
           h == SumsOf(g)
           B == {t \in SUBSET D : a \cap t = {} /\ h[a \cup t] # h[a] + h[t]}
<1>0. IsFiniteSet(D) /\ (\A x \in D : g[x] \in Int) /\ (\A t \in SUBSET D : h[t] \in Int) /\ h[{}] = 0
  BY SumsWhole, TableIs DEF Whole
<1>1. ASSUME B # {} PROVE FALSE
  <2>1. PICK t \in B : \A x \in t : t \ {x} \notin B
    <3>1. B \in SUBSET SUBSET D
      OBVIOUS
    <3> HIDE DEF B
    <3> QED
      BY <1>0, <1>1, <3>1, SmallestOne
  <2>2. t # {}
    <3> SUFFICES ASSUME t = {} PROVE FALSE
      OBVIOUS
    <3>1. a \cup t = a /\ h[a] \in Int
      BY <1>0
    <3> QED
      BY <1>0, <2>1, <3>1
  <2>3. PICK x \in t : TRUE
    BY <2>2
  <2> DEFINE rest == t \ {x}
  <2>4. /\ a \cap t = {} /\ h[a \cup t] # h[a] + h[t] /\ t \in SUBSET D /\ a \cup t \in SUBSET D
        /\ x \in a \cup t /\ (a \cup t) \ {x} = a \cup rest
        /\ a \cap rest = {} /\ rest \in SUBSET D /\ rest \notin B
    BY <2>1, <2>3
  <2> HIDE DEF rest, h
  <2>5. h[a \cup rest] = h[a] + h[rest]
    BY <2>4
  <2>6. h[a \cup t] = g[x] + h[a \cup rest]
    <3>1. PICK all : all = a \cup t
      OBVIOUS
    <3>2. h[all] = g[x] + h[all \ {x}]
      BY <2>4, <3>1, SumTake DEF h
    <3> QED
      BY <2>4, <3>1, <3>2
  <2>7. h[t] = g[x] + h[rest]
    BY <2>3, <2>4, SumTake DEF h, rest
  <2>8. g[x] \in Int /\ h[rest] \in Int /\ h[a] \in Int
    BY <1>0, <2>3, <2>4
  <2> QED
    BY <2>4, <2>5, <2>6, <2>7, <2>8
<1> QED
  BY <1>1

\* Nothing sums to nothing.
LEMMA SumNothing ==
    ASSUME NEW g, Whole(g), NEW a \in SUBSET DOMAIN g, \A x \in a : g[x] = 0
    PROVE  SumsOf(g)[a] = 0
<1> DEFINE D == DOMAIN g
           h == SumsOf(g)
           B == {t \in SUBSET D : t \subseteq a /\ h[t] # 0}
<1>1. ASSUME B # {} PROVE FALSE
  <2>1. PICK t \in B : \A x \in t : t \ {x} \notin B
    BY <1>1, SmallestOne DEF Whole
  <2>2. t # {}
    BY <2>1, TableIs
  <2>3. PICK x \in t : TRUE
    BY <2>2
  <2>4. g[x] = 0 /\ h[t \ {x}] = 0 /\ t \in SUBSET D /\ h[t] # 0
    BY <2>1, <2>3
  <2>5. h[t] = g[x] + h[t \ {x}]
    BY <2>3, <2>4, SumTake
  <2> QED
    BY <2>4, <2>5
<1> QED
  BY <1>1

\* Elements renamed, one to one, sum up as they did.
LEMMA SumRenamed ==
    ASSUME NEW g, NEW k, Whole(g), Whole(k), NEW f \in [DOMAIN k -> DOMAIN g],
           \A x, y \in DOMAIN k : f[x] = f[y] => x = y, \A x \in DOMAIN k : k[x] = g[f[x]],
           NEW a \in SUBSET DOMAIN k
    PROVE  SumsOf(k)[a] = SumsOf(g)[{f[x] : x \in a}]
<1> DEFINE D == DOMAIN k
           Image(t) == {f[x] : x \in t}
           h == SumsOf(k)
           j == SumsOf(g)
           B == {t \in SUBSET D : h[t] # j[Image(t)]}
<1>1. ASSUME B # {} PROVE FALSE
  <2>1. PICK t \in B : \A x \in t : t \ {x} \notin B
    BY <1>1, SmallestOne DEF Whole
  <2>2. t # {}
    <3> SUFFICES ASSUME t = {} PROVE FALSE
      OBVIOUS
    <3>1. Image(t) = {}
      OBVIOUS
    <3> QED
      BY <2>1, <3>1, TableIs
  <2>3. PICK x \in t : TRUE
    BY <2>2
  <2>4. h[t \ {x}] = j[Image(t \ {x})] /\ t \in SUBSET D /\ h[t] # j[Image(t)]
    BY <2>1, <2>3
  <2>5. Image(t) \in SUBSET DOMAIN g /\ f[x] \in Image(t) /\ Image(t) \ {f[x]} = Image(t \ {x})
    BY <2>3, <2>4
  <2> HIDE DEF Image
  <2>6. h[t] = k[x] + h[t \ {x}] /\ k[x] = g[f[x]]
    BY <2>3, <2>4, SumTake
  <2>7. j[Image(t)] = g[f[x]] + j[Image(t \ {x})]
    <3>1. PICK all, y : all = Image(t) /\ y = f[x]
      OBVIOUS
    <3>2. j[all] = g[y] + j[all \ {y}]
      BY <2>5, <3>1, SumTake
    <3> HIDE DEF j
    <3> QED
      BY <2>5, <3>1, <3>2
  <2> QED
    BY <2>4, <2>6, <2>7
<1> QED
  BY <1>1

\* The sum of the sums of groups is that of all.
Those(key, a) == {x \in DOMAIN key : key[x] \in a}
LEMMA SumGrouped ==
    ASSUME NEW g, NEW k, Whole(g), Whole(k), NEW key \in [DOMAIN g -> DOMAIN k],
           \A w \in DOMAIN k : k[w] = SumsOf(g)[Those(key, {w})],
           NEW a \in SUBSET DOMAIN k
    PROVE  SumsOf(k)[a] = SumsOf(g)[Those(key, a)]
<1> DEFINE D == DOMAIN k
           Of(t) == Those(key, t)
           h == SumsOf(k)
           j == SumsOf(g)
           B == {t \in SUBSET D : h[t] # j[Of(t)]}
<1>1. ASSUME B # {} PROVE FALSE
  <2>1. PICK t \in B : \A x \in t : t \ {x} \notin B
    BY <1>1, SmallestOne DEF Whole
  <2>2. t # {}
    <3> SUFFICES ASSUME t = {} PROVE FALSE
      OBVIOUS
    <3>1. Of(t) = {}
      BY DEF Those
    <3> QED
      BY <2>1, <3>1, TableIs
  <2>3. PICK w \in t : TRUE
    BY <2>2
  <2> DEFINE mine == Those(key, {w})
  <2>4. h[t \ {w}] = j[Of(t \ {w})] /\ t \in SUBSET D /\ h[t] # j[Of(t)]
    BY <2>1, <2>3
  <2>5. /\ Of(t) = mine \cup Of(t \ {w}) /\ mine \cap Of(t \ {w}) = {}
        /\ mine \in SUBSET DOMAIN g /\ Of(t \ {w}) \in SUBSET DOMAIN g
    BY <2>3 DEF Those
  <2>6. k[w] = j[mine]
    BY <2>3, <2>4
  <2>7. h[t] = k[w] + h[t \ {w}]
    <3> HIDE DEF Of, mine
    <3> QED
      BY <2>3, <2>4, SumTake
  <2>8. \A s, r \in SUBSET DOMAIN g : s \cap r = {} => j[s \cup r] = j[s] + j[r]
    BY SumApart
  <2> HIDE DEF Of, mine, j, h
  <2>9. j[Of(t)] = j[mine] + j[Of(t \ {w})]
    BY <2>5, <2>8
  <2> QED
    BY <2>4, <2>6, <2>7, <2>9
<1> QED
  BY <1>1

\* What is nothing outside a set has its sum within it.
LEMMA SumWithin ==
    ASSUME NEW g, NEW k, Whole(g), DOMAIN k \subseteq DOMAIN g, \A x \in DOMAIN k : k[x] = g[x],
           \A x \in DOMAIN g \ DOMAIN k : g[x] = 0
    PROVE  Whole(k) /\ SumsOf(g)[DOMAIN g] = SumsOf(k)[DOMAIN k]
<1> DEFINE A == DOMAIN k
           R == DOMAIN g \ A
<1>1. Whole(k)
  BY FS_Subset DEF Whole
<1>2. SumsOf(k)[A] = SumsOf(g)[A]
  BY <1>1, SumsAgree
<1>3. SumsOf(g)[R] = 0
  BY SumNothing
<1>4. A \in SUBSET DOMAIN g /\ R \in SUBSET DOMAIN g /\ A \cap R = {} /\ A \cup R = DOMAIN g
  OBVIOUS
<1>5. SumsOf(g)[A] \in Int
  BY <1>4, SumsWhole
<1> HIDE DEF A, R
<1>6. SumsOf(g)[A \cup R] = SumsOf(g)[A] + SumsOf(g)[R]
  BY <1>4, SumApart
<1> QED
  BY <1>1, <1>2, <1>3, <1>4, <1>5, <1>6 DEF A

\* Two tables shown in one list, a row of it for each of theirs.
Listed(f, e, S, P) ==
    /\ IsFiniteSet(S) /\ IsFiniteSet(P) /\ DOMAIN f = S /\ DOMAIN e = P
    /\ \A i, j \in S : f[i] = f[j] => i = j
    /\ \A p, q \in P : e[p] = e[q] => p = q
    /\ \A i \in S, p \in P : f[i] # e[p]
List(f, e, S, P) == {f[i] : i \in S} \cup {e[p] : p \in P}

LEMMA ListCount ==
    ASSUME NEW f, NEW e, NEW S, NEW P, Listed(f, e, S, P)
    PROVE  /\ IsFiniteSet(List(f, e, S, P))
           /\ Cardinality(List(f, e, S, P)) = Cardinality(S) + Cardinality(P)
           /\ Cardinality(S) \in Nat /\ Cardinality(P) \in Nat
<1> DEFINE F == {f[i] : i \in S}
           E == {e[p] : p \in P}
<1>1. ASSUME NEW D, NEW h, IsFiniteSet(D), \A i, j \in D : h[i] = h[j] => i = j
      PROVE  IsFiniteSet({h[i] : i \in D}) /\ Cardinality({h[i] : i \in D}) = Cardinality(D)
  <2> DEFINE k == [i \in D |-> h[i]]
             T == {h[i] : i \in D}
  <2>1. k \in Bijection(D, T)
    BY <1>1 DEF Bijection, Injection, Surjection, IsInjective
  <2> HIDE DEF k, T
  <2>2. IsFiniteSet(T) /\ Cardinality(T) = Cardinality(D)
    BY <1>1, <2>1, FS_Bijection DEF ExistsBijection
  <2> QED
    BY <2>2 DEF T
<1>2. IsFiniteSet(F) /\ Cardinality(F) = Cardinality(S)
  BY <1>1 DEF Listed
<1>3. IsFiniteSet(E) /\ Cardinality(E) = Cardinality(P)
  BY <1>1 DEF Listed
<1>4. F \cap E = {} /\ List(f, e, S, P) = F \cup E
  BY DEF Listed, List
<1> HIDE DEF F, E
<1>5. IsFiniteSet(F \cup E) /\ Cardinality(F \cup E) = Cardinality(F) + Cardinality(E) - Cardinality(F \cap E)
  BY <1>2, <1>3, FS_Union
<1>6. Cardinality(F \cap E) = 0 /\ Cardinality(F) \in Nat /\ Cardinality(E) \in Nat
  BY <1>2, <1>3, <1>4, FS_EmptySet, FS_CardinalityType
<1> QED
  BY <1>2, <1>3, <1>4, <1>5, <1>6

LEMMA ListSum ==
    ASSUME NEW f, NEW e, NEW S, NEW P, Listed(f, e, S, P), NEW g, NEW a, NEW b,
           DOMAIN g = List(f, e, S, P), DOMAIN a = S, DOMAIN b = P,
           \A i \in S : g[f[i]] = a[i] /\ a[i] \in Int, \A p \in P : g[e[p]] = b[p] /\ b[p] \in Int
    PROVE  Whole(g) /\ SumsOf(g)[DOMAIN g] = SumsOf(a)[S] + SumsOf(b)[P]
<1> DEFINE F == {f[i] : i \in S}
           E == {e[p] : p \in P}
<1>1. Whole(g) /\ Whole(a) /\ Whole(b)
  <2>1. IsFiniteSet(DOMAIN g)
    BY ListCount
  <2>2. \A x \in DOMAIN g : g[x] \in Int
    BY DEF List
  <2> QED
    BY <2>1, <2>2 DEF Whole, Listed
<1>2. F \cap E = {} /\ DOMAIN g = F \cup E /\ F \in SUBSET DOMAIN g /\ E \in SUBSET DOMAIN g
  BY DEF Listed, List
<1>3. ASSUME NEW k, NEW h, Whole(k), DOMAIN h = DOMAIN k, \A x \in DOMAIN k : h[x] \in DOMAIN g /\ k[x] = g[h[x]],
             \A x, y \in DOMAIN k : h[x] = h[y] => x = y
      PROVE  SumsOf(k)[DOMAIN k] = SumsOf(g)[{h[x] : x \in DOMAIN k}]
  <2> DEFINE l == [x \in DOMAIN k |-> h[x]]
  <2>1. l \in [DOMAIN k -> DOMAIN g] /\ \A x \in DOMAIN k : l[x] = h[x]
    BY <1>3
  <2> HIDE DEF l
  <2>4. /\ \A x, y \in DOMAIN k : l[x] = l[y] => x = y
        /\ \A x \in DOMAIN k : k[x] = g[l[x]]
    BY <1>3, <2>1
  <2>2. ASSUME NEW s \in SUBSET DOMAIN k PROVE SumsOf(k)[s] = SumsOf(g)[{l[x] : x \in s}]
    BY <1>1, <1>3, <2>1, <2>4, SumRenamed
  <2>3. {l[x] : x \in DOMAIN k} = {h[x] : x \in DOMAIN k}
    BY <2>1
  <2> QED
    BY <2>2, <2>3
<1>4. SumsOf(a)[S] = SumsOf(g)[F]
  BY <1>1, <1>2, <1>3 DEF Listed
<1>5. SumsOf(b)[P] = SumsOf(g)[E]
  BY <1>1, <1>2, <1>3 DEF Listed
<1> HIDE DEF F, E
<1>6. SumsOf(g)[F \cup E] = SumsOf(g)[F] + SumsOf(g)[E]
  BY <1>1, <1>2, SumApart
<1> QED
  BY <1>1, <1>2, <1>4, <1>5, <1>6

-----------------------------------------------------------------------------
(* The figures of the players *)

\* The community modules' sum is that of the whole domain.
LEMMA SumIs ==
    ASSUME NEW g
    PROVE  Users!SumFunction(g) = SumsOf(g)[DOMAIN g]
BY DEF Users!SumFunction, Users!SumFunctionOnSet, Users!FoldFunctionOnSet, Users!MapThenFoldSet, SumsOf, Table, Chosen

\* An open bet has returned nothing.
Unpaid ==
    /\ \A i \in Users!Rows(picks) : picks[i].result = None => picks[i].payout = 0
    /\ \A p \in Users!Rows(parlays) : parlays[p].result = None => parlays[p].payout = 0

StraightBets(S) == [i \in S |-> Users!Bet("straight", i, picks[i], picks[i].day)]
ParlayBets(P) == [p \in P |-> Users!Bet("parlay", p, parlays[p], Users!ParlayDay(p))]

\* The rows are finitely many, and what their columns hold.
LEMMA RowTypes ==
    ASSUME Users!AccountsAssumption, AccountRows
    PROVE  /\ IsFiniteSet(Users!Rows(picks)) /\ IsFiniteSet(Users!Rows(parlays))
           /\ \A i \in Users!Rows(picks) :
                  /\ picks[i].stake \in Nat /\ picks[i].day \in Nat /\ picks[i].payout \in Int
                  /\ picks[i].result \in Users!Results \cup {None}
           /\ \A p \in Users!Rows(parlays) :
                  /\ parlays[p].stake \in Nat /\ parlays[p].payout \in Int
                  /\ parlays[p].result \in Users!Results \cup {None}
<1>1. IsFiniteSet(1 .. MaxPicks) /\ IsFiniteSet(1 .. MaxParlays)
  BY FS_Interval DEF Users!AccountsAssumption
<1>2. Users!Rows(picks) \subseteq 1 .. MaxPicks /\ Users!Rows(parlays) \subseteq 1 .. MaxParlays
  BY DEF AccountRows, Users!Rows
<1>3. \A i \in Users!Rows(picks) : picks[i] \in Users!PickRows
  BY DEF AccountRows, Users!Rows
<1>4. \A p \in Users!Rows(parlays) : parlays[p] \in Users!ParlayRows
  BY DEF AccountRows, Users!Rows
<1> QED
  BY <1>1, <1>2, <1>3, <1>4, FS_Subset DEF Users!PickRows, Users!ParlayRows

\* What a finite set is mapped onto is finite.
LEMMA FiniteImage ==
    ASSUME NEW S, IsFiniteSet(S), NEW T, NEW f \in [S -> T], \A y \in T : \E x \in S : f[x] = y
    PROVE  IsFiniteSet(T)
<1>1. f \in Surjection(S, T)
  BY DEF Surjection
<1> QED
  BY <1>1, FS_Surjection

LEMMA LegDay ==
    ASSUME Users!AccountsAssumption, AccountRows, NEW p
    PROVE  Users!ParlayDay(p) \in Nat
<1> DEFINE L == Users!Legs(p)
           days == {picks[i].day : i \in L}
           S == {0} \cup days
<1>1. IsFiniteSet(L) /\ \A i \in L : picks[i].day \in Nat
  BY RowTypes, FS_Subset DEF Users!Legs
<1>2. IsFiniteSet(days)
  <2> DEFINE h == [i \in L |-> picks[i].day]
  <2>1. h \in [L -> days] /\ \A d \in days : \E i \in L : h[i] = d
    OBVIOUS
  <2> HIDE DEF h, L, days
  <2> QED
    BY <1>1, <2>1, FiniteImage
<1>3. IsFiniteSet({0})
  BY FS_Singleton
<1>4. IsFiniteSet(S)
  BY <1>2, <1>3, FS_Union
<1>5. S \in SUBSET Nat /\ S # {}
  BY <1>1
<1>6. Users!Max(S) \in S
  <2> HIDE DEF S
  <2> QED
    BY <1>4, <1>5, GreatestNumber
<1>7. Users!ParlayDay(p) = Users!Max(S)
  BY DEF Users!ParlayDay
<1> QED
  BY <1>5, <1>6, <1>7

\* What a bet of the scorecard shows of its row.
LEMMA BetShows ==
    ASSUME NEW kind, NEW id, NEW row, NEW day
    PROVE  LET b == Users!Bet(kind, id, row, day) IN
           /\ b.kind = kind /\ b.id = id /\ b.result = row.result /\ b.stake = row.stake /\ b.day = day
           /\ row.result # None => b.profit = row.payout
           /\ row.result = None => b.profit = 0
BY DEF Users!Bet

\* The scorecard lists the straight bets and, if they are asked for, the parlays.
LEMMA BetsListed ==
    ASSUME Users!AccountsAssumption, AccountRows,
           NEW S \in SUBSET Users!Rows(picks), NEW P \in SUBSET Users!Rows(parlays)
    PROVE  /\ Listed(StraightBets(S), ParlayBets(P), S, P)
           /\ \A i \in S : /\ StraightBets(S)[i].kind = "straight" /\ StraightBets(S)[i].id = i
                           /\ StraightBets(S)[i].result = picks[i].result
                           /\ StraightBets(S)[i].day = picks[i].day
                           /\ picks[i].result # None => StraightBets(S)[i].profit = picks[i].payout
                           /\ picks[i].result = None => StraightBets(S)[i].profit = 0
           /\ \A p \in P : /\ ParlayBets(P)[p].kind = "parlay" /\ ParlayBets(P)[p].id = p
                           /\ ParlayBets(P)[p].result = parlays[p].result
                           /\ ParlayBets(P)[p].day = Users!ParlayDay(p)
                           /\ parlays[p].result # None => ParlayBets(P)[p].profit = parlays[p].payout
                           /\ parlays[p].result = None => ParlayBets(P)[p].profit = 0
<1>1. IsFiniteSet(S) /\ IsFiniteSet(P)
  BY RowTypes, FS_Subset
<1>2. \A i \in S : StraightBets(S)[i] = Users!Bet("straight", i, picks[i], picks[i].day)
  BY DEF StraightBets
<1>3. \A p \in P : ParlayBets(P)[p] = Users!Bet("parlay", p, parlays[p], Users!ParlayDay(p))
  BY DEF ParlayBets
<1>4. \A i \in S : /\ StraightBets(S)[i].kind = "straight" /\ StraightBets(S)[i].id = i
                   /\ StraightBets(S)[i].result = picks[i].result
                   /\ StraightBets(S)[i].day = picks[i].day
                   /\ picks[i].result # None => StraightBets(S)[i].profit = picks[i].payout
                   /\ picks[i].result = None => StraightBets(S)[i].profit = 0
  BY <1>2, BetShows
<1>5. \A p \in P : /\ ParlayBets(P)[p].kind = "parlay" /\ ParlayBets(P)[p].id = p
                   /\ ParlayBets(P)[p].result = parlays[p].result
                   /\ ParlayBets(P)[p].day = Users!ParlayDay(p)
                   /\ parlays[p].result # None => ParlayBets(P)[p].profit = parlays[p].payout
                   /\ parlays[p].result = None => ParlayBets(P)[p].profit = 0
  BY <1>3, BetShows
<1>6. DOMAIN StraightBets(S) = S /\ DOMAIN ParlayBets(P) = P
  BY DEF StraightBets, ParlayBets
<1>7. Listed(StraightBets(S), ParlayBets(P), S, P)
  <2>1. \A i, j \in S : StraightBets(S)[i] = StraightBets(S)[j] => i = j
    BY <1>4
  <2>2. \A p, q \in P : ParlayBets(P)[p] = ParlayBets(P)[q] => p = q
    BY <1>5
  <2>3. \A i \in S, p \in P : StraightBets(S)[i] # ParlayBets(P)[p]
    BY <1>4, <1>5
  <2> QED
    BY <1>1, <1>6, <2>1, <2>2, <2>3 DEF Listed
<1> QED
  BY <1>4, <1>5, <1>7

\* A sum over ids, whatever set the function of them is over.
LEMMA TotalIs ==
    ASSUME NEW field, NEW table, NEW ids
    PROVE  Users!Total(field, table, ids) = SumsOf([i \in ids |-> table[i][field]])[ids]
BY SumIs DEF Users!Total
LEMMA SumOver ==
    ASSUME NEW field, NEW records
    PROVE  Users!Sum(field, records) = SumsOf([r \in records |-> r[field]])[records]
BY SumIs DEF Users!Sum

\* The scorecard's profit is what the bets have returned.
LEMMA ProfitIs ==
    ASSUME Users!AccountsAssumption, AccountRows, Unpaid, NEW u, NEW all \in BOOLEAN,
           NEW Q, Q = {q \in Users!Parlays(u) : all}
    PROVE  /\ Users!summarize(Users!player_bets(u, all)).profit =
                  Users!Total("payout", picks, Users!Straight(u)) + Users!Total("payout", parlays, Q)
           /\ Users!Total("payout", picks, Users!Straight(u)) \in Int
           /\ Users!Total("payout", parlays, Q) \in Int
<1> DEFINE bets == Users!player_bets(u, all)
           Ended == Users!Ended(bets)
           S == {i \in Users!Straight(u) : picks[i].result # None}
           P == {p \in Q : parlays[p].result # None}
           g == [b \in Ended |-> b["profit"]]
           a == [i \in S |-> picks[i]["payout"]]
           b == [p \in P |-> parlays[p]["payout"]]
           wholeA == [i \in Users!Straight(u) |-> picks[i]["payout"]]
           wholeB == [p \in Q |-> parlays[p]["payout"]]
<1>1. /\ S \in SUBSET Users!Rows(picks) /\ P \in SUBSET Users!Rows(parlays)
      /\ Users!Straight(u) \in SUBSET Users!Rows(picks) /\ Q \in SUBSET Users!Rows(parlays)
  BY DEF Users!Straight, Users!Parlays
<1>2. Ended = List(StraightBets(S), ParlayBets(P), S, P)
  <2>1. Users!player_bets(u, all) =
            {Users!Bet("straight", i, picks[i], picks[i].day) : i \in Users!Straight(u)}
            \cup {Users!Bet("parlay", p, parlays[p], Users!ParlayDay(p)) : p \in Q}
    BY DEF Users!player_bets
  <2>2. \A i : Users!Bet("straight", i, picks[i], picks[i].day).result = picks[i].result
    BY BetShows
  <2>3. \A p : Users!Bet("parlay", p, parlays[p], Users!ParlayDay(p)).result = parlays[p].result
    BY BetShows
  <2>4. Ended = {x \in bets : x.result # None}
    BY DEF Users!Ended
  <2>5. List(StraightBets(S), ParlayBets(P), S, P) =
            {Users!Bet("straight", i, picks[i], picks[i].day) : i \in S}
            \cup {Users!Bet("parlay", p, parlays[p], Users!ParlayDay(p)) : p \in P}
    BY DEF List, StraightBets, ParlayBets
  <2> DEFINE F(i) == Users!Bet("straight", i, picks[i], picks[i].day)
             E(p) == Users!Bet("parlay", p, parlays[p], Users!ParlayDay(p))
  <2>6. bets = {F(i) : i \in Users!Straight(u)} \cup {E(p) : p \in Q}
    BY <2>1
  <2>7. List(StraightBets(S), ParlayBets(P), S, P) = {F(i) : i \in S} \cup {E(p) : p \in P}
    BY <2>5
  <2>8. (\A i : F(i).result = picks[i].result) /\ (\A p : E(p).result = parlays[p].result)
    BY <2>2, <2>3
  <2> HIDE DEF bets, F, E
  <2>9. {x \in bets : x.result # None} = {F(i) : i \in S} \cup {E(p) : p \in P}
    BY <2>6, <2>8
  <2> QED
    BY <2>4, <2>7, <2>9
<1>3. Listed(StraightBets(S), ParlayBets(P), S, P)
  <2> HIDE DEF S, P
  <2> QED
    BY <1>1, BetsListed
<1>4. /\ \A i \in S : StraightBets(S)[i]["profit"] = picks[i]["payout"]
      /\ \A p \in P : ParlayBets(P)[p]["profit"] = parlays[p]["payout"]
  <2> DEFINE F == StraightBets(S)
             E == ParlayBets(P)
  <2>1. /\ \A i \in S : picks[i].result # None => F[i].profit = picks[i].payout
        /\ \A p \in P : parlays[p].result # None => E[p].profit = parlays[p].payout
    <3> HIDE DEF S, P
    <3> QED
      BY <1>1, BetsListed
  <2> HIDE DEF F, E
  <2>2. /\ \A i \in S : F[i]["profit"] = picks[i]["payout"]
        /\ \A p \in P : E[p]["profit"] = parlays[p]["payout"]
    BY <2>1
  <2> QED
    BY <2>2 DEF F, E
<1>5. /\ \A i \in Users!Straight(u) : picks[i]["payout"] \in Int
      /\ \A p \in Q : parlays[p]["payout"] \in Int
  BY <1>1, RowTypes
<1>6. SumsOf(g)[DOMAIN g] = SumsOf(a)[S] + SumsOf(b)[P]
  <2>1. DOMAIN g = List(StraightBets(S), ParlayBets(P), S, P) /\ DOMAIN a = S /\ DOMAIN b = P
    BY <1>2
  <2>2. \A i \in S : g[StraightBets(S)[i]] = a[i] /\ a[i] \in Int
    <3>1. \A i \in S : StraightBets(S)[i] \in Ended
      BY <1>2 DEF List
    <3> HIDE DEF Ended
    <3> QED
      BY <1>4, <1>5, <3>1
  <2>3. \A p \in P : g[ParlayBets(P)[p]] = b[p] /\ b[p] \in Int
    <3>1. \A p \in P : ParlayBets(P)[p] \in Ended
      BY <1>2 DEF List
    <3> HIDE DEF Ended
    <3> QED
      BY <1>4, <1>5, <3>1
  <2> HIDE DEF g, a, b, S, P
  <2> QED
    BY <1>3, <2>1, <2>2, <2>3, ListSum
<1>7. Whole(wholeA) /\ Whole(wholeB)
  BY <1>1, <1>5, RowTypes, FS_Subset DEF Whole
<1>8. SumsOf(wholeA)[Users!Straight(u)] = SumsOf(a)[S]
  <2>1. /\ DOMAIN a \subseteq DOMAIN wholeA /\ \A x \in DOMAIN a : a[x] = wholeA[x]
        /\ \A x \in DOMAIN wholeA \ DOMAIN a : wholeA[x] = 0
    BY <1>1 DEF Unpaid
  <2>2. DOMAIN a = S /\ DOMAIN wholeA = Users!Straight(u)
    OBVIOUS
  <2> HIDE DEF a, wholeA, S
  <2> QED
    BY <1>7, <2>1, <2>2, SumWithin
<1>9. SumsOf(wholeB)[Q] = SumsOf(b)[P]
  <2>1. /\ DOMAIN b \subseteq DOMAIN wholeB /\ \A x \in DOMAIN b : b[x] = wholeB[x]
        /\ \A x \in DOMAIN wholeB \ DOMAIN b : wholeB[x] = 0
    BY <1>1 DEF Unpaid
  <2>2. DOMAIN b = P /\ DOMAIN wholeB = Q
    OBVIOUS
  <2> HIDE DEF b, wholeB, P
  <2> QED
    BY <1>7, <2>1, <2>2, SumWithin
<1>10. Users!summarize(bets).profit = SumsOf(g)[DOMAIN g]
  <2>1. Users!summarize(bets).profit = Users!Sum("profit", Ended)
    BY DEF Users!summarize
  <2>2. DOMAIN g = Ended
    OBVIOUS
  <2> HIDE DEF Ended
  <2> QED
    BY <2>1, <2>2, SumOver
<1>11. /\ Users!Total("payout", picks, Users!Straight(u)) = SumsOf(wholeA)[Users!Straight(u)]
       /\ Users!Total("payout", parlays, Q) = SumsOf(wholeB)[Q]
  BY TotalIs
<1>12. SumsOf(wholeA)[Users!Straight(u)] \in Int /\ SumsOf(wholeB)[Q] \in Int
  <2>1. DOMAIN wholeA = Users!Straight(u) /\ DOMAIN wholeB = Q
    OBVIOUS
  <2> HIDE DEF wholeA, wholeB
  <2> QED
    BY <1>7, <2>1, SumsWhole
<1> HIDE DEF bets, g, a, b, wholeA, wholeB
<1> QED
  BY <1>6, <1>8, <1>9, <1>10, <1>11, <1>12 DEF bets

\* The tickets, of all bets or of the open ones, are a list of the same rows.
StraightTickets(S) ==
    [i \in S |-> [kind |-> "straight", id |-> i, legs |-> {i}, stake |-> picks[i].stake, result |-> picks[i].result]]
ParlayTickets(P) ==
    [p \in P |-> [kind |-> "parlay", id |-> p, legs |-> Users!Legs(p), stake |-> parlays[p].stake,
                  result |-> parlays[p].result]]

LEMMA TicketsListed ==
    ASSUME Users!AccountsAssumption, AccountRows,
           NEW S \in SUBSET Users!Rows(picks), NEW P \in SUBSET Users!Rows(parlays)
    PROVE  /\ Listed(StraightTickets(S), ParlayTickets(P), S, P)
           /\ \A i \in S : StraightTickets(S)[i].stake = picks[i].stake
           /\ \A p \in P : ParlayTickets(P)[p].stake = parlays[p].stake
<1>1. IsFiniteSet(S) /\ IsFiniteSet(P)
  BY RowTypes, FS_Subset
<1>2. \A i \in S : /\ StraightTickets(S)[i].kind = "straight" /\ StraightTickets(S)[i].id = i
                   /\ StraightTickets(S)[i].stake = picks[i].stake
  BY DEF StraightTickets
<1>3. \A p \in P : /\ ParlayTickets(P)[p].kind = "parlay" /\ ParlayTickets(P)[p].id = p
                   /\ ParlayTickets(P)[p].stake = parlays[p].stake
  BY DEF ParlayTickets
<1>4. DOMAIN StraightTickets(S) = S /\ DOMAIN ParlayTickets(P) = P
  BY DEF StraightTickets, ParlayTickets
<1>5. \A i, j \in S : StraightTickets(S)[i] = StraightTickets(S)[j] => i = j
  BY <1>2
<1>6. \A p, q \in P : ParlayTickets(P)[p] = ParlayTickets(P)[q] => p = q
  BY <1>3
<1>7. \A i \in S, p \in P : StraightTickets(S)[i] # ParlayTickets(P)[p]
  BY <1>2, <1>3
<1> QED
  BY <1>1, <1>2, <1>3, <1>4, <1>5, <1>6, <1>7 DEF Listed

\* What the bankroll holds to be at stake is what the open tickets show.
LEMMA StakesShown ==
    ASSUME Users!AccountsAssumption, AccountRows, NEW u
    PROVE  Users!open_stakes(u) = Users!Sum("stake", {k \in Users!tickets(u) : k.result = None})
<1> DEFINE Open == {k \in Users!tickets(u) : k.result = None}
           S == Users!Pending(picks, Users!Straight(u))
           P == Users!Pending(parlays, Users!Parlays(u))
           g == [k \in Open |-> k["stake"]]
           a == [i \in S |-> picks[i]["stake"]]
           b == [p \in P |-> parlays[p]["stake"]]
           F == StraightTickets(S)
           E == ParlayTickets(P)
<1>1. S \in SUBSET Users!Rows(picks) /\ P \in SUBSET Users!Rows(parlays)
  BY DEF Users!Straight, Users!Parlays, Users!Pending
<1>2. Open = List(F, E, S, P)
  <2> DEFINE T(i) == [kind |-> "straight", id |-> i, legs |-> {i}, stake |-> picks[i].stake, result |-> picks[i].result]
             Q(p) == [kind |-> "parlay", id |-> p, legs |-> Users!Legs(p), stake |-> parlays[p].stake,
                      result |-> parlays[p].result]
             tickets == Users!tickets(u)
  <2>1. tickets = {T(i) : i \in Users!Straight(u)} \cup {Q(p) : p \in Users!Parlays(u)}
    BY DEF Users!tickets
  <2>2. (\A i : T(i).result = picks[i].result) /\ \A p : Q(p).result = parlays[p].result
    OBVIOUS
  <2>3. List(F, E, S, P) = {T(i) : i \in S} \cup {Q(p) : p \in P}
    BY DEF List, StraightTickets, ParlayTickets
  <2>4. S = {i \in Users!Straight(u) : picks[i].result = None} /\ P = {p \in Users!Parlays(u) : parlays[p].result = None}
    BY DEF Users!Pending
  <2> HIDE DEF T, Q, tickets, S, P
  <2>5. {k \in tickets : k.result = None} = {T(i) : i \in S} \cup {Q(p) : p \in P}
    BY <2>1, <2>2, <2>4
  <2> QED
    BY <2>3, <2>5 DEF tickets
<1>3. /\ Listed(F, E, S, P)
      /\ \A i \in S : F[i].stake = picks[i].stake
      /\ \A p \in P : E[p].stake = parlays[p].stake
  <2> HIDE DEF S, P
  <2> QED
    BY <1>1, TicketsListed
<1>4. (\A i \in S : picks[i]["stake"] \in Int) /\ \A p \in P : parlays[p]["stake"] \in Int
  BY <1>1, RowTypes
<1>5. SumsOf(g)[DOMAIN g] = SumsOf(a)[S] + SumsOf(b)[P]
  <2>1. DOMAIN g = Open /\ DOMAIN a = S /\ DOMAIN b = P /\ \A k \in Open : g[k] = k.stake
    OBVIOUS
  <2>2. (\A i \in S : F[i] \in Open) /\ \A p \in P : E[p] \in Open
    BY <1>2 DEF List
  <2>3. (\A i \in S : a[i] = picks[i].stake) /\ \A p \in P : b[p] = parlays[p].stake
    OBVIOUS
  <2> HIDE DEF g, a, b, S, P, F, E, Open
  <2>4. \A i \in S : g[F[i]] = a[i] /\ a[i] \in Int
    BY <1>3, <1>4, <2>1, <2>2, <2>3
  <2>5. \A p \in P : g[E[p]] = b[p] /\ b[p] \in Int
    BY <1>3, <1>4, <2>1, <2>2, <2>3
  <2> QED
    BY <1>2, <1>3, <2>1, <2>4, <2>5, ListSum
<1>6. Users!Sum("stake", Open) = SumsOf(g)[DOMAIN g]
  <2>1. DOMAIN g = Open
    OBVIOUS
  <2> HIDE DEF Open
  <2> QED
    BY <2>1, SumOver
<1>7. Users!open_stakes(u) = SumsOf(a)[S] + SumsOf(b)[P]
  BY TotalIs DEF Users!open_stakes
<1> QED
  BY <1>5, <1>6, <1>7

\* Every bet of the scorecard is counted once, by how it ended, and has its ticket.
LEMMA TicketsCounted ==
    ASSUME Users!AccountsAssumption, AccountRows, NEW u
    PROVE  LET bets == Users!player_bets(u, TRUE) IN
           /\ IsFiniteSet(bets) /\ Cardinality(bets) = Cardinality(Users!tickets(u))
           /\ \A x \in bets : x.result \in Users!Results \cup {None} /\ x.day \in Nat /\ x.profit \in Int
<1> DEFINE bets == Users!player_bets(u, TRUE)
           S == Users!Straight(u)
           P == Users!Parlays(u)
<1>1. S \in SUBSET Users!Rows(picks) /\ P \in SUBSET Users!Rows(parlays)
  BY DEF Users!Straight, Users!Parlays
<1>2. bets = List(StraightBets(S), ParlayBets(P), S, P)
  BY DEF Users!player_bets, List, StraightBets, ParlayBets
<1>3. Users!tickets(u) = List(StraightTickets(S), ParlayTickets(P), S, P)
  BY DEF Users!tickets, List, StraightTickets, ParlayTickets
<1> HIDE DEF bets, S, P
<1>4. Listed(StraightBets(S), ParlayBets(P), S, P) /\ Listed(StraightTickets(S), ParlayTickets(P), S, P)
  BY <1>1, BetsListed, TicketsListed
<1>5. IsFiniteSet(bets) /\ Cardinality(bets) = Cardinality(Users!tickets(u))
  BY <1>2, <1>3, <1>4, ListCount
<1>6. ASSUME NEW i \in S
      PROVE  LET x == StraightBets(S)[i] IN x.result \in Users!Results \cup {None} /\ x.day \in Nat /\ x.profit \in Int
  <2>1. PICK x : x = StraightBets(S)[i]
    OBVIOUS
  <2>2. /\ x.result = picks[i].result /\ x.day = picks[i].day
        /\ picks[i].result # None => x.profit = picks[i].payout
        /\ picks[i].result = None => x.profit = 0
    BY <1>1, <2>1, BetsListed
  <2>3. /\ picks[i].day \in Nat /\ picks[i].payout \in Int /\ picks[i].result \in Users!Results \cup {None}
    BY <1>1, RowTypes
  <2> QED
    BY <2>1, <2>2, <2>3
<1>7. ASSUME NEW p \in P
      PROVE  LET x == ParlayBets(P)[p] IN x.result \in Users!Results \cup {None} /\ x.day \in Nat /\ x.profit \in Int
  <2>1. PICK x : x = ParlayBets(P)[p]
    OBVIOUS
  <2>2. /\ x.result = parlays[p].result /\ x.day = Users!ParlayDay(p)
        /\ parlays[p].result # None => x.profit = parlays[p].payout
        /\ parlays[p].result = None => x.profit = 0
    BY <1>1, <2>1, BetsListed
  <2>3. /\ Users!ParlayDay(p) \in Nat /\ parlays[p].payout \in Int /\ parlays[p].result \in Users!Results \cup {None}
    BY <1>1, RowTypes, LegDay
  <2> QED
    BY <2>1, <2>2, <2>3
<1>8. \A x \in bets : x.result \in Users!Results \cup {None} /\ x.day \in Nat /\ x.profit \in Int
  BY <1>2, <1>6, <1>7 DEF List
<1> QED
  BY <1>5, <1>8 DEF bets

\* The record of some bets: their counts are of them all, and of more bets they are no smaller.
LEMMA RecordIs ==
    ASSUME Users!AccountsAssumption, NEW bets, IsFiniteSet(bets),
           \A x \in bets : x.result \in Users!Results \cup {None}
    PROVE  LET s == Users!summarize(bets) IN
           /\ s.wins \in Nat /\ s.losses \in Nat /\ s.pushes \in Nat /\ s.cashed_out \in Nat /\ s.pending \in Nat
           /\ Users!Settled(s) + s.pending = Cardinality(bets)
<1> DEFINE Of(r) == {b \in bets : b.result = r}
           s == Users!summarize(bets)
           ended == (Of("win") \cup Of("loss")) \cup (Of("push") \cup Of("cashed_out"))
<1>1. \A r : IsFiniteSet(Of(r)) /\ Cardinality(Of(r)) \in Nat /\ Users!With(bets, r) = Cardinality(Of(r))
  <2> TAKE r
  <2>1. Of(r) \in SUBSET bets
    OBVIOUS
  <2>2. Users!With(bets, r) = Users!Cardinality(Of(r))
    BY DEF Users!With
  <2> HIDE DEF Of
  <2> QED
    BY <2>1, <2>2, FS_Subset, FS_CardinalityType, AccountCount
<1>2. ASSUME NEW A, NEW B, IsFiniteSet(A), IsFiniteSet(B), A \cap B = {}
      PROVE  IsFiniteSet(A \cup B) /\ Cardinality(A \cup B) = Cardinality(A) + Cardinality(B)
  <2>1. IsFiniteSet(A \cup B) /\ Cardinality(A \cup B) = Cardinality(A) + Cardinality(B) - Cardinality(A \cap B)
    BY <1>2, FS_Union
  <2>2. Cardinality(A \cap B) = 0 /\ Cardinality(A) \in Nat /\ Cardinality(B) \in Nat
    BY <1>2, FS_EmptySet, FS_CardinalityType
  <2> QED
    BY <2>1, <2>2
<1>3. /\ Of("win") \cap Of("loss") = {} /\ Of("push") \cap Of("cashed_out") = {}
      /\ (Of("win") \cup Of("loss")) \cap (Of("push") \cup Of("cashed_out")) = {}
      /\ ended \cap Of(None) = {} /\ ended \cup Of(None) = bets
  <2>1. None \notin Users!Results /\ Users!Results = {"win", "loss", "push", "cashed_out"}
    BY DEF Users!AccountsAssumption, Users!Results
  <2> QED
    BY <2>1
<1>4. /\ s.wins = Cardinality(Of("win")) /\ s.losses = Cardinality(Of("loss"))
      /\ s.pushes = Cardinality(Of("push")) /\ s.cashed_out = Cardinality(Of("cashed_out"))
      /\ s.pending = Cardinality(Of(None))
  <2>1. /\ s.wins = Users!With(bets, "win") /\ s.losses = Users!With(bets, "loss")
        /\ s.pushes = Users!With(bets, "push") /\ s.cashed_out = Users!With(bets, "cashed_out")
        /\ s.pending = Users!With(bets, None)
    BY DEF Users!summarize
  <2> HIDE DEF Of, s
  <2> QED
    BY <1>1, <2>1
<1>5. Users!Settled(s) = s.wins + s.losses + s.pushes + s.cashed_out
  BY DEF Users!Settled
<1> HIDE DEF Of, s
<1>6. /\ IsFiniteSet(Of("win") \cup Of("loss")) /\ IsFiniteSet(Of("push") \cup Of("cashed_out"))
      /\ Cardinality(Of("win") \cup Of("loss")) = Cardinality(Of("win")) + Cardinality(Of("loss"))
      /\ Cardinality(Of("push") \cup Of("cashed_out")) = Cardinality(Of("push")) + Cardinality(Of("cashed_out"))
  BY <1>1, <1>2, <1>3
<1>7. /\ IsFiniteSet(ended)
      /\ Cardinality(ended) = Cardinality(Of("win") \cup Of("loss")) + Cardinality(Of("push") \cup Of("cashed_out"))
  BY <1>2, <1>3, <1>6
<1>8. Cardinality(ended \cup Of(None)) = Cardinality(ended) + Cardinality(Of(None))
  <2> HIDE DEF ended
  <2> QED
    BY <1>1, <1>2, <1>3, <1>7
<1>9. Cardinality(bets) = Cardinality(ended) + Cardinality(Of(None))
  BY <1>3, <1>8
<1> QED
  BY <1>1, <1>4, <1>5, <1>6, <1>7, <1>9 DEF s

LEMMA RecordGrows ==
    ASSUME NEW bets, NEW more, IsFiniteSet(more), bets \subseteq more
    PROVE  Users!Settled(Users!summarize(more)) >= Users!Settled(Users!summarize(bets))
<1> DEFINE Of(all, r) == {b \in all : b.result = r}
           s == Users!summarize(bets)
           t == Users!summarize(more)
<1>1. \A r : /\ Users!With(bets, r) = Cardinality(Of(bets, r)) /\ Users!With(more, r) = Cardinality(Of(more, r))
             /\ IsFiniteSet(Of(more, r)) /\ Of(bets, r) \in SUBSET Of(more, r)
  <2> TAKE r
  <2>1. Of(more, r) \in SUBSET more /\ Of(bets, r) \in SUBSET Of(more, r)
    OBVIOUS
  <2>2. Users!With(bets, r) = Users!Cardinality(Of(bets, r)) /\ Users!With(more, r) = Users!Cardinality(Of(more, r))
    BY DEF Users!With
  <2> HIDE DEF Of
  <2> QED
    BY <2>1, <2>2, FS_Subset, AccountCount
<1> HIDE DEF Of
<1>2. \A r : /\ Users!With(bets, r) \in Nat /\ Users!With(more, r) \in Nat
             /\ Users!With(bets, r) <= Users!With(more, r)
  <2> TAKE r
  <2> DEFINE A == Of(more, r)
             B == Of(bets, r)
  <2>1. IsFiniteSet(A) /\ B \in SUBSET A /\ Users!With(bets, r) = Cardinality(B) /\ Users!With(more, r) = Cardinality(A)
    BY <1>1
  <2> HIDE DEF A, B
  <2> QED
    BY <2>1, FS_Subset, FS_CardinalityType
<1>3. /\ s.wins = Users!With(bets, "win") /\ s.losses = Users!With(bets, "loss")
      /\ s.pushes = Users!With(bets, "push") /\ s.cashed_out = Users!With(bets, "cashed_out")
  BY DEF Users!summarize
<1>4. /\ t.wins = Users!With(more, "win") /\ t.losses = Users!With(more, "loss")
      /\ t.pushes = Users!With(more, "push") /\ t.cashed_out = Users!With(more, "cashed_out")
  BY DEF Users!summarize
<1> HIDE DEF s, t
<1>5. /\ Users!Settled(s) = s.wins + s.losses + s.pushes + s.cashed_out
      /\ Users!Settled(t) = t.wins + t.losses + t.pushes + t.cashed_out
  BY DEF Users!Settled
<1>6. Users!Settled(t) >= Users!Settled(s)
  BY <1>2, <1>3, <1>4, <1>5
<1> QED
  BY <1>6 DEF s, t

\* The weeks' profits are the whole's.
LEMMA WeeksSum ==
    ASSUME NEW bets, IsFiniteSet(bets), \A x \in bets : x.profit \in Int
    PROVE  LET weeks == Users!group(bets) IN
           Users!SumFunction([w \in DOMAIN weeks |-> weeks[w].profit]) = Users!summarize(bets).profit
<1> DEFINE E == Users!Ended(bets)
           g == [b \in E |-> b["profit"]]
           W == {Users!week(b.day) : b \in bets}
           weeks == Users!group(bets)
           k == [w \in DOMAIN weeks |-> weeks[w].profit]
           key == [b \in E |-> Users!week(b.day)]
           Mine(w) == {b \in bets : Users!week(b.day) = w}
           Part(w) == {b \in E : Users!week(b.day) = w}
<1>1. E \in SUBSET bets /\ E = {b \in bets : b.result # None}
  BY DEF Users!Ended
<1>2. Whole(g)
  <2>1. IsFiniteSet(E)
    BY <1>1, FS_Subset
  <2> QED
    BY <1>1, <2>1 DEF Whole
<1>3. DOMAIN weeks = W /\ \A w \in W : weeks[w] = Users!summarize(Mine(w))
  BY DEF Users!group
<1>4. IsFiniteSet(W)
  <2> DEFINE h == [b \in bets |-> Users!week(b.day)]
  <2>1. h \in [bets -> W] /\ \A w \in W : \E b \in bets : h[b] = w
    OBVIOUS
  <2> HIDE DEF h, W
  <2> QED
    BY <2>1, FiniteImage
<1>5. ASSUME NEW w PROVE Users!Ended(Mine(w)) = Part(w)
  BY DEF Users!Ended
<1>6. ASSUME NEW w PROVE Users!summarize(Mine(w)).profit = SumsOf(g)[Part(w)]
  <2> DEFINE h == [b \in Part(w) |-> b["profit"]]
  <2>1. Users!summarize(Mine(w)).profit = Users!Sum("profit", Users!Ended(Mine(w)))
    BY DEF Users!summarize
  <2>2. Users!Sum("profit", Part(w)) = SumsOf(h)[Part(w)]
    <3> HIDE DEF Part
    <3> QED
      BY SumOver
  <2>3. DOMAIN h = Part(w) /\ Part(w) \in SUBSET E /\ \A x \in Part(w) : h[x] = g[x]
    OBVIOUS
  <2>4. Whole(h)
    <3>1. \A x \in Part(w) : h[x] \in Int
      BY <1>1, <2>3
    <3>2. IsFiniteSet(Part(w))
      BY <1>2, <2>3, FS_Subset DEF Whole
    <3> HIDE DEF h, Part
    <3> QED
      BY <2>3, <3>1, <3>2 DEF Whole
  <2>5. SumsOf(h)[Part(w)] = SumsOf(g)[Part(w)]
    <3>1. DOMAIN h \subseteq DOMAIN g
      BY <2>3
    <3> HIDE DEF h, Part, g
    <3> QED
      BY <1>2, <2>3, <2>4, <3>1, SumsAgree
  <2> HIDE DEF Part, h, g, Mine
  <2> QED
    BY <1>5, <2>1, <2>2, <2>5
<1>7. DOMAIN k = W /\ \A w \in W : k[w] = SumsOf(g)[Part(w)]
  <2> HIDE DEF weeks, W, g, Part, Mine
  <2> QED
    BY <1>3, <1>6
<1>8. Whole(k)
  <2>1. \A w : Part(w) \in SUBSET DOMAIN g
    OBVIOUS
  <2> HIDE DEF k, W, g, Part
  <2>2. \A w : SumsOf(g)[Part(w)] \in Int
    BY <1>2, <2>1, SumsWhole
  <2> QED
    BY <1>4, <1>7, <2>2 DEF Whole
<1>9. SumsOf(k)[W] = SumsOf(g)[E]
  <2>1. key \in [DOMAIN g -> DOMAIN k]
    BY <1>1, <1>3
  <2>2. \A w \in DOMAIN k : k[w] = SumsOf(g)[Those(key, {w})]
    <3>1. ASSUME NEW w PROVE Part(w) = Those(key, {w})
      BY DEF Those
    <3> HIDE DEF k, g, Part, W, key
    <3> QED
      BY <1>7, <3>1
  <2>3. Those(key, W) = E
    BY <1>1 DEF Those
  <2> HIDE DEF k, g, key, W, E
  <2>4. ASSUME NEW a \in SUBSET DOMAIN k PROVE SumsOf(k)[a] = SumsOf(g)[Those(key, a)]
    BY <1>2, <1>8, <2>1, <2>2, SumGrouped
  <2> QED
    BY <1>7, <2>3, <2>4
<1>10. Users!summarize(bets).profit = SumsOf(g)[E]
  <2>1. Users!summarize(bets).profit = Users!Sum("profit", E)
    BY DEF Users!summarize
  <2> HIDE DEF E
  <2> QED
    BY <2>1, SumOver
<1>11. Users!SumFunction(k) = SumsOf(k)[W]
  <2> HIDE DEF k, W
  <2> QED
    BY <1>7, SumIs
<1>12. Users!SumFunction(k) = Users!summarize(bets).profit
  BY <1>9, <1>10, <1>11
<1> QED
  BY <1>12

\* The trend ends at the whole.
LEMMA TrendEnds ==
    ASSUME NEW bets, IsFiniteSet(bets), \A x \in bets : x.day \in Nat, DOMAIN Users!trend(bets) # {}
    PROVE  Users!trend(bets)[Users!Max(DOMAIN Users!trend(bets))] = Users!summarize(bets).profit
<1> DEFINE E == Users!Ended(bets)
           D == {b.day : b \in E}
           last == Users!Max(D)
<1>1. E \in SUBSET bets
  BY DEF Users!Ended
<1>2. IsFiniteSet(D) /\ D \in SUBSET Nat
  <2>1. IsFiniteSet(E)
    BY <1>1, FS_Subset
  <2>2. IsFiniteSet(D)
    <3> DEFINE h == [b \in E |-> b.day]
    <3>1. h \in [E -> D] /\ \A d \in D : \E b \in E : h[b] = d
      OBVIOUS
    <3> HIDE DEF h, E, D
    <3> QED
      BY <2>1, <3>1, FiniteImage
  <2> QED
    BY <1>1, <2>2
<1>3. Users!trend(bets) = [d \in D |-> Users!Sum("profit", {b \in E : b.day <= d})]
  BY DEF Users!trend
<1>4. last \in D /\ \A d \in D : last >= d
  <2>1. D # {}
    BY <1>3
  <2> HIDE DEF D
  <2> QED
    BY <1>2, <2>1, GreatestNumber
<1>5. {b \in E : b.day <= last} = E
  <2>1. \A b \in E : b.day <= last
    BY <1>2, <1>4
  <2> QED
    BY <2>1
<1>6. Users!trend(bets)[last] = Users!Sum("profit", {b \in E : b.day <= last})
  BY <1>3, <1>4
<1>7. Users!summarize(bets).profit = Users!Sum("profit", E)
  BY DEF Users!summarize
<1>8. DOMAIN Users!trend(bets) = D
  BY <1>3
<1> HIDE DEF E, D, last
<1> QED
  BY <1>5, <1>6, <1>7, <1>8 DEF last

\* Rows that are left alone, new or ended keep it so.
LEMMA UnpaidRest ==
    ASSUME Unpaid,
           \A i \in Users!Rows(picks)' : \/ i \in Users!Rows(picks) /\ picks'[i] = picks[i]
                                         \/ picks'[i].result # None \/ picks'[i].payout = 0,
           \A p \in Users!Rows(parlays)' : \/ p \in Users!Rows(parlays) /\ parlays'[p] = parlays[p]
                                           \/ parlays'[p].result # None \/ parlays'[p].payout = 0
    PROVE  Unpaid'
BY DEF Unpaid

LEMMA UnpaidStays ==
    ASSUME Users!AccountsAssumption, AccountRows, Unpaid, [Users!Next]_(Users!vars)
    PROVE  Unpaid'
<1>1. ASSUME NEW table, NEW i, NEW row,
             NEW new, new = [table EXCEPT ![i] = row]
      PROVE  \A j \in {k \in DOMAIN new : new[k] # None} :
                 \/ j \in {k \in DOMAIN table : table[k] # None} /\ new[j] = table[j]
                 \/ new[j] = row
  BY <1>1
<1>2. ASSUME UNCHANGED <<picks, parlays>> PROVE Unpaid'
  BY <1>2 DEF Unpaid, Users!Rows
<1>3. ASSUME NEW i, NEW row, picks' = [picks EXCEPT ![i] = row], UNCHANGED parlays, row.result # None \/ row.payout = 0
      PROVE  Unpaid'
  <2>1. \A j \in Users!Rows(picks)' : (j \in Users!Rows(picks) /\ picks'[j] = picks[j]) \/ picks'[j] = row
    BY <1>3 DEF Users!Rows
  <2>2. Users!Rows(parlays)' = Users!Rows(parlays)
    BY <1>3 DEF Users!Rows
  <2> QED
    BY <1>3, <2>1, <2>2, UnpaidRest
<1>4. ASSUME NEW p, NEW row, parlays' = [parlays EXCEPT ![p] = row], UNCHANGED picks, row.result # None \/ row.payout = 0
      PROVE  Unpaid'
  <2>1. \A q \in Users!Rows(parlays)' : (q \in Users!Rows(parlays) /\ parlays'[q] = parlays[q]) \/ parlays'[q] = row
    BY <1>4 DEF Users!Rows
  <2>2. Users!Rows(picks)' = Users!Rows(picks)
    BY <1>4 DEF Users!Rows
  <2> QED
    BY <1>4, <2>1, <2>2, UnpaidRest
<1>5. ASSUME NEW result \in Users!Results
      PROVE  /\ \A i \in Users!Rows(picks) : Users!Paid(picks[i], result).result # None
             /\ \A p \in Users!Rows(parlays) : Users!Paid(parlays[p], result).result # None
  <2>1. None \notin Users!Results
    BY DEF Users!AccountsAssumption
  <2>2. ASSUME NEW row, row \in Users!PickRows \/ row \in Users!ParlayRows
        PROVE  Users!Paid(row, result).result = result
    BY <2>2 DEF Users!Paid, Users!PickRows, Users!ParlayRows
  <2>3. /\ \A i \in Users!Rows(picks) : picks[i] \in Users!PickRows
        /\ \A p \in Users!Rows(parlays) : parlays[p] \in Users!ParlayRows
    BY DEF AccountRows, Users!Rows
  <2> QED
    BY <2>1, <2>2, <2>3
<1>6. CASE Users!grade_paper_picks
  <2>1. PICK i \in Users!Rows(picks), result \in {"win", "loss", "push"} :
            picks' = [picks EXCEPT ![i] = Users!Paid(picks[i], result)] /\ UNCHANGED parlays
    BY <1>6 DEF Users!grade_paper_picks, Users!Pending
  <2>2. result \in Users!Results
    BY DEF Users!Results
  <2> QED
    BY <1>3, <1>5, <2>1, <2>2
<1>7. CASE Users!settle_parlays_list
  <2>1. PICK p \in Users!Rows(parlays) :
            parlays' = [parlays EXCEPT ![p] = Users!Paid(parlays[p], Users!Outcome(p))] /\ UNCHANGED picks
    BY <1>7 DEF Users!settle_parlays_list, Users!Pending
  <2>2. Users!Outcome(p) \in Users!Results
    BY DEF Users!Results, Users!Outcome
  <2> QED
    BY <1>4, <1>5, <2>1, <2>2
<1>8. CASE Users!cash_out
  <2>3. "cashed_out" \in Users!Results
    BY DEF Users!Results
  <2>1. ASSUME NEW i \in Users!Rows(picks), picks' = [picks EXCEPT ![i] = Users!Paid(picks[i], "cashed_out")],
               UNCHANGED parlays
        PROVE  Unpaid'
    BY <1>3, <1>5, <2>1, <2>3
  <2>2. ASSUME NEW p \in Users!Rows(parlays), parlays' = [parlays EXCEPT ![p] = Users!Paid(parlays[p], "cashed_out")],
               UNCHANGED picks
        PROVE  Unpaid'
    BY <1>4, <1>5, <2>2, <2>3
  <2> QED
    BY <1>8, <2>1, <2>2 DEF Users!cash_out, Users!Pending
<1>9. ASSUME NEW t \in Threads, Users!place_pick(t) PROVE Unpaid'
  <2>1. PICK u, stake, day :
            /\ UNCHANGED parlays
            /\ picks' = picks \/ picks' = [picks EXCEPT ![Users!NextId(picks)] = Users!Pick(u, None, stake, day)]
    BY <1>9 DEF Users!place_pick
  <2>2. Users!Pick(u, None, stake, day).payout = 0
    BY DEF Users!Pick
  <2> QED
    BY <1>2, <1>3, <2>1, <2>2
<1>10. ASSUME NEW t \in Threads, Users!place_parlay(t) PROVE Unpaid'
  <2> DEFINE p == Users!NextId(parlays)
             i == Users!NextId(picks)
  <2>1. PICK u, stake, d1, d2 :
            \/ UNCHANGED <<picks, parlays>>
            \/ /\ parlays' = [parlays EXCEPT ![p] = [user |-> u, stake |-> stake, result |-> None, payout |-> 0]]
               /\ picks' = [picks EXCEPT ![i] = Users!Pick(u, p, 0, d1), ![i + 1] = Users!Pick(u, p, 0, d2)]
    BY <1>10 DEF Users!place_parlay
  <2>2. CASE UNCHANGED <<picks, parlays>>
    BY <1>2, <2>2
  <2>3. CASE /\ parlays' = [parlays EXCEPT ![p] = [user |-> u, stake |-> stake, result |-> None, payout |-> 0]]
             /\ picks' = [picks EXCEPT ![i] = Users!Pick(u, p, 0, d1), ![i + 1] = Users!Pick(u, p, 0, d2)]
    <3> DEFINE row == [user |-> u, stake |-> stake, result |-> None, payout |-> 0]
               one == Users!Pick(u, p, 0, d1)
               two == Users!Pick(u, p, 0, d2)
    <3>1. one.payout = 0 /\ two.payout = 0 /\ row.payout = 0
      BY DEF Users!Pick
    <3> HIDE DEF row, one, two, p, i
    <3>2. \A q \in Users!Rows(parlays)' : (q \in Users!Rows(parlays) /\ parlays'[q] = parlays[q]) \/ parlays'[q] = row
      BY <2>3 DEF Users!Rows, row
    <3>3. \A j \in Users!Rows(picks)' :
              (j \in Users!Rows(picks) /\ picks'[j] = picks[j]) \/ picks'[j] = one \/ picks'[j] = two
      BY <2>3 DEF Users!Rows, one, two
    <3> QED
      BY <3>1, <3>2, <3>3, UnpaidRest
  <2> QED
    BY <2>1, <2>2, <2>3
<1>11. ASSUME NEW t \in Threads, Users!delete_user(t) PROVE Unpaid'
  <2>1. PICK u :
            /\ picks' = [i \in DOMAIN picks |-> IF i \in Users!Rows(picks) /\ picks[i].user = u THEN None ELSE picks[i]]
            /\ parlays' = [p \in DOMAIN parlays |-> IF p \in Users!Parlays(u) THEN None ELSE parlays[p]]
    BY <1>11 DEF Users!delete_user
  <2>2. \A i \in Users!Rows(picks)' : i \in Users!Rows(picks) /\ picks'[i] = picks[i]
    BY <2>1 DEF Users!Rows
  <2>3. \A p \in Users!Rows(parlays)' : p \in Users!Rows(parlays) /\ parlays'[p] = parlays[p]
    BY <2>1 DEF Users!Rows
  <2> QED
    BY <2>2, <2>3, UnpaidRest
<1>12. CASE Users!RefreshStreaks \/ Users!NextDay \/ UNCHANGED Users!vars
  BY <1>2, <1>12 DEF Users!RefreshStreaks, Users!NextDay, Users!vars
<1>13. ASSUME NEW t \in Threads, Users!CheckName(t) \/ Users!create_user(t) \/ Users!LoadUser(t) PROVE Unpaid'
  BY <1>2, <1>13 DEF Users!CheckName, Users!create_user, Users!LoadUser
<1> QED
  BY <1>6, <1>7, <1>8, <1>9, <1>10, <1>11, <1>12, <1>13 DEF Users!Next

\* What a player's pages show, computed from the rows by separate queries, agrees.
LEMMA FiguresAgree ==
    ASSUME Users!AccountsAssumption, AccountRows, Unpaid, Users!StreaksFollow
    PROVE  Users!BooksAgree
<1> SUFFICES ASSUME NEW u \in Users!Players
             PROVE  LET bets == Users!player_bets(u, TRUE)
                        whole == Users!summarize(bets)
                        weeks == Users!group(bets)
                    IN /\ Users!balance_of(u) - Starting = whole.profit
                       /\ Users!Settled(whole) + whole.pending = Users!Cardinality(Users!tickets(u))
                       /\ Users!open_stakes(u) = Users!Sum("stake", {k \in Users!tickets(u) : k.result = None})
                       /\ whole.profit = Users!SumFunction([w \in DOMAIN weeks |-> weeks[w].profit])
                       /\ DOMAIN Users!trend(bets) # {} =>
                              Users!trend(bets)[Users!Max(DOMAIN Users!trend(bets))] = whole.profit
                       /\ Users!Settled(Users!Periods(u).this_week) >= Users!Settled(Users!Periods(u).today)
                       /\ Users!summarize(Users!player_bets(u, FALSE)).profit =
                              whole.profit - Users!Total("payout", parlays, Users!Parlays(u))
  BY DEF Users!BooksAgree
<1> DEFINE bets == Users!player_bets(u, TRUE)
           whole == Users!summarize(bets)
           A == Users!Total("payout", picks, Users!Straight(u))
           B == Users!Total("payout", parlays, Users!Parlays(u))
<1>1. /\ IsFiniteSet(bets) /\ Cardinality(bets) = Cardinality(Users!tickets(u))
      /\ \A x \in bets : x.result \in Users!Results \cup {None} /\ x.day \in Nat /\ x.profit \in Int
  BY TicketsCounted
<1>2. whole.profit = A + B /\ A \in Int /\ B \in Int
  <2>1. Users!Parlays(u) = {q \in Users!Parlays(u) : TRUE}
    OBVIOUS
  <2> QED
    BY <2>1, ProfitIs
<1>3. Users!summarize(Users!player_bets(u, FALSE)).profit = A
  <2>1. PICK none : none = {}
    OBVIOUS
  <2>2. none = {q \in Users!Parlays(u) : FALSE}
    BY <2>1
  <2>3. /\ Users!summarize(Users!player_bets(u, FALSE)).profit = A + Users!Total("payout", parlays, none)
        /\ A \in Int
    BY <2>2, ProfitIs
  <2>4. Users!Total("payout", parlays, none) = 0
    <3> DEFINE g == [i \in none |-> parlays[i]["payout"]]
    <3>1. Whole(g)
      BY <2>1, FS_EmptySet DEF Whole
    <3>2. SumsOf(g)[none] = 0
      <4> HIDE DEF g
      <4> QED
        BY <2>1, <3>1, TableIs
    <3> QED
      BY <3>2, TotalIs
  <2>5. A + 0 = A
    BY <2>3
  <2> HIDE DEF A
  <2> QED
    BY <2>3, <2>4, <2>5, Zenon
<1>4. Users!balance_of(u) - Starting = whole.profit
  <2>1. Users!balance_of(u) = Starting + A + B /\ Starting \in Int
    BY DEF Users!balance_of, Users!AccountsAssumption
  <2> HIDE DEF A, B, whole
  <2> QED
    BY <1>2, <2>1
<1>5. Users!Settled(whole) + whole.pending = Users!Cardinality(Users!tickets(u))
  <2> HIDE DEF bets
  <2>1. Users!Settled(whole) + whole.pending = Cardinality(bets)
    BY <1>1, RecordIs
  <2> QED
    BY <1>1, <2>1, AccountCount
<1>6. Users!open_stakes(u) = Users!Sum("stake", {k \in Users!tickets(u) : k.result = None})
  BY StakesShown
<1>7. LET weeks == Users!group(bets) IN whole.profit = Users!SumFunction([w \in DOMAIN weeks |-> weeks[w].profit])
  <2> HIDE DEF bets
  <2> QED
    BY <1>1, WeeksSum
<1>8. DOMAIN Users!trend(bets) # {} => Users!trend(bets)[Users!Max(DOMAIN Users!trend(bets))] = whole.profit
  <2> HIDE DEF bets
  <2> QED
    BY <1>1, TrendEnds
<1>9. Users!Settled(Users!Periods(u).this_week) >= Users!Settled(Users!Periods(u).today)
  <2> DEFINE now == {b \in bets : b.day = today}
             since == {b \in bets : b.day >= 2 * Users!week(today)}
  <2>1. Users!Periods(u).today = Users!summarize(now) /\ Users!Periods(u).this_week = Users!summarize(since)
    BY DEF Users!Periods
  <2>2. today \in Nat
    BY DEF AccountRows
  <2>3. today >= 2 * Users!week(today)
    BY <2>2 DEF Users!week
  <2>4. now \subseteq since
    BY <2>3
  <2>5. IsFiniteSet(since)
    BY <1>1, FS_Subset
  <2> HIDE DEF now, since
  <2>6. Users!Settled(Users!summarize(since)) >= Users!Settled(Users!summarize(now))
    BY <2>4, <2>5, RecordGrows
  <2> QED
    BY <2>1, <2>6
<1>10. Users!summarize(Users!player_bets(u, FALSE)).profit = whole.profit - B
  <2>1. A = (A + B) - B
    BY <1>2
  <2> HIDE DEF A, B, whole
  <2> QED
    BY <1>2, <1>3, <2>1, Zenon
<1> QED
  BY <1>4, <1>5, <1>6, <1>7, <1>8, <1>9, <1>10

\* The figures that the pages compute by queries of their own agree at any time, whatever is placed,
\* settled, cashed out or deleted: the bankroll's with the scorecard's and the tickets', the weeks' and
\* the trend's with the whole.
THEOREM BooksHold ==
    ASSUME Users!AccountsAssumption
    PROVE  Users!Spec => []Users!BooksAgree
<1>1. Users!Init => AccountInv /\ Unpaid
  <2>1. Users!Init => Unpaid
    BY DEF Users!Init, Users!Rows, Unpaid
  <2> QED
    BY <2>1, AccountsStart
<1>2. AccountInv /\ Unpaid /\ [Users!Next]_(Users!vars) => AccountInv' /\ Unpaid'
  BY AccountsStep, UnpaidStays DEF AccountInv
<1>3. AccountInv /\ Unpaid /\ Users!StreaksFollow => Users!BooksAgree
  BY FiguresAgree DEF AccountInv
<1> QED
  BY <1>1, <1>2, <1>3, StreaksHold, PTL DEF Users!Spec

-----------------------------------------------------------------------------
(* The players' money *)

\* What a bet adds to what its player can spend, and what some bets add together.
Lien(row) == row.payout - (IF row.result = None THEN row.stake ELSE 0)
Money(table, ids) == SumsOf([i \in ids |-> Lien(table[i])])[ids]
Free(u) == Starting + Money(picks, Users!Straight(u)) + Money(parlays, Users!Parlays(u))

\* Nobody's open bets are worth more than the bankroll.
Solvent == \A u \in Users!Players : Free(u) >= 0
SolventInv == AccountInv /\ Unpaid /\ Solvent /\ today \in 0 .. MaxDay

\* Differences sum up to the difference.
LEMMA SumMinus ==
    ASSUME NEW g, NEW h, NEW k, Whole(g), Whole(h), DOMAIN h = DOMAIN g,
           k = [x \in DOMAIN g |-> g[x] - h[x]]
    PROVE  Whole(k) /\ SumsOf(k)[DOMAIN g] = SumsOf(g)[DOMAIN g] - SumsOf(h)[DOMAIN g]
<1> DEFINE D == DOMAIN g
           B == {t \in SUBSET D : SumsOf(k)[t] # SumsOf(g)[t] - SumsOf(h)[t]}
<1>1. Whole(k) /\ DOMAIN k = D
  BY DEF Whole
<1>2. ASSUME B # {} PROVE FALSE
  <2>1. PICK t \in B : \A x \in t : t \ {x} \notin B
    <3>1. B \in SUBSET SUBSET D /\ IsFiniteSet(D)
      BY DEF Whole
    <3> HIDE DEF B
    <3> QED
      BY <1>2, <3>1, SmallestOne
  <2>2. t # {}
    <3>1. SumsOf(k)[{}] = 0 /\ SumsOf(g)[{}] = 0 /\ SumsOf(h)[{}] = 0
      BY <1>1, TableIs
    <3>2. SumsOf(k)[t] # SumsOf(g)[t] - SumsOf(h)[t]
      BY <2>1
    <3>3. 0 = 0 - 0
      OBVIOUS
    <3> QED
      BY <3>1, <3>2, <3>3, Zenon
  <2>3. PICK x \in t : TRUE
    BY <2>2
  <2>4. PICK rest : rest = t \ {x}
    OBVIOUS
  <2>5. t \in SUBSET D /\ rest \in SUBSET D /\ x \in D
    BY <2>1, <2>3, <2>4
  <2>6. SumsOf(k)[rest] = SumsOf(g)[rest] - SumsOf(h)[rest]
    BY <2>1, <2>3, <2>4, <2>5
  <2>7. SumsOf(k)[t] = k[x] + SumsOf(k)[rest]
    BY <1>1, <2>3, <2>4, <2>5, SumTake
  <2>8. SumsOf(g)[t] = g[x] + SumsOf(g)[rest] /\ SumsOf(h)[t] = h[x] + SumsOf(h)[rest]
    BY <2>3, <2>4, <2>5, SumTake
  <2>9. k[x] = g[x] - h[x] /\ g[x] \in Int /\ h[x] \in Int
    BY <2>5 DEF Whole
  <2>10. SumsOf(g)[rest] \in Int /\ SumsOf(h)[rest] \in Int
    BY <2>5, SumsWhole
  <2>11. SumsOf(k)[t] # SumsOf(g)[t] - SumsOf(h)[t]
    BY <2>1
  <2> QED
    BY <2>6, <2>7, <2>8, <2>9, <2>10, <2>11
<1> QED
  BY <1>1, <1>2

\* What is raised one by one is raised as a whole.
LEMMA SumRaised ==
    ASSUME NEW g, NEW k, Whole(g), Whole(k), DOMAIN k = DOMAIN g, \A x \in DOMAIN g : k[x] >= g[x]
    PROVE  SumsOf(k)[DOMAIN g] >= SumsOf(g)[DOMAIN g]
<1> DEFINE D == DOMAIN g
           B == {t \in SUBSET D : ~(SumsOf(k)[t] >= SumsOf(g)[t])}
<1>1. ASSUME B # {} PROVE FALSE
  <2>1. PICK t \in B : \A x \in t : t \ {x} \notin B
    <3>1. B \in SUBSET SUBSET D /\ IsFiniteSet(D)
      BY DEF Whole
    <3> HIDE DEF B
    <3> QED
      BY <1>1, <3>1, SmallestOne
  <2>2. t # {}
    <3>1. SumsOf(k)[{}] = 0 /\ SumsOf(g)[{}] = 0
      BY TableIs
    <3>2. ~(SumsOf(k)[t] >= SumsOf(g)[t])
      BY <2>1
    <3>3. 0 >= 0
      OBVIOUS
    <3> QED
      BY <3>1, <3>2, <3>3, Zenon
  <2>3. PICK x \in t : TRUE
    BY <2>2
  <2>4. PICK rest : rest = t \ {x}
    OBVIOUS
  <2>5. t \in SUBSET D /\ rest \in SUBSET D /\ x \in D
    BY <2>1, <2>3, <2>4
  <2>6. SumsOf(k)[rest] >= SumsOf(g)[rest]
    BY <2>1, <2>3, <2>4, <2>5
  <2>7. SumsOf(k)[t] = k[x] + SumsOf(k)[rest] /\ SumsOf(g)[t] = g[x] + SumsOf(g)[rest]
    BY <2>3, <2>4, <2>5, SumTake
  <2>8. k[x] >= g[x] /\ g[x] \in Int /\ k[x] \in Int
    BY <2>5 DEF Whole
  <2>9. SumsOf(g)[rest] \in Int /\ SumsOf(k)[rest] \in Int
    BY <2>5, SumsWhole
  <2>10. ~(SumsOf(k)[t] >= SumsOf(g)[t])
    BY <2>1
  <2> QED
    BY <2>6, <2>7, <2>8, <2>9, <2>10
<1> QED
  BY <1>1

\* The money of some bets, of rows whose columns are whole numbers.
Figures(table, ids) ==
    IsFiniteSet(ids) /\ \A i \in ids : table[i].payout \in Int /\ table[i].stake \in Nat

LEMMA MoneyIs ==
    ASSUME NEW table, NEW ids, Figures(table, ids)
    PROVE  /\ Whole([i \in ids |-> Lien(table[i])]) /\ Money(table, ids) \in Int
           /\ Money(table, ids) = Users!Total("payout", table, ids)
                                    - Users!Total("stake", table, Users!Pending(table, ids))
           /\ Users!Total("payout", table, ids) \in Int
           /\ Users!Total("stake", table, Users!Pending(table, ids)) \in Int
<1> DEFINE paid == [i \in ids |-> table[i]["payout"]]
           held == [i \in ids |-> IF table[i].result = None THEN table[i].stake ELSE 0]
           open == [i \in Users!Pending(table, ids) |-> table[i]["stake"]]
           lien == [i \in ids |-> Lien(table[i])]
<1>1. Whole(paid) /\ Whole(held)
  BY DEF Figures, Whole
<1>2. lien = [i \in ids |-> paid[i] - held[i]]
  BY DEF Lien
<1>3. /\ DOMAIN open \subseteq DOMAIN held /\ \A x \in DOMAIN open : open[x] = held[x]
      /\ \A x \in DOMAIN held \ DOMAIN open : held[x] = 0
  BY DEF Users!Pending
<1>4. DOMAIN paid = ids /\ DOMAIN held = ids /\ DOMAIN open = Users!Pending(table, ids)
  OBVIOUS
<1> HIDE DEF paid, held, open, lien
<1>5. SumsOf(held)[ids] = SumsOf(open)[DOMAIN open]
  BY <1>1, <1>3, <1>4, SumWithin
<1>6. Whole(lien) /\ SumsOf(lien)[ids] = SumsOf(paid)[ids] - SumsOf(held)[ids]
  BY <1>1, <1>2, <1>4, SumMinus
<1>7. SumsOf(paid)[ids] \in Int /\ SumsOf(held)[ids] \in Int
  BY <1>1, <1>4, SumsWhole
<1>8. /\ Users!Total("payout", table, ids) = SumsOf(paid)[ids]
      /\ Users!Total("stake", table, Users!Pending(table, ids)) = SumsOf(open)[DOMAIN open]
  BY <1>4, TotalIs DEF paid, open
<1>9. Money(table, ids) = SumsOf(lien)[ids]
  BY DEF Money, lien
<1> QED
  BY <1>5, <1>6, <1>7, <1>8, <1>9 DEF lien

\* Of what is left where it is, or raised.
LEMMA MoneyRaised ==
    ASSUME NEW table, NEW new, NEW ids, Figures(table, ids), Figures(new, ids),
           \A i \in ids : Lien(new[i]) >= Lien(table[i])
    PROVE  Money(new, ids) >= Money(table, ids)
<1> DEFINE g == [i \in ids |-> Lien(table[i])]
           k == [i \in ids |-> Lien(new[i])]
<1>1. Whole(g) /\ Whole(k)
  BY MoneyIs
<1>2. DOMAIN g = ids /\ DOMAIN k = ids /\ \A i \in ids : k[i] >= g[i]
  OBVIOUS
<1>3. Money(table, ids) = SumsOf(g)[ids] /\ Money(new, ids) = SumsOf(k)[ids]
  BY DEF Money
<1> HIDE DEF g, k
<1> QED
  BY <1>1, <1>2, <1>3, SumRaised

\* Of one bet more.
LEMMA MoneyPlaced ==
    ASSUME NEW table, NEW new, NEW ids, NEW i, i \notin ids, Figures(table, ids), Figures(new, ids \cup {i}),
           \A j \in ids : new[j] = table[j]
    PROVE  Money(new, ids \cup {i}) = Money(table, ids) + Lien(new[i])
<1> DEFINE all == ids \cup {i}
           g == [j \in ids |-> Lien(table[j])]
           k == [j \in all |-> Lien(new[j])]
<1>1. Whole(g) /\ Whole(k)
  BY MoneyIs
<1>2. DOMAIN g = ids /\ DOMAIN k = all /\ (\A j \in ids : g[j] = k[j]) /\ k[i] = Lien(new[i])
      /\ all \ {i} = ids /\ ids \in SUBSET all /\ i \in all
  OBVIOUS
<1>3. Money(table, ids) = SumsOf(g)[ids] /\ Money(new, all) = SumsOf(k)[all]
  BY DEF Money
<1> HIDE DEF g, k, all
<1>4. SumsOf(k)[all] = k[i] + SumsOf(k)[ids]
  BY <1>1, <1>2, SumTake
<1>5. SumsOf(g)[ids] = SumsOf(k)[ids]
  BY <1>1, <1>2, SumsAgree
<1>6. k[i] \in Int /\ SumsOf(k)[ids] \in Int
  BY <1>1, <1>2, SumsWhole DEF Whole
<1>7. Money(new, all) = Money(table, ids) + Lien(new[i])
  BY <1>2, <1>3, <1>4, <1>5, <1>6
<1> QED
  BY <1>7 DEF all

\* What the rows hold can be summed.
LEMMA RowsCounted ==
    ASSUME Users!AccountsAssumption,
           NEW table, NEW n \in Nat, table \in [1 .. n -> Users!PickRows \cup {None}]
                                     \/ table \in [1 .. n -> Users!ParlayRows \cup {None}],
           NEW ids \in SUBSET {i \in DOMAIN table : table[i] # None}
    PROVE  Figures(table, ids)
<1>1. DOMAIN table = 1 .. n
  OBVIOUS
<1>2. IsFiniteSet(ids)
  <2>1. ids \subseteq 1 .. n /\ IsFiniteSet(1 .. n)
    BY <1>1, FS_Interval
  <2> QED
    BY <2>1, FS_Subset
<1>3. \A i \in ids : table[i] \in Users!PickRows \/ table[i] \in Users!ParlayRows
  OBVIOUS
<1> QED
  BY <1>2, <1>3 DEF Figures, Users!PickRows, Users!ParlayRows

LEMMA AllCounted ==
    ASSUME Users!AccountsAssumption, AccountRows
    PROVE  /\ \A ids \in SUBSET Users!Rows(picks) : Figures(picks, ids)
           /\ \A ids \in SUBSET Users!Rows(parlays) : Figures(parlays, ids)
<1>1. MaxPicks \in Nat /\ MaxParlays \in Nat
  BY DEF Users!AccountsAssumption
<1>2. \A ids \in SUBSET Users!Rows(picks) : Figures(picks, ids)
  BY <1>1, RowsCounted DEF AccountRows, Users!Rows
<1>3. \A ids \in SUBSET Users!Rows(parlays) : Figures(parlays, ids)
  BY <1>1, RowsCounted DEF AccountRows, Users!Rows
<1> QED
  BY <1>2, <1>3
LEMMA AllCountedNext ==
    ASSUME Users!AccountsAssumption, AccountRows'
    PROVE  /\ \A ids \in SUBSET Users!Rows(picks)' : Figures(picks', ids)
           /\ \A ids \in SUBSET Users!Rows(parlays)' : Figures(parlays', ids)
<1>1. MaxPicks \in Nat /\ MaxParlays \in Nat
  BY DEF Users!AccountsAssumption
<1>2. \A ids \in SUBSET Users!Rows(picks)' : Figures(picks', ids)
  BY <1>1, RowsCounted DEF AccountRows, Users!Rows
<1>3. \A ids \in SUBSET Users!Rows(parlays)' : Figures(parlays', ids)
  BY <1>1, RowsCounted DEF AccountRows, Users!Rows
<1> QED
  BY <1>2, <1>3

\* What a request reads before it places a bet.
LEMMA FreeIs ==
    ASSUME Users!AccountsAssumption, AccountRows, NEW u
    PROVE  Users!available_of(u) = Free(u) /\ Free(u) \in Int
           /\ Users!balance_of(u) \in Int /\ Users!open_stakes(u) \in Int
<1> DEFINE S == Users!Straight(u)
           P == Users!Parlays(u)
<1>1. Figures(picks, S) /\ Figures(parlays, P)
  BY AllCounted DEF Users!Straight, Users!Parlays
<1>2. Starting \in Int
  BY DEF Users!AccountsAssumption
<1> HIDE DEF S, P
<1>3. /\ Money(picks, S) \in Int /\ Money(parlays, P) \in Int
      /\ Money(picks, S) = Users!Total("payout", picks, S) - Users!Total("stake", picks, Users!Pending(picks, S))
      /\ Money(parlays, P) = Users!Total("payout", parlays, P)
                               - Users!Total("stake", parlays, Users!Pending(parlays, P))
      /\ Users!Total("payout", picks, S) \in Int /\ Users!Total("payout", parlays, P) \in Int
      /\ Users!Total("stake", picks, Users!Pending(picks, S)) \in Int
      /\ Users!Total("stake", parlays, Users!Pending(parlays, P)) \in Int
  BY <1>1, MoneyIs
<1>4. /\ Users!balance_of(u) = Starting + Users!Total("payout", picks, S) + Users!Total("payout", parlays, P)
      /\ Users!open_stakes(u) = Users!Total("stake", picks, Users!Pending(picks, S))
                                  + Users!Total("stake", parlays, Users!Pending(parlays, P))
      /\ Users!available_of(u) = Users!balance_of(u) - Users!open_stakes(u)
      /\ Free(u) = Starting + Money(picks, S) + Money(parlays, P)
  BY DEF Users!balance_of, Users!open_stakes, Users!available_of, Free, S, P
<1> QED
  BY <1>2, <1>3, <1>4

\* Of a player whose bets are where they were, and each as good as it was.
LEMMA FreeRaised ==
    ASSUME Users!AccountsAssumption, AccountRows, AccountRows', NEW u,
           Users!Straight(u)' = Users!Straight(u), Users!Parlays(u)' = Users!Parlays(u),
           \A i \in Users!Straight(u) : Lien(picks'[i]) >= Lien(picks[i]),
           \A p \in Users!Parlays(u) : Lien(parlays'[p]) >= Lien(parlays[p]), Free(u) >= 0
    PROVE  Free(u)' >= 0
<1> DEFINE S == Users!Straight(u)
           P == Users!Parlays(u)
<1>1. Figures(picks, S) /\ Figures(parlays, P)
  BY AllCounted DEF Users!Straight, Users!Parlays
<1>2. Figures(picks', S) /\ Figures(parlays', P)
  <2>1. Users!Straight(u)' \subseteq Users!Rows(picks)' /\ Users!Parlays(u)' \subseteq Users!Rows(parlays)'
    BY DEF Users!Straight, Users!Parlays
  <2> QED
    BY <2>1, AllCountedNext
<1>3. Money(picks', S) >= Money(picks, S) /\ Money(parlays', P) >= Money(parlays, P)
  BY <1>1, <1>2, MoneyRaised
<1>4. Free(u)' = Starting + Money(picks', S) + Money(parlays', P)
  BY DEF Free
<1>5. Free(u) = Starting + Money(picks, S) + Money(parlays, P)
  BY DEF Free
<1> HIDE DEF S, P
<1>6. /\ Money(picks, S) \in Int /\ Money(parlays, P) \in Int
      /\ Money(picks', S) \in Int /\ Money(parlays', P) \in Int
  BY <1>1, <1>2, MoneyIs
<1>7. Starting \in Int
  BY DEF Users!AccountsAssumption
<1> QED
  BY <1>3, <1>4, <1>5, <1>6, <1>7

\* An open bet that ends does not cost more than its stake.
LEMMA EndsFree ==
    ASSUME Users!AccountsAssumption, NEW row, row \in Users!PickRows \/ row \in Users!ParlayRows,
           row.result = None, row.payout = 0, NEW result \in Users!Results
    PROVE  Lien(Users!Paid(row, result)) >= Lien(row)
<1>1. None \notin Users!Results /\ row.stake \in Nat
  BY DEF Users!AccountsAssumption, Users!PickRows, Users!ParlayRows
<1>2. /\ Users!Paid(row, result).result = result
      /\ Users!Paid(row, result).payout \in {row.stake, -row.stake, 0}
  <2> DEFINE pay == CASE result = "win" -> row.stake [] result = "loss" -> -row.stake [] OTHER -> 0
  <2>1. pay \in {row.stake, -row.stake, 0}
    OBVIOUS
  <2>2. Users!Paid(row, result) = [row EXCEPT !.result = result, !.payout = pay]
    BY DEF Users!Paid
  <2> HIDE DEF pay
  <2>3. Users!Paid(row, result).result = result /\ Users!Paid(row, result).payout = pay
    BY <2>2 DEF Users!PickRows, Users!ParlayRows
  <2> QED
    BY <2>1, <2>3
<1>3. Users!Paid(row, result).result # None
  BY <1>1, <1>2
<1>4. Lien(Users!Paid(row, result)) = Users!Paid(row, result).payout - 0
  BY <1>3 DEF Lien
<1>5. Lien(row) = 0 - row.stake
  BY DEF Lien
<1> QED
  BY <1>1, <1>2, <1>4, <1>5

\* A bet that has ended is still a row.
LEMMA PaidIsRow ==
    ASSUME Users!AccountsAssumption, NEW row, row \in Users!PickRows \/ row \in Users!ParlayRows,
           NEW result \in Users!Results
    PROVE  Users!Paid(row, result) # None
<1> DEFINE pay == CASE result = "win" -> row.stake [] result = "loss" -> -row.stake [] OTHER -> 0
<1>1. pay \in Int
  BY DEF Users!PickRows, Users!ParlayRows
<1>2. Users!Paid(row, result) = [row EXCEPT !.result = result, !.payout = pay]
  BY DEF Users!Paid
<1> HIDE DEF pay
<1>3. Users!Paid(row, result) \in Users!PickRows \/ Users!Paid(row, result) \in Users!ParlayRows
  BY <1>1, <1>2 DEF Users!PickRows, Users!ParlayRows
<1> QED
  BY <1>3 DEF Users!AccountsAssumption

\* Bets that are left alone, or end one by one.
LEMMA SolventRaised ==
    ASSUME Users!AccountsAssumption, AccountRows, AccountRows', Solvent, Users!Players' \subseteq Users!Players,
           \A u \in Users!Players' : Users!Straight(u)' = Users!Straight(u) /\ Users!Parlays(u)' = Users!Parlays(u),
           \A i \in Users!Rows(picks)' : Lien(picks'[i]) >= Lien(picks[i]),
           \A p \in Users!Rows(parlays)' : Lien(parlays'[p]) >= Lien(parlays[p])
    PROVE  Solvent'
<1> SUFFICES ASSUME NEW u \in Users!Players' PROVE Free(u)' >= 0
  BY DEF Solvent
<1>1. Users!Straight(u)' = Users!Straight(u) /\ Users!Parlays(u)' = Users!Parlays(u)
  OBVIOUS
<1>2. Users!Straight(u)' \subseteq Users!Rows(picks)' /\ Users!Parlays(u)' \subseteq Users!Rows(parlays)'
  BY DEF Users!Straight, Users!Parlays
<1>3. Free(u) >= 0
  BY DEF Solvent
<1> QED
  BY <1>1, <1>2, <1>3, FreeRaised

\* Reflexive on what is not changed.
LEMMA LienSame ==
    ASSUME NEW a, a.payout \in Int, a.stake \in Nat
    PROVE  Lien(a) \in Int /\ Lien(a) >= Lien(a)
<1>1. Lien(a) \in Int
  BY DEF Lien
<1> QED
  BY <1>1

LEMMA SolventEnds ==
    ASSUME Users!AccountsAssumption, AccountInv, AccountRows', Unpaid, Solvent,
           Users!grade_paper_picks \/ Users!settle_parlays_list \/ Users!cash_out
    PROVE  Solvent'
<1>0. /\ picks \in [1 .. MaxPicks -> Users!PickRows \cup {None}] /\ None \notin Users!PickRows
      /\ parlays \in [1 .. MaxParlays -> Users!ParlayRows \cup {None}] /\ None \notin Users!ParlayRows
      /\ AccountRows
  BY DEF AccountInv, AccountRows, Users!AccountsAssumption
<1>1. \A i \in Users!Rows(picks) : Lien(picks[i]) \in Int /\ Lien(picks[i]) >= Lien(picks[i])
  BY <1>0, LienSame, RowTypes
<1>2. \A p \in Users!Rows(parlays) : Lien(parlays[p]) \in Int /\ Lien(parlays[p]) >= Lien(parlays[p])
  BY <1>0, LienSame, RowTypes
<1>3. ASSUME NEW i \in Users!Rows(picks), picks[i].result = None, NEW result \in Users!Results,
             picks' = [picks EXCEPT ![i] = Users!Paid(picks[i], result)], UNCHANGED <<users, parlays>>
      PROVE  Solvent'
  <2> DEFINE new == Users!Paid(picks[i], result)
  <2>1. picks[i] \in Users!PickRows /\ picks[i].payout = 0
    BY <1>0, <1>3 DEF Users!Rows, Unpaid
  <2>2. Lien(new) >= Lien(picks[i])
    BY <1>3, <2>1, EndsFree
  <2>3. new.user = picks[i].user /\ new.parlay = picks[i].parlay
    BY <2>1 DEF Users!Paid, Users!PickRows
  <2>5. picks' = [picks EXCEPT ![i] = new]
    BY <1>3
  <2>6. new # None
    BY <1>0, <1>3, <2>1, PaidIsRow
  <2> HIDE DEF new
  <2>7. Users!Rows(picks)' = Users!Rows(picks) /\ Users!Rows(parlays)' = Users!Rows(parlays)
        /\ Users!Players' = Users!Players
    BY <1>0, <1>3, <2>5, <2>6 DEF Users!Rows, Users!Players
  <2>8. \A j \in Users!Rows(picks) : /\ j # i => picks'[j] = picks[j]
                                     /\ picks'[i] = new
    BY <1>0, <1>3, <2>5 DEF Users!Rows
  <2>9. ASSUME NEW u PROVE Users!Straight(u)' = Users!Straight(u) /\ Users!Parlays(u)' = Users!Parlays(u)
    <3>1. \A j \in Users!Rows(picks) : picks'[j].user = picks[j].user /\ picks'[j].parlay = picks[j].parlay
      BY <2>3, <2>8
    <3> QED
      BY <1>3, <2>7, <3>1 DEF Users!Straight, Users!Parlays
  <2>10. \A j \in Users!Rows(picks)' : Lien(picks'[j]) >= Lien(picks[j])
    BY <1>1, <2>2, <2>7, <2>8
  <2>11. \A p \in Users!Rows(parlays)' : Lien(parlays'[p]) >= Lien(parlays[p])
    BY <1>2, <1>3, <2>7
  <2> QED
    BY <1>0, <2>7, <2>9, <2>10, <2>11, SolventRaised
<1>4. ASSUME NEW p \in Users!Rows(parlays), parlays[p].result = None, NEW result \in Users!Results,
             parlays' = [parlays EXCEPT ![p] = Users!Paid(parlays[p], result)], UNCHANGED <<users, picks>>
      PROVE  Solvent'
  <2> DEFINE new == Users!Paid(parlays[p], result)
  <2>1. parlays[p] \in Users!ParlayRows /\ parlays[p].payout = 0
    BY <1>0, <1>4 DEF Users!Rows, Unpaid
  <2>2. Lien(new) >= Lien(parlays[p])
    BY <1>4, <2>1, EndsFree
  <2>3. new.user = parlays[p].user
    BY <2>1 DEF Users!Paid, Users!ParlayRows
  <2>5. parlays' = [parlays EXCEPT ![p] = new]
    BY <1>4
  <2>6. new # None
    BY <1>0, <1>4, <2>1, PaidIsRow
  <2> HIDE DEF new
  <2>7. Users!Rows(picks)' = Users!Rows(picks) /\ Users!Rows(parlays)' = Users!Rows(parlays)
        /\ Users!Players' = Users!Players
    BY <1>0, <1>4, <2>5, <2>6 DEF Users!Rows, Users!Players
  <2>8. \A q \in Users!Rows(parlays) : /\ q # p => parlays'[q] = parlays[q]
                                       /\ parlays'[p] = new
    BY <1>0, <1>4, <2>5 DEF Users!Rows
  <2>9. ASSUME NEW u PROVE Users!Straight(u)' = Users!Straight(u) /\ Users!Parlays(u)' = Users!Parlays(u)
    <3>1. \A q \in Users!Rows(parlays) : parlays'[q].user = parlays[q].user
      BY <2>3, <2>8
    <3> QED
      BY <1>4, <2>7, <3>1 DEF Users!Straight, Users!Parlays
  <2>10. \A q \in Users!Rows(parlays)' : Lien(parlays'[q]) >= Lien(parlays[q])
    BY <1>2, <2>2, <2>7, <2>8
  <2>11. \A i \in Users!Rows(picks)' : Lien(picks'[i]) >= Lien(picks[i])
    BY <1>1, <1>4, <2>7
  <2> QED
    BY <1>0, <2>7, <2>9, <2>10, <2>11, SolventRaised
<1>5. CASE Users!grade_paper_picks
  <2>1. PICK i \in Users!Rows(picks), result \in {"win", "loss", "push"} :
            picks[i].result = None /\ picks' = [picks EXCEPT ![i] = Users!Paid(picks[i], result)]
    BY <1>5 DEF Users!grade_paper_picks, Users!Pending
  <2>2. result \in Users!Results /\ UNCHANGED <<users, parlays>>
    BY <1>5 DEF Users!Results, Users!grade_paper_picks
  <2> QED
    BY <1>3, <2>1, <2>2
<1>6. CASE Users!settle_parlays_list
  <2>1. PICK p \in Users!Rows(parlays) :
            parlays[p].result = None /\ parlays' = [parlays EXCEPT ![p] = Users!Paid(parlays[p], Users!Outcome(p))]
    BY <1>6 DEF Users!settle_parlays_list, Users!Pending
  <2>2. Users!Outcome(p) \in Users!Results /\ UNCHANGED <<users, picks>>
    BY <1>6 DEF Users!Results, Users!Outcome, Users!settle_parlays_list
  <2> QED
    BY <1>4, <2>1, <2>2
<1>7. CASE Users!cash_out
  <2>1. "cashed_out" \in Users!Results /\ UNCHANGED users
    BY <1>7 DEF Users!Results, Users!cash_out
  <2>2. \/ \E i \in Users!Rows(picks) :
              /\ picks[i].result = None /\ UNCHANGED parlays
              /\ picks' = [picks EXCEPT ![i] = Users!Paid(picks[i], "cashed_out")]
        \/ \E p \in Users!Rows(parlays) :
              /\ parlays[p].result = None /\ UNCHANGED picks
              /\ parlays' = [parlays EXCEPT ![p] = Users!Paid(parlays[p], "cashed_out")]
    BY <1>7 DEF Users!cash_out, Users!Pending
  <2> QED
    BY <1>3, <1>4, <2>1, <2>2
<1> QED
  BY <1>5, <1>6, <1>7

\* Nor does a new one look like none.
LEMMA PickIsRow ==
    ASSUME Users!AccountsAssumption, AccountRows, NEW u \in Users!Players, NEW parlay \in Nat \cup {None},
           NEW stake \in Nat, NEW day \in Nat
    PROVE  Users!Pick(u, parlay, stake, day) # None
<1>1. u \in Nat
  BY DEF AccountRows, Users!Players, Users!Rows, Users!AccountsAssumption
<1>2. Users!Pick(u, parlay, stake, day) \in Users!PickRows
  BY <1>1 DEF Users!Pick, Users!PickRows
<1> QED
  BY <1>2 DEF Users!AccountsAssumption

\* What a player is not changed by.
LEMMA SolventRests ==
    ASSUME Users!AccountsAssumption, AccountRows, AccountRows', Solvent, UNCHANGED <<picks, parlays>>,
           NEW u \in Users!Players
    PROVE  Free(u)' >= 0
<1>1. Free(u) >= 0 /\ Free(u)' = Free(u)
  BY DEF Solvent, Free, Users!Straight, Users!Parlays, Users!Rows
<1> QED
  BY <1>1

LEMMA SolventCreate ==
    ASSUME Users!AccountsAssumption, AccountInv, AccountRows', Solvent, NEW t \in Threads, Users!create_user(t)
    PROVE  Solvent'
<1>5. PICK n : n = Users!NextId(users)
  OBVIOUS
<1>0. AccountRows
  BY DEF AccountInv
<1>1. UNCHANGED <<picks, parlays>> /\ \E row : users' = users \/ users' = [users EXCEPT ![n] = row]
  BY <1>5 DEF Users!create_user
<1>2. n \notin Users!Players
  <2>1. MaxUsers \in Nat /\ users \in [1 .. MaxUsers -> Users!UserRows \cup {None}]
    BY <1>0 DEF Users!AccountsAssumption, AccountRows
  <2>2. n \in Nat /\ \A i \in Users!Rows(users) : i < n
    BY <1>5, <2>1, NextFree
  <2>3. ~(n < n)
    BY <2>2
  <2> QED
    BY <2>2, <2>3 DEF Users!Players
<1>3. Users!Players' \subseteq Users!Players \cup {n}
  BY <1>1 DEF Users!Players, Users!Rows
<1>4. Free(n)' >= 0
  <2>1. Users!Straight(n) = {} /\ Users!Parlays(n) = {}
    BY <1>2 DEF Users!Straight, Users!Parlays, AccountInv, Kept
  <2>2. Users!Straight(n)' = {} /\ Users!Parlays(n)' = {}
    BY <1>1, <2>1 DEF Users!Straight, Users!Parlays, Users!Rows
  <2>3. ASSUME NEW table, NEW none, none = {} PROVE Money(table, none) = 0
    <3> DEFINE g == [i \in none |-> Lien(table[i])]
    <3>1. Whole(g)
      BY <2>3, FS_EmptySet DEF Whole
    <3>2. SumsOf(g)[none] = 0
      <4> HIDE DEF g
      <4> QED
        BY <2>3, <3>1, TableIs
    <3> QED
      BY <3>2 DEF Money
  <2>4. Free(n)' = Starting + Money(picks', Users!Straight(n)') + Money(parlays', Users!Parlays(n)')
    BY DEF Free
  <2>5. Free(n)' = Starting + 0 + 0
    BY <2>2, <2>3, <2>4
  <2> QED
    BY <2>5 DEF Users!AccountsAssumption
<1>6. \A u \in Users!Players : Free(u)' >= 0
  BY <1>0, <1>1, SolventRests
<1> QED
  BY <1>3, <1>4, <1>6 DEF Solvent

LEMMA SolventDelete ==
    ASSUME Users!AccountsAssumption, AccountInv, AccountRows', Solvent, NEW t \in Threads, Users!delete_user(t)
    PROVE  Solvent'
<1> DEFINE u == requests[t].user
<1>0. AccountRows
  BY DEF AccountInv
<1>1. /\ picks' = [i \in DOMAIN picks |-> IF i \in Users!Rows(picks) /\ picks[i].user = u THEN None ELSE picks[i]]
      /\ parlays' = [p \in DOMAIN parlays |-> IF p \in Users!Parlays(u) THEN None ELSE parlays[p]]
      /\ users' = [users EXCEPT ![u] = None]
  BY DEF Users!delete_user
<1> HIDE DEF u
<1>2. Users!Players' \subseteq Users!Players \ {u}
  BY <1>0, <1>1 DEF Users!Players, Users!Rows, AccountRows
<1>3. /\ Users!Rows(picks)' = {i \in Users!Rows(picks) : picks[i].user # u}
      /\ \A i \in Users!Rows(picks)' : picks'[i] = picks[i]
  BY <1>1 DEF Users!Rows
<1>4. /\ Users!Rows(parlays)' = {p \in Users!Rows(parlays) : parlays[p].user # u}
      /\ \A p \in Users!Rows(parlays)' : parlays'[p] = parlays[p]
  BY <1>1 DEF Users!Rows, Users!Parlays
<1>5. \A v \in Users!Players' : Users!Straight(v)' = Users!Straight(v) /\ Users!Parlays(v)' = Users!Parlays(v)
  BY <1>2, <1>3, <1>4 DEF Users!Straight, Users!Parlays
<1>6. /\ \A i \in Users!Rows(picks) : Lien(picks[i]) \in Int /\ Lien(picks[i]) >= Lien(picks[i])
      /\ \A p \in Users!Rows(parlays) : Lien(parlays[p]) \in Int /\ Lien(parlays[p]) >= Lien(parlays[p])
  BY <1>0, LienSame, RowTypes
<1>7. /\ \A i \in Users!Rows(picks)' : Lien(picks'[i]) >= Lien(picks[i])
      /\ \A p \in Users!Rows(parlays)' : Lien(parlays'[p]) >= Lien(parlays[p])
  BY <1>3, <1>4, <1>6
<1> QED
  BY <1>0, <1>2, <1>5, <1>7, SolventRaised

\* A bet that is placed costs its stake, of which so much was free.
LEMMA SolventPick ==
    ASSUME Users!AccountsAssumption, AccountInv, AccountRows', Solvent, NEW t \in Threads, Users!place_pick(t)
    PROVE  Solvent'
<1>0. AccountRows
  BY DEF AccountInv
<1>1. PICK i, u : i = Users!NextId(picks) /\ u = requests[t].user
  OBVIOUS
<1>2. PICK stake \in Stakes, day \in today .. MaxDay :
          /\ UNCHANGED <<users, parlays>>
          /\ \/ picks' = picks
             \/ /\ ~(stake > Users!available_of(u)) /\ Users!ForeignKey(u)
                /\ picks' = [picks EXCEPT ![i] = Users!Pick(u, None, stake, day)]
  BY <1>1 DEF Users!place_pick
<1>5. i <= MaxPicks
  BY <1>1 DEF Users!place_pick
<1>3. CASE picks' = picks
  BY <1>0, <1>2, <1>3, SolventRests DEF Solvent, Users!Players, Users!Rows
<1>4. CASE picks' # picks
  <2> DEFINE new == Users!Pick(u, None, stake, day)
  <2>1. ~(stake > Users!available_of(u)) /\ picks' = [picks EXCEPT ![i] = new]
    BY <1>2, <1>4
  <2>2. picks \in [1 .. MaxPicks -> Users!PickRows \cup {None}] /\ MaxPicks \in Nat /\ stake \in Nat
    BY <1>0 DEF AccountRows, Users!AccountsAssumption
  <2>3. i \in 1 .. MaxPicks /\ i \notin Users!Rows(picks)
    <3>1. i \in Nat /\ i >= 1 /\ \A j \in Users!Rows(picks) : j < i
      BY <1>1, <2>2, NextFree
    <3>2. ~(i < i)
      BY <3>1
    <3> QED
      BY <1>5, <2>2, <3>1, <3>2
  <2>4. picks'[i] = new /\ \A j \in Users!Rows(picks) : picks'[j] = picks[j]
    BY <2>1, <2>2, <2>3 DEF Users!Rows
  <2>5. /\ new.user = u /\ new.parlay = None /\ new.payout = 0 /\ new.result = None /\ new.stake = stake
    BY DEF Users!Pick
  <2> HIDE DEF new
  <2>6. /\ Users!Rows(picks)' \subseteq Users!Rows(picks) \cup {i} /\ Users!Rows(picks) \subseteq Users!Rows(picks)'
        /\ Users!Rows(parlays)' = Users!Rows(parlays) /\ Users!Players' = Users!Players
    BY <1>2, <2>1, <2>4 DEF Users!Rows, Users!Players
  <2>7. new # None
    <3>1. u \in Users!Players /\ day \in Nat
      BY <1>0, <1>2, <1>4 DEF Users!ForeignKey, Users!Referenced, AccountRows, Users!AccountsAssumption
    <3> QED
      BY <1>0, <2>2, <3>1, PickIsRow DEF new
  <2>8. i \in Users!Rows(picks)'
    BY <2>1, <2>2, <2>3, <2>4, <2>7 DEF Users!Rows
  <2>9. ASSUME NEW v \in Users!Players
        PROVE  /\ Users!Parlays(v)' = Users!Parlays(v) /\ i \notin Users!Straight(v)
               /\ Users!Straight(v)' = Users!Straight(v) \cup (IF v = u THEN {i} ELSE {})
    BY <1>2, <2>3, <2>4, <2>5, <2>6, <2>8 DEF Users!Straight, Users!Parlays
  <2>10. ASSUME NEW v \in Users!Players PROVE Free(v)' >= 0
    <3> DEFINE S == Users!Straight(v)
               P == Users!Parlays(v)
    <3>1. Free(v) = Starting + Money(picks, S) + Money(parlays, P) /\ Free(v) >= 0
          /\ Free(v)' = Starting + Money(picks', Users!Straight(v)') + Money(parlays, P)
      BY <1>2, <2>9 DEF Free, Solvent
    <3>2. Figures(picks, S) /\ Figures(parlays, P) /\ Figures(picks', Users!Straight(v)')
      <4>1. S \subseteq Users!Rows(picks) /\ P \subseteq Users!Rows(parlays)
            /\ Users!Straight(v)' \subseteq Users!Rows(picks)'
        BY DEF Users!Straight, Users!Parlays
      <4> QED
        BY <1>0, <4>1, AllCounted, AllCountedNext
    <3>3. \A j \in S : picks'[j] = picks[j]
      BY <2>4 DEF Users!Straight
    <3>4. Users!Straight(v)' = S \cup (IF v = u THEN {i} ELSE {}) /\ i \notin S
      BY <2>9
    <3>5. Free(v) = Users!available_of(v)
      BY <1>0, FreeIs
    <3>6. Starting \in Int
      BY DEF Users!AccountsAssumption
    <3> HIDE DEF S, P
    <3>7. Money(picks, S) \in Int /\ Money(parlays, P) \in Int /\ Money(picks', Users!Straight(v)') \in Int
      BY <3>2, MoneyIs
    <3>8. CASE v = u
      <4>1. Users!Straight(v)' = S \cup {i}
        BY <3>4, <3>8
      <4>2. Money(picks', S \cup {i}) = Money(picks, S) + Lien(picks'[i])
        BY <3>2, <3>3, <3>4, <4>1, MoneyPlaced
      <4>3. Lien(picks'[i]) = 0 - stake
        BY <2>4, <2>5 DEF Lien
      <4>4. ~(stake > Free(v))
        BY <2>1, <3>5, <3>8
      <4> QED
        BY <2>2, <3>1, <3>6, <3>7, <4>1, <4>2, <4>3, <4>4
    <3>9. CASE v # u
      <4>1. Users!Straight(v)' = S
        BY <3>4, <3>9
      <4>2. [j \in S |-> Lien(picks'[j])] = [j \in S |-> Lien(picks[j])]
        BY <3>3
      <4>3. Money(picks', S) = Money(picks, S)
        BY <4>2 DEF Money
      <4> QED
        BY <3>1, <4>1, <4>3
    <3> QED
      BY <3>8, <3>9
  <2> QED
    BY <2>6, <2>10 DEF Solvent
<1> QED
  BY <1>3, <1>4

LEMMA SolventParlay ==
    ASSUME Users!AccountsAssumption, AccountInv, AccountRows', Solvent, NEW t \in Threads, Users!place_parlay(t)
    PROVE  Solvent'
<1>0. AccountRows
  BY DEF AccountInv
<1>1. PICK i, p, u : i = Users!NextId(picks) /\ p = Users!NextId(parlays) /\ u = requests[t].user
  OBVIOUS
<1>2. PICK stake \in Stakes, d1 \in today .. MaxDay, d2 \in today .. MaxDay :
          \/ UNCHANGED <<picks, parlays>>
          \/ /\ ~(stake > Users!available_of(u)) /\ Users!ForeignKey(u)
             /\ parlays' = [parlays EXCEPT ![p] = [user |-> u, stake |-> stake, result |-> None, payout |-> 0]]
             /\ picks' = [picks EXCEPT ![i] = Users!Pick(u, p, 0, d1), ![i + 1] = Users!Pick(u, p, 0, d2)]
  BY <1>1 DEF Users!place_parlay
<1>3. p <= MaxParlays /\ UNCHANGED users
  BY <1>1 DEF Users!place_parlay
<1>4. Users!Players' = Users!Players
  BY <1>3 DEF Users!Players, Users!Rows
<1>5. CASE UNCHANGED <<picks, parlays>>
  <2>1. \A v \in Users!Players : Free(v)' >= 0
    BY <1>0, <1>5, SolventRests
  <2> QED
    BY <1>4, <2>1 DEF Solvent
<1>6. CASE ~UNCHANGED <<picks, parlays>>
  <2> DEFINE new == [user |-> u, stake |-> stake, result |-> None, payout |-> 0]
             one == Users!Pick(u, p, 0, d1)
             two == Users!Pick(u, p, 0, d2)
  <2>1. /\ ~(stake > Users!available_of(u)) /\ u \in Users!Players
        /\ parlays' = [parlays EXCEPT ![p] = new] /\ picks' = [picks EXCEPT ![i] = one, ![i + 1] = two]
    BY <1>2, <1>6 DEF Users!ForeignKey, Users!Referenced
  <2>2. /\ picks \in [1 .. MaxPicks -> Users!PickRows \cup {None}] /\ MaxPicks \in Nat /\ stake \in Nat
        /\ parlays \in [1 .. MaxParlays -> Users!ParlayRows \cup {None}] /\ MaxParlays \in Nat
        /\ users \in [1 .. MaxUsers -> Users!UserRows \cup {None}] /\ None \notin Nat /\ None \notin Users!ParlayRows
    BY <1>0 DEF AccountRows, Users!AccountsAssumption
  <2>3. p \in 1 .. MaxParlays /\ p \notin Users!Rows(parlays) /\ p # None
    <3>1. p \in Nat /\ p >= 1 /\ \A q \in Users!Rows(parlays) : q < p
      BY <1>1, <2>2, NextFree
    <3>2. ~(p < p)
      BY <3>1
    <3> QED
      BY <1>3, <2>2, <3>1, <3>2
  <2>4. i \notin Users!Rows(picks) /\ i + 1 \notin Users!Rows(picks)
    <3>1. i \in Nat /\ \A j \in Users!Rows(picks) : j < i
      BY <1>1, <2>2, NextFree
    <3>2. ~(i < i) /\ ~(i + 1 < i)
      BY <3>1
    <3> QED
      BY <3>1, <3>2
  <2>5. /\ parlays'[p] = new /\ (\A q \in Users!Rows(parlays) : parlays'[q] = parlays[q])
        /\ new.user = u /\ new.payout = 0 /\ new.result = None /\ new.stake = stake
    BY <2>1, <2>2, <2>3 DEF Users!Rows
  <2>6. one.parlay = p /\ two.parlay = p
    BY DEF Users!Pick
  <2>7. new # None
    <3>1. u \in Nat
      BY <2>1, <2>2 DEF Users!Players, Users!Rows
    <3>2. new \in Users!ParlayRows
      BY <2>2, <3>1 DEF Users!ParlayRows
    <3> QED
      BY <2>2, <3>2
  <2> HIDE DEF new, one, two
  <2>8. Users!Rows(parlays)' = Users!Rows(parlays) \cup {p}
    BY <2>1, <2>2, <2>3, <2>5, <2>7 DEF Users!Rows
  <2>9. /\ Users!Rows(picks) \subseteq Users!Rows(picks)' /\ \A j \in Users!Rows(picks) : picks'[j] = picks[j]
        /\ \A j \in Users!Rows(picks)' : j \in Users!Rows(picks) \/ picks'[j] = one \/ picks'[j] = two
    BY <2>1, <2>2, <2>4 DEF Users!Rows
  <2>10. ASSUME NEW v \in Users!Players
         PROVE  /\ Users!Straight(v)' = Users!Straight(v) /\ p \notin Users!Parlays(v)
                /\ Users!Parlays(v)' = Users!Parlays(v) \cup (IF v = u THEN {p} ELSE {})
    <3>1. Users!Straight(v)' = Users!Straight(v)
      BY <2>3, <2>6, <2>9 DEF Users!Straight
    <3>2. /\ p \notin Users!Parlays(v)
          /\ Users!Parlays(v)' = Users!Parlays(v) \cup (IF v = u THEN {p} ELSE {})
      BY <2>3, <2>5, <2>8 DEF Users!Parlays
    <3> QED
      BY <3>1, <3>2
  <2>11. ASSUME NEW v \in Users!Players PROVE Free(v)' >= 0
    <3> DEFINE S == Users!Straight(v)
               P == Users!Parlays(v)
    <3>1. Free(v) = Starting + Money(picks, S) + Money(parlays, P) /\ Free(v) >= 0
          /\ Free(v)' = Starting + Money(picks', S) + Money(parlays', Users!Parlays(v)')
      BY <2>10 DEF Free, Solvent
    <3>2. Figures(picks, S) /\ Figures(parlays, P) /\ Figures(parlays', Users!Parlays(v)')
      <4>1. S \subseteq Users!Rows(picks) /\ P \subseteq Users!Rows(parlays)
            /\ Users!Parlays(v)' \subseteq Users!Rows(parlays)'
        BY DEF Users!Straight, Users!Parlays
      <4> QED
        BY <1>0, <4>1, AllCounted, AllCountedNext
    <3>3. (\A j \in S : picks'[j] = picks[j]) /\ (\A q \in P : parlays'[q] = parlays[q])
      BY <2>5, <2>9 DEF Users!Straight, Users!Parlays
    <3>4. Users!Parlays(v)' = P \cup (IF v = u THEN {p} ELSE {}) /\ p \notin P
      BY <2>10
    <3>5. Free(v) = Users!available_of(v)
      BY <1>0, FreeIs
    <3>6. Starting \in Int
      BY DEF Users!AccountsAssumption
    <3> HIDE DEF S, P
    <3>7. Money(picks, S) \in Int /\ Money(parlays, P) \in Int /\ Money(parlays', Users!Parlays(v)') \in Int
      BY <3>2, MoneyIs
    <3>8. Money(picks', S) = Money(picks, S)
      <4>1. [j \in S |-> Lien(picks'[j])] = [j \in S |-> Lien(picks[j])]
        BY <3>3
      <4> QED
        BY <4>1 DEF Money
    <3>9. CASE v = u
      <4>1. Users!Parlays(v)' = P \cup {p}
        BY <3>4, <3>9
      <4>2. Money(parlays', P \cup {p}) = Money(parlays, P) + Lien(parlays'[p])
        BY <3>2, <3>3, <3>4, <4>1, MoneyPlaced
      <4>3. Lien(parlays'[p]) = 0 - stake
        BY <2>5 DEF Lien
      <4>4. ~(stake > Free(v))
        BY <2>1, <3>5, <3>9
      <4> QED
        BY <2>2, <3>1, <3>6, <3>7, <3>8, <4>1, <4>2, <4>3, <4>4
    <3>10. CASE v # u
      <4>1. Users!Parlays(v)' = P
        BY <3>4, <3>10
      <4>2. [q \in P |-> Lien(parlays'[q])] = [q \in P |-> Lien(parlays[q])]
        BY <3>3
      <4>3. Money(parlays', P) = Money(parlays, P)
        BY <4>2 DEF Money
      <4> QED
        BY <3>1, <3>8, <4>1, <4>3
    <3> QED
      BY <3>9, <3>10
  <2> QED
    BY <1>4, <2>11 DEF Solvent
<1> QED
  BY <1>5, <1>6

LEMMA SolventStep ==
    ASSUME Users!AccountsAssumption, SolventInv, [Users!Next]_(Users!vars)
    PROVE  SolventInv'
<1>1. AccountInv' /\ AccountRows' /\ AccountRows
  BY AccountsStep DEF SolventInv, AccountInv
<1>2. Unpaid'
  BY UnpaidStays DEF SolventInv, AccountInv
<1>3. today' \in 0 .. MaxDay
  BY DEF SolventInv, Users!Next, Users!vars, Users!NextDay, Users!grade_paper_picks, Users!settle_parlays_list,
         Users!RefreshStreaks, Users!cash_out, Users!CheckName, Users!create_user, Users!LoadUser, Users!place_pick,
         Users!place_parlay, Users!delete_user, Users!AccountsAssumption
<1>4. ASSUME UNCHANGED <<picks, parlays>>, Users!Players' \subseteq Users!Players PROVE Solvent'
  <2>1. \A u \in Users!Players : Free(u)' >= 0
    BY <1>1, <1>4, SolventRests DEF SolventInv
  <2> QED
    BY <1>4, <2>1 DEF Solvent
<1>5. ASSUME Users!RefreshStreaks PROVE Solvent'
  <2>1. PICK u \in missed : users' = Users!update_streaks(u) /\ UNCHANGED <<picks, parlays>>
    BY <1>5 DEF Users!RefreshStreaks
  <2>2. PICK row : users' = [users EXCEPT ![u] = row]
    BY <2>1 DEF Users!update_streaks
  <2>3. u \in Users!Players
    BY DEF SolventInv, AccountInv, Kept
  <2>4. Users!Players' \subseteq Users!Players
    BY <2>2, <2>3 DEF Users!Players, Users!Rows
  <2> QED
    BY <1>4, <2>1, <2>4
<1>6. ASSUME Users!NextDay \/ UNCHANGED Users!vars \/ \E t \in Threads : Users!CheckName(t) \/ Users!LoadUser(t)
      PROVE  Solvent'
  <2>1. UNCHANGED <<users, picks, parlays>>
    BY <1>6 DEF Users!NextDay, Users!vars, Users!CheckName, Users!LoadUser
  <2> QED
    BY <1>4, <2>1 DEF Users!Players, Users!Rows
<1>7. ASSUME NEW t \in Threads,
             Users!create_user(t) \/ Users!delete_user(t) \/ Users!place_pick(t) \/ Users!place_parlay(t)
      PROVE  Solvent'
  BY <1>1, <1>7, SolventCreate, SolventDelete, SolventPick, SolventParlay DEF SolventInv
<1>8. ASSUME Users!grade_paper_picks \/ Users!settle_parlays_list \/ Users!cash_out PROVE Solvent'
  BY <1>1, <1>8, SolventEnds DEF SolventInv
<1>9. Solvent'
  BY <1>5, <1>6, <1>7, <1>8 DEF Users!Next
<1> QED
  BY <1>1, <1>2, <1>3, <1>9 DEF SolventInv

\* No player's open tickets are worth more than the bankroll, whatever two requests of one player place
\* one after the other, and every row is of its type: what is placed is read and written under one
\* lock, and a bet that ends costs no more than the stake it held.
THEOREM AccountsTypeCorrect ==
    ASSUME Users!AccountsAssumption
    PROVE  Users!Spec => []Users!TypeOK
<1>1. Users!Init => SolventInv
  <2> SUFFICES ASSUME Users!Init PROVE SolventInv
    OBVIOUS
  <2>1. AccountInv /\ Users!Players = {}
    BY AccountsStart DEF Users!Init, Users!Players, Users!Rows
  <2>2. Unpaid /\ Solvent
    BY <2>1 DEF Users!Init, Users!Rows, Unpaid, Solvent
  <2>3. today \in 0 .. MaxDay
    BY DEF Users!Init, Users!AccountsAssumption
  <2> QED
    BY <2>1, <2>2, <2>3 DEF SolventInv
<1>2. SolventInv /\ [Users!Next]_(Users!vars) => SolventInv'
  BY SolventStep
<1>3. SolventInv => Users!TypeOK
  <2> SUFFICES ASSUME SolventInv PROVE Users!TypeOK
    OBVIOUS
  <2>1. AccountRows /\ Solvent /\ today \in 0 .. MaxDay /\ missed \subseteq Users!Players
    BY DEF SolventInv, AccountInv, Kept
  <2>2. ASSUME NEW u \in Users!Players PROVE users[u].name \in Names /\ users[u].best >= 0
    <3>1. users[u] \in Users!UserRows
      BY <2>1 DEF AccountRows, Users!Players, Users!Rows
    <3> QED
      BY <3>1 DEF Users!UserRows
  <2>3. ASSUME NEW u \in Users!Players
        PROVE  Users!balance_of(u) >= Users!Sum("stake", {k \in Users!tickets(u) : k.result = None})
    <3>1. Users!open_stakes(u) = Users!Sum("stake", {k \in Users!tickets(u) : k.result = None})
      BY <2>1, StakesShown
    <3>2. /\ Users!available_of(u) >= 0 /\ Users!balance_of(u) \in Int /\ Users!open_stakes(u) \in Int
      BY <2>1, FreeIs DEF Solvent
    <3>3. Users!available_of(u) = Users!balance_of(u) - Users!open_stakes(u)
      BY DEF Users!available_of
    <3> QED
      BY <3>1, <3>2, <3>3
  <2> QED
    BY <2>1, <2>2, <2>3 DEF Users!TypeOK
<1> QED
  BY <1>1, <1>2, <1>3, PTL DEF Users!Spec

-----------------------------------------------------------------------------
(* Picks of props: an instance of PropPicks with variables of its own. *)
CONSTANTS Books, Runs, Offers, Implied, LogBooks, Rosters, Weathers, Player, Ahead(_, _), Today, Start, MaxFetches
VARIABLES now, yards, rows, pick, run, fetches, basis
Board == INSTANCE PropPicks WITH logs <- yards

\* A quote as a fetch records it.
Quoted(q) ==
    /\ q = [book |-> q.book, side |-> q.side, line |-> q.line, odds |-> q.odds]
    /\ q.book \in Books /\ q.side \in Board!Sides /\ q.line \in Int
KeyOf(q) == <<q.book, q.side>>

\* A stored row is the newest quote of its book and side, and every fetch had both sides of a book.
RowsNewest ==
    /\ now \in Nat /\ yards \in LogBooks
    /\ \A k \in DOMAIN rows : /\ k \in Books \X Board!Sides /\ rows[k].at \in Nat /\ rows[k].line \in Int
                              /\ \E f \in fetches : f.at = rows[k].at /\ Board!Quote(k) \in f.quotes
    /\ \A f \in fetches : /\ f.at \in Nat /\ f.quotes # {}
                          /\ \A q \in f.quotes : /\ Quoted(q) /\ KeyOf(q) \in DOMAIN rows
                                                 /\ f.at <= rows[KeyOf(q)].at
                                                 /\ f.at = rows[KeyOf(q)].at => q = Board!Quote(KeyOf(q))
                          /\ \A q \in f.quotes, side \in Board!Sides :
                                \E p \in f.quotes : p.book = q.book /\ p.side = side

\* Quotes of which each book has one a side.
Single(quotes) ==
    /\ \A q \in quotes : Quoted(q)
    /\ \A p, q \in quotes : KeyOf(p) = KeyOf(q) => p = q

\* What a run has read is what was on offer then; and what is published was.
PicksInv ==
    /\ RowsNewest
    /\ run = [r \in Runs |-> run[r]]
    /\ \A r \in Runs : run[r].at = "asking" =>
          run[r].quotes = Board!OfferedOf(run[r].seen) /\ Single(run[r].quotes)
    /\ pick = [side |-> pick.side, line |-> pick.line, odds |-> pick.odds, edge |-> pick.edge, tier |-> pick.tier,
               withdrawn |-> pick.withdrawn, emailed |-> pick.emailed]
    /\ Board!PublishedIsOffered

\* The current rows are what had been offered.
LEMMA CurrentIsOffered ==
    ASSUME RowsNewest
    PROVE  Board!CurrentProps = Board!OfferedOf(fetches) /\ Single(Board!CurrentProps)
<1> DEFINE current == {x \in DOMAIN rows : \A y \in DOMAIN rows : rows[y].at - rows[x].at <= Board!Slack}
           latest == {f \in fetches : \A g \in fetches : g.at - f.at <= Board!Slack}
           Renewed(f, q) == \E g \in latest : g.at > f.at /\ \E p \in g.quotes : p.book = q.book
           Standing(f) == {q \in f.quotes : ~Renewed(f, q)}
<1>1. Board!CurrentProps = {Board!Quote(k) : k \in current}
  BY DEF Board!CurrentProps
<1>2. Board!OfferedOf(fetches) = UNION {Standing(f) : f \in latest}
  BY DEF Board!OfferedOf
<1>3. \A k \in DOMAIN rows : k \in Books \X Board!Sides /\ rows[k].at \in Nat /\ rows[k].line \in Int
  BY DEF RowsNewest
<1>4. \A k \in DOMAIN rows : /\ Quoted(Board!Quote(k)) /\ KeyOf(Board!Quote(k)) = k
                             /\ Board!Quote(k).book = k[1] /\ Board!Quote(k).side = k[2]
  BY <1>3 DEF Board!Quote, Quoted, KeyOf
<1>5. Board!Slack \in Nat
  BY DEF Board!Slack
<1>6. \A k \in DOMAIN rows : \E f \in fetches : f.at = rows[k].at /\ Board!Quote(k) \in f.quotes
  BY DEF RowsNewest
<1>7. \A f \in fetches : f.at \in Nat /\ f.quotes # {}
  BY DEF RowsNewest
<1>8. ASSUME NEW f \in fetches, NEW q \in f.quotes
      PROVE  /\ KeyOf(q) \in DOMAIN rows /\ f.at <= rows[KeyOf(q)].at
             /\ f.at = rows[KeyOf(q)].at => q = Board!Quote(KeyOf(q))
             /\ \A side \in Board!Sides : \E p \in f.quotes : p.book = q.book /\ p.side = side
  BY DEF RowsNewest
<1>9. \A f \in latest : f \in fetches /\ \A g \in fetches : g.at - f.at <= Board!Slack
  OBVIOUS
<1>10. \A f \in fetches : (\A g \in fetches : g.at - f.at <= Board!Slack) => f \in latest
  OBVIOUS
<1>11. ASSUME NEW k \in current PROVE k \in DOMAIN rows /\ \A y \in DOMAIN rows : rows[y].at - rows[k].at <= Board!Slack
  OBVIOUS
<1>12. ASSUME NEW k \in DOMAIN rows, \A y \in DOMAIN rows : rows[y].at - rows[k].at <= Board!Slack PROVE k \in current
  BY <1>12
<1> HIDE DEF current, latest
<1>13. ASSUME NEW k \in current PROVE \E f \in latest : Board!Quote(k) \in Standing(f)
  <2>1. PICK f \in fetches : f.at = rows[k].at /\ Board!Quote(k) \in f.quotes
    BY <1>6, <1>11
  <2>2. ASSUME NEW g \in fetches PROVE g.at - f.at <= Board!Slack
    <3>1. PICK q \in g.quotes : TRUE
      BY <1>7
    <3> DEFINE y == KeyOf(q)
    <3>2. y \in DOMAIN rows /\ g.at <= rows[y].at
      BY <1>8
    <3> HIDE DEF y
    <3>3. rows[y].at - rows[k].at <= Board!Slack /\ rows[y].at \in Nat /\ rows[k].at \in Nat /\ g.at \in Nat
      BY <1>3, <1>7, <1>11, <3>2
    <3> QED
      BY <1>5, <2>1, <3>2, <3>3
  <2>3. f \in latest
    BY <1>10, <2>2
  <2>4. ASSUME NEW g \in latest, g.at > f.at, NEW p \in g.quotes, p.book = Board!Quote(k).book PROVE FALSE
    <3>1. g \in fetches /\ k \in DOMAIN rows /\ k[2] \in Board!Sides /\ p.book = k[1] /\ k = <<k[1], k[2]>>
      BY <1>3, <1>4, <1>9, <1>11, <2>4
    <3>2. PICK q \in g.quotes : q.book = p.book /\ q.side = k[2]
      BY <1>8, <3>1
    <3>3. KeyOf(q) = k
      BY <3>1, <3>2 DEF KeyOf
    <3>4. g.at <= rows[k].at
      BY <1>8, <3>1, <3>3
    <3>5. g.at \in Nat /\ rows[k].at \in Nat
      BY <1>3, <1>7, <3>1
    <3> QED
      BY <2>1, <2>4, <3>4, <3>5
  <2>5. ~Renewed(f, Board!Quote(k))
    BY <2>4
  <2> HIDE DEF Renewed
  <2> QED
    BY <2>1, <2>3, <2>5
<1>14. ASSUME NEW f \in latest, NEW q \in Standing(f) PROVE KeyOf(q) \in current /\ q = Board!Quote(KeyOf(q))
  <2> DEFINE k == KeyOf(q)
  <2>1. q \in f.quotes /\ f \in fetches
    BY <1>9
  <2>2. /\ k \in DOMAIN rows /\ f.at <= rows[k].at
        /\ f.at = rows[k].at => q = Board!Quote(k)
    BY <1>8, <2>1
  <2>3. k[1] = q.book
    BY DEF KeyOf
  <2>4. ~Renewed(f, q)
    OBVIOUS
  <2> HIDE DEF k
  <2>5. f.at \in Nat /\ rows[k].at \in Nat
    BY <1>3, <1>7, <2>1, <2>2
  <2>6. PICK g \in fetches : g.at = rows[k].at /\ Board!Quote(k) \in g.quotes
    BY <1>6, <2>2
  <2>7. ASSUME NEW h \in fetches PROVE h.at - g.at <= Board!Slack /\ h.at - f.at <= Board!Slack
    <3>1. h.at \in Nat /\ h.at - f.at <= Board!Slack
      BY <1>7, <1>9
    <3> QED
      BY <1>5, <2>2, <2>5, <2>6, <3>1
  <2>8. g \in latest /\ Board!Quote(k).book = q.book
    BY <1>4, <1>10, <2>2, <2>3, <2>7
  <2>9. ~(g.at > f.at)
    BY <2>4, <2>6, <2>8
  <2>10. f.at = rows[k].at
    BY <2>2, <2>5, <2>6, <2>9
  <2>11. ASSUME NEW y \in DOMAIN rows PROVE rows[y].at - rows[k].at <= Board!Slack
    <3>1. PICK h \in fetches : h.at = rows[y].at
      BY <1>6
    <3> QED
      BY <2>7, <2>10, <3>1
  <2>12. k \in current
    BY <1>12, <2>2, <2>11
  <2> QED
    BY <2>2, <2>10, <2>12 DEF k
<1> HIDE DEF Standing
<1>15. Board!CurrentProps = Board!OfferedOf(fetches)
  <2>1. ASSUME NEW q \in Board!CurrentProps PROVE q \in Board!OfferedOf(fetches)
    BY <1>1, <1>2, <1>13
  <2>2. ASSUME NEW q \in Board!OfferedOf(fetches) PROVE q \in Board!CurrentProps
    BY <1>1, <1>2, <1>14
  <2> QED
    BY <2>1, <2>2
<1>16. Single(Board!CurrentProps)
  BY <1>1, <1>4, <1>11 DEF Single
<1> QED
  BY <1>15, <1>16

LEMMA FetchKeeps ==
    ASSUME Board!PicksAssumption, RowsNewest, Board!Fetch
    PROVE  RowsNewest'
<1>0. PICK who \in (SUBSET Books) \ {{}} : \E o \in [who -> Offers] :
          LET keys == who \X Board!Sides
              made(k) == [line |-> o[k[1]].line, odds |-> o[k[1]].odds[k[2]], at |-> now]
          IN /\ rows' = [k \in DOMAIN rows \cup keys |-> IF k \in keys THEN made(k) ELSE rows[k]]
             /\ fetches' = fetches \cup
                   {[at |-> now, quotes |-> {[book |-> k[1], side |-> k[2], line |-> made(k).line,
                                              odds |-> made(k).odds] : k \in keys}]}
  BY DEF Board!Fetch
<1>1. PICK o \in [who -> Offers] :
          /\ rows' = [k \in DOMAIN rows \cup (who \X Board!Sides) |->
                         IF k \in who \X Board!Sides
                         THEN [line |-> o[k[1]].line, odds |-> o[k[1]].odds[k[2]], at |-> now] ELSE rows[k]]
          /\ fetches' = fetches \cup
                {[at |-> now, quotes |-> {[book |-> k[1], side |-> k[2], line |-> o[k[1]].line,
                                           odds |-> o[k[1]].odds[k[2]]] : k \in who \X Board!Sides}]}
  BY <1>0
<1> DEFINE keys == who \X Board!Sides
           Made(k) == [book |-> k[1], side |-> k[2], line |-> o[k[1]].line, odds |-> o[k[1]].odds[k[2]]]
           new == [at |-> now, quotes |-> {Made(k) : k \in keys}]
<1>2. /\ fetches' = fetches \cup {new} /\ DOMAIN rows' = DOMAIN rows \cup keys
      /\ \A k \in keys : rows'[k].at = now /\ rows'[k].line = o[k[1]].line /\ Board!Quote(k)' = Made(k)
      /\ \A k \in DOMAIN rows' : k \notin keys => rows'[k] = rows[k] /\ Board!Quote(k)' = Board!Quote(k)
  BY <1>1 DEF Board!Quote
<1>3. ASSUME NEW k \in keys
      PROVE  /\ k \in Books \X Board!Sides /\ Quoted(Made(k)) /\ KeyOf(Made(k)) = k /\ Made(k).book = k[1]
             /\ o[k[1]].line \in Int
  BY DEF Quoted, KeyOf, Board!PicksAssumption
<1>4. /\ now \in Nat /\ yards \in LogBooks /\ UNCHANGED <<now, yards>> /\ \A f \in fetches : f.at < now
  BY DEF RowsNewest, Board!Fetch
<1>5. new.at = now /\ new.quotes = {Made(k) : k \in keys}
  OBVIOUS
<1>6. ASSUME NEW k \in DOMAIN rows'
      PROVE  /\ k \in Books \X Board!Sides /\ rows'[k].at \in Nat /\ rows'[k].line \in Int
             /\ \E f \in fetches' : f.at = rows'[k].at /\ Board!Quote(k)' \in f.quotes
  <2>1. CASE k \in keys
    <3>1. Board!Quote(k)' \in new.quotes /\ new \in fetches' /\ new.at = rows'[k].at
      BY <1>2, <1>5, <2>1
    <3> HIDE DEF keys, new
    <3> QED
      BY <1>2, <1>3, <1>4, <2>1, <3>1
  <2>2. CASE k \notin keys
    <3>1. k \in DOMAIN rows /\ rows'[k] = rows[k] /\ Board!Quote(k)' = Board!Quote(k) /\ fetches \subseteq fetches'
      BY <1>2, <2>2
    <3> HIDE DEF keys, new
    <3> QED
      BY <3>1 DEF RowsNewest
  <2> QED
    BY <2>1, <2>2
<1>7. keys # {} /\ \A k \in keys : \A side \in Board!Sides : <<k[1], side>> \in keys
  <2>1. PICK b \in who : TRUE
    OBVIOUS
  <2>2. <<b, "Over">> \in keys
    BY DEF Board!Sides
  <2> QED
    BY <2>2
<1>8. ASSUME NEW q \in new.quotes
      PROVE  /\ Quoted(q) /\ KeyOf(q) \in DOMAIN rows' /\ rows'[KeyOf(q)].at = now
             /\ q = Board!Quote(KeyOf(q))'
             /\ \A side \in Board!Sides : \E p \in new.quotes : p.book = q.book /\ p.side = side
  <2>1. PICK k \in keys : q = Made(k)
    BY <1>5
  <2>2. Quoted(q) /\ KeyOf(q) = k /\ q.book = k[1]
    BY <1>3, <2>1
  <2>3. ASSUME NEW side \in Board!Sides PROVE \E p \in new.quotes : p.book = q.book /\ p.side = side
    <3>1. <<k[1], side>> \in keys /\ Made(<<k[1], side>>) \in new.quotes
      BY <1>5, <1>7
    <3>2. Made(<<k[1], side>>).book = k[1] /\ Made(<<k[1], side>>).side = side
      OBVIOUS
    <3> HIDE DEF Made
    <3> QED
      BY <2>2, <3>1, <3>2
  <2> HIDE DEF keys, Made
  <2> QED
    BY <1>2, <2>1, <2>2, <2>3
<1>9. new.quotes # {} /\ new.at \in Nat
  <2> HIDE DEF keys, new, Made
  <2>1. PICK k \in keys : TRUE
    BY <1>7
  <2>2. Made(k) \in new.quotes
    BY <1>5
  <2> QED
    BY <1>4, <1>5, <2>2
<1> HIDE DEF new, keys
<1> DEFINE Known(f) ==
               /\ f.at \in Nat /\ f.quotes # {}
               /\ \A q \in f.quotes : /\ Quoted(q) /\ KeyOf(q) \in DOMAIN rows'
                                      /\ f.at <= rows'[KeyOf(q)].at
                                      /\ f.at = rows'[KeyOf(q)].at => q = Board!Quote(KeyOf(q))'
               /\ \A q \in f.quotes, side \in Board!Sides :
                      \E p \in f.quotes : p.book = q.book /\ p.side = side
<1>10. ASSUME NEW f \in fetches PROVE Known(f)
  <2>1. /\ f.at \in Nat /\ f.quotes # {}
        /\ \A q \in f.quotes, side \in Board!Sides : \E p \in f.quotes : p.book = q.book /\ p.side = side
    BY DEF RowsNewest
  <2>2. ASSUME NEW q \in f.quotes
        PROVE  /\ Quoted(q) /\ KeyOf(q) \in DOMAIN rows' /\ f.at <= rows'[KeyOf(q)].at
               /\ f.at = rows'[KeyOf(q)].at => q = Board!Quote(KeyOf(q))'
    <3>1. /\ Quoted(q) /\ KeyOf(q) \in DOMAIN rows /\ f.at <= rows[KeyOf(q)].at
          /\ f.at = rows[KeyOf(q)].at => q = Board!Quote(KeyOf(q))
      BY DEF RowsNewest
    <3>2. KeyOf(q) \in DOMAIN rows'
      BY <1>2, <3>1
    <3>3. CASE KeyOf(q) \in keys
      <4>1. rows'[KeyOf(q)].at = now /\ f.at < now
        BY <1>2, <1>4, <3>3
      <4> QED
        BY <1>4, <2>1, <3>1, <3>2, <4>1
    <3>4. CASE KeyOf(q) \notin keys
      BY <1>2, <3>1, <3>2, <3>4
    <3> QED
      BY <3>3, <3>4
  <2> QED
    BY <2>1, <2>2
<1>11. Known(new)
  BY <1>4, <1>5, <1>8, <1>9
<1>12. \A f \in fetches' : Known(f)
  BY <1>2, <1>10, <1>11
<1> QED
  BY <1>4, <1>6, <1>12 DEF RowsNewest

\* Of the worthwhile quotes of a side and line one survives that is no dearer than any.
LEMMA CheapestKept ==
    ASSUME Board!PicksAssumption, NEW won, NEW q \in won,
           \A a \in won : a.book \in Books /\ a.odds \in DOMAIN Implied,
           \A a, b \in won : a.book = b.book /\ a.side = b.side => a = b
    PROVE  \E d \in Board!Dedup(won) : d.side = q.side /\ d.line = q.line /\ Implied[d.odds] <= Implied[q.odds]
<1> DEFINE Rivals == {x \in won : x.side = q.side /\ x.line = q.line}
           Prices == {Implied[x.odds] : x \in Rivals}
           Before(x) == {b \in Books : Ahead(b, x.book)}
<1>1. \A x \in won : Implied[x.odds] \in Nat
  BY DEF Board!PicksAssumption
<1>2. q \in Rivals /\ Prices \in SUBSET Nat /\ Prices # {} /\ Implied[q.odds] \in Prices
  <2>1. q \in Rivals
    OBVIOUS
  <2> QED
    BY <1>1, <2>1
<1>3. PICK m \in Prices : \A k \in Prices : m <= k
  <2> HIDE DEF Prices
  <2> QED
    BY <1>2, LeastNumber
<1> DEFINE Cheapest == {x \in Rivals : Implied[x.odds] = m}
           Sizes == {Cardinality(Before(x)) : x \in Cheapest}
<1>4. \A x \in won : IsFiniteSet(Before(x)) /\ Cardinality(Before(x)) \in Nat
  <2>1. ASSUME NEW x \in won PROVE IsFiniteSet(Before(x))
    <3>1. IsFiniteSet(Books)
      BY DEF Board!PicksAssumption, Board!IsFiniteSet, IsFiniteSet
    <3>2. Before(x) \in SUBSET Books
      OBVIOUS
    <3> HIDE DEF Before
    <3> QED
      BY <3>1, <3>2, FS_Subset
  <2> QED
    BY <2>1, FS_CardinalityType
<1>5. Sizes \in SUBSET Nat /\ Sizes # {}
  <2> HIDE DEF Before
  <2>1. \E x \in Rivals : Implied[x.odds] = m
    BY <1>3
  <2>2. PICK x \in Cheapest : TRUE
    BY <2>1
  <2>3. Cardinality(Before(x)) \in Sizes
    BY <2>2
  <2> QED
    BY <1>4, <2>3
<1>6. PICK n \in Sizes : \A k \in Sizes : n <= k
  <2> HIDE DEF Sizes
  <2> QED
    BY <1>5, LeastNumber
<1>7. PICK d \in Cheapest : n = Cardinality(Before(d))
  OBVIOUS
<1>8. ASSUME NEW x \in Cheapest PROVE Cardinality(Before(d)) <= Cardinality(Before(x))
  <2> HIDE DEF Before, Cheapest
  <2>1. Cardinality(Before(x)) \in Sizes
    OBVIOUS
  <2> HIDE DEF Sizes
  <2> QED
    BY <1>6, <1>7, <2>1
<1>9. ASSUME NEW b \in Cheapest, b # d PROVE Ahead(d.book, b.book)
  <2> SUFFICES ASSUME ~Ahead(d.book, b.book) PROVE FALSE
    OBVIOUS
  <2>1. d.book \in Books /\ b.book \in Books /\ d.book # b.book
    BY <1>9
  <2>2. Ahead(b.book, d.book) /\ ~Ahead(b.book, b.book)
    BY <2>1 DEF Board!PicksAssumption
  <2>3. Before(b) \subseteq Before(d) /\ b.book \in Before(d) /\ b.book \notin Before(b)
    BY <2>1, <2>2 DEF Board!PicksAssumption
  <2> HIDE DEF Before, Cheapest
  <2>4. IsFiniteSet(Before(d)) /\ Cardinality(Before(d)) \in Nat /\ Cardinality(Before(b)) \in Nat
    BY <1>4 DEF Cheapest
  <2>5. Cardinality(Before(b)) <= Cardinality(Before(d)) /\ Cardinality(Before(b)) # Cardinality(Before(d))
    BY <2>3, <2>4, FS_Subset
  <2> QED
    BY <1>8, <2>4, <2>5
<1>10. ASSUME NEW b \in won \ {d}, b.side = d.side, b.line = d.line
       PROVE  Implied[d.odds] < Implied[b.odds] \/ (Implied[d.odds] = Implied[b.odds] /\ Ahead(d.book, b.book))
  <2>1. b \in Rivals /\ Implied[d.odds] = m
    BY <1>10
  <2>2. m <= Implied[b.odds] /\ m \in Nat /\ Implied[b.odds] \in Nat
    BY <1>1, <1>2, <1>3, <2>1
  <2>3. CASE Implied[b.odds] = m
    BY <1>9, <2>1, <2>3
  <2> QED
    BY <2>1, <2>2, <2>3
<1>11. d \in Board!Dedup(won)
  BY <1>10 DEF Board!Dedup
<1>12. Implied[d.odds] <= Implied[q.odds]
  BY <1>2, <1>3
<1> QED
  BY <1>11, <1>12

LEMMA ChanceWhole ==
    ASSUME NEW q, q.line \in Int, NEW projection \in Int
    PROVE  Board!Chance(q, projection) \in 0 .. 100
<1>1. Board!Exceedance(projection, q.line) \in 0 .. 100
  BY DEF Board!Exceedance
<1> QED
  BY <1>1 DEF Board!Chance

\* An easier line has no smaller chance.
LEMMA EasierChance ==
    ASSUME NEW p, NEW q, p.line \in Int, q.line \in Int, NEW projection \in Int, q.side = p.side,
           p.side \in Board!Sides, Board!Easier(q, p)
    PROVE  Board!Chance(p, projection) <= Board!Chance(q, projection)
<1>1. ASSUME NEW k \in Int, NEW l \in Int, k <= l
      PROVE  Board!Exceedance(projection, l) <= Board!Exceedance(projection, k)
  BY <1>1 DEF Board!Exceedance
<1>2. ASSUME NEW k \in Int PROVE Board!Exceedance(projection, k) \in Int
  BY DEF Board!Exceedance
<1>3. CASE p.side = "Over"
  <2>1. q.line <= p.line /\ q.side = "Over"
    BY <1>3 DEF Board!Easier
  <2> QED
    BY <1>1, <1>3, <2>1 DEF Board!Chance
<1>4. CASE p.side = "Under"
  <2>1. p.line <= q.line /\ q.side # "Over" /\ p.side # "Over"
    BY <1>4 DEF Board!Easier
  <2>2. Board!Exceedance(projection, q.line) <= Board!Exceedance(projection, p.line)
    BY <1>1, <2>1
  <2> QED
    BY <1>2, <2>1, <2>2 DEF Board!Chance
<1> QED
  BY <1>3, <1>4 DEF Board!Sides

\* What is picked was quoted, and no easier line of its side is cheaper.
LEMMA PickedIsBest ==
    ASSUME Board!PicksAssumption, NEW quotes, Single(quotes), NEW projection \in Int \cup {None},
           NEW a \in Board!OnePerMarket(Board!Analyses(quotes, projection))
    PROVE  /\ \E q \in quotes : q.side = a.side /\ q.line = a.line /\ q.odds = a.odds
           /\ ~\E q \in quotes : /\ q.side = a.side /\ Board!Easier(q, a)
                                 /\ q.odds \in DOMAIN Implied /\ Implied[q.odds] < Implied[a.odds]
<1> DEFINE won == Board!Analyses(quotes, projection)
           Of(q) == [book |-> q.book, side |-> q.side, line |-> q.line, odds |-> q.odds,
                     edge |-> Board!Edge(q, projection)]
           Valid == {q \in quotes : q.odds \in DOMAIN Implied}
<1>1. a \in Board!Dedup(won) /\ a \in won
      /\ \A b \in Board!Dedup(won) \ {a} : a.edge > b.edge \/ a.edge = b.edge
  BY DEF Board!OnePerMarket, Board!Dedup
<1>2. projection # None /\ projection \in Int
  BY <1>1 DEF Board!Analyses
<1>3. won = {x \in {Of(q) : q \in Valid} : x.edge >= Board!MinEdge /\ Board!Tier(x.edge) >= 1}
  BY <1>2 DEF Board!Analyses
<1>4. ASSUME NEW q \in Valid
      PROVE  /\ q \in quotes /\ q.book \in Books /\ q.side \in Board!Sides /\ q.line \in Int
             /\ q.odds \in DOMAIN Implied /\ Implied[q.odds] \in Nat
             /\ Board!Chance(q, projection) \in Int /\ Board!Edge(q, projection) \in Int
             /\ Board!Edge(q, projection) = Board!Chance(q, projection) - Implied[q.odds]
  <2>1. q \in quotes /\ q.book \in Books /\ q.side \in Board!Sides /\ q.line \in Int /\ q.odds \in DOMAIN Implied
    BY DEF Single, Quoted
  <2>2. Implied[q.odds] \in Nat
    BY <2>1 DEF Board!PicksAssumption
  <2>3. Board!Chance(q, projection) \in Int
    BY <1>2, <2>1, ChanceWhole
  <2> QED
    BY <2>1, <2>2, <2>3 DEF Board!Edge
<1>5. ASSUME NEW x \in won
      PROVE  \E q \in Valid : x = Of(q) /\ x.book = q.book /\ x.side = q.side /\ x.line = q.line /\ x.odds = q.odds
                              /\ x.edge = Board!Edge(q, projection) /\ x.edge >= 5
  BY <1>3 DEF Board!MinEdge
<1>6. \A x \in won : x.book \in Books /\ x.odds \in DOMAIN Implied
  <2> HIDE DEF won, Valid, Of
  <2> QED
    BY <1>4, <1>5
<1>7. ASSUME NEW x \in won, NEW y \in won, x.book = y.book, x.side = y.side PROVE x = y
  <2>1. PICK p \in Valid : x = Of(p) /\ x.book = p.book /\ x.side = p.side
    BY <1>5
  <2>2. PICK q \in Valid : y = Of(q) /\ y.book = q.book /\ y.side = q.side
    BY <1>5
  <2>3. p = q
    BY <1>7, <2>1, <2>2 DEF Single, KeyOf
  <2> HIDE DEF won, Valid, Of
  <2> QED
    BY <2>1, <2>2, <2>3
<1>8. PICK p \in Valid : a = Of(p) /\ a.book = p.book /\ a.side = p.side /\ a.line = p.line /\ a.odds = p.odds
                         /\ a.edge = Board!Edge(p, projection) /\ a.edge >= 5
  BY <1>1, <1>5
<1>9. ASSUME NEW q \in quotes, q.side = a.side, Board!Easier(q, a), q.odds \in DOMAIN Implied,
             Implied[q.odds] < Implied[a.odds]
      PROVE  FALSE
  <2>1. q \in Valid /\ Board!Easier(q, p)
    BY <1>8, <1>9 DEF Board!Easier
  <2>2. Board!Chance(p, projection) <= Board!Chance(q, projection)
    <3>1. p.line \in Int /\ q.line \in Int /\ p.side \in Board!Sides
      BY <1>4, <2>1
    <3> HIDE DEF Valid, Of, won
    <3> QED
      BY <1>2, <1>8, <1>9, <2>1, <3>1, EasierChance
  <2>3. Board!Edge(q, projection) > Board!Edge(p, projection) /\ Board!Edge(q, projection) >= 5
    <3>1. /\ Board!Edge(q, projection) = Board!Chance(q, projection) - Implied[q.odds]
          /\ Board!Edge(p, projection) = Board!Chance(p, projection) - Implied[p.odds]
          /\ Board!Chance(q, projection) \in Int /\ Board!Chance(p, projection) \in Int
          /\ Implied[q.odds] \in Nat /\ Implied[p.odds] \in Nat
      BY <1>4, <2>1
    <3> HIDE DEF Valid, Of, won
    <3> QED
      BY <1>8, <1>9, <2>2, <3>1
  <2>4. Of(q) \in won
    <3>1. Board!Edge(q, projection) \in Int
      BY <1>4, <2>1
    <3>2. Board!Tier(Board!Edge(q, projection)) >= 1
      BY <2>3, <3>1 DEF Board!Tier
    <3>3. Of(q).edge = Board!Edge(q, projection)
      OBVIOUS
    <3> HIDE DEF Of, won
    <3> QED
      BY <1>3, <2>1, <2>3, <3>2, <3>3 DEF Board!MinEdge
  <2>5. PICK d \in Board!Dedup(won) : d.side = Of(q).side /\ d.line = Of(q).line /\ Implied[d.odds] <= Implied[Of(q).odds]
    <3> HIDE DEF won, Of, Valid
    <3> QED
      BY <1>6, <1>7, <2>4, CheapestKept
  <2>6. d \in won
    BY DEF Board!Dedup
  <2>7. PICK r \in Valid : d.side = r.side /\ d.line = r.line /\ d.odds = r.odds /\ d.edge = Board!Edge(r, projection)
    BY <1>5, <2>6
  <2>8. r.side = q.side /\ r.line = q.line /\ Implied[r.odds] <= Implied[q.odds]
    BY <2>5, <2>7
  <2>9. Board!Chance(r, projection) = Board!Chance(q, projection)
    BY <2>8 DEF Board!Chance
  <2>10. d.edge >= Board!Edge(q, projection) /\ d.edge \in Int
    <3>1. /\ Board!Edge(q, projection) = Board!Chance(q, projection) - Implied[q.odds]
          /\ Board!Edge(r, projection) = Board!Chance(r, projection) - Implied[r.odds]
          /\ Board!Chance(q, projection) \in Int /\ Implied[q.odds] \in Nat /\ Implied[r.odds] \in Nat
      BY <1>4, <2>1
    <3> HIDE DEF Valid, Of, won
    <3> QED
      BY <2>7, <2>8, <2>9, <3>1
  <2>11. a.edge < d.edge /\ a.edge \in Int
    <3>1. Board!Edge(p, projection) \in Int /\ Board!Edge(q, projection) \in Int
      BY <1>4, <2>1
    <3> HIDE DEF Valid, Of, won
    <3> QED
      BY <1>8, <2>3, <2>10, <3>1
  <2> HIDE DEF Valid, Of, won
  <2>12. d # a
    BY <2>11
  <2> QED
    BY <1>1, <2>10, <2>11, <2>12
<1>10. p \in quotes
  OBVIOUS
<1> HIDE DEF Of, won, Valid
<1> QED
  BY <1>8, <1>9, <1>10

\* A sum of whole numbers is whole, and so is what a player is expected to do.
LEMMA SumWhole ==
    ASSUME NEW g, Whole(g)
    PROVE  Board!SumFunction(g) \in Int
<1>1. Board!SumFunction(g) = SumsOf(g)[DOMAIN g]
  BY DEF Board!SumFunction, Board!SumFunctionOnSet, Board!FoldFunctionOnSet, Board!MapThenFoldSet, SumsOf, Table, Chosen
<1> QED
  BY <1>1, SumsWhole

LEMMA ExpectedWhole ==
    ASSUME Board!PicksAssumption, yards \in LogBooks, NEW season \in {None, 20}, NEW roster, NEW weather
    PROVE  Board!Projection(season, roster, weather) \in Int \cup {None}
<1> DEFINE log == yards["target"][Player]
           n == Board!Cardinality(Board!RecentForm)
           total == Board!Total(log, Board!RecentForm)
           latest == total \div n
           blend == IF season = None THEN latest ELSE (40 * season + 60 * latest) \div 100
<1>1. IsFiniteSet(DOMAIN log) /\ \A d \in DOMAIN log : log[d] \in Int
  BY DEF Board!PicksAssumption, Board!IsFiniteSet, IsFiniteSet
<1>2. Board!RecentForm \in SUBSET DOMAIN log
  BY DEF Board!RecentForm
<1>3. n \in Nat
  <2>1. n = Cardinality(Board!RecentForm)
    BY DEF Board!Cardinality, Cardinality, Board!IsFiniteSet, IsFiniteSet
  <2> QED
    BY <1>1, <1>2, <2>1, FS_Subset, FS_CardinalityType
<1>4. total \in Int
  <2> DEFINE part == Board!Restrict(log, DOMAIN log \cap Board!RecentForm)
  <2>1. DOMAIN part = DOMAIN log \cap Board!RecentForm /\ \A d \in DOMAIN part : part[d] = log[d]
    BY DEF Board!Restrict
  <2>2. Whole(part)
    BY <1>1, <2>1, FS_Subset DEF Whole
  <2>3. total = Board!SumFunction(part)
    BY DEF Board!Total
  <2> HIDE DEF part
  <2> QED
    BY <2>2, <2>3, SumWhole
<1>5. Board!InjuryFactor(roster) \in Int /\ Board!WeatherFactor(weather) \in Int
  BY DEF Board!InjuryFactor, Board!WeatherFactor
<1>6. Board!Projection(season, roster, weather) =
          IF n < 3 THEN None
          ELSE (blend * (100 + Board!InjuryFactor(roster)) * (100 + Board!WeatherFactor(weather))) \div 10000
  BY DEF Board!Projection
<1> HIDE DEF n, total
<1>7. CASE ~(n < 3)
  <2>1. latest \in Int
    BY <1>3, <1>4, <1>7
  <2> HIDE DEF latest
  <2>2. blend \in Int
    BY <2>1
  <2> HIDE DEF blend
  <2>3. (blend * (100 + Board!InjuryFactor(roster)) * (100 + Board!WeatherFactor(weather))) \in Int
    BY <1>5, <2>2
  <2> QED
    BY <1>6, <1>7, <2>3
<1> QED
  BY <1>6, <1>7

LEMMA PicksInit == ASSUME Board!PicksAssumption, Board!Init PROVE PicksInv
<1>1. RowsNewest
  BY DEF RowsNewest, Board!Init
<1>2. \A r \in Runs : run[r].at # "asking"
  BY DEF Board!Init, Board!Idle
<1>3. pick = [side |-> pick.side, line |-> pick.line, odds |-> pick.odds, edge |-> pick.edge, tier |-> pick.tier,
              withdrawn |-> pick.withdrawn, emailed |-> pick.emailed]
  BY DEF Board!Init, Board!NoPick
<1>4. Board!PublishedIsOffered
  BY DEF Board!PublishedIsOffered, Board!Init
<1>5. run = [r \in Runs |-> run[r]]
  BY DEF Board!Init
<1> QED
  BY <1>1, <1>2, <1>3, <1>4, <1>5 DEF PicksInv

\* A run that stores leaves a pick that was on offer when it read, or none that it could still take back.
LEMMA StoreRight ==
    ASSUME Board!PicksAssumption, PicksInv, NEW r \in Runs, Board!Store(r)
    PROVE  /\ Board!PublishedIsOffered'
           /\ pick' = [side |-> pick'.side, line |-> pick'.line, odds |-> pick'.odds, edge |-> pick'.edge,
                       tier |-> pick'.tier, withdrawn |-> pick'.withdrawn, emailed |-> pick'.emailed]
<1> DEFINE shape == pick' = [side |-> pick'.side, line |-> pick'.line, odds |-> pick'.odds, edge |-> pick'.edge,
                             tier |-> pick'.tier, withdrawn |-> pick'.withdrawn, emailed |-> pick'.emailed]
           quotes == run[r].quotes
<1>1. PICK roster \in Rosters, weather \in Weathers, season \in {None, 20} :
          LET chosen == Board!OnePerMarket(Board!Analyses(quotes, Board!Projection(season, roster, weather)))
          IN  /\ run[r].at = "asking"
              /\ \/ chosen = {} /\ pick' = Board!Withdrawn
                 \/ \E a \in chosen : pick' = IF Board!Started THEN pick ELSE Board!Built(a)
              /\ basis' = IF Board!Started THEN basis ELSE run[r].seen
  BY DEF Board!Store
<1> DEFINE projection == Board!Projection(season, roster, weather)
           chosen == Board!OnePerMarket(Board!Analyses(quotes, projection))
<1>2. /\ run[r].at = "asking" /\ (pick' = Board!Withdrawn \/ \E a \in chosen : pick' = IF Board!Started THEN pick ELSE Board!Built(a))
      /\ basis' = IF Board!Started THEN basis ELSE run[r].seen
  BY <1>1
<1>3. quotes = Board!OfferedOf(run[r].seen) /\ Single(quotes)
  BY <1>2 DEF PicksInv
<1>4. projection \in Int \cup {None}
  BY ExpectedWhole DEF PicksInv, RowsNewest
<1>5. ASSUME pick' = pick, basis' = basis PROVE Board!PublishedIsOffered' /\ shape
  BY <1>5 DEF Board!PublishedIsOffered, Board!Offered, PicksInv
<1>6. CASE pick' = Board!Withdrawn
  <2>1. CASE Board!Started
    BY <1>2, <1>5, <1>6, <2>1 DEF Board!Withdrawn
  <2>2. CASE pick = Board!NoPick \/ pick.emailed
    <3>1. pick' = pick
      BY <1>6, <2>2 DEF Board!Withdrawn
    <3>2. shape
      BY <3>1 DEF PicksInv
    <3>3. Board!PublishedIsOffered'
      BY <2>2, <3>1 DEF Board!PublishedIsOffered
    <3> QED
      BY <3>2, <3>3
  <2>3. CASE ~Board!Started /\ ~(pick = Board!NoPick \/ pick.emailed)
    <3>1. pick' = [pick EXCEPT !.withdrawn = TRUE]
      BY <1>6, <2>3 DEF Board!Withdrawn
    <3>2. pick'.withdrawn /\ shape
      BY <3>1 DEF PicksInv
    <3> QED
      BY <3>2 DEF Board!PublishedIsOffered
  <2> QED
    BY <2>1, <2>2, <2>3
<1>7. ASSUME NEW a \in chosen, pick' = IF Board!Started THEN pick ELSE Board!Built(a)
      PROVE  Board!PublishedIsOffered' /\ shape
  <2>1. CASE Board!Started
    BY <1>2, <1>5, <1>7, <2>1
  <2>2. CASE ~Board!Started
    <3>1. /\ \E q \in quotes : q.side = a.side /\ q.line = a.line /\ q.odds = a.odds
          /\ ~\E q \in quotes : /\ q.side = a.side /\ Board!Easier(q, a)
                                /\ q.odds \in DOMAIN Implied /\ Implied[q.odds] < Implied[a.odds]
      <4> HIDE DEF projection, quotes
      <4> QED
        BY <1>3, <1>4, PickedIsBest
    <3>2. pick' = Board!Built(a)
      BY <1>7, <2>2
    <3>3. shape /\ pick'.side = a.side /\ pick'.line = a.line /\ pick'.odds = a.odds
      BY <3>2 DEF Board!Built
    <3>4. Board!Offered' = quotes
      BY <1>2, <1>3, <2>2 DEF Board!Offered, Board!OfferedOf
    <3> HIDE DEF quotes, chosen, projection, shape
    <3> QED
      BY <3>1, <3>3, <3>4 DEF Board!PublishedIsOffered, Board!Easier
  <2> QED
    BY <2>1, <2>2
<1> QED
  BY <1>2, <1>6, <1>7

\* Time alone makes no row older than another.
LEMMA RowsRest ==
    ASSUME RowsNewest, UNCHANGED <<yards, rows, fetches>>, now' \in Nat
    PROVE  RowsNewest'
<1>1. \A k : Board!Quote(k)' = Board!Quote(k)
  BY DEF Board!Quote
<1>2. now' \in Nat /\ yards' \in LogBooks
  BY DEF RowsNewest
<1>3. \A k \in DOMAIN rows' : /\ k \in Books \X Board!Sides /\ rows'[k].at \in Nat /\ rows'[k].line \in Int
                               /\ \E f \in fetches' : f.at = rows'[k].at /\ Board!Quote(k)' \in f.quotes
  BY <1>1 DEF RowsNewest
<1>4. \A f \in fetches' : /\ f.at \in Nat /\ f.quotes # {}
                           /\ \A q \in f.quotes : /\ Quoted(q) /\ KeyOf(q) \in DOMAIN rows'
                                                  /\ f.at <= rows'[KeyOf(q)].at
  BY DEF RowsNewest
<1>5. \A f \in fetches' : \A q \in f.quotes : f.at = rows'[KeyOf(q)].at => q = Board!Quote(KeyOf(q))'
  BY <1>1 DEF RowsNewest
<1>6. \A f \in fetches' : \A q \in f.quotes, side \in Board!Sides : \E p \in f.quotes : p.book = q.book /\ p.side = side
  BY DEF RowsNewest
<1> QED
  BY <1>2, <1>3, <1>4, <1>5, <1>6 DEF RowsNewest

LEMMA PicksStep ==
    ASSUME Board!PicksAssumption, PicksInv, [Board!Next]_Board!vars
    PROVE  PicksInv'
<1>0. ASSUME pick' = pick, basis' = basis
      PROVE  /\ Board!PublishedIsOffered'
             /\ pick' = [side |-> pick'.side, line |-> pick'.line, odds |-> pick'.odds, edge |-> pick'.edge,
                         tier |-> pick'.tier, withdrawn |-> pick'.withdrawn, emailed |-> pick'.emailed]
  BY <1>0 DEF Board!PublishedIsOffered, Board!Offered, PicksInv
<1>00. ASSUME UNCHANGED <<now, yards, rows, fetches>> PROVE RowsNewest'
  <2>1. RowsNewest /\ now' \in Nat
    BY <1>00 DEF RowsNewest, PicksInv
  <2> QED
    BY <1>00, <2>1, RowsRest
<1>1. ASSUME Board!Fetch PROVE PicksInv'
  <2>1. RowsNewest'
    BY <1>1, FetchKeeps DEF PicksInv
  <2>2. UNCHANGED <<pick, run, basis>>
    BY <1>1 DEF Board!Fetch
  <2> QED
    BY <1>0, <2>1, <2>2 DEF PicksInv
<1>2. ASSUME NEW r \in Runs, Board!Read(r) PROVE PicksInv'
  <2>1. /\ UNCHANGED <<now, yards, rows, fetches, pick, basis>>
        /\ run' = [run EXCEPT ![r] = [at |-> "asking", quotes |-> Board!CurrentProps, seen |-> fetches]]
    BY <1>2 DEF Board!Read
  <2>2. run' = [q \in Runs |-> run'[q]] /\ \A q \in Runs : q # r => run'[q] = run[q]
    BY <2>1 DEF PicksInv
  <2>3. run'[r].quotes = Board!CurrentProps /\ run'[r].seen = fetches
    BY <2>1 DEF PicksInv
  <2>4. run'[r].quotes = Board!OfferedOf(run'[r].seen) /\ Single(run'[r].quotes)
    BY <2>3, CurrentIsOffered DEF PicksInv
  <2>5. \A q \in Runs : run'[q].at = "asking" =>
            run'[q].quotes = Board!OfferedOf(run'[q].seen) /\ Single(run'[q].quotes)
    BY <2>2, <2>4 DEF PicksInv
  <2>6. RowsNewest'
    BY <1>00, <2>1
  <2> QED
    BY <1>0, <2>1, <2>2, <2>5, <2>6 DEF PicksInv
<1>3. ASSUME NEW r \in Runs, Board!Store(r) PROVE PicksInv'
  <2>1. UNCHANGED <<now, yards, rows, fetches>> /\ run' = [run EXCEPT ![r] = Board!Idle]
    BY <1>3 DEF Board!Store
  <2>2. /\ run' = [q \in Runs |-> run'[q]] /\ run'[r].at = "idle" /\ \A q \in Runs : q # r => run'[q] = run[q]
    BY <2>1 DEF PicksInv, Board!Idle
  <2>3. \A q \in Runs : run'[q].at = "asking" =>
            run'[q].quotes = Board!OfferedOf(run'[q].seen) /\ Single(run'[q].quotes)
    BY <2>2 DEF PicksInv
  <2>4. RowsNewest'
    BY <1>00, <2>1
  <2> QED
    BY <1>3, <2>2, <2>3, <2>4, StoreRight DEF PicksInv
<1>4. ASSUME Board!Email PROVE PicksInv'
  <2>1. UNCHANGED <<now, yards, rows, fetches, run, basis>> /\ pick' = [pick EXCEPT !.emailed = TRUE]
    BY <1>4 DEF Board!Email
  <2>2. /\ pick'.emailed
        /\ pick' = [side |-> pick'.side, line |-> pick'.line, odds |-> pick'.odds, edge |-> pick'.edge,
                    tier |-> pick'.tier, withdrawn |-> pick'.withdrawn, emailed |-> pick'.emailed]
    BY <2>1 DEF PicksInv
  <2>3. Board!PublishedIsOffered'
    BY <2>2 DEF Board!PublishedIsOffered
  <2>4. RowsNewest'
    BY <1>00, <2>1
  <2> QED
    BY <2>1, <2>2, <2>3, <2>4 DEF PicksInv
<1>5. ASSUME Board!Tick PROVE PicksInv'
  <2>1. UNCHANGED <<yards, rows, fetches, run, pick, basis>> /\ now' = now + 1
    BY <1>5 DEF Board!Tick
  <2>2. RowsNewest'
    <3>1. RowsNewest /\ now' \in Nat
      BY <2>1 DEF PicksInv, RowsNewest
    <3> QED
      BY <2>1, <3>1, RowsRest
  <2> QED
    BY <1>0, <2>1, <2>2 DEF PicksInv
<1>6. ASSUME UNCHANGED Board!vars PROVE PicksInv'
  <2>1. UNCHANGED <<now, yards, rows, fetches, run, pick, basis>>
    BY <1>6 DEF Board!vars
  <2>2. RowsNewest'
    BY <1>00, <2>1
  <2> QED
    BY <1>0, <2>1, <2>2 DEF PicksInv
<1> QED
  BY <1>1, <1>2, <1>3, <1>4, <1>5, <1>6 DEF Board!Next

\* A published pick that can still be taken back is one that a book was offering when its run read the
\* odds, and no other book had an easier line of its side at a better price.
THEOREM OffersHold ==
    ASSUME Board!PicksAssumption
    PROVE  Board!Spec => []Board!PublishedIsOffered
<1>1. Board!Init => PicksInv
  BY PicksInit
<1>2. PicksInv /\ [Board!Next]_Board!vars => PicksInv'
  BY PicksStep
<1>3. PicksInv => Board!PublishedIsOffered
  BY DEF PicksInv
<1> QED
  BY <1>1, <1>2, <1>3, PTL DEF Board!Spec
=============================================================================
