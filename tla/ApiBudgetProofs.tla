--------------------------- MODULE ApiBudgetProofs ---------------------------
(***************************************************************************)
(* What the budget check promises for any number of runs at once, any      *)
(* limits and costs: a run overruns the month, and the reserve, by no more *)
(* than the one call it had checked before the others were recorded.  And  *)
(* the database both of these processes open has its whole schema before   *)
(* either serves (Migrations), the ledger of the calls included.           *)
(***************************************************************************)
EXTENDS ApiBudget, FiniteSetTheorems, TLAPS

-----------------------------------------------------------------------------
(* Types *)

Calls == {"odds", "events", "player_props", "scores"}
Jobs ==
    [pc : {"idle", "check", "call", "record"}, call : Calls,
     left : 0 .. MaxSports, events : 0 .. MaxEvents, props : 0 .. MaxSports]

Typed ==
    /\ monthly \in Nat /\ daily \in Nat /\ paid \in Nat /\ unchecked \in Nat /\ unrecorded \in Int
    /\ deep \in Nat /\ runs \in Nat /\ job \in [Threads -> Jobs]

LEMMA Costs ==
    ASSUME BudgetAssumption
    PROVE  /\ MaxCost \in Nat /\ MaxCost >= 1 /\ OddsCost <= MaxCost /\ PropCost <= MaxCost
           /\ Cost("odds") = OddsCost /\ Cost("player_props") = PropCost
           /\ Cost("scores") = ScoresCost /\ Cost("events") = 0
           /\ OddsCost \in Nat /\ PropCost \in Nat /\ ScoresCost \in Nat
           /\ OddsCost >= 1 /\ PropCost >= 1 /\ ScoresCost >= 1
<1>1. /\ OddsCost \in Nat /\ PropCost \in Nat /\ ScoresCost \in Nat
      /\ OddsCost >= 1 /\ PropCost >= 1 /\ ScoresCost >= 1
  BY DEF BudgetAssumption
<1>2. \E c \in {OddsCost, PropCost} : c >= OddsCost /\ c >= PropCost
  <2>1. CASE OddsCost >= PropCost
    BY <1>1, <2>1
  <2>2. CASE PropCost >= OddsCost
    BY <1>1, <2>2
  <2> QED
    BY <1>1, <2>1, <2>2
<1>3. MaxCost \in {OddsCost, PropCost} /\ MaxCost >= OddsCost /\ MaxCost >= PropCost
  BY <1>2 DEF MaxCost
<1> QED
  BY <1>1, <1>3 DEF Cost

LEMMA NextSportIs ==
    ASSUME BudgetAssumption, NEW j \in Jobs
    PROVE  NextSport(j) \in Jobs /\ NextSport(j).pc \in {"idle", "check"}
<1>1. CASE j.left > 1
  <2>1. j.left - 1 \in 0 .. MaxSports /\ 0 \in 0 .. MaxEvents
    BY <1>1 DEF Jobs, BudgetAssumption
  <2>2. PICK c \in Calls : NextSport(j) = [j EXCEPT !.left = j.left - 1, !.events = 0, !.pc = "check", !.call = c]
    BY <1>1 DEF NextSport, Jobs, Calls
  <2> QED
    BY <2>1, <2>2 DEF Jobs
<1>2. CASE ~(j.left > 1) /\ j.call = "odds" /\ j.props > 0
  <2>1. j.props \in 0 .. MaxSports /\ 0 \in 0 .. MaxSports /\ 0 \in 0 .. MaxEvents
    BY DEF Jobs, BudgetAssumption
  <2>2. NextSport(j) = [pc |-> "check", call |-> "events", left |-> j.props, events |-> 0, props |-> 0]
    BY <1>2 DEF NextSport, Idle
  <2> QED
    BY <2>1, <2>2 DEF Jobs, Calls
<1>3. CASE ~(j.left > 1) /\ ~(j.call = "odds" /\ j.props > 0)
  <2>1. 0 \in 0 .. MaxSports /\ 0 \in 0 .. MaxEvents
    BY DEF BudgetAssumption
  <2>2. NextSport(j) = Idle
    BY <1>3 DEF NextSport
  <2> QED
    BY <2>1, <2>2 DEF Jobs, Calls, Idle
<1> QED
  BY <1>1, <1>2, <1>3

LEMMA NextCallIs ==
    ASSUME BudgetAssumption, NEW j \in Jobs, NEW listed \in 0 .. MaxEvents
    PROVE  NextCall(j, listed) \in Jobs /\ NextCall(j, listed).pc \in {"idle", "check"}
<1> DEFINE events == IF j.call = "events" THEN listed ELSE j.events
<1>1. events \in 0 .. MaxEvents
  BY DEF Jobs
<1>2. CASE j.call \in {"events", "player_props"} /\ events > 0
  <2>1. NextCall(j, listed) = [j EXCEPT !.call = "player_props", !.events = events - 1, !.pc = "check"]
    BY <1>2 DEF NextCall
  <2> HIDE DEF events
  <2>2. events - 1 \in 0 .. MaxEvents
    BY <1>1, <1>2 DEF BudgetAssumption
  <2> QED
    BY <2>1, <2>2 DEF Jobs, Calls
<1>3. CASE ~(j.call \in {"events", "player_props"} /\ events > 0)
  <2>1. NextCall(j, listed) = NextSport(j)
    BY <1>3 DEF NextCall
  <2> QED
    BY <2>1, NextSportIs
<1> QED
  BY <1>2, <1>3

-----------------------------------------------------------------------------
(* Counting calls under way *)

\* Runs that wait to record a call of this kind; that have checked the budget for
\* a call they have not recorded; that are about to make a call that costs.
Recording(call) == {t \in Threads : job[t].pc = "record" /\ job[t].call = call}
Checked == {t \in Threads : job[t].pc \in {"call", "record"} /\ job[t].call # "scores"}
Costly == {t \in Threads : job[t].pc = "call" /\ job[t].call \in {"odds", "player_props"}}

One(b) == IF b THEN 1 ELSE 0

LEMMA Counts ==
    ASSUME BudgetAssumption, NEW S \in SUBSET Threads
    PROVE  IsFiniteSet(S) /\ Cardinality(S) \in Nat /\ Cardinality(S) <= Cardinality(Threads)
           /\ Cardinality(Threads) \in Nat
  BY FS_Subset, FS_CardinalityType DEF BudgetAssumption

\* Two sets of runs that differ in t at most.
LEMMA CountOne ==
    ASSUME BudgetAssumption, NEW t \in Threads, NEW S \in SUBSET Threads, NEW R \in SUBSET Threads,
           S \ {t} = R \ {t}
    PROVE  Cardinality(R) = Cardinality(S) - One(t \in S) + One(t \in R)
<1> DEFINE X == S \ {t}
<1>1. ASSUME NEW Y \in SUBSET Threads, Y \ {t} = X
      PROVE  Cardinality(Y) = Cardinality(X) + One(t \in Y)
  <2>1. CASE t \in Y
    <3>1. IsFiniteSet(Y)
      BY Counts
    <3>2. Cardinality(Y \ {t}) = Cardinality(Y) - 1
      BY <2>1, <3>1, FS_RemoveElement
    <3>3. Cardinality(Y) \in Nat
      BY Counts
    <3>4. Cardinality(X) = Cardinality(Y) - 1
      BY <1>1, <3>2, Zenon
    <3>5. Cardinality(X) \in Nat
      BY Counts
    <3> HIDE DEF X
    <3> QED
      BY <2>1, <3>3, <3>4, <3>5 DEF One
  <2>2. CASE t \notin Y
    <3>1. Y = X
      BY <1>1, <2>2
    <3>2. Cardinality(Y) \in Nat
      BY Counts
    <3> HIDE DEF X
    <3> QED
      BY <2>2, <3>1, <3>2 DEF One
  <2> QED
    BY <2>1, <2>2
<1>2. Cardinality(S) \in Nat /\ Cardinality(R) \in Nat /\ Cardinality(X) \in Nat
  BY Counts
<1>3. Cardinality(S) = Cardinality(X) + One(t \in S) /\ Cardinality(R) = Cardinality(X) + One(t \in R)
  BY <1>1
<1> HIDE DEF X
<1> QED
  BY <1>2, <1>3 DEF One

\* A step of run t changes no other run's part in the counts.
LEMMA CountsStep ==
    ASSUME BudgetAssumption, Typed, NEW t \in Threads, NEW j \in Jobs, job' = [job EXCEPT ![t] = j]
    PROVE  /\ \A c \in Calls :
                 Cardinality(Recording(c)') =
                     Cardinality(Recording(c)) - One(job[t].pc = "record" /\ job[t].call = c)
                                               + One(j.pc = "record" /\ j.call = c)
           /\ Cardinality(Checked') =
                 Cardinality(Checked) - One(job[t].pc \in {"call", "record"} /\ job[t].call # "scores")
                                      + One(j.pc \in {"call", "record"} /\ j.call # "scores")
           /\ Cardinality(Costly') =
                 Cardinality(Costly) - One(job[t].pc = "call" /\ job[t].call \in {"odds", "player_props"})
                                     + One(j.pc = "call" /\ j.call \in {"odds", "player_props"})
<1>1. job'[t] = j /\ \A s \in Threads : s # t => job'[s] = job[s]
  BY DEF Typed
<1>2. ASSUME NEW c \in Calls
      PROVE  Cardinality(Recording(c)') =
                     Cardinality(Recording(c)) - One(job[t].pc = "record" /\ job[t].call = c)
                                               + One(j.pc = "record" /\ j.call = c)
  <2>1. /\ Recording(c) \in SUBSET Threads /\ Recording(c)' \in SUBSET Threads
        /\ Recording(c) \ {t} = Recording(c)' \ {t}
        /\ (t \in Recording(c)) = (job[t].pc = "record" /\ job[t].call = c)
        /\ (t \in Recording(c)') = (j.pc = "record" /\ j.call = c)
    BY <1>1 DEF Recording
  <2>2. Cardinality(Recording(c)') = Cardinality(Recording(c)) - One(t \in Recording(c)) + One(t \in Recording(c)')
    BY <2>1, CountOne
  <2> QED
    BY <2>1, <2>2
<1>3. Cardinality(Checked') =
                 Cardinality(Checked) - One(job[t].pc \in {"call", "record"} /\ job[t].call # "scores")
                                      + One(j.pc \in {"call", "record"} /\ j.call # "scores")
  <2>1. /\ Checked \in SUBSET Threads /\ Checked' \in SUBSET Threads
        /\ Checked \ {t} = Checked' \ {t}
        /\ (t \in Checked) = (job[t].pc \in {"call", "record"} /\ job[t].call # "scores")
        /\ (t \in Checked') = (j.pc \in {"call", "record"} /\ j.call # "scores")
    BY <1>1 DEF Checked
  <2>2. Cardinality(Checked') = Cardinality(Checked) - One(t \in Checked) + One(t \in Checked')
    BY <2>1, CountOne
  <2> QED
    BY <2>1, <2>2
<1>4. Cardinality(Costly') =
                 Cardinality(Costly) - One(job[t].pc = "call" /\ job[t].call \in {"odds", "player_props"})
                                     + One(j.pc = "call" /\ j.call \in {"odds", "player_props"})
  <2>1. /\ Costly \in SUBSET Threads /\ Costly' \in SUBSET Threads
        /\ Costly \ {t} = Costly' \ {t}
        /\ (t \in Costly) = (job[t].pc = "call" /\ job[t].call \in {"odds", "player_props"})
        /\ (t \in Costly') = (j.pc = "call" /\ j.call \in {"odds", "player_props"})
    BY <1>1 DEF Costly
  <2>2. Cardinality(Costly') = Cardinality(Costly) - One(t \in Costly) + One(t \in Costly')
    BY <2>1, CountOne
  <2> QED
    BY <2>1, <2>2
<1> QED
  BY <1>2, <1>3, <1>4

-----------------------------------------------------------------------------
(* Credits under way *)

\* What calls of this kind that wait to be recorded have cost; one call each for the
\* runs that have checked, for those about to pay, and for all of them.
Due(call) == Cost(call) * Cardinality(Recording(call))
Room == MaxCost * Cardinality(Checked)
Loose == MaxCost * Cardinality(Costly)
Full == MaxCost * Cardinality(Threads)

Credit(b, c) == IF b THEN c ELSE 0

LEMMA Times ==
    ASSUME NEW c \in Nat, NEW n \in Nat, NEW a \in BOOLEAN, NEW b \in BOOLEAN
    PROVE  c * n \in Nat /\ c * (n - One(a) + One(b)) = c * n - Credit(a, c) + Credit(b, c)
<1>1. c * n \in Nat /\ c * (n - 1) = c * n - c /\ c * (n + 1) = c * n + c /\ c \in Int
  OBVIOUS
<1>2. n - 1 + 1 = n /\ n - 0 + 0 = n /\ n - 0 + 1 = n + 1 /\ n - 1 + 0 = n - 1
  OBVIOUS
<1> QED
  BY <1>1, <1>2 DEF One, Credit

LEMMA TimesMore ==
    ASSUME NEW c \in Nat, NEW d \in Nat, NEW m \in Nat, NEW n \in Nat, c <= d, m <= n
    PROVE  c * m <= d * n
<1>1. c * m <= d * m
  OBVIOUS
<1>2. d * m <= d * n
  OBVIOUS
<1>3. c * m \in Nat /\ d * m \in Nat /\ d * n \in Nat
  OBVIOUS
<1> QED
  BY <1>1, <1>2, <1>3

LEMMA Amounts ==
    ASSUME BudgetAssumption
    PROVE  /\ \A c \in Calls : Due(c) \in Nat
           /\ Room \in Nat /\ Loose \in Nat /\ Full \in Nat /\ Room <= Full /\ Loose <= Full
<1>1. \A c \in Calls : Recording(c) \in SUBSET Threads
  BY DEF Recording
<1>2. Checked \in SUBSET Threads /\ Costly \in SUBSET Threads
  BY DEF Checked, Costly
<1>3. \A c \in Calls : Cardinality(Recording(c)) \in Nat /\ Cost(c) \in Nat
  BY <1>1, Counts, Costs DEF Calls
<1>4. /\ Cardinality(Checked) \in Nat /\ Cardinality(Costly) \in Nat /\ Cardinality(Threads) \in Nat
      /\ Cardinality(Checked) <= Cardinality(Threads) /\ Cardinality(Costly) <= Cardinality(Threads)
  BY <1>2, Counts
<1>5. MaxCost \in Nat /\ MaxCost <= MaxCost
  BY Costs
<1>6. \A c \in Calls : Due(c) \in Nat
  BY <1>3 DEF Due
<1>7. Room \in Nat /\ Loose \in Nat /\ Full \in Nat
  BY <1>4, <1>5 DEF Room, Loose, Full
<1>8. Room <= Full /\ Loose <= Full
  BY <1>4, <1>5, TimesMore DEF Room, Loose, Full
<1> QED
  BY <1>6, <1>7, <1>8

\* The calls that wait to be recorded were all checked, but the scores.
LEMMA DueWasChecked ==
    ASSUME BudgetAssumption
    PROVE  Due("odds") + Due("player_props") <= Room
<1> DEFINE O == Recording("odds")
           P == Recording("player_props")
<1>1. O \in SUBSET Threads /\ P \in SUBSET Threads /\ O \cap P = {} /\ O \cup P \in SUBSET Checked
  BY DEF Recording, Checked
<1>2. Checked \in SUBSET Threads
  BY DEF Checked
<1>3. /\ IsFiniteSet(O) /\ IsFiniteSet(P) /\ IsFiniteSet(Checked)
      /\ Cardinality(O) \in Nat /\ Cardinality(P) \in Nat /\ Cardinality(Checked) \in Nat
  BY <1>1, <1>2, Counts
<1>4. Cardinality(O \cup P) = Cardinality(O) + Cardinality(P)
  <2>1. Cardinality(O \cup P) = Cardinality(O) + Cardinality(P) - Cardinality(O \cap P)
    BY <1>3, FS_Union, Zenon
  <2>2. O \cap P = {} /\ Cardinality({}) = 0
    BY <1>1, FS_EmptySet
  <2>3. Cardinality(O \cap P) = 0
    BY <2>2, Zenon
  <2> HIDE DEF O, P
  <2> QED
    BY <1>3, <2>1, <2>3
<1>5. Cardinality(O \cup P) <= Cardinality(Checked)
  BY <1>1, <1>3, FS_Subset
<1>6. /\ MaxCost \in Nat /\ OddsCost \in Nat /\ PropCost \in Nat /\ OddsCost <= MaxCost /\ PropCost <= MaxCost
      /\ Due("odds") = OddsCost * Cardinality(O) /\ Due("player_props") = PropCost * Cardinality(P)
      /\ Room = MaxCost * Cardinality(Checked)
  BY Costs DEF Due, Room
<1> DEFINE o == Cardinality(O)
           p == Cardinality(P)
           n == Cardinality(Checked)
<1>7. o \in Nat /\ p \in Nat /\ n \in Nat /\ o + p <= n
  BY <1>3, <1>4, <1>5
<1>8. Due("odds") = OddsCost * o /\ Due("player_props") = PropCost * p /\ Room = MaxCost * n
  BY <1>6
<1> HIDE DEF O, P, o, p, n
<1>9. OddsCost * o <= MaxCost * o /\ PropCost * p <= MaxCost * p /\ MaxCost * (o + p) <= MaxCost * n
  <2>1. o \in Nat /\ p \in Nat /\ n \in Nat /\ o + p \in Nat /\ o <= o /\ p <= p /\ MaxCost <= MaxCost
    BY <1>6, <1>7
  <2> QED
    BY <1>6, <1>7, <2>1, TimesMore
<1>10. MaxCost * (o + p) = MaxCost * o + MaxCost * p
  BY <1>6, <1>7
<1>11. /\ OddsCost * o \in Nat /\ PropCost * p \in Nat /\ MaxCost * o \in Nat /\ MaxCost * p \in Nat
       /\ MaxCost * n \in Nat
  BY <1>6, <1>7
<1> QED
  BY <1>8, <1>9, <1>10, <1>11

\* What a step of run t, from job[t] to j, changes in the credits under way.
LEMMA CreditsStep ==
    ASSUME BudgetAssumption, Typed, NEW t \in Threads, NEW j \in Jobs, job' = [job EXCEPT ![t] = j]
    PROVE  /\ \A c \in Calls :
                 Due(c)' = Due(c) - Credit(job[t].pc = "record" /\ job[t].call = c, Cost(c))
                                  + Credit(j.pc = "record" /\ j.call = c, Cost(c))
           /\ Room' = Room - Credit(job[t].pc \in {"call", "record"} /\ job[t].call # "scores", MaxCost)
                           + Credit(j.pc \in {"call", "record"} /\ j.call # "scores", MaxCost)
           /\ Loose' = Loose - Credit(job[t].pc = "call" /\ job[t].call \in {"odds", "player_props"}, MaxCost)
                             + Credit(j.pc = "call" /\ j.call \in {"odds", "player_props"}, MaxCost)
<1>1. /\ \A c \in Calls : Recording(c) \in SUBSET Threads
      /\ Checked \in SUBSET Threads /\ Costly \in SUBSET Threads
  BY DEF Recording, Checked, Costly
<1>2. /\ \A c \in Calls : Cardinality(Recording(c)) \in Nat /\ Cost(c) \in Nat
      /\ Cardinality(Checked) \in Nat /\ Cardinality(Costly) \in Nat /\ MaxCost \in Nat
  BY <1>1, Counts, Costs DEF Calls
<1>3. ASSUME NEW c \in Calls
      PROVE  Due(c)' = Due(c) - Credit(job[t].pc = "record" /\ job[t].call = c, Cost(c))
                              + Credit(j.pc = "record" /\ j.call = c, Cost(c))
  <2> DEFINE a == job[t].pc = "record" /\ job[t].call = c
             b == j.pc = "record" /\ j.call = c
  <2>1. Cardinality(Recording(c)') = Cardinality(Recording(c)) - One(a) + One(b)
    BY CountsStep
  <2>2. Due(c)' = Cost(c) * Cardinality(Recording(c)') /\ Due(c) = Cost(c) * Cardinality(Recording(c))
    BY DEF Due
  <2>3. a \in BOOLEAN /\ b \in BOOLEAN
    OBVIOUS
  <2> HIDE DEF a, b
  <2>4. Cost(c) * (Cardinality(Recording(c)) - One(a) + One(b))
            = Cost(c) * Cardinality(Recording(c)) - Credit(a, Cost(c)) + Credit(b, Cost(c))
    BY <1>2, <2>3, Times
  <2>5. Due(c)' = Due(c) - Credit(a, Cost(c)) + Credit(b, Cost(c))
    BY <2>1, <2>2, <2>4, Zenon
  <2> QED
    BY <2>5 DEF a, b
<1>4. Room' = Room - Credit(job[t].pc \in {"call", "record"} /\ job[t].call # "scores", MaxCost)
                   + Credit(j.pc \in {"call", "record"} /\ j.call # "scores", MaxCost)
  <2> DEFINE a == job[t].pc \in {"call", "record"} /\ job[t].call # "scores"
             b == j.pc \in {"call", "record"} /\ j.call # "scores"
  <2>1. Cardinality(Checked') = Cardinality(Checked) - One(a) + One(b)
    BY CountsStep
  <2>2. Room' = MaxCost * Cardinality(Checked') /\ Room = MaxCost * Cardinality(Checked)
    BY DEF Room
  <2>3. a \in BOOLEAN /\ b \in BOOLEAN
    OBVIOUS
  <2> HIDE DEF a, b
  <2>4. MaxCost * (Cardinality(Checked) - One(a) + One(b))
            = MaxCost * Cardinality(Checked) - Credit(a, MaxCost) + Credit(b, MaxCost)
    BY <1>2, <2>3, Times
  <2>5. Room' = Room - Credit(a, MaxCost) + Credit(b, MaxCost)
    BY <2>1, <2>2, <2>4, Zenon
  <2> QED
    BY <2>5 DEF a, b
<1>5. Loose' = Loose - Credit(job[t].pc = "call" /\ job[t].call \in {"odds", "player_props"}, MaxCost)
                     + Credit(j.pc = "call" /\ j.call \in {"odds", "player_props"}, MaxCost)
  <2> DEFINE a == job[t].pc = "call" /\ job[t].call \in {"odds", "player_props"}
             b == j.pc = "call" /\ j.call \in {"odds", "player_props"}
  <2>1. Cardinality(Costly') = Cardinality(Costly) - One(a) + One(b)
    BY CountsStep
  <2>2. Loose' = MaxCost * Cardinality(Costly') /\ Loose = MaxCost * Cardinality(Costly)
    BY DEF Loose
  <2>3. a \in BOOLEAN /\ b \in BOOLEAN
    OBVIOUS
  <2> HIDE DEF a, b
  <2>4. MaxCost * (Cardinality(Costly) - One(a) + One(b))
            = MaxCost * Cardinality(Costly) - Credit(a, MaxCost) + Credit(b, MaxCost)
    BY <1>2, <2>3, Times
  <2>5. Loose' = Loose - Credit(a, MaxCost) + Credit(b, MaxCost)
    BY <2>1, <2>2, <2>4, Zenon
  <2> QED
    BY <2>5 DEF a, b
<1> QED
  BY <1>3, <1>4, <1>5

-----------------------------------------------------------------------------
(* The invariants *)

\* The API's bill is what api_usage has, what it never learns of, and what waits.
Bill == paid = monthly + unrecorded + Due("odds") + Due("player_props") + Due("scores")

\* Beside scores that are recorded, the month and one call of each run that has
\* checked stay within the last credit of the limit and one call of every run.
Month ==
    /\ Due("scores") <= unchecked
    /\ monthly - (unchecked - Due("scores")) + Room <= MonthlyLimit - 1 + Full

\* Once the reserve is closed no run starts to pay that had not checked before.
Closing ==
    /\ ReserveClosed => deep + Loose <= Full
    /\ ~ReserveClosed => deep = 0

BudgetInv == Typed /\ Bill /\ Month /\ Closing

LEMMA BudgetInit ==
    ASSUME BudgetAssumption, Init
    PROVE  BudgetInv
<1>1. Typed
  <2>1. 0 \in 0 .. MaxSports /\ 0 \in 0 .. MaxEvents
    BY DEF BudgetAssumption
  <2>2. Idle \in Jobs
    BY <2>1 DEF Idle, Jobs, Calls
  <2> QED
    BY <2>2 DEF Init, Typed
<1>2. \A t \in Threads : job[t].pc = "idle"
  BY DEF Init, Idle
<1>3. (\A c \in Calls : Recording(c) = {}) /\ Checked = {} /\ Costly = {}
  BY <1>2 DEF Recording, Checked, Costly
<1>4. (\A c \in Calls : Due(c) = 0) /\ Room = 0 /\ Loose = 0
  <2>1. /\ \A c \in Calls : Cardinality(Recording(c)) = 0 /\ Cost(c) \in Nat
        /\ Cardinality(Checked) = 0 /\ Cardinality(Costly) = 0 /\ MaxCost \in Nat
    BY <1>3, FS_EmptySet, Costs DEF Calls
  <2> QED
    BY <2>1 DEF Due, Room, Loose
<1>5. Full \in Nat /\ MonthlyLimit \in Nat /\ MonthlyLimit >= 1
  BY Amounts DEF BudgetAssumption
<1> QED
  BY <1>1, <1>4, <1>5 DEF Init, BudgetInv, Bill, Month, Closing, Calls

\* The facts of a state that every step's arithmetic starts from.
LEMMA BudgetFacts ==
    ASSUME BudgetAssumption, BudgetInv
    PROVE  /\ monthly \in Nat /\ daily \in Nat /\ paid \in Nat /\ unchecked \in Nat /\ unrecorded \in Int
           /\ deep \in Nat
           /\ Due("odds") \in Nat /\ Due("player_props") \in Nat /\ Due("scores") \in Nat
           /\ Room \in Nat /\ Loose \in Nat /\ Full \in Nat /\ Room <= Full /\ Loose <= Full
           /\ MonthlyLimit \in Nat /\ DailyTarget \in Nat /\ Reserve \in Nat
  BY Amounts DEF BudgetInv, Typed, BudgetAssumption, Calls

\* And those of the state after a step of run t, from job[t] to j.
CreditsMove(t, j) ==
    /\ job[t] \in Jobs /\ job' \in [Threads -> Jobs]
    /\ Due("odds")' = Due("odds") - Credit(job[t].pc = "record" /\ job[t].call = "odds", OddsCost)
                                  + Credit(j.pc = "record" /\ j.call = "odds", OddsCost)
    /\ Due("player_props")' =
          Due("player_props") - Credit(job[t].pc = "record" /\ job[t].call = "player_props", PropCost)
                              + Credit(j.pc = "record" /\ j.call = "player_props", PropCost)
    /\ Due("scores")' =
          Due("scores") - Credit(job[t].pc = "record" /\ job[t].call = "scores", ScoresCost)
                        + Credit(j.pc = "record" /\ j.call = "scores", ScoresCost)
    /\ Room' = Room - Credit(job[t].pc \in {"call", "record"} /\ job[t].call # "scores", MaxCost)
                    + Credit(j.pc \in {"call", "record"} /\ j.call # "scores", MaxCost)
    /\ Loose' = Loose - Credit(job[t].pc = "call" /\ job[t].call \in {"odds", "player_props"}, MaxCost)
                      + Credit(j.pc = "call" /\ j.call \in {"odds", "player_props"}, MaxCost)
    /\ Full' = Full /\ Room' <= Full /\ Loose' <= Full

LEMMA StepFacts ==
    ASSUME BudgetAssumption, BudgetInv, NEW t \in Threads, NEW j \in Jobs, job' = [job EXCEPT ![t] = j]
    PROVE  CreditsMove(t, j)
<1>1. Typed /\ job \in [Threads -> Jobs]
  BY DEF BudgetInv, Typed
<1>2. Full' = Full
  BY DEF Full
<1>3. Room' <= Full' /\ Loose' <= Full'
  <2>1. Checked' \in SUBSET Threads /\ Costly' \in SUBSET Threads
    BY DEF Checked, Costly
  <2>2. /\ Cardinality(Checked') \in Nat /\ Cardinality(Costly') \in Nat /\ Cardinality(Threads) \in Nat
        /\ Cardinality(Checked') <= Cardinality(Threads) /\ Cardinality(Costly') <= Cardinality(Threads)
    BY <2>1, Counts
  <2>3. MaxCost \in Nat /\ MaxCost <= MaxCost
    BY Costs
  <2> QED
    BY <2>2, <2>3, TimesMore DEF Room, Loose, Full
<1>4. /\ Cost("odds") = OddsCost /\ Cost("player_props") = PropCost /\ Cost("scores") = ScoresCost
      /\ {"odds", "player_props", "scores"} \subseteq Calls
  BY Costs DEF Calls
<1>5. \A c \in Calls :
          Due(c)' = Due(c) - Credit(job[t].pc = "record" /\ job[t].call = c, Cost(c))
                           + Credit(j.pc = "record" /\ j.call = c, Cost(c))
  BY <1>1, CreditsStep
<1>6. Due("odds")' = Due("odds") - Credit(job[t].pc = "record" /\ job[t].call = "odds", OddsCost)
                                 + Credit(j.pc = "record" /\ j.call = "odds", OddsCost)
  BY <1>4, <1>5, Zenon
<1>7. Due("player_props")' =
          Due("player_props") - Credit(job[t].pc = "record" /\ job[t].call = "player_props", PropCost)
                              + Credit(j.pc = "record" /\ j.call = "player_props", PropCost)
  BY <1>4, <1>5, Zenon
<1>8. Due("scores")' =
          Due("scores") - Credit(job[t].pc = "record" /\ job[t].call = "scores", ScoresCost)
                        + Credit(j.pc = "record" /\ j.call = "scores", ScoresCost)
  BY <1>4, <1>5, Zenon
<1>9. job[t] \in Jobs /\ job' \in [Threads -> Jobs]
  BY <1>1
<1>10. Room' <= Full /\ Loose' <= Full
  BY <1>2, <1>3, Zenon
<1>11. /\ Room' = Room - Credit(job[t].pc \in {"call", "record"} /\ job[t].call # "scores", MaxCost)
                       + Credit(j.pc \in {"call", "record"} /\ j.call # "scores", MaxCost)
       /\ Loose' = Loose - Credit(job[t].pc = "call" /\ job[t].call \in {"odds", "player_props"}, MaxCost)
                         + Credit(j.pc = "call" /\ j.call \in {"odds", "player_props"}, MaxCost)
  BY <1>1, CreditsStep
<1> QED
  BY <1>2, <1>6, <1>7, <1>8, <1>9, <1>10, <1>11, Zenon DEF CreditsMove

\* A run that goes on without paying: to start, to the next sport, to the end.  Only
\* what had been checked and is not pursued leaves the credits under way.
LEMMA Moves ==
    ASSUME BudgetAssumption, BudgetInv, NEW t \in Threads, NEW j \in Jobs, job' = [job EXCEPT ![t] = j],
           job[t].pc # "record", j.pc # "record",
           j.pc = "call" => j.call = "scores",
           monthly' = monthly, daily' = daily, paid' = paid, unchecked' = unchecked,
           unrecorded' = unrecorded, deep' = deep, runs' \in Nat
    PROVE  BudgetInv'
<1>0. CreditsMove(t, j)
  BY StepFacts
<1>1. Due("odds")' = Due("odds") /\ Due("player_props")' = Due("player_props") /\ Due("scores")' = Due("scores")
  BY <1>0, BudgetFacts DEF CreditsMove, Credit
<1>2. Room' <= Room /\ Loose' <= Loose
  BY <1>0, BudgetFacts, Costs DEF CreditsMove, Credit
<1>3. Typed' /\ Full' = Full /\ Room' \in Int /\ Loose' \in Int
  BY <1>0, BudgetFacts, Costs DEF Typed, CreditsMove, Credit
<1>4. Bill'
  BY <1>1 DEF BudgetInv, Bill
<1>5. Month'
  BY <1>1, <1>2, <1>3, BudgetFacts DEF BudgetInv, Month
<1>6. Closing'
  BY <1>2, <1>3, BudgetFacts DEF BudgetInv, Closing, ReserveClosed
<1> QED
  BY <1>3, <1>4, <1>5, <1>6 DEF BudgetInv

LEMMA StartKeeps ==
    ASSUME BudgetAssumption, BudgetInv, NEW t \in Threads, NEW j \in Jobs, Start(t, j),
           j.pc \in {"check", "call"}, j.pc = "call" => j.call = "scores"
    PROVE  BudgetInv'
<1>1. job[t].pc # "record" /\ j.pc # "record" /\ runs' \in Nat /\ job' = [job EXCEPT ![t] = j]
  BY DEF Start, BudgetInv, Typed
<1> QED
  BY <1>1, Moves DEF Start

LEMMA StartsKeep ==
    ASSUME BudgetAssumption, BudgetInv, NEW t \in Threads,
           refresh_prices(t) \/ trigger_pipeline(t) \/ fetch_odds_now(t) \/ finalize_combat(t)
    PROVE  BudgetInv'
<1>1. 0 \in 0 .. MaxSports /\ 1 \in 0 .. MaxSports /\ 0 \in 0 .. MaxEvents
  BY DEF BudgetAssumption
<1>2. CASE refresh_prices(t)
  <2>1. PICK n \in 1 .. MaxSports : Start(t, [Idle EXCEPT !.pc = "check", !.left = n])
    BY <1>2 DEF refresh_prices
  <2>2. n \in 0 .. MaxSports
    BY DEF BudgetAssumption
  <2> DEFINE j == [Idle EXCEPT !.pc = "check", !.left = n]
  <2>3. j \in Jobs /\ j.pc = "check"
    BY <1>1, <2>2 DEF Idle, Jobs, Calls
  <2> QED
    BY <2>1, <2>3, StartKeeps
<1>3. CASE trigger_pipeline(t)
  <2>1. PICK n \in 1 .. MaxSports : Start(t, [Idle EXCEPT !.pc = "check", !.left = n, !.props = n])
    BY <1>3 DEF trigger_pipeline
  <2>2. n \in 0 .. MaxSports
    BY DEF BudgetAssumption
  <2> DEFINE j == [Idle EXCEPT !.pc = "check", !.left = n, !.props = n]
  <2>3. j \in Jobs /\ j.pc = "check"
    BY <1>1, <2>2 DEF Idle, Jobs, Calls
  <2> QED
    BY <2>1, <2>3, StartKeeps
<1>4. CASE fetch_odds_now(t)
  <2>1. PICK n \in 1 .. MaxSports, p \in {0, 1} :
            Start(t, [Idle EXCEPT !.pc = "check", !.left = n, !.props = n * p])
    BY <1>4 DEF fetch_odds_now
  <2>2. n \in 0 .. MaxSports /\ n * p \in 0 .. MaxSports
    BY DEF BudgetAssumption
  <2> DEFINE j == [Idle EXCEPT !.pc = "check", !.left = n, !.props = n * p]
  <2>3. j \in Jobs /\ j.pc = "check"
    BY <1>1, <2>2 DEF Idle, Jobs, Calls
  <2> QED
    BY <2>1, <2>3, StartKeeps
<1>5. CASE finalize_combat(t)
  <2> DEFINE j == [Idle EXCEPT !.pc = "call", !.call = "scores", !.left = 1]
  <2>1. Start(t, j)
    BY <1>5 DEF finalize_combat
  <2>2. j \in Jobs /\ j.pc = "call" /\ j.call = "scores"
    BY <1>1 DEF Idle, Jobs, Calls
  <2> QED
    BY <2>1, <2>2, StartKeeps
<1> QED
  BY <1>2, <1>3, <1>4, <1>5

\* A check lets a run pay only while a credit of the month is left, and outside a
\* closed reserve: every run might then have checked.
LEMMA CheckKeeps ==
    ASSUME BudgetAssumption, BudgetInv, NEW t \in Threads, Check(t)
    PROVE  BudgetInv'
<1> DEFINE i == job[t]
           stays == /\ monthly' = monthly /\ daily' = daily /\ paid' = paid /\ unchecked' = unchecked
                    /\ unrecorded' = unrecorded /\ deep' = deep /\ runs' = runs
<1>1. i \in Jobs /\ i.pc = "check" /\ stays /\ runs \in Nat /\ 0 \in 0 .. MaxSports /\ 1 \in 0 .. MaxSports
      /\ 0 \in 0 .. MaxEvents
  BY DEF Check, BudgetInv, Typed, BudgetAssumption
<1>2. ASSUME NEW j \in Jobs, j.pc \in {"idle", "check"}, job' = [job EXCEPT ![t] = j]
      PROVE  BudgetInv'
  BY <1>1, <1>2, Moves
<1>3. Idle \in Jobs /\ Idle.pc = "idle"
  BY <1>1 DEF Idle, Jobs, Calls
<1>4. CASE BudgetStatus = "monthly_exhausted" /\ i.call # "player_props"
  <2>1. job' = [job EXCEPT ![t] = Idle]
    BY <1>4 DEF Check
  <2> QED
    BY <1>2, <1>3, <2>1
<1>5. CASE BudgetStatus = "reserve_exhausted" /\ i.call = "odds"
  <2> DEFINE k == [i EXCEPT !.left = 1]
  <2>1. k \in Jobs
    BY <1>1 DEF Jobs
  <2>2. job' = [job EXCEPT ![t] = NextSport(k)]
    BY <1>5 DEF Check
  <2> HIDE DEF k
  <2> QED
    BY <1>2, <2>1, <2>2, NextSportIs
<1>6. CASE BudgetStatus # "ok" /\ i.call = "player_props"
  <2>1. job' = [job EXCEPT ![t] = NextSport(i)]
    BY <1>6 DEF Check
  <2> QED
    BY <1>1, <1>2, <2>1, NextSportIs
<1>7. CASE /\ ~(BudgetStatus = "monthly_exhausted" /\ i.call # "player_props")
           /\ ~(BudgetStatus = "reserve_exhausted" /\ i.call = "odds")
           /\ ~(BudgetStatus # "ok" /\ i.call = "player_props")
  <2> DEFINE j == [i EXCEPT !.pc = "call"]
  <2>1. job' = [job EXCEPT ![t] = j]
    BY <1>7 DEF Check
  <2>2. j \in Jobs /\ j.pc = "call" /\ j.call = i.call
    BY <1>1 DEF Jobs
  <2>3. monthly < MonthlyLimit
    BY <1>7, BudgetFacts DEF BudgetStatus
  <2>4. ReserveClosed => i.call \notin {"odds", "player_props"}
    BY <1>7, <2>3, BudgetFacts DEF BudgetStatus, ReserveClosed
  <2> HIDE DEF j, i
  <2>5. i = job[t]
    BY DEF i
  <2>0. CreditsMove(t, j)
    BY <2>1, <2>2, StepFacts
  <2>6. Due("odds")' = Due("odds") /\ Due("player_props")' = Due("player_props") /\ Due("scores")' = Due("scores")
    BY <2>0, <1>1, <2>1, <2>2, <2>5, BudgetFacts DEF CreditsMove, Credit
  <2>7. Typed' /\ Full' = Full /\ Room' <= Full /\ Loose' <= Full /\ Room' \in Int /\ Loose' \in Int
    BY <2>0, <1>1, <2>1, <2>2, <2>5, BudgetFacts, Costs DEF CreditsMove, Typed, Credit
  <2>8. ReserveClosed => Loose' = Loose
    BY <2>0, <1>1, <2>1, <2>2, <2>4, <2>5, BudgetFacts, Costs DEF CreditsMove, Credit
  <2>9. Bill'
    BY <1>1, <2>6 DEF BudgetInv, Bill
  <2>10. Month'
    BY <1>1, <2>3, <2>6, <2>7, BudgetFacts DEF BudgetInv, Month
  <2>11. Closing'
    BY <1>1, <2>7, <2>8, BudgetFacts DEF BudgetInv, Closing, ReserveClosed
  <2> QED
    BY <2>7, <2>9, <2>10, <2>11 DEF BudgetInv
<1> QED
  BY <1>4, <1>5, <1>6, <1>7

\* A charged call waits to be recorded; with the reserve closed it was one that
\* had been checked.
LEMMA CallKeeps ==
    ASSUME BudgetAssumption, BudgetInv, NEW t \in Threads, Call(t)
    PROVE  BudgetInv'
<1> DEFINE i == job[t]
           j == [i EXCEPT !.pc = "record"]
<1>1. i \in Jobs /\ i.pc = "call" /\ monthly' = monthly /\ daily' = daily /\ unrecorded' = unrecorded
      /\ runs' = runs /\ runs \in Nat /\ job \in [Threads -> Jobs]
  BY DEF Call, BudgetInv, Typed
<1>2. CASE /\ paid' = paid + Cost(i.call)
           /\ unchecked' = unchecked + (IF i.call = "scores" THEN Cost(i.call) ELSE 0)
           /\ deep' = IF ReserveClosed /\ i.call # "scores" THEN deep + Cost(i.call) ELSE deep
           /\ job' = [job EXCEPT ![t].pc = "record"]
  <2>1. j \in Jobs /\ j.pc = "record" /\ j.call = i.call /\ i.call \in Calls
    BY <1>1 DEF Jobs
  <2>2. job' = [job EXCEPT ![t] = j]
    BY <1>2
  <2>3. i = job[t]
    OBVIOUS
  <2> HIDE DEF i, j
  <2>4. /\ i.call = "odds" => Cost(i.call) = OddsCost /\ Cost(i.call) <= MaxCost
        /\ i.call = "player_props" => Cost(i.call) = PropCost /\ Cost(i.call) <= MaxCost
        /\ i.call = "scores" => Cost(i.call) = ScoresCost
        /\ i.call = "events" => Cost(i.call) = 0
        /\ Cost(i.call) \in Nat /\ MaxCost \in Nat
    BY <2>1, Costs DEF Calls
  <2>0. CreditsMove(t, j)
    BY <2>1, <2>2, StepFacts
  <2>5. /\ Due("odds")' = Due("odds") + (IF i.call = "odds" THEN Cost(i.call) ELSE 0)
        /\ Due("player_props")' = Due("player_props") + (IF i.call = "player_props" THEN Cost(i.call) ELSE 0)
        /\ Due("scores")' = Due("scores") + (IF i.call = "scores" THEN Cost(i.call) ELSE 0)
        /\ Room' = Room
        /\ Loose' = Loose - (IF i.call \in {"odds", "player_props"} THEN MaxCost ELSE 0)
        /\ Full' = Full
    BY <2>0, <1>1, <2>1, <2>2, <2>3, <2>4, BudgetFacts DEF CreditsMove, Credit
  <2>6. Typed'
    BY <2>0, <1>1, <1>2, <2>1, <2>2, <2>3, <2>4, BudgetFacts DEF CreditsMove, Typed
  <2>7. Bill'
    BY <1>1, <1>2, <2>1, <2>4, <2>5, BudgetFacts DEF BudgetInv, Bill, Calls
  <2>8. Month'
    BY <1>1, <1>2, <2>1, <2>4, <2>5, BudgetFacts DEF BudgetInv, Month, Calls
  <2>9. Closing'
    BY <1>1, <1>2, <2>1, <2>4, <2>5, BudgetFacts DEF BudgetInv, Closing, ReserveClosed, Calls
  <2> QED
    BY <2>6, <2>7, <2>8, <2>9 DEF BudgetInv
<1>3. CASE job' = [job EXCEPT ![t] = NextSport(i)] /\ UNCHANGED <<paid, unchecked, deep>>
  <2>1. NextSport(i) \in Jobs /\ NextSport(i).pc \in {"idle", "check"}
    BY <1>1, NextSportIs
  <2> QED
    BY <1>1, <1>3, <2>1, Moves
<1> QED
  BY <1>2, <1>3 DEF Call

\* A record moves what a call cost to the month, or loses it; the run then has to
\* check again before it pays.
LEMMA RecordKeeps ==
    ASSUME BudgetAssumption, BudgetInv, NEW t \in Threads, Record(t)
    PROVE  BudgetInv'
<1> DEFINE i == job[t]
<1>1. i \in Jobs /\ i.pc = "record" /\ i.call \in Calls /\ paid' = paid /\ unchecked' = unchecked
      /\ deep' = deep /\ runs' = runs /\ runs \in Nat
  BY DEF Record, BudgetInv, Typed, Jobs
<1>2. /\ i.call = "odds" => Cost(i.call) = OddsCost /\ Cost(i.call) <= MaxCost
      /\ i.call = "player_props" => Cost(i.call) = PropCost /\ Cost(i.call) <= MaxCost
      /\ i.call = "scores" => Cost(i.call) = ScoresCost /\ Cost(i.call) >= 1
      /\ i.call = "events" => Cost(i.call) = 0
      /\ Cost(i.call) \in Nat /\ MaxCost \in Nat /\ MaxCost >= 1
  BY <1>1, Costs DEF Calls
<1>3. ASSUME NEW j \in Jobs, j.pc \in {"idle", "check"}, job' = [job EXCEPT ![t] = j],
             NEW credits \in Nat, credits \in {0, 1, Cost(i.call)},
             monthly' = monthly + credits, daily' = daily + credits,
             unrecorded' = unrecorded + (Cost(i.call) - credits)
      PROVE  BudgetInv'
  <2>1. i = job[t]
    OBVIOUS
  <2> HIDE DEF i
  <2>0. CreditsMove(t, j)
    BY <1>3, StepFacts
  <2>2. /\ Due("odds")' = Due("odds") - (IF i.call = "odds" THEN Cost(i.call) ELSE 0)
        /\ Due("player_props")' = Due("player_props") - (IF i.call = "player_props" THEN Cost(i.call) ELSE 0)
        /\ Due("scores")' = Due("scores") - (IF i.call = "scores" THEN Cost(i.call) ELSE 0)
        /\ Room' = Room - (IF i.call # "scores" THEN MaxCost ELSE 0)
        /\ Loose' = Loose
        /\ Full' = Full
    BY <2>0, <1>1, <1>2, <1>3, <2>1, BudgetFacts DEF CreditsMove, Credit
  <2>3. Typed'
    BY <2>0, <1>1, <1>2, <1>3, <2>1, BudgetFacts DEF CreditsMove, Typed
  <2>4. Bill'
    BY <1>1, <1>2, <1>3, <2>2, BudgetFacts DEF BudgetInv, Bill, Calls
  <2>5. Month'
    <3>1. CASE i.call = "scores"
      BY <1>1, <1>2, <1>3, <2>2, <3>1, BudgetFacts DEF BudgetInv, Month
    <3>2. CASE i.call # "scores"
      <4>1. credits <= MaxCost
        BY <1>1, <1>2, <1>3, <3>2 DEF Calls
      <4> QED
        BY <1>1, <1>2, <1>3, <2>2, <3>2, <4>1, BudgetFacts DEF BudgetInv, Month
    <3> QED
      BY <3>1, <3>2
  <2>6. Closing'
    BY <1>1, <1>3, <2>2, BudgetFacts DEF BudgetInv, Closing, ReserveClosed
  <2> QED
    BY <2>3, <2>4, <2>5, <2>6 DEF BudgetInv
<1>4. CASE \E credits \in {Cost(i.call), 1}, listed \in 0 .. MaxEvents :
               /\ monthly' = monthly + credits /\ daily' = daily + credits
               /\ unrecorded' = unrecorded + (Cost(i.call) - credits)
               /\ job' = [job EXCEPT ![t] = NextCall(i, listed)]
  <2>1. PICK credits \in {Cost(i.call), 1}, listed \in 0 .. MaxEvents :
               /\ monthly' = monthly + credits /\ daily' = daily + credits
               /\ unrecorded' = unrecorded + (Cost(i.call) - credits)
               /\ job' = [job EXCEPT ![t] = NextCall(i, listed)]
    BY <1>4
  <2>2. NextCall(i, listed) \in Jobs /\ NextCall(i, listed).pc \in {"idle", "check"}
    BY <1>1, NextCallIs
  <2>3. credits \in Nat /\ credits \in {0, 1, Cost(i.call)}
    BY <1>2
  <2> HIDE DEF i
  <2> QED
    BY <1>3, <2>1, <2>2, <2>3
<1>5. CASE /\ unrecorded' = unrecorded + Cost(i.call)
           /\ job' = [job EXCEPT ![t] = NextSport(i)]
           /\ UNCHANGED <<monthly, daily>>
  <2>1. NextSport(i) \in Jobs /\ NextSport(i).pc \in {"idle", "check"}
    BY <1>1, NextSportIs
  <2> HIDE DEF i
  <2>2. monthly' = monthly + 0 /\ daily' = daily + 0 /\ unrecorded' = unrecorded + (Cost(i.call) - 0)
    BY <1>2, <1>5, BudgetFacts
  <2>3. 0 \in Nat /\ 0 \in {0, 1, Cost(i.call)}
    OBVIOUS
  <2> QED
    BY <1>3, <1>5, <2>1, <2>2, <2>3
<1> QED
  BY <1>4, <1>5 DEF Record

LEMMA NoStepKeeps ==
    ASSUME BudgetAssumption, BudgetInv, job' = job, monthly' = monthly, paid' = paid,
           unchecked' = unchecked, unrecorded' = unrecorded, runs' = runs,
           \/ daily' = daily /\ deep' = deep
           \/ daily' = 0 /\ deep' = 0
    PROVE  BudgetInv'
<1>1. /\ \A c \in Calls : Recording(c)' = Recording(c)
      /\ Checked' = Checked /\ Costly' = Costly
  BY DEF Recording, Checked, Costly
<1>2. /\ \A c \in Calls : Due(c)' = Due(c)
      /\ Room' = Room /\ Loose' = Loose /\ Full' = Full
  BY <1>1 DEF Due, Room, Loose, Full
<1>3. Due("odds")' = Due("odds") /\ Due("player_props")' = Due("player_props") /\ Due("scores")' = Due("scores")
  BY <1>2 DEF Calls
<1>4. Typed'
  BY DEF BudgetInv, Typed
<1>5. Bill' /\ Month'
  BY <1>2, <1>3 DEF BudgetInv, Bill, Month
<1>6. Closing'
  BY <1>2, BudgetFacts DEF BudgetInv, Closing, ReserveClosed
<1> QED
  BY <1>4, <1>5, <1>6 DEF BudgetInv

LEMMA BudgetStep ==
    ASSUME BudgetAssumption, BudgetInv, [Next]_vars
    PROVE  BudgetInv'
<1>1. CASE Next
  <2>1. CASE \E t \in Threads :
                 refresh_prices(t) \/ trigger_pipeline(t) \/ fetch_odds_now(t) \/ finalize_combat(t)
    BY <2>1, StartsKeep
  <2>2. CASE \E t \in Threads : Check(t)
    BY <2>2, CheckKeeps
  <2>3. CASE \E t \in Threads : Call(t)
    BY <2>3, CallKeeps
  <2>4. CASE \E t \in Threads : Record(t)
    BY <2>4, RecordKeeps
  <2>5. CASE NewDay
    BY <2>5, NoStepKeeps DEF NewDay
  <2> QED
    BY <1>1, <2>1, <2>2, <2>3, <2>4, <2>5 DEF Next
<1>2. CASE UNCHANGED vars
  BY <1>2, NoStepKeeps DEF vars
<1> QED
  BY <1>1, <1>2

LEMMA BudgetHolds ==
    ASSUME BudgetAssumption
    PROVE  Spec => []BudgetInv
<1>1. Init => BudgetInv
  BY BudgetInit
<1>2. BudgetInv /\ [Next]_vars => BudgetInv'
  BY BudgetStep
<1> QED
  BY <1>1, <1>2, PTL DEF Spec

-----------------------------------------------------------------------------
(* What follows *)

(* Any number of runs, of both processes, that check the budget before any   *)
(* of them has recorded its call overrun the month by one call each at most, *)
(* beside the scores, which nobody checks, and what the API's header or a    *)
(* failed record leaves out: check_budget and record_api_call of             *)
(* collectors/budget.py around an awaited call.                              *)
THEOREM MonthOverrunBounded ==
    ASSUME BudgetAssumption
    PROVE  Spec => []SpendBounded
<1>1. ASSUME BudgetInv
      PROVE  SpendBounded
  <2>1. Due("odds") + Due("player_props") <= Room
    BY DueWasChecked
  <2>2. Bill /\ Month
    BY <1>1 DEF BudgetInv
  <2>3. paid - unchecked - unrecorded <= MonthlyLimit - 1 + Full
    BY <1>1, <2>1, <2>2, BudgetFacts DEF Bill, Month
  <2> QED
    BY <2>3 DEF SpendBounded, Full
<1>2. BudgetInv => SpendBounded
  BY <1>1
<1> QED
  BY <1>2, BudgetHolds, PTL

(* Once the day's target is met inside the reserve, what the API still       *)
(* charges for checked calls that day is one call of each run at most: the   *)
(* one it had checked before the reserve closed (check_budget's             *)
(* reserve_exhausted).                                                       *)
THEOREM ReserveOverrunBounded ==
    ASSUME BudgetAssumption
    PROVE  Spec => []ReserveKept
<1>1. ASSUME BudgetInv
      PROVE  ReserveKept
  <2>1. deep <= Full
    BY <1>1, BudgetFacts DEF BudgetInv, Closing
  <2> QED
    BY <2>1 DEF ReserveKept, Full
<1>2. BudgetInv => ReserveKept
  BY <1>1
<1> QED
  BY <1>2, BudgetHolds, PTL

(* A run never asks for more sports or events than there are, and neither    *)
(* the month's credits nor the API's bill ever shrink below nothing.         *)
THEOREM BudgetTypeCorrect ==
    ASSUME BudgetAssumption
    PROVE  Spec => []TypeOK
<1>1. BudgetInv => TypeOK
  BY DEF BudgetInv, Typed, TypeOK, Jobs, Calls
<1> QED
  BY <1>1, BudgetHolds, PTL

-----------------------------------------------------------------------------
(* The schema's migrations, run by any number of processes at once, each of  *)
(* which may stop between any two statements.                                *)
CONSTANTS Processes, Behind, MaxCrashes
VARIABLES schema, doubled, allowed, process, crashes, cut
Updates == INSTANCE Migrations

Step(k) == Updates!MIGRATIONS[k]
Item(k, i) == Step(k).items[i]
FeedIndex == <<"index", "activity_feed", "uq_activity_feed_bet_key">>
Usage == <<"table", "api_usage", "all">>

LEMMA Places ==
    /\ Updates!Len(Updates!MIGRATIONS) = 30 /\ DOMAIN Updates!MIGRATIONS = 1 .. 30
BY DEF Updates!MIGRATIONS

InTable == {"column", "index", "backfill"}
Named == {"games", "player_stats", "picks", "pick_results", "pick_versions", "odds", "strategies",
          "emailed_picks", "user_profiles", "paper_picks", "activity_feed"}
Halves == {14, 19}
FirstHalves == {<<"column", "games", "odds_api_id">>, <<"column", "emailed_picks", "confidence">>}

\* What is so of the migrations at place k, as the source lists them.
Shape(k) ==
    /\ Step(k).looks \in {"legacy", "each", "first", "unique"}
    /\ Step(k).looks = "legacy" <=> k = 1
    /\ Step(k).looks = "first" <=> k \in Halves
    /\ Step(k).looks = "unique" <=> k = 17
    /\ DOMAIN Step(k).items \subseteq Nat
    /\ k = 1 => DOMAIN Step(k).items = {1} /\ Item(k, 1) = <<"drop", "api_usage", "all">>
    /\ k = 17 => DOMAIN Step(k).items = {1} /\ Item(k, 1) = Updates!OddsIndex
    /\ k \in Halves => DOMAIN Step(k).items = {1, 2} /\ Item(k, 1) \in FirstHalves
    /\ k > 27 => Step(k).table \in {"strategies", "activity_feed"} /\ Step(k).looks = "each"
    /\ \A i \in DOMAIN Step(k).items :
           /\ k # 1 => Item(k, i)[1] \in InTable \cup {"table", "row"}
           /\ Item(k, i)[1] = "table" => Item(k, i) = Updates!Table(Item(k, i)[2])
           /\ Item(k, i)[1] # "table" /\ k # 1 => Item(k, i)[2] \in Named
           /\ k \notin Halves => Item(k, i) \notin FirstHalves
           /\ Step(k).table # "none" /\ k \in 2 .. 26 =>
                /\ Item(k, i)[1] \in InTable /\ Item(k, i)[2] = Step(k).table
                /\ Item(k, i) # FeedIndex

\* A migration of columns looks for each of them.
LEMMA ColumnsShape ==
    ASSUME NEW k \in 2 .. 26, k \notin {14, 17, 19}, NEW t, t \in Named, NEW cs, DOMAIN cs \subseteq Nat,
           \A i \in DOMAIN cs : <<"column", t, cs[i]>> \notin FirstHalves,
           Step(k) = Updates!AddColumns(t, cs)
    PROVE  Shape(k)
<1>1. /\ Step(k).table = t /\ Step(k).looks = "each" /\ DOMAIN Step(k).items = DOMAIN cs
      /\ \A i \in DOMAIN cs : Item(k, i) = <<"column", t, cs[i]>>
  BY DEF Updates!AddColumns, Updates!Adds, Updates!Column, Item
<1>2. \A i \in DOMAIN cs : Item(k, i)[1] = "column" /\ Item(k, i)[2] = t /\ Item(k, i) # FeedIndex
  BY <1>1 DEF FeedIndex
<1> HIDE DEF Step, Item
<1> QED
  BY <1>1, <1>2 DEF Shape, InTable, Halves, Named

LEMMA Shapes == \A k \in 1 .. 30 : Shape(k)
<1>1. Shape(1)
  BY DEF Shape, Item, Halves, FirstHalves, Named, InTable, FeedIndex, Updates!MIGRATIONS, Step, Updates!migrate_api_usage, Updates!Adds,
         Updates!Column, Updates!Table, Updates!Index, Updates!Row, Updates!Backfill, Updates!Drop,
         Updates!OddsIndex, Updates!migrate_odds_one_row_per_book, Updates!TableOrder
<1>2. Shape(2)
  <2>1. Step(2) = Updates!AddColumns("games", <<"start_time">>)
    BY DEF Updates!MIGRATIONS, Step, Updates!migrate_game_start_time
  <2> QED
    BY <2>1, ColumnsShape DEF FirstHalves, Named
<1>3. Shape(3)
  <2>1. Step(3) = Updates!AddColumns("player_stats", <<"receptions">>)
    BY DEF Updates!MIGRATIONS, Step, Updates!migrate_player_stat_receptions
  <2> QED
    BY <2>1, ColumnsShape DEF FirstHalves, Named
<1>4. Shape(4)
  BY DEF Shape, Item, Halves, FirstHalves, Named, InTable, FeedIndex, Updates!MIGRATIONS, Step, Updates!migrate_elo_history, Updates!Adds,
         Updates!Column, Updates!Table, Updates!Index, Updates!Row, Updates!Backfill, Updates!Drop,
         Updates!OddsIndex, Updates!migrate_odds_one_row_per_book, Updates!TableOrder
<1>5. Shape(5)
  BY DEF Shape, Item, Halves, FirstHalves, Named, InTable, FeedIndex, Updates!MIGRATIONS, Step, Updates!migrate_parlays, Updates!Adds,
         Updates!Column, Updates!Table, Updates!Index, Updates!Row, Updates!Backfill, Updates!Drop,
         Updates!OddsIndex, Updates!migrate_odds_one_row_per_book, Updates!TableOrder
<1>6. Shape(6)
  <2>1. Step(6) = Updates!AddColumns("pick_results", <<"line_at_close">>)
    BY DEF Updates!MIGRATIONS, Step, Updates!migrate_pick_result_line_at_close
  <2> QED
    BY <2>1, ColumnsShape DEF FirstHalves, Named
<1>7. Shape(7)
  <2>1. Step(7) = Updates!AddColumns("picks", <<"model_prob">>)
    BY DEF Updates!MIGRATIONS, Step, Updates!migrate_pick_model_prob
  <2> QED
    BY <2>1, ColumnsShape DEF FirstHalves, Named
<1>8. Shape(8)
  <2>1. Step(8) = Updates!AddColumns("picks", <<"rationale_json">>)
    BY DEF Updates!MIGRATIONS, Step, Updates!migrate_pick_rationale
  <2> QED
    BY <2>1, ColumnsShape DEF FirstHalves, Named
<1>9. Shape(9)
  <2>1. Step(9) = Updates!AddColumns("picks", <<"prop_player", "prop_market">>)
    BY DEF Updates!MIGRATIONS, Step, Updates!migrate_pick_prop_fields
  <2> QED
    BY <2>1, ColumnsShape DEF FirstHalves, Named
<1>10. Shape(10)
  <2>1. Step(10) = Updates!AddColumns("games", <<"espn_id">>)
    BY DEF Updates!MIGRATIONS, Step, Updates!migrate_game_espn_id
  <2> QED
    BY <2>1, ColumnsShape DEF FirstHalves, Named
<1>11. Shape(11)
  <2>1. Step(11) = Updates!AddColumns("picks", <<"odds_reconstructed">>)
    BY DEF Updates!MIGRATIONS, Step, Updates!migrate_pick_odds_reconstructed
  <2> QED
    BY <2>1, ColumnsShape DEF FirstHalves, Named
<1>12. Shape(12)
  <2>1. Step(12) = Updates!AddColumns("games", <<"neutral_site">>)
    BY DEF Updates!MIGRATIONS, Step, Updates!migrate_game_neutral_site
  <2> QED
    BY <2>1, ColumnsShape DEF FirstHalves, Named
<1>13. Shape(13)
  <2>1. Step(13) = Updates!AddColumns("games", <<"season_type">>)
    BY DEF Updates!MIGRATIONS, Step, Updates!migrate_game_season_type
  <2> QED
    BY <2>1, ColumnsShape DEF FirstHalves, Named
<1>14. Shape(14)
  BY DEF Shape, Item, Halves, FirstHalves, Named, InTable, FeedIndex, Updates!MIGRATIONS, Step, Updates!migrate_game_odds_api_id, Updates!Adds,
         Updates!Column, Updates!Table, Updates!Index, Updates!Row, Updates!Backfill, Updates!Drop,
         Updates!OddsIndex, Updates!migrate_odds_one_row_per_book, Updates!TableOrder
<1>15. Shape(15)
  <2>1. Step(15) = Updates!AddColumns("picks", <<"suggested_unit_size">>)
    BY DEF Updates!MIGRATIONS, Step, Updates!migrate_pick_suggested_unit_size
  <2> QED
    BY <2>1, ColumnsShape DEF FirstHalves, Named
<1>16. Shape(16)
  <2>1. Step(16) = Updates!AddColumns("odds", <<"spread_home_price", "spread_away_price", "over_price", "under_price">>)
    BY DEF Updates!MIGRATIONS, Step, Updates!migrate_odds_spread_total_prices
  <2> QED
    BY <2>1, ColumnsShape DEF FirstHalves, Named
<1>17. Shape(17)
  BY DEF Shape, Item, Halves, FirstHalves, Named, InTable, FeedIndex, Updates!MIGRATIONS, Step, Updates!migrate_odds_one_row_per_book, Updates!Adds,
         Updates!Column, Updates!Table, Updates!Index, Updates!Row, Updates!Backfill, Updates!Drop,
         Updates!OddsIndex, Updates!migrate_odds_one_row_per_book, Updates!TableOrder
<1>18. Shape(18)
  BY DEF Shape, Item, Halves, FirstHalves, Named, InTable, FeedIndex, Updates!MIGRATIONS, Step, Updates!migrate_team_box_scores, Updates!Adds,
         Updates!Column, Updates!Table, Updates!Index, Updates!Row, Updates!Backfill, Updates!Drop,
         Updates!OddsIndex, Updates!migrate_odds_one_row_per_book, Updates!TableOrder
<1>19. Shape(19)
  BY DEF Shape, Item, Halves, FirstHalves, Named, InTable, FeedIndex, Updates!MIGRATIONS, Step, Updates!migrate_emailed_pick_confidence, Updates!Adds,
         Updates!Column, Updates!Table, Updates!Index, Updates!Row, Updates!Backfill, Updates!Drop,
         Updates!OddsIndex, Updates!migrate_odds_one_row_per_book, Updates!TableOrder
<1>20. Shape(20)
  <2>1. Step(20) = Updates!AddColumns("emailed_picks", <<"best_book", "best_odds">>)
    BY DEF Updates!MIGRATIONS, Step, Updates!migrate_emailed_pick_best_price
  <2> QED
    BY <2>1, ColumnsShape DEF FirstHalves, Named
<1>21. Shape(21)
  <2>1. Step(21) = Updates!AddColumns("user_profiles", <<"pin_hash", "pin_salt">>)
    BY DEF Updates!MIGRATIONS, Step, Updates!migrate_user_pin
  <2> QED
    BY <2>1, ColumnsShape DEF FirstHalves, Named
<1>22. Shape(22)
  <2>1. Step(22) = Updates!AddColumns("picks", <<"tracking_only">>)
    BY DEF Updates!MIGRATIONS, Step, Updates!migrate_pick_tracking_only
  <2> QED
    BY <2>1, ColumnsShape DEF FirstHalves, Named
<1>23. Shape(23)
  <2>1. Step(23) = Updates!AddColumns("picks", <<"market_prob_novig">>)
    BY DEF Updates!MIGRATIONS, Step, Updates!migrate_pick_market_prob_novig
  <2> QED
    BY <2>1, ColumnsShape DEF FirstHalves, Named
<1>24. Shape(24)
  BY DEF Shape, Item, Halves, FirstHalves, Named, InTable, FeedIndex, Updates!MIGRATIONS, Step, Updates!migrate_pick_withdrawal, Updates!Adds,
         Updates!Column, Updates!Table, Updates!Index, Updates!Row, Updates!Backfill, Updates!Drop,
         Updates!OddsIndex, Updates!migrate_odds_one_row_per_book, Updates!TableOrder
<1>25. Shape(25)
  <2>1. Step(25) = Updates!AddColumns("games", <<"live_detail">>)
    BY DEF Updates!MIGRATIONS, Step, Updates!migrate_game_live_detail
  <2> QED
    BY <2>1, ColumnsShape DEF FirstHalves, Named
<1>26. Shape(26)
  <2>1. Step(26) = Updates!AddColumns("paper_picks", <<"note">>)
    BY DEF Updates!MIGRATIONS, Step, Updates!migrate_paper_pick_note
  <2> QED
    BY <2>1, ColumnsShape DEF FirstHalves, Named
<1>27. Shape(27)
  BY DEF Shape, Item, Halves, FirstHalves, Named, InTable, FeedIndex, Updates!MIGRATIONS, Step, Updates!create_all, Updates!Adds,
         Updates!Column, Updates!Table, Updates!Index, Updates!Row, Updates!Backfill, Updates!Drop,
         Updates!OddsIndex, Updates!migrate_odds_one_row_per_book, Updates!TableOrder
<1>28. Shape(28)
  BY DEF Shape, Item, Halves, FirstHalves, Named, InTable, FeedIndex, Updates!MIGRATIONS, Step, Updates!migrate_combat_sports_strategy, Updates!Adds,
         Updates!Column, Updates!Table, Updates!Index, Updates!Row, Updates!Backfill, Updates!Drop,
         Updates!OddsIndex, Updates!migrate_odds_one_row_per_book, Updates!TableOrder
<1>29. Shape(29)
  BY DEF Shape, Item, Halves, FirstHalves, Named, InTable, FeedIndex, Updates!MIGRATIONS, Step, Updates!migrate_weather_strategy, Updates!Adds,
         Updates!Column, Updates!Table, Updates!Index, Updates!Row, Updates!Backfill, Updates!Drop,
         Updates!OddsIndex, Updates!migrate_odds_one_row_per_book, Updates!TableOrder
<1>30. Shape(30)
  BY DEF Shape, Item, Halves, FirstHalves, Named, InTable, FeedIndex, Updates!MIGRATIONS, Step, Updates!migrate_activity_feed_bet_key, Updates!Adds,
         Updates!Column, Updates!Table, Updates!Index, Updates!Row, Updates!Backfill, Updates!Drop,
         Updates!OddsIndex, Updates!migrate_odds_one_row_per_book, Updates!TableOrder
<1> QED
  BY <1>1, <1>2, <1>3, <1>4, <1>5, <1>6, <1>7, <1>8, <1>9, <1>10, <1>11, <1>12, <1>13, <1>14, <1>15, <1>16, <1>17, <1>18, <1>19, <1>20, <1>21, <1>22, <1>23, <1>24, <1>25, <1>26, <1>27, <1>28, <1>29, <1>30

\* The migrations of two statements, and what else the proofs read off the list.
LEMMA HalfItems ==
    /\ Item(14, 1) = <<"column", "games", "odds_api_id">> /\ Item(14, 2) = <<"index", "games", "ix_games_odds_api_id">>
    /\ Item(19, 1) = <<"column", "emailed_picks", "confidence">>
    /\ Item(19, 2) = <<"backfill", "emailed_picks", "confidence">>
BY DEF Item, Step, Updates!MIGRATIONS, Updates!migrate_game_odds_api_id, Updates!migrate_emailed_pick_confidence,
       Updates!Adds, Updates!Column, Updates!Index, Updates!Backfill

LEMMA FeedItems ==
    /\ Updates!Items(Updates!migrate_activity_feed_bet_key) = {FeedIndex}
    /\ Updates!OddsIndex = <<"index", "odds", "uq_odds_game_bookmaker">>
BY DEF Updates!Items, Updates!migrate_activity_feed_bet_key, Updates!migrate_odds_one_row_per_book, Updates!OddsIndex,
       Updates!Adds, Updates!Index, FeedIndex

\* Whatever has rows to alter or to seed is a table that create_all makes.
LEMMA TablesMade ==
    \A t \in Named : \E j \in DOMAIN Step(27).items : Item(27, j) = Updates!Table(t)
<1>1. /\ DOMAIN Step(27).items = 1 .. 15
      /\ \A j \in 1 .. 15 : Item(27, j) = Updates!Table(Updates!TableOrder[j])
  BY DEF Step, Item, Updates!MIGRATIONS, Updates!create_all, Updates!Adds, Updates!TableOrder
<1>2. \A t \in Named : \E j \in 1 .. 15 : Updates!TableOrder[j] = t
  BY DEF Named, Updates!TableOrder
<1> QED
  BY <1>1, <1>2

LEMMA CurrentItems ==
    \A x : x \in Updates!Current <=> \E k \in 2 .. 30 : \E i \in DOMAIN Step(k).items : x = Item(k, i)
BY Places DEF Updates!Current, Updates!Items, Step, Item

\* What a table's making brings: the table, and all that is kept in it but the feed's index.
LEMMA WholeTable ==
    ASSUME NEW t, NEW k \in 2 .. 30, NEW i \in DOMAIN Step(k).items,
           Item(k, i)[1] \in InTable, Item(k, i)[2] = t, Item(k, i) # FeedIndex
    PROVE  Item(k, i) \in Updates!Whole(t)
<1>1. Item(k, i) \in Updates!Current
  BY CurrentItems
<1> HIDE DEF Item
<1> QED
  BY <1>1, FeedItems DEF Updates!Whole, InTable

LEMMA OneTable ==
    ASSUME NEW t, NEW u, Updates!Table(u) \in Updates!Whole(t)
    PROVE  u = t
<1>1. Updates!Table(u)[1] = "table" /\ Updates!Table(u)[2] = u
  BY DEF Updates!Table
<1>2. CASE Updates!Table(u) = Updates!Table(t)
  BY <1>1, <1>2 DEF Updates!Table
<1>3. CASE Updates!Table(u) # Updates!Table(t)
  <2> HIDE DEF Updates!Table
  <2> QED
    BY <1>1, <1>3 DEF Updates!Whole
<1> QED
  BY <1>2, <1>3
-----------------------------------------------------------------------------
\* What has been done of an item by a process that has passed it: it is in the schema, or will be
\* made with its table, or is one of the items that are told apart.
Done(x) ==
    \/ x \in schema \/ x[1] = "drop"
    \/ x = Usage /\ allowed
    \/ x = Updates!OddsIndex /\ doubled
    \/ x \in {Item(k, 2) : k \in Halves}
    \/ x[1] \in InTable /\ x # FeedIndex /\ Updates!Table(x[2]) \notin schema

Passed(p, k, i) ==
    \/ process[p].pc \in {"inspect", "execute"} /\ k < process[p].at
    \/ process[p].pc = "execute" /\ k = process[p].at /\ i \notin process[p].todo
    \/ process[p].pc = "up"

\* What a process has still to execute is its migration's, the second half of two among it; it drops
\* the legacy table only where that is allowed; and what it has passed is done.
Progress(p) ==
    /\ process[p].pc = "execute" =>
           /\ process[p].todo \subseteq DOMAIN Step(process[p].at).items
           /\ process[p].at = 1 => allowed
           /\ process[p].at \in Halves => 2 \in process[p].todo
    /\ \A k \in 1 .. 30 : \A i \in DOMAIN Step(k).items : Passed(p, k, i) => Done(Item(k, i))

Between(p, k) == process[p].pc = "execute" /\ process[p].at = k /\ process[p].todo = {2}
\* The second half is there with the first, was cut, or is being executed.
HalvesKept ==
    \A k \in Halves :
        Item(k, 1) \in schema => Item(k, 2) \in schema \cup cut \/ \E p \in Processes : Between(p, k)

MigrationRows ==
    /\ allowed \in BOOLEAN
    /\ process \in [Processes -> [pc : {"down", "inspect", "execute", "refused", "up"}, at : 1 .. 30,
                                  todo : SUBSET Nat]]
MigrationsInv == MigrationRows /\ (\A p \in Processes : Progress(p)) /\ HalvesKept

\* How the schema moves: by one statement of a migration, or by the clean-up of the odds.
Executes(k, i) ==
    /\ k = 1 => allowed
    /\ ~Updates!Fails(Item(k, i)) /\ schema' = Updates!Executed(Item(k, i)) /\ UNCHANGED doubled
SchemaMoves ==
    /\ UNCHANGED allowed
    /\ \/ UNCHANGED <<schema, doubled>>
       \/ \E k \in 1 .. 30 : \E i \in DOMAIN Step(k).items : Executes(k, i)
       \/ doubled' = FALSE /\ schema' = schema \cup {Updates!OddsIndex}

\* An item that is not of the legacy table stays.
LEMMA ItemsStay ==
    ASSUME SchemaMoves, NEW k \in 2 .. 30, NEW i \in DOMAIN Step(k).items, Item(k, i) \in schema,
           Item(k, i)[1] # "table" \/ Item(k, i)[2] # "api_usage"
    PROVE  Item(k, i) \in schema'
<1>1. Item(k, i)[2] # "api_usage"
  BY Shapes DEF Shape, Named
<1>2. CASE \E n \in 1 .. 30 : \E j \in DOMAIN Step(n).items : Executes(n, j)
  <2>1. PICK n \in 1 .. 30 : \E j \in DOMAIN Step(n).items : Executes(n, j)
    BY <1>2
  <2>0. PICK j \in DOMAIN Step(n).items : Executes(n, j)
    BY <2>1
  <2>2. CASE Item(n, j)[1] = "drop"
    <3>1. Item(n, j)[2] = "api_usage"
      BY <2>2, Shapes DEF Shape, InTable
    <3> HIDE DEF Item
    <3> QED
      BY <1>1, <2>0, <2>2, <3>1 DEF Executes, Updates!Executed
  <2>3. CASE Item(n, j)[1] # "drop"
    <3> HIDE DEF Item
    <3> QED
      BY <2>0, <2>3 DEF Executes, Updates!Executed
  <2> QED
    BY <2>2, <2>3
<1> HIDE DEF Item
<1> QED
  BY <1>2 DEF SchemaMoves

\* No step brings a table without the rest of it.
LEMMA TablesWhole ==
    ASSUME SchemaMoves, NEW t, Updates!Table(t) \notin schema, Updates!Table(t) \in schema'
    PROVE  Updates!Whole(t) \subseteq schema'
<1>1. Updates!Table(t)[1] = "table" /\ Updates!Table(t) # Updates!OddsIndex
  BY FeedItems DEF Updates!Table
<1>0. PICK k \in 1 .. 30 : \E i \in DOMAIN Step(k).items : Executes(k, i)
  <2> HIDE DEF Updates!Table
  <2> QED
    BY <1>1 DEF SchemaMoves
<1>2. PICK i \in DOMAIN Step(k).items : Executes(k, i)
  BY <1>0
<1>3. CASE Item(k, i)[1] = "drop"
  <2> HIDE DEF Item, Updates!Table
  <2> QED
    BY <1>2, <1>3 DEF Executes, Updates!Executed
<1>4. CASE Item(k, i)[1] = "table"
  <2>1. schema' = schema \cup Updates!Whole(Item(k, i)[2])
    <3> HIDE DEF Item
    <3> QED
      BY <1>2, <1>4 DEF Executes, Updates!Executed
  <2>2. t = Item(k, i)[2]
    <3> HIDE DEF Item
    <3> QED
      BY <2>1, OneTable
  <2> QED
    BY <2>1, <2>2
<1>5. CASE Item(k, i)[1] \notin {"drop", "table"}
  <2>1. schema' = schema \cup {Item(k, i)}
    <3> HIDE DEF Item
    <3> QED
      BY <1>2, <1>5 DEF Executes, Updates!Executed
  <2> HIDE DEF Item, Updates!Table
  <2> QED
    BY <1>1, <1>5, <2>1
<1> QED
  BY <1>3, <1>4, <1>5

LEMMA DoneStays ==
    ASSUME SchemaMoves, NEW k \in 1 .. 30, NEW i \in DOMAIN Step(k).items, Done(Item(k, i))
    PROVE  Done(Item(k, i))'
<1>1. CASE Item(k, i) \in schema
  <2>1. CASE k = 1
    BY <2>1, Shapes DEF Shape, Done
  <2>2. CASE k # 1 /\ (Item(k, i)[1] # "table" \/ Item(k, i)[2] # "api_usage")
    <3>1. k \in 2 .. 30
      BY <2>2
    <3>2. Item(k, i) \in schema'
      BY <1>1, <2>2, <3>1, ItemsStay
    <3> QED
      BY <3>2 DEF Done
  <2>3. CASE Item(k, i)[1] = "table" /\ Item(k, i)[2] = "api_usage"
    <3>1. Item(k, i) = Usage
      BY <2>3, Shapes DEF Shape, Usage, Updates!Table
    <3>2. Usage \in schema' \/ allowed'
      <4>1. CASE \E n \in 1 .. 30 : \E j \in DOMAIN Step(n).items : Executes(n, j)
        <5>1. PICK n \in 1 .. 30 : \E j \in DOMAIN Step(n).items : Executes(n, j)
          BY <4>1
        <5>2. PICK j \in DOMAIN Step(n).items : Executes(n, j)
          BY <5>1
        <5>3. CASE Item(n, j)[1] = "drop"
          <6>1. n = 1
            BY <5>3, Shapes DEF Shape, InTable
          <6> QED
            BY <5>2, <6>1 DEF Executes, SchemaMoves
        <5>4. CASE Item(n, j)[1] # "drop"
          <6> HIDE DEF Item, Usage
          <6> QED
            BY <1>1, <3>1, <5>2, <5>4 DEF Executes, Updates!Executed
        <5> QED
          BY <5>3, <5>4
      <4>2. CASE schema \subseteq schema'
        <5> HIDE DEF Item, Usage
        <5> QED
          BY <1>1, <3>1, <4>2
      <4> QED
        BY <4>1, <4>2 DEF SchemaMoves
    <3> HIDE DEF Item, Usage
    <3> QED
      BY <3>1, <3>2 DEF Done
  <2> QED
    BY <2>1, <2>2, <2>3
<1>2. CASE Item(k, i)[1] = "drop" \/ Item(k, i) \in {Item(n, 2) : n \in Halves}
  BY <1>2 DEF Done
<1>3. CASE Item(k, i) = Usage /\ allowed
  BY <1>3 DEF Done, SchemaMoves
<1>4. CASE Item(k, i) = Updates!OddsIndex /\ doubled
  <2>1. doubled' \/ Updates!OddsIndex \in schema'
    <3> HIDE DEF Updates!OddsIndex
    <3> QED
      BY <1>4 DEF SchemaMoves, Executes
  <2> HIDE DEF Item, Updates!OddsIndex
  <2> QED
    BY <1>4, <2>1 DEF Done
<1>5. CASE Item(k, i)[1] \in InTable /\ Item(k, i) # FeedIndex /\ Updates!Table(Item(k, i)[2]) \notin schema
  <2>1. k \in 2 .. 30
    BY <1>5, Shapes DEF Shape, InTable
  <2>2. Item(k, i) \in Updates!Whole(Item(k, i)[2])
    BY <1>5, <2>1, WholeTable
  <2>3. CASE Updates!Table(Item(k, i)[2]) \in schema'
    <3>1. Item(k, i) \in schema'
      BY <1>5, <2>2, <2>3, TablesWhole
    <3> QED
      BY <3>1 DEF Done
  <2>4. CASE Updates!Table(Item(k, i)[2]) \notin schema'
    BY <1>5, <2>4 DEF Done
  <2> QED
    BY <2>3, <2>4
<1> QED
  BY <1>1, <1>2, <1>3, <1>4, <1>5 DEF Done

\* Every action moves the schema so, and an item is executed by a process that is at it.
LEMMA ExecutesAt ==
    ASSUME MigrationsInv, NEW p \in Processes, NEW i \in Updates!First(process[p].todo),
           process[p].pc = "execute", ~Updates!Fails(Item(process[p].at, i)),
           schema' = Updates!Executed(Item(process[p].at, i)), UNCHANGED doubled
    PROVE  /\ process[p].at \in 1 .. 30 /\ i \in DOMAIN Step(process[p].at).items
           /\ Executes(process[p].at, i)
<1>1. process[p].at \in 1 .. 30
  BY DEF MigrationsInv, MigrationRows
<1>2. i \in process[p].todo /\ Progress(p)
  BY DEF Updates!First, MigrationsInv
<1> HIDE DEF Item
<1> QED
  BY <1>1, <1>2 DEF Progress, Executes

LEMMA NextMoves ==
    ASSUME MigrationsInv, Updates!Next PROVE SchemaMoves
<1>1. CASE \E p \in Processes : Updates!Execute(p)
  <2>1. PICK p \in Processes : Updates!Execute(p)
    BY <1>1
  <2>2. PICK i \in Updates!First(process[p].todo) :
            /\ process[p].pc = "execute" /\ ~Updates!Fails(Item(process[p].at, i))
            /\ schema' = Updates!Executed(Item(process[p].at, i)) /\ UNCHANGED <<doubled, allowed>>
    BY <2>1 DEF Updates!Execute, Item, Step
  <2>3. /\ process[p].at \in 1 .. 30 /\ i \in DOMAIN Step(process[p].at).items
        /\ Executes(process[p].at, i)
    BY <2>2, ExecutesAt
  <2> QED
    BY <2>2, <2>3 DEF SchemaMoves
<1>2. CASE \E p \in Processes : Updates!StartUp(p) \/ Updates!Inspect(p) \/ Updates!Fail(p) \/ Updates!Crash(p)
  BY <1>2 DEF Updates!StartUp, Updates!Inspect, Updates!Fail, Updates!Crash, SchemaMoves
<1>3. CASE Updates!dedupe_odds_rows
  BY <1>3 DEF Updates!dedupe_odds_rows, SchemaMoves
<1> QED
  BY <1>1, <1>2, <1>3 DEF Updates!Next

\* What a migration leaves out on the schema it inspects is done, once the tables are made.
LEMMA PlanLeaves ==
    ASSUME MigrationsInv, NEW k \in 1 .. 30, NEW i \in DOMAIN Step(k).items,
           k > 27 => \A j \in DOMAIN Step(27).items : Done(Item(27, j)),
           i \notin Updates!Plan(Step(k), schema)
    PROVE  Done(Item(k, i))
<1>0. Shape(k)
  BY Shapes
<1>1. CASE Step(k).looks = "legacy"
  BY <1>0, <1>1 DEF Shape, Done
<1>2. CASE Step(k).looks # "legacy" /\ Step(k).table # "none" /\ Updates!Table(Step(k).table) \notin schema
  <2>1. k # 27
    BY <1>2 DEF Step, Updates!MIGRATIONS, Updates!create_all, Updates!Adds
  <2>2. CASE k \in 2 .. 26
    BY <1>0, <1>2, <2>2 DEF Shape, Done
  <2>3. CASE k > 27
    <3>1. Step(k).table \in Named
      BY <1>0, <2>3 DEF Shape, Named
    <3>2. PICK j \in DOMAIN Step(27).items : Item(27, j) = Updates!Table(Step(k).table)
      BY <3>1, TablesMade
    <3>3. Item(27, j) \notin schema /\ Item(27, j)[1] = "table" /\ Item(27, j)[2] = Step(k).table
      BY <1>2, <3>2 DEF Updates!Table
    <3>4. Item(27, j) # Usage /\ Item(27, j) # Updates!OddsIndex /\ Item(27, j) \notin {Item(n, 2) : n \in Halves}
      BY <3>1, <3>3, HalfItems, FeedItems DEF Usage, Halves, Named
    <3>5. Done(Item(27, j))
      BY <2>3
    <3> HIDE DEF Item
    <3> QED
      BY <3>3, <3>4, <3>5 DEF Done, InTable
  <2> QED
    BY <1>0, <1>2, <2>1, <2>2, <2>3 DEF Shape
<1>3. CASE Step(k).looks = "unique" /\ doubled
  BY <1>0, <1>3 DEF Shape, Done
<1>4. CASE /\ Step(k).looks # "legacy" /\ ~(Step(k).looks = "unique" /\ doubled)
           /\ ~(Step(k).table # "none" /\ Updates!Table(Step(k).table) \notin schema)
  <2>1. i \notin Updates!Missing(Step(k), schema)
    BY <1>4 DEF Updates!Plan
  <2>2. CASE Step(k).looks = "each"
    <3>1. \/ Item(k, i) \in schema
          \/ Item(k, i)[1] = "column" /\ Updates!Table(Item(k, i)[2]) \notin schema
      BY <2>1, <2>2 DEF Updates!Missing, Item
    <3>2. Item(k, i)[1] = "column" => Item(k, i) # FeedIndex
      BY DEF FeedIndex
    <3> HIDE DEF Item
    <3> QED
      BY <3>1, <3>2 DEF Done, InTable
  <2>3. CASE Step(k).looks # "each"
    <3>1. Item(k, 1) \in schema
      BY <2>1, <2>3 DEF Updates!Missing, Item
    <3>2. CASE i = 1
      BY <3>1, <3>2 DEF Done
    <3>3. CASE i # 1
      <4>1. k \in Halves /\ i = 2
        BY <1>0, <1>4, <2>3, <3>3 DEF Shape
      <4> QED
        BY <4>1 DEF Done
    <3> QED
      BY <3>2, <3>3
  <2> QED
    BY <2>2, <2>3
<1> QED
  BY <1>1, <1>2, <1>3, <1>4

\* A process whose place is unchanged keeps what it had.
LEMMA ProgressStays ==
    ASSUME SchemaMoves, NEW p, Progress(p), process'[p] = process[p]
    PROVE  Progress(p)'
<1>1. \A k \in 1 .. 30 : \A i \in DOMAIN Step(k).items : Passed(p, k, i)' <=> Passed(p, k, i)
  BY DEF Passed
<1>2. \A k \in 1 .. 30 : \A i \in DOMAIN Step(k).items : Done(Item(k, i)) => Done(Item(k, i))'
  BY DoneStays
<1> HIDE DEF Done, Passed, Item
<1> QED
  BY <1>1, <1>2 DEF Progress, SchemaMoves

\* One that is sent back to the start has passed nothing.
LEMMA ProgressFromStart ==
    ASSUME NEW p, process'[p].pc \in {"down", "refused"} \/ (process'[p].pc = "inspect" /\ process'[p].at = 1)
    PROVE  Progress(p)'
<1>1. \A k \in 1 .. 30 : \A i \in DOMAIN Step(k).items : ~Passed(p, k, i)'
  BY DEF Passed
<1> HIDE DEF Passed, Item
<1> QED
  BY <1>1 DEF Progress

LEMMA InspectProgress ==
    ASSUME MigrationsInv, SchemaMoves, NEW p \in Processes, Updates!Inspect(p)
    PROVE  Progress(p)'
<1>1. PICK r, k, plan : r = process[p] /\ k = r.at /\ plan = Updates!Plan(Step(k), schema)
  OBVIOUS
<1>2. /\ r.pc = "inspect" /\ k \in 1 .. 30 /\ UNCHANGED <<schema, doubled, allowed>>
      /\ r \in [pc : {"down", "inspect", "execute", "refused", "up"}, at : 1 .. 30, todo : SUBSET Nat]
  BY <1>1 DEF Updates!Inspect, MigrationsInv, MigrationRows
<1>3. process'[p] = IF Updates!Refuses(Step(k), schema) THEN [Updates!Stopped EXCEPT !.pc = "refused"]
                    ELSE IF plan # {} THEN [r EXCEPT !.pc = "execute", !.todo = plan]
                    ELSE IF k < 30 THEN [r EXCEPT !.at = k + 1] ELSE [r EXCEPT !.pc = "up"]
  BY <1>1, Places DEF Updates!Inspect, Step, MigrationsInv, MigrationRows
<1>4. \A n \in 1 .. k - 1 : \A i \in DOMAIN Step(n).items : Done(Item(n, i))
  BY <1>1, <1>2 DEF MigrationsInv, Progress, Passed
<1>5. \A i \in DOMAIN Step(k).items : i \notin plan => Done(Item(k, i))
  <2>1. k > 27 => \A j \in DOMAIN Step(27).items : Done(Item(27, j))
    BY <1>2, <1>4
  <2> HIDE DEF Done, Item
  <2> QED
    BY <1>1, <1>2, <2>1, PlanLeaves
<1>6. \A n \in 1 .. 30 : \A i \in DOMAIN Step(n).items : Done(Item(n, i))' <=> Done(Item(n, i))
  BY <1>2 DEF Done
<1>7. CASE Updates!Refuses(Step(k), schema)
  <2>1. process'[p].pc = "refused"
    BY <1>3, <1>7 DEF Updates!Stopped
  <2> QED
    BY <2>1, ProgressFromStart
<1>8. CASE ~Updates!Refuses(Step(k), schema) /\ plan # {}
  <2>1. process'[p].pc = "execute" /\ process'[p].at = k /\ process'[p].todo = plan
    BY <1>1, <1>2, <1>3, <1>8
  <2>2. plan \subseteq DOMAIN Step(k).items
    BY <1>1 DEF Updates!Plan, Updates!Missing
  <2>3. k = 1 => allowed'
    <3>1. k = 1 => Step(k).looks = "legacy" /\ Updates!Legacy \in schema
      BY <1>1, <1>8, Shapes DEF Shape, Updates!Plan
    <3> QED
      BY <1>2, <1>8, <3>1 DEF Updates!Refuses
  <2>4. k \in Halves => 2 \in plan
    <3> SUFFICES ASSUME k \in Halves PROVE 2 \in plan
      OBVIOUS
    <3>1. Step(k).looks = "first" /\ DOMAIN Step(k).items = {1, 2}
      BY <1>2, Shapes DEF Shape
    <3>2. plan = Updates!Missing(Step(k), schema)
      BY <1>1, <1>8 DEF Updates!Plan
    <3> QED
      BY <1>8, <3>1, <3>2 DEF Updates!Missing
  <2>5. \A n \in 1 .. 30 : \A i \in DOMAIN Step(n).items : Passed(p, n, i)' => Done(Item(n, i))
    BY <1>2, <1>4, <1>5, <2>1 DEF Passed
  <2> HIDE DEF Done, Item, Passed
  <2> QED
    BY <1>6, <2>1, <2>2, <2>3, <2>4, <2>5 DEF Progress
<1>9. CASE ~Updates!Refuses(Step(k), schema) /\ plan = {}
  <2>1. \/ process'[p].pc = "inspect" /\ process'[p].at = k + 1
        \/ process'[p].pc = "up" /\ k = 30
    BY <1>1, <1>2, <1>3, <1>9
  <2>2. \A n \in 1 .. 30 : \A i \in DOMAIN Step(n).items : Passed(p, n, i)' => Done(Item(n, i))
    <3> SUFFICES ASSUME NEW n \in 1 .. 30, NEW i \in DOMAIN Step(n).items, Passed(p, n, i)'
                 PROVE  Done(Item(n, i))
      OBVIOUS
    <3>1. n \in 1 .. k - 1 \/ n = k
      BY <1>2, <2>1 DEF Passed
    <3> QED
      BY <1>4, <1>5, <1>9, <3>1
  <2> HIDE DEF Done, Item, Passed
  <2> QED
    BY <1>6, <2>1, <2>2 DEF Progress
<1> QED
  BY <1>7, <1>8, <1>9

\* What executing a statement leaves of a process.
LEMMA ExecuteLeaves ==
    ASSUME MigrationsInv, NEW p \in Processes, Updates!Execute(p)
    PROVE  \E i \in Updates!First(process[p].todo) :
               /\ process[p].pc = "execute" /\ process[p].at \in 1 .. 30
               /\ i \in DOMAIN Step(process[p].at).items /\ Executes(process[p].at, i) /\ UNCHANGED <<allowed, cut>>
               /\ \/ /\ process[p].todo # {i} /\ process'[p].pc = "execute"
                     /\ process'[p].at = process[p].at /\ process'[p].todo = process[p].todo \ {i}
                  \/ /\ process[p].todo = {i} /\ process'[p].pc = "inspect"
                     /\ process'[p].at = process[p].at + 1
                  \/ process[p].todo = {i} /\ process'[p].pc = "up" /\ process[p].at = 30
<1>1. PICK i \in Updates!First(process[p].todo) :
          /\ process[p].pc = "execute" /\ ~Updates!Fails(Item(process[p].at, i))
          /\ schema' = Updates!Executed(Item(process[p].at, i)) /\ UNCHANGED <<doubled, allowed, cut>>
          /\ process' = [process EXCEPT ![p] =
                IF process[p].todo # {i} THEN [process[p] EXCEPT !.todo = process[p].todo \ {i}]
                ELSE IF process[p].at < 30 THEN [pc |-> "inspect", at |-> process[p].at + 1, todo |-> {}]
                ELSE [process[p] EXCEPT !.pc = "up", !.todo = {}]]
  BY Places DEF Updates!Execute, Item, Step
<1>2. /\ process[p].at \in 1 .. 30 /\ i \in DOMAIN Step(process[p].at).items
      /\ Executes(process[p].at, i)
  BY <1>1, ExecutesAt
<1>3. /\ process \in [Processes -> [pc : {"down", "inspect", "execute", "refused", "up"}, at : 1 .. 30,
                                    todo : SUBSET Nat]]
  BY DEF MigrationsInv, MigrationRows
<1>4. \/ /\ process[p].todo # {i} /\ process'[p].pc = "execute"
         /\ process'[p].at = process[p].at /\ process'[p].todo = process[p].todo \ {i}
      \/ /\ process[p].todo = {i} /\ process'[p].pc = "inspect"
         /\ process'[p].at = process[p].at + 1
      \/ process[p].todo = {i} /\ process'[p].pc = "up" /\ process[p].at = 30
  <2> HIDE DEF Item
  <2> QED
    BY <1>1, <1>2, <1>3
<1> HIDE DEF Item, Executes
<1> QED
  BY <1>1, <1>2, <1>4

LEMMA ExecuteProgress ==
    ASSUME MigrationsInv, SchemaMoves, NEW p \in Processes, Updates!Execute(p)
    PROVE  Progress(p)'
<1>1. PICK k, todo : k = process[p].at /\ todo = process[p].todo
  OBVIOUS
<1>2. PICK i \in Updates!First(todo) :
          /\ process[p].pc = "execute" /\ k \in 1 .. 30
          /\ i \in DOMAIN Step(k).items /\ Executes(k, i) /\ UNCHANGED <<allowed, cut>>
          /\ \/ /\ todo # {i} /\ process'[p].pc = "execute"
                /\ process'[p].at = k /\ process'[p].todo = todo \ {i}
             \/ todo = {i} /\ process'[p].pc = "inspect" /\ process'[p].at = k + 1
             \/ todo = {i} /\ process'[p].pc = "up" /\ k = 30
  <2> HIDE DEF Executes
  <2> QED
    BY <1>1, ExecuteLeaves
<1>3. /\ todo \subseteq DOMAIN Step(k).items /\ (k = 1 => allowed) /\ (k \in Halves => 2 \in todo)
      /\ i \in todo /\ \A j \in todo : i <= j
  BY <1>1, <1>2 DEF MigrationsInv, Progress, Updates!First
<1>4. Done(Item(k, i))'
  <2>1. Item(k, i) \in schema' \/ Item(k, i)[1] = "drop"
    <3> HIDE DEF Item
    <3>1. Item(k, i)[1] = "table" => Item(k, i) = Updates!Table(Item(k, i)[2])
      BY <1>2, Shapes DEF Shape
    <3> QED
      BY <1>2, <3>1 DEF Executes, Updates!Executed, Updates!Whole
  <2> QED
    BY <2>1 DEF Done
<1>5. \A n \in 1 .. 30 : \A j \in DOMAIN Step(n).items :
          n < k \/ (n = k /\ j \notin todo) => Done(Item(n, j))'
  <2>1. \A n \in 1 .. 30 : \A j \in DOMAIN Step(n).items :
            n < k \/ (n = k /\ j \notin todo) => Done(Item(n, j))
    BY <1>1, <1>2 DEF MigrationsInv, Progress, Passed
  <2> HIDE DEF Done, Item
  <2> QED
    BY <2>1, DoneStays
<1>6. CASE todo # {i} /\ process'[p].pc = "execute" /\ process'[p].at = k /\ process'[p].todo = todo \ {i}
  <2>1. k \in Halves => 2 \in todo \ {i}
    <3> SUFFICES ASSUME k \in Halves PROVE i # 2
      BY <1>3
    <3>1. todo \subseteq {1, 2}
      BY <1>2, <1>3, Shapes DEF Shape
    <3>2. CASE 1 \in todo
      BY <1>3, <3>2
    <3>3. CASE 1 \notin todo
      <4>1. todo = {i}
        BY <1>3, <3>1, <3>3
      <4> QED
        BY <1>6, <4>1
    <3> QED
      BY <3>2, <3>3
  <2>2. \A n \in 1 .. 30 : \A j \in DOMAIN Step(n).items : Passed(p, n, j)' => Done(Item(n, j))'
    <3> SUFFICES ASSUME NEW n \in 1 .. 30, NEW j \in DOMAIN Step(n).items, Passed(p, n, j)'
                 PROVE  Done(Item(n, j))'
      OBVIOUS
    <3>1. n < k \/ (n = k /\ j \notin todo) \/ (n = k /\ j = i)
      BY <1>6 DEF Passed
    <3> HIDE DEF Done, Item
    <3> QED
      BY <1>4, <1>5, <3>1
  <2> HIDE DEF Done, Item, Passed
  <2> QED
    BY <1>2, <1>3, <1>6, <2>1, <2>2 DEF Progress
<1>7. CASE /\ todo = {i}
           /\ \/ process'[p].pc = "inspect" /\ process'[p].at = k + 1
              \/ process'[p].pc = "up" /\ k = 30
  <2>1. \A n \in 1 .. 30 : \A j \in DOMAIN Step(n).items : Passed(p, n, j)' => Done(Item(n, j))'
    <3> SUFFICES ASSUME NEW n \in 1 .. 30, NEW j \in DOMAIN Step(n).items, Passed(p, n, j)'
                 PROVE  Done(Item(n, j))'
      OBVIOUS
    <3>1. n < k \/ (n = k /\ j \notin todo) \/ (n = k /\ j = i)
      BY <1>2, <1>7 DEF Passed
    <3> HIDE DEF Done, Item
    <3> QED
      BY <1>4, <1>5, <3>1
  <2> HIDE DEF Done, Item, Passed
  <2> QED
    BY <1>7, <2>1 DEF Progress
<1> QED
  BY <1>2, <1>6, <1>7

-----------------------------------------------------------------------------
\* The second half of a migration of two statements.
LEMMA SecondHalf ==
    ASSUME NEW k \in Halves
    PROVE  /\ k \in 2 .. 30 /\ DOMAIN Step(k).items = {1, 2} /\ Step(k).looks = "first"
           /\ Item(k, 1)[1] \in InTable /\ Item(k, 2)[1] \in {"index", "backfill"}
           /\ Item(k, 1)[2] = Item(k, 2)[2] /\ Item(k, 2)[2] # "api_usage"
           /\ Item(k, 1) # FeedIndex /\ Item(k, 2) # FeedIndex
           /\ Item(k, 1) # Updates!OddsIndex /\ Item(k, 1) # Item(k, 2)
           /\ \A n \in 1 .. 30 : \A i \in DOMAIN Step(n).items :
                  Item(n, i) = Item(k, 1) => n = k /\ i = 1
<1>1. k \in 2 .. 30 /\ Shape(k)
  BY Shapes DEF Halves
<1>2. DOMAIN Step(k).items = {1, 2} /\ Step(k).looks = "first" /\ Item(k, 1) \in FirstHalves
  BY <1>1 DEF Shape
<1>3. /\ Item(k, 1)[1] \in InTable /\ Item(k, 2)[1] \in {"index", "backfill"}
      /\ Item(k, 1)[2] = Item(k, 2)[2] /\ Item(k, 2)[2] # "api_usage"
      /\ Item(k, 1) # FeedIndex /\ Item(k, 2) # FeedIndex
      /\ Item(k, 1) # Updates!OddsIndex /\ Item(k, 1) # Item(k, 2)
  BY HalfItems, FeedItems DEF Halves, FeedIndex, InTable
<1>4. ASSUME NEW n \in 1 .. 30, NEW i \in DOMAIN Step(n).items, Item(n, i) = Item(k, 1)
      PROVE  n = k /\ i = 1
  <2>1. n \in Halves /\ DOMAIN Step(n).items = {1, 2}
    BY <1>2, <1>4, Shapes DEF Shape
  <2> QED
    BY <1>4, <2>1, HalfItems DEF Halves
<1> QED
  BY <1>1, <1>2, <1>3, <1>4

\* A first half that comes, comes with its table or as its own statement.
LEMMA FirstHalfComes ==
    ASSUME NEW k \in Halves, Item(k, 1) \notin schema, Item(k, 1) \in schema',
           NEW n \in 1 .. 30, NEW i \in DOMAIN Step(n).items, Executes(n, i)
    PROVE  Item(k, 2) \in schema' \/ (n = k /\ i = 1)
<1>0. /\ k \in 2 .. 30 /\ 2 \in DOMAIN Step(k).items
      /\ Item(k, 1) # Updates!OddsIndex /\ Item(k, 1)[1] \in InTable
      /\ Item(k, 2)[1] \in InTable /\ Item(k, 1)[2] = Item(k, 2)[2] /\ Item(k, 2) # FeedIndex
  BY SecondHalf DEF InTable
<1>1. CASE Item(n, i)[1] = "drop"
  <2> HIDE DEF Item
  <2> QED
    BY <1>1 DEF Executes, Updates!Executed
<1>2. CASE Item(n, i)[1] = "table"
  <2>1. schema' = schema \cup Updates!Whole(Item(n, i)[2])
    <3> HIDE DEF Item
    <3> QED
      BY <1>2 DEF Executes, Updates!Executed
  <2>2. Item(k, 1)[2] = Item(n, i)[2]
    <3>1. Item(k, 1) \in Updates!Whole(Item(n, i)[2])
      <4> HIDE DEF Item
      <4> QED
        BY <2>1
    <3>2. Updates!Table(Item(n, i)[2])[2] = Item(n, i)[2]
      BY DEF Updates!Table
    <3> HIDE DEF Item
    <3> QED
      BY <3>1, <3>2 DEF Updates!Whole
  <2>3. Item(k, 2) \in Updates!Whole(Item(n, i)[2])
    BY <1>0, <2>2, WholeTable
  <2> HIDE DEF Item
  <2> QED
    BY <2>1, <2>3
<1>3. CASE Item(n, i)[1] \notin {"drop", "table"}
  <2>1. Item(k, 1) = Item(n, i)
    <3> HIDE DEF Item
    <3> QED
      BY <1>3 DEF Executes, Updates!Executed
  <2>2. n = k /\ i = 1
    BY <2>1, SecondHalf
  <2> QED
    BY <2>2
<1> QED
  BY <1>1, <1>2, <1>3

\* Who is between the halves stays so, executes the second, or is stopped and the second is cut.
LEMMA BetweenStays ==
    ASSUME MigrationsInv, NEW k \in Halves, Item(k, 1) \in schema, NEW p \in Processes, Between(p, k), Updates!Next
    PROVE  Item(k, 2) \in schema' \cup cut' \/ Between(p, k)'
<1>0. SchemaMoves
  BY NextMoves
<1>1. Item(k, 2)[1] \in {"index", "backfill"} /\ Step(k).looks = "first"
  BY SecondHalf
<1>2. process[p].pc = "execute" /\ process[p].at = k /\ process[p].todo = {2}
  BY DEF Between
<1>3. CASE Updates!Execute(p)
  <2>1. PICK i \in Updates!First({2}) : Executes(k, i)
    BY <1>2, <1>3, ExecuteLeaves
  <2>2. i = 2
    BY DEF Updates!First
  <2> HIDE DEF Item
  <2> QED
    BY <1>1, <2>1, <2>2 DEF Executes, Updates!Executed
<1>4. CASE Updates!Crash(p)
  <2>1. cut' = cut \cup Updates!LeftUndone(p) /\ UNCHANGED schema
    BY <1>4 DEF Updates!Crash
  <2>2. Item(k, 2) \in schema \/ Item(k, 2) \in Updates!LeftUndone(p)
    BY <1>1, <1>2 DEF Updates!LeftUndone, Item, Step
  <2> HIDE DEF Item
  <2> QED
    BY <2>1, <2>2
<1>5. ~Updates!Fail(p)
  <2> SUFFICES ASSUME Updates!Fail(p) PROVE FALSE
    OBVIOUS
  <2>1. PICK i \in Updates!First({2}) : Updates!Fails(Item(k, i))
    BY <1>2 DEF Updates!Fail, Item, Step
  <2>2. i = 2
    BY DEF Updates!First
  <2> HIDE DEF Item
  <2> QED
    BY <1>1, <2>1, <2>2 DEF Updates!Fails
<1>6. ~Updates!StartUp(p) /\ ~Updates!Inspect(p)
  BY <1>2 DEF Updates!StartUp, Updates!Inspect
<1>7. CASE /\ ~Updates!Execute(p) /\ ~Updates!Crash(p)
  <2>1. process'[p] = process[p]
    <3>1. CASE \E q \in Processes : q # p /\ (Updates!StartUp(q) \/ Updates!Inspect(q) \/ Updates!Execute(q)
                                              \/ Updates!Fail(q) \/ Updates!Crash(q))
      BY <3>1 DEF Updates!StartUp, Updates!Inspect, Updates!Execute, Updates!Fail, Updates!Crash,
                  MigrationsInv, MigrationRows
    <3>2. CASE Updates!dedupe_odds_rows
      BY <3>2 DEF Updates!dedupe_odds_rows
    <3> QED
      BY <1>5, <1>6, <1>7, <3>1, <3>2 DEF Updates!Next
  <2> QED
    BY <1>2, <2>1 DEF Between
<1> QED
  BY <1>3, <1>4, <1>7

LEMMA HalvesStay ==
    ASSUME MigrationsInv, Updates!Next PROVE HalvesKept'
<1>0. SchemaMoves
  BY NextMoves
<1> SUFFICES ASSUME NEW k \in Halves, Item(k, 1) \in schema'
             PROVE  Item(k, 2) \in schema' \cup cut' \/ \E p \in Processes : Between(p, k)'
  BY DEF HalvesKept
<1>1. CASE Item(k, 1) \in schema
  <2>1. CASE Item(k, 2) \in schema
    <3>1. k \in 2 .. 30 /\ 2 \in DOMAIN Step(k).items /\ Item(k, 2)[2] # "api_usage"
      BY SecondHalf
    <3> QED
      BY <1>0, <2>1, <3>1, ItemsStay
  <2>2. CASE Item(k, 2) \in cut
    <3>1. cut \subseteq cut'
      BY DEF Updates!Next, Updates!StartUp, Updates!Inspect, Updates!Execute, Updates!Fail, Updates!Crash,
             Updates!dedupe_odds_rows
    <3> QED
      BY <2>2, <3>1
  <2>3. CASE \E p \in Processes : Between(p, k)
    BY <1>1, <2>3, BetweenStays
  <2> QED
    BY <1>1, <2>1, <2>2, <2>3 DEF MigrationsInv, HalvesKept
<1>2. CASE Item(k, 1) \notin schema
  <2>1. CASE Item(k, 2) \in schema'
    BY <2>1
  <2>2. CASE Item(k, 2) \notin schema'
    <3>1. CASE \E p \in Processes : Updates!Execute(p)
      <4>1. PICK p \in Processes : Updates!Execute(p)
        BY <3>1
      <4>2. PICK i \in Updates!First(process[p].todo) :
                /\ process[p].pc = "execute" /\ process[p].at \in 1 .. 30
                /\ i \in DOMAIN Step(process[p].at).items /\ Executes(process[p].at, i)
                /\ \/ /\ process[p].todo # {i} /\ process'[p].pc = "execute"
                      /\ process'[p].at = process[p].at /\ process'[p].todo = process[p].todo \ {i}
                   \/ process[p].todo = {i}
        BY <4>1, ExecuteLeaves
      <4>3. process[p].at = k /\ i = 1
        BY <1>2, <2>2, <4>2, FirstHalfComes
      <4>4. 2 \in process[p].todo /\ process[p].todo \subseteq {1, 2}
        <5>1. Progress(p) /\ DOMAIN Step(k).items = {1, 2}
          BY SecondHalf DEF MigrationsInv
        <5> HIDE DEF Item
        <5> QED
          BY <4>2, <4>3, <5>1 DEF Progress
      <4>5. Between(p, k)'
        BY <4>2, <4>3, <4>4 DEF Between
      <4> QED
        BY <4>5
    <3>2. CASE \A p \in Processes : ~Updates!Execute(p)
      <4>1. \/ UNCHANGED schema
            \/ schema' = schema \cup {Updates!OddsIndex}
        BY <3>2 DEF Updates!Next, Updates!StartUp, Updates!Inspect, Updates!Fail, Updates!Crash,
                    Updates!dedupe_odds_rows
      <4>2. Item(k, 1) # Updates!OddsIndex
        BY SecondHalf
      <4> HIDE DEF Item
      <4> QED
        BY <1>2, <4>1, <4>2
    <3> QED
      BY <3>1, <3>2
  <2> QED
    BY <2>1, <2>2
<1> QED
  BY <1>1, <1>2

LEMMA RowsStay ==
    ASSUME MigrationsInv, Updates!Next PROVE MigrationRows'
<1>1. /\ allowed' \in BOOLEAN
      /\ process \in [Processes -> [pc : {"down", "inspect", "execute", "refused", "up"}, at : 1 .. 30,
                                    todo : SUBSET Nat]]
  BY NextMoves DEF MigrationsInv, MigrationRows, SchemaMoves
<1>2. Updates!Stopped \in [pc : {"down", "inspect", "execute", "refused", "up"}, at : 1 .. 30, todo : SUBSET Nat]
  BY DEF Updates!Stopped
<1>3. CASE \E p \in Processes : Updates!StartUp(p) \/ Updates!Fail(p) \/ Updates!Crash(p)
  BY <1>1, <1>2, <1>3 DEF Updates!StartUp, Updates!Fail, Updates!Crash, MigrationRows
<1>4. ASSUME NEW p \in Processes, Updates!Inspect(p) PROVE MigrationRows'
  <2>1. PICK here, k, plan : here = process[p] /\ k = here.at /\ plan = Updates!Plan(Step(k), schema)
    OBVIOUS
  <2>2. /\ k \in 1 .. 30
        /\ here \in [pc : {"down", "inspect", "execute", "refused", "up"}, at : 1 .. 30, todo : SUBSET Nat]
    BY <1>1, <2>1
  <2>3. process' = [process EXCEPT ![p] =
            IF Updates!Refuses(Step(k), schema) THEN [Updates!Stopped EXCEPT !.pc = "refused"]
            ELSE IF plan # {} THEN [here EXCEPT !.pc = "execute", !.todo = plan]
            ELSE IF k < 30 THEN [here EXCEPT !.at = k + 1] ELSE [here EXCEPT !.pc = "up"]]
    BY <1>4, <2>1, Places DEF Updates!Inspect, Step
  <2>4. plan \in SUBSET Nat
    <3>1. DOMAIN Step(k).items \subseteq Nat
      BY <2>2, Shapes DEF Shape
    <3> QED
      BY <2>1, <3>1 DEF Updates!Plan, Updates!Missing
  <2> DEFINE next == IF Updates!Refuses(Step(k), schema) THEN [Updates!Stopped EXCEPT !.pc = "refused"]
                     ELSE IF plan # {} THEN [here EXCEPT !.pc = "execute", !.todo = plan]
                     ELSE IF k < 30 THEN [here EXCEPT !.at = k + 1] ELSE [here EXCEPT !.pc = "up"]
  <2>5. next \in [pc : {"down", "inspect", "execute", "refused", "up"}, at : 1 .. 30, todo : SUBSET Nat]
    <3>1. CASE Updates!Refuses(Step(k), schema)
      BY <1>2, <3>1
    <3>2. CASE ~Updates!Refuses(Step(k), schema) /\ plan # {}
      <4>1. [here EXCEPT !.pc = "execute"] \in
                [pc : {"down", "inspect", "execute", "refused", "up"}, at : 1 .. 30, todo : SUBSET Nat]
        BY <2>2
      <4> QED
        BY <2>4, <3>2, <4>1
    <3>3. CASE ~Updates!Refuses(Step(k), schema) /\ plan = {}
      BY <2>2, <3>3
    <3> QED
      BY <3>1, <3>2, <3>3
  <2>6. process' = [process EXCEPT ![p] = next]
    BY <2>3
  <2> HIDE DEF next
  <2> QED
    BY <1>1, <2>5, <2>6 DEF MigrationRows
<1>5. ASSUME NEW p \in Processes, Updates!Execute(p) PROVE MigrationRows'
  <2>1. PICK here : here = process[p]
    OBVIOUS
  <2>2. here \in [pc : {"down", "inspect", "execute", "refused", "up"}, at : 1 .. 30, todo : SUBSET Nat]
    BY <1>1, <2>1
  <2>3. PICK i : process' = [process EXCEPT ![p] =
                    IF here.todo # {i} THEN [here EXCEPT !.todo = here.todo \ {i}]
                    ELSE IF here.at < 30 THEN [pc |-> "inspect", at |-> here.at + 1, todo |-> {}]
                    ELSE [here EXCEPT !.pc = "up", !.todo = {}]]
    BY <1>5, <2>1, Places DEF Updates!Execute
  <2> DEFINE next == IF here.todo # {i} THEN [here EXCEPT !.todo = here.todo \ {i}]
                     ELSE IF here.at < 30 THEN [pc |-> "inspect", at |-> here.at + 1, todo |-> {}]
                     ELSE [here EXCEPT !.pc = "up", !.todo = {}]
  <2>4. next \in [pc : {"down", "inspect", "execute", "refused", "up"}, at : 1 .. 30, todo : SUBSET Nat]
    <3>1. CASE here.todo # {i}
      BY <2>2, <3>1
    <3>2. CASE here.todo = {i} /\ here.at < 30
      BY <2>2, <3>2
    <3>3. CASE here.todo = {i} /\ ~(here.at < 30)
      <4>1. [here EXCEPT !.pc = "up"] \in
                [pc : {"down", "inspect", "execute", "refused", "up"}, at : 1 .. 30, todo : SUBSET Nat]
        BY <2>2
      <4> QED
        BY <3>3, <4>1
    <3> QED
      BY <3>1, <3>2, <3>3
  <2>5. process' = [process EXCEPT ![p] = next]
    BY <2>3
  <2> HIDE DEF next
  <2> QED
    BY <1>1, <2>4, <2>5 DEF MigrationRows
<1>6. CASE Updates!dedupe_odds_rows
  BY <1>1, <1>6 DEF Updates!dedupe_odds_rows, MigrationRows
<1> QED
  BY <1>3, <1>4, <1>5, <1>6 DEF Updates!Next

LEMMA ProgressKept ==
    ASSUME MigrationsInv, Updates!Next, NEW p \in Processes PROVE Progress(p)'
<1>0. SchemaMoves /\ Progress(p)
  BY NextMoves DEF MigrationsInv
<1>1. CASE Updates!Inspect(p)
  BY <1>0, <1>1, InspectProgress
<1>2. CASE Updates!Execute(p)
  BY <1>0, <1>2, ExecuteProgress
<1>3. CASE Updates!StartUp(p) \/ Updates!Fail(p) \/ Updates!Crash(p)
  <2>1. process'[p].pc = "down" \/ (process'[p].pc = "inspect" /\ process'[p].at = 1)
    BY <1>3 DEF Updates!StartUp, Updates!Fail, Updates!Crash, Updates!Stopped, MigrationsInv, MigrationRows
  <2> QED
    BY <2>1, ProgressFromStart
<1>4. CASE \/ Updates!dedupe_odds_rows
           \/ \E q \in Processes : q # p /\ (Updates!StartUp(q) \/ Updates!Inspect(q) \/ Updates!Execute(q)
                                             \/ Updates!Fail(q) \/ Updates!Crash(q))
  <2>1. process'[p] = process[p]
    BY <1>4 DEF Updates!dedupe_odds_rows, Updates!StartUp, Updates!Inspect, Updates!Execute, Updates!Fail,
                Updates!Crash, MigrationsInv, MigrationRows
  <2> QED
    BY <1>0, <2>1, ProgressStays
<1> QED
  BY <1>1, <1>2, <1>3, <1>4 DEF Updates!Next

\* A database starts with both halves of what comes in two, or with neither.
LEMMA MigrationsInit ==
    ASSUME Updates!MigrationsAssumption, Updates!Init PROVE MigrationsInv
<1>1. MigrationRows
  <2>1. allowed \in BOOLEAN
    <3>1. allowed \in (IF Updates!Legacy \in schema THEN BOOLEAN ELSE {FALSE})
      BY DEF Updates!Init
    <3> QED
      BY <3>1
  <2>2. process \in [Processes -> [pc : {"down", "inspect", "execute", "refused", "up"}, at : 1 .. 30,
                                  todo : SUBSET Nat]]
    BY DEF Updates!Init, Updates!Stopped
  <2> QED
    BY <2>1, <2>2 DEF MigrationRows
<1>2. \A p \in Processes : Progress(p)
  BY DEF Updates!Init, Updates!Stopped, Progress, Passed
<1>3. HalvesKept
  <2> SUFFICES ASSUME NEW k \in Halves, Item(k, 1) \in schema PROVE Item(k, 2) \in schema
    BY DEF HalvesKept
  <2>1. k \in 2 .. 30 /\ DOMAIN Step(k).items = {1, 2} /\ Step(k).looks = "first"
    BY SecondHalf
  <2>2. Item(k, 1) \in Updates!Current /\ Item(k, 2) \in Updates!Current
    BY <2>1, CurrentItems
  <2>3. ASSUME NEW items \in Behind, schema = Updates!Current \ items PROVE Item(k, 2) \in schema
    <3>1. Item(k, 1) \notin items /\ k \in DOMAIN Updates!MIGRATIONS
      <4> HIDE DEF Item
      <4> QED
        BY <2>1, <2>3, Places
    <3>2. Updates!Items(Step(k)) \cap items = {}
      BY <2>1, <3>1 DEF Updates!MigrationsAssumption, Item, Step
    <3>3. Item(k, 2) \in Updates!Items(Step(k))
      BY <2>1 DEF Updates!Items, Item
    <3> HIDE DEF Item
    <3> QED
      BY <2>2, <2>3, <3>2, <3>3
  <2> HIDE DEF Item
  <2> QED
    BY <2>2, <2>3 DEF Updates!Init
<1> QED
  BY <1>1, <1>2, <1>3 DEF MigrationsInv

\* Who is up has passed every migration, and so made every table.
LEMMA UpIsComplete ==
    ASSUME MigrationsInv PROVE Updates!UpMeansComplete
<1> SUFFICES ASSUME NEW p \in Processes, process[p].pc = "up", NEW k \in 2 .. 30, NEW i \in DOMAIN Step(k).items,
                    Item(k, i) \notin cut, \A r \in Processes : Item(k, i) \notin Updates!LeftUndone(r),
                    Item(k, i) = Updates!OddsIndex => ~doubled, Item(k, i) = Usage => ~allowed
             PROVE  Item(k, i) \in schema
  <2> SUFFICES ASSUME NEW p \in Processes, process[p].pc = "up", NEW x \in Updates!Current, x \notin cut,
                      \A r \in Processes : x \notin Updates!LeftUndone(r),
                      x = Updates!OddsIndex => ~doubled, x = Usage => ~allowed
               PROVE  x \in schema
    <3>1. Updates!Table("api_usage") = Usage
      BY DEF Updates!Table, Usage
    <3> HIDE DEF Usage, Updates!Table, Updates!OddsIndex, Updates!LeftUndone, Updates!Current
    <3> SUFFICES ASSUME NEW p \in Processes, process[p].pc = "up", NEW x \in Updates!Current, x \notin cut,
                        \A r \in Processes : x \notin Updates!LeftUndone(r),
                        x \notin (IF doubled THEN {Updates!OddsIndex} ELSE {}),
                        x \notin (IF allowed THEN {Usage} ELSE {})
                 PROVE  x \in schema
      BY <3>1 DEF Updates!UpMeansComplete
    <3>2. (x = Updates!OddsIndex => ~doubled) /\ (x = Usage => ~allowed)
      OBVIOUS
    <3> QED
      BY <3>2
  <2>1. PICK k \in 2 .. 30 : \E i \in DOMAIN Step(k).items : x = Item(k, i)
    BY CurrentItems
  <2>2. PICK i \in DOMAIN Step(k).items : x = Item(k, i)
    BY <2>1
  <2> HIDE DEF Item, Updates!LeftUndone, Updates!OddsIndex, Usage
  <2> QED
    BY <2>2
<1>1. \A n \in 1 .. 30 : \A j \in DOMAIN Step(n).items : Done(Item(n, j))
  BY DEF MigrationsInv, Progress, Passed
<1>2. ASSUME NEW t \in Named PROVE Updates!Table(t) \in schema
  <2>1. PICK j \in DOMAIN Step(27).items : Item(27, j) = Updates!Table(t)
    BY TablesMade
  <2>2. Done(Updates!Table(t))
    BY <1>1, <2>1
  <2>3. /\ Updates!Table(t)[1] = "table" /\ Updates!Table(t) # Usage /\ Updates!Table(t) # Updates!OddsIndex
        /\ Updates!Table(t) \notin {Item(n, 2) : n \in Halves}
    BY HalfItems, FeedItems DEF Updates!Table, Usage, Named, Halves
  <2> HIDE DEF Updates!Table, Usage, Item
  <2> QED
    BY <2>2, <2>3 DEF Done, InTable
<1>3. Item(k, i)[1] # "drop" /\ (Item(k, i)[1] \in InTable => Item(k, i)[2] \in Named)
  BY Shapes DEF Shape, InTable
<1>4. CASE Item(k, i) \notin {Item(n, 2) : n \in Halves}
  <2>1. Done(Item(k, i))
    BY <1>1
  <2> HIDE DEF Item, Usage, Updates!OddsIndex, Updates!Table
  <2> QED
    BY <1>2, <1>3, <1>4, <2>1 DEF Done
<1>5. ASSUME NEW n \in Halves, Item(k, i) = Item(n, 2) PROVE Item(n, 2) \in schema
  <2>1. /\ n \in 2 .. 30 /\ 1 \in DOMAIN Step(n).items /\ Item(n, 1)[1] \in InTable
        /\ Item(n, 1) # Updates!OddsIndex /\ Step(n).looks = "first"
    BY SecondHalf
  <2>2. Done(Item(n, 1))
    BY <1>1, <2>1
  <2>3. Item(n, 1)[1] # "drop" /\ Item(n, 1)[2] \in Named
    BY <2>1, Shapes DEF Shape, InTable
  <2>4. Item(n, 1) # Usage /\ Item(n, 1) \notin {Item(h, 2) : h \in Halves}
    BY HalfItems DEF Usage, Halves
  <2>5. Item(n, 1) \in schema
    <3> HIDE DEF Item, Usage, Updates!OddsIndex, Updates!Table
    <3> QED
      BY <1>2, <2>1, <2>2, <2>3, <2>4 DEF Done
  <2>6. ASSUME NEW r \in Processes, Between(r, n) PROVE Item(n, 2) \in schema
    <3>1. Item(n, 2) \in schema \/ Item(n, 2) \in Updates!LeftUndone(r)
      BY <2>1, <2>5, <2>6 DEF Between, Updates!LeftUndone, Item, Step
    <3> HIDE DEF Item, Updates!LeftUndone
    <3> QED
      BY <1>5, <3>1
  <2> HIDE DEF Item
  <2> QED
    BY <1>5, <2>5, <2>6 DEF MigrationsInv, HalvesKept
<1> QED
  BY <1>4, <1>5

\* A process that serves has the whole schema, however many others are migrating the same database
\* and whichever stopped half way; what it may lack is named in the property.
THEOREM SchemaComplete ==
    ASSUME Updates!MigrationsAssumption
    PROVE  Updates!Spec => []Updates!UpMeansComplete
<1>1. Updates!Init => MigrationsInv
  BY MigrationsInit
<1>2. MigrationsInv /\ [Updates!Next]_(Updates!vars) => MigrationsInv'
  <2> SUFFICES ASSUME MigrationsInv, [Updates!Next]_(Updates!vars) PROVE MigrationsInv'
    OBVIOUS
  <2>1. CASE Updates!Next
    BY <2>1, RowsStay, ProgressKept, HalvesStay DEF MigrationsInv
  <2>2. CASE UNCHANGED Updates!vars
    <3>1. UNCHANGED <<schema, doubled, allowed, process, cut>>
      BY <2>2 DEF Updates!vars
    <3>2. SchemaMoves
      BY <3>1 DEF SchemaMoves
    <3>3. \A p \in Processes : Progress(p)'
      BY <3>1, <3>2, ProgressStays DEF MigrationsInv
    <3> HIDE DEF Item
    <3> QED
      BY <3>1, <3>3 DEF MigrationsInv, MigrationRows, HalvesKept, Between
  <2> QED
    BY <2>1, <2>2
<1> QED
  BY <1>1, <1>2, UpIsComplete, PTL DEF Updates!Spec
=============================================================================
