--------------------------- MODULE ScoutDayProofs ---------------------------
(***************************************************************************)
(* What holds of the scheduler's day for any games and start times, sleeps *)
(* and restarts: the windows' jobs follow the clustering, no game is left  *)
(* out, and one scout a day fetches games.                                 *)
(***************************************************************************)
EXTENDS ScoutDay, FiniteSetTheorems, SequenceTheorems, TLAPS

-----------------------------------------------------------------------------
(* The clustering.  It recurses on the games left; that the recursion is   *)
(* well defined, and what it computes, is shown by a least counterexample. *)

\* A nonempty set of numbers has a least.
LEMMA LeastNumber ==
    ASSUME NEW T \in SUBSET Nat, T # {}
    PROVE  \E n \in T : \A k \in T : n <= k
<1> DEFINE R == {p \in Nat \X Nat : p[1] < p[2]}
<1>1. R = OpToRel(<, Nat)
  BY DEF OpToRel
<1>2. IsWellFoundedOn(R, Nat)
  BY <1>1, NatLessThanWellFounded
<1>3. ASSUME NEW k \in Nat, NEW n \in Nat, k < n PROVE <<k, n>> \in R
  <2> DEFINE p == <<k, n>>
  <2>1. p \in Nat \X Nat /\ p[1] = k /\ p[2] = n
    OBVIOUS
  <2>2. p[1] < p[2]
    BY <1>3, <2>1
  <2> HIDE DEF p
  <2>3. p \in R
    BY <2>1, <2>2
  <2> QED
    BY <2>3 DEF p
<1> HIDE DEF R
<1>4. PICK n \in T : \A k \in T : <<k, n>> \notin R
  BY <1>2, WFMin
<1>5. ASSUME NEW k \in T PROVE n <= k
  <2>1. k \in Nat /\ n \in Nat /\ <<k, n>> \notin R
    BY <1>4
  <2>2. ~(k < n)
    BY <1>3, <2>1
  <2> QED
    BY <2>1, <2>2
<1> QED
  BY <1>5

\* A nonempty set of games has a first start.
LEMMA FirstStartIsLeast ==
    ASSUME NEW S \in SUBSET Games, S # {}
    PROVE  /\ FirstStart(S) \in Nat
           /\ \E g \in S : Start[g] = FirstStart(S)
           /\ \A g \in S : FirstStart(S) <= Start[g]
<1> DEFINE T == {Start[g] : g \in S}
<1>1. T \subseteq Nat /\ T # {}
  BY DayAssumption
<1>2. PICK t \in T : \A u \in T : t <= u
  BY <1>1, LeastNumber
<1>3. \A g \in S : t <= Start[g]
  BY <1>2
<1>4. FirstStart(S) \in T /\ \A g \in S : FirstStart(S) <= Start[g]
  BY <1>2, <1>3 DEF FirstStart
<1> QED
  BY <1>1, <1>4

\* The first window holds the first games, and takes at least one.
LEMMA FirstWindowTakes ==
    ASSUME NEW S \in SUBSET Games, S # {}
    PROVE  /\ FirstWindow(S) \in SUBSET S /\ FirstWindow(S) # {}
           /\ FirstWindow(S) \in SUBSET Games
           /\ FirstStart(FirstWindow(S)) = FirstStart(S)
<1>1. Gap \in Nat
  BY DayAssumption DEF Gap
<1>2. FirstWindow(S) \subseteq S
  BY DEF FirstWindow
<1>3. PICK g \in S : Start[g] = FirstStart(S)
  BY FirstStartIsLeast
<1>4. g \in FirstWindow(S)
  BY <1>1, <1>3, FirstStartIsLeast DEF FirstWindow
<1>5. FirstStart(FirstWindow(S)) = FirstStart(S)
  <2>1. /\ FirstStart(FirstWindow(S)) \in Nat
        /\ \E h \in FirstWindow(S) : Start[h] = FirstStart(FirstWindow(S))
        /\ \A h \in FirstWindow(S) : FirstStart(FirstWindow(S)) <= Start[h]
    BY <1>2, <1>4, FirstStartIsLeast
  <2>2. FirstStart(S) \in Nat /\ \A h \in S : FirstStart(S) <= Start[h]
    BY FirstStartIsLeast
  <2> QED
    BY <1>2, <1>3, <1>4, <2>1, <2>2
<1> QED
  BY <1>2, <1>4, <1>5

Clustering(f, S) == IF S = {} THEN <<>> ELSE <<FirstWindow(S)>> \o f[S \ FirstWindow(S)]

\* There is a clustering of every set of at most n games: from one for n games
\* the next game's is made.
LEMMA ClusteringExists ==
    \E f : f = [S \in SUBSET Games |-> Clustering(f, S)]
<1> DEFINE Small(n) == {S \in SUBSET Games : Cardinality(S) <= n}
           Clusters(n) == \E f : f = [S \in Small(n) |-> Clustering(f, S)]
           Bad == {n \in Nat : ~ Clusters(n)}
<1>0. \A S \in SUBSET Games : IsFiniteSet(S) /\ Cardinality(S) \in Nat
  BY DayAssumption, FS_Subset, FS_CardinalityType
<1>1. Clusters(0)
  <2>1. Small(0) = {{}}
    BY <1>0, FS_EmptySet
  <2>2. [S \in Small(0) |-> <<>>] = [S \in Small(0) |-> Clustering([T \in Small(0) |-> <<>>], S)]
    BY <2>1 DEF Clustering
  <2> QED
    BY <2>2
<1>2. ASSUME NEW n \in Nat, Clusters(n) PROVE Clusters(n + 1)
  <2>1. PICK f : f = [S \in Small(n) |-> Clustering(f, S)]
    BY <1>2
  <2> DEFINE F == [S \in Small(n + 1) |-> Clustering(f, S)]
  <2>2. ASSUME NEW S \in Small(n + 1) PROVE Clustering(f, S) = Clustering(F, S)
    <3>1. CASE S = {}
      BY <3>1 DEF Clustering
    <3>2. CASE S # {}
      <4> DEFINE R == S \ FirstWindow(S)
      <4>1. R \in SUBSET S /\ R # S /\ R \in SUBSET Games
        BY <3>2, FirstWindowTakes
      <4>2. Cardinality(R) < Cardinality(S) /\ Cardinality(R) \in Nat
        BY <4>1, <1>0, FS_Subset
      <4>3. R \in Small(n)
        BY <4>1, <4>2, <1>0
      <4>4. R \in Small(n + 1)
        BY <4>3, <1>0
      <4>5. f[R] = Clustering(f, R)
        BY <2>1, <4>3
      <4>6. F[R] = Clustering(f, R)
        BY <4>4
      <4> HIDE DEF F, R
      <4> QED
        BY <4>5, <4>6 DEF Clustering, R
    <3> QED
      BY <3>1, <3>2
  <2>3. F = [S \in Small(n + 1) |-> Clustering(F, S)]
    <3> HIDE DEF Small
    <3> QED
      BY <2>2
  <2> QED
    BY <2>3
<1>3. Bad = {}
  <2> SUFFICES ASSUME Bad # {} PROVE FALSE
    OBVIOUS
  <2> HIDE DEF Clusters
  <2>1. PICK n \in Bad : \A k \in Bad : n <= k
    BY LeastNumber, Bad \subseteq Nat
  <2>2. n # 0 /\ n - 1 \in Nat
    BY <1>1
  <2>3. n - 1 \notin Bad
    BY <2>1, <2>2
  <2>4. Clusters(n - 1)
    BY <2>2, <2>3
  <2>5. Clusters((n - 1) + 1)
    BY <2>2, <2>4, <1>2
  <2> QED
    BY <2>5
<1>4. Clusters(Cardinality(Games))
  <2> HIDE DEF Clusters
  <2> QED
    BY <1>0, <1>3
<1>5. Small(Cardinality(Games)) = SUBSET Games
  BY <1>0, DayAssumption, FS_Subset
<1> QED
  BY <1>4, <1>5

LEMMA WindowsAre ==
    ASSUME NEW S \in SUBSET Games
    PROVE  Windows[S] = IF S = {} THEN <<>>
                        ELSE <<FirstWindow(S)>> \o Windows[S \ FirstWindow(S)]
<1>1. Windows = [T \in SUBSET Games |-> Clustering(Windows, T)]
  BY ClusteringExists DEF Windows, Clustering
<1>2. Windows[S] = Clustering(Windows, S)
  BY <1>1
<1> QED
  BY <1>2 DEF Clustering

\* A sequence of windows that partitions S: each game is in one window, within
\* Gap of its first, and a later window starts later by more than that.
Partitions(ws, S) ==
    /\ ws \in Seq((SUBSET S) \ {{}})
    /\ \A g \in S : \E i \in 1 .. Len(ws) : g \in ws[i]
    /\ \A i \in 1 .. Len(ws) : \A g \in ws[i] : Start[g] - FirstStart(ws[i]) <= Gap
    /\ \A i, j \in 1 .. Len(ws) : i < j => \A g \in ws[j] : Start[g] - FirstStart(ws[i]) > Gap
    /\ Len(ws) <= Cardinality(S)

LEMMA PartitionStep ==
    ASSUME NEW S \in SUBSET Games, S # {}, NEW v, Partitions(v, S \ FirstWindow(S))
    PROVE  Partitions(<<FirstWindow(S)>> \o v, S)
<1> DEFINE w == FirstWindow(S)
           R == S \ w
           ws == <<w>> \o v
<1>1. /\ w \in SUBSET S /\ w # {} /\ FirstStart(w) = FirstStart(S) /\ FirstStart(S) \in Nat
      /\ Gap \in Nat /\ \A g \in Games : Start[g] \in Nat
  BY FirstWindowTakes, FirstStartIsLeast, DayAssumption DEF Gap
<1>2. \A g \in S : g \in w <=> Start[g] - FirstStart(w) <= Gap
  BY <1>1 DEF FirstWindow
<1>3. /\ v \in Seq((SUBSET R) \ {{}})
      /\ \A g \in R : \E i \in 1 .. Len(v) : g \in v[i]
      /\ \A i \in 1 .. Len(v) : \A g \in v[i] : Start[g] - FirstStart(v[i]) <= Gap
      /\ \A i, j \in 1 .. Len(v) : i < j => \A g \in v[j] : Start[g] - FirstStart(v[i]) > Gap
      /\ Len(v) <= Cardinality(R)
  BY DEF Partitions
<1> HIDE DEF w
<1>4. v \in Seq((SUBSET S) \ {{}}) /\ w \in (SUBSET S) \ {{}} /\ Len(v) \in Nat
  <2>1. v \in Seq((SUBSET S) \ {{}})
    <3>1. (SUBSET R) \ {{}} \subseteq (SUBSET S) \ {{}}
      OBVIOUS
    <3> QED
      BY <1>3, <3>1, SeqMonotonic
  <2>2. w \in (SUBSET S) \ {{}}
    BY <1>1
  <2> QED
    BY <2>1, <2>2, LenProperties
<1>5. /\ ws \in Seq((SUBSET S) \ {{}}) /\ Len(ws) = Len(v) + 1 /\ ws[1] = w
      /\ \A i \in 1 .. Len(v) : ws[i + 1] = v[i]
  <2> DEFINE u == <<w>>
  <2>1. u \in Seq((SUBSET S) \ {{}}) /\ Len(u) = 1 /\ u[1] = w
    BY <1>4
  <2> HIDE DEF u
  <2> DEFINE E == (SUBSET S) \ {{}}
  <2>0. u \in Seq(E) /\ v \in Seq(E)
    BY <1>4, <2>1
  <2> HIDE DEF E
  <2>2a. /\ u \o v \in Seq(E) /\ Len(u \o v) = Len(u) + Len(v)
         /\ \A i \in 1 .. Len(u) + Len(v) : (u \o v)[i] = IF i <= Len(u) THEN u[i] ELSE v[i - Len(u)]
    BY <2>0, ConcatProperties
  <2>2. /\ u \o v \in Seq((SUBSET S) \ {{}}) /\ Len(u \o v) = 1 + Len(v)
        /\ \A i \in 1 .. 1 + Len(v) : (u \o v)[i] = IF i <= 1 THEN u[i] ELSE v[i - 1]
    BY <1>4, <2>1, <2>2a DEF E
  <2>3. (u \o v)[1] = w
    BY <1>4, <2>1, <2>2
  <2>4. ASSUME NEW i \in 1 .. Len(v) PROVE (u \o v)[i + 1] = v[i]
    <3>1. i + 1 \in 1 .. 1 + Len(v) /\ ~(i + 1 <= 1) /\ (i + 1) - 1 = i
      BY <1>4
    <3> QED
      BY <2>2, <3>1
  <2> QED
    BY <1>4, <2>2, <2>3, <2>4 DEF u
<1> HIDE DEF ws
<1>6. \A i \in 1 .. Len(ws) : i = 1 \/ (i - 1 \in 1 .. Len(v) /\ ws[i] = v[i - 1])
  <2> SUFFICES ASSUME NEW i \in 1 .. Len(ws), i # 1 PROVE i - 1 \in 1 .. Len(v) /\ ws[i] = v[i - 1]
    OBVIOUS
  <2>1. i - 1 \in 1 .. Len(v) /\ (i - 1) + 1 = i
    BY <1>4, <1>5
  <2> QED
    BY <1>5, <2>1
<1>7. \A g \in S : \E i \in 1 .. Len(ws) : g \in ws[i]
  <2> SUFFICES ASSUME NEW g \in S PROVE \E i \in 1 .. Len(ws) : g \in ws[i]
    OBVIOUS
  <2>1. CASE g \in w
    BY <2>1, <1>4, <1>5
  <2>2. CASE g \notin w
    <3>1. PICK i \in 1 .. Len(v) : g \in v[i]
      BY <2>2, <1>3
    <3>2. i + 1 \in 1 .. Len(ws) /\ g \in ws[i + 1]
      BY <3>1, <1>4, <1>5
    <3> QED
      BY <3>2
  <2> QED
    BY <2>1, <2>2
<1>8. ASSUME NEW i \in 1 .. Len(ws), NEW g \in ws[i] PROVE Start[g] - FirstStart(ws[i]) <= Gap
  <2>1. CASE i = 1
    BY <2>1, <1>1, <1>2, <1>5
  <2>2. CASE i # 1
    BY <2>2, <1>3, <1>6
  <2> QED
    BY <2>1, <2>2
<1>9. ASSUME NEW i \in 1 .. Len(ws), NEW j \in 1 .. Len(ws), i < j, NEW g \in ws[j]
      PROVE Start[g] - FirstStart(ws[i]) > Gap
  <2>1. j # 1 /\ j - 1 \in 1 .. Len(v) /\ ws[j] = v[j - 1] /\ i \in Nat /\ j \in Nat
    BY <1>6, <1>9, <1>4, <1>5
  <2>2. v[j - 1] \in SUBSET R
    BY <1>3, <2>1
  <2>3. CASE i = 1
    <3>1. g \in S /\ g \notin w
      BY <2>1, <2>2, <1>9
    <3>2. Start[g] \in Nat /\ FirstStart(w) \in Nat
      BY <1>1, <3>1
    <3> QED
      BY <3>1, <3>2, <1>1, <1>2, <1>5, <2>3
  <2>4. CASE i # 1
    <3>1. i - 1 \in 1 .. Len(v) /\ ws[i] = v[i - 1] /\ i - 1 < j - 1
      BY <2>1, <2>4, <1>6, <1>9
    <3> QED
      BY <3>1, <2>1, <1>3, <1>9
  <2> QED
    BY <2>3, <2>4
<1>10. Len(ws) <= Cardinality(S)
  <2>1. IsFiniteSet(S) /\ Cardinality(S) \in Nat
    BY DayAssumption, FS_Subset, FS_CardinalityType
  <2>2. R \in SUBSET S /\ R # S
    BY <1>1
  <2>3. Cardinality(R) \in Nat /\ Cardinality(R) < Cardinality(S)
    BY <2>1, <2>2, FS_Subset, FS_CardinalityType
  <2> HIDE DEF R
  <2> QED
    BY <2>1, <2>3, <1>3, <1>4, <1>5
<1> QED
  <2>1. Partitions(ws, S)
    BY <1>5, <1>7, <1>8, <1>9, <1>10 DEF Partitions
  <2> QED
    BY <2>1 DEF ws, w

\* cluster_game_windows puts every game into exactly one window, with the games
\* that start within Gap of the window's first, whatever the games and starts.
THEOREM WindowsPartition == \A S \in SUBSET Games : Partitions(Windows[S], S)
<1> DEFINE Bad == {S \in SUBSET Games : ~ Partitions(Windows[S], S)}
           T == {Cardinality(S) : S \in Bad}
<1>1. \A S \in SUBSET Games : IsFiniteSet(S) /\ Cardinality(S) \in Nat
  BY DayAssumption, FS_Subset, FS_CardinalityType
<1> SUFFICES ASSUME Bad # {} PROVE FALSE
  OBVIOUS
<1> HIDE DEF Bad
<1>2. T \in SUBSET Nat /\ T # {}
  BY <1>1 DEF Bad
<1>3. PICK n \in T : \A k \in T : n <= k
  BY <1>2, LeastNumber
<1>4. PICK S \in Bad : Cardinality(S) = n
  OBVIOUS
<1>5. S \in SUBSET Games /\ ~ Partitions(Windows[S], S)
  BY DEF Bad
<1>6. S # {}
  <2> SUFFICES ASSUME S = {} PROVE FALSE
    OBVIOUS
  <2>1. Windows[S] = <<>>
    BY <1>5, WindowsAre
  <2>2. Cardinality(S) = 0
    BY FS_EmptySet
  <2>3. Partitions(<<>>, S)
    BY <2>2 DEF Partitions
  <2> QED
    BY <2>1, <2>3, <1>5
<1> DEFINE R == S \ FirstWindow(S)
<1>7. R \in SUBSET S /\ R # S /\ R \in SUBSET Games
  BY <1>5, <1>6, FirstWindowTakes
<1>8. Cardinality(R) < Cardinality(S)
  BY <1>1, <1>5, <1>7, FS_Subset
<1>9. R \notin Bad
  <2> SUFFICES ASSUME R \in Bad PROVE FALSE
    OBVIOUS
  <2>1. Cardinality(R) \in T
    OBVIOUS
  <2>2. Cardinality(R) \in Nat /\ Cardinality(S) \in Nat
    BY <1>1, <1>5, <1>7
  <2> HIDE DEF R, T
  <2> QED
    BY <1>3, <1>4, <1>8, <2>1, <2>2
<1>10. Partitions(Windows[R], R)
  BY <1>7, <1>9 DEF Bad
<1> HIDE DEF R
<1>11. Windows[S] = <<FirstWindow(S)>> \o Windows[R]
  BY <1>5, <1>6, WindowsAre DEF R
<1> QED
  BY <1>5, <1>6, <1>10, <1>11, PartitionStep DEF R

-----------------------------------------------------------------------------
(* The invariants *)

ScoutState ==
    [at : {"idle", "fetch", "price", "plan", "run"}, by : {"nobody", "cron", "digest"},
     overdue : SUBSET (1 .. Cardinality(Games))]
DigestState ==
    [at : {"none", "waiting", "scouting", "ready", "late", "sent"}, since : Nat]

Typed ==
    /\ TypeOK
    /\ scout \in ScoutState /\ digest \in DigestState /\ now \in Nat

\* A process that is down has nothing in memory, but a digest that went out.
DownForgets ==
    ~up => /\ cron = {} /\ jobs = {} /\ ran = {} /\ plan = "none" /\ scout = NoScout
           /\ ~success /\ scouts = 0

\* The first scout of the day is the first of the cron jobs: until it has fired
\* nobody has scouted or waits to.  After a success none starts to fetch.
ScoutInv ==
    /\ DownForgets
    /\ (\/ "daily_digest" \in cron \/ "morning_scout" \in cron \/ ~up)
          => digest.at \in {"none", "sent"}
    /\ "morning_scout" \in cron => ~success /\ scout.at = "idle"
    /\ scout.at = "fetch" => ~success
    /\ scouts = IF success THEN 1 ELSE 0

\* Unless a fetch has moved the games, a job's number is its window's, every
\* window to come has its job, and after a scout a window without one was run or
\* is about to be.
WindowInv ==
    /\ plan = "none" => jobs = {}
    /\ plan # "moved" =>
         \A j \in jobs : j.i \in DOMAIN Windows[store] /\ j.games = Windows[store][j.i]
    /\ plan \in {"restored", "scouted"} =>
         \A i \in DOMAIN Windows[store] : Coming(Windows[store][i]) => <<"window", i>> \in Ids(jobs)
    /\ plan = "scouted" =>
         \A i \in DOMAIN Windows[store] :
            Windows[store][i] \subseteq ran \/ <<"window", i>> \in Ids(jobs) \/ i \in scout.overdue
    /\ scout.overdue \subseteq DOMAIN Windows[store]
    /\ scout.at # "run" => scout.overdue = {}

DayInv == Typed /\ ScoutInv /\ WindowInv

-----------------------------------------------------------------------------
(* The timetable *)

LEMMA CronTimes ==
    /\ Crons = {"morning_scout", "scout_retry_9", "scout_retry_10", "daily_digest"}
    /\ \A c \in Crons : CronAt[c] \in Nat /\ CronAt["morning_scout"] <= CronAt[c] /\ Grace(c) \in Nat
    /\ \A c \in Crons : CronAt["morning_scout"] + Grace("morning_scout") <= CronAt["daily_digest"] + Grace("daily_digest")
    /\ Wait \in Nat /\ Lead \in Nat /\ LateLead \in Nat
<1>1. Hour \in Nat
  BY DayAssumption
<1>2. Crons = {"morning_scout", "scout_retry_9", "scout_retry_10", "daily_digest"}
  BY DEF Crons, CronAt
<1> QED
  BY <1>1, <1>2 DEF CronAt, Grace, Scouts, Wait, Lead, LateLead

LEMMA Clustered ==
    ASSUME NEW S \in SUBSET Games
    PROVE  /\ DOMAIN Windows[S] \subseteq 1 .. Cardinality(Games)
           /\ \A i \in DOMAIN Windows[S] : Windows[S][i] \in (SUBSET Games) \ {{}}
           /\ Windows[S] = <<>> => DOMAIN Windows[S] = {}
<1>1. /\ Windows[S] \in Seq((SUBSET S) \ {{}})
      /\ Len(Windows[S]) <= Cardinality(S)
  BY WindowsPartition DEF Partitions
<1>2. /\ Cardinality(S) \in Nat /\ Cardinality(Games) \in Nat
      /\ Cardinality(S) <= Cardinality(Games)
  BY DayAssumption, FS_Subset, FS_CardinalityType
<1>3. /\ Len(Windows[S]) \in Nat /\ DOMAIN Windows[S] = 1 .. Len(Windows[S])
      /\ \A i \in 1 .. Len(Windows[S]) : Windows[S][i] \in (SUBSET S) \ {{}}
  BY <1>1, LenProperties, ElementOfSeq
<1>4. Windows[S] = <<>> => Len(Windows[S]) = 0
  OBVIOUS
<1> QED
  BY <1>1, <1>2, <1>3, <1>4

LEMMA RunTimes ==
    ASSUME NEW w \in (SUBSET Games) \ {{}}, NEW kind
    PROVE  RunAt(kind, w) \in Int
<1>1. FirstStart(w) \in Nat
  BY FirstStartIsLeast
<1> QED
  BY <1>1, CronTimes DEF RunAt

\* What _schedule_windows makes of the jobs there are.
LEMMA PlannedIs ==
    ASSUME NEW S \in SUBSET Games, NEW js \in SUBSET JobSet, now \in Nat
    PROVE  LET ws == Windows[S]
               new == Planned(js, ws)
           IN  /\ new \subseteq JobSet
               /\ (\A j \in js : j.i \in DOMAIN ws /\ j.games = ws[j.i])
                     => \A j \in new : j.i \in DOMAIN ws /\ j.games = ws[j.i]
               /\ \A i \in DOMAIN ws : Coming(ws[i]) => <<"window", i>> \in Ids(new)
               /\ \A i \in DOMAIN ws : <<"window", i>> \in Ids(new) \/ i \in Overdue(js, ws)
               /\ Overdue(js, ws) \subseteq DOMAIN ws
<1> DEFINE ws == Windows[S]
           new == Planned(js, ws)
           fresh == {Job(k, i, ws[i]) : k \in Kinds, i \in DOMAIN ws}
           kept == {j \in js : j.i \in DOMAIN ws}
           added == {j \in fresh : <<j.kind, j.i>> \notin Ids(js) /\ RunAt(j.kind, j.games) > now}
<1>1. /\ DOMAIN ws \subseteq 1 .. Cardinality(Games)
      /\ \A i \in DOMAIN ws : ws[i] \in (SUBSET Games) \ {{}}
      /\ ws = <<>> => DOMAIN ws = {}
  BY Clustered
<1>2. "window" \in Kinds
  BY DEF Kinds
<1>3. new = IF ws = <<>> THEN js ELSE kept \cup added
  BY DEF Planned
<1>4. \A j \in fresh : /\ j \in JobSet /\ j.i \in DOMAIN ws /\ j.games = ws[j.i]
  BY <1>1 DEF Job, JobSet
<1>5. \A i \in DOMAIN ws : LET j == Job("window", i, ws[i])
                          IN  j \in fresh /\ j.kind = "window" /\ j.i = i /\ j.games = ws[i]
  BY <1>2 DEF Job
<1> HIDE DEF ws, new, fresh
<1>6. new \subseteq JobSet
  BY <1>3, <1>4
<1>7. ASSUME \A j \in js : j.i \in DOMAIN ws /\ j.games = ws[j.i], NEW j \in new
      PROVE  j.i \in DOMAIN ws /\ j.games = ws[j.i]
  BY <1>3, <1>4, <1>7
<1>8. ASSUME NEW i \in DOMAIN ws
      PROVE  \/ <<"window", i>> \in Ids(new)
             \/ ~ Coming(ws[i]) /\ i \in Overdue(js, ws)
  <2> DEFINE j == Job("window", i, ws[i])
  <2>1. j \in fresh /\ j.kind = "window" /\ j.i = i /\ j.games = ws[i]
    BY <1>5
  <2>2. ws # <<>>
    BY <1>1
  <2> HIDE DEF j
  <2>3. CASE <<"window", i>> \in Ids(js)
    <3>1. PICK k \in js : k.kind = "window" /\ k.i = i
      BY <2>3 DEF Ids
    <3>2. k \in new
      BY <1>3, <2>2, <3>1
    <3> QED
      BY <3>1, <3>2 DEF Ids
  <2>4. CASE <<"window", i>> \notin Ids(js) /\ Coming(ws[i])
    <3>1. j \in new
      BY <1>3, <2>1, <2>2, <2>4 DEF Coming
    <3> QED
      BY <2>1, <3>1 DEF Ids
  <2>5. CASE <<"window", i>> \notin Ids(js) /\ ~ Coming(ws[i])
    <3>1. RunAt("window", ws[i]) \in Int
      BY <1>1, RunTimes
    <3> QED
      BY <2>5, <3>1 DEF Coming, Overdue
  <2> QED
    BY <2>3, <2>4, <2>5
<1>9. Overdue(js, ws) \subseteq DOMAIN ws
  BY DEF Overdue
<1> QED
  BY <1>6, <1>7, <1>8, <1>9 DEF ws, new

-----------------------------------------------------------------------------
(* Type correctness *)

LEMMA TypeInit == Init => Typed
<1> SUFFICES ASSUME Init PROVE Typed
  OBVIOUS
<1>1. scout \in ScoutState /\ digest \in DigestState /\ scout.at = "idle" /\ scout.by = "nobody"
      /\ scout = NoScout /\ digest.at = "none" /\ scout.overdue = {}
  BY DEF Init, ScoutState, DigestState, NoScout, NoDigest
<1>2. now \in Dawn .. Dusk /\ now \in Nat
  BY DayAssumption DEF Init
<1> QED
  BY <1>1, <1>2 DEF Init, Typed, TypeOK

LEMMA TypeStep == ASSUME Typed, ScoutInv, WindowInv, [Next]_vars PROVE Typed'
<1>0. /\ Dawn \in Nat /\ Dusk \in Nat
  BY DayAssumption
<1> USE <1>0 DEF process
<1>Tick. CASE Tick
  BY <1>Tick DEF Tick, Typed, TypeOK, ScoutState, DigestState, NoScout
<1>Crash. CASE Crash
  BY <1>Crash DEF Crash, Typed, TypeOK, ScoutState, DigestState, NoScout, NoDigest
<1>Boot. CASE Boot
  <2>1. jobs' \subseteq JobSet
    <3>1. {} \in SUBSET JobSet /\ store \in SUBSET Games /\ now \in Nat
      BY DEF Typed, TypeOK
    <3>2. Planned({}, Windows[store]) \subseteq JobSet
      BY <3>1, PlannedIs
    <3> QED
      BY <1>Boot, <3>2 DEF Boot
  <2> QED
    BY <1>Boot, <2>1 DEF Boot, Typed, TypeOK, ScoutState, DigestState
<1>Fire. CASE Fire
  <2>1. cron' \subseteq Crons
    BY <1>Fire DEF Fire, Typed, TypeOK
  <2>2. "daily_digest" \in DueCrons => digest.at \in {"none", "sent"}
    BY DEF DueCrons, ScoutInv
  <2>3. /\ scout' \in ScoutState /\ (scout'.at = "idle") = (scout' = NoScout)
        /\ scout'.by = "digest" => \/ scout'.at = "fetch" /\ digest' = [at |-> "scouting", since |-> now]
                                  \/ scout' = scout
    <3> DEFINE byCron == [NoScout EXCEPT !.at = "fetch", !.by = "cron"]
               byDigest == [NoScout EXCEPT !.at = "fetch", !.by = "digest"]
    <3>1. /\ byCron \in ScoutState /\ byCron.at = "fetch" /\ byCron.by = "cron"
          /\ byDigest \in ScoutState /\ byDigest.at = "fetch" /\ byDigest.by = "digest"
      BY DEF ScoutState, NoScout
    <3> HIDE DEF byCron, byDigest
    <3>2. \/ scout' = scout \/ scout' = byCron
          \/ scout' = byDigest /\ digest' = [at |-> "scouting", since |-> now]
      BY <1>Fire, Zenon DEF Fire, byCron, byDigest
    <3>3. scout \in ScoutState /\ (scout.at = "idle") = (scout = NoScout) /\ NoScout.at = "idle"
      BY DEF Typed, TypeOK, NoScout
    <3> QED
      BY <3>1, <3>2, <3>3
  <2>4. /\ scout.by = "digest" <=> digest.at = "scouting"
        /\ scout.at = "idle" => scout.by = "nobody"
    BY DEF Typed, TypeOK, NoScout
  <2>5. /\ digest' \in DigestState
        /\ (digest'.at = "scouting") = (scout'.by = "digest")
    <3>1. CASE "daily_digest" \notin DueCrons
      <4>1. digest' = digest /\ (scout' = scout \/ (scout.at = "idle" /\ scout'.by = "cron"))
        BY <1>Fire, <3>1 DEF Fire, NoScout
      <4> QED
        BY <4>1, <2>4 DEF Typed
    <3>2. CASE "daily_digest" \in DueCrons
      <4>1. scout.by # "digest"
        BY <3>2, <2>2, <2>4
      <4>2. \/ /\ digest'.at \in {"waiting", "ready"} /\ digest' \in DigestState
               /\ scout' = scout \/ scout'.by = "cron"
            \/ /\ digest'.at = "scouting" /\ digest' \in DigestState
               /\ scout'.by = "digest"
        <5>1. /\ [at |-> "waiting", since |-> now] \in DigestState
              /\ [at |-> "ready", since |-> now] \in DigestState
              /\ [at |-> "scouting", since |-> now] \in DigestState
          BY DEF DigestState, Typed
        <5>2. [NoScout EXCEPT !.at = "fetch", !.by = "cron"].by = "cron"
              /\ [NoScout EXCEPT !.at = "fetch", !.by = "digest"].by = "digest"
          BY DEF NoScout
        <5>3. \/ /\ digest' = [at |-> "waiting", since |-> now] \/ digest' = [at |-> "ready", since |-> now]
                 /\ scout' = scout \/ scout' = [NoScout EXCEPT !.at = "fetch", !.by = "cron"]
              \/ /\ scout' = [NoScout EXCEPT !.at = "fetch", !.by = "digest"]
                 /\ digest' = [at |-> "scouting", since |-> now]
          BY <1>Fire, <3>2 DEF Fire
        <5>4. /\ [at |-> "waiting", since |-> now].at = "waiting"
              /\ [at |-> "ready", since |-> now].at = "ready"
              /\ [at |-> "scouting", since |-> now].at = "scouting"
          OBVIOUS
        <5>5. CASE /\ digest' = [at |-> "waiting", since |-> now] \/ digest' = [at |-> "ready", since |-> now]
                   /\ scout' = scout \/ scout' = [NoScout EXCEPT !.at = "fetch", !.by = "cron"]
          BY <5>1, <5>2, <5>4, <5>5
        <5>6. CASE /\ scout' = [NoScout EXCEPT !.at = "fetch", !.by = "digest"]
                   /\ digest' = [at |-> "scouting", since |-> now]
          BY <5>1, <5>2, <5>4, <5>6
        <5> QED
          BY <5>3, <5>5, <5>6
      <4> QED
        BY <4>1, <4>2
    <3> QED
      BY <3>1, <3>2
  <2> QED
    BY <1>Fire, <2>1, <2>3, <2>5 DEF Fire, Typed, TypeOK, ScoutState, DigestState
<1>ScoutFails. CASE ScoutFails
  BY <1>ScoutFails DEF ScoutFails, Typed, TypeOK, ScoutState, DigestState, NoScout, Leave
<1>FetchGames. CASE FetchGames
  BY <1>FetchGames DEF FetchGames, Typed, TypeOK, ScoutState, DigestState, NoScout
<1>PriceSlate. CASE PriceSlate
  BY <1>PriceSlate DEF PriceSlate, Typed, TypeOK, ScoutState, DigestState, NoScout
<1>PlanWindows. CASE PlanWindows
  <2>1. jobs \in SUBSET JobSet /\ store \in SUBSET Games /\ now \in Nat
    BY DEF Typed, TypeOK
  <2>2. Planned(jobs, Windows[store]) \subseteq JobSet /\ Overdue(jobs, Windows[store]) \subseteq DOMAIN Windows[store]
    BY <2>1, PlannedIs
  <2>3. DOMAIN Windows[store] \subseteq 1 .. Cardinality(Games)
    BY <2>1, Clustered
  <2> QED
    BY <1>PlanWindows, <2>2, <2>3 DEF PlanWindows, Typed, TypeOK, ScoutState, DigestState, NoScout
<1>RunOverdue. CASE RunOverdue
  <2>1. PICK i \in scout.overdue : /\ scout' = [scout EXCEPT !.overdue = @ \ {i}]
                                  /\ ran' = ran \cup Windows[store][i]
    BY <1>RunOverdue DEF RunOverdue
  <2>2. Windows[store][i] \subseteq Games
    BY <2>1, Clustered DEF WindowInv, Typed, TypeOK
  <2> QED
    BY <1>RunOverdue, <2>1, <2>2 DEF RunOverdue, Typed, TypeOK, ScoutState, DigestState, NoScout
<1>ScoutEnds. CASE ScoutEnds
  BY <1>ScoutEnds DEF ScoutEnds, Typed, TypeOK, ScoutState, DigestState, NoScout, Leave
<1>DigestScout. CASE DigestScout
  <2>1. scout = NoScout /\ scout \in ScoutState /\ digest \in DigestState
    BY <1>DigestScout DEF DigestScout, Typed, TypeOK
  <2>2. \/ /\ scout' = [at |-> "fetch", by |-> "digest", overdue |-> {}]
           /\ digest' = [at |-> "scouting", since |-> digest.since]
        \/ scout' = NoScout /\ digest' = [at |-> "ready", since |-> digest.since]
    BY <1>DigestScout, <2>1 DEF DigestScout, DigestState, NoScout
  <2>3. /\ scout' \in ScoutState /\ (scout'.at = "idle") = (scout' = NoScout)
        /\ digest' \in DigestState /\ (digest'.at = "scouting") = (scout'.by = "digest")
    BY <2>1, <2>2 DEF ScoutState, DigestState, NoScout
  <2>4. UNCHANGED <<now, listed, store, up, cron, jobs, success, plan, ran>>
    BY <1>DigestScout DEF DigestScout
  <2> QED
    BY <2>3, <2>4 DEF Typed, TypeOK, ScoutState, DigestState
<1>WaitTimesOut. CASE WaitTimesOut
  BY <1>WaitTimesOut DEF WaitTimesOut, Typed, TypeOK, ScoutState, DigestState, NoScout
<1>SendDigest. CASE SendDigest
  BY <1>SendDigest DEF SendDigest, Typed, TypeOK, ScoutState, DigestState, NoScout
<1>Sleep. ASSUME NEW t \in Dawn..Dusk, Sleep(t) PROVE Typed'
  <2>1. GamesOf(jobs \ jobs') \subseteq Games
    BY <1>Sleep DEF GamesOf, Typed, TypeOK, JobSet
  <2> QED
    BY <1>Sleep, <2>1 DEF Sleep, Typed, TypeOK, ScoutState, DigestState, NoScout
<1>ListChanges. ASSUME NEW g \in Games, ListChanges(g) PROVE Typed'
  BY <1>ListChanges DEF ListChanges, Typed, TypeOK, ScoutState, DigestState
<1>FireJob. ASSUME NEW j \in jobs, FireJob(j) PROVE Typed'
  <2>1. GamesOf({j}) \subseteq Games
    BY DEF GamesOf, Typed, TypeOK, JobSet
  <2>2. jobs' \subseteq JobSet /\ ran' \subseteq Games
    BY <1>FireJob, <2>1 DEF FireJob, Typed, TypeOK
  <2>3. UNCHANGED <<now, listed, store, up, cron, success, scout, digest, plan>>
    BY <1>FireJob DEF FireJob
  <2> QED
    BY <2>2, <2>3 DEF Typed, TypeOK, ScoutState, DigestState
<1>Stutter. CASE UNCHANGED vars
  BY <1>Stutter DEF vars, Typed, TypeOK, ScoutState, DigestState
<1> QED
  BY <1>Stutter, <1>Sleep, <1>ListChanges, <1>FireJob,
     <1>Tick, <1>Crash, <1>Boot, <1>Fire, <1>ScoutFails, <1>FetchGames, <1>PriceSlate, <1>PlanWindows, <1>RunOverdue, <1>ScoutEnds, <1>DigestScout, <1>WaitTimesOut, <1>SendDigest DEF Next, ScoutStep

-----------------------------------------------------------------------------
(* One scout a day *)

LEMMA ScoutInit == Init => ScoutInv
  BY DEF Init, ScoutInv, DownForgets, NoDigest, NoScout

\* The morning scout is the first job of the day.
LEMMA MorningFirst ==
    ASSUME Typed, "morning_scout" \in cron, DueCrons # {}
    PROVE  "morning_scout" \in DueCrons
<1>1. PICK c \in cron : CronAt[c] <= now
  BY DEF DueCrons
<1>2. c \in Crons /\ CronAt[c] \in Nat /\ CronAt["morning_scout"] \in Nat /\ now \in Nat
  BY CronTimes DEF Typed, TypeOK
<1>3. CronAt["morning_scout"] <= now
  BY <1>1, <1>2, CronTimes
<1> QED
  BY <1>3 DEF DueCrons

LEMMA ScoutInvStep == ASSUME Typed, ScoutInv, WindowInv, [Next]_vars PROVE ScoutInv'
<1>0. /\ success \in BOOLEAN /\ up \in BOOLEAN
      /\ scout.at = "idle" <=> scout = NoScout
      /\ scout.by = "digest" <=> digest.at = "scouting"
  BY DEF Typed, TypeOK
<1> USE <1>0 DEF process, ScoutInv, DownForgets
<1>Tick. CASE Tick
  BY <1>Tick DEF Tick
<1>Crash. CASE Crash
  BY <1>Crash DEF Crash, NoDigest, NoScout
<1>Boot. CASE Boot
  BY <1>Boot DEF Boot
<1>ScoutFails. CASE ScoutFails
  BY <1>ScoutFails DEF ScoutFails, Leave, NoScout, Typed, ScoutState, DigestState
<1>FetchGames. CASE FetchGames
  BY <1>FetchGames DEF FetchGames, Typed, ScoutState, NoScout
<1>PriceSlate. CASE PriceSlate
  BY <1>PriceSlate DEF PriceSlate, Typed, ScoutState, NoScout
<1>PlanWindows. CASE PlanWindows
  BY <1>PlanWindows DEF PlanWindows, Typed, ScoutState, NoScout
<1>RunOverdue. CASE RunOverdue
  BY <1>RunOverdue DEF RunOverdue, Typed, ScoutState, NoScout
<1>ScoutEnds. CASE ScoutEnds
  BY <1>ScoutEnds DEF ScoutEnds, Leave, NoScout, Typed, ScoutState, DigestState
<1>DigestScout. CASE DigestScout
  BY <1>DigestScout DEF DigestScout, Wanted, NoScout, Typed, DigestState
<1>WaitTimesOut. CASE WaitTimesOut
  BY <1>WaitTimesOut DEF WaitTimesOut, Typed, DigestState
<1>SendDigest. CASE SendDigest
  BY <1>SendDigest DEF SendDigest, Typed, DigestState
<1>Fire. CASE Fire
  <2>1. /\ DueCrons # {} /\ DueCrons \subseteq cron /\ cron' = cron \ DueCrons
        /\ UNCHANGED <<up, jobs, ran, plan, success, scouts>>
    BY <1>Fire DEF Fire, DueCrons
  <2>2. up /\ "morning_scout" \notin cron'
    BY <2>1, MorningFirst
  <2>3. "daily_digest" \in cron' => digest'.at \in {"none", "sent"}
    <3>1. "daily_digest" \in cron' => "daily_digest" \in cron /\ "daily_digest" \notin DueCrons
      BY <2>1
    <3>2. "daily_digest" \notin DueCrons => digest' = digest
      BY <1>Fire DEF Fire
    <3> QED
      BY <3>1, <3>2
  <2>4. scout'.at = "fetch" => ~ success
    <3>1. \/ scout' = scout
          \/ \E c \in DueCrons : Wanted(c)
          \/ ~ success
      BY <1>Fire DEF Fire
    <3>2. \A c \in DueCrons : Wanted(c) => ~ success
      BY <2>1 DEF Wanted
    <3> QED
      BY <3>1, <3>2
  <2> QED
    BY <2>1, <2>2, <2>3, <2>4
<1>Sleep. ASSUME NEW t \in Dawn..Dusk, Sleep(t) PROVE ScoutInv'
  BY <1>Sleep DEF Sleep
<1>ListChanges. ASSUME NEW g \in Games, ListChanges(g) PROVE ScoutInv'
  BY <1>ListChanges DEF ListChanges
<1>FireJob. ASSUME NEW j \in jobs, FireJob(j) PROVE ScoutInv'
  BY <1>FireJob DEF FireJob
<1>Stutter. CASE UNCHANGED vars
  BY <1>Stutter DEF vars
<1> QED
  BY <1>Stutter, <1>Sleep, <1>ListChanges, <1>FireJob, <1>Fire,
     <1>Tick, <1>Crash, <1>Boot, <1>ScoutFails, <1>FetchGames, <1>PriceSlate, <1>PlanWindows, <1>RunOverdue, <1>ScoutEnds, <1>DigestScout, <1>WaitTimesOut, <1>SendDigest DEF Next, ScoutStep

-----------------------------------------------------------------------------
(* The windows *)

LEMMA WindowInit == Init => WindowInv
  BY DEF Init, WindowInv, NoScout

\* Nothing of the windows changes.
LEMMA WindowsAlone ==
    ASSUME WindowInv, UNCHANGED <<now, store, jobs, plan, ran>>,
           scout'.overdue = scout.overdue, scout'.at # "run" => scout'.overdue = {}
    PROVE  WindowInv'
  BY DEF WindowInv, Coming, Ids, RunAt, FirstStart, Windows

\* Time passes: no window is to come that was not.
LEMMA ComingBefore ==
    ASSUME Typed, now' \in Nat, now <= now', NEW w \in (SUBSET Games) \ {{}}, RunAt("window", w) > now'
    PROVE  RunAt("window", w) > now
<1>1. RunAt("window", w) \in Int /\ now \in Nat
  BY RunTimes DEF Typed
<1> QED
  BY <1>1

\* A window job whose window's games were run -- by firing it, or by sleeping
\* through it -- may go.
LEMMA JobsGone ==
    ASSUME Typed, WindowInv, Typed', UNCHANGED <<store, plan>>, jobs' \subseteq jobs, now <= now',
           \A j \in jobs \ jobs' : RunAt(j.kind, j.games) <= now',
           ran' = ran \cup GamesOf(jobs \ jobs'),
           scout'.overdue = scout.overdue, scout'.at # "run" => scout'.overdue = {}
    PROVE  WindowInv'
<1> DEFINE ws == Windows[store]
<1>1. /\ store \in SUBSET Games /\ jobs \subseteq JobSet /\ now \in Nat /\ now' \in Nat
      /\ \A i \in DOMAIN ws : ws[i] \in (SUBSET Games) \ {{}}
  BY Clustered DEF Typed, TypeOK
<1>2. ws' = ws
  OBVIOUS
<1> HIDE DEF ws
<1>3. ASSUME NEW i \in DOMAIN ws, <<"window", i>> \in Ids(jobs), plan # "moved"
      PROVE  <<"window", i>> \in Ids(jobs') \/ (ws[i] \subseteq ran' /\ ~(RunAt("window", ws[i]) > now'))
  <2>1. PICK j \in jobs : j.kind = "window" /\ j.i = i
    BY <1>3 DEF Ids
  <2>2. j.games = ws[i]
    BY <1>3, <2>1 DEF WindowInv, ws
  <2>3. CASE j \in jobs'
    BY <2>1, <2>3 DEF Ids
  <2>4. CASE j \notin jobs'
    <3>1. RunAt("window", ws[i]) <= now'
      BY <2>1, <2>2, <2>4
    <3>2. ws[i] \subseteq GamesOf(jobs \ jobs')
      BY <2>1, <2>2, <2>4 DEF GamesOf
    <3>3. RunAt("window", ws[i]) \in Int
      BY <1>1, RunTimes
    <3>4. ws[i] \subseteq ran'
      BY <3>2
    <3>5. ~(RunAt("window", ws[i]) > now')
      BY <1>1, <3>1, <3>3
    <3> QED
      BY <3>4, <3>5
  <2> QED
    BY <2>3, <2>4
<1>4. ASSUME plan \in {"restored", "scouted"}, NEW i \in DOMAIN ws, RunAt("window", ws[i]) > now'
      PROVE  <<"window", i>> \in Ids(jobs')
  <2>1. Coming(ws[i])
    BY <1>1, <1>4, ComingBefore DEF Coming
  <2>2. <<"window", i>> \in Ids(jobs)
    BY <1>4, <2>1 DEF WindowInv, ws
  <2> QED
    BY <1>3, <1>4, <2>2
<1>5. ASSUME plan = "scouted", NEW i \in DOMAIN ws
      PROVE  ws[i] \subseteq ran' \/ <<"window", i>> \in Ids(jobs') \/ i \in scout.overdue
  <2>1. ws[i] \subseteq ran \/ <<"window", i>> \in Ids(jobs) \/ i \in scout.overdue
    BY <1>5 DEF WindowInv, ws
  <2> QED
    BY <1>3, <1>5, <2>1
<1>6. /\ plan' = "none" => jobs' = {}
      /\ plan' # "moved" => \A j \in jobs' : j.i \in DOMAIN ws /\ j.games = ws[j.i]
      /\ scout'.overdue \subseteq DOMAIN ws
  BY DEF WindowInv, ws
<1>7. Ids(jobs)' = Ids(jobs')
  BY DEF Ids
<1> QED
  BY <1>2, <1>4, <1>5, <1>6, <1>7 DEF WindowInv, Coming, ws

LEMMA WindowInvStep == ASSUME Typed, Typed', ScoutInv, WindowInv, [Next]_vars PROVE WindowInv'
<1>0. /\ jobs \in SUBSET JobSet /\ store \in SUBSET Games /\ listed \in SUBSET Games /\ now \in Nat
      /\ scout \in ScoutState
  BY DEF Typed, TypeOK
<1> USE <1>0 DEF process
<1>Tick. CASE Tick
  <2>1. GamesOf(jobs \ jobs') = {} /\ jobs' = jobs
    BY <1>Tick DEF Tick, GamesOf
  <2>2. /\ UNCHANGED <<store, plan, scout>> /\ ran' = ran \cup GamesOf(jobs \ jobs')
        /\ jobs' \subseteq jobs /\ jobs \ jobs' = {} /\ now <= now'
    BY <1>Tick, <2>1 DEF Tick
  <2>3. scout'.overdue = scout.overdue /\ (scout'.at # "run" => scout'.overdue = {})
    BY <2>2 DEF WindowInv
  <2> QED
    BY <2>2, <2>3, JobsGone
<1>Crash. CASE Crash
  BY <1>Crash DEF Crash, WindowInv, NoScout
<1>Boot. CASE Boot
  <2>1. {} \in SUBSET JobSet
    OBVIOUS
  <2>2. jobs = {} /\ scout = NoScout /\ scout.overdue = {}
    BY <1>Boot DEF Boot, ScoutInv, DownForgets, NoScout
  <2>3. CASE jobs' = {}
    BY <1>Boot, <2>2, <2>3 DEF Boot, WindowInv
  <2>4. CASE jobs' # {}
    <3>1. jobs' = Planned({}, Windows[store]) /\ plan' = "restored" /\ now' = now /\ store' = store
      BY <1>Boot, <2>4 DEF Boot
    <3>2. /\ \A j \in jobs' : j.i \in DOMAIN Windows[store] /\ j.games = Windows[store][j.i]
          /\ \A i \in DOMAIN Windows[store] : Coming(Windows[store][i]) => <<"window", i>> \in Ids(jobs')
      BY <2>1, <3>1, PlannedIs
    <3> QED
      BY <1>Boot, <2>2, <3>1, <3>2 DEF Boot, WindowInv, Coming, Ids
  <2> QED
    BY <2>3, <2>4
<1>PlanWindows. CASE PlanWindows
  <2> DEFINE ws == Windows[store]
  <2>1. /\ now' = now /\ store' = store /\ ran' = ran /\ jobs' = Planned(jobs, ws)
        /\ plan' = IF plan = "moved" THEN plan ELSE "scouted"
        /\ scout'.overdue = Overdue(jobs, ws) /\ scout'.at = "run"
    BY <1>PlanWindows DEF PlanWindows, ScoutState
  <2>2. /\ (\A j \in jobs : j.i \in DOMAIN ws /\ j.games = ws[j.i])
              => \A j \in jobs' : j.i \in DOMAIN ws /\ j.games = ws[j.i]
        /\ \A i \in DOMAIN ws : Coming(ws[i]) => <<"window", i>> \in Ids(jobs')
        /\ \A i \in DOMAIN ws : <<"window", i>> \in Ids(jobs') \/ i \in Overdue(jobs, ws)
        /\ Overdue(jobs, ws) \subseteq DOMAIN ws
    BY <2>1, PlannedIs
  <2>3. plan # "moved" => \A j \in jobs : j.i \in DOMAIN ws /\ j.games = ws[j.i]
    BY DEF WindowInv
  <2>4. ws' = ws /\ Ids(jobs)' = Ids(jobs') /\ plan' # "none" /\ (plan' # "moved" => plan # "moved")
    BY <2>1 DEF Ids, WindowInv
  <2>5. \A i \in DOMAIN ws : Coming(ws[i])' = Coming(ws[i])
    BY <2>1 DEF Coming
  <2> HIDE DEF ws
  <2>6. /\ plan' # "moved" => \A j \in jobs' : j.i \in DOMAIN ws' /\ j.games = ws'[j.i]
        /\ \A i \in DOMAIN ws' : (Coming(ws[i]))' => <<"window", i>> \in Ids(jobs)'
        /\ \A i \in DOMAIN ws' : <<"window", i>> \in Ids(jobs)' \/ i \in scout'.overdue
        /\ scout'.overdue \subseteq DOMAIN ws'
    BY <2>1, <2>2, <2>3, <2>4, <2>5
  <2> QED
    BY <2>1, <2>4, <2>6 DEF WindowInv, ws
<1>FetchGames. CASE FetchGames
  <2>1. scout.overdue = {} /\ scout'.overdue = {}
    BY <1>FetchGames DEF FetchGames, WindowInv, ScoutState
  <2>2. CASE store' = store
    <3>1. UNCHANGED <<now, store, jobs, plan, ran>>
      BY <1>FetchGames, <2>2 DEF FetchGames
    <3> QED
      BY <2>1, <3>1, WindowsAlone
  <2>3. CASE store' # store /\ jobs = {}
    <3>1. plan' = "none" /\ jobs' = {}
      BY <1>FetchGames, <2>3 DEF FetchGames
    <3> QED
      BY <2>1, <3>1 DEF WindowInv
  <2>4. CASE store' # store /\ jobs # {}
    <3>1. plan' = "moved"
      BY <1>FetchGames, <2>4 DEF FetchGames
    <3> QED
      BY <2>1, <3>1 DEF WindowInv
  <2> QED
    BY <2>2, <2>3, <2>4
<1>RunOverdue. CASE RunOverdue
  <2>1. PICK i \in scout.overdue : /\ scout' = [scout EXCEPT !.overdue = @ \ {i}]
                                  /\ ran' = ran \cup Windows[store][i]
    BY <1>RunOverdue DEF RunOverdue
  <2>2. scout'.overdue = scout.overdue \ {i} /\ scout'.at = "run"
    BY <1>RunOverdue, <2>1 DEF RunOverdue, ScoutState
  <2>3. UNCHANGED <<now, store, jobs, plan>> /\ Ids(jobs)' = Ids(jobs)
    BY <1>RunOverdue DEF RunOverdue, Ids
  <2>4. \A k \in DOMAIN Windows[store] : (Coming(Windows[store][k]))' = Coming(Windows[store][k])
    BY <2>3 DEF Coming
  <2> QED
    BY <2>1, <2>2, <2>3, <2>4 DEF WindowInv
<1>ScoutFails. CASE ScoutFails
  <2>1. scout.overdue = {} /\ scout'.overdue = {}
    BY <1>ScoutFails DEF ScoutFails, Leave, WindowInv, NoScout
  <2> QED
    BY <1>ScoutFails, <2>1, WindowsAlone DEF ScoutFails
<1>ScoutEnds. CASE ScoutEnds
  <2>1. scout.overdue = {} /\ scout'.overdue = {}
    BY <1>ScoutEnds DEF ScoutEnds, Leave, WindowInv, NoScout
  <2> QED
    BY <1>ScoutEnds, <2>1, WindowsAlone DEF ScoutEnds
<1>PriceSlate. CASE PriceSlate
  <2>1. scout.overdue = {} /\ scout'.overdue = {}
    BY <1>PriceSlate DEF PriceSlate, WindowInv, ScoutState
  <2> QED
    BY <1>PriceSlate, <2>1, WindowsAlone DEF PriceSlate
<1>DigestScout. CASE DigestScout
  <2>1. scout.overdue = {} /\ scout'.overdue = {}
    BY <1>DigestScout DEF DigestScout, WindowInv, NoScout
  <2> QED
    BY <1>DigestScout, <2>1, WindowsAlone DEF DigestScout
<1>Fire. CASE Fire
  <2>1. scout' = scout \/ (scout.at = "idle" /\ scout'.overdue = {})
    BY <1>Fire DEF Fire, NoScout
  <2>2. scout'.overdue = scout.overdue /\ (scout'.at # "run" => scout'.overdue = {})
    BY <2>1 DEF WindowInv
  <2> QED
    BY <1>Fire, <2>2, WindowsAlone DEF Fire
<1>WaitTimesOut. CASE WaitTimesOut
  BY <1>WaitTimesOut, WindowsAlone DEF WaitTimesOut, WindowInv
<1>SendDigest. CASE SendDigest
  BY <1>SendDigest, WindowsAlone DEF SendDigest, WindowInv
<1>ListChanges. ASSUME NEW g \in Games, ListChanges(g) PROVE WindowInv'
  BY <1>ListChanges, WindowsAlone DEF ListChanges, WindowInv
<1>Sleep. ASSUME NEW t \in Dawn..Dusk, Sleep(t) PROVE WindowInv'
  <2>1. \A j \in jobs : RunAt(j.kind, j.games) \in Int
    BY RunTimes DEF JobSet
  <2>2. t \in Nat /\ now' = t /\ now <= t
    BY <1>Sleep, DayAssumption DEF Sleep
  <2>3. /\ jobs' \subseteq jobs /\ \A j \in jobs \ jobs' : RunAt(j.kind, j.games) <= now'
    BY <1>Sleep, <2>1, <2>2 DEF Sleep
  <2> QED
    BY <1>Sleep, <2>2, <2>3, JobsGone DEF Sleep, WindowInv
<1>FireJob. ASSUME NEW j \in jobs, FireJob(j) PROVE WindowInv'
  <2>1. jobs \ jobs' = {j} /\ jobs' \subseteq jobs /\ RunAt(j.kind, j.games) <= now' /\ now <= now'
    BY <1>FireJob DEF FireJob, DueJobs
  <2> QED
    BY <1>FireJob, <2>1, JobsGone DEF FireJob, WindowInv
<1>Stutter. CASE UNCHANGED vars
  BY <1>Stutter, WindowsAlone DEF vars, WindowInv
<1> QED
  BY <1>Stutter, <1>Sleep, <1>ListChanges, <1>FireJob, <1>Fire, <1>Tick, <1>Crash, <1>Boot,
     <1>ScoutFails, <1>FetchGames, <1>PriceSlate, <1>PlanWindows, <1>RunOverdue, <1>ScoutEnds,
     <1>DigestScout, <1>WaitTimesOut, <1>SendDigest DEF Next, ScoutStep

-----------------------------------------------------------------------------
(* The theorems *)

\* The day is well typed, only its first scout fetches games, and the windows'
\* jobs follow the clustering, for any games and starts, sleeps and restarts.
THEOREM DayHolds == Spec => []DayInv
<1>1. Init => DayInv
  BY TypeInit, ScoutInit, WindowInit DEF DayInv
<1>2. DayInv /\ [Next]_vars => DayInv'
  BY TypeStep, ScoutInvStep, WindowInvStep DEF DayInv
<1> QED
  BY <1>1, <1>2, PTL DEF Spec

\* At most one scout fetches games in a process's day (_scout_lock and
\* _last_scout_success), whatever a sleep makes due together.
THEOREM OneScoutADay == Spec => []OneScout
<1>1. DayInv => OneScout
  BY DEF DayInv, ScoutInv, OneScout
<1> QED
  BY <1>1, DayHolds, PTL

\* Once planned, every window still to come has its job and there is no other,
\* through sleeps and restarts, unless a fetch moved the games since.
THEOREM WindowsAreKept == Spec => []WindowsKept
<1>1. DayInv => WindowsKept
  <2> SUFFICES ASSUME DayInv, plan \in {"restored", "scouted"}
               PROVE  {w \in {j.games : j \in {k \in jobs : k.kind = "window"}} : Coming(w)}
                        = {w \in Range(Windows[store]) : Coming(w)}
    BY DEF WindowsKept
  <2>1. ASSUME NEW j \in jobs, j.kind = "window" PROVE j.games \in Range(Windows[store])
    BY DEF DayInv, WindowInv, Range
  <2>2. ASSUME NEW i \in DOMAIN Windows[store], Coming(Windows[store][i])
        PROVE  \E j \in jobs : j.kind = "window" /\ j.games = Windows[store][i]
    <3>1. <<"window", i>> \in Ids(jobs)
      BY <2>2 DEF DayInv, WindowInv
    <3>2. PICK j \in jobs : j.kind = "window" /\ j.i = i
      BY <3>1 DEF Ids
    <3>3. j.games = Windows[store][i]
      BY <3>2 DEF DayInv, WindowInv
    <3> QED
      BY <3>2, <3>3
  <2>3. ASSUME NEW w \in Range(Windows[store]), Coming(w)
        PROVE  \E j \in jobs : j.kind = "window" /\ j.games = w
    <3>1. PICK i \in DOMAIN Windows[store] : w = Windows[store][i]
      BY DEF Range
    <3> QED
      BY <2>2, <2>3, <3>1
  <2> QED
    BY <2>1, <2>3
<1> QED
  BY <1>1, DayHolds, PTL

\* After a scout no game is left out: its window was run, or is to come, or the
\* machine slept through it.
THEOREM NobodyLeftOut == Spec => []NoGameLeftOut
<1>1. DayInv => NoGameLeftOut
  <2> SUFFICES ASSUME DayInv, plan = "scouted", scout.at # "run", NEW w \in Range(Windows[store])
               PROVE  Coming(w) \/ w \subseteq ran \cup GamesOf(DueJobs)
    BY DEF NoGameLeftOut
  <2>1. PICK i \in DOMAIN Windows[store] : w = Windows[store][i]
    BY DEF Range
  <2>2. w \subseteq ran \/ <<"window", i>> \in Ids(jobs)
    BY <2>1 DEF DayInv, WindowInv
  <2>3. ASSUME <<"window", i>> \in Ids(jobs) PROVE Coming(w) \/ w \subseteq GamesOf(DueJobs)
    <3>1. PICK j \in jobs : j.kind = "window" /\ j.i = i
      BY <2>3 DEF Ids
    <3>2. j.games = w
      BY <2>1, <3>1 DEF DayInv, WindowInv
    <3>3. RunAt("window", w) \in Int /\ now \in Nat
      BY <2>1, Clustered, RunTimes DEF DayInv, Typed, TypeOK
    <3>4. CASE RunAt("window", w) > now
      BY <3>4 DEF Coming
    <3>5. CASE RunAt("window", w) <= now
      <4>1. j \in DueJobs
        BY <3>1, <3>2, <3>5 DEF DueJobs
      <4> QED
        BY <3>1, <3>2, <4>1 DEF GamesOf
    <3> QED
      BY <3>3, <3>4, <3>5
  <2> QED
    BY <2>2, <2>3
<1> QED
  BY <1>1, DayHolds, PTL
=============================================================================
