------------------------------ MODULE FeedProofs ------------------------------
(***************************************************************************)
(* Whatever fetches overlap, a book's current quote is made of its series, *)
(* and is the last of it except after a store over a row that had changed; *)
(* the series is a record of changes, and no in-play price replaces the    *)
(* quote a game was last offered at before it started.  The props' history *)
(* likewise ends with what the book last showed.                           *)
(***************************************************************************)
EXTENDS OddsFeed, FiniteSetTheorems, SequenceTheorems, WellFoundedInduction, TLAPS

-----------------------------------------------------------------------------
(* Types *)

GameRow ==
    [status : {"absent", "scheduled", "in_progress", "final"}, day : Int,
     start : Commences \cup {None}, known : BOOLEAN]
Answers == {<<>>} \cup UNION {[listed -> Quotes] : listed \in SUBSET Books}
Snap == [quote : Quotes, captured : 0 .. MaxTime, fetched : 0 .. MaxTime]
FetchState ==
    [pc : {"idle", "ensure", "create", "find", "edited", "store"}, quotes : Answers,
     commence : Commences \cup {0}, at : 0 .. MaxTime, game : 0 .. MaxGames, row : GameRow,
     seen : Row \cup {None}, attempt : {1, 2}]

Typed ==
    /\ now \in 0 .. MaxTime /\ sport \in {"combat", "team"} /\ moves \in Nat
    /\ feed \in [commence : Commences, quotes : Answers]
    /\ games \in [GameIds -> GameRow]
    /\ odds \in [GameIds -> [Books -> Row \cup {None}]]
    /\ series \in [GameIds -> [Books -> Seq(Snap)]]
    /\ fetch \in [Fetchers -> FetchState]
    /\ fetches \in 0 .. MaxFetches /\ stale \in SUBSET (GameIds \X Books)
    /\ restarted \in SUBSET GameIds /\ lost \in Nat

LEMMA AnswerIs ==
    ASSUME NEW q \in Answers
    PROVE  DOMAIN q \in SUBSET Books /\ \A b \in DOMAIN q : q[b] \in Quotes
<1>1. CASE q = <<>>
  BY <1>1
<1>2. CASE q \in UNION {[listed -> Quotes] : listed \in SUBSET Books}
  BY <1>2
<1> QED
  BY <1>1, <1>2 DEF Answers

LEMMA AnswerMade ==
    ASSUME NEW listed \in SUBSET Books, NEW q \in [listed -> Quotes]
    PROVE  q \in Answers
  BY DEF Answers

\* A nonempty set of numbers up to n has a least and a greatest.
LEMMA LeastNumber ==
    ASSUME NEW S \in SUBSET Nat, S # {}
    PROVE  Min(S) \in S /\ \A k \in S : Min(S) <= k
<1> DEFINE R == {p \in Nat \X Nat : p[1] < p[2]}
<1>1. IsWellFoundedOn(R, Nat)
  <2>1. R = OpToRel(<, Nat)
    BY DEF OpToRel
  <2> QED
    BY <2>1, NatLessThanWellFounded
<1>2. ASSUME NEW k \in Nat, NEW n \in Nat, k < n PROVE <<k, n>> \in R
  <2> DEFINE p == <<k, n>>
  <2>1. p \in Nat \X Nat /\ p[1] = k /\ p[2] = n
    OBVIOUS
  <2>2. p[1] < p[2]
    BY <1>2, <2>1
  <2> HIDE DEF p
  <2>3. p \in R
    BY <2>1, <2>2
  <2> QED
    BY <2>3 DEF p
<1> HIDE DEF R
<1>3. PICK n \in S : \A k \in S : <<k, n>> \notin R
  BY <1>1, WFMin
<1>4. ASSUME NEW k \in S PROVE n <= k
  <2>1. k \in Nat /\ n \in Nat /\ <<k, n>> \notin R
    BY <1>3
  <2>2. ~(k < n)
    BY <1>2, <2>1
  <2> QED
    BY <2>1, <2>2
<1> QED
  BY <1>4 DEF Min

LEMMA GreatestNumber ==
    ASSUME NEW n \in Nat, NEW S \in SUBSET (1 .. n), S # {}
    PROVE  Max(S) \in S /\ \A k \in S : k <= Max(S)
<1> DEFINE T == {n - k : k \in S}
<1>1. T \in SUBSET Nat /\ T # {}
  <2>1. \A k \in S : n - k \in Nat
    <3> SUFFICES ASSUME NEW k \in S PROVE n - k \in Nat
      OBVIOUS
    <3>1. k \in 1 .. n
      OBVIOUS
    <3> QED
      BY <3>1
  <2> QED
    BY <2>1
<1> HIDE DEF T
<1>2. Min(T) \in T /\ (\A k \in T : Min(T) <= k)
  BY <1>1, LeastNumber, Zenon
<1> DEFINE m == Min(T)
<1> HIDE DEF m
<1>3. PICK s \in S : m = n - s
  BY <1>2 DEF T, m
<1>4. ASSUME NEW k \in S PROVE k <= s
  <2>1. n - k \in T
    BY DEF T
  <2>2. n - s <= n - k
    BY <1>2, <1>3, <2>1 DEF m
  <2>3. n \in Int /\ s \in Int /\ k \in Int
    OBVIOUS
  <2> QED
    BY <2>2, <2>3
<1>5. \A k \in S : s >= k
  BY <1>4
<1> QED
  BY <1>5 DEF Max

LEMMA IdleTyped ==
    ASSUME OddsAssumption
    PROVE  Idle \in FetchState /\ NoGame \in GameRow
<1>1. 0 \in 0 .. MaxTime /\ 0 \in 0 .. MaxGames
  BY DEF OddsAssumption
<1>2. NoGame \in GameRow
  BY DEF NoGame, GameRow
<1>3. <<>> \in Answers
  BY DEF Answers
<1> QED
  BY <1>1, <1>2, <1>3 DEF Idle, FetchState

\* The first book of an answer that has one is a book it quotes.
LEMMA FirstBookIs ==
    ASSUME OddsAssumption, NEW f, fetch[f].quotes \in Answers, DOMAIN fetch[f].quotes # {}
    PROVE  FirstBook(f) \in DOMAIN fetch[f].quotes /\ FirstBook(f) \in Books
<1> DEFINE q == fetch[f].quotes
           at == {i \in DOMAIN BookOrder : BookOrder[i] \in DOMAIN q}
<1>1. DOMAIN q \in SUBSET Books /\ DOMAIN q # {}
  BY AnswerIs
<1>2. DOMAIN BookOrder \in SUBSET Nat
  BY DEF OddsAssumption
<1>3. at \in SUBSET Nat /\ at # {}
  BY <1>1, <1>2 DEF Books, ToSet
<1>4. Min(at) \in at
  BY <1>3, LeastNumber
<1> QED
  BY <1>1, <1>4 DEF FirstBook

LEMMA DayIs ==
    ASSUME OddsAssumption, NEW c \in Commences \cup {0}
    PROVE  Day(c) \in Int
  BY DEF Day, OddsAssumption

\* What a fetch makes of the row it finds is a row, of the same status.
LEMMA EnsuredIs ==
    ASSUME OddsAssumption, NEW row \in GameRow, NEW c \in Commences
    PROVE  Ensured(row, c) \in GameRow /\ Ensured(row, c).status = row.status
<1>1. Day(c) \in Int
  BY DayIs
<1>2. Restart(row, c) \in Commences \cup {None}
  BY DEF Restart, GameRow
<1>3. CASE row.known
  BY <1>1, <1>2, <1>3 DEF Ensured, GameRow
<1>4. CASE ~row.known
  BY <1>2, <1>4 DEF Ensured, GameRow
<1> QED
  BY <1>3, <1>4

\* A game found is one of those stored.
LEMMA FoundIs ==
    ASSUME OddsAssumption, NEW rows, NEW c
    PROVE  FindGame(rows, c) # 0 => /\ FindGame(rows, c) \in GameIds
                                    /\ rows[FindGame(rows, c)].status \in {"scheduled", "in_progress"}
<1> DEFINE fitting == {g \in GameIds : rows[g].status \in {"scheduled", "in_progress"} /\ Fits(rows[g], c)}
           best == {g \in fitting : \A h \in fitting : ~Closer(Fit(rows[h], c), Fit(rows[g], c))}
<1>1. FindGame(rows, c) = IF best = {} THEN 0 ELSE Max(best)
  BY DEF FindGame
<1>2. best \in SUBSET GameIds /\ \A g \in best : rows[g].status \in {"scheduled", "in_progress"}
  OBVIOUS
<1> HIDE DEF best
<1>3. ASSUME best # {} PROVE Max(best) \in best
  <2>1. best \in SUBSET (1 .. MaxGames) /\ MaxGames \in Nat
    BY <1>2 DEF GameIds, OddsAssumption
  <2> QED
    BY <1>3, <2>1, GreatestNumber
<1> QED
  BY <1>1, <1>2, <1>3

LEMMA FirstIs ==
    ASSUME NEW rows \in SUBSET GameIds, OddsAssumption
    PROVE  First(rows) # 0 => First(rows) \in rows
<1>1. rows \in SUBSET Nat
  BY DEF GameIds, OddsAssumption
<1> QED
  BY <1>1, LeastNumber DEF First

-----------------------------------------------------------------------------
(* The invariant *)

\* Neighbours differ, time goes on, and nothing is recorded before it was fetched.
Changes(s) ==
    /\ \A i \in DOMAIN s : s[i].fetched <= s[i].captured /\ s[i].captured <= now
    /\ \A i \in 1 .. Len(s) - 1 : s[i].quote # s[i+1].quote /\ s[i].captured <= s[i+1].captured

\* Every column of a quote is on record in a series.
OnRecord(quote, s) == \A col \in Columns : \E i \in DOMAIN s : s[i].quote[col] = quote[col]

\* A row and its series of changes begin together, and end in one quote unless the
\* row was last written over a change the fetch had not read; even then its columns
\* are all from the series.
Follows(g, b) ==
    /\ odds[g][b] = None <=> series[g][b] = <<>>
    /\ odds[g][b] # None =>
          /\ <<g, b>> \notin stale => odds[g][b].quote = Last(series[g][b]).quote
          /\ OnRecord(odds[g][b].quote, series[g][b])

\* The quote a fetch has loaded is the one it writes over.
Unmoved(loaded, current) == loaded = None \/ loaded.quote = current.quote

\* What is kept for a game whose start is known, and was never moved, was fetched
\* before it; a game that is not stored has no prices.
Timely(g, b) ==
    /\ games[g].status = "absent" => odds[g][b] = None
    /\ odds[g][b] # None /\ games[g].start # None /\ g \notin restarted => odds[g][b].fetched < games[g].start

PricesOK == \A g \in GameIds, b \in Books : Changes(series[g][b]) /\ Follows(g, b) /\ Timely(g, b)

\* A fetch in memory is not from the future; one that is about to store has seen
\* that its game had not started when it was found.
Held(f) ==
    /\ fetch[f].at <= now
    /\ fetch[f].pc # "idle" => DOMAIN fetch[f].quotes # {} /\ fetch[f].commence \in Commences
    /\ fetch[f].pc \in {"store", "edited"} => fetch[f].game \in Stored
    /\ LET start == games[fetch[f].game].start
       IN  fetch[f].pc = "store" /\ start # None /\ fetch[f].game \notin restarted => fetch[f].at < start

OddsInv == Typed /\ PricesOK /\ \A f \in Fetchers : Held(f)

-----------------------------------------------------------------------------
(* Writing an answer *)

LEMMA RecordedIs ==
    ASSUME OddsAssumption, now \in 0 .. MaxTime, NEW s \in Seq(Snap), Changes(s), NEW q \in Quotes,
           NEW at \in 0 .. MaxTime, at <= now
    PROVE  LET r == Recorded(s, q, at)
           IN  /\ r \in Seq(Snap) /\ r # <<>> /\ Last(r).quote = q /\ Changes(r)
               /\ \A i \in DOMAIN s : i \in DOMAIN r /\ r[i] = s[i]
<1> DEFINE new == [quote |-> q, captured |-> now, fetched |-> at]
<1>1. MaxTime \in Nat /\ now \in Nat /\ at \in Nat /\ Len(s) \in Nat /\ DOMAIN s = 1 .. Len(s)
  BY DEF OddsAssumption
<1>2. CASE s # <<>> /\ LatestSnapshot(s).quote = q
  BY <1>2 DEF Recorded, LatestSnapshot, Last
<1>3. CASE ~(s # <<>> /\ LatestSnapshot(s).quote = q)
  <2> DEFINE r == Append(s, new)
             n == Len(s)
  <2>1. new \in Snap /\ new.quote = q /\ new.captured = now /\ new.fetched = at
    BY DEF Snap
  <2>2. Recorded(s, q, at) = r
    BY <1>3 DEF Recorded
  <2>3. /\ r \in Seq(Snap) /\ Len(r) = n + 1 /\ r[n + 1] = new /\ DOMAIN r = 1 .. (n + 1)
        /\ \A i \in 1 .. n : r[i] = s[i]
    BY <2>1, AppendProperties
  <2>4. s # <<>> => s[n].quote # q
    BY <1>3 DEF LatestSnapshot, Last
  <2>5. n >= 1 => s # <<>> /\ s[n].captured <= now
    BY <1>1 DEF Changes
  <2> HIDE DEF r, new
  <2>6. r # <<>> /\ Last(r).quote = q
    BY <1>1, <2>1, <2>3 DEF Last
  <2>7. \A i \in DOMAIN r : r[i].fetched <= r[i].captured /\ r[i].captured <= now
    <3> SUFFICES ASSUME NEW i \in 1 .. (n + 1) PROVE r[i].fetched <= r[i].captured /\ r[i].captured <= now
      BY <2>3
    <3>1. CASE i \in 1 .. n
      BY <1>1, <2>3, <3>1 DEF Changes
    <3>2. CASE i = n + 1
      BY <1>1, <2>1, <2>3, <3>2
    <3> QED
      BY <1>1, <3>1, <3>2
  <2>8. \A i \in 1 .. Len(r) - 1 : r[i].quote # r[i+1].quote /\ r[i].captured <= r[i+1].captured
    <3> SUFFICES ASSUME NEW i \in 1 .. n PROVE r[i].quote # r[i+1].quote /\ r[i].captured <= r[i+1].captured
      BY <1>1, <2>3
    <3>1. CASE i \in 1 .. n - 1
      <4>1. i \in 1 .. n /\ i + 1 \in 1 .. n
        BY <1>1, <3>1
      <4>2. s[i].quote # s[i+1].quote /\ s[i].captured <= s[i+1].captured
        BY <3>1 DEF Changes
      <4> QED
        BY <2>3, <4>1, <4>2
    <3>2. CASE i = n
      <4>1. n >= 1 /\ n \in 1 .. n
        BY <1>1, <3>2
      <4>2. r[n] = s[n] /\ r[n + 1] = new
        BY <2>3, <4>1
      <4> QED
        BY <2>1, <2>4, <2>5, <3>2, <4>1, <4>2
    <3>3. n \in Nat /\ i \in 1 .. n
      BY <1>1
    <3>4. i \in 1 .. n - 1 \/ i = n
      <4> HIDE DEF n
      <4> QED
        BY <3>3
    <3> QED
      BY <3>1, <3>2, <3>4
  <2>9. \A i \in DOMAIN s : i \in DOMAIN r /\ r[i] = s[i]
    BY <1>1, <2>3
  <2> QED
    BY <2>2, <2>3, <2>6, <2>7, <2>8, <2>9 DEF Changes
<1> QED
  BY <1>2, <1>3

LEMMA UpsertedIs ==
    ASSUME OddsAssumption, NEW current \in Row \cup {None}, NEW loaded, NEW q \in Quotes,
           NEW at \in 0 .. MaxTime
    PROVE  LET r == Upserted(current, loaded, q, at)
           IN  r \in Row /\ r # None /\ r.fetched = at
<1> DEFINE r == Upserted(current, loaded, q, at)
           mixed == [col \in DOMAIN q |-> IF loaded.quote[col] = q[col] THEN current.quote[col] ELSE q[col]]
<1>1. q \in Mixed /\ DOMAIN q = Columns /\ None \notin Row
  BY DEF OddsAssumption, Mixed
<1>2. r = [quote |-> IF current = None \/ loaded = None THEN q ELSE mixed, fetched |-> at]
  BY DEF Upserted
<1>3. ASSUME current # None PROVE mixed \in Mixed
  <2>1. current.quote \in Mixed
    BY <1>3 DEF Row
  <2> QED
    BY <1>1, <2>1 DEF Mixed
<1> HIDE DEF mixed
<1>4. r.fetched = at
  BY <1>2
<1>5. r \in Row
  BY <1>1, <1>2, <1>3 DEF Row
<1> QED
  BY <1>1, <1>4, <1>5

\* A row written over what it was read as has the quote fetched.
LEMMA UpsertedOver ==
    ASSUME OddsAssumption, NEW current \in Row \cup {None}, NEW loaded, NEW q \in Quotes, NEW at,
           Unmoved(loaded, current)
    PROVE  Upserted(current, loaded, q, at).quote = q
<1> DEFINE mixed == [col \in DOMAIN q |-> IF loaded.quote[col] = q[col] THEN current.quote[col] ELSE q[col]]
<1>1. q \in Mixed /\ DOMAIN q = Columns
  BY DEF OddsAssumption, Mixed
<1>2. loaded # None => mixed = q
  BY <1>1 DEF Mixed, Unmoved
<1> HIDE DEF mixed
<1>3. Upserted(current, loaded, q, at).quote = IF current = None \/ loaded = None THEN q ELSE mixed
  BY DEF Upserted, mixed
<1> QED
  BY <1>2, <1>3

\* Any other has columns of that quote and of the row it was written over.
LEMMA UpsertedFrom ==
    ASSUME OddsAssumption, NEW current, NEW loaded, NEW q \in Quotes, NEW at, NEW col \in Columns,
           Upserted(current, loaded, q, at).quote[col] # q[col]
    PROVE  current # None /\ Upserted(current, loaded, q, at).quote[col] = current.quote[col]
<1>1. DOMAIN q = Columns
  BY DEF OddsAssumption, Mixed
<1> QED
  BY <1>1 DEF Upserted

LEMMA WriteIs ==
    ASSUME OddsAssumption, Typed, PricesOK, NEW f \in Fetchers, NEW g \in GameIds, NEW loaded,
           fetch[f].at <= now, Write(f, g, loaded)
    PROVE  LET q == fetch[f].quotes IN
           /\ odds' \in [GameIds -> [Books -> Row \cup {None}]]
           /\ series' \in [GameIds -> [Books -> Seq(Snap)]]
           /\ \A h \in GameIds, b \in Books : h # g \/ b \notin DOMAIN q =>
                 odds'[h][b] = odds[h][b] /\ series'[h][b] = series[h][b]
           /\ \A b \in DOMAIN q :
                 /\ odds'[g][b] # None /\ odds'[g][b].fetched = fetch[f].at
                 /\ series'[g][b] # <<>> /\ Changes(series'[g][b]) /\ Last(series'[g][b]).quote = q[b]
                 /\ b # FirstBook(f) \/ Unmoved(loaded, odds[g][b]) => odds'[g][b].quote = q[b]
                 /\ OnRecord(odds'[g][b].quote, series'[g][b])
<1> DEFINE q == fetch[f].quotes
           at == fetch[f].at
           R(b) == Recorded(series[g][b], q[b], at)
           U(b) == Upserted(odds[g][b], IF b = FirstBook(f) THEN loaded ELSE odds[g][b], q[b], at)
<1>1. q \in Answers /\ at \in 0 .. MaxTime /\ now \in 0 .. MaxTime /\ at <= now
  BY DEF Typed, FetchState
<1>2. DOMAIN q \in SUBSET Books /\ \A b \in DOMAIN q : q[b] \in Quotes
  BY <1>1, AnswerIs
<1>3. ASSUME NEW b \in DOMAIN q
      PROVE  /\ R(b) \in Seq(Snap) /\ R(b) # <<>> /\ Last(R(b)).quote = q[b] /\ Changes(R(b))
             /\ \A i \in DOMAIN series[g][b] : i \in DOMAIN R(b) /\ R(b)[i] = series[g][b][i]
  <2>1. series[g][b] \in Seq(Snap) /\ Changes(series[g][b]) /\ q[b] \in Quotes
    BY <1>2 DEF Typed, PricesOK
  <2> QED
    BY <1>1, <2>1, RecordedIs
<1>4. ASSUME NEW b \in DOMAIN q
      PROVE  /\ U(b) \in Row /\ U(b) # None /\ U(b).fetched = at
             /\ b # FirstBook(f) \/ Unmoved(loaded, odds[g][b]) => U(b).quote = q[b]
  <2>1. odds[g][b] \in Row \cup {None} /\ q[b] \in Quotes
    BY <1>2 DEF Typed
  <2> DEFINE was == IF b = FirstBook(f) THEN loaded ELSE odds[g][b]
  <2>2. ASSUME b # FirstBook(f) \/ Unmoved(loaded, odds[g][b]) PROVE Unmoved(was, odds[g][b])
    BY <2>2 DEF Unmoved
  <2>3. U(b) \in Row /\ U(b) # None /\ U(b).fetched = at
    BY <1>1, <2>1, UpsertedIs
  <2>4. ASSUME b # FirstBook(f) \/ Unmoved(loaded, odds[g][b]) PROVE U(b).quote = q[b]
    <3>1. Unmoved(was, odds[g][b])
      BY <2>2, <2>4
    <3> HIDE DEF was, q
    <3>2. Upserted(odds[g][b], was, q[b], at).quote = q[b]
      BY <2>1, <3>1, UpsertedOver
    <3> QED
      BY <3>2 DEF was
  <2> QED
    BY <2>3, <2>4
<1>9. ASSUME NEW b \in DOMAIN q, NEW col \in Columns, U(b).quote[col] # q[b][col]
      PROVE  odds[g][b] # None /\ U(b).quote[col] = odds[g][b].quote[col]
  BY <1>2, <1>9, UpsertedFrom
<1> HIDE DEF R, U
<1>5. /\ odds' = [odds EXCEPT ![g] = [b \in Books |-> IF b \notin DOMAIN q THEN odds[g][b] ELSE U(b)]]
      /\ series' = [series EXCEPT ![g] = [b \in Books |-> IF b \in DOMAIN q THEN R(b) ELSE series[g][b]]]
  BY DEF Write, R, U
<1> HIDE DEF q, at
<1>6. /\ odds' \in [GameIds -> [Books -> Row \cup {None}]]
      /\ \A h \in GameIds, b \in Books : h # g \/ b \notin DOMAIN q => odds'[h][b] = odds[h][b]
      /\ \A b \in DOMAIN q : odds'[g][b] = U(b)
  BY <1>2, <1>4, <1>5 DEF Typed
<1>7. /\ series' \in [GameIds -> [Books -> Seq(Snap)]]
      /\ \A h \in GameIds, b \in Books : h # g \/ b \notin DOMAIN q => series'[h][b] = series[h][b]
      /\ \A b \in DOMAIN q : series'[g][b] = R(b)
  BY <1>2, <1>3, <1>5 DEF Typed
<1>8. ASSUME NEW b \in DOMAIN q PROVE OnRecord(U(b).quote, R(b))
  <2> SUFFICES ASSUME NEW col \in Columns PROVE \E i \in DOMAIN R(b) : R(b)[i].quote[col] = U(b).quote[col]
    BY DEF OnRecord
  <2> DEFINE r == R(b)
  <2>1. r \in Seq(Snap) /\ r # <<>> /\ Last(r).quote = q[b]
    BY <1>3
  <2>2. CASE U(b).quote[col] = q[b][col]
    <3> HIDE DEF r
    <3>1. Len(r) \in DOMAIN r /\ r[Len(r)].quote = q[b]
      BY <2>1 DEF Last
    <3> QED
      BY <2>2, <3>1 DEF r
  <2>3. CASE odds[g][b] # None /\ U(b).quote[col] = odds[g][b].quote[col]
    <3>1. OnRecord(odds[g][b].quote, series[g][b])
      BY <1>2, <2>3 DEF PricesOK, Follows
    <3>2. PICK i \in DOMAIN series[g][b] : series[g][b][i].quote[col] = odds[g][b].quote[col]
      BY <3>1 DEF OnRecord
    <3>3. i \in DOMAIN R(b) /\ R(b)[i] = series[g][b][i]
      BY <1>3
    <3> QED
      BY <2>3, <3>2, <3>3
  <2> QED
    BY <1>9, <2>2, <2>3
<1> USE DEF q, at
<1> QED
  BY <1>3, <1>4, <1>6, <1>7, <1>8

-----------------------------------------------------------------------------
(* The steps *)

LEMMA RowsWithin ==
    ASSUME NEW A, NEW B, NEW C, NEW D, NEW A2, NEW B2, NEW C2, NEW D2,
           A \subseteq A2, B \subseteq B2, C \subseteq C2, D \subseteq D2,
           NEW r \in [status : A, day : B, start : C, known : D]
    PROVE  r \in [status : A2, day : B2, start : C2, known : D2]
  OBVIOUS

LEMMA OddsInit ==
    ASSUME OddsAssumption, Init
    PROVE  OddsInv
<1>1. 0 \in 0 .. MaxTime /\ 0 \in 0 .. MaxGames /\ 0 \in 0 .. MaxFetches /\ 0 \in Nat
  BY DEF OddsAssumption
<1>2. games \in [GameIds -> GameRow]
  <2>1. ASSUME NEW r \in EspnRows PROVE r \in GameRow
    <3> DEFINE starts == {None} \cup {c \in Commences : Day(c) = 0}
    <3>1. starts \subseteq Commences \cup {None}
      OBVIOUS
    <3> HIDE DEF starts
    <3>2. r \in [status : {"scheduled"}, day : {0}, start : starts, known : {FALSE}]
      BY Zenon DEF EspnRows, starts
    <3>3. {"scheduled"} \subseteq {"absent", "scheduled", "in_progress", "final"} /\ {0} \subseteq Int
          /\ {FALSE} \subseteq BOOLEAN
      OBVIOUS
    <3> QED
      BY <3>1, <3>2, <3>3, RowsWithin DEF GameRow
  <2> QED
    BY <2>1, IdleTyped DEF Init
<1>3. feed \in [commence : Commences, quotes : Answers]
  <2>1. FirstQuotes \in Answers
    BY AnswerMade DEF OddsAssumption
  <2> QED
    BY <2>1 DEF Init
<1>4. odds \in [GameIds -> [Books -> Row \cup {None}]] /\ \A g \in GameIds, b \in Books : odds[g][b] = None
  BY DEF Init
<1>5. series \in [GameIds -> [Books -> Seq(Snap)]] /\ \A g \in GameIds, b \in Books : series[g][b] = <<>>
  <2>1. <<>> \in Seq(Snap)
    BY EmptySeq
  <2> QED
    BY <2>1 DEF Init
<1>6. fetch \in [Fetchers -> FetchState] /\ \A f \in Fetchers : fetch[f] = Idle
  BY IdleTyped DEF Init
<1>7. Typed
  BY <1>1, <1>2, <1>3, <1>4, <1>5, <1>6 DEF Init, Typed
<1>8. PricesOK
  <2>1. Changes(<<>>)
    <3>1. DOMAIN <<>> = {} /\ 1 .. Len(<<>>) - 1 = {}
      BY EmptySeq
    <3> QED
      BY <3>1 DEF Changes
  <2> QED
    BY <1>4, <1>5, <2>1 DEF PricesOK, Follows, Timely
<1>9. \A f \in Fetchers : Held(f)
  BY <1>1, <1>6 DEF Held, Idle, Init
<1> QED
  BY <1>7, <1>8, <1>9 DEF OddsInv

\* A game that is stored remains stored, and its start is known to be moved if it is.
GamesStay ==
    /\ restarted \subseteq restarted' /\ now' \in 0 .. MaxTime /\ now <= now'
    /\ \A g \in GameIds : games[g].status # "absent" =>
           /\ games'[g].status # "absent"
           /\ games'[g].start = games[g].start \/ g \in restarted'

\* While no row and no series changes, the prices hold.
LEMMA PricesStay ==
    ASSUME OddsAssumption, OddsInv, odds' = odds, series' = series, stale' = stale, GamesStay
    PROVE  PricesOK'
<1>1. /\ now \in 0 .. MaxTime /\ series \in [GameIds -> [Books -> Seq(Snap)]] /\ MaxTime \in Nat
      /\ now' \in 0 .. MaxTime /\ now <= now'
  BY DEF OddsInv, Typed, OddsAssumption, GamesStay
<1> SUFFICES ASSUME NEW g \in GameIds, NEW b \in Books
             PROVE  Changes(series[g][b])' /\ Follows(g, b)' /\ Timely(g, b)'
  BY DEF PricesOK
<1>2. Changes(series[g][b]) /\ Follows(g, b) /\ Timely(g, b)
  BY DEF OddsInv, PricesOK
<1>3. Changes(series[g][b])'
  <2> DEFINE s == series[g][b]
  <2>1. s \in Seq(Snap) /\ s' = s
    BY <1>1
  <2>2. \A i \in DOMAIN s : s[i].captured \in 0 .. MaxTime
    <3>1. DOMAIN s = 1 .. Len(s)
      BY <2>1, LenProperties
    <3>2. \A i \in 1 .. Len(s) : s[i] \in Snap
      BY <2>1, ElementOfSeq
    <3> HIDE DEF s
    <3> QED
      BY <3>1, <3>2 DEF Snap
  <2> HIDE DEF s
  <2>3. \A i \in DOMAIN s : s[i].fetched <= s[i].captured /\ s[i].captured <= now'
    BY <1>1, <1>2, <2>2 DEF Changes, s
  <2> QED
    BY <1>2, <2>1, <2>3 DEF Changes, s
<1>4. Follows(g, b)'
  BY <1>2 DEF Follows, OnRecord
<1>5. Timely(g, b)'
  BY <1>2 DEF Timely, GamesStay
<1> QED
  BY <1>3, <1>4, <1>5

\* A write, of a game that had not started when it was looked up.
LEMMA PricesWritten ==
    ASSUME OddsAssumption, OddsInv, NEW f \in Fetchers, NEW g \in GameIds, NEW loaded, Write(f, g, loaded),
           GamesStay, now' = now, Refreshed(f, g) \subseteq stale', games'[g].status # "absent",
           games'[g].start # None /\ g \notin restarted' => fetch[f].at < games'[g].start,
           Unmoved(loaded, odds[g][FirstBook(f)]) \/ <<g, FirstBook(f)>> \in stale'
    PROVE  /\ PricesOK'
           /\ odds' \in [GameIds -> [Books -> Row \cup {None}]]
           /\ series' \in [GameIds -> [Books -> Seq(Snap)]]
<1> DEFINE q == fetch[f].quotes
<1>1. Typed /\ PricesOK /\ fetch[f].at <= now
  BY DEF OddsInv, Held
<1>2. /\ odds' \in [GameIds -> [Books -> Row \cup {None}]]
      /\ series' \in [GameIds -> [Books -> Seq(Snap)]]
      /\ \A h \in GameIds, b \in Books : h # g \/ b \notin DOMAIN q =>
            odds'[h][b] = odds[h][b] /\ series'[h][b] = series[h][b]
      /\ \A b \in DOMAIN q :
            /\ odds'[g][b] # None /\ odds'[g][b].fetched = fetch[f].at
            /\ series'[g][b] # <<>> /\ Changes(series'[g][b]) /\ Last(series'[g][b]).quote = q[b]
            /\ b # FirstBook(f) \/ Unmoved(loaded, odds[g][b]) => odds'[g][b].quote = q[b]
            /\ OnRecord(odds'[g][b].quote, series'[g][b])
  BY <1>1, WriteIs
<1> HIDE DEF q
<1>3. ASSUME NEW h \in GameIds, NEW b \in Books
      PROVE  Changes(series[h][b])' /\ Follows(h, b)' /\ Timely(h, b)'
  <2>1. CASE h # g \/ b \notin DOMAIN q
    <3>1. odds'[h][b] = odds[h][b] /\ series'[h][b] = series[h][b]
      BY <1>2, <2>1
    <3>2. Changes(series[h][b]) /\ Follows(h, b) /\ Timely(h, b)
      BY <1>1 DEF PricesOK
    <3>3. Changes(series[h][b])'
      BY <3>1, <3>2 DEF Changes
    <3>4. Follows(h, b)'
      <4>1. <<h, b>> \notin stale' => <<h, b>> \notin stale
        BY <2>1 DEF Refreshed, q
      <4> QED
        BY <3>1, <3>2, <4>1 DEF Follows, OnRecord
    <3>5. Timely(h, b)'
      BY <3>1, <3>2 DEF Timely, GamesStay
    <3> QED
      BY <3>3, <3>4, <3>5
  <2>2. CASE h = g /\ b \in DOMAIN q
    <3>1. /\ odds'[g][b] # None /\ odds'[g][b].fetched = fetch[f].at
          /\ series'[g][b] # <<>> /\ Changes(series'[g][b]) /\ Last(series'[g][b]).quote = q[b]
          /\ b # FirstBook(f) \/ Unmoved(loaded, odds[g][b]) => odds'[g][b].quote = q[b]
          /\ OnRecord(odds'[g][b].quote, series'[g][b])
      BY <1>2, <2>2
    <3>2. Changes(series[h][b])'
      BY <2>2, <3>1 DEF Changes
    <3>3. Follows(h, b)'
      BY <2>2, <3>1 DEF Follows, OnRecord
    <3>4. Timely(h, b)'
      BY <2>2, <3>1 DEF Timely
    <3> QED
      BY <3>2, <3>3, <3>4
  <2> QED
    BY <2>1, <2>2
<1> QED
  BY <1>2, <1>3 DEF PricesOK

\* The other fetches hold what they held.
LEMMA HeldStays ==
    ASSUME OddsAssumption, OddsInv, GamesStay, NEW h \in Fetchers, fetch'[h] = fetch[h]
    PROVE  Held(h)'
<1>1. /\ Held(h) /\ fetch[h] \in FetchState /\ now \in 0 .. MaxTime /\ MaxTime \in Nat
      /\ Stored \subseteq Stored' /\ Stored \subseteq GameIds
  BY DEF OddsInv, Typed, OddsAssumption, GamesStay, Stored
<1>2. fetch[h].at <= now'
  BY <1>1 DEF Held, FetchState, GamesStay
<1> QED
  BY <1>1, <1>2 DEF Held, GamesStay, Stored

LEMMA HeldByAll ==
    ASSUME OddsAssumption, OddsInv, GamesStay, NEW f \in Fetchers, NEW s \in FetchState,
           fetch' = [fetch EXCEPT ![f] = s], Held(f)'
    PROVE  fetch' \in [Fetchers -> FetchState] /\ fetch'[f] = s /\ \A h \in Fetchers : Held(h)'
<1>1. fetch \in [Fetchers -> FetchState]
  BY DEF OddsInv, Typed
<1>2. \A h \in Fetchers \ {f} : fetch'[h] = fetch[h]
  BY <1>1
<1> QED
  BY <1>1, <1>2, HeldStays

\* A step of a fetch that writes nothing.
LEMMA ReadKeeps ==
    ASSUME OddsAssumption, OddsInv, NEW f \in Fetchers, NEW s \in FetchState, fetch' = [fetch EXCEPT ![f] = s],
           UNCHANGED <<now, sport, feed, moves, table, stale, restarted, lost>>, fetches' \in 0 .. MaxFetches,
           s.at <= now,
           s.pc # "idle" => DOMAIN s.quotes # {} /\ s.commence \in Commences,
           s.pc \in {"store", "edited"} => s.game \in Stored,
           s.pc = "store" /\ games[s.game].start # None => s.at < games[s.game].start
    PROVE  OddsInv'
<1>1. GamesStay
  BY DEF GamesStay, OddsInv, Typed, OddsAssumption, table
<1>2. PricesOK'
  BY <1>1, PricesStay DEF table
<1>3. fetch'[f] = s
  BY DEF OddsInv, Typed
<1>4. Held(f)'
  BY <1>3 DEF Held, table, Stored
<1>5. fetch' \in [Fetchers -> FetchState] /\ \A h \in Fetchers : Held(h)'
  BY <1>1, <1>4, HeldByAll
<1>6. Typed'
  BY <1>5 DEF OddsInv, Typed, table
<1> QED
  BY <1>2, <1>5, <1>6 DEF OddsInv

LEMMA FetchKeeps ==
    ASSUME OddsAssumption, OddsInv, NEW f \in Fetchers, Fetch(f)
    PROVE  OddsInv'
<1> DEFINE s == [Idle EXCEPT !.pc = "ensure", !.quotes = feed.quotes, !.commence = feed.commence, !.at = now]
<1>1. /\ fetch' = [fetch EXCEPT ![f] = s] /\ DOMAIN feed.quotes # {}
      /\ UNCHANGED <<now, sport, feed, moves, table, stale, restarted, lost>>
      /\ fetches' = fetches + 1 /\ fetches < MaxFetches
  BY DEF Fetch
<1>2. feed.quotes \in Answers /\ feed.commence \in Commences /\ now \in 0 .. MaxTime /\ MaxTime \in Nat
      /\ fetches \in 0 .. MaxFetches /\ MaxFetches \in Nat
  BY DEF OddsInv, Typed, OddsAssumption
<1>3. s \in FetchState /\ s.at = now /\ s.pc = "ensure" /\ s.quotes = feed.quotes /\ s.commence = feed.commence
  BY <1>2, IdleTyped DEF FetchState, Idle
<1> HIDE DEF s
<1>4. fetches' \in 0 .. MaxFetches /\ s.at <= now
  BY <1>1, <1>2, <1>3
<1> QED
  BY <1>1, <1>2, <1>3, <1>4, ReadKeeps

LEMMA EnsureKeeps ==
    ASSUME OddsAssumption, OddsInv, NEW f \in Fetchers, Ensure(f)
    PROVE  OddsInv'
<1> DEFINE m == fetch[f]
           c == m.commence
           g == IF ById # 0 THEN ById ELSE ByTeams(c)
<1>1. /\ m \in FetchState /\ fetch \in [Fetchers -> FetchState] /\ m.pc = "ensure" /\ Held(f)
      /\ UNCHANGED <<now, sport, feed, moves, table, fetches, stale, restarted, lost>>
      /\ fetches \in 0 .. MaxFetches /\ games \in [GameIds -> GameRow]
  BY DEF Ensure, OddsInv, Typed
<1>2. CASE g = 0
  <2> DEFINE s == [m EXCEPT !.pc = "create"]
  <2>1. fetch' = [fetch EXCEPT ![f] = s]
    BY <1>2 DEF Ensure
  <2>2. s \in FetchState /\ s.pc = "create" /\ s.at = m.at /\ s.quotes = m.quotes /\ s.commence = m.commence
    BY <1>1 DEF FetchState
  <2> HIDE DEF s
  <2> QED
    BY <1>1, <2>1, <2>2, ReadKeeps DEF Held
<1>3. CASE g # 0
  <2> DEFINE s == [m EXCEPT !.row = games[g], !.game = g,
                            !.pc = IF Ensured(games[g], c) = games[g] THEN "find" ELSE "edited"]
  <2>1. fetch' = [fetch EXCEPT ![f] = s]
    BY <1>1, <1>3 DEF Ensure
  <2>2. g \in Stored
    <3>1. /\ {h \in Stored : games[h].known} \in SUBSET GameIds
          /\ {h \in Stored : games[h].day = Day(c)} \in SUBSET GameIds
      BY DEF Stored
    <3>2. (ById # 0 => ById \in Stored) /\ (ByTeams(c) # 0 => ByTeams(c) \in Stored)
      BY <3>1, FirstIs DEF ById, ByTeams
    <3> QED
      BY <1>3, <3>2
  <2>3. g \in GameIds /\ g \in 0 .. MaxGames /\ games[g] \in GameRow
    BY <1>1, <2>2 DEF Stored, GameIds, OddsAssumption
  <2> HIDE DEF g
  <2>4. /\ s \in FetchState /\ s.pc \in {"find", "edited"} /\ s.at = m.at /\ s.quotes = m.quotes
        /\ s.commence = m.commence /\ s.game = g
    BY <1>1, <2>3 DEF FetchState
  <2> HIDE DEF s
  <2> QED
    BY <1>1, <2>1, <2>2, <2>4, ReadKeeps DEF Held
<1> QED
  BY <1>2, <1>3

LEMMA FindKeeps ==
    ASSUME OddsAssumption, OddsInv, NEW f \in Fetchers, Find(f)
    PROVE  OddsInv'
<1> DEFINE m == fetch[f]
           g == FindGame(games, m.commence)
<1>1. /\ m \in FetchState /\ fetch \in [Fetchers -> FetchState] /\ m.pc = "find" /\ Held(f)
      /\ UNCHANGED <<now, sport, feed, moves, table, fetches, stale, restarted, lost>>
      /\ fetches \in 0 .. MaxFetches /\ games \in [GameIds -> GameRow] /\ now \in 0 .. MaxTime
      /\ MaxTime \in Nat
  BY DEF Find, OddsInv, Typed, OddsAssumption
<1>2. CASE g = 0 \/ Started(games[g])
  <2>1. fetch' = [fetch EXCEPT ![f] = Idle]
    BY <1>2 DEF Find
  <2>2. Idle \in FetchState /\ Idle.pc = "idle" /\ Idle.at <= now
    BY <1>1, IdleTyped DEF Idle
  <2> QED
    BY <1>1, <2>1, <2>2, ReadKeeps
<1>3. CASE ~(g = 0 \/ Started(games[g]))
  <2> DEFINE s == [m EXCEPT !.game = g, !.seen = odds[g][FirstBook(f)], !.pc = "store"]
  <2>1. fetch' = [fetch EXCEPT ![f] = s]
    BY <1>1, <1>3 DEF Find
  <2>2. g \in GameIds /\ g \in Stored
    <3>1. g \in GameIds /\ games[g].status \in {"scheduled", "in_progress"}
      BY <1>3, FoundIs
    <3> QED
      BY <3>1 DEF Stored
  <2>3. g \in 0 .. MaxGames
    BY <2>2 DEF GameIds, OddsAssumption
  <2>4. odds[g][FirstBook(f)] \in Row \cup {None}
    <3>1. m.quotes \in Answers /\ DOMAIN m.quotes # {}
      BY <1>1 DEF FetchState, Held
    <3>2. FirstBook(f) \in Books
      BY <3>1, FirstBookIs
    <3> QED
      BY <2>2, <3>2 DEF OddsInv, Typed
  <2>5. games[g].start # None => now < games[g].start
    <3>1. games[g] \in GameRow /\ Commences \subseteq Nat
      BY <1>1, <2>2 DEF OddsAssumption
    <3>2. games[g].start # None => games[g].start \in Nat
      BY <3>1 DEF GameRow
    <3> HIDE DEF g
    <3>3. games[g].start # None => ~(games[g].start <= now)
      BY <1>3 DEF Started
    <3> QED
      BY <1>1, <3>2, <3>3
  <2> HIDE DEF g
  <2>6. /\ s \in FetchState /\ s.pc = "store" /\ s.at = m.at /\ s.quotes = m.quotes
        /\ s.commence = m.commence /\ s.game = g
    BY <1>1, <2>3, <2>4 DEF FetchState
  <2> HIDE DEF s
  <2>7. m.at \in 0 .. MaxTime /\ m.at <= now
    BY <1>1 DEF FetchState, Held
  <2>8. games[g].start # None => m.at < games[g].start
    <3>1. games[g] \in GameRow /\ Commences \subseteq Nat
      BY <1>1, <2>2 DEF OddsAssumption
    <3>2. games[g].start # None => games[g].start \in Nat
      BY <3>1 DEF GameRow
    <3> QED
      BY <1>1, <2>5, <2>7, <3>2
  <2> QED
    BY <1>1, <2>1, <2>2, <2>6, <2>7, <2>8, ReadKeeps DEF Held
<1> QED
  BY <1>2, <1>3

LEMMA CreateKeeps ==
    ASSUME OddsAssumption, OddsInv, NEW f \in Fetchers, Create(f)
    PROVE  OddsInv'
<1> DEFINE m == fetch[f]
           c == m.commence
           g == Min(GameIds \ Stored)
           row == [status |-> "scheduled", day |-> Day(c), known |-> TRUE,
                   start |-> IF sport = "combat" THEN c ELSE None]
           s == [m EXCEPT !.pc = "find"]
<1>1. /\ m \in FetchState /\ fetch \in [Fetchers -> FetchState] /\ m.pc = "create" /\ Held(f)
      /\ UNCHANGED <<now, sport, feed, moves, odds, series, fetches, stale, restarted, lost>>
      /\ games \in [GameIds -> GameRow] /\ now \in 0 .. MaxTime /\ MaxTime \in Nat
      /\ games' = [games EXCEPT ![g] = row] /\ fetch' = [fetch EXCEPT ![f] = s] /\ Stored # GameIds
  BY DEF Create, OddsInv, Typed, OddsAssumption
<1>2. c \in Commences
  BY <1>1 DEF Held
<1>3. row \in GameRow /\ row.status = "scheduled"
  <2>1. Day(c) \in Int
    BY <1>2, DayIs
  <2> QED
    BY <1>2, <2>1 DEF GameRow
<1>4. g \in GameIds /\ g \notin Stored
  <2>1. GameIds \ Stored \in SUBSET Nat /\ GameIds \ Stored # {}
    BY <1>1 DEF GameIds, Stored, OddsAssumption
  <2> QED
    BY <2>1, LeastNumber
<1>5. s \in FetchState /\ s.pc = "find" /\ s.at = m.at /\ s.quotes = m.quotes /\ s.commence = c
  BY <1>1 DEF FetchState
<1> HIDE DEF g, row, s
<1>6. games' \in [GameIds -> GameRow] /\ games'[g] = row /\ \A h \in GameIds \ {g} : games'[h] = games[h]
  BY <1>1, <1>3, <1>4
<1>7. GamesStay
  BY <1>1, <1>3, <1>4, <1>6 DEF GamesStay, Stored
<1>8. PricesOK'
  BY <1>1, <1>7, PricesStay
<1>9. fetch'[f] = s
  BY <1>1
<1>10. Held(f)'
  BY <1>1, <1>2, <1>5, <1>9 DEF Held
<1>11. fetch' \in [Fetchers -> FetchState] /\ \A h \in Fetchers : Held(h)'
  BY <1>1, <1>5, <1>7, <1>10, HeldByAll
<1>12. Typed'
  BY <1>1, <1>6, <1>11 DEF OddsInv, Typed
<1> QED
  BY <1>8, <1>11, <1>12 DEF OddsInv

LEMMA StoreKeeps ==
    ASSUME OddsAssumption, OddsInv, NEW f \in Fetchers, Store(f)
    PROVE  OddsInv'
<1> DEFINE m == fetch[f]
           g == m.game
           b == FirstBook(f)
           collides == m.seen = None /\ odds[g][b] # None
<1>1. /\ m \in FetchState /\ fetch \in [Fetchers -> FetchState] /\ m.pc = "store" /\ Held(f)
      /\ UNCHANGED <<now, sport, feed, moves, games, fetches, restarted>>
      /\ games \in [GameIds -> GameRow] /\ now \in 0 .. MaxTime /\ MaxTime \in Nat
      /\ stale \in SUBSET (GameIds \X Books) /\ lost \in Nat
  BY DEF Store, OddsInv, Typed, OddsAssumption
<1>2. g \in Stored /\ g \in GameIds /\ games[g].status # "absent"
      /\ (games[g].start # None /\ g \notin restarted => m.at < games[g].start)
      /\ DOMAIN m.quotes # {} /\ m.commence \in Commences /\ m.at <= now /\ m.at \in 0 .. MaxTime
  BY <1>1 DEF Held, Stored, FetchState
<1>3. b \in Books
  <2>1. m.quotes \in Answers
    BY <1>1 DEF FetchState
  <2> QED
    BY <1>2, <2>1, FirstBookIs
<1>4. GamesStay
  BY <1>1 DEF GamesStay
<1>5. Idle \in FetchState /\ Idle.pc = "idle" /\ Idle.at <= now
  BY <1>1, IdleTyped DEF Idle
<1>6. ASSUME NEW s \in FetchState, fetch' = [fetch EXCEPT ![f] = s], s.pc \in {"idle", "ensure"},
             s.at <= now, s.pc # "idle" => DOMAIN s.quotes # {} /\ s.commence \in Commences
      PROVE  fetch' \in [Fetchers -> FetchState] /\ \A h \in Fetchers : Held(h)'
  <2>1. fetch'[f] = s
    BY <1>1, <1>6
  <2>2. Held(f)'
    BY <1>1, <1>6, <2>1 DEF Held
  <2> QED
    BY <1>4, <1>6, <2>2, HeldByAll
<1>7. CASE collides
  <2>1. PICK s \in FetchState : /\ fetch' = [fetch EXCEPT ![f] = s] /\ s.pc \in {"idle", "ensure"} /\ s.at <= now
                                /\ s.pc # "idle" => DOMAIN s.quotes # {} /\ s.commence \in Commences
    <3>1. CASE m.attempt = MaxAttempts
      <4>1. fetch' = [fetch EXCEPT ![f] = Idle]
        BY <1>1, <1>7, <3>1 DEF Store
      <4>2. Idle \in FetchState /\ Idle.pc \in {"idle", "ensure"} /\ Idle.at <= now
            /\ (Idle.pc # "idle" => DOMAIN Idle.quotes # {} /\ Idle.commence \in Commences)
        BY <1>5
      <4> QED
        BY <4>1, <4>2
    <3>2. CASE m.attempt # MaxAttempts
      <4> DEFINE s == [m EXCEPT !.pc = "ensure", !.attempt = m.attempt + 1]
      <4>1. fetch' = [fetch EXCEPT ![f] = s]
        BY <1>1, <1>7, <3>2 DEF Store
      <4>2. m.attempt + 1 \in {1, 2}
        BY <1>1, <3>2 DEF FetchState, MaxAttempts
      <4>3. s \in FetchState /\ s.pc = "ensure" /\ s.at = m.at /\ s.quotes = m.quotes /\ s.commence = m.commence
        BY <1>1, <4>2 DEF FetchState
      <4> HIDE DEF s
      <4> QED
        BY <1>2, <4>1, <4>3
    <3> QED
      BY <3>1, <3>2
  <2>2. UNCHANGED <<odds, series, stale>> /\ lost' \in Nat
    BY <1>1, <1>7 DEF Store
  <2>3. PricesOK'
    BY <1>4, <2>2, PricesStay
  <2>4. fetch' \in [Fetchers -> FetchState] /\ \A h \in Fetchers : Held(h)'
    BY <1>6, <2>1
  <2> QED
    BY <1>1, <2>2, <2>3, <2>4 DEF OddsInv, Typed
<1>8. CASE ~collides
  <2> DEFINE moved == m.seen # None /\ m.seen.quote # odds[g][b].quote
  <2>1. /\ Write(f, g, m.seen) /\ fetch' = [fetch EXCEPT ![f] = Idle] /\ lost' = lost
        /\ stale' = IF moved THEN Refreshed(f, g) \cup {<<g, b>>} ELSE Refreshed(f, g)
    BY <1>8 DEF Store
  <2>2. fetch' \in [Fetchers -> FetchState] /\ \A h \in Fetchers : Held(h)'
    BY <1>5, <1>6, <2>1
  <2>3. Refreshed(f, g) \subseteq stale' /\ stale' \in SUBSET (GameIds \X Books)
        /\ (Unmoved(m.seen, odds[g][b]) \/ <<g, b>> \in stale')
    BY <1>1, <1>2, <1>3, <2>1 DEF Unmoved, Refreshed
  <2>4. /\ PricesOK'
        /\ odds' \in [GameIds -> [Books -> Row \cup {None}]]
        /\ series' \in [GameIds -> [Books -> Seq(Snap)]]
    <3> DEFINE loaded == m.seen
    <3>1. Write(f, g, loaded)
      BY <2>1
    <3>2. Unmoved(loaded, odds[g][FirstBook(f)]) \/ <<g, FirstBook(f)>> \in stale'
      BY <2>3
    <3> HIDE DEF loaded, g, b
    <3>3. games'[g].status # "absent" /\ (games'[g].start # None /\ g \notin restarted' => fetch[f].at < games'[g].start)
      BY <1>1, <1>2
    <3>4. g \in GameIds /\ now' = now /\ Refreshed(f, g) \subseteq stale'
      BY <1>1, <1>2, <2>3
    <3> QED
      BY <1>4, <3>1, <3>2, <3>3, <3>4, PricesWritten
  <2> QED
    BY <1>1, <2>1, <2>2, <2>3, <2>4 DEF OddsInv, Typed
<1> QED
  BY <1>7, <1>8

\* A row whose columns are, each, one of two rows' columns.
LEMMA RowMade ==
    ASSUME NEW old \in GameRow, NEW new \in GameRow, NEW now0 \in GameRow, new.status = old.status
    PROVE  LET row == [col \in DOMAIN new |-> IF new[col] = old[col] THEN now0[col] ELSE new[col]]
           IN  row \in GameRow /\ row.status = now0.status
<1> DEFINE row == [col \in DOMAIN new |-> IF new[col] = old[col] THEN now0[col] ELSE new[col]]
           r == [status |-> row.status, day |-> row.day, start |-> row.start, known |-> row.known]
<1>1. DOMAIN new = {"status", "day", "start", "known"}
  BY DEF GameRow
<1>2. /\ row.status = IF new.status = old.status THEN now0.status ELSE new.status
      /\ row.day = IF new.day = old.day THEN now0.day ELSE new.day
      /\ row.start = IF new.start = old.start THEN now0.start ELSE new.start
      /\ row.known = IF new.known = old.known THEN now0.known ELSE new.known
  BY <1>1
<1>3. row = r
  BY <1>1
<1> HIDE DEF row
<1>4. r \in GameRow
  BY <1>2 DEF GameRow
<1> QED
  BY <1>2, <1>3, <1>4 DEF row

LEMMA StoreEditedKeeps ==
    ASSUME OddsAssumption, OddsInv, NEW f \in Fetchers, StoreEdited(f)
    PROVE  OddsInv'
<1> DEFINE m == fetch[f]
           g == m.game
           old == m.row
           new == Ensured(old, m.commence)
           row == [col \in DOMAIN new |-> IF new[col] = old[col] THEN games[g][col] ELSE new[col]]
           rows == [games EXCEPT ![g] = row]
           target == FindGame(rows, m.commence)
<1>1. /\ m \in FetchState /\ fetch \in [Fetchers -> FetchState] /\ m.pc = "edited" /\ Held(f)
      /\ UNCHANGED <<now, sport, feed, moves, fetches, lost>>
      /\ games \in [GameIds -> GameRow] /\ now \in 0 .. MaxTime /\ MaxTime \in Nat
      /\ restarted \in SUBSET GameIds
  BY DEF StoreEdited, OddsInv, Typed, OddsAssumption
<1>2. /\ games' = rows /\ fetch' = [fetch EXCEPT ![f] = Idle]
      /\ restarted' = IF row.start = games[g].start THEN restarted ELSE restarted \cup {g}
      /\ IF target = 0 \/ Started(rows[target]) THEN UNCHANGED <<odds, series, stale>>
         ELSE Write(f, target, odds[target][FirstBook(f)]) /\ stale' = Refreshed(f, target)
  BY DEF StoreEdited
<1>3. /\ g \in GameIds /\ games[g] \in GameRow /\ games[g].status # "absent" /\ old \in GameRow
      /\ m.commence \in Commences /\ m.at <= now /\ m.at \in 0 .. MaxTime
  BY <1>1 DEF Held, Stored, FetchState
<1>4. row \in GameRow /\ row.status = games[g].status
  <2>1. new \in GameRow /\ new.status = old.status
    BY <1>3, EnsuredIs
  <2> HIDE DEF new
  <2> QED
    BY <1>3, <2>1, RowMade
<1> HIDE DEF new, row
<1>5. rows \in [GameIds -> GameRow] /\ rows[g] = row /\ \A h \in GameIds \ {g} : rows[h] = games[h]
  BY <1>1, <1>3, <1>4
<1> HIDE DEF rows
<1>6. restarted \subseteq restarted' /\ restarted' \in SUBSET GameIds
      /\ (row.start = games[g].start \/ g \in restarted')
  BY <1>1, <1>2, <1>3
<1>7. GamesStay
  BY <1>1, <1>2, <1>3, <1>4, <1>5, <1>6 DEF GamesStay
<1>8. /\ PricesOK'
      /\ odds' \in [GameIds -> [Books -> Row \cup {None}]]
      /\ series' \in [GameIds -> [Books -> Seq(Snap)]]
      /\ stale' \in SUBSET (GameIds \X Books)
  <2>1. CASE target = 0 \/ Started(rows[target])
    <3>1. odds' = odds /\ series' = series /\ stale' = stale
      BY <1>1, <1>2, <2>1
    <3>2. PricesOK'
      BY <1>7, <3>1, PricesStay
    <3> QED
      BY <3>1, <3>2 DEF OddsInv, Typed
  <2>2. CASE ~(target = 0 \/ Started(rows[target]))
    <3>1. target \in GameIds /\ rows[target].status # "absent"
      <4>1. target # 0
        BY <2>2
      <4>2. target \in GameIds /\ rows[target].status \in {"scheduled", "in_progress"}
        BY <4>1, FoundIs
      <4> QED
        BY <4>2
    <3> DEFINE loaded == odds[target][FirstBook(f)]
    <3>2. Write(f, target, loaded)
      BY <1>2, <2>2
    <3>3. rows[target].start # None => m.at < rows[target].start
      <4>1. rows[target].start # None => rows[target].start \in Nat
        BY <1>5, <3>1 DEF GameRow, OddsAssumption
      <4>2. rows[target].start # None => ~(rows[target].start <= now)
        BY <2>2 DEF Started
      <4> DEFINE t == rows[target].start
      <4>3. (t # None => t \in Nat) /\ (t # None => ~(t <= now)) /\ m.at \in Int /\ now \in Int /\ m.at <= now
        BY <1>1, <1>3, <4>1, <4>2
      <4> HIDE DEF t, m
      <4>4. t # None => m.at < t
        BY <4>3
      <4> QED
        BY <4>4 DEF t
    <3>4. Unmoved(loaded, odds[target][FirstBook(f)])
      BY DEF Unmoved
    <3>7. stale' = Refreshed(f, target) /\ stale' \in SUBSET (GameIds \X Books)
      BY <1>2, <2>2 DEF Refreshed, OddsInv, Typed
    <3> HIDE DEF loaded, target
    <3>5. games'[target].status # "absent" /\ (games'[target].start # None /\ target \notin restarted'
                => fetch[f].at < games'[target].start)
      BY <1>2, <3>1, <3>3
    <3>6. now' = now /\ Refreshed(f, target) \subseteq stale'
      BY <1>1, <3>7
    <3> QED
      BY <1>7, <3>1, <3>2, <3>4, <3>5, <3>6, <3>7, PricesWritten
  <2> QED
    BY <2>1, <2>2
<1>9. fetch' \in [Fetchers -> FetchState] /\ \A h \in Fetchers : Held(h)'
  <2>1. Idle \in FetchState /\ Idle.pc = "idle" /\ Idle.at <= now
    BY <1>1, IdleTyped DEF Idle
  <2>2. fetch'[f] = Idle
    BY <1>1, <1>2
  <2>3. Held(f)'
    BY <1>1, <2>1, <2>2 DEF Held
  <2> QED
    BY <1>2, <1>7, <2>1, <2>3, HeldByAll
<1>10. Typed'
  BY <1>1, <1>2, <1>5, <1>6, <1>8, <1>9 DEF OddsInv, Typed
<1> QED
  BY <1>8, <1>9, <1>10 DEF OddsInv

\* A step of no fetch.
LEMMA OthersKeep ==
    ASSUME OddsAssumption, OddsInv, GamesStay, UNCHANGED <<odds, series, fetch, stale>>, Typed'
    PROVE  OddsInv'
<1>1. PricesOK'
  BY PricesStay
<1>2. \A h \in Fetchers : Held(h)'
  BY HeldStays
<1> QED
  BY <1>1, <1>2 DEF OddsInv

LEMMA FeedKeeps ==
    ASSUME OddsAssumption, OddsInv, FeedMoves
    PROVE  OddsInv'
<1>1. /\ Typed /\ moves' = moves + 1
      /\ UNCHANGED <<now, sport, table, fetch, fetches, stale, restarted, lost>>
  BY DEF FeedMoves, OddsInv
<1>2. feed.quotes \in Answers /\ feed.commence \in Commences /\ feed \in [commence : Commences, quotes : Answers]
      /\ moves' \in Nat
  BY <1>1 DEF Typed
<1>3. feed' \in [commence : Commences, quotes : Answers]
  <2>1. CASE \E c \in Commences \ {feed.commence} : now < c /\ feed' = [feed EXCEPT !.commence = c]
    BY <1>2, <2>1
  <2>2. ASSUME NEW q \in Answers, feed' = [feed EXCEPT !.quotes = q]
        PROVE  feed' \in [commence : Commences, quotes : Answers]
    BY <1>2, <2>2
  <2>3. ASSUME NEW b \in Books, NEW q \in Quotes, feed' = [feed EXCEPT !.quotes = [x \in {b} \cup DOMAIN @ |-> IF x = b THEN q ELSE @[x]]]
        PROVE  feed' \in [commence : Commences, quotes : Answers]
    <3> DEFINE old == feed.quotes
               new == [x \in {b} \cup DOMAIN old |-> IF x = b THEN q ELSE old[x]]
    <3>1. DOMAIN old \in SUBSET Books /\ \A x \in DOMAIN old : old[x] \in Quotes
      BY <1>2, AnswerIs
    <3>2. feed' = [feed EXCEPT !.quotes = new]
      BY <1>2, <2>3
    <3>3. {b} \cup DOMAIN old \in SUBSET Books /\ new \in [{b} \cup DOMAIN old -> Quotes]
      BY <3>1
    <3> HIDE DEF old, new
    <3>4. new \in Answers
      BY <3>3, AnswerMade
    <3> QED
      BY <2>2, <3>2, <3>4
  <2>4. ASSUME NEW b \in DOMAIN feed.quotes, feed' = [feed EXCEPT !.quotes = [x \in DOMAIN @ \ {b} |-> @[x]]]
        PROVE  feed' \in [commence : Commences, quotes : Answers]
    <3> DEFINE old == feed.quotes
               new == [x \in DOMAIN old \ {b} |-> old[x]]
    <3>1. DOMAIN old \in SUBSET Books /\ \A x \in DOMAIN old : old[x] \in Quotes
      BY <1>2, AnswerIs
    <3>2. feed' = [feed EXCEPT !.quotes = new]
      BY <1>2, <2>4
    <3>3. DOMAIN old \ {b} \in SUBSET Books /\ new \in [DOMAIN old \ {b} -> Quotes]
      BY <3>1
    <3> HIDE DEF old, new
    <3>4. new \in Answers
      BY <3>3, AnswerMade
    <3> QED
      BY <2>2, <3>2, <3>4
  <2>5. \/ \E c \in Commences \ {feed.commence} : now < c /\ feed' = [feed EXCEPT !.commence = c]
        \/ \E b \in Books, q \in Quotes : feed' = [feed EXCEPT !.quotes = [x \in {b} \cup DOMAIN @ |-> IF x = b THEN q ELSE @[x]]]
        \/ \E b \in DOMAIN feed.quotes : feed' = [feed EXCEPT !.quotes = [x \in DOMAIN @ \ {b} |-> @[x]]]
    BY DEF FeedMoves
  <2> QED
    BY <2>1, <2>3, <2>4, <2>5
<1>4. Typed'
  BY <1>1, <1>2, <1>3 DEF Typed, table
<1>5. GamesStay
  BY <1>1 DEF GamesStay, Typed, table, OddsAssumption
<1> QED
  BY <1>1, <1>4, <1>5, OthersKeep DEF table

LEMMA ProgressKeeps ==
    ASSUME OddsAssumption, OddsInv, NEW g \in GameIds, Progress(g)
    PROVE  OddsInv'
<1>1. /\ Typed /\ games \in [GameIds -> GameRow] /\ games' = [games EXCEPT ![g].status = "final"]
      /\ UNCHANGED <<now, sport, feed, moves, odds, series, fetch, fetches, stale, restarted, lost>>
  BY DEF Progress, OddsInv, Typed
<1>2. games' \in [GameIds -> GameRow] /\ \A h \in GameIds : /\ games'[h].start = games[h].start
                                                           /\ games[h].status # "absent" => games'[h].status # "absent"
  BY <1>1 DEF GameRow
<1>3. Typed'
  BY <1>1, <1>2 DEF Typed
<1>4. GamesStay
  BY <1>1, <1>2 DEF GamesStay, Typed, OddsAssumption
<1> QED
  BY <1>1, <1>3, <1>4, OthersKeep

LEMMA TickKeeps ==
    ASSUME OddsAssumption, OddsInv, Tick
    PROVE  OddsInv'
<1>1. /\ Typed /\ now' = now + 1 /\ now < MaxTime /\ MaxTime \in Nat /\ now \in 0 .. MaxTime
      /\ UNCHANGED <<sport, feed, moves, table, fetch, fetches, stale, restarted, lost>>
  BY DEF Tick, OddsInv, Typed, OddsAssumption
<1>2. now' \in 0 .. MaxTime /\ now <= now'
  BY <1>1
<1>3. Typed'
  BY <1>1, <1>2 DEF Typed, table
<1>4. GamesStay
  BY <1>1, <1>2 DEF GamesStay, table
<1> QED
  BY <1>1, <1>3, <1>4, OthersKeep DEF table

LEMMA OddsStep ==
    ASSUME OddsAssumption, OddsInv, [Next]_vars
    PROVE  OddsInv'
<1>1. CASE FeedMoves
  BY <1>1, FeedKeeps
<1>2. ASSUME NEW f \in Fetchers, Fetch(f) \/ Ensure(f) \/ Create(f) \/ Find(f) \/ Store(f) \/ StoreEdited(f)
      PROVE  OddsInv'
  BY <1>2, FetchKeeps, EnsureKeeps, CreateKeeps, FindKeeps, StoreKeeps, StoreEditedKeeps
<1>3. CASE \E g \in GameIds : Progress(g)
  BY <1>3, ProgressKeeps
<1>4. CASE Tick
  BY <1>4, TickKeeps
<1>5. CASE UNCHANGED vars
  <2>1. UNCHANGED <<now, sport, feed, moves, games, odds, series, fetch, fetches, stale, restarted, lost>>
    BY <1>5 DEF vars, table
  <2>2. Typed'
    BY <2>1 DEF OddsInv, Typed
  <2>3. GamesStay
    BY <2>1 DEF GamesStay, OddsInv, Typed, OddsAssumption
  <2> QED
    BY <2>1, <2>2, <2>3, OthersKeep
<1> QED
  BY <1>1, <1>2, <1>3, <1>4, <1>5 DEF Next

LEMMA OddsHold ==
    ASSUME OddsAssumption
    PROVE  Spec => []OddsInv
<1>1. Init => OddsInv
  BY OddsInit
<1>2. OddsInv /\ [Next]_vars => OddsInv'
  BY OddsStep
<1> QED
  BY <1>1, <1>2, PTL DEF Spec

-----------------------------------------------------------------------------
(* What is promised *)

\* Whatever fetches of the two processes overlap, a book has a row exactly when it has a
\* price history, and every price of its current quote is in that history.  The quote is
\* the last one of the history unless the last store of the book wrote over a row that
\* another fetch had changed since it was read (_store_odds, record_snapshot).
THEOREM QuotesFollowHistory ==
    ASSUME OddsAssumption
    PROVE  Spec => []HistoryFollows
<1>1. OddsInv => HistoryFollows
  BY DEF OddsInv, PricesOK, Follows, OnRecord, HistoryFollows
<1> QED
  BY <1>1, OddsHold, PTL

\* The price history of a book is a record of changes: no price is recorded twice in a
\* row, and the times of capture never go back (record_snapshot).
THEOREM HistoryIsOfChanges ==
    ASSUME OddsAssumption
    PROVE  Spec => []SeriesOfChanges
<1>1. OddsInv => SeriesOfChanges
  BY DEF OddsInv, PricesOK, Changes, SeriesOfChanges
<1> QED
  BY <1>1, OddsHold, PTL

\* What is kept for a game that has started, the current quote and the closing line read
\* from the history, was fetched before its start: no in-play price replaces either, unless
\* the start was moved (_store_odds, closing_line).
THEOREM KeptQuotesAreTakeable ==
    ASSUME OddsAssumption
    PROVE  Spec => []TakeableQuote
<1>1. OddsInv => TakeableQuote
  <2> SUFFICES ASSUME OddsInv, NEW g \in Stored, NEW b \in Books, games[g].start # None, g \notin restarted
               PROVE  /\ odds[g][b] # None => odds[g][b].fetched < games[g].start
                      /\ ClosingLine(g, b) # None => ClosingLine(g, b).fetched < games[g].start
    BY DEF TakeableQuote
  <2>1. g \in GameIds /\ games[g].start \in Nat
    BY DEF OddsInv, Typed, GameRow, Stored, OddsAssumption
  <2>2. odds[g][b] # None => odds[g][b].fetched < games[g].start
    BY <2>1 DEF OddsInv, PricesOK, Timely
  <2> DEFINE s == series[g][b]
             before == {i \in DOMAIN s : games[g].start = None \/ s[i].captured < games[g].start}
  <2>3. ClosingLine(g, b) = IF before = {} THEN None ELSE s[Max(before)]
    BY DEF ClosingLine
  <2>4. s \in Seq(Snap) /\ Changes(s)
    BY <2>1 DEF OddsInv, Typed, PricesOK
  <2> HIDE DEF s
  <2>5. ASSUME before # {} PROVE s[Max(before)].fetched < games[g].start
    <3>1. Len(s) \in Nat /\ before \in SUBSET (1 .. Len(s)) /\ DOMAIN s = 1 .. Len(s)
      BY <2>4
    <3> DEFINE last == Max(before)
    <3>2. Max(before) \in before
      BY <2>5, <3>1, GreatestNumber
    <3>3. last \in 1 .. Len(s) /\ s[last].captured < games[g].start
      BY <3>1, <3>2
    <3> HIDE DEF last, before
    <3>4. s[last] \in Snap /\ s[last].fetched <= s[last].captured
      BY <2>4, <3>1, <3>3, ElementOfSeq DEF Changes
    <3>5. s[last].fetched \in Nat /\ s[last].captured \in Nat
      BY <3>4 DEF Snap, OddsAssumption
    <3> QED
      BY <2>1, <3>3, <3>4, <3>5 DEF last
  <2> QED
    BY <2>2, <2>3, <2>5
<1> QED
  BY <1>1, OddsHold, PTL

\* Every variable keeps its type, whatever the feed serves.
THEOREM OddsTypeCorrect ==
    ASSUME OddsAssumption
    PROVE  Spec => []TypeOK
<1>1. OddsInv => TypeOK
  <2> SUFFICES ASSUME OddsInv PROVE TypeOK
    OBVIOUS
  <2>1. now \in 0 .. MaxTime /\ sport \in {"combat", "team"} /\ fetches \in 0 .. MaxFetches /\ stale \subseteq GameIds \X Books
    BY DEF OddsInv, Typed
  <2>2. ASSUME NEW g \in GameIds PROVE /\ games[g].status \in {"absent", "scheduled", "in_progress", "final"}
                                       /\ games[g].start \in Commences \cup {None}
    BY DEF OddsInv, Typed, GameRow
  <2>3. ASSUME NEW g \in GameIds, NEW b \in Books
        PROVE  odds[g][b] \in Row \cup {None} /\ \A i \in 1 .. Len(series[g][b]) : series[g][b][i].quote \in Quotes
    <3>1. odds[g][b] \in Row \cup {None} /\ series[g][b] \in Seq(Snap)
      BY DEF OddsInv, Typed
    <3>2. \A i \in 1 .. Len(series[g][b]) : series[g][b][i] \in Snap
      BY <3>1, ElementOfSeq
    <3> QED
      BY <3>1, <3>2 DEF Snap
  <2> QED
    BY <2>1, <2>2, <2>3 DEF TypeOK
<1> QED
  BY <1>1, OddsHold, PTL
-----------------------------------------------------------------------------
(* Props, stored by other fetches: prop_snapshots and player_props.         *)
CONSTANTS PropFetchers, Quoted, Ladders, Implied, MaxPropFetches
VARIABLES propSeries, props, propFetch, propFetches, shown, raced
Props == INSTANCE PropFeed WITH
    Fetchers <- PropFetchers, MaxFetches <- MaxPropFetches,
    series <- propSeries, fetch <- propFetch, fetches <- propFetches

\* What the API may answer, what may be kept of it, and what a key's history may hold.
PropAnswers ==
    {a \in [Quoted -> UNION {Ladders[q] : q \in Quoted}] : \A q \in Quoted : a[q] \in Ladders[q]}
KeptOf == {Props!Kept(a) : a \in PropAnswers}
Offers == {Props!NoOffer} \cup UNION {{kept[k] : k \in DOMAIN kept} : kept \in KeptOf}

\* A history is never shorter than a fetch has read it, and what a fetch keeps was answered.
PropTyped ==
    /\ propSeries \in [Props!Keys -> Seq(Offers)]
    /\ props \in [Props!Keys -> Offers] /\ shown \in [Props!Keys -> Offers]
    /\ DOMAIN propFetch = PropFetchers
    /\ \A f \in PropFetchers :
          /\ propFetch[f].pc \in {"idle", "read", "store"}
          /\ propFetch[f].pc # "idle" => propFetch[f].kept \in KeptOf
          /\ propFetch[f].pc = "store" =>
                \A k \in DOMAIN propFetch[f].latest : k \in Props!Keys /\ propSeries[k] # <<>>
    /\ raced \subseteq Props!Keys

\* A key's history ends with what was last shown and records changes only, and its row is
\* the price on offer.
PropFollows(k) ==
    /\ (IF propSeries[k] = <<>> THEN Props!NoOffer ELSE Props!Last(propSeries[k])) = shown[k]
    /\ shown[k].odds # None => props[k] = shown[k]
    /\ \A i \in 1 .. Len(propSeries[k]) - 1 : propSeries[k][i] # propSeries[k][i+1]

PropInv == PropTyped /\ \A k \in Props!Keys \ raced : PropFollows(k)

\* What is kept is on offer; nothing else in a history is.
LEMMA KeptIsOffered ==
    ASSUME NEW kept \in KeptOf
    PROVE  /\ DOMAIN kept \subseteq Props!Keys
           /\ \A k \in DOMAIN kept : kept[k] \in Offers /\ kept[k].odds # None
<1>1. PICK a \in PropAnswers : kept = Props!Kept(a)
  BY DEF KeptOf
<1>2. /\ DOMAIN kept \subseteq Props!Keys
      /\ \A k \in DOMAIN kept : kept[k].odds # None
  BY <1>1 DEF Props!Kept
<1>3. \A k \in DOMAIN kept : kept[k] \in Offers
  BY DEF Offers
<1> QED
  BY <1>2, <1>3

LEMMA OffersAre ==
    /\ Props!NoOffer \in Offers /\ Props!NoOffer.odds = None
    /\ \A o \in Offers : /\ DOMAIN o = {"line", "odds"}
                         /\ o.odds = None => o = Props!NoOffer
<1>1. ASSUME NEW kept \in KeptOf, NEW k \in DOMAIN kept
      PROVE  DOMAIN kept[k] = {"line", "odds"} /\ kept[k].odds # None
  <2>1. PICK a \in PropAnswers : kept = Props!Kept(a)
    BY DEF KeptOf
  <2>2. DOMAIN kept[k] = {"line", "odds"}
    BY <2>1 DEF Props!Kept
  <2> QED
    BY <2>2, KeptIsOffered
<1> QED
  BY <1>1 DEF Offers, Props!NoOffer

\* Appending an offer.
LEMMA OfferAppended ==
    ASSUME NEW s \in Seq(Offers), NEW o \in Offers,
           s = <<>> \/ Props!Last(s) # o,
           \A i \in 1 .. Len(s) - 1 : s[i] # s[i+1]
    PROVE  LET t == Append(s, o) IN
           /\ t \in Seq(Offers) /\ t # <<>> /\ Props!Last(t) = o
           /\ \A i \in 1 .. Len(t) - 1 : t[i] # t[i+1]
<1> DEFINE t == Append(s, o)
           n == Len(s)
<1>1. /\ n \in Nat /\ Len(t) = n + 1 /\ t[n + 1] = o /\ \A i \in 1 .. n : t[i] = s[i]
      /\ t \in Seq(Offers)
  OBVIOUS
<1>2. t # <<>> /\ Props!Last(t) = o
  <2> HIDE DEF t
  <2> QED
    BY <1>1 DEF Props!Last
<1>3. s = <<>> <=> n = 0
  OBVIOUS
<1>4. n # 0 => s[n] # o
  BY <1>3 DEF Props!Last
<1> HIDE DEF t, n
<1>5. ASSUME NEW i \in 1 .. Len(t) - 1 PROVE t[i] # t[i+1]
  <2>1. i \in 1 .. n
    BY <1>1
  <2>2. CASE i = n
    BY <1>1, <1>4, <2>1, <2>2
  <2>3. CASE i # n
    <3>1. i \in 1 .. n - 1 /\ i + 1 \in 1 .. n
      BY <1>1, <2>1, <2>3
    <3> QED
      BY <1>1, <2>1, <3>1 DEF n
  <2> QED
    BY <2>2, <2>3
<1> QED
  BY <1>1, <1>2, <1>5 DEF t

-----------------------------------------------------------------------------
LEMMA PropInit ==
    ASSUME Props!Init
    PROVE  PropInv
<1>1. \A k \in Props!Keys : propSeries[k] = <<>> /\ shown[k] = Props!NoOffer
  BY DEF Props!Init
<1>2. PropTyped
  BY OffersAre DEF Props!Init, PropTyped, Props!Idle
<1>3. \A k \in Props!Keys : PropFollows(k)
  BY <1>1, OffersAre DEF PropFollows
<1> QED
  BY <1>2, <1>3 DEF PropInv

\* What a store makes of one key: nothing is recorded twice, a key the fetch lacks ends with
\* no offer when its market was quoted, and the history only grows.
LEMMA PropStoreKeeps ==
    ASSUME PropInv, NEW f \in PropFetchers, Props!Store(f)
    PROVE  PropInv'
<1> DEFINE kept == propFetch[f].kept
           latest == propFetch[f].latest
           markets == {Props!Market(k) : k \in DOMAIN kept}
<1>1. /\ propSeries' = Props!Recorded(latest, kept) /\ propFetch' = [propFetch EXCEPT ![f] = Props!Idle]
      /\ props' = [k \in Props!Keys |-> IF k \in DOMAIN kept THEN kept[k] ELSE props[k]]
      /\ shown' = [k \in Props!Keys |-> IF k \in DOMAIN kept THEN kept[k]
                                  ELSE IF Props!Market(k) \in markets THEN Props!NoOffer ELSE shown[k]]
      /\ raced' = raced \cup {k \in Props!Keys : propSeries[k] # <<>> /\
                      (k \notin DOMAIN latest \/ Props!Latest[k] # latest[k])}
      /\ propFetch[f].pc = "store"
  BY DEF Props!Store
<1>2. /\ PropTyped /\ kept \in KeptOf /\ \A k \in DOMAIN latest : k \in Props!Keys /\ propSeries[k] # <<>>
  BY <1>1 DEF PropInv, PropTyped
<1>3. /\ DOMAIN kept \subseteq Props!Keys
      /\ \A k \in DOMAIN kept : kept[k] \in Offers /\ kept[k].odds # None
  BY <1>2, KeptIsOffered
<1> HIDE DEF kept, latest
<1>4. ASSUME NEW k \in Props!Keys
      PROVE  propSeries'[k] = IF k \in Props!Appended(latest, kept) THEN Append(propSeries[k], kept[k])
                          ELSE IF k \in Props!Pulled(latest, kept) THEN Append(propSeries[k], Props!NoOffer)
                          ELSE propSeries[k]
  BY <1>1 DEF Props!Recorded
<1>5. ASSUME NEW k \in Props!Keys
      PROVE  /\ propSeries'[k] \in Seq(Offers) /\ (propSeries[k] # <<>> => propSeries'[k] # <<>>)
             /\ props'[k] \in Offers /\ shown'[k] \in Offers
  <2>1. propSeries[k] \in Seq(Offers) /\ props[k] \in Offers /\ shown[k] \in Offers
    BY <1>2 DEF PropTyped
  <2>2. k \in Props!Appended(latest, kept) => kept[k] \in Offers
    BY <1>3 DEF Props!Appended
  <2>3. \A o \in Offers : Append(propSeries[k], o) \in Seq(Offers) /\ Append(propSeries[k], o) # <<>>
    BY <2>1
  <2> QED
    BY <1>1, <1>3, <1>4, <2>1, <2>2, <2>3, OffersAre
<1>6. PropTyped'
  <2>1. /\ propSeries' \in [Props!Keys -> Seq(Offers)]
        /\ props' \in [Props!Keys -> Offers] /\ shown' \in [Props!Keys -> Offers]
        /\ raced' \subseteq Props!Keys
    <3>1. propSeries' = [k \in Props!Keys |-> propSeries'[k]]
      BY <1>1 DEF Props!Recorded
    <3> QED
      BY <1>1, <1>2, <1>5, <3>1 DEF PropTyped
  <2>2. \A g \in PropFetchers : propFetch'[g] = IF g = f THEN Props!Idle ELSE propFetch[g]
    BY <1>1, <1>2 DEF PropTyped
  <2>3. ASSUME NEW g \in PropFetchers, propFetch'[g].pc = "store", NEW k \in DOMAIN propFetch'[g].latest
        PROVE  k \in Props!Keys /\ propSeries'[k] # <<>>
    <3>1. g # f /\ propFetch'[g] = propFetch[g]
      BY <2>2, <2>3 DEF Props!Idle
    <3>2. k \in Props!Keys /\ propSeries[k] # <<>>
      BY <1>2, <2>3, <3>1 DEF PropTyped
    <3> QED
      BY <1>5, <3>2
  <2> QED
    BY <1>1, <1>2, <2>1, <2>2, <2>3 DEF PropTyped, Props!Idle
<1>7. ASSUME NEW k \in Props!Keys \ raced' PROVE PropFollows(k)'
  <2> DEFINE s == propSeries[k]
  <2>1. /\ k \notin raced /\ s \in Seq(Offers)
        /\ s = <<>> \/ (k \in DOMAIN latest /\ Props!Last(s) = latest[k])
        /\ s = <<>> => k \notin DOMAIN latest
    <3>1. \A q \in Props!Keys : propSeries[q] # <<>> => Props!Latest[q] = Props!Last(propSeries[q])
      BY DEF Props!Latest
    <3> QED
      BY <1>1, <1>2, <1>7, <3>1 DEF PropTyped
  <2>2. /\ (IF s = <<>> THEN Props!NoOffer ELSE Props!Last(s)) = shown[k]
        /\ shown[k].odds # None => props[k] = shown[k]
        /\ \A i \in 1 .. Len(s) - 1 : s[i] # s[i+1]
    BY <2>1 DEF PropInv, PropFollows
  <2> HIDE DEF s
  <2>3. ASSUME NEW o \in Offers, s = <<>> \/ Props!Last(s) # o, propSeries'[k] = Append(s, o), shown'[k] = o,
               o.odds # None => props'[k] = o
        PROVE  PropFollows(k)'
    <3> DEFINE t == Append(s, o)
    <3>1. t # <<>> /\ Props!Last(t) = o /\ \A i \in 1 .. Len(t) - 1 : t[i] # t[i+1]
      BY <2>1, <2>2, <2>3, OfferAppended
    <3> HIDE DEF t
    <3> QED
      BY <2>3, <3>1 DEF PropFollows, t
  <2>4. ASSUME propSeries'[k] = s, shown'[k] = IF s = <<>> THEN Props!NoOffer ELSE Props!Last(s),
               shown'[k].odds # None => props'[k] = shown'[k]
        PROVE  PropFollows(k)'
    BY <2>2, <2>4 DEF PropFollows
  <2>5. CASE k \in DOMAIN kept
    <3>1. shown'[k] = kept[k] /\ props'[k] = kept[k] /\ k \notin Props!Pulled(latest, kept)
      BY <1>1, <2>5 DEF Props!Pulled
    <3>2. CASE k \in Props!Appended(latest, kept)
      <4>1. s = <<>> \/ Props!Last(s) # kept[k]
        BY <2>1, <3>2 DEF Props!Appended
      <4>2. propSeries'[k] = Append(s, kept[k])
        BY <1>4, <3>2 DEF s
      <4> QED
        BY <1>3, <2>3, <2>5, <3>1, <4>1, <4>2
    <3>3. CASE k \notin Props!Appended(latest, kept)
      <4>1. k \in DOMAIN latest /\ latest[k] = kept[k]
        BY <2>5, <3>3 DEF Props!Appended
      <4>2. propSeries'[k] = s
        BY <1>4, <3>1, <3>3 DEF s
      <4> QED
        BY <2>1, <2>4, <3>1, <4>1, <4>2
    <3> QED
      BY <3>2, <3>3
  <2>6. CASE k \notin DOMAIN kept /\ Props!Market(k) \in markets
    <3>1. shown'[k] = Props!NoOffer /\ props'[k] = props[k] /\ k \notin Props!Appended(latest, kept)
      BY <1>1, <2>6 DEF Props!Appended
    <3>2. CASE k \in Props!Pulled(latest, kept)
      <4>1. Props!Last(s) # Props!NoOffer
        BY <2>1, <3>2, OffersAre DEF Props!Pulled
      <4>2. propSeries'[k] = Append(s, Props!NoOffer)
        BY <1>4, <3>1, <3>2 DEF s
      <4> QED
        BY <2>3, <3>1, <4>1, <4>2, OffersAre
    <3>3. CASE k \notin Props!Pulled(latest, kept)
      <4>1. k \in DOMAIN latest => latest[k].odds = None
        BY <2>6, <3>3 DEF Props!Pulled
      <4>2. s # <<>> => Props!Last(s) \in Offers
        BY <2>1 DEF Props!Last
      <4>3. s # <<>> => Props!Last(s) = Props!NoOffer
        BY <2>1, <4>1, <4>2, OffersAre
      <4>4. propSeries'[k] = s
        BY <1>4, <3>1, <3>3 DEF s
      <4> QED
        BY <2>4, <3>1, <4>3, <4>4, OffersAre
    <3> QED
      BY <3>2, <3>3
  <2>7. CASE k \notin DOMAIN kept /\ Props!Market(k) \notin markets
    <3>1. k \notin Props!Appended(latest, kept) /\ k \notin Props!Pulled(latest, kept)
      BY <2>7 DEF Props!Appended, Props!Pulled
    <3>2. propSeries'[k] = s /\ shown'[k] = shown[k] /\ props'[k] = props[k]
      BY <1>1, <1>4, <2>7, <3>1 DEF s
    <3> QED
      BY <2>2, <2>4, <3>2
  <2> QED
    BY <2>5, <2>6, <2>7
<1> QED
  BY <1>6, <1>7 DEF PropInv

LEMMA PropStep ==
    ASSUME PropInv, [Props!Next]_Props!vars
    PROVE  PropInv'
<1>1. ASSUME NEW f \in PropFetchers, Props!Fetch(f) PROVE PropInv'
  <2>1. PICK a \in PropAnswers :
           propFetch' = [propFetch EXCEPT ![f] = [Props!Idle EXCEPT !.pc = "read", !.kept = Props!Kept(a)]]
    BY <1>1 DEF Props!Fetch, PropAnswers
  <2> DEFINE mem == [Props!Idle EXCEPT !.pc = "read", !.kept = Props!Kept(a)]
  <2>2. mem.pc = "read" /\ mem.kept \in KeptOf
    BY DEF Props!Idle, KeptOf
  <2> HIDE DEF mem
  <2>3. DOMAIN propFetch' = PropFetchers /\ \A g \in PropFetchers : propFetch'[g] = IF g = f THEN mem ELSE propFetch[g]
    BY <2>1 DEF PropInv, PropTyped, mem
  <2>4. UNCHANGED <<propSeries, props, shown, raced>>
    BY <1>1 DEF Props!Fetch
  <2>5. PropTyped'
    BY <2>2, <2>3, <2>4 DEF PropInv, PropTyped
  <2> QED
    BY <2>4, <2>5 DEF PropInv, PropFollows
<1>2. ASSUME NEW f \in PropFetchers, Props!Read(f) PROVE PropInv'
  <2>1. /\ UNCHANGED <<propSeries, props, shown, raced>> /\ propFetch[f].pc = "read"
        /\ propFetch' = [propFetch EXCEPT ![f].pc = "store", ![f].latest = Props!Latest]
    BY <1>2 DEF Props!Read
  <2>2. \A k \in DOMAIN Props!Latest : k \in Props!Keys /\ propSeries[k] # <<>>
    BY DEF Props!Latest
  <2>3. DOMAIN propFetch' = PropFetchers /\ \A g \in PropFetchers : g # f => propFetch'[g] = propFetch[g]
    BY <2>1 DEF PropInv, PropTyped
  <2>4. propFetch'[f].kept = propFetch[f].kept /\ propFetch'[f].pc = "store" /\ propFetch'[f].latest = Props!Latest
    BY <2>1 DEF PropInv, PropTyped
  <2> HIDE DEF Props!Latest
  <2>5. PropTyped'
    BY <2>1, <2>2, <2>3, <2>4 DEF PropInv, PropTyped
  <2> QED
    BY <2>1, <2>5 DEF PropInv, PropFollows
<1>3. ASSUME NEW f \in PropFetchers, Props!Store(f) PROVE PropInv'
  BY <1>3, PropStoreKeeps
<1>4. CASE UNCHANGED Props!vars
  BY <1>4 DEF Props!vars, PropInv, PropTyped, PropFollows
<1> QED
  BY <1>1, <1>2, <1>3, <1>4 DEF Props!Next

\* Where no fetch raced another, a key's history ends with what its book last showed, a pull
\* included, never records an offer twice in a row, and the current row is the price on offer.
THEOREM PropsFollowHistory == Props!Spec => []Props!PropHistoryFollows
<1>1. Props!Init => PropInv
  BY PropInit
<1>2. PropInv /\ [Props!Next]_Props!vars => PropInv'
  BY PropStep
<1>3. PropInv => Props!PropHistoryFollows
  BY DEF PropInv, PropFollows, Props!PropHistoryFollows
<1> QED
  BY <1>1, <1>2, <1>3, PTL DEF Props!Spec

\* Every stored line, row and fetch is of its type.
THEOREM PropsTypeCorrect == ASSUME Props!PropAssumption PROVE Props!Spec => []Props!TypeOK
<1> DEFINE PropsCounted == propFetches \in 0 .. MaxPropFetches
<1>1. Props!Init => PropInv /\ PropsCounted
  BY PropInit DEF Props!Init, Props!PropAssumption
<1>2. PropInv /\ PropsCounted /\ [Props!Next]_Props!vars => PropInv' /\ PropsCounted'
  <2>1. PropsCounted /\ [Props!Next]_Props!vars => PropsCounted'
    <3>1. ASSUME Props!Next
          PROVE  (propFetches < MaxPropFetches /\ propFetches' = propFetches + 1) \/ propFetches' = propFetches
      BY <3>1 DEF Props!Next, Props!Fetch, Props!Read, Props!Store
    <3> QED
      BY <3>1 DEF Props!vars, Props!PropAssumption
  <2> QED
    BY <2>1, PropStep
<1>3. PropInv /\ PropsCounted => Props!TypeOK
  BY OffersAre DEF PropInv, PropTyped, Props!TypeOK
<1> QED
  BY <1>1, <1>2, <1>3, PTL DEF Props!Spec
=============================================================================
