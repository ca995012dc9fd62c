------------------------------ MODULE OddsFeed ------------------------------
(***************************************************************************)
(* Storing a sport's odds: fetches of the two processes (a scout, a price  *)
(* refresh, an owner's refresh) that overlap on one SQLite file.  A fetch  *)
(* finds or creates the game an event is about, upserts one Odds row per   *)
(* bookmaker and appends to the price history, line_snapshots.             *)
(*                                                                         *)
(* One event of the feed is followed; the feed may move its start.  What a *)
(* session read before its first write may be stale; from its first flush  *)
(* to the commit it holds the write lock, so that stretch is one action.   *)
(***************************************************************************)
EXTENDS Integers, Sequences, FiniteSets, SequencesExt, FiniteSetsExt

CONSTANTS
    Fetchers,    \* the threads that fetch
    BookOrder,   \* the bookmakers, in the order the feed lists them
    Quotes,      \* what a book may quote
    FirstQuotes, \* what the books quote to begin with
    MaxGames,    \* rows of games, at most
    Commences,   \* the starts the feed may give the event
    DayLength,   \* ticks in a day
    MaxTime,     \* the last tick
    MaxMoves,    \* changes of the feed, at most
    MaxFetches,  \* fetches in a behaviour, at most
    None         \* nothing

Books == ToSet(BookOrder)
GameIds == 1 .. MaxGames
Columns == UNION {DOMAIN q : q \in Quotes}
Prices == {q[col] : q \in Quotes, col \in Columns}
Mixed == [Columns -> Prices]     \* what two writers can make of their quotes
Row == [quote : Mixed, fetched : 0 .. MaxTime]

(* Every quote prices the same columns, and None is not a row. *)
OddsAssumption ==
    /\ BookOrder \in Seq(Books)
    /\ Quotes \subseteq Mixed /\ None \notin Row
    /\ \E listed \in SUBSET Books : FirstQuotes \in [listed -> Quotes]
    /\ Commences \subseteq Nat /\ DayLength \in Nat \ {0}
    /\ MaxGames \in Nat /\ MaxTime \in Nat /\ MaxFetches \in Nat

VARIABLES
    now,         \* the time
    sport,       \* "combat": the feed is the only schedule; "team": ESPN has one
    feed,        \* the event as the API serves it: its start and the books' quotes
    moves,       \* changes of the feed so far
    games,       \* the rows of games for this pair of teams
    odds,        \* odds: by game and book, the current quote
    series,      \* line_snapshots: by game and book, oldest first
    fetch,       \* each fetcher's place and what it has in memory
    fetches,     \* fetches so far
    stale,       \* history: <<game, book>> last written over a row whose quote
                 \* had changed since it was read
    restarted,   \* history: games whose start was changed
    lost         \* history: fetches dropped by a second IntegrityError

table == <<games, odds, series>>
vars == <<now, sport, feed, moves, table, fetch, fetches, stale, restarted, lost>>

Day(t) == t \div DayLength

(* A game's row: whether ESPN or the feed has scheduled it, its date, its   *)
(* start_time (None: unknown) and whether it carries the event's            *)
(* odds_api_id.                                                             *)
NoGame == [status |-> "absent", day |-> 0, start |-> None, known |-> FALSE]
Stored == {g \in GameIds : games[g].status # "absent"}

Idle == [pc |-> "idle", quotes |-> <<>>, commence |-> 0, at |-> 0, game |-> 0,
         row |-> NoGame, seen |-> None, attempt |-> 1]

----------------------------------------------------------------------------
(* Which game an event is about *)

First(rows) == IF rows = {} THEN 0 ELSE Min(rows)
ById == First({g \in Stored : games[g].known})
ByTeams(c) == First({g \in Stored : games[g].day = Day(c)})

(* _combat_start_time *)
Restart(row, c) == IF sport = "combat" /\ row.status = "scheduled" THEN c ELSE row.start

(* What _ensure_game_from_odds makes of the row it finds. *)
Ensured(row, c) ==
    IF row.known THEN [row EXCEPT !.day = Day(c), !.start = Restart(row, c)]
    ELSE [row EXCEPT !.known = TRUE, !.start = Restart(row, c)]

Distance(a, b) == IF a < b THEN b - a ELSE a - b
(* _match_distance: how well a row fits a commence time; a known start beats *)
(* a bare date, whatever the distances.                                      *)
Fit(row, c) ==
    IF row.start # None THEN [precision |-> 0, distance |-> Distance(row.start, c)]
    ELSE [precision |-> 1, distance |-> Distance(row.day, Day(c))]
Fits(row, c) == Fit(row, c).distance <= (IF row.start # None THEN DayLength \div 2 ELSE 1)
Closer(a, b) == \/ a.precision < b.precision
                \/ a.precision = b.precision /\ a.distance < b.distance

(* _find_game_by_teams: among the rows still to be played or under way. *)
FindGame(rows, c) ==
    LET fitting == {g \in GameIds : rows[g].status \in {"scheduled", "in_progress"}
                                    /\ Fits(rows[g], c)}
        best == {g \in fitting : \A h \in fitting : ~Closer(Fit(rows[h], c), Fit(rows[g], c))}
    IN  IF best = {} THEN 0 ELSE Max(best)

Started(row) == row.start # None /\ row.start <= now

----------------------------------------------------------------------------
(* What is stored *)

(* latest_snapshot, record_snapshot: append when the price differs from the *)
(* latest one, else the line held.                                          *)
LatestSnapshot(s) == Last(s)
(* A price held to be known when it was ever quoted before. *)
RecordedOnce(s, q, fetched) ==
    IF \E i \in DOMAIN s : s[i].quote = q THEN s
    ELSE Append(s, [quote |-> q, captured |-> now, fetched |-> fetched])
Recorded(s, q, fetched) ==
    IF s # <<>> /\ LatestSnapshot(s).quote = q THEN s
    ELSE Append(s, [quote |-> q, captured |-> now, fetched |-> fetched])

(* Updating a loaded row writes the columns that differ from what was read. *)
Upserted(current, loaded, q, fetched) ==
    [quote |-> IF current = None \/ loaded = None THEN q
               ELSE [col \in DOMAIN q |-> IF loaded.quote[col] = q[col]
                                          THEN current.quote[col] ELSE q[col]],
     fetched |-> fetched]

(* closing_line: the last price captured before the start. *)
ClosingLine(g, b) ==
    LET s == series[g][b]
        before == {i \in DOMAIN s : games[g].start = None \/ s[i].captured < games[g].start}
    IN  IF before = {} THEN None ELSE s[Max(before)]

FirstBook(f) == BookOrder[Min({i \in DOMAIN BookOrder : BookOrder[i] \in DOMAIN fetch[f].quotes})]

----------------------------------------------------------------------------
(* What ESPN's fetch may have stored before: the event's game, with a start *)
(* or without.                                                              *)
EspnRows == [status : {"scheduled"}, day : {0},
             start : {None} \cup {c \in Commences : Day(c) = 0}, known : {FALSE}]

Init ==
    /\ now = 0
    /\ \/ sport = "combat" /\ games = [g \in GameIds |-> NoGame]
       \/ sport = "team" /\ \E r \in {NoGame} \cup EspnRows : games = [g \in GameIds |->
                                                          IF g = 1 THEN r ELSE NoGame]
    /\ moves = 0
    /\ \E c \in Commences : feed = [commence |-> c, quotes |-> FirstQuotes]
    /\ odds = [g \in GameIds |-> [b \in Books |-> None]]
    /\ series = [g \in GameIds |-> [b \in Books |-> <<>>]]
    /\ fetch = [f \in Fetchers |-> Idle]
    /\ fetches = 0 /\ stale = {} /\ restarted = {} /\ lost = 0

(* The books move their prices, appear and go; the event is put elsewhere. *)
FeedMoves ==
    /\ moves < MaxMoves /\ moves' = moves + 1
    /\ \/ \E c \in Commences \ {feed.commence} : now < c /\ feed' = [feed EXCEPT !.commence = c]
       \/ \E b \in Books, q \in Quotes : feed' = [feed EXCEPT !.quotes =
                              [x \in {b} \cup DOMAIN @ |-> IF x = b THEN q ELSE @[x]]]
       \/ \E b \in DOMAIN feed.quotes : feed' = [feed EXCEPT !.quotes =
                                           [x \in DOMAIN @ \ {b} |-> @[x]]]
    /\ feed' # feed
    /\ UNCHANGED <<now, sport, table, fetch, fetches, stale, restarted, lost>>

(* The API answers: events under way are in the answer too. *)
Fetch(f) ==
    /\ fetch[f].pc = "idle" /\ fetches < MaxFetches
    /\ DOMAIN feed.quotes # {}
    /\ fetch' = [fetch EXCEPT ![f] = [Idle EXCEPT !.pc = "ensure", !.quotes = feed.quotes,
                                     !.commence = feed.commence, !.at = now]]
    /\ fetches' = fetches + 1
    /\ UNCHANGED <<now, sport, feed, moves, table, stale, restarted, lost>>

(* _ensure_game_from_odds reads: by the event's id first, then by its teams *)
(* and date.                                                                *)
Ensure(f) ==
    /\ fetch[f].pc = "ensure"
    /\ LET c == fetch[f].commence
           g == IF ById # 0 THEN ById ELSE ByTeams(c)
       IN  IF g = 0 THEN fetch' = [fetch EXCEPT ![f].pc = "create"]
           ELSE fetch' = [fetch EXCEPT ![f].row = games[g], ![f].game = g, ![f].pc =
                              IF Ensured(games[g], c) = games[g] THEN "find" ELSE "edited"]
    /\ UNCHANGED <<now, sport, feed, moves, table, fetches, stale, restarted, lost>>

(* The game is new: inserted and committed. *)
Create(f) ==
    /\ fetch[f].pc = "create" /\ Stored # GameIds
    /\ LET c == fetch[f].commence IN
       games' = [games EXCEPT ![Min(GameIds \ Stored)] =
                   [status |-> "scheduled", day |-> Day(c), known |-> TRUE,
                    start |-> IF sport = "combat" THEN c ELSE None]]
    /\ fetch' = [fetch EXCEPT ![f].pc = "find"]
    /\ UNCHANGED <<now, sport, feed, moves, odds, series, fetches, stale, restarted, lost>>

(* _store_odds looks its game up.  No game, or one under way: not priced.   *)
(* Otherwise it reads the first book's row, before it has any lock.         *)
Find(f) ==
    /\ fetch[f].pc = "find"
    /\ LET g == FindGame(games, fetch[f].commence) IN
       fetch' = [fetch EXCEPT ![f] = IF g = 0 \/ Started(games[g]) THEN Idle
                   ELSE [@ EXCEPT !.game = g, !.seen = odds[g][FirstBook(f)], !.pc = "store"]]
    /\ UNCHANGED <<now, sport, feed, moves, table, fetches, stale, restarted, lost>>

(* All the books of the answer on game g, the first one's row loaded earlier. *)
Write(f, g, loaded) ==
    LET q == fetch[f].quotes IN
    /\ odds' = [odds EXCEPT ![g] = [b \in Books |->
          IF b \notin DOMAIN q THEN odds[g][b]
          ELSE Upserted(odds[g][b], IF b = FirstBook(f) THEN loaded ELSE odds[g][b],
                        q[b], fetch[f].at)]]
    /\ series' = [series EXCEPT ![g] = [b \in Books |->
          IF b \in DOMAIN q THEN Recorded(series[g][b], q[b], fetch[f].at) ELSE series[g][b]]]

(* What f writes on game g is written over what it read. *)
Refreshed(f, g) == stale \ ({g} \X DOMAIN fetch[f].quotes)

(* How often a sport's answer is stored before it is given up. *)
NoRetry == 1
MaxAttempts == 2

(* The first flush takes the write lock; a row another fetch has inserted in *)
(* between breaks uq_odds_game_bookmaker.  One retry, from the lookup of the *)
(* game on.                                                                  *)
Store(f) ==
    LET g == fetch[f].game
        b == FirstBook(f)
        seen == fetch[f].seen
        collides == seen = None /\ odds[g][b] # None
        moved == seen # None /\ seen.quote # odds[g][b].quote
    IN
    /\ fetch[f].pc = "store"
    /\ IF collides
       THEN /\ fetch' = IF fetch[f].attempt = MaxAttempts THEN [fetch EXCEPT ![f] = Idle]
                         ELSE [fetch EXCEPT ![f].pc = "ensure", ![f].attempt = @ + 1]
            /\ lost' = IF fetch[f].attempt = MaxAttempts THEN lost + 1 ELSE lost
            /\ UNCHANGED <<odds, series, stale>>
       ELSE /\ Write(f, g, seen)
            /\ stale' = IF moved THEN Refreshed(f, g) \cup {<<g, b>>} ELSE Refreshed(f, g)
            /\ fetch' = [fetch EXCEPT ![f] = Idle] /\ lost' = lost
    /\ UNCHANGED <<now, sport, feed, moves, games, fetches, restarted>>

(* A found row is edited: its columns are flushed by the next query, which  *)
(* takes the lock before the game and its books are looked up.              *)
StoreEdited(f) ==
    LET g == fetch[f].game
        old == fetch[f].row
        new == Ensured(old, fetch[f].commence)
        row == [col \in DOMAIN new |-> IF new[col] = old[col] THEN games[g][col] ELSE new[col]]
        rows == [games EXCEPT ![g] = row]
        target == FindGame(rows, fetch[f].commence)
    IN
    /\ fetch[f].pc = "edited"
    /\ games' = rows
    /\ restarted' = IF row.start = games[g].start THEN restarted ELSE restarted \cup {g}
    /\ IF target = 0 \/ Started(rows[target]) THEN UNCHANGED <<odds, series, stale>>
       ELSE Write(f, target, odds[target][FirstBook(f)]) /\ stale' = Refreshed(f, target)
    /\ fetch' = [fetch EXCEPT ![f] = Idle]
    /\ UNCHANGED <<now, sport, feed, moves, fetches, lost>>

(* A game starts and ends: the live poll and the results passes. *)
Progress(g) ==
    /\ games[g].status = "scheduled" /\ Started(games[g])
    /\ games' = [games EXCEPT ![g].status = "final"]
    /\ UNCHANGED <<now, sport, feed, moves, odds, series, fetch, fetches, stale, restarted, lost>>

Tick ==
    /\ now < MaxTime /\ now' = now + 1
    /\ UNCHANGED <<sport, feed, moves, table, fetch, fetches, stale, restarted, lost>>

Next ==
    \/ FeedMoves
    \/ \E f \in Fetchers : Fetch(f) \/ Ensure(f) \/ Create(f) \/ Find(f) \/ Store(f)
                           \/ StoreEdited(f)
    \/ \E g \in GameIds : Progress(g)
    \/ Tick

Spec == Init /\ [][Next]_vars

----------------------------------------------------------------------------
TypeOK ==
    /\ now \in 0 .. MaxTime /\ sport \in {"combat", "team"}
    /\ \A g \in GameIds : /\ games[g].status \in {"absent", "scheduled", "in_progress", "final"}
                          /\ games[g].start \in Commences \cup {None}
    /\ \A g \in GameIds, b \in Books :
          /\ odds[g][b] \in Row \cup {None}
          /\ \A i \in 1 .. Len(series[g][b]) : series[g][b][i].quote \in Quotes
    /\ fetches \in 0 .. MaxFetches /\ stale \subseteq GameIds \X Books

(* One retry is enough: a fetch that loses the race for a new book's row    *)
(* finds that row the second time, so no fetched sport is dropped.          *)
NoFetchLost == lost = 0

(* The current quote of every book is the last one of its series, through   *)
(* lost insert races, retries and edited games.  A fetch that writes a row  *)
(* whose quote another one has changed since it was read leaves a mixture   *)
(* of the two, which no snapshot has; it stands until the book is stored    *)
(* again, and even then each of its prices is one the book did quote.       *)
HistoryFollows ==
    \A g \in GameIds, b \in Books :
        /\ odds[g][b] = None <=> series[g][b] = <<>>
        /\ odds[g][b] # None =>
              /\ <<g, b>> \notin stale => odds[g][b].quote = Last(series[g][b]).quote
              /\ \A col \in Columns : \E i \in DOMAIN series[g][b] :
                    series[g][b][i].quote[col] = odds[g][b].quote[col]

(* A series is a record of changes: neighbours differ and time goes on. *)
SeriesOfChanges ==
    \A g \in GameIds, b \in Books : \A i \in 1 .. Len(series[g][b]) - 1 :
        LET s == series[g][b] IN s[i].quote # s[i+1].quote /\ s[i].captured <= s[i+1].captured

(* The quote kept for a game that has started, and its closing line, were   *)
(* fetched before the start: an in-play price replaces neither.             *)
TakeableQuote ==
    \A g \in Stored, b \in Books :
      games[g].start # None /\ games[g].start <= now /\ g \notin restarted =>
        /\ odds[g][b] # None => odds[g][b].fetched < games[g].start
        /\ ClosingLine(g, b) # None => ClosingLine(g, b).fetched < games[g].start
=============================================================================
