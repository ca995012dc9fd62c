------------------------------ MODULE PaperBets ------------------------------
(***************************************************************************)
(* Paper betting: players place straight bets and parlays against a        *)
(* bankroll, cash bets out before kickoff, and two grading passes -- the   *)
(* scheduler's and the owner's POST /users/grade, which run in different   *)
(* processes -- settle them and announce the results in the activity feed. *)
(*                                                                         *)
(* All processes share one SQLite database.  A SELECT sees the rows        *)
(* committed at that moment and holds nothing; a transaction's first write *)
(* takes the database's single write lock and keeps it until the commit or *)
(* rollback.  What a process read stays in its session's memory, so a      *)
(* write may rest on a read that is no longer true: every read and every   *)
(* write that is a separate statement in the code is a separate step here. *)
(*                                                                         *)
(* A bet's payout column is represented by `back' = stake + payout, the    *)
(* money that returns to the player: 0 for a loss, the stake for a push,   *)
(* stake * decimal price for a win, the offer for a cash out.              *)
(***************************************************************************)
EXTENDS Amounts

CONSTANTS
    Users,              \* players
    Games,              \* games that can be bet on
    MaxPicks,           \* how many paper_picks rows are ever inserted
    MaxParlays,         \* how many parlays rows
    Requests,           \* API threadpool threads serving bet requests
    Graders,            \* processes that run settle_and_announce
    StartingBalance,    \* user_profiles.starting_balance
    Sides,              \* what can be bet: sides of a game, and its "prop"
    Stakes,             \* stakes a request may ask for
    Decimals,           \* decimal prices a quote may carry
    MaxLegs,            \* longest parlay tried
    MaxOffer,           \* largest cash-out offer tried
    GameDate,           \* each game's date, a day number
    VoidAfterDays,      \* VOID_AFTER_DAYS
    StaleScheduledDays, \* STALE_SCHEDULED_DAYS
    MaxDay,             \* last day of the model
    Corrections,        \* games whose final score is corrected once
    MaxAborts           \* how many passes may die part way

ASSUME IdsAssumption ==
    /\ MaxPicks \in Nat \ {0} /\ MaxParlays \in Nat
    /\ Users # {} /\ Games # {}
    /\ IsFiniteSet(Requests) /\ IsFiniteSet(Graders)
    /\ Requests \cap Graders = {} /\ "free" \notin Requests \cup Graders

ASSUME AmountAssumption ==
    /\ Sides \subseteq {"home", "away", "prop"} /\ "home" \in Sides
    /\ StartingBalance \in Nat
    /\ Stakes \subseteq Nat \ {0}
    /\ Decimals \subseteq Nat \ {0}
    /\ MaxLegs \in Nat /\ MaxOffer \in Nat

ASSUME DayAssumption ==
    /\ GameDate \in [Games -> Nat]
    /\ VoidAfterDays \in Nat \ {0}
    /\ StaleScheduledDays \in Nat /\ StaleScheduledDays >= VoidAfterDays
    /\ MaxDay \in Nat /\ MaxAborts \in Nat
    /\ Corrections \subseteq Games

VARIABLES
    pick,      \* paper_picks: straight bets and the legs of parlays
    parlay,    \* parlays
    feed,      \* activity_feed's settlement events: bet key -> results announced
    status,    \* games.status
    score,     \* games' score, as the side it favours
    box,       \* what the box score says of the game's prop, once it is in
    started,   \* games whose start time has passed
    day,       \* et_today()
    corrected, \* games whose final score has been corrected
    lock,      \* who holds SQLite's write lock
    rq,        \* what each request thread has in memory
    gpc,       \* where each grading pass is
    verdict,   \* the results it has set on pick objects, not yet committed
    props,     \* the props it has still to look up
    unread,    \* the unsettled parlays whose legs it has still to read
    pverdict,  \* the results it has set on parlay objects
    todo,      \* the settled bets it has still to announce
    cur,       \* the announcement it is about to insert
    aborts     \* passes that died so far

rows == <<pick, parlay, feed>>
games == <<status, score, box, started, day, corrected>>
gr == <<gpc, verdict, props, unread, pverdict, todo, cur>>
vars == <<pick, parlay, feed, status, score, box, started, day, corrected,
          lock, rq, gpc, verdict, props, unread, pverdict, todo, cur, aborts>>

----------------------------------------------------------------------------
(* Rows *)

PickIds == 1..MaxPicks
ParlayIds == 1..MaxParlays
NoParlay == 0
Free == "free"
Pending == "pending"            \* result IS NULL
Absent == "absent"              \* no row has this id
Graded == {"win", "loss", "push"}
Results == Graded \cup {Pending, "cashed_out", Absent}
Scores == {"home", "away", "tie"}
Statuses == {"scheduled", "in_progress", "final", "canceled"}
NoScore == "none"

PickRow == [user : Users, game : Games, side : Sides, stake : Nat, dec : Nat,
            result : Results, back : Nat, parlay : ParlayIds \cup {NoParlay}]
ParlayRow == [user : Users, stake : Nat, dec : Nat, result : Results, back : Nat]

AnyUser == CHOOSE u \in Users : TRUE
AnyGame == CHOOSE g \in Games : TRUE
NoPick == [user |-> AnyUser, game |-> AnyGame, side |-> "home", stake |-> 0, dec |-> 0,
           result |-> Absent, back |-> 0, parlay |-> NoParlay]
NoParlayRow == [user |-> AnyUser, stake |-> 0, dec |-> 0, result |-> Absent, back |-> 0]

\* A bet's key in the feed: f"{kind}-{bet_id}".
Keys == ({"straight"} \X PickIds) \cup ({"parlay"} \X ParlayIds)

Picked == {p \in PickIds : pick[p].result # Absent}
Parlayed == {q \in ParlayIds : parlay[q].result # Absent}
LegsOf(q) == {p \in Picked : pick[p].parlay = q}

----------------------------------------------------------------------------
(* The bankroll *)

\* The straight bets and the parlays of user u that a query keeps: all that
\* are settled, or all that are not.  Parlay legs are excluded (parlay_id).
Straights(u, settled) ==
    {p \in Picked : /\ pick[p].user = u /\ pick[p].parlay = NoParlay
                    /\ (pick[p].result # Pending) = settled}
Parlays(u, settled) ==
    {q \in Parlayed : /\ parlay[q].user = u
                      /\ (parlay[q].result # Pending) = settled}

PickStake == [p \in PickIds |-> pick[p].stake]
PickBack == [p \in PickIds |-> pick[p].back]
ParlayStake == [q \in ParlayIds |-> parlay[q].stake]
ParlayBack == [q \in ParlayIds |-> parlay[q].back]

\* Starting balance plus the payouts of every settled straight bet and parlay.
BalanceOf(u) ==
    StartingBalance
      + (Total(Straights(u, TRUE), PickBack) - Total(Straights(u, TRUE), PickStake))
      + (Total(Parlays(u, TRUE), ParlayBack) - Total(Parlays(u, TRUE), ParlayStake))

OpenStakes(u) ==
    Total(Straights(u, FALSE), PickStake) + Total(Parlays(u, FALSE), ParlayStake)

AvailableOf(u) == BalanceOf(u) - OpenStakes(u)

----------------------------------------------------------------------------
(* Games, as betting and grading see them *)

\* Mutant: the start time is not looked at.
OpenWhileScheduled(g) == status[g] = "scheduled"

\* A game takes bets and cash outs while it is scheduled and has not started.
OpenForBetting(g) == status[g] = "scheduled" /\ g \notin started

\* SQLite's write lock: x's transaction may write when nobody else's has.
LockFor(x) == lock \in {Free, x}

KickOff(g) ==
    /\ g \notin started
    /\ day >= GameDate[g]
    /\ started' = started \cup {g}
    /\ UNCHANGED <<rows, status, score, box, day, corrected, lock, rq, gr, aborts>>

\* Midnight Eastern: every game dated today or before has started by then (a
\* game with no start time closes when its date has passed).  Requests
\* and passes take seconds and read the day once: none is cut by midnight.
AtRest == lock = Free /\ \A g \in Graders : gpc[g] = "idle"

NextDay ==
    /\ AtRest
    /\ day < MaxDay
    /\ day' = day + 1
    /\ started' = started \cup {g \in Games : GameDate[g] <= day}
    /\ UNCHANGED <<rows, status, score, box, corrected, lock, rq, gr, aborts>>

GameStep == UNCHANGED <<rows, started, day, lock, rq, gr, aborts>>

\* The live scoreboard moves a scheduled game to in_progress.
Begin(g) ==
    /\ lock = Free
    /\ status[g] = "scheduled" /\ g \in started
    /\ status' = [status EXCEPT ![g] = "in_progress"]
    /\ UNCHANGED <<score, box, corrected>> /\ GameStep

\* The results fetch writes the final score of a game that is not final.
Finish(g, s) ==
    /\ lock = Free
    /\ status[g] # "final" /\ g \in started
    /\ status' = [status EXCEPT ![g] = "final"]
    /\ score' = [score EXCEPT ![g] = s]
    /\ UNCHANGED <<box, corrected>> /\ GameStep

\* ... and heals a wrong one.
CorrectScore(g, s) ==
    /\ lock = Free
    /\ g \in Corrections \ corrected
    /\ status[g] = "final" /\ score[g] # s
    /\ score' = [score EXCEPT ![g] = s]
    /\ corrected' = corrected \cup {g}
    /\ UNCHANGED <<status, box>> /\ GameStep

\* Reconciling today's slate with ESPN cancels a scheduled game that is
\* missing from it, and restores a canceled one that is back.
Cancel(g) ==
    /\ lock = Free
    /\ status[g] = "scheduled" /\ day = GameDate[g]
    /\ status' = [status EXCEPT ![g] = "canceled"]
    /\ UNCHANGED <<score, box, corrected>> /\ GameStep

Restore(g) ==
    /\ lock = Free
    /\ status[g] = "canceled" /\ day = GameDate[g]
    /\ status' = [status EXCEPT ![g] = "scheduled"]
    /\ UNCHANGED <<score, box, corrected>> /\ GameStep

\* A player's box score lands after the game.
BoxScore(g, r) ==
    /\ lock = Free
    /\ "prop" \in Sides
    /\ status[g] = "final" /\ box[g] = NoScore
    /\ box' = [box EXCEPT ![g] = r]
    /\ UNCHANGED <<status, score, corrected>> /\ GameStep

----------------------------------------------------------------------------
(* Placing bets and cashing out: one request thread *)

Idle == [pc |-> "idle", user |-> AnyUser, saw |-> {}, seen |-> 0, key |-> <<"straight", 1>>]

\* Naming a parlay's markets loads its games into the session, before the lock;
\* the session keeps these rows, so their status is the one seen here.
ReadLegs(r, u) ==
    /\ rq[r].pc = "idle"
    /\ Parlayed # ParlayIds      \* bound
    /\ rq' = [rq EXCEPT ![r] = [Idle EXCEPT !.pc = "legs", !.user = u,
                                 !.saw = {g \in Games : status[g] = "scheduled"}]]
    /\ UNCHANGED <<rows, games, lock, gr, aborts>>

\* A request for op may take the lock now; a parlay has read its legs before.
Ready(r, u, op) ==
    IF op = "parlay" THEN rq[r].pc = "legs" /\ rq[r].user = u ELSE rq[r].pc = "idle"

\* Mutant: the request reads and writes without taking the lock.
HoldNothing(r, u, op) ==
    /\ Ready(r, u, op)
    /\ rq' = [rq EXCEPT ![r].pc = op, ![r].user = u]
    /\ UNCHANGED <<rows, games, lock, gr, aborts>>

\* The first write of the transaction, before anything is read: another
\* request for the lock waits until this one commits or rolls back.
HoldBankroll(r, u, op) ==
    /\ Ready(r, u, op)
    /\ lock = Free
    /\ lock' = r
    /\ rq' = [rq EXCEPT ![r].pc = op, ![r].user = u]
    /\ UNCHANGED <<rows, games, gr, aborts>>

\* available = available_of(session, user)
ReadAvailable(r) ==
    /\ rq[r].pc \in {"place", "parlay"}
    /\ rq' = [rq EXCEPT ![r].pc = IF @ = "place" THEN "checked" ELSE "checked parlay",
                        ![r].seen = AvailableOf(rq[r].user)]
    /\ UNCHANGED <<rows, games, lock, gr, aborts>>

\* The request ends: its session closes and any transaction is rolled back.
Release(r) ==
    /\ lock' = IF lock = r THEN Free ELSE lock
    /\ rq' = [rq EXCEPT ![r] = Idle]

\* Mutant: checked against the starting balance.
AffordableOnce(r, stake) == stake <= StartingBalance

\* if bet.stake > available: refuse
Affordable(r, stake) == stake <= rq[r].seen

\* The next ids SQLite hands out: the lowest that are free.
NextPickIds(S) ==
    /\ S \cap Picked = {}
    /\ \A p \in PickIds \ S : \A q \in S : p < q => p \in Picked

PlacePick(r, p, g, side, stake, dec) ==
    /\ rq[r].pc = "checked"
    /\ Affordable(r, stake)
    /\ OpenForBetting(g)
    /\ NextPickIds({p})
    /\ pick' = [pick EXCEPT ![p] =
           [user |-> rq[r].user, game |-> g, side |-> side, stake |-> stake,
            dec |-> dec, result |-> Pending, back |-> 0, parlay |-> NoParlay]]
    /\ Release(r)
    /\ UNCHANGED <<parlay, feed, games, gr, aborts>>

\* Two legs on one market of one event are refused, whatever their sides.
SameMarket(l, m) == l.game = m.game /\ ((l.side = "prop") <=> (m.side = "prop"))

Legs == [game : Games, side : Sides]

\* leg maps the new paper_picks ids to the legs asked for.  Their games are open
\* by the status read before the lock and the time now.  dec is the product of
\* the legs' decimal prices, which never change once stored.
PlaceParlay(r, q, leg, stake, dec) ==
    /\ rq[r].pc = "checked parlay"
    /\ Cardinality(DOMAIN leg) >= 2
    /\ \A a, b \in DOMAIN leg : a # b => ~SameMarket(leg[a], leg[b])
    /\ Affordable(r, stake)
    /\ \A a \in DOMAIN leg : leg[a].game \in rq[r].saw \ started
    /\ NextPickIds(DOMAIN leg)
    /\ q \notin Parlayed /\ \A k \in ParlayIds : k < q => k \in Parlayed
    /\ parlay' = [parlay EXCEPT ![q] =
           [user |-> rq[r].user, stake |-> stake, dec |-> dec,
            result |-> Pending, back |-> 0]]
    /\ pick' = [p \in PickIds |->
           IF p \in DOMAIN leg
           THEN [user |-> rq[r].user, game |-> leg[p].game, side |-> leg[p].side,
                 stake |-> 0, dec |-> 1, result |-> Pending, back |-> 0, parlay |-> q]
           ELSE pick[p]]
    /\ Release(r)
    /\ UNCHANGED <<feed, games, gr, aborts>>

\* The games of a bet's legs: a straight bet is its own leg.
GamesOf(k) ==
    IF k[1] = "straight" THEN {pick[k[2]].game}
                         ELSE {pick[p].game : p \in LegsOf(k[2])}

\* A bet of user u, by (kind, id); a parlay's leg is not a bet of its own.
Owns(u, k) ==
    IF k[1] = "straight"
    THEN k[2] \in Picked /\ pick[k[2]].user = u /\ pick[k[2]].parlay = NoParlay
    ELSE k[2] \in Parlayed /\ parlay[k[2]].user = u

ResultOf(k) == IF k[1] = "straight" THEN pick[k[2]].result ELSE parlay[k[2]].result

\* Every leg of the bet is priced now, and pricing refuses a closed game.
EveryLegOpen(k) == \A g \in GamesOf(k) : OpenForBetting(g)

\* The row is loaded and the offer priced: refused unless the bet is unsettled
\* and every leg's game still takes bets.
LoadBet(r, k) ==
    /\ rq[r].pc = "cashout"
    /\ Owns(rq[r].user, k)
    /\ ResultOf(k) = Pending
    /\ EveryLegOpen(k)
    /\ rq' = [rq EXCEPT ![r].pc = "offer", ![r].key = k]
    /\ UNCHANGED <<rows, games, lock, gr, aborts>>

\* What a cash out of (stake, dec) may pay: stake * dec * p_now less the
\* margin, with p_now < 1, and at least the positive offer the player saw.
Offers(stake, dec) == 1..(stake * dec - 1)

CashOut(r, offer) ==
    LET k == rq[r].key IN
    /\ rq[r].pc = "offer"
    /\ IF k[1] = "straight"
       THEN /\ offer \in Offers(pick[k[2]].stake, pick[k[2]].dec)
            /\ pick' = [pick EXCEPT ![k[2]].result = "cashed_out", ![k[2]].back = offer]
            /\ UNCHANGED parlay
       ELSE /\ offer \in Offers(parlay[k[2]].stake, parlay[k[2]].dec)
            /\ parlay' = [parlay EXCEPT ![k[2]].result = "cashed_out", ![k[2]].back = offer]
            /\ UNCHANGED pick
    /\ Release(r)
    /\ UNCHANGED <<feed, games, gr, aborts>>

\* Any refusal: insufficient balance, closed game, price moved, not found,
\* already settled, offer changed.
Refuse(r) ==
    /\ rq[r].pc # "idle"
    /\ Release(r)
    /\ UNCHANGED <<rows, games, gr, aborts>>

----------------------------------------------------------------------------
(* Settling: one pass of settle_and_announce *)

NoVerdict == [p \in PickIds |-> Pending]
NoParlayVerdict == [q \in ParlayIds |-> Pending]

\* grade_pick: the result of a game-level pick at a final score.
GradePick(side, s) == IF s = "tie" THEN "push" ELSE IF s = side THEN "win" ELSE "loss"

\* Mutant: the net payout is stored as what returns.
NetFor(result, stake, dec) ==
    CASE result = "win" -> stake * dec - stake
      [] result = "push" -> 0
      [] OTHER -> 0 - stake

\* What a settled bet returns: stake + stake * payout_for(result, odds).
BackFor(result, stake, dec) ==
    CASE result = "win" -> stake * dec
      [] result = "push" -> stake
      [] OTHER -> 0

\* Mutant: settled picks are graded again.
FinalPicks == {p \in Picked : status[pick[p].game] = "final"}

\* pending: the unsettled picks whose game is final.
PendingFinal == {p \in Picked : pick[p].result = Pending /\ status[pick[p].game] = "final"}

\* They are read with the score each game has now: game bets are graded from it.
ReadPending(g) ==
    LET due == PendingFinal IN
    /\ gpc[g] = "idle"
    /\ verdict' = [verdict EXCEPT ![g] = [p \in PickIds |->
           IF p \in due /\ pick[p].side # "prop"
           THEN GradePick(pick[p].side, score[pick[p].game]) ELSE Pending]]
    /\ props' = [props EXCEPT ![g] = {p \in due : pick[p].side = "prop"}]
    /\ gpc' = [gpc EXCEPT ![g] = "props"]
    /\ UNCHANGED <<rows, games, lock, rq, unread, pverdict, todo, cur, aborts>>

\* Results set on objects are flushed by the next query, which takes the lock.
Flush(g, changed) ==
    IF changed THEN LockFor(g) /\ lock' = g ELSE UNCHANGED lock

Touched(g) == \E p \in PickIds : verdict[g][p] # Pending

\* Props are graded from their box scores, each looked up when its turn comes;
\* one with no box score yet is left alone.  What was graded before it in the
\* list, a game bet or a prop, is flushed by the look-up.
GradeProp(g, p) ==
    /\ gpc[g] = "props"
    /\ p \in props[g]
    /\ \E before \in BOOLEAN :
          /\ (\E x \in PickIds : verdict[g][x] # Pending /\ pick[x].side = "prop") => before
          /\ before => Touched(g)
          /\ Flush(g, before)
    /\ verdict' = IF box[pick[p].game] = NoScore THEN verdict
                  ELSE [verdict EXCEPT ![g][p] = box[pick[p].game]]
    /\ props' = [props EXCEPT ![g] = @ \ {p}]
    /\ UNCHANGED <<rows, games, rq, gpc, unread, pverdict, todo, cur, aborts>>

GradeProps(g) == \E p \in PickIds : GradeProp(g, p)

\* A bet that can never be graded: its game produced no gradeable result for
\* VoidAfterDays, or is unfinished after StaleScheduledDays.
Ungradeable(p) ==
    LET gm == pick[p].game IN
    \/ status[gm] \in {"canceled", "final"} /\ day >= GameDate[gm] + VoidAfterDays
    \/ status[gm] \in {"scheduled", "in_progress"} /\ day >= GameDate[gm] + StaleScheduledDays

\* _push_ungradeable: a second read of what is still unsettled (this pass's own
\* results, flushed by it, included).
PushUngradeable(g) ==
    /\ gpc[g] = "props" /\ props[g] = {}
    /\ Flush(g, Touched(g))
    /\ verdict' = [verdict EXCEPT ![g] = [p \in PickIds |->
           IF /\ verdict[g][p] = Pending /\ p \in Picked
              /\ pick[p].result = Pending /\ Ungradeable(p)
           THEN "push" ELSE verdict[g][p]]]
    /\ gpc' = [gpc EXCEPT ![g] = "commit"]
    /\ UNCHANGED <<rows, games, rq, props, unread, pverdict, todo, cur, aborts>>

\* UPDATE paper_picks SET result, payout, graded_at WHERE id = p: by id alone.
GradedRow(row, result) ==
    [row EXCEPT !.result = result, !.back = BackFor(result, row.stake, row.dec)]

CommitGrades(g) ==
    /\ gpc[g] = "commit"
    /\ Touched(g) => LockFor(g)
    /\ pick' = [p \in PickIds |->
           IF verdict[g][p] = Pending THEN pick[p] ELSE GradedRow(pick[p], verdict[g][p])]
    /\ lock' = IF lock = g THEN Free ELSE lock
    /\ todo' = [todo EXCEPT ![g] =
           {k \in {"straight"} \X PickIds : /\ verdict[g][k[2]] # Pending
                                          /\ pick[k[2]].parlay = NoParlay}]
    /\ verdict' = [verdict EXCEPT ![g] = NoVerdict]
    /\ gpc' = [gpc EXCEPT ![g] = "parlays"]
    /\ UNCHANGED <<parlay, feed, games, rq, props, unread, pverdict, cur, aborts>>

\* Mutant: a push is looked for first.
PushFirst(results) ==
    IF "push" \in results THEN "push" ELSE IF "loss" \in results THEN "loss" ELSE "win"

\* Any losing leg loses; otherwise any push pushes; otherwise it wins.
ParlayResult(results) ==
    IF "loss" \in results THEN "loss"
    ELSE IF "push" \in results THEN "push" ELSE "win"

AllGraded(q) ==
    /\ Cardinality(LegsOf(q)) >= 2
    /\ \A p \in LegsOf(q) : pick[p].result # Pending

\* settle_parlays_list reads the unsettled parlays, ...
ReadParlays(g) ==
    /\ gpc[g] = "parlays"
    /\ unread' = [unread EXCEPT ![g] = {q \in Parlayed : parlay[q].result = Pending}]
    /\ gpc' = [gpc EXCEPT ![g] = "settle"]
    /\ UNCHANGED <<rows, games, lock, rq, verdict, props, pverdict, todo, cur, aborts>>

\* ... then the legs of one after the other, settling those whose legs are all
\* graded by then: each query flushes the parlays settled before it.
ReadLegsOf(g, q) ==
    /\ gpc[g] = "settle"
    /\ q \in unread[g]
    /\ Flush(g, \E x \in ParlayIds : pverdict[g][x] # Pending)
    /\ pverdict' = IF AllGraded(q)
                   THEN [pverdict EXCEPT ![g][q] = ParlayResult({pick[p].result : p \in LegsOf(q)})]
                   ELSE pverdict
    /\ unread' = [unread EXCEPT ![g] = @ \ {q}]
    /\ UNCHANGED <<rows, games, rq, gpc, verdict, props, todo, cur, aborts>>

ReadLegRows(g) == \E q \in ParlayIds : ReadLegsOf(g, q)

\* UPDATE parlays SET result, payout WHERE id = q: by id alone.
CommitParlays(g) ==
    LET done == {q \in ParlayIds : pverdict[g][q] # Pending} IN
    /\ gpc[g] = "settle" /\ unread[g] = {}
    /\ done # {} => LockFor(g)
    /\ parlay' = [q \in ParlayIds |->
           IF q \in done THEN GradedRow(parlay[q], pverdict[g][q]) ELSE parlay[q]]
    /\ lock' = IF lock = g THEN Free ELSE lock
    /\ todo' = [todo EXCEPT ![g] = todo[g] \cup ({"parlay"} \X done)]
    /\ pverdict' = [pverdict EXCEPT ![g] = NoParlayVerdict]
    /\ gpc' = [gpc EXCEPT ![g] = "announce"]
    /\ UNCHANGED <<pick, feed, games, rq, verdict, props, unread, cur, aborts>>

\* announce: the committed result is re-read, and nothing is written when the
\* bet has been announced.
CheckAnnounced(g, k) ==
    /\ gpc[g] = "announce"
    /\ k \in todo[g]
    /\ todo' = [todo EXCEPT ![g] = todo[g] \ {k}]
    /\ IF feed[k] = {} /\ ResultOf(k) \in Graded
       THEN /\ cur' = [cur EXCEPT ![g] = {<<k, ResultOf(k)>>}]
            /\ gpc' = [gpc EXCEPT ![g] = "insert"]
       ELSE UNCHANGED <<cur, gpc>>
    /\ UNCHANGED <<rows, games, lock, rq, verdict, props, unread, pverdict, aborts>>

\* Mutant: no unique index.
FeedTakesAll(k) == TRUE

\* The unique index on the bet key: a second event is an IntegrityError.
FeedTakes(k) == feed[k] = {}

InsertEvent(g) ==
    /\ gpc[g] = "insert"
    /\ lock = Free
    /\ \E k \in Keys, result \in Graded :
          /\ <<k, result>> \in cur[g]
          /\ feed' = [feed EXCEPT ![k] =
                 IF FeedTakes(k) THEN @ \cup {<<g, result>>} ELSE @]
    /\ cur' = [cur EXCEPT ![g] = {}]
    /\ gpc' = [gpc EXCEPT ![g] = "announce"]
    /\ UNCHANGED <<pick, parlay, games, lock, rq, verdict, props, unread, pverdict,
                   todo, aborts>>

EndPass(g) ==
    /\ gpc[g] = "announce" /\ todo[g] = {}
    /\ gpc' = [gpc EXCEPT ![g] = "idle"]
    /\ UNCHANGED <<rows, games, lock, rq, verdict, props, unread, pverdict,
                   todo, cur, aborts>>

\* The pass dies: its process stops, or a statement raises (the busy timeout
\* on the lock, a missing row).  What is not committed is rolled back, and what
\* it still had to announce is forgotten.
Abort(g) ==
    /\ aborts < MaxAborts
    /\ gpc[g] # "idle"
    /\ lock' = IF lock = g THEN Free ELSE lock
    /\ gpc' = [gpc EXCEPT ![g] = "idle"]
    /\ verdict' = [verdict EXCEPT ![g] = NoVerdict]
    /\ props' = [props EXCEPT ![g] = {}]
    /\ unread' = [unread EXCEPT ![g] = {}]
    /\ pverdict' = [pverdict EXCEPT ![g] = NoParlayVerdict]
    /\ todo' = [todo EXCEPT ![g] = {}]
    /\ cur' = [cur EXCEPT ![g] = {}]
    /\ aborts' = aborts + 1
    /\ UNCHANGED <<rows, games, rq>>

----------------------------------------------------------------------------
(* The system *)

Init ==
    /\ pick = [p \in PickIds |-> NoPick]
    /\ parlay = [q \in ParlayIds |-> NoParlayRow]
    /\ feed = [k \in Keys |-> {}]
    /\ status = [g \in Games |-> "scheduled"]
    /\ score = [g \in Games |-> NoScore]
    /\ box = [g \in Games |-> NoScore]
    /\ started = {} /\ day = 0 /\ corrected = {}
    /\ lock = Free
    /\ rq = [r \in Requests |-> Idle]
    /\ gpc = [g \in Graders |-> "idle"]
    /\ verdict = [g \in Graders |-> NoVerdict]
    /\ props = [g \in Graders |-> {}]
    /\ unread = [g \in Graders |-> {}]
    /\ pverdict = [g \in Graders |-> NoParlayVerdict]
    /\ todo = [g \in Graders |-> {}]
    /\ cur = [g \in Graders |-> {}]
    /\ aborts = 0

Place(r) ==
    \E stake \in Stakes, dec \in Decimals :
       \/ \E p \in PickIds, g \in Games, side \in Sides : PlacePick(r, p, g, side, stake, dec)
       \/ \E q \in ParlayIds, S \in SUBSET PickIds :
             /\ Cardinality(S) \in 2..MaxLegs
             /\ \E leg \in [S -> Legs] : PlaceParlay(r, q, leg, stake, dec)

Request(r) ==
    \/ \E u \in Users : ReadLegs(r, u)
    \/ \E u \in Users, op \in {"place", "parlay", "cashout"} : HoldBankroll(r, u, op)
    \/ ReadAvailable(r)
    \/ Place(r)
    \/ \E k \in Keys : LoadBet(r, k)
    \/ \E offer \in 1..MaxOffer : CashOut(r, offer)
    \/ Refuse(r)

GradeStep(g) ==
    \/ ReadPending(g) \/ GradeProps(g) \/ PushUngradeable(g) \/ CommitGrades(g)
    \/ ReadParlays(g) \/ ReadLegRows(g) \/ CommitParlays(g)
    \/ (\E k \in Keys : CheckAnnounced(g, k)) \/ InsertEvent(g) \/ EndPass(g)

Game(g) ==
    \/ KickOff(g) \/ Begin(g) \/ Cancel(g) \/ Restore(g)
    \/ \E s \in Scores : Finish(g, s) \/ CorrectScore(g, s)
    \/ \E r \in Graded : BoxScore(g, r)

Next ==
    \/ \E r \in Requests : Request(r)
    \/ \E g \in Graders : GradeStep(g) \/ Abort(g)
    \/ \E g \in Games : Game(g)
    \/ NextDay

Spec == Init /\ [][Next]_vars

(* Fairness.  A request thread always runs to its end; the scheduler's daily
   scout runs the grading pass again and again, and a writer blocked on the
   write lock is served by SQLite's busy handler before it gives up (strong
   fairness, for the steps that need the lock).  Days pass.  Nothing is assumed
   of players, of the results feed or of the owner. *)
Fairness ==
    /\ \A r \in Requests : WF_vars(Refuse(r))
    /\ \A g \in Graders : SF_vars(GradeStep(g))
    /\ SF_vars(NextDay)

FairSpec == Spec /\ Fairness

----------------------------------------------------------------------------
(* Properties *)

RequestState == [pc : {"idle", "legs", "place", "checked", "parlay", "checked parlay",
                       "cashout", "offer"},
                 user : Users, saw : SUBSET Games, seen : Int, key : Keys]
Steps == {"idle", "props", "commit", "parlays", "settle", "announce", "insert"}

RowsOK ==
    /\ pick \in [PickIds -> PickRow]
    /\ parlay \in [ParlayIds -> ParlayRow]
    /\ feed \in [Keys -> SUBSET (Graders \X Graded)]

GamesOK ==
    /\ status \in [Games -> Statuses]
    /\ score \in [Games -> Scores \cup {NoScore}]
    /\ box \in [Games -> Graded \cup {NoScore}]
    /\ started \subseteq Games /\ day \in Nat /\ corrected \subseteq Games

RequestsOK ==
    /\ lock \in {Free} \cup Requests \cup Graders
    /\ rq \in [Requests -> RequestState]

GradersOK ==
    /\ gpc \in [Graders -> Steps]
    /\ verdict \in [Graders -> [PickIds -> Graded \cup {Pending}]]
    /\ props \in [Graders -> SUBSET PickIds]
    /\ unread \in [Graders -> SUBSET ParlayIds]
    /\ pverdict \in [Graders -> [ParlayIds -> Graded \cup {Pending}]]
    /\ todo \in [Graders -> SUBSET Keys]
    /\ cur \in [Graders -> SUBSET (Keys \X Graded)]
    /\ aborts \in Nat

\* Every column and every variable in memory holds a value of its type.
TypeOK == RowsOK /\ GamesOK /\ RequestsOK /\ GradersOK

\* A player never has more riding than the bankroll: what is available is
\* never negative, whatever is placed, settled and cashed out at once.
NeverOverdrawn == \A u \in Users : AvailableOf(u) >= 0

\* A bet is only accepted when the bankroll covers it: a step that raises a
\* player's open stakes leaves the available balance at zero or more.
StakeCovered ==
    [][\A u \in Users : OpenStakes(u)' > OpenStakes(u) => AvailableOf(u)' >= 0]_vars

Final(k) == ResultOf(k) \in Graded \cup {"cashed_out"}

\* A settled bet or leg keeps its result: no later grading pass changes it.
SettledOnce == [][\A k \in Keys : Final(k) => ResultOf(k)' = ResultOf(k)]_vars

\* A straight bet that was cashed out is never graded as well, whichever passes
\* of whichever processes read it before the cash out.  (SettledOnce says it of
\* parlays, for passes that run one at a time: beside another pass, one that
\* read a parlay as unsettled before its cash out finds its legs graded after.)
CashOutFinal ==
    [][\A p \in PickIds :
          pick[p].result = "cashed_out" => pick'[p].result = "cashed_out"]_vars

\* No bet is cashed out once anything it rides on is decided.
NoLateCashOut ==
    [][\A k \in Keys : ResultOf(k)' = "cashed_out" /\ ResultOf(k) # "cashed_out" =>
          /\ k[1] = "parlay" => \A p \in LegsOf(k[2]) : pick[p].result = Pending
          /\ \A g \in GamesOf(k) : status[g] = "scheduled"]_vars

\* A graded parlay has the result its legs give it, and all of them are graded:
\* it wins when every leg won, loses when any lost, pushes otherwise.
ParlayMatchesLegs ==
    \A q \in Parlayed : parlay[q].result \in Graded =>
        /\ \A p \in LegsOf(q) : pick[p].result \in Graded
        /\ parlay[q].result = "win" <=> \A p \in LegsOf(q) : pick[p].result = "win"
        /\ parlay[q].result = "loss" <=> \E p \in LegsOf(q) : pick[p].result = "loss"

\* The feed tells the result the bet has.
AnnouncedTruth == \A k \in Keys : \A e \in feed[k] : e[2] = ResultOf(k)

\* What is kept of a bet agrees, though passes grade its legs, settle it and
\* announce it in transactions of their own: a parlay with its legs, and the
\* feed with the bet.
RecordsAgree == ParlayMatchesLegs /\ AnnouncedTruth

\* A bet is announced at most once, however many passes settle and announce it.
AnnouncedOnce == \A k \in Keys : Cardinality(feed[k]) <= 1

\* Every graded bet is announced, unless a pass died: what it had still to
\* announce is in no table, and no later pass looks for it.
IsBet(k) == k[1] = "parlay" \/ pick[k[2]].parlay = NoParlay
Announced(k) == IsBet(k) /\ ResultOf(k) \in Graded => feed[k] # {} \/ aborts > 0

\* No stake is held forever: every bet is eventually settled or cashed out, and
\* announced, though its game is canceled, never finishes, or never gets a box
\* score -- provided nobody keeps the database busy day and night.
Owed(k) == ResultOf(k) = Pending \/ ~Announced(k)
EveryBetEnds == []<>AtRest => \A k \in Keys : []<>~Owed(k)
=============================================================================
