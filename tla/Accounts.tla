------------------------------ MODULE Accounts ------------------------------
(***************************************************************************)
(* The players and the figures shown of them: creating and deleting a      *)
(* player, the streaks kept beside the bets, and the balances, periods,    *)
(* tickets and records the pages compute, each from its own query.  How a  *)
(* bet is priced and settled is in PaperBets; here it is placed, ends and  *)
(* is paid.  A request that places or deletes has loaded the player before *)
(* it takes the database's write lock.                                     *)
(***************************************************************************)
EXTENDS Integers, FiniteSets, Functions, FiniteSetsExt

CONSTANTS
    Threads,
    Names,          \* names as typed
    Folded,         \* name -> the name without case, as the check compares it
    Stakes,
    Starting,       \* a player's starting balance
    MaxUsers, MaxPicks, MaxParlays,   \* ids, at most
    MaxDay,
    None

Results == {"win", "loss", "push", "cashed_out"}
UserRows == [name : Names, streak : [type : {"none", "win", "loss"}, length : Nat], best : Nat]
PickRows == [user : Nat, parlay : Nat \cup {None}, stake : Nat, day : Nat,
             result : Results \cup {None}, payout : Int]
ParlayRows == [user : Nat, stake : Nat, result : Results \cup {None}, payout : Int]

AccountsAssumption ==
    /\ MaxUsers \in Nat /\ MaxPicks \in Nat /\ MaxParlays \in Nat /\ MaxDay \in Nat \ {0}
    /\ Stakes \subseteq Nat /\ Starting \in Nat /\ None \notin Nat \cup Results
    /\ None \notin UserRows /\ None \notin PickRows /\ None \notin ParlayRows

VARIABLES
    users,          \* id -> player (None: none)
    picks,          \* id -> straight bet or parlay leg (None: none)
    parlays,        \* id -> parlay (None: none)
    requests,       \* thread -> the request under way (None: idle)
    today,
    missed          \* history: players a stopped settlement left un-refreshed
vars == <<users, picks, parlays, requests, today, missed>>

Rows(table) == {i \in DOMAIN table : table[i] # None}
(* SQLite's next key: one over the largest there is. *)
NextId(table) == Max({0} \cup Rows(table)) + 1
Players == Rows(users)
Straight(u) == {i \in Rows(picks) : picks[i].user = u /\ picks[i].parlay = None}
Legs(p) == {i \in Rows(picks) : picks[i].parlay = p}
Parlays(u) == {p \in Rows(parlays) : parlays[p].user = u}
Total(field, table, ids) == SumFunction([i \in ids |-> table[i][field]])
Sum(field, records) == SumFunction([r \in records |-> r[field]])
Pending(table, ids) == {i \in ids : table[i].result = None}

----------------------------------------------------------------------------
(* The bankroll's figures *)
balance_of(u) == Starting + Total("payout", picks, Straight(u)) + Total("payout", parlays, Parlays(u))
open_stakes(u) ==
    Total("stake", picks, Pending(picks, Straight(u))) + Total("stake", parlays, Pending(parlays, Parlays(u)))
(* The open stakes left in. *)
WithOpenStakes(u) == balance_of(u)
available_of(u) == balance_of(u) - open_stakes(u)

(* The scorecard's: one bet for each straight bet and each parlay, on the day  *)
(* of its game, a parlay's the last of its legs'.                              *)
Bet(kind, id, row, day) ==
    [kind |-> kind, id |-> id, result |-> row.result, stake |-> row.stake, day |-> day,
     profit |-> IF row.result = None THEN 0 ELSE row.payout]
ParlayDay(p) == Max({0} \cup {picks[i].day : i \in Legs(p)})
(* The legs counted as bets of their own. *)
LegsToo(u, include_parlays) ==
    {Bet("straight", i, picks[i], picks[i].day) : i \in {j \in Rows(picks) : picks[j].user = u}}
    \cup {Bet("parlay", p, parlays[p], ParlayDay(p)) : p \in {q \in Parlays(u) : include_parlays}}
player_bets(u, include_parlays) ==
    {Bet("straight", i, picks[i], picks[i].day) : i \in Straight(u)}
    \cup {Bet("parlay", p, parlays[p], ParlayDay(p)) : p \in {q \in Parlays(u) : include_parlays}}
Ended(bets) == {b \in bets : b.result # None}
With(bets, result) == Cardinality({b \in bets : b.result = result})
summarize(bets) ==
    [wins |-> With(bets, "win"), losses |-> With(bets, "loss"), pushes |-> With(bets, "push"),
     cashed_out |-> With(bets, "cashed_out"), pending |-> With(bets, None),
     profit |-> Sum("profit", Ended(bets)),
     staked |-> Sum("stake", Ended(bets))]
Settled(s) == s.wins + s.losses + s.pushes + s.cashed_out
week(d) == d \div 2
group(bets) == [w \in {week(b.day) : b \in bets} |-> summarize({b \in bets : week(b.day) = w})]
(* Day-end profit, up to and with the day. *)
trend(bets) ==
    [d \in {b.day : b \in Ended(bets)} |-> Sum("profit", {b \in Ended(bets) : b.day <= d})]
Periods(u) ==
    LET bets == player_bets(u, TRUE) IN
    [today |-> summarize({b \in bets : b.day = today}),
     this_week |-> summarize({b \in bets : b.day >= 2 * week(today)}),
     all_time |-> summarize(bets)]

(* One ticket for each straight bet and each parlay; a parlay's has its legs. *)
tickets(u) ==
    {[kind |-> "straight", id |-> i, legs |-> {i}, stake |-> picks[i].stake, result |-> picks[i].result] : i \in Straight(u)}
    \cup {[kind |-> "parlay", id |-> p, legs |-> Legs(p), stake |-> parlays[p].stake, result |-> parlays[p].result] : p \in Parlays(u)}

(* The newest decided straight bets that ended alike; pushes and cash outs are *)
(* passed over.                                                                *)
Decided(u) == {i \in Straight(u) : picks[i].result \in {"win", "loss"}}
streak(u) ==
    IF Decided(u) = {} THEN [type |-> "none", length |-> 0]
    ELSE LET newest == picks[Max(Decided(u))].result
             other == {i \in Decided(u) : picks[i].result # newest}
         IN [type |-> newest, length |-> Cardinality({i \in Decided(u) : i > Max({0} \cup other)})]
update_streaks(u) ==
    LET now == streak(u)
        best == users[u].best
    IN [users EXCEPT ![u] = [@ EXCEPT !.streak = now,
                                      !.best = IF now.type = "win" THEN Max({best, now.length}) ELSE best]]

----------------------------------------------------------------------------
Init ==
    /\ users = [i \in 1 .. MaxUsers |-> None] /\ picks = [i \in 1 .. MaxPicks |-> None]
    /\ parlays = [i \in 1 .. MaxParlays |-> None]
    /\ requests = [t \in Threads |-> None] /\ today = 1 /\ missed = {}

Answer(t) == requests' = [requests EXCEPT ![t] = None]
Taken(name) == \E u \in Players : Folded[users[u].name] = Folded[name]

(* create_user: the check first, the row later. *)
CheckName(t) ==
    /\ requests[t] = None
    /\ \E name \in Names : ~Taken(name) /\ requests' = [requests EXCEPT ![t] = [op |-> "create", name |-> name]]
    /\ UNCHANGED <<users, picks, parlays, today, missed>>
(* The column is unique as it is typed; a duplicate is an error and nothing changes. *)
create_user(t) ==
    /\ requests[t] # None /\ requests[t].op = "create" /\ Answer(t)
    /\ NextId(users) <= MaxUsers
    /\ users' = IF \E u \in Players : users[u].name = requests[t].name THEN users
                ELSE [users EXCEPT ![NextId(users)] =
                        [name |-> requests[t].name, streak |-> [type |-> "none", length |-> 0], best |-> 0]]
    /\ UNCHANGED <<picks, parlays, today, missed>>

(* A bet's or a deletion's request loads its player. *)
LoadUser(t) ==
    /\ requests[t] = None
    /\ \E u \in Players : requests' = [requests EXCEPT ![t] = [op |-> "user", user |-> u]]
    /\ UNCHANGED <<users, picks, parlays, today, missed>>

(* foreign_keys=ON: no row of a player who is not there. *)
Referenced(u) == u \in Players
ForeignKey(u) == Referenced(u)
Pick(u, parlay, stake, day) ==
    [user |-> u, parlay |-> parlay, stake |-> stake, day |-> day, result |-> None, payout |-> 0]
place_pick(t) ==
    /\ requests[t] # None /\ requests[t].op = "user" /\ Answer(t)
    /\ NextId(picks) <= MaxPicks
    /\ LET u == requests[t].user IN
       \E stake \in Stakes, day \in today .. MaxDay :
          picks' = IF stake > available_of(u) \/ ~ForeignKey(u) THEN picks
                   ELSE [picks EXCEPT ![NextId(picks)] = Pick(u, None, stake, day)]
    /\ UNCHANGED <<users, parlays, today, missed>>
(* The parlay's row and its legs, which stake nothing: one transaction. *)
place_parlay(t) ==
    /\ requests[t] # None /\ requests[t].op = "user" /\ Answer(t)
    /\ NextId(picks) + 1 <= MaxPicks /\ NextId(parlays) <= MaxParlays
    /\ LET u == requests[t].user
           p == NextId(parlays)
           i == NextId(picks)
       IN \E stake \in Stakes, d1, d2 \in today .. MaxDay :
          IF stake > available_of(u) \/ ~ForeignKey(u) THEN UNCHANGED <<picks, parlays>>
          ELSE /\ parlays' = [parlays EXCEPT ![p] = [user |-> u, stake |-> stake, result |-> None, payout |-> 0]]
               /\ picks' = [picks EXCEPT ![i] = Pick(u, p, 0, d1), ![i + 1] = Pick(u, p, 0, d2)]
    /\ UNCHANGED <<users, today, missed>>

(* Picks, parlays, then the player, in one transaction. *)
delete_user(t) ==
    /\ requests[t] # None /\ requests[t].op = "user" /\ Answer(t)
    /\ LET u == requests[t].user IN
       /\ picks' = [i \in DOMAIN picks |-> IF i \in Rows(picks) /\ picks[i].user = u THEN None ELSE picks[i]]
       /\ parlays' = [p \in DOMAIN parlays |-> IF p \in Parlays(u) THEN None ELSE parlays[p]]
       /\ users' = [users EXCEPT ![u] = None]
       /\ missed' = missed \ {u}
    /\ UNCHANGED today

Paid(row, result) ==
    [row EXCEPT !.result = result,
                !.payout = CASE result = "win" -> row.stake [] result = "loss" -> -row.stake [] OTHER -> 0]
(* A settlement grades the bets that are over, closes the parlays whose legs   *)
(* have all ended and refreshes the streaks of its players, each its own       *)
(* commit: a stop between two leaves the rest undone.                          *)
grade_paper_picks ==
    /\ \E i \in Pending(picks, Rows(picks)), result \in {"win", "loss", "push"} :
          /\ picks[i].day <= today
          /\ picks' = [picks EXCEPT ![i] = Paid(@, result)]
          /\ missed' = missed \cup {picks[i].user}
    /\ UNCHANGED <<users, parlays, requests, today>>
Outcome(p) ==
    LET results == {picks[i].result : i \in Legs(p)} IN
    IF "loss" \in results THEN "loss" ELSE IF "push" \in results THEN "push" ELSE "win"
settle_parlays_list ==
    /\ \E p \in Pending(parlays, Rows(parlays)) :
          /\ Pending(picks, Legs(p)) = {}
          /\ parlays' = [parlays EXCEPT ![p] = Paid(@, Outcome(p))]
          /\ missed' = missed \cup {parlays[p].user}
    /\ UNCHANGED <<users, picks, requests, today>>
RefreshStreaks ==
    /\ \E u \in missed : users' = update_streaks(u) /\ missed' = missed \ {u}
    /\ UNCHANGED <<picks, parlays, requests, today>>

(* Before any of its games starts, for the stake; a parlay's legs stay open. *)
cash_out ==
    /\ \/ \E i \in Pending(picks, {j \in Rows(picks) : picks[j].parlay = None}) :
             /\ picks[i].day > today
             /\ picks' = [picks EXCEPT ![i] = Paid(@, "cashed_out")] /\ UNCHANGED parlays
       \/ \E p \in Pending(parlays, Rows(parlays)) :
             /\ \A i \in Legs(p) : picks[i].day > today
             /\ parlays' = [parlays EXCEPT ![p] = Paid(@, "cashed_out")] /\ UNCHANGED picks
    /\ UNCHANGED <<users, requests, today, missed>>

NextDay == today < MaxDay /\ today' = today + 1 /\ UNCHANGED <<users, picks, parlays, requests, missed>>

Next == \/ grade_paper_picks \/ settle_parlays_list \/ RefreshStreaks \/ cash_out \/ NextDay
        \/ \E t \in Threads : CheckName(t) \/ create_user(t) \/ LoadUser(t) \/ place_pick(t)
                              \/ place_parlay(t) \/ delete_user(t)
Spec == Init /\ [][Next]_vars

----------------------------------------------------------------------------
TypeOK ==
    /\ \A u \in Players : users[u].name \in Names /\ users[u].best >= 0
    /\ today \in 0 .. MaxDay /\ missed \subseteq Players
    /\ \A u \in Players :
          balance_of(u) >= Sum("stake", {k \in tickets(u) : k.result = None})

(* No bet outlives its player or a parlay's row its legs, though bets and     *)
(* deletions load their player before they take the lock.                     *)
NoOrphans ==
    /\ \A i \in Rows(picks) : picks[i].user \in Players /\ picks[i].parlay \in Rows(parlays) \cup {None}
    /\ \A p \in Rows(parlays) : parlays[p].user \in Players /\ Cardinality(Legs(p)) = 2

(* The stored streak is that of the bets it was counted from, unless a        *)
(* settlement stopped before it refreshed the player's: whatever else of the  *)
(* player's is placed, cashed out or deleted, and whoever had the id before.  *)
StreaksFollow == \A u \in Players : u \notin missed => users[u].streak = streak(u)

(* The figures that pages compute by separate queries agree: the bankroll's   *)
(* profit and open stakes with the scorecard's and the tickets', the weeks and *)
(* the trend with the whole; and the stored streaks with the bets.            *)
BooksAgree ==
    /\ StreaksFollow
    /\ \A u \in Players :
           LET bets == player_bets(u, TRUE)
               whole == summarize(bets)
               weeks == group(bets)
           IN /\ balance_of(u) - Starting = whole.profit
              /\ Settled(whole) + whole.pending = Cardinality(tickets(u))
              /\ open_stakes(u) = Sum("stake", {k \in tickets(u) : k.result = None})
              /\ whole.profit = SumFunction([w \in DOMAIN weeks |-> weeks[w].profit])
              /\ DOMAIN trend(bets) # {} => trend(bets)[Max(DOMAIN trend(bets))] = whole.profit
              /\ Settled(Periods(u).this_week) >= Settled(Periods(u).today)
              /\ summarize(player_bets(u, FALSE)).profit = whole.profit - Total("payout", parlays, Parlays(u))
=============================================================================
