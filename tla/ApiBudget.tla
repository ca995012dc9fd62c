----------------------------- MODULE ApiBudget -----------------------------
(***************************************************************************)
(* Credits of the Odds API, spent by runs of two processes that know of    *)
(* each other only through api_usage.  A run checks the budget, awaits the *)
(* call and then records what the call cost; between a check and a record  *)
(* any number of other runs may check.                                     *)
(***************************************************************************)
EXTENDS Integers, FiniteSets

CONSTANTS
    Threads,       \* runs that may be under way at once
    MonthlyLimit, DailyTarget, Reserve,   \* the odds_budget of the configuration
    OddsCost, PropCost, ScoresCost,       \* what the calls cost; listing events is free
    MaxSports,     \* sports of a run, at most
    MaxEvents,     \* events with a stored game per sport, at most
    MaxRuns        \* runs in a behaviour, at most

(* Limits and costs are whole credits; a call the budget is checked for, or   *)
(* of the scores, costs at least the one credit a missing header counts as.   *)
BudgetAssumption ==
    /\ IsFiniteSet(Threads)
    /\ MonthlyLimit \in Nat \ {0} /\ DailyTarget \in Nat /\ Reserve \in Nat
    /\ {OddsCost, PropCost, ScoresCost} \subseteq Nat \ {0}
    /\ MaxSports \in Nat \ {0} /\ MaxEvents \in Nat /\ MaxRuns \in Nat

VARIABLES
    monthly,       \* credits api_usage has for this month
    daily,         \* and for today
    paid,          \* credits the API has charged this month
    unchecked,     \* history: those charged to calls nobody checks the budget for
    unrecorded,    \* history: those api_usage never learns of
    deep,          \* history: checked credits charged while the reserve was closed
    job,           \* each thread's run
    runs           \* runs so far

vars == <<monthly, daily, paid, unchecked, unrecorded, deep, job, runs>>

Idle == [pc |-> "idle", call |-> "odds", left |-> 0, events |-> 0, props |-> 0]
Cost(call) == CASE call = "odds" -> OddsCost [] call = "player_props" -> PropCost
                [] call = "scores" -> ScoresCost [] OTHER -> 0
MaxCost == CHOOSE c \in {OddsCost, PropCost} : c >= OddsCost /\ c >= PropCost

----------------------------------------------------------------------------
(* check_budget *)
UnreservedStatus == IF monthly >= MonthlyLimit THEN "monthly_exhausted" ELSE "ok"
BudgetStatus ==
    IF monthly >= MonthlyLimit THEN "monthly_exhausted"
    ELSE IF daily >= DailyTarget /\ MonthlyLimit - monthly <= Reserve THEN "reserve_exhausted"
    ELSE "ok"          \* or daily_soft_limit, which stops nothing

ReserveClosed == daily >= DailyTarget /\ MonthlyLimit - monthly <= Reserve

(* Where a run goes next: the next sport, the props after the odds, the end. *)
NextSport(j) ==
    IF j.left > 1 THEN [j EXCEPT !.left = @ - 1, !.events = 0, !.pc = "check",
                               !.call = IF @ = "player_props" THEN "events" ELSE @]
    ELSE IF j.call = "odds" /\ j.props > 0
         THEN [Idle EXCEPT !.pc = "check", !.call = "events", !.left = j.props]
    ELSE Idle

(* After a recorded call: the props of the sport's next event. *)
NextCall(j, listed) ==
    LET events == IF j.call = "events" THEN listed ELSE j.events IN
    IF j.call \in {"events", "player_props"} /\ events > 0
    THEN [j EXCEPT !.call = "player_props", !.events = events - 1, !.pc = "check"]
    ELSE NextSport(j)

----------------------------------------------------------------------------
Init ==
    /\ monthly = 0 /\ daily = 0 /\ paid = 0
    /\ unchecked = 0 /\ unrecorded = 0 /\ deep = 0
    /\ job = [t \in Threads |-> Idle] /\ runs = 0

Start(t, j) ==
    /\ job[t].pc = "idle" /\ runs < MaxRuns
    /\ runs' = runs + 1 /\ job' = [job EXCEPT ![t] = j]
    /\ UNCHANGED <<monthly, daily, paid, unchecked, unrecorded, deep>>

(* The scheduler's refresh: odds only. *)
refresh_prices(t) ==
    \E n \in 1 .. MaxSports : Start(t, [Idle EXCEPT !.pc = "check", !.left = n])

(* The owner's pipeline run, and a window's: odds, then props. *)
trigger_pipeline(t) ==
    \E n \in 1 .. MaxSports : Start(t, [Idle EXCEPT !.pc = "check", !.left = n, !.props = n])

(* The command line's fetch: props only when asked for. *)
fetch_odds_now(t) ==
    \E n \in 1 .. MaxSports, p \in {0, 1} :
        Start(t, [Idle EXCEPT !.pc = "check", !.left = n, !.props = n * p])

(* The combat scores: called without a check. *)
finalize_combat(t) ==
    Start(t, [Idle EXCEPT !.pc = "call", !.call = "scores", !.left = 1])

(* An exhausted month ends the whole run.  A closed reserve ends the odds   *)
(* of the run, and the props of this sport; it does not stop listing events.*)
Check(t) ==
    LET j == job[t] IN
    /\ j.pc = "check"
    /\ job' = [job EXCEPT ![t] =
          CASE BudgetStatus = "monthly_exhausted" /\ j.call # "player_props" -> Idle
            [] BudgetStatus = "reserve_exhausted" /\ j.call = "odds" -> NextSport([j EXCEPT !.left = 1])
            [] BudgetStatus # "ok" /\ j.call = "player_props" -> NextSport(j)
            [] OTHER -> [j EXCEPT !.pc = "call"]]
    /\ UNCHANGED <<monthly, daily, paid, unchecked, unrecorded, deep, runs>>

(* The API charges the call; a failed one costs nothing and ends the sport. *)
Call(t) ==
    LET j == job[t] IN
    /\ j.pc = "call"
    /\ \/ /\ paid' = paid + Cost(j.call)
          /\ unchecked' = unchecked + (IF j.call = "scores" THEN Cost(j.call) ELSE 0)
          /\ deep' = IF ReserveClosed /\ j.call # "scores" THEN deep + Cost(j.call) ELSE deep
          /\ job' = [job EXCEPT ![t].pc = "record"]
       \/ job' = [job EXCEPT ![t] = NextSport(j)] /\ UNCHANGED <<paid, unchecked, deep>>
    /\ UNCHANGED <<monthly, daily, unrecorded, runs>>

(* record_api_call: what the header says, 1 when it is missing.  A record   *)
(* that fails is lost, and so is the rest of the sport.                     *)
Record(t) ==
    LET j == job[t] IN
    /\ j.pc = "record"
    /\ \/ \E credits \in {Cost(j.call), 1}, listed \in 0 .. MaxEvents :
             /\ monthly' = monthly + credits /\ daily' = daily + credits
             /\ unrecorded' = unrecorded + (Cost(j.call) - credits)
             /\ job' = [job EXCEPT ![t] = NextCall(j, listed)]
       \/ /\ unrecorded' = unrecorded + Cost(j.call)
          /\ job' = [job EXCEPT ![t] = NextSport(j)]
          /\ UNCHANGED <<monthly, daily>>
    /\ UNCHANGED <<paid, unchecked, deep, runs>>

(* A day turns: calls under way are recorded on the next one. *)
NewDay ==
    /\ daily > 0 /\ daily' = 0 /\ deep' = 0
    /\ UNCHANGED <<monthly, paid, unchecked, unrecorded, job, runs>>

Next ==
    \/ \E t \in Threads :
          \/ refresh_prices(t) \/ trigger_pipeline(t) \/ fetch_odds_now(t) \/ finalize_combat(t)
          \/ Check(t) \/ Call(t) \/ Record(t)
    \/ NewDay

Spec == Init /\ [][Next]_vars

----------------------------------------------------------------------------
TypeOK ==
    /\ {monthly, daily, paid, unchecked, deep} \subseteq Nat /\ unrecorded \in Int
    /\ \A t \in Threads : /\ job[t].pc \in {"idle", "check", "call", "record"}
                          /\ job[t].call \in {"odds", "events", "player_props", "scores"}
                          /\ {job[t].left, job[t].props} \subseteq 0 .. MaxSports
                          /\ job[t].events \in 0 .. MaxEvents

(* However many runs check the budget before any of them has recorded its   *)
(* call, each overruns the month by one call at most, beside what was never *)
(* checked or never recorded.                                               *)
SpendBounded ==
    paid - unchecked - unrecorded <= MonthlyLimit - 1 + MaxCost * Cardinality(Threads)

(* And once the day's target is met inside the reserve, each run makes at   *)
(* most the one call it had already checked.                                *)
ReserveKept == deep <= MaxCost * Cardinality(Threads)
=============================================================================
