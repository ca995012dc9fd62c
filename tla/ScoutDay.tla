------------------------------ MODULE ScoutDay ------------------------------
(***************************************************************************)
(* One Eastern day of the scheduler process: the morning scout and its     *)
(* retries, the pick-run windows they schedule, the windows restored after *)
(* a restart, and the digest that must not go out ahead of the scout.      *)
(*                                                                         *)
(* APScheduler hands due jobs to a thread pool.  Cron jobs missed during a *)
(* sleep still run within their grace; a window job keeps the default      *)
(* grace of one second.  Jobs, the success date and the scout lock live in *)
(* memory: a restart forgets them.  The games table does not.              *)
(***************************************************************************)
EXTENDS Integers, Sequences, FiniteSets, SequencesExt

CONSTANTS
    Games,      \* one sport's games of the day, with a start time
    Start,      \* each one's start, in ticks since midnight
    Hour,       \* ticks in an hour
    Dawn,       \* the first tick of the model, before the first scout
    Dusk,       \* the last
    LateProps,  \* whether the sport is in LATE_PROP_SPORTS
    MaxChanges, \* how often ESPN's list changes
    MaxCrashes  \* how often the process stops

ASSUME DayAssumption ==
    /\ Hour \in Nat /\ Hour > 0 /\ Hour % 4 = 0
    /\ Dawn \in Nat /\ Dusk \in Nat /\ Dawn <= Dusk /\ Dawn < 8 * Hour
    /\ Start \in [Games -> Nat] /\ IsFiniteSet(Games)
    /\ LateProps \in BOOLEAN /\ MaxChanges \in Nat /\ MaxCrashes \in Nat

VARIABLES
    now,      \* the time in Eastern, in ticks
    listed,   \* what ESPN lists for today
    store,    \* games stored as scheduled today
    up,       \* whether the process runs
    cron,     \* the day's cron jobs that have still to fire in this process
    jobs,     \* the window jobs
    success,  \* whether _last_scout_success is today
    scout,    \* the scout in progress: it holds _scout_lock
    digest,   \* the digest: where its thread is, and since when
    scouts,   \* history: scouts that fetched games in this process
    plan,     \* history: who planned this process's windows, or "moved" once a
              \* fetch has changed the games under existing jobs
    ran,      \* history: games whose window was run, or its time slept through
    changes,  \* changes of ESPN's list so far
    crashes   \* stops so far

process == <<up, cron, jobs, success, scout, digest, scouts, plan, ran>>
vars == <<now, listed, store, process, changes, crashes>>

----------------------------------------------------------------------------
(* The day's timetable *)

Scouts == {"morning_scout", "scout_retry_9", "scout_retry_10"}
CronAt == [morning_scout |-> 8 * Hour, scout_retry_9 |-> 9 * Hour,
           scout_retry_10 |-> 10 * Hour, daily_digest |-> 11 * Hour]
Crons == DOMAIN CronAt
Grace(c) == IF c \in Scouts THEN 3 * Hour ELSE 6 * Hour
Wait == (3 * Hour) \div 4       \* SCOUT_WAIT_SECONDS
Lead == 2 * Hour                \* LEAD_TIME
LateLead == (3 * Hour) \div 4   \* LATE_PROP_LEAD
Gap == Hour \div 2              \* gap_minutes

FirstStart(S) == CHOOSE t \in {Start[g] : g \in S} : \A g \in S : t <= Start[g]

\* cluster_game_windows: a window holds the games that start within Gap of its
\* first one.
FirstWindow(S) == {g \in S : Start[g] - FirstStart(S) <= Gap}
Windows[S \in SUBSET Games] ==
    IF S = {} THEN <<>> ELSE <<FirstWindow(S)>> \o Windows[S \ FirstWindow(S)]

RunAt(kind, w) == FirstStart(w) - (IF kind = "late" THEN LateLead ELSE Lead)

Job(kind, i, w) == [kind |-> kind, i |-> i, games |-> w]
Ids(js) == {<<j.kind, j.i>> : j \in js}
GamesOf(js) == UNION {j.games : j \in {k \in js : k.kind = "window"}}
Kinds == IF LateProps THEN {"window", "late"} ELSE {"window"}

\* Mutant: only the windows still to come are numbered.
PlannedAhead(js, ws) ==
    LET coming == SelectSeq(ws, LAMBDA w : RunAt("window", w) > now)
        fresh == {Job(k, i, coming[i]) : k \in Kinds, i \in DOMAIN coming}
    IN  IF ws = <<>> THEN js
        ELSE {j \in js : j.i \in DOMAIN coming}
             \cup {j \in fresh : <<j.kind, j.i>> \notin Ids(js) /\ RunAt(j.kind, j.games) > now}

\* _schedule_windows: a job whose number the clustering no longer has is
\* removed, one that has its number is left alone, and the others are added
\* when their time is still to come.  Without a game nothing is touched.
Planned(js, ws) ==
    LET fresh == {Job(k, i, ws[i]) : k \in Kinds, i \in DOMAIN ws}
    IN  IF ws = <<>> THEN js
        ELSE {j \in js : j.i \in DOMAIN ws}
             \cup {j \in fresh : <<j.kind, j.i>> \notin Ids(js) /\ RunAt(j.kind, j.games) > now}

\* Mutant: a window whose time is just now is neither scheduled nor overdue.
OverdueStrict(js, ws) ==
    {i \in DOMAIN ws : <<"window", i>> \notin Ids(js) /\ RunAt("window", ws[i]) < now}

\* The windows without a job whose time has passed: the scout runs them itself.
Overdue(js, ws) ==
    {i \in DOMAIN ws : <<"window", i>> \notin Ids(js) /\ RunAt("window", ws[i]) <= now}

----------------------------------------------------------------------------
(* Time, the process and ESPN *)

NoScout == [at |-> "idle", by |-> "nobody", overdue |-> {}]
NoDigest == [at |-> "none", since |-> 0]

\* Awake, the scheduler fires everything on time.
DueCrons == {c \in cron : CronAt[c] <= now}
DueJobs == {j \in jobs : RunAt(j.kind, j.games) <= now}

Tick ==
    /\ now < Dusk
    /\ DueCrons = {} /\ DueJobs = {}
    /\ now' = now + 1
    /\ UNCHANGED <<listed, store, process, changes, crashes>>

\* The machine sleeps until t.  What was missed by more than its grace is
\* dropped.
Sleep(t) ==
    /\ up /\ t > now
    /\ DueCrons = {} /\ DueJobs = {}
    /\ now' = t
    /\ cron' = {c \in cron : t <= CronAt[c] + Grace(c)}
    /\ jobs' = {j \in jobs : t <= RunAt(j.kind, j.games)}
    /\ ran' = ran \cup GamesOf(jobs \ jobs')
    /\ UNCHANGED <<listed, store, up, success, scout, digest, scouts, plan, changes, crashes>>

\* The process stops: what was in memory is gone.
Crash ==
    /\ up /\ crashes < MaxCrashes
    /\ crashes' = crashes + 1
    /\ up' = FALSE /\ cron' = {} /\ jobs' = {} /\ success' = FALSE
    /\ scout' = NoScout /\ scouts' = 0 /\ plan' = "none" /\ ran' = {}
    /\ digest' = IF digest.at = "sent" THEN digest ELSE NoDigest
    /\ UNCHANGED <<now, listed, store, changes>>

\* start_scheduler: cron jobs due later today, and -- from eight o'clock on --
\* today's windows restored from the games table, without running any.  A
\* restore that fails is logged.
Boot ==
    /\ ~up /\ up' = TRUE
    /\ cron' = {c \in Crons : CronAt[c] > now}
    /\ jobs' \in {{}, IF now >= 8 * Hour THEN Planned({}, Windows[store]) ELSE {}}
    /\ plan' = IF jobs' = {} THEN "none" ELSE "restored"
    /\ UNCHANGED <<now, listed, store, success, scout, digest, scouts, ran, changes, crashes>>

\* A game that has not started is put on ESPN's list, or taken off.
ListChanges(g) ==
    /\ changes < MaxChanges /\ now < Start[g]
    /\ changes' = changes + 1
    /\ listed' = IF g \in listed THEN listed \ {g} ELSE listed \cup {g}
    /\ UNCHANGED <<now, store, process, crashes>>

----------------------------------------------------------------------------
(* The scout *)

\* Mutant: a retry does not look whether today's scout has succeeded.
WantedAlways(c) == TRUE

\* A retry is a no-op once today's scout has succeeded.
Wanted(c) == c = "morning_scout" \/ ~success

\* The cron jobs that are due start together.  One scout takes the lock and the
\* other cron scouts skip, as all do when a scout is in progress.  The digest,
\* without a successful scout today, takes it first or waits for the holder.
Fire ==
    LET due == DueCrons
        unread == "daily_digest" \in due /\ ~success
    IN  /\ due # {}
        /\ cron' = cron \ due
        /\ \/ /\ scout' = IF scout.at = "idle" /\ \E c \in due \cap Scouts : Wanted(c)
                          THEN [NoScout EXCEPT !.at = "fetch", !.by = "cron"] ELSE scout
              /\ digest' = CASE "daily_digest" \notin due -> digest
                             [] unread -> [at |-> "waiting", since |-> now]
                             [] OTHER -> [at |-> "ready", since |-> now]
           \/ /\ unread /\ scout.at = "idle"
              /\ scout' = [NoScout EXCEPT !.at = "fetch", !.by = "digest"]
              /\ digest' = [at |-> "scouting", since |-> now]
        /\ UNCHANGED <<now, listed, store, up, jobs, success, scouts, plan, ran, changes, crashes>>

\* Mutant: a scout that fails keeps its lock.
KeepLock ==
    /\ scout' = [scout EXCEPT !.at = "failed"]
    /\ UNCHANGED digest

\* The lock is released, and a digest that ran this scout goes on.
Leave ==
    /\ scout' = NoScout
    /\ digest' = IF scout.by = "digest" THEN [digest EXCEPT !.at = "ready"] ELSE digest

\* A database error before the games are in, or before the windows are planned,
\* is logged: the scout gives up.
ScoutFails ==
    /\ scout.at \in {"fetch", "price", "plan"}
    /\ Leave
    /\ UNCHANGED <<now, listed, store, up, cron, jobs, success, scouts, plan, ran, changes, crashes>>

\* Today's games are stored and reconciled -- or ESPN fails, which is logged and
\* swallowed.  Either way the scout has succeeded, before a pick is priced.
FetchGames ==
    /\ scout.at = "fetch"
    /\ store' \in {store, listed}
    /\ success' = TRUE
    /\ scouts' = scouts + 1
    /\ plan' = IF store' = store THEN plan ELSE IF jobs = {} THEN "none" ELSE "moved"
    /\ scout' = [scout EXCEPT !.at = "price"]
    /\ UNCHANGED <<now, listed, up, cron, jobs, digest, ran, changes, crashes>>

\* The morning slate is priced; a failure is logged.
PriceSlate ==
    /\ scout.at = "price"
    /\ scout' = [scout EXCEPT !.at = "plan"]
    /\ UNCHANGED <<now, listed, store, up, cron, jobs, success, digest, scouts, plan, ran,
                   changes, crashes>>

PlanWindows ==
    /\ scout.at = "plan"
    /\ jobs' = Planned(jobs, Windows[store])
    /\ scout' = [scout EXCEPT !.at = "run", !.overdue = Overdue(jobs, Windows[store])]
    /\ plan' = IF plan = "moved" THEN plan ELSE "scouted"
    /\ UNCHANGED <<now, listed, store, up, cron, success, digest, scouts, ran, changes, crashes>>

\* Overdue windows run one after another; one that fails does not stop the rest.
RunOverdue ==
    /\ scout.at = "run" /\ scout.overdue # {}
    /\ \E i \in scout.overdue :
         /\ \A k \in scout.overdue : i <= k
         /\ scout' = [scout EXCEPT !.overdue = @ \ {i}]
         /\ ran' = ran \cup Windows[store][i]
    /\ UNCHANGED <<now, listed, store, up, cron, jobs, success, digest, scouts, plan,
                   changes, crashes>>

ScoutEnds ==
    /\ scout.at = "run" /\ scout.overdue = {}
    /\ Leave
    /\ UNCHANGED <<now, listed, store, up, cron, jobs, success, scouts, plan, ran, changes, crashes>>

\* A window's or late prop run's time has come.
FireJob(j) ==
    /\ j \in DueJobs
    /\ jobs' = jobs \ {j}
    /\ ran' = ran \cup GamesOf({j})
    /\ UNCHANGED <<now, listed, store, up, cron, success, scout, digest, scouts, plan,
                   changes, crashes>>

----------------------------------------------------------------------------
(* The digest *)

\* It has the lock, and looks again whether there is anything left to do.
DigestScout ==
    /\ digest.at = "waiting" /\ scout.at = "idle"
    /\ IF Wanted("scout_retry_10")
       THEN /\ scout' = [NoScout EXCEPT !.at = "fetch", !.by = "digest"]
            /\ digest' = [digest EXCEPT !.at = "scouting"]
       ELSE /\ digest' = [digest EXCEPT !.at = "ready"]
            /\ UNCHANGED scout
    /\ UNCHANGED <<now, listed, store, up, cron, jobs, success, scouts, plan, ran, changes, crashes>>

WaitTimesOut ==
    /\ digest.at = "waiting" /\ scout.at # "idle"
    /\ now >= digest.since + Wait
    /\ digest' = [digest EXCEPT !.at = "late"]
    /\ UNCHANGED <<now, listed, store, up, cron, jobs, success, scout, scouts, plan, ran,
                   changes, crashes>>

\* send_daily_digest, with whatever picks there are.
SendDigest ==
    /\ digest.at \in {"ready", "late"}
    /\ digest' = [digest EXCEPT !.at = "sent"]
    /\ UNCHANGED <<now, listed, store, up, cron, jobs, success, scout, scouts, plan, ran,
                   changes, crashes>>

----------------------------------------------------------------------------
(* The system *)

\* Yesterday's passes may have stored some of today's games: they fetch the
\* neighbouring dates too.
Init ==
    /\ now = Dawn
    /\ listed \in SUBSET Games /\ store \in SUBSET Games
    /\ up = TRUE /\ cron = Crons /\ jobs = {} /\ success = FALSE
    /\ scout = NoScout /\ digest = NoDigest
    /\ scouts = 0 /\ plan = "none" /\ ran = {} /\ changes = 0 /\ crashes = 0

ScoutStep ==
    ScoutFails \/ FetchGames \/ PriceSlate \/ PlanWindows \/ RunOverdue \/ ScoutEnds

Next ==
    \/ Tick \/ Crash \/ Boot
    \/ \E t \in Dawn..Dusk : Sleep(t)
    \/ \E g \in Games : ListChanges(g)
    \/ Fire \/ ScoutStep
    \/ \E j \in jobs : FireJob(j)
    \/ DigestScout \/ WaitTimesOut \/ SendDigest

Spec == Init /\ [][Next]_vars

(* Fairness.  The process's threads run: a scout ends -- every step of it is
   bounded by timeouts -- and a digest that can go on does.  Neither time nor
   the jobs' firing is needed. *)
FairSpec == Spec /\ WF_vars(ScoutStep) /\ WF_vars(DigestScout) /\ WF_vars(SendDigest)

----------------------------------------------------------------------------
(* Properties *)

JobSet == [kind : Kinds, i : 1..Cardinality(Games), games : (SUBSET Games) \ {{}}]

\* Every variable holds a value of its type, and a scout is in progress exactly
\* while one holds the lock.
TypeOK ==
    /\ now \in Dawn..Dusk /\ listed \subseteq Games /\ store \subseteq Games
    /\ up \in BOOLEAN /\ cron \subseteq Crons /\ jobs \subseteq JobSet
    /\ success \in BOOLEAN /\ ran \subseteq Games
    /\ plan \in {"none", "restored", "scouted", "moved"}
    /\ scout.at \in {"idle", "fetch", "price", "plan", "run"}
    /\ scout.by \in {"nobody", "cron", "digest"} /\ (scout.at = "idle") = (scout = NoScout)
    /\ scout.overdue \subseteq 1..Cardinality(Games)
    /\ digest.at \in {"none", "waiting", "scouting", "ready", "late", "sent"}
    /\ (digest.at = "scouting") = (scout.by = "digest")

Coming(w) == RunAt("window", w) > now

\* "Both number windows from the same clustering and agree on every job id":
\* once planned, every window still to come has its job and there is no other,
\* through restarts, sleeps and retries -- unless a fetch has changed the games
\* since the restore, when a left-alone number may stand for other games.
WindowsKept ==
    plan \in {"restored", "scouted"} =>
        {w \in {j.games : j \in {k \in jobs : k.kind = "window"}} : Coming(w)}
            = {w \in Range(Windows[store]) : Coming(w)}

\* After a scout no game is left out: a window whose time has come was run, by
\* its job or, overdue, by the scout itself -- also the ones a restart had
\* dropped -- or it is being run, or the machine slept through it.
NoGameLeftOut ==
    plan = "scouted" /\ scout.at # "run" =>
        \A w \in Range(Windows[store]) : Coming(w) \/ w \subseteq ran \cup GamesOf(DueJobs)

\* At most one scout fetches games in a process's day, however many jobs a sleep
\* has made due together and though the digest starts one too.
OneScout == scouts <= 1

\* A digest whose hour has come is sent, unless the process stops: no lock is
\* kept and no wait is endless.
Due == digest.at \in {"waiting", "scouting", "ready", "late"}
Answered == digest.at = "sent" \/ ~up
DigestGoesOut == Due ~> Answered

\* "Send the digest, but never ahead of today's scout": it is not sent while one
\* is in progress, unless it has waited as long as it may.  It does not hold: the
\* scout counts as successful before its picks are priced.
NeverAhead ==
    [][digest.at = "ready" /\ digest'.at = "sent" => scout.at \notin {"fetch", "price"}]_vars
=============================================================================
