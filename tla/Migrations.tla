----------------------------- MODULE Migrations -----------------------------
(***************************************************************************)
(* run_migrations, run by every process that opens the database, at every  *)
(* start and before anything else.  A migration inspects the schema and    *)
(* then executes what is missing; the driver commits every DDL statement   *)
(* by itself, so two processes starting together interleave statement by   *)
(* statement, and a process may stop between any two.  One that fails ends *)
(* and is started again.                                                   *)
(***************************************************************************)
EXTENDS Schema

CONSTANTS
    Processes,    \* the API and the scheduler
    Behind,       \* sets of items an existing database may lack
    MaxCrashes    \* stops in a behaviour, at most

(* A database of an earlier version has all that a migration of two          *)
(* statements adds, or nothing of it.                                        *)
MigrationsAssumption ==
    \A items \in Behind : \A k \in DOMAIN MIGRATIONS :
        MIGRATIONS[k].looks = "first" /\ MIGRATIONS[k].items[1] \notin items
            => Items(MIGRATIONS[k]) \cap items = {}

VARIABLES
    schema,      \* the items the database has
    doubled,     \* whether odds has two rows of one (game, bookmaker)
    allowed,     \* SPORTS_PICKS_ALLOW_DESTRUCTIVE_MIGRATIONS
    process,     \* each process's place in MIGRATIONS and which of its items are still to do
    crashes,     \* stops so far
    cut          \* history: items left out for good by a stop half way
vars == <<schema, doubled, allowed, process, crashes, cut>>

----------------------------------------------------------------------------
(* What a migration decides to execute on the schema it inspects. *)

(* Every migration that starts with what is there taken for done. *)
FirstOnly(m, s) == {i \in DOMAIN m.items : m.items[1] \notin s}
(* A column only of a table that is there. *)
Missing(m, s) ==
    {i \in DOMAIN m.items :
        LET item == IF m.looks = "each" THEN m.items[i] ELSE m.items[1] IN
        item \notin s /\ (m.looks = "each" /\ item[1] = "column" => Table(item[2]) \in s)}

(* The places, among its items, of what a migration has to do. *)
Plan(m, s) ==
    IF \/ m.looks = "legacy" /\ Legacy \notin s
       \/ m.table # "none" /\ Table(m.table) \notin s
       \/ m.looks = "unique" /\ doubled
    THEN {} ELSE Missing(m, s)

Refuses(m, s) == m.looks = "legacy" /\ Legacy \in s /\ ~allowed

----------------------------------------------------------------------------
Stopped == [pc |-> "down", at |-> 1, todo |-> {}]
OddsIndex == migrate_odds_one_row_per_book.items[1]

(* A new file; a database of an earlier version; one with the legacy        *)
(* api_usage, which alone asks for the permission.  Doubled odds rows only  *)
(* where no index forbids them.                                             *)
Init ==
    /\ \/ schema = {}
       \/ \E items \in Behind : schema = (Current \ items)
       \/ schema = Current \cup {Legacy}
    /\ doubled \in BOOLEAN /\ allowed \in (IF Legacy \in schema THEN BOOLEAN ELSE {FALSE})
    /\ doubled => Table("odds") \in schema /\ OddsIndex \notin schema
    /\ process = [p \in Processes |-> Stopped]
    /\ crashes = 0 /\ cut = {}

(* A process is started, by hand or by its supervisor. *)
StartUp(p) ==
    /\ process[p].pc = "down"
    /\ process' = [process EXCEPT ![p] = [Stopped EXCEPT !.pc = "inspect"]]
    /\ UNCHANGED <<schema, doubled, allowed, crashes, cut>>

Inspect(p) ==
    LET here == process[p]
        m == MIGRATIONS[here.at]
    IN
    /\ here.pc = "inspect"
    /\ process' = [process EXCEPT ![p] =
          IF Refuses(m, schema) THEN [Stopped EXCEPT !.pc = "refused"]
          ELSE IF Plan(m, schema) # {} THEN [here EXCEPT !.pc = "execute", !.todo = Plan(m, schema)]
          ELSE IF here.at < Len(MIGRATIONS) THEN [here EXCEPT !.at = here.at + 1]
          ELSE [here EXCEPT !.pc = "up"]]
    /\ UNCHANGED <<schema, doubled, allowed, crashes, cut>>

(* Adding what is there, or dropping what is not, is an error; CREATE INDEX *)
(* IF NOT EXISTS and the backfill never are.                                *)
Fails(s) ==
    \/ s[1] \in {"column", "table", "row"} /\ s \in schema
    \/ s[1] = "drop" /\ Table(s[2]) \notin schema
First(places) == {i \in places : \A j \in places : i <= j}
Executed(s) ==
    CASE s[1] = "drop" -> {i \in schema : i[2] # s[2]}
      [] s[1] = "table" -> schema \cup Whole(s[2])
      [] OTHER -> schema \cup {s}

Execute(p) ==
    LET here == process[p] IN
    \E i \in First(here.todo) :
        LET item == MIGRATIONS[here.at].items[i] IN
        /\ here.pc = "execute" /\ ~Fails(item)
        /\ schema' = Executed(item)
        /\ process' = [process EXCEPT ![p] =
              IF here.todo # {i} THEN [here EXCEPT !.todo = here.todo \ {i}]
              ELSE IF here.at < Len(MIGRATIONS) THEN [pc |-> "inspect", at |-> here.at + 1, todo |-> {}]
              ELSE [here EXCEPT !.pc = "up", !.todo = {}]]
        /\ UNCHANGED <<doubled, allowed, crashes, cut>>

(* A process that is stopped leaves the rest of a migration that looks only *)
(* for its first item undone for good.                                      *)
LeftUndone(p) ==
    LET m == MIGRATIONS[process[p].at] IN
    IF process[p].pc = "execute" /\ m.looks = "first" /\ m.items[1] \in schema
    THEN {m.items[i] : i \in process[p].todo} \ schema ELSE {}

Fail(p) ==
    /\ process[p].pc = "execute"
    /\ \E i \in First(process[p].todo) : Fails(MIGRATIONS[process[p].at].items[i])
    /\ process' = [process EXCEPT ![p] = Stopped]
    /\ UNCHANGED <<schema, doubled, allowed, crashes, cut>>

Crash(p) ==
    /\ process[p].pc # "down" /\ crashes < MaxCrashes /\ crashes' = crashes + 1
    /\ cut' = cut \cup LeftUndone(p)
    /\ process' = [process EXCEPT ![p] = Stopped]
    /\ UNCHANGED <<schema, doubled, allowed>>

(* dedupe_odds_rows removes the doubled rows and creates the index itself. *)
dedupe_odds_rows ==
    /\ doubled /\ doubled' = FALSE
    /\ schema' = schema \cup {OddsIndex}
    /\ UNCHANGED <<allowed, process, crashes, cut>>

Next ==
    \/ \E p \in Processes : StartUp(p) \/ Inspect(p) \/ Execute(p) \/ Fail(p) \/ Crash(p)
    \/ dedupe_odds_rows

(* A process keeps running, and is started again when it is down. *)
Fairness == \A p \in Processes : WF_vars(StartUp(p) \/ Inspect(p) \/ Execute(p) \/ Fail(p))
Spec == Init /\ [][Next]_vars /\ Fairness

----------------------------------------------------------------------------
TypeOK ==
    /\ schema \subseteq Current \cup {Legacy}
    /\ \A p \in Processes : /\ process[p].pc \in {"down", "inspect", "execute", "refused", "up"}
                            /\ process[p].at \in 1 .. Len(MIGRATIONS)
    /\ cut \subseteq Current

(* A process that serves has the whole schema, whoever else was migrating   *)
(* and whatever stopped half way, but for the second half of a migration    *)
(* that stopped between its two statements, or that another process is      *)
(* still between, for the index that doubled odds rows forbid, and for the  *)
(* new api_usage where a legacy one is dropped: a second process that had   *)
(* found the legacy one drops the new one after the first has come up.      *)
UpMeansComplete ==
    \A p \in Processes : process[p].pc = "up" =>
        Current \ (cut \cup (UNION {LeftUndone(r) : r \in Processes})
                     \cup (IF doubled THEN {OddsIndex} ELSE {})
                     \cup (IF allowed THEN {Table("api_usage")} ELSE {}))
            \subseteq schema

(* Every process comes up in the end, or refuses a legacy table: one that   *)
(* loses the race for a column fails once and finds it the next time.       *)
StartsInTheEnd == \A p \in Processes : <>(process[p].pc \in {"up", "refused"})
=============================================================================
