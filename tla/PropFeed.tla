------------------------------ MODULE PropFeed ------------------------------
(***************************************************************************)
(* Storing one game's player props: fetches of two processes keep one line *)
(* per player of what a book offers, append the change to prop_snapshots   *)
(* and upsert player_props.  The latest snapshots are read before the      *)
(* first write takes the lock; from there to the commit is one action.     *)
(***************************************************************************)
EXTENDS Integers, Sequences, FiniteSets, SequencesExt

CONSTANTS
    Fetchers,     \* threads that fetch
    Quoted,       \* pairs <<market, player>> of the book
    Ladders,      \* what a book may offer, by pair: sets of rungs, each a line
                  \* with a price for either side (None: missing)
    Implied,      \* a price's implied probability, in points of a hundred
    MaxFetches,   \* fetches in a behaviour, at most
    None

PropAssumption == MaxFetches \in Nat

VARIABLES
    series,       \* prop_snapshots: by key, oldest first
    props,        \* player_props: by key, the current line and price
    fetch,        \* each fetcher's place, its answer, the latest rows it read
    fetches,      \* fetches so far
    shown,        \* history: by key, what the last stored fetch of its market had
    raced         \* history: keys written over a series that had grown since read
vars == <<series, props, fetch, fetches, shown, raced>>

Sides == {"Over", "Under"}
Keys == Quoted \X Sides
Market(k) == k[1][1]
NoOffer == [line |-> None, odds |-> None]

----------------------------------------------------------------------------
(* main_lines: the rung whose sides are priced closest to even, the lower   *)
(* line first; an incomplete rung only where there is no complete one.      *)
Complete(r) == \A side \in Sides : r.odds[side] # None
Gap(r) == LET d == Implied[r.odds["Over"]] - Implied[r.odds["Under"]] IN IF d < 0 THEN -d ELSE d
Better(r, s) ==
    \/ Complete(r) /\ ~Complete(s)
    \/ Complete(r) /\ Complete(s) /\ (Gap(r) < Gap(s) \/ (Gap(r) = Gap(s) /\ r.line < s.line))
    \/ ~Complete(r) /\ ~Complete(s) /\ r.line < s.line
MainLine(ladder) == CHOOSE r \in ladder : \A s \in ladder \ {r} : Better(r, s)

(* What is stored of an answer: by key, its line and price. *)
Kept(answer) ==
    [k \in {x \in Keys : answer[x[1]] # {} /\ MainLine(answer[x[1]]).odds[x[2]] # None} |->
        LET r == MainLine(answer[k[1]]) IN [line |-> r.line, odds |-> r.odds[k[2]]]]

(* latest_by_key *)
Latest == [k \in {x \in Keys : series[x] # <<>>} |-> Last(series[k])]

(* Mutant: whatever the fetch lacks was pulled. *)
AllMissing(latest, kept) == {k \in DOMAIN latest \ DOMAIN kept : latest[k].odds # None}
(* record_prop_fetch: append what changed; a key the fetch lacks was pulled *)
(* when its book and market were quoted.                                    *)
Pulled(latest, kept) ==
    {k \in DOMAIN latest \ DOMAIN kept :
        latest[k].odds # None /\ \E q \in DOMAIN kept : Market(q) = Market(k)}
Appended(latest, kept) ==
    {k \in DOMAIN kept : k \notin DOMAIN latest \/ latest[k] # kept[k]}
Recorded(latest, kept) ==
    [k \in Keys |-> IF k \in Appended(latest, kept) THEN Append(series[k], kept[k])
                    ELSE IF k \in Pulled(latest, kept) THEN Append(series[k], NoOffer)
                    ELSE series[k]]

----------------------------------------------------------------------------
Idle == [pc |-> "idle", kept |-> <<>>, latest |-> <<>>]

Init ==
    /\ series = [k \in Keys |-> <<>>] /\ props = [k \in Keys |-> NoOffer]
    /\ fetch = [f \in Fetchers |-> Idle] /\ fetches = 0
    /\ shown = [k \in Keys |-> NoOffer] /\ raced = {}

(* fetch_player_props: the API's answer, which may lack a market. *)
Fetch(f) ==
    /\ fetch[f].pc = "idle" /\ fetches < MaxFetches /\ fetches' = fetches + 1
    /\ \E answer \in [Quoted -> UNION {Ladders[q] : q \in Quoted}] :
          /\ \A q \in Quoted : answer[q] \in Ladders[q]
          /\ fetch' = [fetch EXCEPT ![f] = [Idle EXCEPT !.pc = "read", !.kept = Kept(answer)]]
    /\ UNCHANGED <<series, props, shown, raced>>

Read(f) ==
    /\ fetch[f].pc = "read"
    /\ fetch' = [fetch EXCEPT ![f].pc = "store", ![f].latest = Latest]
    /\ UNCHANGED <<series, props, fetches, shown, raced>>

(* _store_props: nothing to store for an empty answer. *)
Store(f) ==
    LET kept == fetch[f].kept
        markets == {Market(k) : k \in DOMAIN kept}
    IN
    /\ fetch[f].pc = "store"
    /\ series' = Recorded(fetch[f].latest, kept)
    /\ props' = [k \in Keys |-> IF k \in DOMAIN kept THEN kept[k] ELSE props[k]]
    /\ shown' = [k \in Keys |-> IF k \in DOMAIN kept THEN kept[k]
                                ELSE IF Market(k) \in markets THEN NoOffer ELSE shown[k]]
    /\ raced' = raced \cup {k \in Keys : series[k] # <<>> /\
                    (k \notin DOMAIN fetch[f].latest \/ Latest[k] # fetch[f].latest[k])}
    /\ fetch' = [fetch EXCEPT ![f] = Idle]
    /\ UNCHANGED fetches

Next == \E f \in Fetchers : Fetch(f) \/ Read(f) \/ Store(f)
Spec == Init /\ [][Next]_vars

----------------------------------------------------------------------------
TypeOK ==
    /\ \A k \in Keys : DOMAIN props[k] = {"line", "odds"} /\ DOMAIN shown[k] = {"line", "odds"}
    /\ \A f \in Fetchers : fetch[f].pc \in {"idle", "read", "store"}
    /\ fetches \in 0 .. MaxFetches /\ raced \subseteq Keys

(* The history's end is what the book last showed, a pull included, and an  *)
(* answer that lacks a market pulls nothing; the current row is the last    *)
(* price that was on offer.  Where two fetches of one game overlap, the     *)
(* history may keep the wrong end.                                          *)
PropHistoryFollows ==
    \A k \in Keys \ raced :
        /\ (IF series[k] = <<>> THEN NoOffer ELSE Last(series[k])) = shown[k]
        /\ shown[k].odds # None => props[k] = shown[k]
        /\ \A i \in 1 .. Len(series[k]) - 1 : series[k][i] # series[k][i+1]
=============================================================================
