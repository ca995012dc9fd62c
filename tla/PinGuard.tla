------------------------------ MODULE PinGuard ------------------------------
(***************************************************************************)
(* A player's PIN: requests in threads of the API, each of which reads the *)
(* stored hash, reserves an attempt under the guard's lock, compares (slow *)
(* on purpose) and releases the attempt when the PIN was right.  Counters  *)
(* and locks live in memory.                                               *)
(***************************************************************************)
EXTENDS Amounts

CONSTANTS
    Threads,       \* concurrent requests
    Pins,          \* PINs people type
    MAX_FAILURES, LOCK_FOR,   \* the guard's limits; a lock's length in ticks
    None

VARIABLES
    stored,        \* the player's PIN (None: not set yet)
    failures,      \* reserved attempts since the count was last cleared
    left,          \* what is left of the lock (None: no lock entry)
    request,       \* each thread's place, the hash it read and the PIN it carries
    recent         \* history: how many attempts were let through 0, 1 .. ticks
                   \* ago and not cleared since, within a lock's length
vars == <<stored, failures, left, request, recent>>

(* The guard's limits, and that no time is left of no lock. *)
Limits ==
    /\ MAX_FAILURES \in Nat \ {0} /\ LOCK_FOR \in Nat \ {0}
    /\ None \notin 0 .. LOCK_FOR

Ages == 0 .. LOCK_FOR - 1
NoAttempts == [age \in Ages |-> 0]
Idle == [pc |-> "idle", seen |-> None, pin |-> None]

Init ==
    /\ stored \in Pins \cup {None}
    /\ failures = 0 /\ left = None /\ recent = NoAttempts
    /\ request = [t \in Threads |-> Idle]

(* require_player_pin loads the player. *)
Request(t) ==
    /\ request[t].pc = "idle"
    /\ \E p \in Pins : request' = [request EXCEPT ![t] = [pc |-> "read", seen |-> stored, pin |-> p]]
    /\ UNCHANGED <<stored, failures, left, recent>>

(* A player without a PIN: the one typed becomes it. *)
FirstPin(t) ==
    /\ request[t].pc = "read" /\ request[t].seen = None
    /\ stored' = request[t].pin /\ request' = [request EXCEPT ![t] = Idle]
    /\ UNCHANGED <<failures, left, recent>>

Locked == left # None /\ left > 0
(* The count forgotten between requests. *)
Forgotten == 0
(* An expired lock takes the count with it. *)
Counted == IF left = 0 THEN 0 ELSE failures

(* reserve_attempt, in one critical section: refused while locked, else     *)
(* counted as a failure before anything is compared.                        *)
Reserve(t) ==
    /\ request[t].pc = "read" /\ request[t].seen # None
    /\ IF Locked
       THEN /\ request' = [request EXCEPT ![t] = Idle]
            /\ UNCHANGED <<failures, left, recent>>
       ELSE /\ failures' = Counted + 1
            /\ left' = IF Counted + 1 >= MAX_FAILURES THEN LOCK_FOR ELSE None
            /\ recent' = [recent EXCEPT ![0] = @ + 1]
            /\ request' = [request EXCEPT ![t].pc = "compare"]
    /\ UNCHANGED stored

Clear == failures' = 0 /\ left' = None /\ recent' = NoAttempts

(* pin_matches, against the hash that was read; a right PIN is released. *)
Compare(t) ==
    /\ request[t].pc = "compare"
    /\ IF request[t].pin = request[t].seen THEN Clear ELSE UNCHANGED <<failures, left, recent>>
    /\ request' = [request EXCEPT ![t] = Idle]
    /\ UNCHANGED stored

(* The owner sets the PIN anew: commit first, then the guard is cleared. *)
reset_pin ==
    /\ \E p \in Pins : stored' = p
    /\ Clear /\ UNCHANGED request

Tick ==
    /\ left' = IF Locked THEN left - 1 ELSE left
    /\ recent' = [age \in Ages |-> IF age = 0 THEN 0 ELSE recent[age - 1]]
    /\ UNCHANGED <<stored, failures, request>>

Next == \/ \E t \in Threads : Request(t) \/ FirstPin(t) \/ Reserve(t) \/ Compare(t)
        \/ reset_pin \/ Tick

(* Time passes; nothing makes anybody type. *)
Fairness == WF_vars(Tick)
Spec == Init /\ [][Next]_vars /\ Fairness

----------------------------------------------------------------------------
TypeOK ==
    /\ stored \in Pins \cup {None} /\ failures \in 0 .. MAX_FAILURES
    /\ left \in {None} \cup 0 .. LOCK_FOR
    /\ \A t \in Threads : request[t].pc \in {"idle", "read", "compare"}
    /\ recent \in [Ages -> Nat]

(* However many requests run at once, no more than MAX_FAILURES PINs are    *)
(* compared within a lock's length, unless a right one or the owner came    *)
(* in between.                                                              *)
GuessesBounded == Total(Ages, recent) <= MAX_FAILURES

(* A lock ends, however often the player tries while it lasts. *)
LockoutEnds == Locked ~> ~Locked
=============================================================================
