------------------------------ MODULE BetLedger ------------------------------
(***************************************************************************)
(* What paper betting promises a player about the bankroll, with no rows,  *)
(* legs, locks or passes: a bet is accepted only when what is free covers  *)
(* its stake, an open bet is settled once, and a settled bet never changes.*)
(***************************************************************************)
EXTENDS Amounts

CONSTANTS Users, Bets, StartingBalance

VARIABLE bet      \* each bet: "none", then "open", then "settled"

Of(u) == {b \in Bets : bet[b].state # "none" /\ bet[b].user = u}
Stake == [b \in Bets |-> bet[b].stake]
Back == [b \in Bets |-> bet[b].back]      \* 0 until the bet is settled

\* Every stake leaves the bankroll when the bet is placed; what a settled bet
\* returns comes back.
FreeMoney(u) == StartingBalance + Total(Of(u), Back) - Total(Of(u), Stake)

Init == \A b \in Bets : bet[b].state = "none"

Same(S) == \A b \in Bets \ S : bet'[b] = bet[b]

Place(b) ==
    /\ bet[b].state = "none"
    /\ bet'[b].state = "open" /\ bet'[b].back = 0
    /\ bet'[b].stake <= FreeMoney(bet'[b].user)
    /\ Same({b})

Settle(S) ==
    /\ S # {}
    /\ \A b \in S : /\ bet[b].state = "open" /\ bet'[b].state = "settled"
                    /\ bet'[b].user = bet[b].user /\ bet'[b].stake = bet[b].stake
                    /\ bet'[b].back >= 0
    /\ Same(S)

Next == (\E b \in Bets : Place(b)) \/ (\E S \in SUBSET Bets : Settle(S))

Spec == Init /\ [][Next]_bet
=============================================================================
