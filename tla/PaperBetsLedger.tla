--------------------------- MODULE PaperBetsLedger ---------------------------
(***************************************************************************)
(* Paper betting implements the ledger when passes run one at a time.  A   *)
(* ledger bet is a straight bet or a parlay; a parlay's legs are no bets.  *)
(***************************************************************************)
EXTENDS PaperBets

Nothing == [state |-> "none", user |-> AnyUser, stake |-> 0, back |-> 0]

LedgerEntry(row) ==
    IF row.result = Absent THEN Nothing
    ELSE [state |-> IF row.result = Pending THEN "open" ELSE "settled",
          user |-> row.user, stake |-> row.stake, back |-> row.back]

LedgerBet ==
    [k \in Keys |->
        IF k[1] = "parlay" THEN LedgerEntry(parlay[k[2]])
        ELSE IF pick[k[2]].parlay # NoParlay THEN Nothing ELSE LedgerEntry(pick[k[2]])]

Ledger == INSTANCE BetLedger WITH Bets <- Keys, bet <- LedgerBet

\* Whatever requests and the grading pass do step by step, the bankroll sees
\* bets accepted within the free money and settled once.
ImplementsLedger == Ledger!Spec
=============================================================================
