------------------------------- MODULE Amounts -------------------------------
(***************************************************************************)
(* Sums of a column of the database, as the bankroll queries compute them: *)
(* func.coalesce(func.sum(column), 0.0) over the rows a filter keeps.      *)
(*                                                                         *)
(* Amounts are natural numbers of some unit (the code stores dollars as    *)
(* floats).  A sum is counted coin by coin: row x contributes the coins    *)
(* <<x, 1>> .. <<x, col[x]>>, and the sum is the number of coins.  Written *)
(* this way a sum is a cardinality, which the proofs can reason about      *)
(* without induction.                                                      *)
(***************************************************************************)
EXTENDS Integers, FiniteSets

\* The coins of the rows in S, col giving each row's amount.
Coins(S, col) == UNION {{x} \X (1..col[x]) : x \in S}

\* SUM(col) over the rows in S; 0 over no rows (the coalesce).
Total(S, col) == Cardinality(Coins(S, col))
=============================================================================
