----------------------------- MODULE MCPaperBets -----------------------------
(* Values for PaperBets' constants that a .cfg file cannot write. *)
EXTENDS PaperBetsLedger, TLC

\* Every game is on day 1.
AllOnDayOne == [g \in Games |-> 1]

\* Request threads are interchangeable, and so are users and grading passes.
Threads == Permutations(Requests) \cup Permutations(Users) \cup Permutations(Graders)
=============================================================================
