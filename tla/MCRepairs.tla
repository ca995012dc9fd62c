----------------------------- MODULE MCRepairs -----------------------------
(***************************************************************************)
(* Two games of the same teams on consecutive days.                        *)
(***************************************************************************)
EXTENDS Repairs

CONSTANTS e1, e2

BackToBack == [e \in {e1, e2} |-> IF e = e1 THEN 1 ELSE 2]
=============================================================================
