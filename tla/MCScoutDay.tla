---------------------------- MODULE MCScoutDay ----------------------------
(* Values for ScoutDay's constants that a .cfg file cannot write. *)
EXTENDS ScoutDay

CONSTANTS g1, g2, g3

\* A lunch-time window of two games, half an hour apart, and one an hour later.
Lunch == [g \in Games |-> CASE g = g1 -> 48 [] g = g2 -> 50 [] g = g3 -> 54]
===========================================================================
