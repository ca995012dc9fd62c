--------------------------- MODULE MCPickLifecycle ---------------------------
(* Values for PickLifecycle's constants that a .cfg file cannot write. *)
EXTENDS PickLifecycle

\* Every market is on the first game.
OneGame == [m \in Markets |-> CHOOSE g \in Games : TRUE]

\* One price of each side.
TwoSides == {[side |-> "home", odds |-> 1], [side |-> "away", odds |-> 3]}
=============================================================================
