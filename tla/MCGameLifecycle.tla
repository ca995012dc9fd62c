--------------------------- MODULE MCGameLifecycle ---------------------------
(* Values for GameLifecycle's constants that a .cfg file cannot write. *)
EXTENDS GameLifecycle

\* Each game is on a scoreboard of its own.
OwnBoard == [g \in Games |-> g]

=============================================================================
