---------------------------- MODULE MCPropLines ----------------------------
(***************************************************************************)
(* PropLines on two games of which one team's letters hold another's: SA    *)
(* plays at SAC, LAL at SAC a day later, and both rows carry the date of the *)
(* day after, as rows of evening games stored without ESPN's id do.  p of    *)
(* SAC scores in each, a different number.                                  *)
(***************************************************************************)
EXTENDS PropLines

Scored(points) == <<[team |-> "SAC", player |-> "p", category |-> FALSE, keyed |-> TRUE,
                     aligned |-> TRUE, didNotPlay |-> FALSE, cells |-> [points |-> points]]>>
Game(day, away, points) == [day |-> day, home |-> "SAC", away |-> away, blocks |-> Scored(points)]
Row(day, away) == [day |-> day, home |-> "SAC", away |-> away, espn |-> None, phantom |-> FALSE]

Scoreboard == [e1 |-> Game(1, "SA", 1), e2 |-> Game(2, "LAL", 3)]
Letters == [SA |-> {"SA"}, SAC |-> {"SAC", "SA"}, LAL |-> {"LAL"}]
LateRows == [g1 |-> Row(2, "SA"), g2 |-> Row(3, "LAL")]
OnePick == [b1 |-> [row |-> "g1", player |-> "p", label |-> "Points", over |-> TRUE, line |-> 2,
                    counts |-> TRUE]]
Summed == [player_points |-> {"points"}]
Labels == [player_points |-> "Points"]
Keys == [points |-> "points"]
NoColumns == <<>>
=============================================================================
