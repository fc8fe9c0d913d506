------------------------------- MODULE MCGolf -------------------------------
(***************************************************************************)
(* A screen of 1024 x 768 pixels, players near its right border.  A ball   *)
(* lies in front of each player, the own one or the other's; an obstacle   *)
(* stands where a ball driven against the border comes back to.            *)
(***************************************************************************)
EXTENDS Golf

At(x, y) == [x |-> x, y |-> y]
Square(x, y, size) == [x |-> x, y |-> y, size |-> size]

HolesTried == {At(880, 428)}
PlayersTried == {At(930, 400), At(931, 452)}
BallsTried == {At(968, 400), At(968, 446)}
ObstaclesTried == {Square(738, 380, 35)}
East == [n \in {1, 2} |-> IF n = 1 THEN {0, 1} ELSE {0}]
=============================================================================
