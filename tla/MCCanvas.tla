------------------------------ MODULE MCCanvas ------------------------------
(***************************************************************************)
(* A field of 14 x 10 pixels for one player of radius 2, who walks 4       *)
(* pixels per frame (10 and 10 on the screen), with an arrow 5 pixels long *)
(* (18): its tip is outside the disc, and within it after a step.          *)
(***************************************************************************)
EXTENDS Canvas

At(x, y) == [x |-> x, y |-> y]
HoleAt == At(11, 6)
Square == {[x |-> 7, y |-> 0, size |-> 2]}
OnePlayer == {0}
PlayerStarts == {At(3, 5)}
BallPlaces == {At(7, 6), At(9, 5), At(8, 3)}
=============================================================================
