------------------------------ MODULE Geometry ------------------------------
(***************************************************************************)
(* The integer geometry of the golf game (game_functions.c): directions in *)
(* steps of ten degrees with cosine and sine in hundredths, the division   *)
(* of C and squared distances.                                             *)
(***************************************************************************)
EXTENDS Integers, Sequences

Headings == 0 .. 35

cos_table == <<100, 98, 94, 87, 77, 64, 50, 34, 17, 0, -17, -34, -50, -64, -77, -87, -94, -98,
               -100, -98, -94, -87, -77, -64, -50, -34, -17, 0, 17, 34, 50, 64, 77, 87, 94, 98>>
cos(a) == cos_table[a + 1]
sin(a) == cos_table[((a + 27) % 36) + 1]

Quot(a, b) == IF a < 0 THEN -((-a) \div b) ELSE a \div b     \* division of C
Sq(a) == a * a
Dist2(p, q) == Sq(p.x - q.x) + Sq(p.y - q.y)
=============================================================================
