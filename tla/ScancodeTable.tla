--------------------------- MODULE ScancodeTable ---------------------------
(***************************************************************************)
(* The scancode_table of Kernel/drivers/keyBoardDriver.c as ASCII codes,   *)
(* one row per scancode with the plain and the shifted character; the C    *)
(* initialiser stops at the space bar and leaves the rest of the rows 0.   *)
(***************************************************************************)
EXTENDS Naturals, Sequences

Rows == <<
  <<27,27>>, <<49,33>>, <<50,64>>, <<51,35>>, <<52,36>>, <<53,37>>, <<54,94>>,
  <<55,38>>, <<56,42>>, <<57,40>>, <<48,41>>, <<45,95>>, <<61,43>>, <<8,8>>,
  <<9,9>>, <<113,81>>, <<119,87>>, <<101,69>>, <<114,82>>, <<116,84>>,
  <<121,89>>, <<117,85>>, <<105,73>>, <<111,79>>, <<112,80>>, <<91,123>>,
  <<93,125>>, <<10,10>>, <<0,0>>, <<97,65>>, <<115,83>>, <<100,68>>, <<102,70>>,
  <<103,71>>, <<104,72>>, <<106,74>>, <<107,75>>, <<108,76>>, <<59,58>>,
  <<39,34>>, <<96,126>>, <<0,0>>, <<92,124>>, <<122,90>>, <<120,88>>, <<99,67>>,
  <<118,86>>, <<98,66>>, <<110,78>>, <<109,77>>, <<44,60>>, <<46,62>>,
  <<47,63>>, <<0,0>>, <<0,0>>, <<0,0>>, <<32,32>> >>

UsLayout == [sc \in 0 .. 83 |-> [s \in 0 .. 1 |->
              IF sc \in 1 .. Len(Rows) THEN Rows[sc][s + 1] ELSE 0]]
=============================================================================
