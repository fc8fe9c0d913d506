------------------------------ MODULE MCImage ------------------------------
(***************************************************************************)
(* A boot loader of 2 cells and a kernel of 2, whose .bss covers the first *)
(* cells behind it; 8-bit sizes with a K of 4.  Modules of 1 and 2 cells   *)
(* fill exactly what is loaded, of 3 and 3 are too long for it.            *)
(***************************************************************************)
EXTENDS Image, TLC

Lengths == {<<>>, <<3>>, <<1, 2>>, <<2, 0>>, <<3, 3>>}
Numbers == {<<"6">>, <<"K">>, <<"2", "K">>, <<"2", "M">>, <<"6", "6", "K">>, <<"2", "0">>, <<"2", "K", "6">>,
            <<>>, <<"2", "6", "6">>}
Digits == ("0" :> 0) @@ ("2" :> 2) @@ ("6" :> 6)
Units == ("K" :> 1) @@ ("M" :> 2)
Bss == 2 .. 5
Places == <<10, 13>>
=============================================================================
