------------------------------ MODULE MCShell ------------------------------
(***************************************************************************)
(* A screen of 4 x 12 pixels, characters of 1 x 2 at scale 1, and four     *)
(* keys, E being a capital e; not TAB, which readLine cannot erase (see    *)
(* LineOnScreen).  Names and texts are short sequences of glyphs, those of *)
(* commands made of keys.                                                  *)
(***************************************************************************)
EXTENDS Shell, TLC

KeySet == {"E", "2", "3", " "}
LowerCase(c) == IF c = "E" THEN "e" ELSE c
DigitValue == ("2" :> 2) @@ ("3" :> 3)

Names == [help |-> <<"2", "e">>, exit |-> <<"2", "2">>, clear |-> <<"3", "3">>,
          time |-> <<"3", "2">>, regs |-> <<"3", "e">>, jugar |-> <<"3">>,
          exceptions |-> <<"e">>, zero |-> <<"2">>, invalidopcode |-> <<"3">>]
         @@ ("set-user" :> <<"e", "e">>) @@ ("font-size" :> <<"2">>)

Line(glyph) == <<glyph, NL>>
Sayings == [help |-> Line("h"), regs |-> <<"r", TAB, "r", NL>>, exit |-> Line("x"),
             time |-> Line("t"), usage |-> Line("!"), exception |-> <<"!", NL, NL>>,
             registers |-> Line("r"), welcome |-> Line("w"), usuario |-> <<"u">>]
            @@ ("TP-ARQUI-" :> <<"$">>) @@ (":~$ " :> <<>>) @@ ("not found" :> Line("?"))
            @@ ("set-user" :> <<"n">>) @@ ("font-size" :> <<"s">>) @@ ("user set" :> <<"n">>)
            @@ ("size set" :> Line("s")) @@ ("bad size" :> Line("!"))
=============================================================================
