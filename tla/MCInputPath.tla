---------------------------- MODULE MCInputPath ----------------------------
(* Small keyboards for InputPath, with the real scancode table.             *)
EXTENDS InputPath, ScancodeTable

Plain(code) == [ext |-> FALSE, code |-> code]

\* A letter and Enter: characters and the newline that ends a read.
LineKeys == {Plain(30), Plain(28)}

\* r and left Ctrl: the keys of a snapshot request.
SnapshotKeys == {Plain(19), Plain(29)}
=============================================================================
