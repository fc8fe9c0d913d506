-------------------------- MODULE MCKeyboardDriver --------------------------
(* Small keyboards for KeyboardDriver, with the real scancode table.        *)
EXTENDS KeyboardDriver, ScancodeTable

Plain(code) == [ext |-> FALSE, code |-> code]

\* Both Shifts, both Ctrls (the right one extended) and the letter r: modifiers,
\* characters in both cases and the snapshot request.
DriverKeys == {Plain(42), Plain(54), Plain(29), [ext |-> TRUE, code |-> 29], Plain(19)}
=============================================================================
