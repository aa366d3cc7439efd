------------------------------ MODULE MCMachine ------------------------------
(* Machine for TLC: a ring of three slots, a letter, Enter and the shift keys. *)
EXTENDS Machine

\* 'a' is 0x1E, Enter 0x1C, Backspace 0x0E.
MCkeymap ==
  [c \in MakeCode |-> CASE c = 30 -> "a" [] c = 28 -> "enter" [] c = 14 -> "bksp"
                        [] OTHER -> NUL]

MCshifted_keymap ==
  [c \in MakeCode |-> CASE c = 28 -> "enter" [] OTHER -> NUL]
=============================================================================
