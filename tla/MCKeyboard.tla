------------------------------ MODULE MCKeyboard ------------------------------
(* Keyboard for TLC: a ring of four slots, three keys and both shift keys.   *)
EXTENDS Keyboard

\* 'a' (0x1E), Enter (0x1C) and Backspace (0x0E), which has no shifted meaning.
MCkeymap ==
  [c \in MakeCode |-> CASE c = 30 -> "a" [] c = 28 -> "enter" [] c = 14 -> "bksp"
                        [] OTHER -> NUL]

MCshifted_keymap ==
  [c \in MakeCode |-> CASE c = 30 -> "A" [] c = 28 -> "enter" [] OTHER -> NUL]
=============================================================================
