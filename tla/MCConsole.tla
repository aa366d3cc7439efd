------------------------------- MODULE MCConsole -------------------------------
(* Console for TLC: three-digit numbers in a buffer of four, as 20 digits     *)
(* and 21 in the code; a text with a line feed in it, and the empty one.      *)
EXTENDS Console

MCTexts == {<< >>, <<"a", "LF", "b">>, <<"LF">>}
=============================================================================
