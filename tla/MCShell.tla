-------------------------------- MODULE MCShell --------------------------------
(* Shell for TLC: four rows of four cells, one of them the header; a line of  *)
(* up to four characters after a prompt of two runs over the edge once, as    *)
(* 6 + 127 characters do on rows of 80.  The words begin with one another.    *)
EXTENDS Shell

MCPrompt == <<">", "_">>

MCClear == <<"b">>
MCReboot == <<"b", "b">>
MCEcho == <<"a", "b">>
MCLaunch == <<"b", "a">>
MCWords == {<<"a">>, <<"a", "a">>}
=============================================================================
