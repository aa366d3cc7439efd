--------------------------------- MODULE MCAta ---------------------------------
(* Ata for TLC: commands of up to three sectors, a drive of nine, and reads of *)
(* one command, exactly two, and two and a part.                               *)
EXTENDS Ata

MCReads == {<<0, 0>>, <<1, 2>>, <<2, 6>>, <<1, 7>>}
=============================================================================
