-------------------------------- MODULE MCBoot --------------------------------
(* Boot for TLC: sectors of two bytes.  Stage 2 is a sector and a half; or it *)
(* is longer when it is assembled with a larger STAGE2_SECTORS.               *)
EXTENDS Boot

MCStage2Sizes == {[n \in 1 .. 5 |-> 3], [n \in 1 .. 5 |-> IF n = 1 THEN 2 ELSE 5],
                  [n \in 1 .. 5 |-> IF n = 1 THEN 4 ELSE IF n = 2 THEN 6 ELSE 5]}
=============================================================================
