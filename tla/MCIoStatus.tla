---------------------------- MODULE MCIoStatus ----------------------------
(* A small wiring of the GPIO outputs for IoStatus: one output per channel, *)
(* as the shipped configuration has it.                                    *)
EXTENDS IoStatus

OneEach == [p \in {0, 1} |-> IF p = 0 THEN "fm" ELSE "ptt"]
=============================================================================
