---------------------------- MODULE MCIncrCounter ----------------------------
(* Instance of IncrCounter for TLC: a full batch and a shorter last one. *)
EXTENDS IncrCounter

CONSTANTS b1, b2, exec, r1, r2

MCBatches == {b1, b2}
MCRuns    == {exec, r1, r2}
MCSize    == [b \in MCBatches |-> IF b = b1 THEN 3 ELSE 2]
===============================================================================
