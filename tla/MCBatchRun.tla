------------------------------ MODULE MCBatchRun ------------------------------
(* Instance of BatchRun for TLC: main table 1, table 2 takes its values     *)
(* from the main table, with one Redis synchronisation.                     *)
EXTENDS BatchRun

MCSource == [t \in 1..NT |-> IF t = 1 THEN {} ELSE {t - 1}]
===============================================================================
