--------------------------- MODULE MCTaskLifecycle ---------------------------
(* Instance of TaskLifecycle for TLC. *)
EXTENDS TaskLifecycle

CONSTANTS b1, b2, r1, r2, exec

MCBatches  == {b1, b2}
MCRetriers == {r1, r2}
===============================================================================
