------------------------------ MODULE MCSceneExec ------------------------------
(* Instance of SceneExec for TLC: n1 and n2 in the first layer, n3 in the   *)
(* second; n1 aborts the scene when it fails.                               *)
EXTENDS SceneExec

CONSTANTS n1, n2, n3

MCNodes == {n1, n2, n3}
MCLayer == [n \in MCNodes |-> IF n = n3 THEN 2 ELSE 1]
MCAbort == {n1}
================================================================================
