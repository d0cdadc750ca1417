--------------------------- MODULE MCMetadataSync ---------------------------
(* Instance of MetadataSync for TLC; workers and servers are interchangeable. *)
EXTENDS MetadataSync, TLC

CONSTANTS t1, w1, w2, s1, s2

MCTables   == {t1}
MCWorkers  == {w1, w2}
MCServers  == {s1, s2}
MCSymmetry == Permutations(MCTables) \cup Permutations(MCWorkers) \cup Permutations(MCServers)
=============================================================================
