----------------------------- MODULE MCCatalogue -----------------------------
EXTENDS Catalogue, TLC

CONSTANTS c1, c2, u1, adm, g1, g99, n1, n2, k1, k2, f1, s1, s2, d1, j1, j2

MCClients == {c1, c2}
MCUsers == {u1, adm}
MCGroups == {g1, g99}
MCGroupOf == [u \in MCUsers |-> IF u = adm THEN g99 ELSE g1]
MCNames == {n1, n2}
MCCases == {k1, k2}
MCFolders == {f1}
MCScenes == {s1, s2}
MCSources == {d1}
MCJobs == {j1, j2}

\* Cases with a folder, a case with tasks, a case with scenes, all three.
MCPools == {[users |-> {adm}, ids |-> {k1, k2, f1}, sources |-> {}],
            [users |-> {adm}, ids |-> {k1, j1, j2}, sources |-> {d1}],
            [users |-> {u1, adm}, ids |-> {k1, s1, s2}, sources |-> {}],
            [users |-> {u1}, ids |-> {k1, s1, j1}, sources |-> {d1}]}

MCSymmetry == Permutations(MCClients) \cup Permutations(MCNames)
                \cup Permutations(MCCases) \cup Permutations(MCScenes)
=============================================================================
