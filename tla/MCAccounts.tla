------------------------------ MODULE MCAccounts ------------------------------
EXTENDS Accounts, TLC

CONSTANTS u1, k1, m1, m2, c1, c2, t1

MCUsers == {u1}
MCKeys == {k1}
MCMenus == {m1, m2}
MCClients == {c1, c2}
MCTokens == {t1}
MCSymmetry == Permutations(MCMenus) \cup Permutations(MCClients)
=============================================================================
