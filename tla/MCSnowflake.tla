------------------------------ MODULE MCSnowflake ------------------------------
EXTENDS Snowflake, TLC

CONSTANTS t1, t2, t3

MCThreads == {t1, t2, t3}
MCProcess == (t1 :> "api") @@ (t2 :> "api") @@ (t3 :> "worker")
MCPids == {1, 2}
MCSymmetry == Permutations({t1, t2})
=============================================================================
