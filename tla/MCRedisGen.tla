------------------------------ MODULE MCRedisGen ------------------------------
EXTENDS RedisGen
=============================================================================
