-------------------------- MODULE MCMemoryStores --------------------------
EXTENDS MemoryStores

MCSteps == {2, 3}
MCMaxCalls == [sqlite |-> 3, redis |-> 2]
=============================================================================
