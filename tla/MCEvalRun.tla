----------------------------- MODULE MCEvalRun -----------------------------
EXTENDS EvalRun

MCConfigs == <<"A", "D">>
MCMemoryConfigs == <<"D">>
MCSeeds == <<41, 42>>
MCSample == [s \in {41, 42} |-> IF s = 41 THEN <<"t1">> ELSE <<"t2", "t3">>]
=============================================================================
