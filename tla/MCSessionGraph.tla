--------------------------- MODULE MCSessionGraph ---------------------------
EXTENDS SessionGraph

MCStepBudgets == 0..6
MCRetryBudgets == 0..3

\* A fresh log, that of a single handoff, and every full window; decisions are
\* interchangeable, so the first of them stands for any first one.
First == CHOOSE d \in Digests : TRUE
MCOrigins ==
  {<< >>} \union {log \in [{1} -> Digests] \union [1..LoopWindow -> Digests] : log[1] = First}

\* A single turn of one decision, the handoff, is enough for the planner's fallback.
MCPromotedOrigins == [{1} -> Digests]
=============================================================================
