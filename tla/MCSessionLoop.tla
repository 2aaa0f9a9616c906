--------------------------- MODULE MCSessionLoop ---------------------------
EXTENDS SessionLoop

MCStepBudgets == 0..6
MCRetryBudgets == 0..3
MCOrigins == {<< >>}
=============================================================================
