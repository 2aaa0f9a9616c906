--------------------------- MODULE MCEngineParity ---------------------------
EXTENDS EngineParity

\* From a budget that allows a first verdict and a revision to the test's own,
\* with the default number of retries.
MCStepBudgets == 4..8
MCRetryBudgets == {3}
MCOrigins == {<< >>}
=============================================================================
