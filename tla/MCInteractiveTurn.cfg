SPECIFICATION FairSpec
CONSTANTS
  ContradictionWindow = 10
  Decisions <- MCDecisions
  Earlier <- MCEarlier
  None = none
  PhaseBudgets <- MCPhaseBudgets
  RetryBudgets = {0, 1}
  Ablations <- MCAblations
INVARIANTS
  TypeOK
  AttemptsNeverRunOut
  PhaseBudgetsRespected
  WritesAreLicensed
  NoWriteAfterEdit
PROPERTIES
  OnlyHandoffsAreEndless
