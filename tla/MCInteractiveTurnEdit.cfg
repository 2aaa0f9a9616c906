SPECIFICATION Spec
CONSTANTS
  ContradictionWindow = 10
  Decisions <- MCDecisions
  Earlier <- MCEarlier
  None = none
  PhaseBudgets <- MCPhaseBudgets
  RetryBudgets = {0, 1}
  Ablations <- MCProduction
PROPERTY
  AfterEditMeansEdited
