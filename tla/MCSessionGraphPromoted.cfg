SPECIFICATION Spec
CONSTANTS
  Tasks = {st_main, st_0}
  Main = st_main
  None = none
  Digests = {d1, d2}
  Guidance = {g1}
  StepBudgets <- MCStepBudgets
  RetryBudgets <- MCRetryBudgets
  MaxReflections = 3
  Origins <- MCPromotedOrigins
INVARIANT
  OpenSubtaskAfterPlanning
