SPECIFICATION FairSpec
CONSTANTS
  Tasks = {st_main, st_0}
  Main = st_main
  None = none
  Digests = {d1, d2}
  Guidance = {g1}
  StepBudgets <- MCStepBudgets
  RetryBudgets <- MCRetryBudgets
  MaxReflections = 2
  Origins <- MCOrigins
INVARIANTS
  TypeOK
  BudgetsRespected
  RecursionLimitNeverHit
  OutcomeMatchesWorkspace
  ExecutorHasActiveSubtask
  RepetitionBounded
  NoDoomedCycle
PROPERTIES
  Termination
  ImplementsFlow
