SPECIFICATION Spec
CONSTANTS
  ContradictionWindow = 2
  Proposals <- MCProposals
  Garbage = garbage
  RetryBudgets = {0, 1, 2}
  Icps <- MCIcps
  MaxCycles = 4
INVARIANTS
  TypeOK
  CallsBounded
  RepetitionBounded
  LoopVerdictIsFinal
  NoContradiction
  ExhaustedDidNothing
PROPERTIES
  ImplementsContract
