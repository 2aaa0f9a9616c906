SPECIFICATION Spec
CONSTANTS
  Ceilings <- MCCeilings
  TopK = 3
  ItemCap = 150
  SkillBudget = 120
  Passes = 32
  Fixed = 55
  Header = 8
  Line = 7
  Goals <- MCGoals
  Constraints <- MCConstraints
  Subtasks <- MCSubtasks
  Errors <- MCErrors
  Skills <- MCSkills
  Indexes <- MCIndexes
  Results <- MCResults
  Edits <- MCEdits
  Modes <- MCModes
INVARIANTS
  AnchorsCutLast
  OldestResultsKept
  RaisesOnlyOutOfPasses
CHECK_DEADLOCK FALSE
