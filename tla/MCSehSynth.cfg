CONSTANTS
  Func <- MCFunc
  Code <- MCCode
  Entry <- MCEntry
  LevelAt <- SynthLevelAt
  Table <- SynthTable
  Word <- SynthWord
  Scopes <- SynthScopes
  Filters = {100}
  Foreign = {}
  Epilogue <- Own
  SavedAt <- Mixed
  Low = 1
  MaxWalk = 2
  Answers <- MCAnswers
  MaxDepth = 3
  MaxFaults = 2
  None = None
SPECIFICATION Spec
INVARIANT MatchInTable
CHECK_DEADLOCK FALSE
