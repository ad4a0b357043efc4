CONSTANTS
  Func <- MCFunc
  Code <- MCCode
  Entry <- MCEntry
  LevelAt <- MCLevelAt
  Table <- MCTable
  Word <- MCWord
  Scopes <- MCScopes
  Filters = {100}
  Foreign = {"h"}
  Epilogue <- Own
  SavedAt <- Mixed
  Low = 1
  MaxWalk = 2
  Answers <- MCAnswers
  MaxDepth = 3
  MaxFaults = 2
  None = None
SPECIFICATION Spec
INVARIANT ContinueEndsSearch
CHECK_DEADLOCK FALSE
