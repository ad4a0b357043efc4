CONSTANTS
  Func <- MCFunc
  Code <- MCCode
  Entry <- MCEntry
  LevelAt <- MCLevelAt
  Table <- MCTable
  Word <- MCWord
  Scopes <- MCScopes
  Filters = {100}
  Foreign = {"h"}
  Epilogue <- Injected
  SavedAt <- Mixed
  Low = 1
  MaxWalk = 2
  Answers <- MCAnswers
  MaxDepth = 4
  MaxFaults = 2
  None = None
SPECIFICATION FairSpec
INVARIANTS ChainSound AskedOnce
PROPERTIES SearchInOrder DispatchEnds
CHECK_DEADLOCK FALSE
