CONSTANTS
  Kinds <- MCKinds
  ScriptKinds <- MCScriptKinds
  MaxStatements = 3
  MaxCalls = 5
  None = None
SPECIFICATION FairSpec
\* A client stops when it likes.
CHECK_DEADLOCK FALSE
INVARIANTS
  NothingLost
  NothingTwice
  StopMeansAll
PROPERTY CarefulLoopEnds
