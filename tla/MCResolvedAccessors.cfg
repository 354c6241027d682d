CONSTANTS
  IntSpan <- MCIntSpan
  Classes <- MCClasses
  Interfaces <- MCInterfaces
  Dispatch <- MCDispatch
  Otherwise <- MCOtherwise
  CppOnly <- MCCppOnly
  Objects <- MCObjects
  GoInts <- MCGoInts
  TextValues <- MCTextValues
  Addrs = {a1, a2}
  MaxLen = 2
  Char = Char
  Nul = Nul
  Nil = Nil
  Null = Null
  Garbage = Garbage
  Panic = Panic
  None = None
SPECIFICATION Spec
\* A call that panics ends the program.
CHECK_DEADLOCK FALSE
INVARIANTS
  AnswerSaysWhatIsStored
  WrittenComesBack
  PanicsOnlyWithoutObject
  WalkSeesWhatGettersAnswer
