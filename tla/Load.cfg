SPECIFICATION Spec
CONSTANTS
  f1 = f1
  f2 = f2
  f3 = f3
  NoFile = NoFile
  Files <- ThreeFiles
  Recipes <- OneLiners
  MaxLines = 2
  JobSlots = 0
  NotParallel = FALSE
  LoadLimited = TRUE
  KeepGoing = TRUE
  IgnoreErrors = FALSE
  DontCare = {}
  Modes = {"run"}
  MAXIMUM_WAIT_OBJECTS = 2
INVARIANTS Accounting Tracked
PROPERTIES DeferredRun AllDone
CHECK_DEADLOCK FALSE
