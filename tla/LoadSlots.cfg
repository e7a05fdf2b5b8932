SPECIFICATION Spec
CONSTANTS
  f1 = f1
  f2 = f2
  f3 = f3
  NoFile = NoFile
  Files <- ThreeFiles
  Recipes <- OneLiners
  MaxLines = 2
  JobSlots = 2
  NotParallel = FALSE
  LoadLimited = TRUE
  KeepGoing = TRUE
  IgnoreErrors = FALSE
  DontCare = {f2}
  Modes = {"run"}
  MAXIMUM_WAIT_OBJECTS = 3
INVARIANTS SlotBound
CHECK_DEADLOCK FALSE
