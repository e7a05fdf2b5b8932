SPECIFICATION Spec
CONSTANTS
  f1 = f1
  f2 = f2
  f3 = f3
  NoFile = NoFile
  Files <- TwoFiles
  Recipes <- SerialRecipes
  MaxLines = 2
  JobSlots = 1
  NotParallel = FALSE
  LoadLimited = FALSE
  KeepGoing = FALSE
  IgnoreErrors = FALSE
  DontCare = {f2}
  Modes = {"run"}
  MAXIMUM_WAIT_OBJECTS = 1
INVARIANTS TypeOK HonestVerdict Attended
PROPERTIES RunsRecipes Termination
CHECK_DEADLOCK FALSE
