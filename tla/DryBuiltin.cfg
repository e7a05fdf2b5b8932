SPECIFICATION Spec
CONSTANTS
  f1 = f1
  f2 = f2
  f3 = f3
  NoFile = NoFile
  Files <- TwoFiles
  Recipes <- DryBuiltins
  MaxLines = 2
  JobSlots = 1
  NotParallel = FALSE
  LoadLimited = FALSE
  KeepGoing = FALSE
  IgnoreErrors = FALSE
  DontCare = {f2}
  Modes = {"print"}
  MAXIMUM_WAIT_OBJECTS = 1
INVARIANTS DryRun
CHECK_DEADLOCK FALSE
