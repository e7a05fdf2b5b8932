SPECIFICATION Spec
CONSTANTS
  f1 = f1
  f2 = f2
  f3 = f3
  NoFile = NoFile
  Files <- TwoFiles
  Recipes <- RecursiveRecipes
  MaxLines = 2
  JobSlots = 0
  NotParallel = TRUE
  LoadLimited = FALSE
  KeepGoing = TRUE
  IgnoreErrors = FALSE
  DontCare = {f2}
  Modes = {"print", "question"}
  MAXIMUM_WAIT_OBJECTS = 1
INVARIANTS DryRun HonestAnswer
CHECK_DEADLOCK FALSE
