SPECIFICATION Spec
CONSTANTS
  f1 = f1
  f2 = f2
  f3 = f3
  NoFile = NoFile
  Files <- ThreeFiles
  Recipes <- ShellRecipes
  MaxLines = 2
  JobSlots = 2
  NotParallel = FALSE
  LoadLimited = FALSE
  KeepGoing = FALSE
  IgnoreErrors = FALSE
  DontCare = {f2}
  Modes = {"run"}
  MAXIMUM_WAIT_OBJECTS = 3
INVARIANTS IInv SlotBound NoneLeftRunning
PROPERTIES OldestFirst ShellReturns Termination
CHECK_DEADLOCK FALSE
