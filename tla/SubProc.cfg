SPECIFICATION SubProcSpec
CONSTANTS
  p1 = p1
  p2 = p2
  p3 = p3
  p4 = p4
  Proc <- FourCommands
  MAXIMUM_WAIT_OBJECTS = 4
INVARIANTS SubProcTypeOK FakeExitsCounted
PROPERTIES WaitsForAny
CHECK_DEADLOCK FALSE
