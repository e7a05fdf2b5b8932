CONSTANTS
    f1 = f1
    f2 = f2
    f3 = f3
    f4 = f4
    Files <- FourFiles
    MaxMtime = 2
    Makefiles <- TestMakefiles
SPECIFICATION Spec
INVARIANT TypeOK
INVARIANT FailureReachesTheGoal
INVARIANT NothingForgotten
INVARIANT UpToDate
PROPERTY Ready
PROPERTY StartedOnce
PROPERTY Ends
CHECK_DEADLOCK FALSE
