CONSTANTS
    f1 = f1
    f2 = f2
    f3 = f3
    f4 = f4
    Files <- FourFiles
    MaxMtime = 1
    Makefiles <- FailingColon
SPECIFICATION Spec
PROPERTY Ready
CHECK_DEADLOCK FALSE
