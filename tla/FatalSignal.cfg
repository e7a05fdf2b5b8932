CONSTANTS
    f1 = f1
    f2 = f2
    f3 = f3
    NoJob = NoJob
    Jobs <- TwoJobs
    MaxLines = 3
SPECIFICATION Spec
INVARIANT IInv
INVARIANT Awaited
INVARIANT NoneAbandoned
PROPERTY HandlerEnds
CHECK_DEADLOCK FALSE
