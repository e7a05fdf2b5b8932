CONSTANTS
    f1 = f1
    f2 = f2
    f3 = f3
    NoJob = NoJob
    Jobs <- TwoJobs
    MaxLines = 2
SPECIFICATION Spec
PROPERTY HandlerAlwaysEnds
CHECK_DEADLOCK FALSE
