CONSTANT
    Jobs <- ChainJobs
CHECK_DEADLOCK FALSE
SPECIFICATION Spec
INVARIANT StreamsFit
