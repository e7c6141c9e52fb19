CONSTANT
    Jobs <- PassJobs
CHECK_DEADLOCK FALSE
SPECIFICATION Spec
INVARIANTS
    RoundTrip
    GreedyStreamsFit
