CONSTANTS
    CAP = 2
    EFF = 4
    MAX_SUBS = 2
    Calls <- PassCalls
CHECK_DEADLOCK FALSE
SPECIFICATION Spec
INVARIANTS
    OutputComplete
    ScratchDisjoint
