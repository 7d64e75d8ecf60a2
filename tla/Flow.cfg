SPECIFICATION Spec
CONSTANT
    MaxStmts = 4
INVARIANTS
    CodeVerifies
    LoopsMirrored
    ReachesAlike
