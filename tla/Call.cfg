SPECIFICATION OpSpec
CONSTANTS
    NPrim = 2
    IntPrim = 1
    Lengths = {2}
    Labels = {}
    MaxArity = 1
    MaxTypes = 5
    PrimList <- BoolAndUint
    Impl = {}
    Ops = {"Call"}
INVARIANTS
    CallGenerates
