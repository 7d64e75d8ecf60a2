SPECIFICATION OpSpec
CONSTANTS
    NPrim = 3
    IntPrim = 1
    Lengths = {2}
    Labels = {}
    MaxArity = 0
    MaxTypes = 6
    PrimList <- ThreePrims
    Impl = {}
    Ops = {"Add", "Sub", "Mul", "And", "Eq", "AddEq", "Assign", "At", "Convert", "Neg", "Not", "Ref", "DeRef"}
INVARIANTS
    StoreFits
    ErrorsReported
    OperatorGenerates
