SPECIFICATION OpSpec
CONSTANTS
    NPrim = 12
    IntPrim = 5
    Lengths = {2}
    Labels = {}
    MaxArity = 0
    MaxTypes = 13
    PrimList <- AllPrims
    Impl = {}
    Ops = {"Add", "Mod", "And", "Eq", "AddEq", "Neg", "Not", "Pos", "Div", "Lt"}
INVARIANTS
    NodeOK
    ScanFindsLeast
    NoSilentTie
    ChosenFits
    PrimsOrdered
