SPECIFICATION InstSpec
CONSTANTS
    NPrim = 5
    IntPrim = 3
    Lengths = {1}
    Labels = {1}
    MaxArity = 0
    MaxTypes = 8
    PrimList <- FivePrims
    Impl = {}
    IntBits = {1, 33}
    DoubleBits = {24, 53}
    Strings <- SomeStrings
    Characters <- OneUnit
INVARIANTS
    DeclarationGenerates
    ValuesKept
