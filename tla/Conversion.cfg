SPECIFICATION Spec
CONSTANTS
    NPrim = 3
    IntPrim = 2
    Lengths = {2}
    Labels = {1}
    MaxArity = 0
    MaxTypes = 7
    PrimList <- ThreePrims
    Impl <- Impls
INVARIANTS
    AcceptedGenerates
    CastCoversImplicit
    CommonTypeFits
