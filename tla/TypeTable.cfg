SPECIFICATION Spec
CONSTANTS
    NPrim = 1
    IntPrim = 1
    Lengths = {1, 2}
    Labels = {1}
    MaxArity = 1
    MaxTypes = 5
INVARIANTS
    TypeOK
    Canonical
    WellBuilt
    AnswerFits
PROPERTY
    BindingsKept
