SPECIFICATION Spec
CONSTANTS
    Generics = {"Box", "List"}
    Plain = {"s1", "s2", "u"}
    Label <- Names
    Leaves = {"", "int", "void", "trait", "s1", "s2", "u"}
    Void = "void"
    Trait = "trait"
    Programs <- Listed
    SubLimit = 2
    MaxDecl = 3
    MaxStructs = 26
INVARIANTS
    GenericsOK
    DepthRestored
    RegisteredWhole
    FailureReported
    SizesFinite
    FieldsSubstituted
PROPERTY
    Answered
