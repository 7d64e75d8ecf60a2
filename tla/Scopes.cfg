SPECIFICATION Spec
CONSTANTS
    Ids = {"x", "y"}
    Params <- ParamLists
    MaxBlocks = 3
    MaxVars = 3
    MaxUses = 2
INVARIANTS
    ScopesOK
    AlwaysFound
    ReportedOnce
    ResolvesAlike
PROPERTY
    EntriesKept
