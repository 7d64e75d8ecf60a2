SPECIFICATION Spec
CONSTANTS
    Tokens <- ThreeTokens
    NLines = 2
    MaxRuns = 2
    MaxErrors = 2
INVARIANTS
    OutcomeTold
    ErrorsShown
PROPERTY
    Compiles
