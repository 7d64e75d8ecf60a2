SPECIFICATION Spec
CONSTANTS
  Names = {"main", "a", "puts"}
  Builtins <- OneBuiltin
  Types = {"S1", "S2"}
  Text <- SameText
  Inner = {"S2"}
  Traits = {"T"}
  Funs = {"f", "g"}
  Lists <- ShortLists
  MaxDecl = 3
  MaxDepth = 2
  MaxWork = 6
INVARIANTS
  DeclarationsMeet
  TableFilled
  VariablesInitialised
CHECK_DEADLOCK FALSE
