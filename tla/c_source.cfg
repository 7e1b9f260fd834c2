SPECIFICATION Spec
CONSTANTS
  Refused = Refused
  MaxLines = 6
  MaxExpression = 7
  MaxTokens = 8
CHECK_DEADLOCK FALSE
INVARIANTS MaskExact RefusedExact BranchExact TruthExact ScopeExact
