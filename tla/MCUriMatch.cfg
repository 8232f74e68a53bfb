SPECIFICATION Spec
CONSTANTS
  MaxParams = 2
  MaxKeyLen = 3
  Questions = {"match", "params", "text"}
INVARIANTS MatchIsGlob WildCardIsSegment ParamsArePairs EncodedPairSurvives QueryDoesNotReachPath
CHECK_DEADLOCK FALSE
