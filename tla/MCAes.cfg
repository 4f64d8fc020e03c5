CONSTANTS
  KeyWords = {4, 6, 8}
  Patterns = {"zeros", "counts"}
SPECIFICATION Spec
INVARIANT IsRijndael
CHECK_DEADLOCK FALSE
