CONSTANTS
  NumInodes = 4
  InodesPerGroup = 2
  MaxLevel = 2
  hard_child_limit = 2
SPECIFICATION Spec
INVARIANT AllJobsFinished
\* The scan ends in pass 4.
CHECK_DEADLOCK FALSE
