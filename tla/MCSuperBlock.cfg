CONSTANTS
  U32 = 1048576
  FileSystems <- MCFileSystems
  Tables <- MCTables
SPECIFICATION MCSpec
INVARIANTS TableRight DifferencesReported NumbersFit InodesRight MarksRight
\* The passes end.
CHECK_DEADLOCK FALSE
