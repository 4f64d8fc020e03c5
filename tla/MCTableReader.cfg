CONSTANTS
  num_groups = 5
  MAX_INODE_TABLE_PREREADED = 2
  INODE_TABLE_ROUNDROUBIN = 2
  Uninitialized = {}
  MaxWorkers = 1
SPECIFICATION Spec
INVARIANTS TableIsThere NoLostWake HandshakeWorks
PROPERTY Terminates
\* The scan ends.
CHECK_DEADLOCK FALSE
