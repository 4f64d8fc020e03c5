CONSTANTS
  Blocks = {b1, b2}
  Readers = {r1}
  Writers = {w1}
  MAX_BLOCKS_CACHED = 1
  MaxWrites = 1
  MaxAccesses = 2
  RaidReaders = {r2, r3}
SPECIFICATION StorageSpec
SYMMETRY Symmetric
INVARIANTS FilesAgree OldDataServes StartsAgain RolesHeld ReadsRight
\* The cache dies where it goes through index -1; a refused array, a finished
\* access and a dead program stay as they are.
CHECK_DEADLOCK FALSE
