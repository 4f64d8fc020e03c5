SPECIFICATION AnySpec
CONSTANTS
  NumMirrors = 3
  MirrorSize = 2
  MaxDecay = 1
  MaxDrift = 2
  BlindSize = 5
  BlindChunk = 3
  DumpSize = 4
  DumpChunk = 3
  NumCompared = 3
  CompareSize = 3
  CompareChunk = 3
  Contents = {"zero", "a"}
  MayFail = {2}
  LoopSize = 3
  LoopThreads = {"t1", "t2"}
  MaxLoads = 4
  MaxArgs = 4
  NumParts = 3
  PeSize = 2
  PeCount = 3
  LvAccess = 4
  CryptSize = 4
  CipherLen = 2
  KeyWords = {4, 6, 8}
  Patterns = {"zeros", "counts", "tail", "ones"}
  AvlKeys = 8
  RcTypes = {"t1", "t2", "t3"}
  MaxTrees = 2
  RcChunk = 2
INVARIANTS AccessesRight ScansRight RegistryRight LibrariesRight
PROPERTIES EveryCallReturns
CHECK_DEADLOCK FALSE
