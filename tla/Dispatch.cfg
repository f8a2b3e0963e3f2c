\* Two cores, bound to one kernel at a time or shared by several.
CONSTANTS
  Kernels <- KernelsDef
  Threads <- ThreadsDef
  SharedMem <- SharedMemDef
  Regs <- RegsDef
  Blocks <- BlocksDef
  Preference <- PreferenceDef
  WarpSize = 2
  CoreThreads = 12
  CoreRegs = 50
  CoreCtas = 2
  NumCores = 2
  ProducerWarps = 0
  WordsPerLane = 0
  QueuesPerWarp = 1
  ShmemOptions = {0, 8, 16, 48}
  UnifiedSize = 64
  MaxAssoc = 8
  Options <- BothModes
  Garbage = {6}
  Slots = 2
  Clusters = 2
  PerCluster = 1
  Asked = {"a"}
SPECIFICATION FairSpec
INVARIANTS
  CoresShareSafely
  ResourcesAccounted
  KernelsServedOnce
PROPERTIES
  AllReported
