\* Small windows below a heap of 36 addresses.
CONSTANTS
  GLOBAL_HEAP_START = 80
  SHARED_MEM_SIZE_MAX = 3
  LOCAL_MEM_SIZE_MAX = 4
  MAX_STREAMING_MULTIPROCESSORS = 2
  MAX_THREAD_PER_SM = 4
  WordSize = 2
  Align = 4
  StaticStart = 0
  AddrRange = 198
  PtrRange = 82
  UintRange = 7
  Sizes = {0, 1, 9}
  HostPtrs = {h1}
  Machines <- MCMachines
  HeapLimit = 116
  MaxObjects = 2
  Values = {0, 1}
SPECIFICATION CopySpec
INVARIANTS
  ObjectsApart
  AddressesReach
CHECK_DEADLOCK FALSE
