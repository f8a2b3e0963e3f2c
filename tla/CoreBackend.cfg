\* Two schedulers with one collector each, three warps.
CONSTANTS
  Warps = {0, 1, 2}
  Schedulers = 2
  Ops <- OpsDef
  Programs <- Mixed
  SimdPorts <- SimdPortsDef
  BanksPerSched = 2
  UnitsPerSched = 1
  InPorts = 2
  OutPorts = 2
  WbWidth = 1
  MaxLatency = 4
  SmemLatency = 2
  L1Latency = 2
  L1Banks = 2
  NetCapacity = 2
  EjectionBuffer = 1
  ResponseQueue = 1
  Period <- Periods
  SubPartitions = 2
  PartitionSize = 2
  SectorChunk = 2
  ReplyBuffer = 1
SPECIFICATION FairSpec
INVARIANTS
  WritebackBooked
  OperandsRequestedOnce
  CountsExact
PROPERTIES
  Drains
