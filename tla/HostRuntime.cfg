\* Two created streams and one event, two kernel calls, the second of which
\* is beyond the checkpoint, three operations.
SPECIFICATION FairSpec
CONSTANTS
  f = f
  g = g
  e1 = e1
  Functions = {f, g}
  BinaryOf <- MCBinaryOf
  FormalsOf <- MCFormals
  Sites <- MCSites
  NStreams = 2
  Events = {e1}
  ResumeKernel = 0
  CheckpointKernel = 1
  MaxCalls = 2
  MaxOps = 3
  MaxNesting = 2
INVARIANT LaunchesOwnConfiguration
PROPERTIES WaitsForAll LoadedOnce CallsReturn
CHECK_DEADLOCK FALSE
