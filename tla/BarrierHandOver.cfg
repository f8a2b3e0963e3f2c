\* A producer and a consumer that hand over a buffer with two barriers.
CONSTANTS
  Ctas = {0}
  Warps = {0, 1, 2}
  Barriers = {0, 1}
  WarpsOf <- MCWarpsOf
  Programs <- HandOver
  Grid = 1
SPECIFICATION BarrierSpec
INVARIANTS
  HeldUntilComplete
