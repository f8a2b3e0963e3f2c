\* Three CTAs on two slots, warps that sync, arrive, reduce and leave early.
CONSTANTS
  Ctas = {0, 1}
  Warps = {0, 1, 2, 3, 4, 5}
  Barriers = {0, 1}
  WarpsOf <- MCWarpsOf
  Programs <- MCPrograms
  Grid = 3
SPECIFICATION BarrierFairSpec
INVARIANTS
  TypeOK
  HeldUntilComplete
  NobodyLeftBehind
  CleanDeallocation
PROPERTIES
  Terminates
