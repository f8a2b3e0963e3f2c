\* One CTA slot used twice, four loads through a ring of two slots.
CONSTANTS
  Depth = 2
  Ctas = {c1}
  Pairs = {p1}
  QueueIds = {q0}
  Program = 4
  Grid = 2
  AccessCounts = {1, 2}
  L1Latency = TRUE
SPECIFICATION FairSpec
INVARIANTS
  TokensOwned
  PendingMatchesAccesses
  CompletesOnce
PROPERTIES
  EraseIsClean
  ImplementsFifo
  Terminates
