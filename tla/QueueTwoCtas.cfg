\* Two CTA slots and three CTAs, loads with and without accesses through rings
\* that wrap, the L1 looked up at once. A failing assertion ends the program.
CONSTANTS
  Depth = 2
  Ctas = {c1, c2}
  Pairs = {p1}
  QueueIds = {q0}
  Program = 3
  Grid = 3
  AccessCounts = {0, 1}
  L1Latency = FALSE
SPECIFICATION Spec
INVARIANTS
  TokenLastsOneRound
CHECK_DEADLOCK FALSE
