--------------------------- MODULE MCCtaBarriers ---------------------------
(* Programs for TLC. A CTA has three warps; what a warp runs depends on its *)
(* position in the CTA only.                                                *)
EXTENDS CtaBarriers

Position(w) == w % 3
MCWarpsOf   == [c \in Ctas |-> {3 * c, 3 * c + 1, 3 * c + 2}]

Sync(b, n)   == [type |-> "SYNC", bar |-> b, count |-> n]
Arrive(b, n) == [type |-> "ARRIVE", bar |-> b, count |-> n]
Red(b)       == [type |-> "RED", bar |-> b, count |-> All]

\* Programs as triples: the parts of the three warps.
ByPosition(T) == {[w \in Warps |-> t[Position(w) + 1]] : t \in T}

\* __syncthreads in a loop, a warp that leaves early, two warps that meet
\* at a counted barrier before all meet, warps that meet in two groups, and
\* a warp that only announces itself.
SyncTriples == {
  <<<<Sync(0, All), Sync(0, All)>>, <<Sync(0, All), Sync(0, All)>>, <<Sync(0, All), Sync(0, All)>>>>,
  <<<<Sync(0, All), Red(1)>>, <<Sync(0, All), Red(1)>>, <<Sync(0, All)>>>>,
  <<<<Sync(0, 2), Sync(1, All)>>, <<Sync(0, 2), Sync(1, All)>>, <<Sync(1, All)>>>>,
  <<<<Sync(0, 2), Sync(0, 2)>>, <<Sync(0, 2), Sync(0, 2)>>, <<>>>>}
ArriveTriples == {
  <<<<Sync(0, 3)>>, <<Sync(0, 3)>>, <<Arrive(0, 3)>>>>}
MCPrograms == ByPosition(SyncTriples \cup ArriveTriples)

\* The hand-over of a buffer with two named barriers: the producer says it
\* has filled the buffer and waits until it is empty.
HandOver == ByPosition({
  <<<<Arrive(0, 2), Sync(1, 2), Arrive(0, 2), Sync(1, 2)>>,
    <<Sync(0, 2), Arrive(1, 2), Sync(0, 2), Arrive(1, 2)>>, <<>>>>})
=============================================================================
