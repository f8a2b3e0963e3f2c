\* Two kernels of two by two CTAs; no checkpoint, a checkpoint in the second
\* kernel after five visits, one of CTAs that have ended, and one of CTA 0.
CONSTANTS
  Kernels = 2
  Grid <- MCGrid
  WarpSize = 2
  Options <- MCOptions
  MaxInsns = 3
SPECIFICATION FairSpec
INVARIANT CheckpointSplits
PROPERTIES
  ReleasedTogether
  KernelsEnd
