\* Bodies of six instructions with branches and exits, of five with breaks
\* and calls.
SPECIFICATION Spec
CONSTANTS
  BranchSize = 6
  BreakSize = 5
  Shapes <- MCShapes
INVARIANT ReconvergesAtPostdominator
PROPERTY Settles
CHECK_DEADLOCK FALSE
