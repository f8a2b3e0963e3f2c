SPECIFICATION FairSpec
CONSTANTS
  None = None
  Machines <- MCMachines
  Instructions <- MCInstructions
INVARIANTS
  RegistersSeen
  PathsAgree
  OnTime
PROPERTY Retires
