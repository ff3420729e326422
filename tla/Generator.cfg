\* Small graphs on vertices of seven numbers, at most two deletions.
SPECIFICATION FairSpec
CONSTANTS
  Arguments <- MCArguments
  VidMod = 7
  MaxSolution = 2
INVARIANTS IInv Partition SubmittedSound
PROPERTY ColoringEnds
CHECK_DEADLOCK FALSE
