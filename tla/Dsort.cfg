SPECIFICATION FairSpec
CONSTANTS
  Lines    <- MCLines
  Rank     <- MCRank
  Outputs  <- MCOutputs
  Capacity = 4
  Faults   = {"pipe", "fork", "exec", "status", "signal"}
INVARIANT OutputCorrect
PROPERTIES EndsIfFits ChildrenEnd
CHECK_DEADLOCK FALSE
