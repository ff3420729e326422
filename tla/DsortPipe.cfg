SPECIFICATION FairSpec
CONSTANTS
  Lines    <- MCLines
  Rank     <- MCRank
  Outputs  <- MCOutputs
  Capacity = 4
  Faults   = {}
PROPERTY EndsLikeScript
CHECK_DEADLOCK FALSE
