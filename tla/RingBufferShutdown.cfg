\* The supervisor is interrupted while the buffer is full.
SPECIFICATION FairSpec
CONSTANTS
  g1 = g1
  g2 = g2
  Generators = {g1, g2}
  Supervisor = sup
  Solutions = {0, 1}
  SizeOf <- MCSizeOf
  NoSolution = none
  BufSize = 2
  Faults = {}
PROPERTY SupervisorEndsAll
CHECK_DEADLOCK FALSE
