\* Two slots, no faults except the signals that end the supervisor: liveness.
SPECIFICATION FairSpec
CONSTANTS
  g1 = g1
  g2 = g2
  g3 = g3
  Generators = {g1, g2, g3}
  Supervisor = sup
  Solutions = {0, 1}
  SizeOf <- MCSizeOf
  NoSolution = none
  BufSize = 2
  Faults = {}
PROPERTIES ReadsEverySolution EmptyEndsSupervisor ShutdownPropagates SpaceServesWriters
CHECK_DEADLOCK FALSE
