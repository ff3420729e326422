\* Three generators, two slots, all faults: safety of every interleaving.
SPECIFICATION Spec
CONSTANTS
  g1 = g1
  g2 = g2
  g3 = g3
  Generators = {g1, g2, g3}
  Supervisor = sup
  Solutions = {0, 1}
  SizeOf <- MCSizeOf
  NoSolution = none
  BufSize = 2
  Faults = {"eintr", "wait", "post", "kill"}
SYMMETRY Symmetry
INVARIANTS IInv MutualExclusion NoOverwrite NoSlotLeak
PROPERTY ImplementsQueue
CHECK_DEADLOCK FALSE
