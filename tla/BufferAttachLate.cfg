\* No solution is empty; a generator attaches while the buffer is in use.
SPECIFICATION Spec
CONSTANTS
  g1 = g1
  g2 = g2
  Generators = {g1, g2}
  Supervisor = sup
  Sizes = {1}
  BufSize = 2
  MaxObjects = 1
  Mortal = {}
  Faults = {}
INVARIANT ConclusionJustified
CHECK_DEADLOCK FALSE
