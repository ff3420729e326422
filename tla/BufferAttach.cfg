\* Two generators and the supervisor attach at any time, use the buffer and leave.
SPECIFICATION Spec
CONSTANTS
  g1 = g1
  g2 = g2
  Generators = {g1, g2}
  Supervisor = sup
  Sizes = {0, 1}
  BufSize = 2
  MaxObjects = 2
  Mortal = {sup}
  Faults = {"attach", "ftruncate"}
SYMMETRY Symmetry
INVARIANTS IInv NamesOwned UndisturbedSound
CHECK_DEADLOCK FALSE
