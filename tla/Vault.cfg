\* Two processes of one user and one of another; all faults.
SPECIFICATION Spec
CONSTANTS
  p1 = p1
  p2 = p2
  p3 = p3
  u1 = u1
  u2 = u2
  k1 = k1
  k2 = k2
  Procs = {p1, p2, p3}
  Uid <- MCUid
  Ops <- MCOps
  Vaults = {0}
  MaxSizes = {2}
  MaxPos = 3
  Counts = {1}
  Keys = {k1, k2}
  OpenFlags <- MCOpenFlags
  Faults = {"signal", "kmalloc", "cdev_add", "copy"}
INVARIANTS IInv SizeBounded ReadsBack
PROPERTY AppendOnly
CHECK_DEADLOCK FALSE
