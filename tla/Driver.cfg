\* Two vaults, three processes of two users, all faults.
SPECIFICATION Spec
CONSTANTS
  p1 = p1
  p2 = p2
  p3 = p3
  root = root
  user = user
  Procs = {p1, p2, p3}
  Uid <- MCUid
  Admin = root
  v1 = v1
  v2 = v2
  Vaults = {v1, v2}
  Faults = {"busy", "nomem", "cdev_add"}
INVARIANTS CodeBehindFiles RefsCounted
PROPERTY FailedLoadUndone
CHECK_DEADLOCK FALSE
