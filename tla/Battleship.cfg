SPECIFICATION Spec
CONSTANTS
  Size      = 4
  MinLen    = 2
  MaxLen    = 4
  ShipCnt   <- MCShipCnt
  MaxRounds = 7
  Layouts   <- MCLayouts
  Targets   <- MCTargets
  Garbage   <- MCGarbage
  Faults    = {"flip", "kill_server", "kill_client"}
INVARIANTS LayoutChecked CountersAgree FlipNoticed VerdictsAgree
PROPERTY GameEnds
CHECK_DEADLOCK FALSE
