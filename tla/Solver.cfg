SPECIFICATION Spec
CONSTANTS
  Size      = 4
  MinLen    = 2
  MaxLen    = 3
  ShipCnt   <- MCShipCnt
  MaxRounds = 14
  Layouts   <- MCLayouts
  Behind    <- MCBehind
INVARIANT TallFleetJudged
PROPERTIES ShotsFresh HuntsAround
CHECK_DEADLOCK FALSE
