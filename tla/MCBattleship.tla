---------------------------- MODULE MCBattleship ----------------------------
(***************************************************************************)
(* An instance of Battleship: a map of 4 times 4 cells, one ship of length *)
(* 2 and one of length 4.  parse_args sees all pairs of lines of two to    *)
(* four cells.  In one legal layout the client may shoot at every cell of  *)
(* the ships and at one of water, in the others only at the same cell      *)
(* again and again.                                                        *)
(***************************************************************************)
EXTENDS Battleship

MCShipCnt == [n \in 2 .. 4 |-> IF n = 3 THEN 0 ELSE 1]

\* Lines from the upper left to the lower right.
MCArgs ==
  {<<c, d>> \in Cells \X Cells :
     (c[1] = d[1] \/ c[2] = d[2]) /\ c[1] + c[2] < d[1] + d[2]}
MCLayouts == {<<a, b>> : a, b \in MCArgs}

MCLayout == <<<<<<0, 0>>, <<0, 1>>>>, <<<<0, 3>>, <<3, 3>>>>>>

Water(l) == CHOOSE c \in Cells : c \notin CellsOf(l[1]) \cup CellsOf(l[2])
MCTargets(l) ==
  LET ships == CellsOf(l[1]) \cup CellsOf(l[2])
  IN  IF l = MCLayout THEN ships \cup {Water(l)} ELSE {l[1][1]}

\* A wrong parity, a coordinate outside the map, and two shots.
MCGarbage(l) == {{0}, {5, 15}, Request(l[1][1]), Request(Water(l))}
=============================================================================
