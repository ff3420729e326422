------------------------------ MODULE MCSolver ------------------------------
(***************************************************************************)
(* An instance of Solver: a map of 4 times 4 with a ship of two cells and  *)
(* one of three.                                                           *)
(***************************************************************************)
EXTENDS Solver

MCShipCnt == [n \in 2 .. 3 |-> 1]

\* The ships from (r, c) on, n cells down or to the right.
Vertical(r, c, n)   == <<<<r, c>>, <<r + n - 1, c>>>>
Horizontal(r, c, n) == <<<<r, c>>, <<r, c + n - 1>>>>

\* Two fleets that get_ship_at finds, on the edges and away from them; a ship
\* across; a ship in the last row.
MCLayouts ==
  {<<Vertical(1, 1, 2), Vertical(0, 3, 3)>>, <<Vertical(0, 0, 2), Vertical(0, 2, 3)>>,
   <<Horizontal(2, 0, 2), Vertical(0, 3, 3)>>, <<Vertical(2, 0, 2), Vertical(1, 2, 3)>>}

\* Only below a ship in the last row the solver looks behind the array.
MCBehind(l) ==
  IF \E s \in DOMAIN l : End(l[s])[1] = Size - 1 THEN {{}, {Size * Size + Begin(l[1])[2]}} ELSE {{}}
=============================================================================
