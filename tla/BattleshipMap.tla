---------------------------- MODULE BattleshipMap ----------------------------
(***************************************************************************)
(* The map of exercise 1B and the ships on it, as map.c and ship.c have    *)
(* them, and what the rules demand of a layout.  Battleship and Solver     *)
(* build on it.                                                            *)
(***************************************************************************)
EXTENDS Integers, Sequences, FiniteSets

CONSTANTS
  Size,     \* MAP_SIZE
  MinLen,   \* MIN_SHIP_LEN
  MaxLen,   \* MAX_SHIP_LEN
  ShipCnt   \* ShipCnt[n]: the ships of length n in a game, SHIP_CNT_LEN2 ...

ASSUME MapAssumption ==
  /\ Size \in 1 .. 32
  /\ MinLen \in Nat /\ MaxLen \in Nat /\ 1 < MinLen /\ MinLen <= MaxLen
  /\ ShipCnt \in [MinLen .. MaxLen -> 0 .. 255]

Cells == (0 .. Size - 1) \X (0 .. Size - 1)   \* <<row, col>>

CheckCoordinate(c) == c \in Cells

Least(a, b)    == IF a < b THEN a ELSE b
Greatest(a, b) == IF a > b THEN a ELSE b

\* parse_coordinates, for arguments inside the map.
Begin(arg)  == <<Least(arg[1][1], arg[2][1]), Least(arg[1][2], arg[2][2])>>
End(arg)    == <<Greatest(arg[1][1], arg[2][1]), Greatest(arg[1][2], arg[2][2])>>
Length(arg) == Greatest(End(arg)[1] - Begin(arg)[1], End(arg)[2] - Begin(arg)[2]) + 1

IsShip(arg) ==
  /\ Begin(arg)[1] = End(arg)[1] \/ Begin(arg)[2] = End(arg)[2]
  /\ Length(arg) \in MinLen .. MaxLen

CellsOf(arg) == (Begin(arg)[1] .. End(arg)[1]) \X (Begin(arg)[2] .. End(arg)[2])

\* The field after add_ship of every ship; a later ship covers an earlier.
NoShip == 0
ShipAt(l, c) ==
  LET here == {s \in DOMAIN l : c \in CellsOf(l[s])}
  IN  IF here = {} THEN NoShip ELSE CHOOSE s \in here : \A t \in here : t <= s

-----------------------------------------------------------------------------
(* The rules: the ships of each length are all there and no two of them    *)
(* overlap or touch, not even at a corner.                                 *)

Touch(a, b) ==
  \E c \in CellsOf(a), d \in CellsOf(b) : c[1] - d[1] \in -1 .. 1 /\ c[2] - d[2] \in -1 .. 1

Legal(l) ==
  /\ \A s \in DOMAIN l : IsShip(l[s])
  /\ \A n \in MinLen .. MaxLen : Cardinality({s \in DOMAIN l : Length(l[s]) = n}) = ShipCnt[n]
  /\ \A s, t \in DOMAIN l : s # t => ~Touch(l[s], l[t])
=============================================================================
