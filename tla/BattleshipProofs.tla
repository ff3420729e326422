-------------------------- MODULE BattleshipProofs --------------------------
(***************************************************************************)
(* Theorems about Battleship, for maps of up to 32 times 32 cells, fleets  *)
(* of ships of up to four cells, all layouts, shots, faults and rounds:    *)
(* parse_args accepts the legal layouts, the counters of the server agree  *)
(* with the shots, a flipped bit is noticed, and a game without faults in  *)
(* which the solver survives ends with one verdict.                        *)
(***************************************************************************)
EXTENDS Battleship, TLAPS, NaturalsInduction, WellFoundedInduction, FiniteSetTheorems,
        SequenceTheorems

-----------------------------------------------------------------------------
(* Ships on the map.                                                       *)

Args == Cells \X Cells

\* Side by side, or at a corner, or the same.
Near(c, d) == c[1] - d[1] \in -1 .. 1 /\ c[2] - d[2] \in -1 .. 1

\* The ends of a line lie on the map, the first before the second.
LEMMA EndsOfArg ==
  ASSUME NEW arg \in Args
  PROVE  /\ Begin(arg) \in Cells /\ End(arg) \in Cells
         /\ Begin(arg)[1] <= End(arg)[1] /\ Begin(arg)[2] <= End(arg)[2]
<1>1. Size \in Nat
  BY MapAssumption
<1>2. /\ arg[1][1] \in 0 .. Size - 1 /\ arg[1][2] \in 0 .. Size - 1
      /\ arg[2][1] \in 0 .. Size - 1 /\ arg[2][2] \in 0 .. Size - 1
  BY DEF Args, Cells
<1>3. /\ Least(arg[1][1], arg[2][1]) \in 0 .. Size - 1
      /\ Least(arg[1][2], arg[2][2]) \in 0 .. Size - 1
      /\ Greatest(arg[1][1], arg[2][1]) \in 0 .. Size - 1
      /\ Greatest(arg[1][2], arg[2][2]) \in 0 .. Size - 1
      /\ Least(arg[1][1], arg[2][1]) <= Greatest(arg[1][1], arg[2][1])
      /\ Least(arg[1][2], arg[2][2]) <= Greatest(arg[1][2], arg[2][2])
  BY <1>1, <1>2 DEF Least, Greatest
<1> QED  BY <1>3 DEF Begin, End, Cells

\* The cells between them.
LEMMA CellsOfArg ==
  ASSUME NEW arg \in Args
  PROVE  /\ CellsOf(arg) \subseteq Cells /\ IsFiniteSet(CellsOf(arg))
         /\ Begin(arg) \in CellsOf(arg) /\ End(arg) \in CellsOf(arg)
<1> DEFINE b == Begin(arg)
           e == End(arg)
<1>1. /\ b \in Cells /\ e \in Cells /\ b[1] <= e[1] /\ b[2] <= e[2]
  BY EndsOfArg
<1>2. CellsOf(arg) = (b[1] .. e[1]) \X (b[2] .. e[2])
  BY DEF CellsOf
<1> HIDE DEF b, e
<1>3. /\ b[1] \in 0 .. Size - 1 /\ b[2] \in 0 .. Size - 1 /\ b = <<b[1], b[2]>>
      /\ e[1] \in 0 .. Size - 1 /\ e[2] \in 0 .. Size - 1 /\ e = <<e[1], e[2]>>
      /\ Size \in Nat
  BY <1>1, MapAssumption DEF Cells
<1>4. IsFiniteSet(b[1] .. e[1]) /\ IsFiniteSet(b[2] .. e[2])
  BY <1>3, FS_Interval
<1>5. IsFiniteSet(CellsOf(arg))
  BY <1>2, <1>4, FS_Product
<1>6. CellsOf(arg) \subseteq Cells
  BY <1>2, <1>3 DEF Cells
<1>7. b \in CellsOf(arg) /\ e \in CellsOf(arg)
  BY <1>1, <1>2, <1>3
<1> QED  BY <1>5, <1>6, <1>7 DEF b, e

\* A ship has as many cells as its length says.
LEMMA ShipCells ==
  ASSUME NEW arg \in Args, IsShip(arg)
  PROVE  Cardinality(CellsOf(arg)) = Length(arg) /\ Length(arg) \in Nat \ {0}
<1> DEFINE b == Begin(arg)
           e == End(arg)
<1>1. /\ b \in Cells /\ e \in Cells /\ b[1] <= e[1] /\ b[2] <= e[2]
  BY EndsOfArg
<1>2. CellsOf(arg) = (b[1] .. e[1]) \X (b[2] .. e[2])
  BY DEF CellsOf
<1>3. /\ b[1] = e[1] \/ b[2] = e[2]
      /\ Length(arg) = Greatest(e[1] - b[1], e[2] - b[2]) + 1
  BY DEF IsShip, Length
<1> HIDE DEF b, e
<1>4. b[1] \in Int /\ b[2] \in Int /\ e[1] \in Int /\ e[2] \in Int
  BY <1>1, MapAssumption DEF Cells
<1> DEFINE R == b[1] .. e[1]
           C == b[2] .. e[2]
<1>5. /\ IsFiniteSet(R) /\ Cardinality(R) = e[1] - b[1] + 1
      /\ IsFiniteSet(C) /\ Cardinality(C) = e[2] - b[2] + 1
  <2>1. IsFiniteSet(R) /\ Cardinality(R) = IF b[1] > e[1] THEN 0 ELSE e[1] - b[1] + 1
    BY <1>4, FS_Interval
  <2>2. IsFiniteSet(C) /\ Cardinality(C) = IF b[2] > e[2] THEN 0 ELSE e[2] - b[2] + 1
    BY <1>4, FS_Interval
  <2> QED  BY <1>1, <1>4, <2>1, <2>2
<1>6. Cardinality(R \X C) = Cardinality(R) * Cardinality(C)
  BY <1>5, FS_Product
<1>7. CASE b[1] = e[1]
  <2>1. Cardinality(R) = 1 /\ Cardinality(C) \in Int
    BY <1>4, <1>5, <1>7
  <2>2. Cardinality(R \X C) = Cardinality(C)
    BY <1>6, <2>1
  <2> QED  BY <1>1, <1>2, <1>3, <1>4, <1>5, <1>7, <2>2 DEF Greatest
<1>8. CASE b[2] = e[2]
  <2>1. Cardinality(C) = 1 /\ Cardinality(R) \in Int
    BY <1>4, <1>5, <1>8
  <2>2. Cardinality(R \X C) = Cardinality(R)
    BY <1>6, <2>1
  <2> QED  BY <1>1, <1>2, <1>3, <1>4, <1>5, <1>8, <2>2 DEF Greatest
<1> QED  BY <1>3, <1>7, <1>8

\* The neighbours of a cell are the cells near it.
LEMMA NeighboursNear ==
  ASSUME NEW c \in Cells
  PROVE  Neighbours(c) = {d \in Cells : Near(c, d)}
<1>1. c[1] \in 0 .. Size - 1 /\ c[2] \in 0 .. Size - 1 /\ Size \in Nat
  BY MapAssumption DEF Cells
<1> DEFINE In(x, dx) == IF x + dx \in 0 .. Size - 1 THEN x + dx ELSE x
<1>2. Neighbours(c) = {<<In(c[1], v[1]), In(c[2], v[2])>> : v \in (-1 .. 1) \X (-1 .. 1)}
  BY DEF Neighbours
<1>3. ASSUME NEW x \in 0 .. Size - 1, NEW dx \in -1 .. 1
      PROVE  In(x, dx) \in 0 .. Size - 1 /\ x - In(x, dx) \in -1 .. 1
  BY <1>1
<1>4. ASSUME NEW x \in 0 .. Size - 1, NEW y \in 0 .. Size - 1, x - y \in -1 .. 1
      PROVE  y - x \in -1 .. 1 /\ In(x, y - x) = y
  BY <1>1, <1>4
<1> HIDE DEF In
<1>5. ASSUME NEW d \in Neighbours(c) PROVE d \in Cells /\ Near(c, d)
  <2>1. PICK v \in (-1 .. 1) \X (-1 .. 1) : d = <<In(c[1], v[1]), In(c[2], v[2])>>
    BY <1>2
  <2>2. v[1] \in -1 .. 1 /\ v[2] \in -1 .. 1
    OBVIOUS
  <2> QED  BY <1>1, <1>3, <2>1, <2>2 DEF Near, Cells
<1>6. ASSUME NEW d \in Cells, Near(c, d) PROVE d \in Neighbours(c)
  <2>1. d[1] \in 0 .. Size - 1 /\ d[2] \in 0 .. Size - 1 /\ d = <<d[1], d[2]>>
    BY DEF Cells
  <2>2. /\ d[1] - c[1] \in -1 .. 1 /\ In(c[1], d[1] - c[1]) = d[1]
        /\ d[2] - c[2] \in -1 .. 1 /\ In(c[2], d[2] - c[2]) = d[2]
    BY <1>1, <1>4, <1>6, <2>1 DEF Near
  <2> DEFINE v == <<d[1] - c[1], d[2] - c[2]>>
  <2>3. v \in (-1 .. 1) \X (-1 .. 1) /\ d = <<In(c[1], v[1]), In(c[2], v[2])>>
    BY <2>1, <2>2
  <2> QED  BY <1>2, <2>3
<1> QED  BY <1>5, <1>6

\* What is near a cell of a ship is near one of its ends: no ship is longer
\* than four cells.
LEMMA EndsCover ==
  ASSUME NEW arg \in Args, IsShip(arg), NEW c \in CellsOf(arg), NEW d \in Cells, Near(c, d)
  PROVE  Near(Begin(arg), d) \/ Near(End(arg), d)
<1> DEFINE b == Begin(arg)
           e == End(arg)
<1>1. /\ b \in Cells /\ e \in Cells /\ b[1] <= e[1] /\ b[2] <= e[2]
  BY EndsOfArg
<1>2. c[1] \in b[1] .. e[1] /\ c[2] \in b[2] .. e[2]
  BY DEF CellsOf
<1>3. /\ b[1] = e[1] \/ b[2] = e[2]
      /\ Greatest(e[1] - b[1], e[2] - b[2]) + 1 \in MinLen .. MaxLen
  BY DEF IsShip, Length
<1> HIDE DEF b, e
<1>4. /\ b[1] \in Int /\ b[2] \in Int /\ e[1] \in Int /\ e[2] \in Int
      /\ d[1] \in Int /\ d[2] \in Int
  BY <1>1, MapAssumption DEF Cells
<1>5. MinLen \in Nat /\ MaxLen \in Nat /\ MaxLen <= 4
  BY MapAssumption, BattleshipAssumption
<1>6. e[1] - b[1] <= 3 /\ e[2] - b[2] <= 3
  BY <1>3, <1>4, <1>5 DEF Greatest
<1>7. CASE b[1] = e[1]
  BY <1>1, <1>2, <1>4, <1>6, <1>7 DEF Near, b, e
<1>8. CASE b[2] = e[2]
  BY <1>1, <1>2, <1>4, <1>6, <1>8 DEF Near, b, e
<1> QED  BY <1>3, <1>7, <1>8

\* A bounded set of natural numbers has a greatest element: its mirror image
\* has a least.
LEMMA GreatestElement ==
  ASSUME NEW n \in Nat, NEW T \in SUBSET (1 .. n), T # {}
  PROVE  \E m \in T : \A t \in T : t <= m
<1> DEFINE Mirror == {d \in Nat : n - d \in T}
<1>1. Mirror \subseteq Nat /\ Mirror # {}
  <2>1. PICK t \in T : TRUE
    OBVIOUS
  <2>2. n - t \in Nat /\ n - (n - t) = t
    BY <2>1
  <2> QED  BY <2>1, <2>2
<1>2. PICK d \in Mirror : \A x \in Mirror : <<x, d>> \notin OpToRel(<, Nat)
  BY <1>1, NatLessThanWellFounded, WFMin, Zenon
<1>3. \A x \in Mirror : ~(x < d)
  BY <1>1, <1>2, Zenon DEF OpToRel
<1>4. ASSUME NEW t \in T PROVE t <= n - d
  <2>1. n - t \in Mirror
    <3>1. n - t \in Nat /\ n - (n - t) = t
      OBVIOUS
    <3> QED  BY <3>1
  <2>2. ~(n - t < d)
    BY <1>3, <2>1
  <2>3. t \in Int /\ d \in Nat
    <3>1. t \in 1 .. n
      OBVIOUS
    <3> QED  BY <1>1, <3>1
  <2> QED  BY <2>2, <2>3
<1>5. n - d \in T
  BY <1>2
<1> QED  BY <1>4, <1>5

\* The layouts parse_args may see.
Lay == Seq(Args)

\* The field of a cell holds the last ship that covers it.
LEMMA ShipAtLast ==
  ASSUME NEW l \in Lay, NEW c
  PROVE  /\ \A s \in DOMAIN l : c \in CellsOf(l[s]) =>
              /\ ShipAt(l, c) \in DOMAIN l /\ s <= ShipAt(l, c)
              /\ c \in CellsOf(l[ShipAt(l, c)])
         /\ ShipAt(l, c) # NoShip =>
              ShipAt(l, c) \in DOMAIN l /\ c \in CellsOf(l[ShipAt(l, c)])
<1> DEFINE here == {s \in DOMAIN l : c \in CellsOf(l[s])}
<1>1. CASE here = {}
  BY <1>1 DEF ShipAt
<1>2. CASE here # {}
  <2>1. DOMAIN l = 1 .. Len(l) /\ Len(l) \in Nat
    BY LenProperties DEF Lay
  <2>2. here \in SUBSET (1 .. Len(l))
    BY <2>1
  <2>3. \E s \in here : \A t \in here : t <= s
    BY <1>2, <2>1, <2>2, GreatestElement
  <2>4. ShipAt(l, c) = CHOOSE s \in here : \A t \in here : t <= s
    BY <1>2 DEF ShipAt
  <2>5. ShipAt(l, c) \in here /\ \A t \in here : t <= ShipAt(l, c)
    BY <2>3, <2>4
  <2> QED  BY <2>5
<1> QED  BY <1>1, <1>2

\* The types of a layout's ships.
LEMMA LayoutShips ==
  ASSUME NEW l \in Lay
  PROVE  /\ Len(l) \in Nat /\ DOMAIN l = 1 .. Len(l)
         /\ \A s \in DOMAIN l : l[s] \in Args /\ s \in Nat \ {NoShip}
BY LenProperties, ElementOfSeq DEF Lay, NoShip

\* In a layout that passes the checks, a ship near a cell of another one is
\* drawn over it there.
LEMMA TouchingCovers ==
  ASSUME NEW l \in Lay, Accepts(l), NEW s \in DOMAIN l, NEW t \in DOMAIN l,
         NEW c \in CellsOf(l[s]), NEW d \in CellsOf(l[t]), Near(c, d)
  PROVE  ShipAt(l, d) = s
<1>1. l[s] \in Args /\ l[t] \in Args /\ IsShip(l[s]) /\ t \in Nat \ {NoShip}
  BY LayoutShips DEF Accepts
<1>2. d \in Cells /\ Begin(l[s]) \in Cells /\ End(l[s]) \in Cells
  BY <1>1, CellsOfArg, EndsOfArg
<1>3. d \in Neighbours(Begin(l[s])) \cup Neighbours(End(l[s]))
  BY <1>1, <1>2, EndsCover, NeighboursNear
<1>4. ShipAt(l, d) \in {NoShip, s}
  BY <1>3 DEF Accepts, CheckShipTouch
<1>5. ShipAt(l, d) \in DOMAIN l
  BY ShipAtLast
<1> QED  BY <1>4, <1>5, LayoutShips

\* A cell is near itself.
LEMMA NearSelf ==
  ASSUME NEW c \in Cells, NEW d \in Cells
  PROVE  Near(c, c) /\ (Near(c, d) => Near(d, c))
<1>1. c[1] \in Int /\ c[2] \in Int /\ d[1] \in Int /\ d[2] \in Int
  BY MapAssumption DEF Cells
<1> QED  BY <1>1 DEF Near

(***************************************************************************)
(* check_ship_touch looks at the two ends of each ship only, and the       *)
(* layouts that pass are those in which no two ships overlap or touch.     *)
(***************************************************************************)
THEOREM AcceptsLegal ==
  ASSUME NEW l \in Lay
  PROVE  Accepts(l) <=> Legal(l)
<1>1. ASSUME Accepts(l) PROVE Legal(l)
  <2>1. ASSUME NEW s \in DOMAIN l, NEW t \in DOMAIN l, Touch(l[s], l[t]) PROVE s = t
    <3>1. PICK c \in CellsOf(l[s]), d \in CellsOf(l[t]) : Near(c, d)
      BY <2>1 DEF Touch, Near
    <3>2. c \in Cells /\ d \in Cells
      BY LayoutShips, CellsOfArg
    <3>3. ShipAt(l, d) = s
      BY <1>1, <3>1, TouchingCovers
    <3>4. d \in CellsOf(l[s])
      BY <3>3, ShipAtLast
    <3>5. ShipAt(l, d) = t
      BY <1>1, <3>2, <3>4, NearSelf, TouchingCovers
    <3> QED  BY <3>3, <3>5
  <2> QED  BY <1>1, <2>1 DEF Legal, Accepts, CheckShipCount
<1>2. ASSUME Legal(l) PROVE Accepts(l)
  <2>1. ASSUME NEW s \in DOMAIN l,
               NEW n \in Neighbours(Begin(l[s])) \cup Neighbours(End(l[s])),
               ShipAt(l, n) \notin {NoShip, s}
        PROVE  FALSE
    <3> DEFINE t == ShipAt(l, n)
    <3>1. t \in DOMAIN l /\ n \in CellsOf(l[t])
      BY <2>1, ShipAtLast
    <3>2. \E c \in CellsOf(l[s]) : Near(c, n)
      <4>1. l[s] \in Args
        BY LayoutShips
      <4>2. /\ Begin(l[s]) \in CellsOf(l[s]) /\ End(l[s]) \in CellsOf(l[s])
            /\ Begin(l[s]) \in Cells /\ End(l[s]) \in Cells
        BY <4>1, CellsOfArg, EndsOfArg
      <4> QED  BY <4>2, NeighboursNear
    <3>3. Touch(l[s], l[t])
      BY <3>1, <3>2 DEF Touch, Near
    <3> QED  BY <1>2, <2>1, <3>1, <3>3 DEF Legal
  <2>2. CheckShipTouch(l)
    BY <2>1 DEF CheckShipTouch
  <2> QED  BY <1>2, <2>2 DEF Legal, Accepts, CheckShipCount
<1> QED  BY <1>1, <1>2

\* So a cell belongs to one ship, the one in its field.
LEMMA OneShip ==
  ASSUME NEW l \in Lay, Accepts(l), NEW s \in DOMAIN l, NEW c \in CellsOf(l[s])
  PROVE  ShipAt(l, c) = s
<1>1. c \in Cells
  BY LayoutShips, CellsOfArg
<1> QED  BY <1>1, NearSelf, TouchingCovers

-----------------------------------------------------------------------------
(* Messages.                                                               *)

\* A number of six bits is known by its bits.
LEMMA BitsInjective ==
  ASSUME NEW n \in 0 .. 63, NEW m \in 0 .. 63, BitsOf(n) = BitsOf(m)
  PROVE  n = m
<1>1. 2 ^ 0 = 1 /\ 2 ^ 1 = 2 /\ 2 ^ 2 = 4 /\ 2 ^ 3 = 8 /\ 2 ^ 4 = 16 /\ 2 ^ 5 = 32
  OBVIOUS
<1>2. \A k \in 0 .. 5 : (n \div 2 ^ k) % 2 = 1 <=> (m \div 2 ^ k) % 2 = 1
  BY DEF BitsOf
<1>3. /\ n % 2 = 1 <=> m % 2 = 1
      /\ (n \div 2) % 2 = 1 <=> (m \div 2) % 2 = 1
      /\ (n \div 4) % 2 = 1 <=> (m \div 4) % 2 = 1
      /\ (n \div 8) % 2 = 1 <=> (m \div 8) % 2 = 1
      /\ (n \div 16) % 2 = 1 <=> (m \div 16) % 2 = 1
      /\ (n \div 32) % 2 = 1 <=> (m \div 32) % 2 = 1
  BY <1>1, <1>2
<1> QED  BY <1>3

LEMMA ValueOfBits ==
  ASSUME NEW n \in 0 .. 63
  PROVE  Value(BitsOf(n)) = n
BY BitsInjective DEF Value

\* The bit 5 is 32.
LEMMA HighBit ==
  ASSUME NEW n \in 0 .. 31
  PROVE  5 \notin BitsOf(n) /\ BitsOf(n) \cup {5} = BitsOf(n + 32)
<1>1. 2 ^ 0 = 1 /\ 2 ^ 1 = 2 /\ 2 ^ 2 = 4 /\ 2 ^ 3 = 8 /\ 2 ^ 4 = 16 /\ 2 ^ 5 = 32
  OBVIOUS
<1>2. /\ (n + 32) % 2 = n % 2
      /\ ((n + 32) \div 2) % 2 = (n \div 2) % 2
      /\ ((n + 32) \div 4) % 2 = (n \div 4) % 2
      /\ ((n + 32) \div 8) % 2 = (n \div 8) % 2
      /\ ((n + 32) \div 16) % 2 = (n \div 16) % 2
      /\ ((n + 32) \div 32) % 2 = 1 /\ (n \div 32) % 2 = 0
  OBVIOUS
<1>3. ASSUME NEW k \in 0 .. 4
      PROVE  (n \div 2 ^ k) % 2 = 1 <=> ((n + 32) \div 2 ^ k) % 2 = 1
  <2>1. CASE k = 0
    BY <1>1, <1>2, <2>1
  <2>2. CASE k = 1
    BY <1>1, <1>2, <2>2
  <2>3. CASE k = 2
    BY <1>1, <1>2, <2>3
  <2>4. CASE k = 3
    BY <1>1, <1>2, <2>4
  <2>5. CASE k = 4
    BY <1>1, <1>2, <2>5
  <2> QED  BY <2>1, <2>2, <2>3, <2>4, <2>5
<1>4. (n \div 2 ^ 5) % 2 # 1 /\ ((n + 32) \div 2 ^ 5) % 2 = 1
  BY <1>1, <1>2
<1>5. ASSUME NEW k PROVE k \in BitsOf(n) \cup {5} <=> k \in BitsOf(n + 32)
  <2>1. k \in 0 .. 5 <=> k \in 0 .. 4 \/ k = 5
    OBVIOUS
  <2> QED  BY <1>3, <1>4, <2>1 DEF BitsOf
<1>6. 5 \notin BitsOf(n)
  BY <1>4 DEF BitsOf
<1> QED  BY <1>5, <1>6

\* The positions of bits are finitely many.
LEMMA FiniteBits ==
  ASSUME NEW n \in Nat
  PROVE  IsFiniteSet(0 .. n)
BY FS_Interval

\* Moving bits up and down again.
LEMMA ShiftBack ==
  ASSUME NEW bs \in SUBSET (0 .. 5)
  PROVE  /\ Shifted(bs, 6) \in SUBSET (6 .. 11) /\ Shifted(Shifted(bs, 6), -6) = bs
         /\ 11 \in Shifted(bs, 6) <=> 5 \in bs
         /\ Shifted(Shifted(bs, 6) \cup {11}, -6) = bs \cup {5}
<1>1. Shifted(bs, 6) \in SUBSET (6 .. 11)
  BY DEF Shifted
<1>2. \A k : k \in Shifted(bs, 6) <=> k \in 6 .. 11 /\ k - 6 \in bs
  <2>1. ASSUME NEW k \in 6 .. 11, k - 6 \in bs PROVE k \in Shifted(bs, 6)
    <3>1. k = (k - 6) + 6
      OBVIOUS
    <3> QED  BY <2>1, <3>1 DEF Shifted
  <2>2. ASSUME NEW k \in Shifted(bs, 6) PROVE k - 6 \in bs
    BY DEF Shifted
  <2> QED  BY <1>1, <2>1, <2>2
<1>3. ASSUME NEW T \in SUBSET (6 .. 11)
      PROVE  \A j : j \in Shifted(T, -6) <=> j \in 0 .. 5 /\ j + 6 \in T
  <2>1. ASSUME NEW j \in 0 .. 5, j + 6 \in T PROVE j \in Shifted(T, -6)
    <3>1. j = (j + 6) + -6
      OBVIOUS
    <3> QED  BY <2>1, <3>1 DEF Shifted
  <2>2. ASSUME NEW j \in Shifted(T, -6) PROVE j \in 0 .. 5 /\ j + 6 \in T
    <3>1. PICK k \in T : j = k + -6
      BY DEF Shifted
    <3>2. k \in 6 .. 11
      OBVIOUS
    <3> QED  BY <3>1, <3>2
  <2> QED  BY <2>1, <2>2
<1>4. Shifted(Shifted(bs, 6), -6) = bs
  <2>1. \A j \in 0 .. 5 : (j + 6) - 6 = j /\ j + 6 \in 6 .. 11
    OBVIOUS
  <2>2. \A j \in 0 .. 5 : j + 6 \in Shifted(bs, 6) <=> j \in bs
    BY <1>2, <2>1
  <2>3. \A j : j \in Shifted(Shifted(bs, 6), -6) <=> j \in 0 .. 5 /\ j + 6 \in Shifted(bs, 6)
    BY <1>1, <1>3
  <2>4. \A j : j \in Shifted(Shifted(bs, 6), -6) <=> j \in bs
    BY <2>2, <2>3
  <2> QED  BY <2>4
<1>5. Shifted(Shifted(bs, 6) \cup {11}, -6) = bs \cup {5}
  <2>1. Shifted(bs, 6) \cup {11} \in SUBSET (6 .. 11)
    BY <1>1
  <2>2. \A j \in 0 .. 5 : (j + 6) - 6 = j /\ j + 6 \in 6 .. 11 /\ (j + 6 = 11 <=> j = 5)
    OBVIOUS
  <2>3. \A j \in 0 .. 5 : j + 6 \in Shifted(bs, 6) \cup {11} <=> j \in bs \cup {5}
    BY <1>2, <2>2
  <2>4. \A j : j \in Shifted(Shifted(bs, 6) \cup {11}, -6)
                 <=> j \in 0 .. 5 /\ j + 6 \in Shifted(bs, 6) \cup {11}
    BY <1>3, <2>1
  <2>5. \A j : j \in bs \cup {5} => j \in 0 .. 5
    OBVIOUS
  <2>6. \A j : j \in Shifted(Shifted(bs, 6) \cup {11}, -6) <=> j \in bs \cup {5}
    BY <2>3, <2>4, <2>5, Zenon
  <2> QED  BY <2>6
<1>6. 11 \in Shifted(bs, 6) <=> 5 \in bs
  BY <1>2
<1> QED  BY <1>1, <1>4, <1>5, <1>6

\* The numbers of rows and columns have five bits.
LEMMA CellNumbers ==
  ASSUME NEW c \in Cells
  PROVE  /\ c = <<c[1], c[2]>> /\ c[1] \in 0 .. 31 /\ c[2] \in 0 .. 31
<1>1. c[1] \in 0 .. Size - 1 /\ c[2] \in 0 .. Size - 1 /\ c = <<c[1], c[2]>>
  BY DEF Cells
<1>2. Size \in 1 .. 32
  BY MapAssumption
<1> QED  BY <1>1, <1>2

\* A request is the row, the column six bits up, and a bit 15 that makes the
\* number of its bits even.
LEMMA RequestBits ==
  ASSUME NEW c \in Cells
  PROVE  /\ Request(c) \in SUBSET (0 .. 15) /\ 11 \notin Request(c)
         /\ Request(c) \cap 0 .. 5 = BitsOf(c[1])
         /\ Request(c) \cap 6 .. 11 = Shifted(BitsOf(c[2]), 6)
         /\ Cardinality(Request(c)) \in Nat /\ Cardinality(Request(c)) % 2 = 0
<1> DEFINE row == BitsOf(c[1])
           col == Shifted(BitsOf(c[2]), 6)
           msg == row \cup col
<1>1. c[1] \in 0 .. 31 /\ c[2] \in 0 .. 31
  BY CellNumbers
<1>2. row \in SUBSET (0 .. 5) /\ BitsOf(c[2]) \in SUBSET (0 .. 5)
  BY DEF BitsOf
<1>3. col \in SUBSET (6 .. 11) /\ 11 \notin col
  BY <1>1, <1>2, HighBit, ShiftBack
<1>4. Request(c) = IF CalcParityBit(msg) = 1 THEN msg \cup {15} ELSE msg
  BY DEF Request, SetParityBit
<1> HIDE DEF row, col
<1>5. msg \in SUBSET (0 .. 11) /\ 11 \notin msg /\ 15 \notin msg
  BY <1>2, <1>3
<1>6. IsFiniteSet(msg) /\ Cardinality(msg) \in Nat
  <2>1. IsFiniteSet(0 .. 11)
    BY FiniteBits
  <2> QED  BY <1>5, <2>1, FS_Subset, FS_CardinalityType
<1>7. Cardinality(msg \cup {15}) = Cardinality(msg) + 1
  BY <1>5, <1>6, FS_AddElement
<1>8. msg \ {11} = msg
  BY <1>5
<1>9. CalcParityBit(msg) = Cardinality(msg) % 2
  BY <1>8 DEF CalcParityBit
<1>10. Cardinality(Request(c)) \in Nat /\ Cardinality(Request(c)) % 2 = 0
  <2> DEFINE n == Cardinality(msg)
  <2>1. n \in Nat /\ Cardinality(Request(c)) = IF n % 2 = 1 THEN n + 1 ELSE n
    BY <1>4, <1>6, <1>7, <1>9
  <2> HIDE DEF n
  <2> QED  BY <2>1
<1>11. /\ Request(c) \in SUBSET (0 .. 15) /\ 11 \notin Request(c)
       /\ Request(c) \cap 0 .. 5 = row /\ Request(c) \cap 6 .. 11 = col
  <2>1. Request(c) \in {msg, msg \cup {15}}
    BY <1>4
  <2>2. (0 .. 5) \cap (6 .. 11) = {} /\ 15 \notin 0 .. 11 /\ 15 \in 0 .. 15
    OBVIOUS
  <2>3. Request(c) \in SUBSET (0 .. 15) /\ 11 \notin Request(c)
    BY <1>5, <2>1
  <2>4. \A k \in 0 .. 11 : k # 15 /\ (k \in row => k \notin 6 .. 11) /\ (k \in col => k \notin 0 .. 5)
    BY <1>2, <1>3
  <2>5. \A k \in 0 .. 11 : k \in Request(c) <=> k \in row \/ k \in col
    BY <2>1, <2>4
  <2>6. (\A k \in 0 .. 5 : k \in 0 .. 11) /\ (\A k \in 6 .. 11 : k \in 0 .. 11)
    OBVIOUS
  <2>7. Request(c) \cap 0 .. 5 = row
    <3>1. \A k : k \in Request(c) \cap 0 .. 5 <=> k \in row
      BY <1>2, <2>4, <2>5, <2>6, Zenon
    <3> QED  BY <3>1
  <2>8. Request(c) \cap 6 .. 11 = col
    <3>1. \A k : k \in Request(c) \cap 6 .. 11 <=> k \in col
      BY <1>3, <2>4, <2>5, <2>6, Zenon
    <3> QED  BY <3>1
  <2> QED  BY <2>3, <2>7, <2>8
<1> QED  BY <1>10, <1>11 DEF row, col

\* The parity the server finds is always 0.
LEMMA ParityOfBits ==
  ASSUME NEW msg
  PROVE  CheckParity(msg) <=> Cardinality(msg \ {11}) % 2 = 0
<1>1. GetParityBit(msg) = 0
  <2>1. 15 \notin 0 .. 7
    OBVIOUS
  <2> QED  BY <2>1 DEF GetParityBit
<1> QED  BY <1>1 DEF CheckParity, CalcParityBit

\* A request that arrives as it was sent is decoded.
LEMMA RequestDecoded ==
  ASSUME NEW c \in Cells
  PROVE  CheckParity(Request(c)) /\ GetCoordinates(Request(c)) = c
<1>1. c[1] \in 0 .. 63 /\ c[2] \in 0 .. 63 /\ c = <<c[1], c[2]>>
  BY CellNumbers
<1>2. Request(c) \ {11} = Request(c)
  BY RequestBits
<1>3. CheckParity(Request(c))
  BY <1>2, RequestBits, ParityOfBits
<1>4. BitsOf(c[2]) \in SUBSET (0 .. 5)
  BY DEF BitsOf
<1>5. /\ Value(Request(c) \cap 0 .. 5) = c[1]
      /\ Value(Shifted(Request(c) \cap 6 .. 11, -6)) = c[2]
  BY <1>1, <1>4, RequestBits, ShiftBack, ValueOfBits
<1> QED  BY <1>1, <1>3, <1>5 DEF GetCoordinates

(***************************************************************************)
(* A request with one bit flipped is refused: by its parity, or, as the    *)
(* bit 11 does not count there, by the column, which is 32 or more then.   *)
(***************************************************************************)
THEOREM FlippedRefused ==
  ASSUME NEW c \in Cells, NEW b \in 0 .. 15
  PROVE  LET msg == Flipped(Request(c), b)
         IN  ~CheckParity(msg) \/ ~CheckCoordinate(GetCoordinates(msg))
<1> DEFINE r == Request(c)
           msg == Flipped(r, b)
<1>1. /\ r \in SUBSET (0 .. 15) /\ 11 \notin r
      /\ Cardinality(r) \in Nat /\ Cardinality(r) % 2 = 0
  BY RequestBits
<1>2. msg = IF b \in r THEN r \ {b} ELSE r \cup {b}
  BY DEF Flipped
<1>3. CASE b = 11
  <2>1. msg = r \cup {11}
    BY <1>1, <1>2, <1>3
  <2>2. r \cap 6 .. 11 = Shifted(BitsOf(c[2]), 6)
    BY RequestBits
  <2>3. msg \cap 6 .. 11 = Shifted(BitsOf(c[2]), 6) \cup {11}
    BY <2>1, <2>2
  <2>4. c[2] \in 0 .. 31 /\ c[2] + 32 \in 0 .. 63
    BY CellNumbers
  <2>5. BitsOf(c[2]) \in SUBSET (0 .. 5)
    BY DEF BitsOf
  <2>6. Value(Shifted(msg \cap 6 .. 11, -6)) = c[2] + 32
    <3>1. Shifted(msg \cap 6 .. 11, -6) = BitsOf(c[2]) \cup {5}
      BY <2>3, <2>5, ShiftBack
    <3>2. BitsOf(c[2]) \cup {5} = BitsOf(c[2] + 32)
      BY <2>4, HighBit
    <3> QED  BY <2>4, <3>1, <3>2, ValueOfBits
  <2>7. GetCoordinates(msg)[2] = c[2] + 32
    BY <2>6 DEF GetCoordinates
  <2>8. GetCoordinates(msg) \in Cells => GetCoordinates(msg)[2] \in 0 .. 31
    BY CellNumbers
  <2>9. ~CheckCoordinate(GetCoordinates(msg))
    <3> HIDE DEF msg
    <3> QED  BY <2>4, <2>7, <2>8 DEF CheckCoordinate
  <2> QED  BY <2>9
<1>4. CASE b # 11
  <2> HIDE DEF r
  <2>1. msg \ {11} = msg
    BY <1>1, <1>2, <1>4
  <2>2. IsFiniteSet(r)
    <3>1. IsFiniteSet(0 .. 15)
      BY FiniteBits
    <3> QED  BY <1>1, <3>1, FS_Subset
  <2>3. Cardinality(msg) = Cardinality(r) - 1 \/ Cardinality(msg) = Cardinality(r) + 1
    BY <1>2, <2>2, FS_AddElement, FS_RemoveElement
  <2> DEFINE n == Cardinality(r)
             k == Cardinality(msg)
  <2>4. n \in Nat /\ n % 2 = 0 /\ (k = n - 1 \/ k = n + 1)
    BY <1>1, <2>3
  <2>5. k % 2 # 0
    <3> HIDE DEF n, k
    <3> QED  BY <2>4
  <2> QED  BY <2>1, <2>5, ParityOfBits DEF r
<1> QED  BY <1>3, <1>4

-----------------------------------------------------------------------------
(* The counters.                                                           *)

\* The counters of the layout l after the shots h.
Counts(l, h, rem, n) ==
  /\ \A s \in DOMAIN l : rem[s] = Cardinality(CellsOf(l[s]) \ h)
  /\ n = Cardinality({s \in DOMAIN l : rem[s] > 0})

\* The ships of a layout are finitely many.
LEMMA FiniteShips ==
  ASSUME NEW l \in Lay, NEW T \in SUBSET DOMAIN l
  PROVE  IsFiniteSet(T) /\ Cardinality(T) \in Nat
<1>1. IsFiniteSet(DOMAIN l)
  <2>1. DOMAIN l = 1 .. Len(l) /\ Len(l) \in Int
    BY LayoutShips
  <2> QED  BY <2>1, FS_Interval
<1> QED  BY <1>1, FS_Subset, FS_CardinalityType

\* A new map.
LEMMA FirstCounts ==
  ASSUME NEW l \in Lay, Accepts(l)
  PROVE  LET rem == [s \in DOMAIN l |-> Length(l[s])]
         IN  /\ Counts(l, {}, rem, Len(l))
             /\ rem \in [DOMAIN l -> Nat] /\ rem # <<>> /\ Len(l) > 0
<1> DEFINE rem == [s \in DOMAIN l |-> Length(l[s])]
<1>1. \A s \in DOMAIN l : /\ rem[s] = Cardinality(CellsOf(l[s]) \ {})
                          /\ rem[s] \in Nat \ {0}
  <2>1. ASSUME NEW s \in DOMAIN l
        PROVE  Length(l[s]) = Cardinality(CellsOf(l[s])) /\ Length(l[s]) \in Nat \ {0}
    BY LayoutShips, ShipCells DEF Accepts
  <2>2. \A T : T \ {} = T
    OBVIOUS
  <2> QED  BY <2>1, <2>2
<1>2. DOMAIN l = 1 .. Len(l) /\ Len(l) \in Nat
  BY LayoutShips
<1>3. Len(l) = Cardinality({s \in DOMAIN l : rem[s] > 0})
  <2>1. {s \in DOMAIN l : rem[s] > 0} = 1 .. Len(l)
    BY <1>1, <1>2
  <2>2. Cardinality(1 .. Len(l)) = IF 1 > Len(l) THEN 0 ELSE Len(l) - 1 + 1
    BY <1>2, FS_Interval
  <2>3. Len(l) = IF 1 > Len(l) THEN 0 ELSE Len(l) - 1 + 1
    BY <1>2
  <2> QED  BY <2>1, <2>2, <2>3
<1>4. Len(l) > 0
  <2>1. PICK n \in MinLen .. MaxLen : ShipCnt[n] > 0
    BY BattleshipAssumption
  <2>2. Cardinality({s \in DOMAIN l : Length(l[s]) = n}) # 0
    BY <2>1 DEF Accepts, CheckShipCount
  <2>3. {s \in DOMAIN l : Length(l[s]) = n} # {}
    BY <2>2, FS_EmptySet
  <2> QED  BY <1>2, <2>3
<1>5. rem \in [DOMAIN l -> Nat] /\ rem # <<>>
  <2>1. 1 \in DOMAIN rem
    BY <1>2, <1>4
  <2> QED  BY <1>1, <2>1
<1> QED  BY <1>1, <1>3, <1>4, <1>5 DEF Counts

\* A shot at water or at a cell that was hit before.
LEMMA MissCounts ==
  ASSUME NEW l \in Lay, NEW h, NEW rem, NEW n, Counts(l, h, rem, n), NEW c,
         c \in h \/ ShipAt(l, c) = NoShip
  PROVE  Counts(l, h \cup {c}, rem, n)
<1>1. ASSUME NEW s \in DOMAIN l
      PROVE  CellsOf(l[s]) \ (h \cup {c}) = CellsOf(l[s]) \ h
  <2>1. CASE c \in h
    BY <2>1
  <2>2. CASE ShipAt(l, c) = NoShip
    <3>1. c \notin CellsOf(l[s])
      BY <2>2, ShipAtLast, LayoutShips
    <3> QED  BY <3>1
  <2> QED  BY <2>1, <2>2
<1> QED  BY <1>1 DEF Counts

\* A shot that hits a ship takes a cell of this ship and of no other.
LEMMA HitCells ==
  ASSUME NEW l \in Lay, Accepts(l), NEW h, NEW c, c \notin h, ShipAt(l, c) # NoShip,
         NEW s \in DOMAIN l
  PROVE  /\ IsFiniteSet(CellsOf(l[s]) \ h)
         /\ Cardinality(CellsOf(l[s]) \ (h \cup {c}))
              = IF s = ShipAt(l, c) THEN Cardinality(CellsOf(l[s]) \ h) - 1
                ELSE Cardinality(CellsOf(l[s]) \ h)
<1> DEFINE left == CellsOf(l[s]) \ h
<1>1. IsFiniteSet(left)
  <2>1. IsFiniteSet(CellsOf(l[s]))
    BY LayoutShips, CellsOfArg
  <2> QED  BY <2>1, FS_Difference
<1>2. CellsOf(l[s]) \ (h \cup {c}) = left \ {c}
  OBVIOUS
<1>3. c \in left <=> s = ShipAt(l, c)
  BY ShipAtLast, OneShip
<1>4. Cardinality(left \ {c}) = IF c \in left THEN Cardinality(left) - 1 ELSE Cardinality(left)
  BY <1>1, FS_RemoveElement
<1> QED  BY <1>1, <1>2, <1>3, <1>4

\* A hit that leaves cells of the ship.
LEMMA HitCounts ==
  ASSUME NEW l \in Lay, Accepts(l), NEW h, NEW rem \in [DOMAIN l -> Nat], NEW n,
         Counts(l, h, rem, n), NEW c, c \notin h, ShipAt(l, c) # NoShip, rem[ShipAt(l, c)] > 1
  PROVE  LET s == ShipAt(l, c)
             r == [rem EXCEPT ![s] = @ - 1]
         IN  Counts(l, h \cup {c}, r, n) /\ r \in [DOMAIN l -> Nat] /\ r # <<>>
<1> DEFINE s == ShipAt(l, c)
           r == [rem EXCEPT ![s] = @ - 1]
<1>1. s \in DOMAIN l
  BY ShipAtLast
<1>2. rem[s] \in Nat /\ rem[s] - 1 \in Nat /\ rem[s] - 1 > 0
  BY <1>1
<1> HIDE DEF s
<1>3. r \in [DOMAIN l -> Nat] /\ \A t \in DOMAIN l : r[t] = IF t = s THEN rem[s] - 1 ELSE rem[t]
  BY <1>1, <1>2
<1>4. ASSUME NEW t \in DOMAIN l PROVE r[t] = Cardinality(CellsOf(l[t]) \ (h \cup {c}))
  <2>1. Cardinality(CellsOf(l[t]) \ (h \cup {c}))
          = IF t = s THEN Cardinality(CellsOf(l[t]) \ h) - 1 ELSE Cardinality(CellsOf(l[t]) \ h)
    BY HitCells DEF s
  <2>2. rem[t] = Cardinality(CellsOf(l[t]) \ h)
    BY DEF Counts
  <2>3. rem[s] > 1
    BY DEF s
  <2> QED  BY <1>3, <2>1, <2>2, <2>3
<1>5. {t \in DOMAIN l : r[t] > 0} = {t \in DOMAIN l : rem[t] > 0}
  BY <1>1, <1>2, <1>3
<1>6. r # <<>>
  BY <1>1, <1>3
<1> QED  BY <1>3, <1>4, <1>5, <1>6 DEF Counts, s

\* A hit that sinks the ship.
LEMMA SunkCounts ==
  ASSUME NEW l \in Lay, Accepts(l), NEW h, NEW rem \in [DOMAIN l -> Nat], NEW n,
         Counts(l, h, rem, n), NEW c, c \notin h, ShipAt(l, c) # NoShip, rem[ShipAt(l, c)] = 1
  PROVE  LET s == ShipAt(l, c)
             r == [rem EXCEPT ![s] = 0]
         IN  /\ Counts(l, h \cup {c}, r, n - 1) /\ r \in [DOMAIN l -> Nat] /\ r # <<>>
             /\ n \in Nat \ {0}
<1> DEFINE s == ShipAt(l, c)
           r == [rem EXCEPT ![s] = 0]
           before == {t \in DOMAIN l : rem[t] > 0}
<1>1. s \in DOMAIN l
  BY ShipAtLast
<1> HIDE DEF s
<1>2. r \in [DOMAIN l -> Nat] /\ \A t \in DOMAIN l : r[t] = IF t = s THEN 0 ELSE rem[t]
  BY <1>1
<1>3. ASSUME NEW t \in DOMAIN l PROVE r[t] = Cardinality(CellsOf(l[t]) \ (h \cup {c}))
  <2>1. Cardinality(CellsOf(l[t]) \ (h \cup {c}))
          = IF t = s THEN Cardinality(CellsOf(l[t]) \ h) - 1 ELSE Cardinality(CellsOf(l[t]) \ h)
    BY HitCells DEF s
  <2>2. rem[t] = Cardinality(CellsOf(l[t]) \ h)
    BY DEF Counts
  <2>3. rem[s] = 1
    BY DEF s
  <2> QED  BY <1>2, <2>1, <2>2, <2>3
<1>4. {t \in DOMAIN l : r[t] > 0} = before \ {s} /\ s \in before
  BY <1>1, <1>2 DEF s
<1>5. IsFiniteSet(before) /\ Cardinality(before) \in Nat /\ n = Cardinality(before)
  BY FiniteShips DEF Counts
<1>6. Cardinality(before \ {s}) = n - 1
  BY <1>4, <1>5, FS_RemoveElement
<1>7. n # 0
  BY <1>4, <1>5, FS_EmptySet
<1>8. r # <<>>
  BY <1>1, <1>2
<1> QED  BY <1>2, <1>3, <1>4, <1>5, <1>6, <1>7, <1>8 DEF Counts, s

\* No ship is intact if and only if every cell of every ship was hit.
LEMMA AllSunk ==
  ASSUME NEW l \in Lay, NEW h, NEW rem \in [DOMAIN l -> Nat], NEW n, Counts(l, h, rem, n)
  PROVE  n = 0 <=> UNION {CellsOf(l[s]) : s \in DOMAIN l} \subseteq h
<1>1. n = 0 <=> {s \in DOMAIN l : rem[s] > 0} = {}
  BY FiniteShips, FS_EmptySet DEF Counts
<1>2. ASSUME NEW s \in DOMAIN l PROVE rem[s] = 0 <=> CellsOf(l[s]) \subseteq h
  <2>1. IsFiniteSet(CellsOf(l[s]) \ h)
    BY LayoutShips, CellsOfArg, FS_Difference
  <2>2. rem[s] = Cardinality(CellsOf(l[s]) \ h)
    BY DEF Counts
  <2>3. rem[s] = 0 <=> CellsOf(l[s]) \ h = {}
    BY <2>1, <2>2, FS_EmptySet
  <2> QED  BY <2>3
<1>3. n = 0 <=> \A s \in DOMAIN l : rem[s] = 0
  BY <1>1
<1> QED  BY <1>2, <1>3

-----------------------------------------------------------------------------
(* What the turns of the server do to its map and counters.                *)

\* The constants in the invariant.
LEMMA Types ==
  ASSUME TypeOK
  PROVE  /\ layout \in Lay
         /\ remainder # <<>> => remainder \in [DOMAIN layout -> Nat]
         /\ MaxRounds \in Nat \ {0}
BY BattleshipAssumption DEF TypeOK, Lay, Args

\* An answer is put on its way unless the client is gone.
LEMMA Sends ==
  ASSUME TypeOK, NEW msg \in Responses, NEW to, ServerSends(msg), ServerGoes(to)
  PROVE  /\ toClient' \in Seq(Responses) /\ srv' \in {to, "failed"}
         /\ cli \notin CliEnds => srv' = to /\ toClient' = Append(toClient, msg)
BY AppendProperties DEF TypeOK, ServerSends, ServerGoes, BrokenPipe

\* The answers.
LEMMA Answers ==
  /\ \A report \in {"no_hit", "hit", "sunk"} : Response("game_ongoing", report) \in Ongoing
  /\ Ongoing \subseteq Responses
  /\ Over \in Responses /\ Response("game_over", "last_sunk") \in Responses
  /\ Response("err_parity", "no_hit") \in Responses
  /\ Response("err_coordinate", "no_hit") \in Responses
BY DEF Ongoing, Over, Response, Responses

\* Sequences of one and of two answers.
LEMMA AppendTwo ==
  ASSUME NEW x
  PROVE  Append(<<>>, x) = <<x>> /\ \A y : Append(<<y>>, x) = <<y, x>>
<1>1. ASSUME NEW y PROVE Append(<<y>>, x) = <<y, x>>
  <2>1. /\ <<y>> \in Seq({x, y}) /\ Len(<<y>>) = 1
        /\ <<y, x>> \in Seq({x, y}) /\ Len(<<y, x>>) = 2
    OBVIOUS
  <2>2. /\ Append(<<y>>, x) \in Seq({x, y}) /\ Len(Append(<<y>>, x)) = 2
        /\ Append(<<y>>, x)[1] = y /\ Append(<<y>>, x)[2] = x
    BY <2>1, AppendProperties
  <2>3. \A i \in 1 .. 2 : Append(<<y>>, x)[i] = <<y, x>>[i]
    BY <2>2
  <2> QED  BY <2>1, <2>2, <2>3, SeqEqual
<1> QED  BY <1>1

\* A shot keeps the counters right, and says whether the game goes on.
LEMMA ShootStep ==
  ASSUME IInv, srv = "play", NEW c \in Cells, Shoot(c)
  PROVE  /\ hits' = hits \cup {c} /\ round' = round + 1
         /\ remainder' \in [DOMAIN layout -> Nat] /\ remainder' # <<>> /\ shipCount' \in Nat
         /\ Counts(layout, hits', remainder', shipCount')
         /\ \/ /\ shipCount' > 0 /\ ServerGoes("play")
               /\ \E msg \in Ongoing : ServerSends(msg)
            \/ /\ shipCount' = 0 /\ ServerGoes("won")
               /\ ServerSends(Response("game_over", "last_sunk"))
<1> DEFINE s == ShipAt(layout, c)
<1>1. /\ layout \in Lay /\ remainder # <<>> /\ remainder \in [DOMAIN layout -> Nat]
      /\ Accepts(layout) /\ Counts(layout, hits, remainder, shipCount)
      /\ shipCount \in Nat /\ shipCount > 0
  BY Types DEF IInv, TypeOK, LayoutInv, CountInv, EndInv, Counts
<1>2. hits' = hits \cup {c} /\ round' = round + 1
  BY DEF Shoot
<1>3. CASE /\ c \in hits \/ s = NoShip
           /\ UNCHANGED <<remainder, shipCount>>
           /\ ServerSends(Response("game_ongoing", "no_hit")) /\ ServerGoes("play")
  <2>1. Counts(layout, hits \cup {c}, remainder, shipCount)
    BY <1>1, <1>3, MissCounts
  <2> QED  BY <1>1, <1>2, <1>3, <2>1, Answers
<1>4. CASE /\ c \notin hits /\ s # NoShip /\ remainder[s] > 1
           /\ remainder' = [remainder EXCEPT ![s] = @ - 1] /\ UNCHANGED shipCount
           /\ ServerSends(Response("game_ongoing", "hit")) /\ ServerGoes("play")
  <2> DEFINE r == [remainder EXCEPT ![s] = @ - 1]
  <2>1. Counts(layout, hits \cup {c}, r, shipCount) /\ r \in [DOMAIN layout -> Nat] /\ r # <<>>
    BY <1>1, <1>4, HitCounts
  <2>2. remainder' = r
    BY <1>4
  <2> HIDE DEF r
  <2> QED  BY <1>1, <1>2, <1>4, <2>1, <2>2, Answers
<1>5. CASE /\ c \notin hits /\ s # NoShip /\ remainder[s] = 1
           /\ remainder' = [remainder EXCEPT ![s] = 0] /\ shipCount' = shipCount - 1
           /\ IF shipCount > 1
              THEN ServerSends(Response("game_ongoing", "sunk")) /\ ServerGoes("play")
              ELSE ServerSends(Response("game_over", "last_sunk")) /\ ServerGoes("won")
  <2> DEFINE r == [remainder EXCEPT ![s] = 0]
  <2>1. /\ Counts(layout, hits \cup {c}, r, shipCount - 1) /\ r \in [DOMAIN layout -> Nat]
        /\ r # <<>>
    BY <1>1, <1>5, SunkCounts
  <2>2. /\ remainder' = r /\ shipCount' = shipCount - 1
        /\ shipCount > 1 => ServerSends(Response("game_ongoing", "sunk")) /\ ServerGoes("play")
        /\ ~(shipCount > 1) =>
             ServerSends(Response("game_over", "last_sunk")) /\ ServerGoes("won")
    BY <1>5
  <2> HIDE DEF r
  <2>3. shipCount' \in Nat /\ Counts(layout, hits', remainder', shipCount')
    BY <1>1, <1>2, <2>1, <2>2
  <2>4. CASE shipCount > 1
    <3>1. ServerGoes("play") /\ (\E msg \in Ongoing : ServerSends(msg)) /\ shipCount' > 0
      BY <1>1, <2>2, <2>4, Answers
    <3> QED  BY <1>2, <2>1, <2>2, <2>3, <3>1
  <2>5. CASE ~(shipCount > 1)
    <3>1. shipCount' = 0
      BY <1>1, <2>2, <2>5
    <3> QED  BY <1>2, <2>1, <2>2, <2>3, <2>5, <3>1
  <2> QED  BY <2>4, <2>5
<1> QED  BY <1>3, <1>4, <1>5 DEF Shoot

\* The part of the invariant that is about the server alone.
ServerTypes ==
  /\ srv \in SrvEnds \cup {"args", "listen", "play"} /\ hits \subseteq Cells
  /\ remainder \in {<<>>} \cup [DOMAIN layout -> Nat] /\ shipCount \in Nat
  /\ round \in 0 .. MaxRounds /\ toClient \in Seq(Responses)

ServerInv == ServerTypes /\ LayoutInv /\ CountInv /\ EndInv

\* A message, whatever it is, either carries out its shot or ends the game.
LEMMA ServeStep ==
  ASSUME IInv, srv = "play", round < MaxRounds, NEW msg, Serve(msg), UNCHANGED layout
  PROVE  /\ ServerInv'
         /\ \/ hits' = hits
            \/ /\ CheckParity(msg) /\ CheckCoordinate(GetCoordinates(msg))
               /\ hits' = hits \cup {GetCoordinates(msg)}
<1>1. /\ TypeOK /\ remainder # <<>> /\ Accepts(layout)
      /\ Counts(layout, hits, remainder, shipCount)
  BY DEF IInv, LayoutInv, CountInv, Counts
<1>2. ASSUME NEW status \in {"err_parity", "err_coordinate"}, NEW to \in {"parity", "coordinate"},
             Refuse(status, to)
      PROVE  ServerInv' /\ hits' = hits
  <2>1. ServerSends(Response(status, "no_hit")) /\ ServerGoes(to) /\ UNCHANGED game
    BY <1>2 DEF Refuse
  <2>2. toClient' \in Seq(Responses) /\ srv' \in {to, "failed"}
    BY <1>1, <2>1, Sends, Answers
  <2>3. UNCHANGED <<hits, remainder, shipCount, round, layout>>
    BY <2>1 DEF game
  <2>4. ServerTypes'
    BY <1>1, <2>2, <2>3 DEF TypeOK, ServerTypes, SrvEnds
  <2>5. LayoutInv' /\ EndInv'
    BY <1>1, <2>2, <2>3 DEF LayoutInv, EndInv
  <2>6. CountInv'
    BY <1>1, <2>3 DEF CountInv, Counts
  <2> QED  BY <2>3, <2>4, <2>5, <2>6 DEF ServerInv
<1>3. CASE ~CheckParity(msg) /\ Refuse("err_parity", "parity")
  BY <1>2, <1>3
<1>4. CASE /\ CheckParity(msg) /\ ~CheckCoordinate(GetCoordinates(msg))
           /\ Refuse("err_coordinate", "coordinate")
  BY <1>2, <1>4
<1>5. CASE /\ CheckParity(msg) /\ CheckCoordinate(GetCoordinates(msg))
           /\ Shoot(GetCoordinates(msg))
  <2> DEFINE c == GetCoordinates(msg)
  <2>1. c \in Cells /\ Shoot(c)
    BY <1>5 DEF CheckCoordinate
  <2> HIDE DEF c
  <2>2. /\ hits' = hits \cup {c} /\ round' = round + 1
        /\ remainder' \in [DOMAIN layout -> Nat] /\ remainder' # <<>> /\ shipCount' \in Nat
        /\ Counts(layout, hits', remainder', shipCount')
    BY <2>1, ShootStep
  <2>3. /\ toClient' \in Seq(Responses)
        /\ \/ shipCount' > 0 /\ srv' \in {"play", "failed"}
           \/ shipCount' = 0 /\ srv' \in {"won", "failed"}
    <3>1. CASE /\ shipCount' > 0 /\ ServerGoes("play")
               /\ \E m \in Ongoing : ServerSends(m)
      BY <1>1, <3>1, Sends, Answers
    <3>2. CASE /\ shipCount' = 0 /\ ServerGoes("won")
               /\ ServerSends(Response("game_over", "last_sunk"))
      BY <1>1, <3>2, Sends, Answers
    <3> QED  BY <2>1, <3>1, <3>2, ShootStep
  <2>4. ServerTypes'
    BY <1>1, <2>1, <2>2, <2>3, Types DEF TypeOK, ServerTypes, SrvEnds
  <2>5. LayoutInv' /\ EndInv'
    BY <1>1, <2>2, <2>3 DEF LayoutInv, EndInv
  <2>6. CountInv'
    BY <2>2 DEF CountInv, Counts
  <2> QED  BY <1>5, <2>2, <2>4, <2>5, <2>6 DEF ServerInv, c
<1> QED  BY <1>3, <1>4, <1>5 DEF Serve

-----------------------------------------------------------------------------
(* The invariant, action by action.                                        *)

\* The rest of the types.
OtherTypes ==
  /\ cli \in CliEnds \cup {"connect", "move", "recv", "hangs"}
  /\ layout \in Layouts /\ chosen \subseteq Cells /\ faulty \in BOOLEAN
  /\ toServer \in Seq(SUBSET (0 .. 15))

LEMMA InitInv == Init => IInv
<1> SUFFICES ASSUME Init PROVE IInv
  OBVIOUS
<1>1. /\ <<>> \in Seq(SUBSET (0 .. 15)) /\ <<>> \in Seq(Responses) /\ 0 \in 0 .. MaxRounds
  BY BattleshipAssumption, EmptySeq
<1>2. TypeOK
  BY <1>1 DEF Init, TypeOK
<1>3. LayoutInv /\ CountInv /\ EndInv
  BY DEF Init, LayoutInv, CountInv, EndInv
<1>4. FlipInv
  BY DEF Init, FlipInv
<1>5. TurnInv
  BY DEF Init, TurnInv
<1> QED  BY <1>2, <1>3, <1>4, <1>5 DEF IInv

LEMMA ParseArgsKeeps == ASSUME IInv, ParseArgs PROVE IInv'
<1>1. /\ srv = "args" /\ hits = {} /\ round = 0 /\ remainder = <<>> /\ layout \in Lay
      /\ UNCHANGED <<cli, layout, hits, round, toServer, toClient, chosen, faulty>>
  BY Types DEF IInv, LayoutInv, ParseArgs
<1>2. ASSUME Accepts(layout) PROVE ServerInv'
  <2> DEFINE rem == [s \in DOMAIN layout |-> Length(layout[s])]
  <2>1. srv' = "listen" /\ remainder' = rem /\ shipCount' = Len(layout)
    BY <1>2 DEF ParseArgs
  <2>2. /\ Counts(layout, {}, rem, Len(layout))
        /\ rem \in [DOMAIN layout -> Nat] /\ rem # <<>> /\ Len(layout) > 0
    BY <1>1, <1>2, FirstCounts
  <2> HIDE DEF rem
  <2>3. Len(layout) \in Nat
    BY <1>1, LayoutShips
  <2>4. ServerTypes'
    BY <1>1, <2>1, <2>2, <2>3 DEF IInv, TypeOK, ServerTypes
  <2>5. LayoutInv' /\ EndInv'
    BY <1>1, <1>2, <2>1, <2>2 DEF LayoutInv, EndInv
  <2>6. CountInv'
    BY <1>1, <2>1, <2>2 DEF CountInv, Counts
  <2> QED  BY <2>1, <2>4, <2>5, <2>6 DEF ServerInv
<1>3. ASSUME ~Accepts(layout) PROVE ServerInv'
  <2>1. srv' = "usage" /\ UNCHANGED <<remainder, shipCount>>
    BY <1>3 DEF ParseArgs
  <2> QED  BY <1>1, <1>3, <2>1
             DEF IInv, TypeOK, ServerInv, ServerTypes, LayoutInv, CountInv, EndInv, SrvEnds
<1>4. ServerInv' /\ srv' \in {"listen", "usage"}
  <2>1. srv' \in {"listen", "usage"}
    BY DEF ParseArgs
  <2> QED  BY <1>2, <1>3, <2>1
<1>5. OtherTypes'
  BY <1>1 DEF IInv, TypeOK, OtherTypes
<1>6. FlipInv'
  BY <1>1 DEF IInv, FlipInv, Sent
<1>7. TurnInv'
  BY <1>1, <1>4 DEF IInv, TurnInv, TypeOK, CliEnds, SrvEnds
<1> QED  BY <1>4, <1>5, <1>6, <1>7 DEF IInv, TypeOK, ServerInv, ServerTypes, OtherTypes

\* The message the server takes: what it carries out was chosen.
LEMMA ServerRoundKeeps == ASSUME IInv, ServerRound PROVE IInv'
<1> DEFINE msg == Head(toServer)
<1>1. /\ srv = "play" /\ round < MaxRounds /\ toServer # <<>> /\ Serve(msg)
      /\ toServer' = Tail(toServer) /\ UNCHANGED <<cli, layout, chosen, faulty>>
  BY DEF ServerRound
<1>2. TypeOK
  BY DEF IInv
<1>3. /\ toServer \in Seq(SUBSET (0 .. 15)) /\ Tail(toServer) \in Seq(SUBSET (0 .. 15))
      /\ DOMAIN toServer = 1 .. Len(toServer) /\ Len(toServer) \in Nat \ {0}
      /\ DOMAIN Tail(toServer) = 1 .. Len(Tail(toServer)) /\ Len(Tail(toServer)) = Len(toServer) - 1
      /\ \A i \in 1 .. Len(Tail(toServer)) : Tail(toServer)[i] = toServer[i + 1]
      /\ msg = toServer[1]
  BY <1>1, <1>2, EmptySeq, LenProperties, HeadTailProperties DEF TypeOK
<1>4. /\ ServerInv'
      /\ \/ hits' = hits
         \/ /\ CheckParity(msg) /\ CheckCoordinate(GetCoordinates(msg))
            /\ hits' = hits \cup {GetCoordinates(msg)}
  <2> HIDE DEF msg
  <2> QED  BY <1>1, ServeStep
<1>5. OtherTypes'
  BY <1>1, <1>2, <1>3 DEF TypeOK, OtherTypes
<1>6. FlipInv'
  <2> SUFFICES ASSUME cli \notin CliEnds
               PROVE  hits' \subseteq chosen /\ \A i \in DOMAIN toServer' : Sent(toServer'[i])
    BY <1>1 DEF FlipInv, Sent
  <2>1. hits \subseteq chosen /\ \A i \in DOMAIN toServer : Sent(toServer[i])
    BY DEF IInv, FlipInv
  <2>2. Sent(msg)
    BY <1>3, <2>1
  <2>3. \A i \in DOMAIN toServer' : Sent(toServer'[i])
    <3>1. \A i \in 1 .. Len(toServer) - 1 : i + 1 \in 1 .. Len(toServer)
      BY <1>3
    <3> QED  BY <1>1, <1>3, <2>1, <3>1
  <2>4. PICK c \in chosen : msg = Request(c) \/ \E b \in 0 .. 15 : msg = Flipped(Request(c), b)
    BY <2>2 DEF Sent
  <2>5. c \in Cells
    BY <1>2 DEF TypeOK
  <2> HIDE DEF msg
  <2>6. CASE msg = Request(c)
    BY <1>4, <2>1, <2>3, <2>5, <2>6, RequestDecoded
  <2>7. CASE \E b \in 0 .. 15 : msg = Flipped(Request(c), b)
    BY <1>4, <2>1, <2>3, <2>5, <2>7, FlippedRefused
  <2> QED  BY <2>4, <2>6, <2>7
<1>7. TurnInv'
  <2> SUFFICES ASSUME ~faulty PROVE TurnInv'
    BY <1>1 DEF TurnInv
  <2>1. cli = "recv" /\ OneRequest /\ toClient = <<>>
    BY <1>1, <1>2 DEF IInv, TurnInv, TypeOK, CliEnds, SrvEnds
  <2>2. PICK c \in Cells : toServer = <<Request(c)>>
    BY <2>1 DEF OneRequest
  <2>3. msg = Request(c) /\ toServer' = <<>>
    BY <1>1, <2>2
  <2>4. Shoot(c)
    BY <1>1, <2>3, RequestDecoded DEF Serve, CheckCoordinate
  <2>5. cli \notin CliEnds
    BY <2>1 DEF CliEnds, SrvEnds
  <2>6. \/ srv' = "play" /\ \E m \in Ongoing : toClient' = Append(toClient, m)
        \/ srv' = "won" /\ toClient' = Append(toClient, Response("game_over", "last_sunk"))
    BY <1>1, <1>2, <2>4, <2>5, ShootStep, Sends, Answers
  <2>7. \A m : Append(<<>>, m) = <<m>>
    OBVIOUS
  <2>8. \/ srv' = "play" /\ \E m \in Ongoing : toClient' = <<m>>
        \/ srv' = "won" /\ toClient' = <<Response("game_over", "last_sunk")>>
    BY <2>1, <2>6, <2>7
  <2> QED  BY <1>1, <2>1, <2>3, <2>8 DEF TurnInv
<1> QED  BY <1>4, <1>5, <1>6, <1>7 DEF IInv, TypeOK, ServerInv, ServerTypes, OtherTypes

LEMMA ServerRoundAtEndKeeps == ASSUME IInv, ServerRoundAtEnd PROVE IInv'
<1>1. /\ srv = "play" /\ round < MaxRounds /\ toServer = <<>> /\ cli \in CliEnds
      /\ UNCHANGED <<cli, layout, toServer, chosen, faulty>>
  BY DEF ServerRoundAtEnd
<1>2. ASSUME NEW msg \in Garbage(layout), Serve(msg) PROVE ServerInv'
  BY <1>1, <1>2, ServeStep
<1>3. ASSUME srv' = "failed", UNCHANGED <<toClient, hits, remainder, shipCount, round>>
      PROVE  ServerInv'
  BY <1>1, <1>3
     DEF IInv, TypeOK, ServerInv, ServerTypes, LayoutInv, CountInv, EndInv, SrvEnds
<1>4. ServerInv'
  BY <1>2, <1>3 DEF ServerRoundAtEnd, game
<1>5. OtherTypes'
  BY <1>1 DEF IInv, TypeOK, OtherTypes
<1>6. FlipInv'
  BY <1>1 DEF FlipInv
<1>7. TurnInv'
  BY <1>1 DEF IInv, TurnInv, CliEnds, SrvEnds
<1> QED  BY <1>4, <1>5, <1>6, <1>7 DEF IInv, TypeOK, ServerInv, ServerTypes, OtherTypes

LEMMA GameLostKeeps == ASSUME IInv, GameLost PROVE IInv'
<1>1. /\ srv = "play" /\ round = MaxRounds /\ ServerSends(Over) /\ ServerGoes("lost")
      /\ UNCHANGED <<cli, layout, toServer, chosen, faulty, hits, remainder, shipCount, round>>
  BY DEF GameLost, Over, game
<1>2. /\ toClient' \in Seq(Responses) /\ srv' \in {"lost", "failed"}
      /\ cli \notin CliEnds => srv' = "lost" /\ toClient' = Append(toClient, Over)
  BY <1>1, Sends, Answers DEF IInv
<1>3. ServerInv'
  BY <1>1, <1>2
     DEF IInv, TypeOK, ServerInv, ServerTypes, LayoutInv, CountInv, EndInv, SrvEnds
<1>4. OtherTypes'
  BY <1>1 DEF IInv, TypeOK, OtherTypes
<1>5. FlipInv'
  BY <1>1 DEF IInv, FlipInv, Sent
<1>6. TurnInv'
  <2> SUFFICES ASSUME ~faulty PROVE TurnInv'
    BY <1>1 DEF TurnInv
  <2>1. CASE cli = "sigfpe"
    BY <1>1, <2>1 DEF IInv, TurnInv
  <2> SUFFICES ASSUME cli # "sigfpe" PROVE TurnInv'
    BY <2>1
  <2>2. \/ cli \in {"move", "hangs"} /\ toServer = <<>> /\ toClient = <<>>
        \/ cli = "recv" /\ OneRequest /\ toClient = <<>>
        \/ cli = "recv" /\ toServer = <<>> /\ \E msg \in Ongoing : toClient = <<msg>>
    BY <1>1 DEF IInv, TurnInv, TypeOK, CliEnds, SrvEnds
  <2>3. srv' = "lost" /\ toClient' = Append(toClient, Over)
    BY <1>2, <2>2 DEF CliEnds, SrvEnds
  <2>4. Append(<<>>, Over) = <<Over>> /\ \A msg \in Ongoing : Append(<<msg>>, Over) = <<msg, Over>>
    BY AppendTwo
  <2>5. UNCHANGED <<OneRequest, cli, toServer, faulty, chosen>>
    BY <1>1 DEF OneRequest
  <2> QED  BY <2>2, <2>3, <2>4, <2>5 DEF TurnInv
<1> QED  BY <1>3, <1>4, <1>5, <1>6 DEF IInv, TypeOK, ServerInv, ServerTypes, OtherTypes

\* What changes neither the server nor its queue keeps what is known of it.
LEMMA ServerKept ==
  ASSUME IInv, UNCHANGED <<srv, layout, hits, remainder, shipCount, round>>,
         toClient' \in Seq(Responses)
  PROVE  ServerInv'
BY DEF IInv, TypeOK, ServerInv, ServerTypes, LayoutInv, CountInv, EndInv

LEMMA ConnectKeeps == ASSUME IInv, Connect PROVE IInv'
<1>1. /\ cli = "connect"
      /\ UNCHANGED <<layout, toServer, toClient, chosen, faulty, hits, remainder, shipCount, round>>
  BY DEF Connect, game
<1>2. \/ srv = "listen" /\ srv' = "play" /\ cli' = "move"
      \/ srv' = srv /\ cli' = "failed"
  BY DEF Connect
<1>3. ServerInv'
  BY <1>1, <1>2
     DEF IInv, TypeOK, ServerInv, ServerTypes, LayoutInv, CountInv, EndInv, SrvEnds
<1>4. OtherTypes'
  BY <1>1, <1>2 DEF IInv, TypeOK, OtherTypes, CliEnds, SrvEnds
<1>5. FlipInv'
  BY <1>1, <1>2 DEF IInv, FlipInv, Sent, CliEnds, SrvEnds
<1>6. TurnInv'
  BY <1>1, <1>2 DEF IInv, TurnInv
<1> QED  BY <1>3, <1>4, <1>5, <1>6 DEF IInv, TypeOK, ServerInv, ServerTypes, OtherTypes

\* The client sends a request, or one with a flipped bit.
LEMMA MoveKeeps == ASSUME IInv, Move PROVE IInv'
<1>1. /\ cli = "move"
      /\ UNCHANGED <<srv, layout, toClient, hits, remainder, shipCount, round>>
  BY DEF Move, game
<1>2. TypeOK /\ layout \in Layouts /\ chosen \subseteq Cells /\ faulty \in BOOLEAN
  BY DEF IInv, TypeOK
<1>3. ServerInv'
  BY <1>1, <1>2, ServerKept DEF TypeOK
<1>4. CASE /\ BrokenPipe(toServer, srv \in SrvEnds)
           /\ cli' = "failed" /\ UNCHANGED <<chosen, toServer, faulty>>
  <2>1. OtherTypes'
    BY <1>1, <1>4 DEF IInv, TypeOK, OtherTypes, CliEnds, SrvEnds
  <2>2. FlipInv'
    BY <1>4 DEF FlipInv, CliEnds, SrvEnds
  <2>3. TurnInv'
    BY <1>1, <1>4 DEF IInv, TurnInv, BrokenPipe
  <2> QED  BY <1>3, <2>1, <2>2, <2>3 DEF IInv, TypeOK, ServerInv, ServerTypes, OtherTypes
<1>5. CASE cli' \in {"sigfpe", "hangs"} /\ UNCHANGED <<chosen, toServer, faulty>>
  <2>1. OtherTypes'
    BY <1>1, <1>5 DEF IInv, TypeOK, OtherTypes, CliEnds, SrvEnds
  <2>2. FlipInv'
    BY <1>1, <1>5 DEF IInv, FlipInv, Sent, CliEnds, SrvEnds
  <2>3. TurnInv'
    BY <1>1, <1>5 DEF IInv, TurnInv
  <2> QED  BY <1>3, <2>1, <2>2, <2>3 DEF IInv, TypeOK, ServerInv, ServerTypes, OtherTypes
<1>6. ASSUME NEW c \in Targets(layout), NEW msg,
             chosen' = chosen \cup {c}, toServer' = Append(toServer, msg), cli' = "recv",
             \/ msg = Request(c) /\ UNCHANGED faulty
             \/ faulty' = TRUE /\ \E b \in 0 .. 15 : msg = Flipped(Request(c), b)
      PROVE  IInv'
  <2>1. c \in Cells
    BY <1>2, BattleshipAssumption
  <2>2. msg \in SUBSET (0 .. 15)
    <3>1. Request(c) \in SUBSET (0 .. 15)
      BY <2>1, RequestBits
    <3> QED  BY <1>6, <3>1 DEF Flipped
  <2>3. OtherTypes'
    BY <1>1, <1>2, <1>6, <2>1, <2>2, AppendProperties DEF TypeOK, OtherTypes
  <2>4. FlipInv'
    <3>1. hits \subseteq chosen /\ \A i \in DOMAIN toServer : Sent(toServer[i])
      BY <1>1 DEF IInv, FlipInv, CliEnds, SrvEnds
    <3>3. Sent(msg)'
      BY <1>6 DEF Sent
    <3>4. /\ toServer \in Seq(SUBSET (0 .. 15)) /\ DOMAIN toServer = 1 .. Len(toServer)
          /\ Len(toServer) \in Nat /\ toServer' \in Seq(SUBSET (0 .. 15))
          /\ Len(toServer') = Len(toServer) + 1 /\ DOMAIN toServer' = 1 .. Len(toServer')
          /\ \A i \in 1 .. Len(toServer) : toServer'[i] = toServer[i]
          /\ toServer'[Len(toServer) + 1] = msg
      BY <1>2, <1>6, <2>2, LenProperties, AppendProperties DEF TypeOK
    <3>5. ASSUME NEW i \in DOMAIN toServer' PROVE Sent(toServer[i])'
      <4>1. i \in 1 .. Len(toServer) \/ i = Len(toServer) + 1
        BY <3>4
      <4>2. CASE i \in 1 .. Len(toServer)
        <5>1. Sent(toServer[i])
          BY <3>1, <3>4, <4>2
        <5> QED  BY <1>6, <3>4, <4>2, <5>1 DEF Sent
      <4>3. CASE i = Len(toServer) + 1
        BY <1>6, <3>4, <4>3 DEF Sent
      <4> QED  BY <4>1, <4>2, <4>3
    <3> QED  BY <1>1, <1>6, <3>1, <3>5 DEF FlipInv
  <2>5. TurnInv'
    <3> SUFFICES ASSUME ~faulty' PROVE TurnInv'
      BY DEF TurnInv
    <3>1. ~faulty /\ msg = Request(c)
      BY <1>2, <1>6
    <3>2. \/ toServer = <<>> /\ srv = "play" /\ toClient = <<>>
          \/ toServer = <<>> /\ srv = "lost" /\ toClient = <<Over>>
      BY <1>1, <3>1 DEF IInv, TurnInv
    <3>3. toServer' = <<Request(c)>>
      BY <1>6, <3>1, <3>2, AppendTwo
    <3>4. OneRequest'
      BY <2>1, <3>3 DEF OneRequest
    <3> QED  BY <1>1, <1>6, <3>2, <3>4 DEF TurnInv
  <2> QED  BY <1>3, <2>3, <2>4, <2>5 DEF IInv, TypeOK, ServerInv, ServerTypes, OtherTypes
<1>7. CASE /\ cli' = "recv"
           /\ \E c \in Targets(layout) :
                /\ chosen' = chosen \cup {c}
                /\ \/ toServer' = Append(toServer, Request(c)) /\ UNCHANGED faulty
                   \/ /\ faulty' = TRUE
                      /\ \E b \in 0 .. 15 : toServer' = Append(toServer, Flipped(Request(c), b))
  <2>1. PICK c \in Targets(layout) :
          /\ chosen' = chosen \cup {c}
          /\ \/ toServer' = Append(toServer, Request(c)) /\ UNCHANGED faulty
             \/ /\ faulty' = TRUE
                /\ \E b \in 0 .. 15 : toServer' = Append(toServer, Flipped(Request(c), b))
    BY <1>7
  <2>2. CASE toServer' = Append(toServer, Request(c)) /\ UNCHANGED faulty
    BY <1>6, <1>7, <2>1, <2>2
  <2>3. CASE /\ faulty' = TRUE
             /\ \E b \in 0 .. 15 : toServer' = Append(toServer, Flipped(Request(c), b))
    BY <1>6, <1>7, <2>1, <2>3
  <2> QED  BY <2>1, <2>2, <2>3
<1> QED  BY <1>4, <1>5, <1>7 DEF Move

LEMMA VerdictType ==
  ASSUME NEW msg \in Responses
  PROVE  Verdict(msg) \in CliEnds \cup {"move"}
BY DEF Responses, Verdict, CliEnds, SrvEnds

LEMMA ReceiveKeeps == ASSUME IInv, Receive PROVE IInv'
<1>1. /\ cli = "recv" /\ toClient # <<>> /\ cli' = Verdict(Head(toClient))
      /\ toClient' = Tail(toClient)
      /\ UNCHANGED <<srv, layout, toServer, chosen, faulty, hits, remainder, shipCount, round>>
  BY DEF Receive, game
<1>2. Head(toClient) \in Responses /\ Tail(toClient) \in Seq(Responses)
  BY <1>1, HeadTailProperties DEF IInv, TypeOK
<1>3. cli' \in CliEnds \cup {"move"}
  BY <1>1, <1>2, VerdictType
<1>4. ServerInv'
  BY <1>1, <1>2, ServerKept
<1>5. OtherTypes'
  BY <1>1, <1>3 DEF IInv, TypeOK, OtherTypes
<1>6. FlipInv'
  BY <1>1 DEF IInv, FlipInv, Sent, CliEnds, SrvEnds
<1>7. TurnInv'
  <2> SUFFICES ASSUME ~faulty PROVE TurnInv'
    BY <1>1 DEF TurnInv
  <2>1. UNCHANGED OneRequest
    BY <1>1 DEF OneRequest
  <2>2. \A msg \in Ongoing : Verdict(msg) = "move"
    BY DEF Ongoing, Verdict
  <2>3. Verdict(Over) = "lost" /\ Verdict(Response("game_over", "last_sunk")) = "won"
    BY DEF Over, Response, Verdict
  <2>4. \A x, y : /\ Head(<<x>>) = x /\ Tail(<<x>>) = <<>>
                 /\ Head(<<x, y>>) = x /\ Tail(<<x, y>>) = <<y>>
    OBVIOUS
  <2>5. CASE srv = "play" /\ toServer = <<>> /\ \E msg \in Ongoing : toClient = <<msg>>
    BY <1>1, <2>2, <2>4, <2>5 DEF TurnInv
  <2>6. CASE /\ srv = "won" /\ toServer = <<>>
             /\ toClient = <<Response("game_over", "last_sunk")>>
    BY <1>1, <2>3, <2>4, <2>6 DEF TurnInv
  <2>7. CASE srv = "lost" /\ toServer = <<>> /\ \E msg \in Ongoing : toClient = <<msg, Over>>
    BY <1>1, <2>2, <2>4, <2>7 DEF TurnInv
  <2>8. CASE srv = "lost" /\ OneRequest /\ toClient = <<Over>>
    BY <1>1, <2>3, <2>4, <2>8 DEF TurnInv
  <2> QED  BY <1>1, <2>5, <2>6, <2>7, <2>8 DEF IInv, TurnInv
<1> QED  BY <1>4, <1>5, <1>6, <1>7 DEF IInv, TypeOK, ServerInv, ServerTypes, OtherTypes

\* Only after a fault the client waits for an answer that does not come.
LEMMA ReceiveAtEndKeeps == ASSUME IInv, ReceiveAtEnd PROVE IInv'
<1>1. /\ cli = "recv" /\ toClient = <<>> /\ srv \in SrvEnds
      /\ UNCHANGED <<srv, layout, toServer, toClient, chosen, faulty,
                     hits, remainder, shipCount, round>>
  BY DEF ReceiveAtEnd, game
<1>2. cli' \in CliEnds \cup {"move"}
  BY VerdictType DEF ReceiveAtEnd, CliEnds, SrvEnds
<1>3. ServerInv'
  BY <1>1, ServerKept DEF IInv, TypeOK
<1>4. OtherTypes'
  BY <1>1, <1>2 DEF IInv, TypeOK, OtherTypes
<1>5. FlipInv'
  BY <1>1 DEF IInv, FlipInv, Sent, CliEnds, SrvEnds
<1>6. TurnInv'
  BY <1>1 DEF IInv, TurnInv, SrvEnds
<1> QED  BY <1>3, <1>4, <1>5, <1>6 DEF IInv, TypeOK, ServerInv, ServerTypes, OtherTypes

LEMMA KillKeeps == ASSUME IInv, Kill PROVE IInv'
<1>1. /\ faulty' = TRUE
      /\ UNCHANGED <<layout, toServer, toClient, chosen, hits, remainder, shipCount, round>>
      /\ \/ srv \notin SrvEnds /\ srv' = "failed" /\ cli' = cli
         \/ cli' = "failed" /\ srv' = srv
  BY DEF Kill, game
<1>2. ServerInv'
  BY <1>1 DEF IInv, TypeOK, ServerInv, ServerTypes, LayoutInv, CountInv, EndInv, SrvEnds
<1>3. OtherTypes'
  BY <1>1 DEF IInv, TypeOK, OtherTypes, CliEnds, SrvEnds
<1>4. FlipInv'
  BY <1>1 DEF IInv, FlipInv, Sent, CliEnds, SrvEnds
<1>5. TurnInv'
  BY <1>1 DEF TurnInv
<1> QED  BY <1>2, <1>3, <1>4, <1>5 DEF IInv, TypeOK, ServerInv, ServerTypes, OtherTypes

-----------------------------------------------------------------------------
(* The theorems.                                                           *)

(***************************************************************************)
(* IInv is an invariant of the game.                                       *)
(***************************************************************************)
THEOREM InductiveInvariant == Spec => []IInv
<1>1. Init => IInv
  BY InitInv
<1>2. IInv /\ [Next]_vars => IInv'
  <2> SUFFICES ASSUME IInv, [Next]_vars PROVE IInv'
    OBVIOUS
  <2>1. CASE Server
    BY <2>1, ParseArgsKeeps, ServerRoundKeeps, ServerRoundAtEndKeeps, GameLostKeeps DEF Server
  <2>2. CASE Client
    BY <2>2, ConnectKeeps, MoveKeeps, ReceiveKeeps, ReceiveAtEndKeeps DEF Client
  <2>3. CASE Kill
    BY <2>3, KillKeeps
  <2>4. CASE UNCHANGED vars
    BY <2>4 DEF vars, IInv, TypeOK, LayoutInv, CountInv, EndInv, FlipInv, Sent, TurnInv, OneRequest
  <2> QED  BY <2>1, <2>2, <2>3, <2>4 DEF Next
<1> QED  BY <1>1, <1>2, PTL DEF Spec

(***************************************************************************)
(* parse_args accepts the legal layouts and no others, although            *)
(* check_ship_touch looks at the two ends of a ship only.                  *)
(***************************************************************************)
THEOREM LayoutsChecked == Spec => []LayoutChecked
<1>1. IInv => LayoutChecked
  <2> SUFFICES ASSUME IInv PROVE LayoutChecked
    OBVIOUS
  <2>1. Accepts(layout) <=> Legal(layout)
    BY Types, AcceptsLegal DEF IInv
  <2> QED  BY <2>1 DEF IInv, LayoutInv, LayoutChecked, Started
<1> QED  BY <1>1, InductiveInvariant, PTL

(***************************************************************************)
(* What shoot counts down per ship is the number of its cells not hit yet, *)
(* and ship_count the number of ships that have such cells.                *)
(***************************************************************************)
THEOREM CountersRight == Spec => []CountersAgree
<1>1. IInv => CountersAgree
  BY DEF IInv, CountInv, CountersAgree, Started
<1> QED  BY <1>1, InductiveInvariant, PTL

(***************************************************************************)
(* The server carries out no shot the client did not choose: calc_parity   *)
(* and check_coordinate together notice every single flipped bit.          *)
(***************************************************************************)
THEOREM FlipsNoticed == Spec => []FlipNoticed
<1>1. IInv => FlipNoticed
  BY DEF IInv, FlipInv, FlipNoticed
<1> QED  BY <1>1, InductiveInvariant, PTL

(***************************************************************************)
(* Without faults, and unless the client dies in next_move, both sides end *)
(* with the same verdict, won if and only if all ships are sunk, and lost  *)
(* after MAX_ROUNDS rounds.                                                *)
(***************************************************************************)
THEOREM OneVerdict == Spec => []VerdictsAgree
<1>1. IInv => VerdictsAgree
  <2> SUFFICES ASSUME IInv, ~faulty, chosen # {}, cli \in CliEnds \ {"sigfpe"}
               PROVE  /\ srv = cli /\ cli \in {"won", "lost"}
                      /\ cli = "won" <=> UNION {CellsOf(layout[s]) : s \in DOMAIN layout} \subseteq hits
                      /\ cli = "lost" => round = MaxRounds
    BY DEF VerdictsAgree
  <2>1. srv = cli /\ cli \in {"won", "lost"}
    BY DEF IInv, TurnInv, TypeOK, CliEnds, SrvEnds
  <2>2. /\ remainder # <<>> /\ layout \in Lay /\ remainder \in [DOMAIN layout -> Nat]
        /\ Counts(layout, hits, remainder, shipCount)
    BY <2>1, Types DEF IInv, LayoutInv, CountInv, Counts
  <2>3. cli = "won" <=> shipCount = 0
    BY <2>1 DEF IInv, EndInv
  <2>4. shipCount = 0 <=> UNION {CellsOf(layout[s]) : s \in DOMAIN layout} \subseteq hits
    BY <2>2, AllSunk
  <2> QED  BY <2>1, <2>3, <2>4 DEF IInv, EndInv
<1> QED  BY <1>1, InductiveInvariant, PTL

=============================================================================
