---------------------------- MODULE SolverProofs ----------------------------
(***************************************************************************)
(* Theorems about Solver, for maps of up to 32 times 32 cells, every fleet *)
(* and every legal layout.                                                 *)
(*                                                                         *)
(* ShotsFresh: the solver never wastes a round.  The invariant behind it   *)
(* is that the solver's own map knows every cell the server has seen but   *)
(* the last one, of which the report is still to be recorded; nothing the  *)
(* solver does, however wrong about the ships, makes a known cell unknown  *)
(* again.                                                                  *)
(*                                                                         *)
(* TallFleetJudged: of a fleet that get_ship_at can read, everything the   *)
(* solver believes is true.                                                *)
(*                                                                         *)
(* HuntsAround: it stays with the ship it has hit.  The queue of targets   *)
(* holds the unknown cells next to the hits of this hunt and no others.    *)
(***************************************************************************)
EXTENDS Solver, TLAPS, FiniteSetTheorems, SequenceTheorems

Fields == {"mark", "targets", "hits", "counts", "scan"}

\* What the proof needs to know of the memory.
IsMem(m) == DOMAIN m = Fields /\ m.mark \in [Cells -> Marks]

\* No cell that m knows is unknown in n.
KeepsKnown(m, n) == IsMem(n) /\ Unknown(n) \subseteq Unknown(m)

LastInv == last # None => last.shot \in Cells

\* The server has seen no cell that is unknown, but for the last one.
KnownInv ==
  /\ shots \subseteq Cells
  /\ last = None => shots = {}
  /\ last # None => shots \cap Unknown(mem) \subseteq {last.shot}

SInv == IsMem(mem) /\ LastInv /\ KnownInv

\* A field of a memory can be replaced without touching the marks.
LEMMA PutMissKeeps ==
  ASSUME NEW m, IsMem(m), NEW cs
  PROVE  KeepsKnown(m, PutMiss(m, cs))
BY DEF KeepsKnown, IsMem, Unknown, PutMiss, Marks, Fields

\* A known mark on a cell.
LEMMA MarkKeeps ==
  ASSUME NEW m, IsMem(m), NEW c \in Cells, NEW v \in {"hit", "miss"}
  PROVE  LET n == [m EXCEPT !.mark[c] = v]
         IN  KeepsKnown(m, n) /\ c \notin Unknown(n)
BY DEF KeepsKnown, IsMem, Unknown, Marks, Fields

LEMMA NoHitKeeps ==
  ASSUME NEW m, IsMem(m), NEW c \in Cells
  PROVE  KeepsKnown(m, NoHit(m, c)) /\ c \notin Unknown(NoHit(m, c))
BY MarkKeeps DEF NoHit

LEMMA HitKeeps ==
  ASSUME NEW m, IsMem(m), NEW c \in Cells
  PROVE  KeepsKnown(m, Hit(m, c)) /\ c \notin Unknown(Hit(m, c))
<1> DEFINE marked == [m EXCEPT !.mark[c] = "hit", !.scan = FALSE]
<1>1. IsMem(marked) /\ Unknown(marked) = Unknown(m) \ {c}
  BY DEF IsMem, Unknown, Marks, Fields
<1>2. \A n : IsMem(n) => IsMem(AddTargets(n, c)) /\ AddTargets(n, c).mark = n.mark
  BY DEF IsMem, AddTargets, Fields
<1> HIDE DEF marked
<1>3. IsMem(AddTargets(marked, c)) /\ AddTargets(marked, c).mark = marked.mark
  BY <1>1, <1>2
<1>4. Hit(m, c) = [AddTargets(marked, c) EXCEPT !.hits = <<c>> \o @]
  BY DEF Hit, marked
<1>5. IsMem(Hit(m, c)) /\ Hit(m, c).mark = marked.mark
  BY <1>3, <1>4 DEF IsMem, Fields
<1> QED  BY <1>1, <1>5 DEF KeepsKnown, Unknown

LEMMA SunkKeeps ==
  ASSUME NEW m, IsMem(m), NEW c \in Cells
  PROVE  KeepsKnown(m, Sunk(m, c)) /\ c \notin Unknown(Sunk(m, c))
<1> DEFINE marked == [m EXCEPT !.mark[c] = "hit"]
           surrounded == PutMiss(marked, Surroundings(GetShipAt(marked, c)))
<1>1. KeepsKnown(m, marked) /\ c \notin Unknown(marked)
  BY MarkKeeps
<1>2. IsMem(marked)
  BY <1>1 DEF KeepsKnown
<1> HIDE DEF marked
<1>3. KeepsKnown(marked, surrounded)
  BY <1>2, PutMissKeeps
<1>4. IsMem(Sunk(m, c)) /\ Sunk(m, c).mark = surrounded.mark
  <2> DEFINE ship == GetShipAt(marked, c)
             Less(n) == (n + 255) % 256
  <2>1. Sunk(m, c) = [surrounded EXCEPT
          !.counts = [n \in DOMAIN @ |-> IF n = ship.len THEN Less(@[n]) ELSE @[n]],
          !.targets = <<>>, !.hits = <<>>, !.scan = TRUE]
    BY DEF Sunk, marked
  <2> HIDE DEF surrounded, ship, Less
  <2> QED  BY <1>3, <2>1 DEF KeepsKnown, IsMem, Fields
<1> QED  BY <1>1, <1>3, <1>4 DEF KeepsKnown, Unknown

\* After the report is recorded the solver knows all shots.
LEMMA RecordKnowsAll ==
  ASSUME SInv
  PROVE  IsMem(Record(mem)) /\ shots \cap Unknown(Record(mem)) = {}
<1>1. CASE last = None
  BY <1>1 DEF SInv, KnownInv, Record
<1>2. CASE last # None
  <2>1. /\ KeepsKnown(mem, Record(mem)) /\ last.shot \notin Unknown(Record(mem))
    BY <1>2, HitKeeps, NoHitKeeps, SunkKeeps DEF Record, SInv, LastInv
  <2> QED  BY <1>2, <2>1 DEF SInv, KnownInv, KeepsKnown
<1> QED  BY <1>1, <1>2

\* The choice changes no mark, and its candidate is unknown.
LEMMA ChoiceUnknown ==
  ASSUME NEW m, IsMem(m)
  PROVE  /\ IsMem(Choice(m).mem)
         /\ Unknown(Choice(m).mem) = Unknown(m)
         /\ Choice(m).aim \subseteq Unknown(m)
<1>1. IsMem(GiveUp(m)) /\ Unknown(GiveUp(m)) = Unknown(m)
  BY DEF GiveUp, IsMem, Unknown, Fields
<1>2. IsMem(AfterPops(m)) /\ Unknown(AfterPops(m)) = Unknown(m)
  BY DEF AfterPops, IsMem, Unknown, Fields
<1>3. Aimed(m) \subseteq Unknown(m)
  BY DEF Aimed, Stops, Unknown
<1> QED  BY <1>1, <1>2, <1>3 DEF Choice

\* A move either shoots at a cell the server has not seen, or ends the game.
LEMMA MoveFresh ==
  ASSUME SInv, Move
  PROVE  /\ SInv'
         /\ round' # round => last'.shot \in Cells \ shots
<1> DEFINE m == Record(mem)
<1>1. IsMem(m) /\ shots \cap Unknown(m) = {}
  BY RecordKnowsAll
<1>2. /\ IsMem(mem') /\ Unknown(mem') = Unknown(m)
      /\ Choice(m).aim \subseteq Unknown(m)
  BY <1>1, ChoiceUnknown DEF Move
<1>3. \/ UNCHANGED <<last, shots, round>>
      \/ \E c \in Unknown(m) : Shoot(c)
  BY <1>2 DEF Move, RandomShot
<1>4. CASE UNCHANGED <<last, shots, round>>
  BY <1>1, <1>2, <1>4 DEF SInv, LastInv, KnownInv, Unknown
<1>5. CASE \E c \in Unknown(m) : Shoot(c)
  <2>1. PICK c \in Unknown(m) : Shoot(c)
    BY <1>5
  <2>2. c \in Cells \ shots
    BY <1>1, <2>1 DEF Unknown
  <2>3. last' = [shot |-> c, report |-> Report(c)] /\ shots' = shots \cup {c}
    BY <2>1 DEF Shoot
  <2>4. last' # None /\ last'.shot = c
    BY <2>3 DEF None
  <2> QED  BY <1>1, <1>2, <2>2, <2>3, <2>4 DEF SInv, LastInv, KnownInv, Unknown
<1> QED  BY <1>3, <1>4, <1>5

(***************************************************************************)
(* The solver's map knows every shot but the last: no marking of the       *)
(* surroundings of a ship, right or wrong, forgets one.                    *)
(***************************************************************************)
THEOREM ShotsKnown == Spec => []SInv
<1>1. Init => SInv
  BY DEF Init, Fresh, SInv, IsMem, LastInv, KnownInv, Fields, Marks
<1>2. SInv /\ [Next]_vars => SInv'
  <2>1. ASSUME SInv, Move PROVE SInv'
    BY <2>1, MoveFresh
  <2>2. ASSUME SInv, UNCHANGED vars PROVE SInv'
    BY <2>2 DEF vars, SInv, IsMem, LastInv, KnownInv, Unknown
  <2> QED  BY <2>1, <2>2 DEF Next
<1> QED  BY <1>1, <1>2, PTL DEF Spec

(***************************************************************************)
(* Every shot lies on the map and is one the server has not seen.          *)
(***************************************************************************)
THEOREM FreshShots == Spec => ShotsFresh
<1>1. ASSUME SInv, [Next]_vars
      PROVE  [round' # round => last'.shot \in Cells \ shots]_vars
  BY <1>1, MoveFresh DEF Next, vars
<1> QED  BY <1>1, ShotsKnown, PTL DEF Spec, ShotsFresh

-----------------------------------------------------------------------------
(* Ships on the map.                                                       *)

Args == Cells \X Cells

\* Side by side, or at a corner, or the same.
Near(c, d) == c[1] - d[1] \in -1 .. 1 /\ c[2] - d[2] \in -1 .. 1

\* The layout is one of those played.
Placed == layout \in Layouts

\* The layout is one that get_ship_at can read.
TallPlaced == Placed /\ Tall(layout)

\* The ends of a line lie on the map, the first before the second.
LEMMA EndsOfArg ==
  ASSUME NEW arg \in Args
  PROVE  /\ Begin(arg) \in Cells /\ End(arg) \in Cells
         /\ Begin(arg)[1] <= End(arg)[1] /\ Begin(arg)[2] <= End(arg)[2]
<1>1. Size \in Nat
  BY MapAssumption
<1>2. /\ arg[1][1] \in 0 .. Size - 1 /\ arg[1][2] \in 0 .. Size - 1
      /\ arg[2][1] \in 0 .. Size - 1 /\ arg[2][2] \in 0 .. Size - 1
  BY DEF Args, Cells
<1>3. /\ Least(arg[1][1], arg[2][1]) \in 0 .. Size - 1
      /\ Least(arg[1][2], arg[2][2]) \in 0 .. Size - 1
      /\ Greatest(arg[1][1], arg[2][1]) \in 0 .. Size - 1
      /\ Greatest(arg[1][2], arg[2][2]) \in 0 .. Size - 1
      /\ Least(arg[1][1], arg[2][1]) <= Greatest(arg[1][1], arg[2][1])
      /\ Least(arg[1][2], arg[2][2]) <= Greatest(arg[1][2], arg[2][2])
  BY <1>1, <1>2 DEF Least, Greatest
<1> QED  BY <1>3 DEF Begin, End, Cells

\* A layout played obeys the rules.
LEMMA LegalLayout ==
  ASSUME Placed
  PROVE  /\ layout \in Seq(Args) /\ Legal(layout)
         /\ Len(layout) \in Nat /\ Ships = 1 .. Len(layout)
         /\ \A s \in Ships : layout[s] \in Args /\ IsShip(layout[s]) /\ s # NoShip
<1>1. layout \in Seq(Args) /\ Legal(layout)
  BY SolverAssumption DEF Placed, Args
<1>2. Len(layout) \in Nat /\ Ships = 1 .. Len(layout)
  BY <1>1, LenProperties DEF Ships
<1>3. \A s \in Ships : layout[s] \in Args
  BY <1>1, <1>2, ElementOfSeq DEF Ships
<1> QED  BY <1>1, <1>2, <1>3 DEF Legal, Ships, NoShip

\* A ship of a tall layout stands in a column, above the last row.
LEMMA Standing ==
  ASSUME TallPlaced, NEW s \in Ships
  PROVE  LET b == Begin(layout[s])
             e == End(layout[s])
         IN  /\ b \in Cells /\ e \in Cells
             /\ b[1] < e[1] /\ e[1] < Size - 1
             /\ CellsOf(layout[s]) = {<<r, b[2]>> : r \in b[1] .. e[1]}
             /\ Length(layout[s]) = e[1] - b[1] + 1
             /\ Length(layout[s]) \in MinLen .. MaxLen
             /\ ShipAt(layout, <<e[1] + 2, b[2]>>) = NoShip
<1> DEFINE b == Begin(layout[s])
           e == End(layout[s])
<1>1. layout[s] \in Args /\ IsShip(layout[s])
  BY LegalLayout DEF TallPlaced
<1>2. b \in Cells /\ e \in Cells /\ b[1] <= e[1] /\ b[2] <= e[2]
  BY <1>1, EndsOfArg
<1>3. /\ e[1] > b[1] /\ e[1] < Size - 1
      /\ ShipAt(layout, <<e[1] + 2, e[2]>>) = NoShip
  BY DEF TallPlaced, Tall, Ships
<1>4. /\ b[1] = e[1] \/ b[2] = e[2]
      /\ Length(layout[s]) \in MinLen .. MaxLen
      /\ Length(layout[s]) = Greatest(e[1] - b[1], e[2] - b[2]) + 1
      /\ CellsOf(layout[s]) = (b[1] .. e[1]) \X (b[2] .. e[2])
  BY <1>1 DEF IsShip, Length, CellsOf
<1> HIDE DEF b, e
<1>5. /\ Size \in Nat
      /\ b[1] \in 0 .. Size - 1 /\ b[2] \in 0 .. Size - 1
      /\ e[1] \in 0 .. Size - 1 /\ e[2] \in 0 .. Size - 1
  BY <1>2, MapAssumption DEF Cells
<1>6. b[2] = e[2]
  BY <1>3, <1>4, <1>5
<1>7. Length(layout[s]) = e[1] - b[1] + 1
  BY <1>3, <1>4, <1>5, <1>6 DEF Greatest
<1>8. b[2] .. e[2] = {b[2]}
  BY <1>5, <1>6
<1>9. CellsOf(layout[s]) = {<<r, b[2]>> : r \in b[1] .. e[1]}
  BY <1>4, <1>8
<1> QED  BY <1>2, <1>3, <1>4, <1>6, <1>7, <1>9 DEF b, e

\* Its cells lie on the map.
LEMMA ShipOnMap ==
  ASSUME TallPlaced, NEW s \in Ships
  PROVE  /\ CellsOf(layout[s]) \subseteq Cells /\ CellsOf(layout[s]) \subseteq Fleet
         /\ Begin(layout[s]) \in CellsOf(layout[s])
<1> DEFINE b == Begin(layout[s])
           e == End(layout[s])
<1>1. /\ b \in Cells /\ e \in Cells /\ b[1] < e[1]
      /\ CellsOf(layout[s]) = {<<r, b[2]>> : r \in b[1] .. e[1]}
  BY Standing
<1> HIDE DEF b, e
<1>2. /\ b[1] \in 0 .. Size - 1 /\ b[2] \in 0 .. Size - 1 /\ b = <<b[1], b[2]>>
      /\ e[1] \in 0 .. Size - 1 /\ Size \in Nat
  BY <1>1, MapAssumption DEF Cells
<1>3. CellsOf(layout[s]) \subseteq Cells /\ b \in CellsOf(layout[s])
  BY <1>1, <1>2 DEF Cells
<1>4. CellsOf(layout[s]) \subseteq Fleet
  BY DEF Fleet, Ships
<1> QED  BY <1>3, <1>4 DEF b

\* A cell of the fleet near a ship belongs to it.
LEMMA Alone ==
  ASSUME TallPlaced, NEW s \in Ships, NEW c \in CellsOf(layout[s]), NEW d \in Fleet, Near(c, d)
  PROVE  d \in CellsOf(layout[s])
<1>1. PICK t \in Ships : d \in CellsOf(layout[t])
  BY DEF Fleet, Ships
<1>2. Touch(layout[s], layout[t])
  BY <1>1 DEF Touch, Near
<1>3. s = t
  BY <1>2, LegalLayout DEF TallPlaced, Legal, Ships
<1> QED  BY <1>1, <1>3

\* So no cell belongs to two ships, and the field of a cell is its ship.
LEMMA OneShip ==
  ASSUME TallPlaced, NEW s \in Ships, NEW c \in CellsOf(layout[s])
  PROVE  /\ \A t \in Ships : c \in CellsOf(layout[t]) => t = s
         /\ ShipAt(layout, c) = s /\ ShipOf(c) = CellsOf(layout[s])
<1>1. c \in Cells
  BY ShipOnMap
<1>2. Near(c, c)
  BY <1>1, MapAssumption DEF Near, Cells
<1>3. \A t \in Ships : c \in CellsOf(layout[t]) => t = s
  BY <1>2, LegalLayout DEF TallPlaced, Legal, Ships, Touch, Near
<1> DEFINE here == {t \in DOMAIN layout : c \in CellsOf(layout[t])}
<1>4. here = {s}
  BY <1>3 DEF Ships
<1>5. s <= s
  BY LegalLayout DEF TallPlaced
<1>6. (CHOOSE t \in here : \A u \in here : u <= t) = s
  BY <1>4, <1>5
<1>7. ShipAt(layout, c) = s
  BY <1>4, <1>6 DEF ShipAt
<1> QED  BY <1>3, <1>7 DEF ShipOf

\* The field of a cell is empty where no ship is.
LEMMA NoShipAt ==
  ASSUME TallPlaced, NEW c
  PROVE  ShipAt(layout, c) = NoShip <=> c \notin Fleet
<1>1. ASSUME c \in Fleet PROVE ShipAt(layout, c) # NoShip
  <2>1. PICK s \in Ships : c \in CellsOf(layout[s])
    BY <1>1 DEF Fleet, Ships
  <2> QED  BY <2>1, OneShip, LegalLayout DEF TallPlaced
<1>2. ASSUME c \notin Fleet PROVE ShipAt(layout, c) = NoShip
  <2>1. {s \in DOMAIN layout : c \in CellsOf(layout[s])} = {}
    BY <1>2 DEF Fleet
  <2> QED  BY <2>1 DEF ShipAt
<1> QED  BY <1>1, <1>2

-----------------------------------------------------------------------------
(* get_ship_at finds a standing ship.                                      *)

\* The index of a cell in map->hits, and back.
LEMMA IndexOfCell ==
  ASSUME NEW n \in 1 .. 32, NEW a \in 0 .. n - 1, NEW b \in 0 .. n - 1
  PROVE  /\ a * n + b < n * n
         /\ (a * n + b) \div n = a /\ (a * n + b) % n = b
<1>1. a * n + b \in Int /\ n \in Nat \ {0}
  OBVIOUS
<1>2. a * n + b < n * n
  <2>1. a <= n - 1
    OBVIOUS
  <2>2. a * n <= (n - 1) * n
    BY <2>1
  <2> QED  BY <2>2
<1>3. (a * n + b) \div n = a
  OBVIOUS
<1> QED  BY <1>1, <1>2, <1>3

\* On the map get_hit is the mark of the cell.
LEMMA HitOnMap ==
  ASSUME NEW m, NEW c \in Cells
  PROVE  HitAt(m, c) <=> m.mark[c] = "hit"
<1>1. Size \in 1 .. 32 /\ c[1] \in 0 .. Size - 1 /\ c[2] \in 0 .. Size - 1 /\ c = <<c[1], c[2]>>
  BY MapAssumption DEF Cells
<1> DEFINE index == c[1] * Size + c[2]
<1>2. index < Size * Size /\ index \div Size = c[1] /\ index % Size = c[2]
  BY <1>1, IndexOfCell
<1>3. HitAt(m, c) <=> m.mark[<<index \div Size, index % Size>>] = "hit"
  BY <1>2 DEF HitAt
<1> HIDE DEF index
<1> QED  BY <1>1, <1>2, <1>3

\* The least element of a set, if one is known.
LEMMA LeastIs ==
  ASSUME NEW S \in SUBSET Nat, NEW x \in S, \A y \in S : x <= y
  PROVE  Min(S) = x
<1>1. \A z \in S : (\A y \in S : z <= y) => z = x
  OBVIOUS
<1> QED  BY <1>1 DEF Min

\* A set of natural numbers has one.
LEMMA LeastElement ==
  ASSUME NEW S \in SUBSET Nat, S # {}
  PROVE  Min(S) \in S /\ \A y \in S : Min(S) <= y
<1>1. PICK x \in S : \A y \in S : <<y, x>> \notin OpToRel(<, Nat)
  BY NatLessThanWellFounded, WFMin, Zenon
<1>2. \A y \in S : ~(y < x)
  BY <1>1, Zenon DEF OpToRel
<1>3. \A y \in S : x <= y
  BY <1>2
<1> QED  BY <1>3, LeastIs

\* All cells of s are hits on the map m, and so is no cell outside the fleet.
SunkOn(m, s) ==
  /\ \A d \in Cells : m.mark[d] = "hit" => d \in Fleet
  /\ \A d \in CellsOf(layout[s]) : m.mark[d] = "hit"

\* In its column a sunk ship is a run of hits with an end above and below.
LEMMA Column ==
  ASSUME TallPlaced, NEW m, NEW s \in Ships, SunkOn(m, s)
  PROVE  LET b == Begin(layout[s])
             e == End(layout[s])
         IN  /\ \A r \in b[1] .. e[1] : <<r, b[2]>> \in Cells /\ HitAt(m, <<r, b[2]>>)
             /\ b[1] - 1 >= 0 => ~HitAt(m, <<b[1] - 1, b[2]>>)
             /\ ~HitAt(m, <<e[1] + 1, b[2]>>)
<1> DEFINE b == Begin(layout[s])
           e == End(layout[s])
<1>1. /\ b \in Cells /\ e \in Cells /\ b[1] < e[1] /\ e[1] < Size - 1
      /\ CellsOf(layout[s]) = {<<r, b[2]>> : r \in b[1] .. e[1]}
  BY Standing
<1>2. CellsOf(layout[s]) \subseteq Cells
  BY ShipOnMap
<1> HIDE DEF b, e
<1>3. /\ b[1] \in 0 .. Size - 1 /\ b[2] \in 0 .. Size - 1
      /\ e[1] \in 0 .. Size - 1 /\ Size \in Nat
  BY <1>1, MapAssumption DEF Cells
<1>4. ASSUME NEW r \in b[1] .. e[1]
      PROVE  <<r, b[2]>> \in Cells /\ HitAt(m, <<r, b[2]>>)
  <2>1. <<r, b[2]>> \in CellsOf(layout[s])
    BY <1>1
  <2>2. <<r, b[2]>> \in Cells /\ m.mark[<<r, b[2]>>] = "hit"
    BY <1>2, <2>1 DEF SunkOn
  <2> QED  BY <2>2, HitOnMap
<1>5. ASSUME NEW d \in Cells, d \notin CellsOf(layout[s]),
             NEW c \in CellsOf(layout[s]), Near(c, d)
      PROVE  ~HitAt(m, d)
  <2>1. d \notin Fleet
    BY <1>5, Alone
  <2>2. m.mark[d] # "hit"
    BY <2>1 DEF SunkOn
  <2> QED  BY <2>2, HitOnMap
<1>6. ASSUME b[1] - 1 >= 0 PROVE ~HitAt(m, <<b[1] - 1, b[2]>>)
  <2>1. <<b[1] - 1, b[2]>> \in Cells /\ <<b[1] - 1, b[2]>> \notin CellsOf(layout[s])
    BY <1>1, <1>3, <1>6 DEF Cells
  <2>2. <<b[1], b[2]>> \in CellsOf(layout[s]) /\ Near(<<b[1], b[2]>>, <<b[1] - 1, b[2]>>)
    BY <1>1, <1>3 DEF Near
  <2> QED  BY <1>5, <2>1, <2>2
<1>7. ~HitAt(m, <<e[1] + 1, b[2]>>)
  <2>1. <<e[1] + 1, b[2]>> \in Cells /\ <<e[1] + 1, b[2]>> \notin CellsOf(layout[s])
    BY <1>1, <1>3 DEF Cells
  <2>2. <<e[1], b[2]>> \in CellsOf(layout[s]) /\ Near(<<e[1], b[2]>>, <<e[1] + 1, b[2]>>)
    BY <1>1, <1>3 DEF Near
  <2> QED  BY <1>5, <2>1, <2>2
<1> QED  BY <1>4, <1>6, <1>7 DEF b, e

\* The search starts at a cell of the ship, or right above its first.
LEMMA StartsAt ==
  ASSUME TallPlaced, NEW s \in Ships, NEW c \in CellsOf(layout[s])
  PROVE  LET b == Begin(layout[s])
             e == End(layout[s])
         IN  /\ c = <<c[1], b[2]>> /\ c[1] \in b[1] .. e[1]
             /\ From(c) = IF c[1] = 0 THEN <<1, b[2]>> ELSE <<c[1] - 1, b[2]>>
             /\ Down(c) = <<c[1] + 1, b[2]>>
<1> DEFINE b == Begin(layout[s])
           e == End(layout[s])
<1>1. /\ b \in Cells /\ e \in Cells /\ b[1] < e[1] /\ e[1] < Size - 1
      /\ CellsOf(layout[s]) = {<<r, b[2]>> : r \in b[1] .. e[1]}
  BY Standing
<1> HIDE DEF b, e
<1>2. /\ b[1] \in 0 .. Size - 1 /\ b[2] \in 0 .. Size - 1
      /\ e[1] \in 0 .. Size - 1 /\ Size \in Nat
  BY <1>1, MapAssumption DEF Cells
<1>3. PICK r \in b[1] .. e[1] : c = <<r, b[2]>>
  BY <1>1
<1>4. r \in Int /\ 0 <= r /\ r < Size - 1
  BY <1>1, <1>2
<1>5. <<r + 1, b[2]>> \in Cells /\ (<<r - 1, b[2]>> \in Cells <=> r # 0)
  BY <1>2, <1>4 DEF Cells
<1>6. From(c) = IF r = 0 THEN <<1, b[2]>> ELSE <<r - 1, b[2]>>
  BY <1>3, <1>4, <1>5 DEF From, Up, Down
<1> QED  BY <1>3, <1>6 DEF b, e, Down

\* get_ship_at finds the ship of which c was the last cell.
LEMMA ShipFound ==
  ASSUME TallPlaced, NEW m, NEW s \in Ships, SunkOn(m, s), NEW c \in CellsOf(layout[s])
  PROVE  GetShipAt(m, c) =
           [begin |-> Begin(layout[s]), vertical |-> TRUE, len |-> Length(layout[s])]
<1> DEFINE b == Begin(layout[s])
           e == End(layout[s])
<1>1. /\ b \in Cells /\ e \in Cells /\ b[1] < e[1] /\ e[1] < Size - 1
      /\ Length(layout[s]) = e[1] - b[1] + 1
  BY Standing
<1>2. /\ \A r \in b[1] .. e[1] : <<r, b[2]>> \in Cells /\ HitAt(m, <<r, b[2]>>)
      /\ b[1] - 1 >= 0 => ~HitAt(m, <<b[1] - 1, b[2]>>)
      /\ ~HitAt(m, <<e[1] + 1, b[2]>>)
  BY Column
<1>3. /\ c[2] = b[2] /\ c[1] \in b[1] .. e[1]
      /\ From(c) = IF c[1] = 0 THEN <<1, b[2]>> ELSE <<c[1] - 1, b[2]>>
      /\ Down(c) = <<c[1] + 1, b[2]>>
  <2>1. c = <<c[1], b[2]>>
    BY StartsAt
  <2> QED  BY <2>1, StartsAt
<1> HIDE DEF b, e
<1>4. /\ b[1] \in 0 .. Size - 1 /\ b[2] \in 0 .. Size - 1 /\ b = <<b[1], b[2]>>
      /\ e[1] \in 0 .. Size - 1 /\ Size \in Nat
  BY <1>1, MapAssumption DEF Cells
<1>5. Upright(m, c)
  <2>1. CASE c[1] \in b[1] + 1 .. e[1]
    <3>1. c[1] # 0 /\ c[1] - 1 \in b[1] .. e[1]
      BY <1>4, <2>1
    <3> QED  BY <1>2, <1>3, <3>1 DEF Upright
  <2>2. CASE c[1] = b[1]
    <3>1. c[1] + 1 \in b[1] .. e[1]
      BY <1>1, <1>4, <2>2
    <3> QED  BY <1>2, <1>3, <3>1 DEF Upright
  <2> QED  BY <1>3, <1>4, <2>1, <2>2
<1>6. Top(m, c) = b
  <2> DEFINE row == From(c)[1]
             Hits(r) == \A k \in r .. row : <<k, c[2]>> \in Cells /\ HitAt(m, <<k, c[2]>>)
             S == {r \in 0 .. row + 1 : Hits(r)}
  <2>1. row \in Int /\ b[1] <= row + 1 /\ row <= e[1]
    BY <1>1, <1>3, <1>4
  <2> HIDE DEF row
  <2>2. Hits(b[1])
    BY <1>2, <1>3, <1>4, <2>1
  <2>3. b[1] \in S
    BY <1>4, <2>1, <2>2
  <2>4. ASSUME NEW r \in S, r < b[1] PROVE FALSE
    <3>1. b[1] - 1 \in r .. row /\ b[1] - 1 >= 0
      BY <1>4, <2>1, <2>4
    <3>2. HitAt(m, <<b[1] - 1, b[2]>>)
      BY <1>3, <3>1
    <3> QED  BY <1>2, <3>1, <3>2
  <2>5. S \in SUBSET Nat /\ \A r \in S : b[1] <= r
    BY <1>4, <2>1, <2>4
  <2> HIDE DEF S
  <2>6. Min(S) = b[1]
    BY <2>3, <2>5, LeastIs
  <2>7. Top(m, c) = <<Min(S), c[2]>>
    BY DEF Top, S, row
  <2> QED  BY <1>3, <1>4, <2>6, <2>7
<1>7. Extent(m, b, <<1, 0>>) = Length(layout[s])
  <2> DEFINE S == {n \in 1 .. Size * Size : ~HitAt(m, <<b[1] + n * 1, b[2] + n * 0>>)}
             len == e[1] - b[1] + 1
  <2>1. len \in 1 .. Size * Size
    <3>1. len \in 1 .. Size
      BY <1>1, <1>4
    <3>2. Size <= Size * Size
      BY <1>4
    <3>3. Size * Size \in Int
      BY <1>4
    <3> QED  BY <1>4, <3>1, <3>2, <3>3
  <2>2. \A n \in 1 .. Size * Size :
          <<b[1] + n * 1, b[2] + n * 0>> = <<b[1] + n, b[2]>>
    BY <1>4
  <2>3. len \in S
    <3>1. <<b[1] + len * 1, b[2] + len * 0>> = <<e[1] + 1, b[2]>>
      BY <1>4
    <3> HIDE DEF len
    <3> QED  BY <1>2, <2>1, <3>1
  <2>4. ASSUME NEW n \in S PROVE len <= n
    <3>1. n \in 1 .. Size * Size /\ ~HitAt(m, <<b[1] + n, b[2]>>)
      BY <2>2
    <3>2. n \in Int /\ 1 <= n
      BY <3>1, <1>4
    <3>3. b[1] + n \notin b[1] .. e[1]
      BY <1>2, <3>1
    <3> QED  BY <1>4, <3>2, <3>3
  <2>5. S \in SUBSET Nat
    BY <1>4
  <2> HIDE DEF S, len
  <2>6. Min(S) = len
    BY <2>3, <2>4, <2>5, LeastIs
  <2>7. Extent(m, b, <<1, 0>>) = Min(S)
    BY DEF Extent, S
  <2> QED  BY <1>1, <2>6, <2>7 DEF len
<1> QED  BY <1>5, <1>6, <1>7 DEF GetShipAt, b

\* The cells marked as water around it are water.
LEMMA SurroundingsClear ==
  ASSUME TallPlaced, NEW s \in Ships
  PROVE  Surroundings([begin |-> Begin(layout[s]), vertical |-> TRUE, len |-> Length(layout[s])])
           \cap Fleet = {}
<1> DEFINE b == Begin(layout[s])
           e == End(layout[s])
           len == Length(layout[s])
           offsets == 0 .. len - 1
           around == {<<b[1] - 1, b[2]>>, <<b[1] + len + 1, b[2]>>}
                       \cup {<<b[1] + i, b[2] - 1>> : i \in offsets}
                       \cup {<<b[1] + i, b[2] + 1>> : i \in offsets}
<1>1. /\ b \in Cells /\ e \in Cells /\ b[1] < e[1] /\ len = e[1] - b[1] + 1
      /\ CellsOf(layout[s]) = {<<r, b[2]>> : r \in b[1] .. e[1]}
      /\ ShipAt(layout, <<e[1] + 2, b[2]>>) = NoShip
  BY Standing
<1>2. Surroundings([begin |-> b, vertical |-> TRUE, len |-> len]) = around
  BY DEF Surroundings
<1> HIDE DEF b, e, len
<1>3. b[1] \in Int /\ b[2] \in Int /\ e[1] \in Int
  BY <1>1, MapAssumption DEF Cells
<1>4. ASSUME NEW r \in b[1] .. e[1], NEW d, Near(<<r, b[2]>>, d), d \notin CellsOf(layout[s])
      PROVE  d \notin Fleet
  <2>1. <<r, b[2]>> \in CellsOf(layout[s])
    BY <1>1
  <2> QED  BY <1>4, <2>1, Alone
<1>5. <<b[1] - 1, b[2]>> \notin Fleet
  <2>1. b[1] \in b[1] .. e[1] /\ Near(<<b[1], b[2]>>, <<b[1] - 1, b[2]>>)
    BY <1>1, <1>3 DEF Near
  <2>2. <<b[1] - 1, b[2]>> \notin CellsOf(layout[s])
    BY <1>1, <1>3
  <2> QED  BY <1>4, <2>1, <2>2
<1>6. <<b[1] + len + 1, b[2]>> \notin Fleet
  <2>1. b[1] + len + 1 = e[1] + 2
    BY <1>1, <1>3
  <2> QED  BY <1>1, <2>1, NoShipAt
<1>7. ASSUME NEW i \in offsets, NEW side \in {-1, 1}
      PROVE  <<b[1] + i, b[2] + side>> \notin Fleet
  <2>1. b[1] + i \in b[1] .. e[1]
    BY <1>1, <1>3
  <2>2. b[1] + i \in Int
    BY <1>3, <2>1
  <2>3. Near(<<b[1] + i, b[2]>>, <<b[1] + i, b[2] + side>>)
    BY <1>3, <2>2 DEF Near
  <2>4. <<b[1] + i, b[2] + side>> \notin CellsOf(layout[s])
    BY <1>1, <1>3
  <2> QED  BY <1>4, <2>1, <2>3, <2>4
<1>8. \A i \in offsets : /\ <<b[1] + i, b[2] - 1>> \notin Fleet
                         /\ <<b[1] + i, b[2] + 1>> \notin Fleet
  <2>1. b[2] + (-1) = b[2] - 1
    BY <1>3
  <2> QED  BY <1>7, <2>1
<1>9. around \cap Fleet = {}
  BY <1>5, <1>6, <1>8
<1> QED  BY <1>2, <1>9 DEF b, len

-----------------------------------------------------------------------------
(* What the solver believes of a tall fleet is true.                       *)

\* The ships of length n with a cell outside seen.
Afloat(n, seen) == {s \in Ships : Length(layout[s]) = n /\ ~(CellsOf(layout[s]) \subseteq seen)}

\* What m says of the ships agrees with the shots seen.
Judged(m, seen) ==
  /\ \A c \in Cells : m.mark[c] = "hit" <=> c \in seen /\ c \in Fleet
  /\ \A c \in Fleet : m.mark[c] # "miss"
  /\ DOMAIN m.counts = MinLen .. MaxLen
  /\ \A n \in MinLen .. MaxLen : m.counts[n] = Cardinality(Afloat(n, seen))

\* The shots whose reports are in mem.
Recorded == IF last = None \/ status = "sigfpe" THEN shots ELSE shots \ {last.shot}

\* The last report says what has become of the cell, which was new.
ReportInv ==
  last # None =>
    /\ last.shot \in shots
    /\ last.report = "no_hit" <=> last.shot \notin Fleet
    /\ last.report = "hit" <=> last.shot \in Fleet /\ ~(ShipOf(last.shot) \subseteq shots)

\* The game ends without a move only when the longest ships are left.
EndInv ==
  /\ status # "hangs"
  /\ status = "sigfpe" => \A n \in MinLen .. MaxLen - 1 : Afloat(n, shots) = {}

JudgeInv == Tall(layout) => ReportInv /\ Judged(mem, Recorded) /\ EndInv

\* There are at most as many ships of a length afloat as there are in a game.
LEMMA AfloatCount ==
  ASSUME Placed, NEW n \in MinLen .. MaxLen, NEW seen
  PROVE  /\ IsFiniteSet(Afloat(n, seen))
         /\ Cardinality(Afloat(n, seen)) \in 0 .. 255
<1> DEFINE All == {s \in Ships : Length(layout[s]) = n}
<1>1. Cardinality(All) = ShipCnt[n] /\ ShipCnt[n] \in 0 .. 255
  BY LegalLayout, MapAssumption DEF Legal, Ships
<1>2. IsFiniteSet(Ships)
  BY LegalLayout, FS_Interval
<1>3. IsFiniteSet(All)
  BY <1>2, FS_Subset
<1>4. Afloat(n, seen) \in SUBSET All
  BY DEF Afloat
<1>5. IsFiniteSet(Afloat(n, seen)) /\ Cardinality(Afloat(n, seen)) <= Cardinality(All)
  BY <1>3, <1>4, FS_Subset
<1>6. Cardinality(Afloat(n, seen)) \in Nat
  BY <1>5, FS_CardinalityType
<1> QED  BY <1>1, <1>5, <1>6

\* The report of a miss.
LEMMA NoHitJudges ==
  ASSUME NEW m, IsMem(m), NEW seen, NEW c \in seen \cap Cells,
         Judged(m, seen \ {c}), c \notin Fleet
  PROVE  Judged(NoHit(m, c), seen)
<1> DEFINE n == NoHit(m, c)
<1>1. /\ n.mark = [m.mark EXCEPT ![c] = "miss"] /\ n.counts = m.counts
      /\ m.mark \in [Cells -> Marks]
  BY DEF NoHit, IsMem, Fields
<1>2. \A k : Afloat(k, seen) = Afloat(k, seen \ {c})
  <2>1. \A s \in Ships : c \notin CellsOf(layout[s])
    BY DEF Fleet, Ships
  <2> QED  BY <2>1 DEF Afloat
<1> HIDE DEF n
<1>3. \A d \in Cells : n.mark[d] = IF d = c THEN "miss" ELSE m.mark[d]
  BY <1>1
<1>4. \A d \in Cells : n.mark[d] = "hit" <=> d \in seen /\ d \in Fleet
  BY <1>3 DEF Judged
<1>5. \A d \in Fleet : n.mark[d] # "miss"
  BY <1>1 DEF Judged
<1> QED  BY <1>1, <1>2, <1>4, <1>5 DEF Judged, n

\* The report of a hit.
LEMMA HitJudges ==
  ASSUME TallPlaced, NEW m, IsMem(m), NEW seen, NEW c \in seen \cap Cells,
         Judged(m, seen \ {c}), c \in Fleet, ~(ShipOf(c) \subseteq seen)
  PROVE  Judged(Hit(m, c), seen)
<1> DEFINE marked == [m EXCEPT !.mark[c] = "hit", !.scan = FALSE]
           n == Hit(m, c)
<1>1. /\ DOMAIN marked = Fields /\ marked.mark = [m.mark EXCEPT ![c] = "hit"]
      /\ marked.counts = m.counts /\ m.mark \in [Cells -> Marks]
  BY DEF IsMem, Fields
<1> HIDE DEF marked
<1>2. /\ DOMAIN AddTargets(marked, c) = Fields /\ AddTargets(marked, c).mark = marked.mark
      /\ AddTargets(marked, c).counts = marked.counts
  BY <1>1 DEF AddTargets, Fields
<1>3. n = [AddTargets(marked, c) EXCEPT !.hits = <<c>> \o @]
  BY DEF Hit, marked
<1>4. n.mark = [m.mark EXCEPT ![c] = "hit"] /\ n.counts = m.counts
  BY <1>1, <1>2, <1>3 DEF Fields
<1> HIDE DEF n
<1>5. \A k : Afloat(k, seen) = Afloat(k, seen \ {c})
  <2>1. \A s \in Ships : c \in CellsOf(layout[s]) => ~(CellsOf(layout[s]) \subseteq seen)
    BY OneShip
  <2> QED  BY <2>1 DEF Afloat
<1>6. \A d \in Cells : n.mark[d] = IF d = c THEN "hit" ELSE m.mark[d]
  BY <1>1, <1>4
<1>7. \A d \in Cells : n.mark[d] = "hit" <=> d \in seen /\ d \in Fleet
  BY <1>6 DEF Judged
<1>8. \A d \in Fleet : n.mark[d] # "miss"
  BY <1>1, <1>4 DEF Judged
<1> QED  BY <1>4, <1>5, <1>7, <1>8 DEF Judged, n

\* The report of a ship sunk.
LEMMA SunkJudges ==
  ASSUME TallPlaced, NEW m, IsMem(m), NEW seen, NEW c \in seen \cap Cells,
         Judged(m, seen \ {c}), c \in Fleet, ShipOf(c) \subseteq seen
  PROVE  Judged(Sunk(m, c), seen)
<1> DEFINE marked == [m EXCEPT !.mark[c] = "hit"]
           ship   == GetShipAt(marked, c)
           around == Surroundings(ship)
           put    == PutMiss(marked, around)
           n      == Sunk(m, c)
           Less(k) == (k + 255) % 256
<1>1. PICK s \in Ships : c \in CellsOf(layout[s])
  BY DEF Fleet, Ships
<1>2. /\ CellsOf(layout[s]) \subseteq seen
      /\ \A t \in Ships : c \in CellsOf(layout[t]) => t = s
      /\ CellsOf(layout[s]) \subseteq Cells /\ CellsOf(layout[s]) \subseteq Fleet
      /\ Length(layout[s]) \in MinLen .. MaxLen
  BY <1>1, OneShip, ShipOnMap, Standing
<1>3. /\ DOMAIN marked = Fields /\ marked.mark = [m.mark EXCEPT ![c] = "hit"]
      /\ marked.counts = m.counts /\ m.mark \in [Cells -> Marks]
  BY DEF IsMem, Fields
<1>4. \A d \in Cells : marked.mark[d] = "hit" <=> d \in seen /\ d \in Fleet
  BY <1>3 DEF Judged
<1>5. SunkOn(marked, s)
  BY <1>2, <1>4 DEF SunkOn
<1>6. /\ ship.len = Length(layout[s])
      /\ around \cap Fleet = {}
  <2>1. ship = [begin |-> Begin(layout[s]), vertical |-> TRUE, len |-> Length(layout[s])]
    <3> HIDE DEF marked
    <3> QED  BY <1>1, <1>5, ShipFound
  <2> HIDE DEF ship
  <2> QED  BY <2>1, SurroundingsClear
<1>7. /\ n.mark = put.mark
      /\ n.counts = [k \in DOMAIN put.counts |->
                       IF k = ship.len THEN Less(put.counts[k]) ELSE put.counts[k]]
      /\ put.mark = [d \in Cells |-> IF d \in around THEN "miss" ELSE marked.mark[d]]
      /\ put.counts = m.counts
  <2> HIDE DEF marked
  <2>1. /\ DOMAIN put = Fields /\ put.counts = marked.counts
        /\ put.mark = [d \in Cells |-> IF d \in around THEN "miss" ELSE marked.mark[d]]
    <3> HIDE DEF around
    <3> QED  BY <1>3 DEF PutMiss, Fields
  <2>2. n = [put EXCEPT
          !.counts = [k \in DOMAIN @ |-> IF k = ship.len THEN Less(@[k]) ELSE @[k]],
          !.targets = <<>>, !.hits = <<>>, !.scan = TRUE]
    BY DEF Sunk, marked
  <2> HIDE DEF put, ship, Less, n
  <2> QED  BY <1>3, <2>1, <2>2 DEF Fields
<1> HIDE DEF n, put, marked, around, ship
<1>8. \A d \in Cells : n.mark[d] = "hit" <=> d \in seen /\ d \in Fleet
  BY <1>4, <1>6, <1>7
<1>9. ASSUME NEW d \in Fleet PROVE n.mark[d] # "miss"
  <2>1. d \in Cells /\ d \notin around
    <3>1. PICK t \in Ships : d \in CellsOf(layout[t])
      BY DEF Fleet, Ships
    <3> QED  BY <1>6, <3>1, ShipOnMap
  <2>2. n.mark[d] = IF d = c THEN "hit" ELSE m.mark[d]
    BY <1>3, <1>7, <2>1
  <2> QED  BY <2>2 DEF Judged
<1>10. ASSUME NEW k \in MinLen .. MaxLen
       PROVE  n.counts[k] = Cardinality(Afloat(k, seen))
  <2>1. /\ m.counts[k] = Cardinality(Afloat(k, seen \ {c}))
        /\ n.counts[k] = IF k = Length(layout[s]) THEN Less(m.counts[k]) ELSE m.counts[k]
    <3>1. k \in DOMAIN m.counts /\ m.counts[k] = Cardinality(Afloat(k, seen \ {c}))
      BY DEF Judged
    <3> HIDE DEF Less
    <3> QED  BY <1>6, <1>7, <3>1
  <2>2. \A t \in Ships \ {s} : CellsOf(layout[t]) \subseteq seen
                                 <=> CellsOf(layout[t]) \subseteq seen \ {c}
    BY <1>2
  <2>3. CASE k = Length(layout[s])
    <3>1. Afloat(k, seen) = Afloat(k, seen \ {c}) \ {s} /\ s \in Afloat(k, seen \ {c})
      BY <1>1, <1>2, <2>2, <2>3 DEF Afloat
    <3>2. /\ IsFiniteSet(Afloat(k, seen \ {c}))
          /\ Cardinality(Afloat(k, seen \ {c})) \in 0 .. 255
          /\ Cardinality(Afloat(k, seen)) \in 0 .. 255
      BY AfloatCount DEF TallPlaced
    <3>3. Cardinality(Afloat(k, seen)) = Cardinality(Afloat(k, seen \ {c})) - 1
      <4> DEFINE S == Afloat(k, seen \ {c})
      <4>1. IsFiniteSet(S) /\ s \in S /\ Afloat(k, seen) = S \ {s}
        BY <3>1, <3>2
      <4> HIDE DEF S
      <4>2. Cardinality(S \ {s}) = Cardinality(S) - 1
        BY <4>1, FS_RemoveElement
      <4> QED  BY <4>1, <4>2 DEF S
    <3> DEFINE x == Cardinality(Afloat(k, seen \ {c}))
    <3>4. x \in 1 .. 255
      BY <3>2, <3>3
    <3>5. n.counts[k] = (x + 255) % 256 /\ Cardinality(Afloat(k, seen)) = x - 1
      BY <2>1, <2>3, <3>3
    <3> HIDE DEF x
    <3>6. (x + 255) % 256 = x - 1
      BY <3>4
    <3> QED  BY <3>5, <3>6
  <2>4. CASE k # Length(layout[s])
    <3>1. Afloat(k, seen) = Afloat(k, seen \ {c})
      BY <2>2, <2>4 DEF Afloat
    <3> QED  BY <2>1, <2>4, <3>1
  <2> QED  BY <2>3, <2>4
<1>11. DOMAIN n.counts = MinLen .. MaxLen
  BY <1>7 DEF Judged
<1> QED  BY <1>8, <1>9, <1>10, <1>11 DEF Judged, n

\* When the last report is recorded, the map and the counts are up to date.
LEMMA RecordJudges ==
  ASSUME TallPlaced, SInv, status = "playing", ReportInv, Judged(mem, Recorded)
  PROVE  Judged(Record(mem), shots)
<1>1. IsMem(mem) /\ shots \subseteq Cells
  BY DEF SInv, KnownInv
<1>2. CASE last = None
  BY <1>2 DEF Record, Recorded
<1>3. CASE last # None
  <2> DEFINE c == last.shot
  <2>1. /\ c \in shots \cap Cells
        /\ last.report = "no_hit" <=> c \notin Fleet
        /\ last.report = "hit" <=> c \in Fleet /\ ~(ShipOf(c) \subseteq shots)
        /\ Judged(mem, shots \ {c})
    BY <1>1, <1>3 DEF ReportInv, Recorded
  <2>2. Record(mem) = IF last.report = "hit" THEN Hit(mem, c)
                      ELSE IF last.report = "no_hit" THEN NoHit(mem, c)
                      ELSE Sunk(mem, c)
    BY <1>3 DEF Record
  <2> HIDE DEF c
  <2>3. CASE last.report = "hit"
    BY <1>1, <2>1, <2>2, <2>3, HitJudges
  <2>4. CASE last.report = "no_hit"
    BY <1>1, <2>1, <2>2, <2>4, NoHitJudges
  <2>5. CASE last.report \notin {"hit", "no_hit"}
    BY <1>1, <2>1, <2>2, <2>5, SunkJudges
  <2> QED  BY <2>3, <2>4, <2>5
<1> QED  BY <1>2, <1>3

\* The choice of the next shot changes neither marks nor counts.
LEMMA ChoiceKeeps ==
  ASSUME NEW m, IsMem(m)
  PROVE  Choice(m).mem.mark = m.mark /\ Choice(m).mem.counts = m.counts
<1>1. GiveUp(m).mark = m.mark /\ GiveUp(m).counts = m.counts
  BY DEF GiveUp, IsMem, Fields
<1>2. AfterPops(m).mark = m.mark /\ AfterPops(m).counts = m.counts
  BY DEF AfterPops, IsMem, Fields
<1> QED  BY <1>1, <1>2 DEF Choice

\* get_min_size fails if the counts below the greatest length are all 0.
LEMMA NoSizeLeft ==
  ASSUME NEW m
  PROVE  MinSize(m) = 0 <=> \A n \in MinLen .. MaxLen - 1 : m.counts[n] = 0
<1> DEFINE left == {n \in MinLen .. MaxLen - 1 : m.counts[n] # 0}
<1>1. CASE left = {}
  BY <1>1 DEF MinSize, NoSize
<1>2. CASE left # {}
  <2>1. MinLen \in Nat /\ MaxLen \in Nat /\ 1 < MinLen
    BY MapAssumption
  <2>2. left \in SUBSET Nat /\ \A n \in left : n > 0
    BY <2>1
  <2>3. MinSize(m) = Min(left)
    BY <1>2 DEF MinSize
  <2> HIDE DEF left
  <2>4. Min(left) \in left
    BY <1>2, <2>2, LeastElement
  <2>5. \E n \in MinLen .. MaxLen - 1 : m.counts[n] # 0
    BY <1>2 DEF left
  <2> QED  BY <2>2, <2>3, <2>4, <2>5
<1> QED  BY <1>1, <1>2

\* While ships are afloat there is an unknown cell to shoot at, and only the
\* longest are passed over.
LEMMA SizesLeft ==
  ASSUME TallPlaced, NEW m, IsMem(m), Judged(m, shots)
  PROVE  /\ MinSize(m) = 0 <=> \A n \in MinLen .. MaxLen - 1 : Afloat(n, shots) = {}
         /\ MinSize(m) # 0 => Unknown(m) # {}
<1>1. \A n \in MinLen .. MaxLen - 1 : n \in MinLen .. MaxLen
  BY MapAssumption
<1>2. ASSUME NEW n \in MinLen .. MaxLen - 1
      PROVE  m.counts[n] = 0 <=> Afloat(n, shots) = {}
  <2>1. m.counts[n] = Cardinality(Afloat(n, shots)) /\ IsFiniteSet(Afloat(n, shots))
    BY <1>1, AfloatCount DEF Judged, TallPlaced
  <2> QED  BY <2>1, FS_EmptySet
<1>3. MinSize(m) = 0 <=> \A n \in MinLen .. MaxLen - 1 : Afloat(n, shots) = {}
  BY <1>2, NoSizeLeft
<1>4. ASSUME MinSize(m) # 0 PROVE Unknown(m) # {}
  <2>1. PICK n \in MinLen .. MaxLen - 1 : Afloat(n, shots) # {}
    BY <1>3, <1>4
  <2>2. PICK s \in Ships : ~(CellsOf(layout[s]) \subseteq shots)
    BY <2>1 DEF Afloat
  <2>3. PICK d \in CellsOf(layout[s]) : d \notin shots
    BY <2>2
  <2>4. d \in Cells /\ d \in Fleet
    BY ShipOnMap
  <2>5. m.mark[d] # "hit" /\ m.mark[d] # "miss" /\ m.mark[d] \in Marks
    BY <2>3, <2>4 DEF Judged, IsMem
  <2> QED  BY <2>4, <2>5 DEF Unknown, Marks
<1> QED  BY <1>3, <1>4

\* What shoot answers to a new shot.
LEMMA ReportOfShot ==
  ASSUME TallPlaced, NEW c, c \notin shots
  PROVE  /\ Report(c) = "no_hit" <=> c \notin Fleet
         /\ Report(c) = "hit" <=> c \in Fleet /\ ~(ShipOf(c) \subseteq shots \cup {c})
BY NoShipAt DEF Report

\* A move keeps what the solver believes true.
LEMMA MoveJudges ==
  ASSUME TallPlaced, SInv, ReportInv, Judged(mem, Recorded), Move
  PROVE  (ReportInv /\ Judged(mem, Recorded) /\ EndInv)'
<1> DEFINE m == Record(mem)
           n == Choice(m).mem
<1>1. status = "playing" /\ mem' = n /\ layout' = layout
  BY DEF Move
<1>2. /\ Fleet' = Fleet /\ Ships' = Ships
      /\ \A k, seen : Afloat(k, seen)' = Afloat(k, seen)
      /\ \A c : ShipOf(c)' = ShipOf(c)
  BY <1>1 DEF Fleet, Ships, Afloat, ShipOf
<1>3. IsMem(m) /\ shots \cap Unknown(m) = {} /\ Judged(m, shots)
  BY <1>1, RecordKnowsAll, RecordJudges
<1>4. /\ IsMem(n) /\ Unknown(n) = Unknown(m) /\ Choice(m).aim \subseteq Unknown(m)
      /\ n.mark = m.mark /\ n.counts = m.counts
  BY <1>3, ChoiceUnknown, ChoiceKeeps
<1>5. Judged(n, shots)
  BY <1>3, <1>4 DEF Judged
<1>6. mem'.mark = n.mark /\ mem'.counts = n.counts
  BY <1>1
<1>7. ASSUME Recorded' = shots PROVE Judged(mem, Recorded)'
  BY <1>2, <1>5, <1>6, <1>7 DEF Judged
<1>8. \/ \E c \in Unknown(m) : Shoot(c)
      \/ MinSize(n) = 0 /\ status' = "sigfpe" /\ UNCHANGED <<last, shots, round>>
      \/ MinSize(n) # 0 /\ Unknown(n) = {}
  BY <1>4 DEF Move, RandomShot
<1> HIDE DEF m, n
<1>9. CASE \E c \in Unknown(m) : Shoot(c)
  <2>1. PICK c \in Unknown(m) : Shoot(c)
    BY <1>9
  <2>2. c \notin shots /\ c \in Cells
    BY <1>3, <2>1 DEF Unknown
  <2>3. /\ last' = [shot |-> c, report |-> Report(c)] /\ shots' = shots \cup {c}
        /\ status' \in {"won", "lost", "playing"}
    BY <2>1 DEF Shoot
  <2>4. last' # None /\ last'.shot = c /\ last'.report = Report(c)
    BY <2>3 DEF None
  <2>5. Recorded' = shots
    BY <2>2, <2>3, <2>4 DEF Recorded
  <2>6. ReportInv'
    BY <1>2, <2>2, <2>3, <2>4, ReportOfShot DEF ReportInv
  <2>7. EndInv'
    BY <2>3 DEF EndInv
  <2> QED  BY <1>7, <2>5, <2>6, <2>7
<1>10. CASE MinSize(n) = 0 /\ status' = "sigfpe" /\ UNCHANGED <<last, shots, round>>
  <2>1. Recorded' = shots
    BY <1>10 DEF Recorded
  <2>2. ReportInv'
    BY <1>2, <1>10 DEF ReportInv
  <2>3. \A k \in MinLen .. MaxLen - 1 : Afloat(k, shots) = {}
    BY <1>4, <1>5, <1>10, SizesLeft
  <2>4. EndInv'
    BY <1>2, <1>10, <2>3 DEF EndInv
  <2> QED  BY <1>7, <2>1, <2>2, <2>4
<1>11. CASE MinSize(n) # 0 /\ Unknown(n) = {}
  BY <1>4, <1>5, <1>11, SizesLeft
<1> QED  BY <1>8, <1>9, <1>10, <1>11

\* At the beginning no ship is hit, and the counts are those of the rules.
LEMMA InitJudges ==
  ASSUME Init, Tall(layout)
  PROVE  ReportInv /\ Judged(mem, Recorded) /\ EndInv
<1>1. /\ TallPlaced /\ mem = Fresh /\ last = None /\ shots = {} /\ status = "playing"
  BY DEF Init, TallPlaced, Placed
<1>2. mem.mark = [c \in Cells |-> "unknown"] /\ mem.counts = ShipCnt
  BY <1>1 DEF Fresh
<1>3. ASSUME NEW n \in MinLen .. MaxLen PROVE Cardinality(Afloat(n, {})) = ShipCnt[n]
  <2>1. \A s \in Ships : CellsOf(layout[s]) # {}
    BY <1>1, ShipOnMap
  <2>2. Afloat(n, {}) = {s \in Ships : Length(layout[s]) = n}
    BY <2>1 DEF Afloat
  <2> QED  BY <1>1, <2>2, LegalLayout DEF TallPlaced, Legal, Ships
<1>4. Recorded = {}
  BY <1>1 DEF Recorded
<1>5. Fleet \subseteq Cells
  <2>1. ASSUME NEW d \in Fleet PROVE d \in Cells
    <3>1. PICK s \in Ships : d \in CellsOf(layout[s])
      BY DEF Fleet, Ships
    <3> QED  BY <1>1, <3>1, ShipOnMap
  <2> QED  BY <2>1
<1>6. DOMAIN ShipCnt = MinLen .. MaxLen
  BY MapAssumption
<1>7. Judged(mem, {})
  BY <1>2, <1>3, <1>5, <1>6 DEF Judged
<1> QED  BY <1>1, <1>4, <1>7 DEF ReportInv, EndInv

(***************************************************************************)
(* What mem says of a tall fleet agrees with the shots whose reports it    *)
(* has recorded: the cells of the ships among them are its hits, no cell   *)
(* of a ship is held for water, and each count is that of the ships that   *)
(* are left.                                                               *)
(***************************************************************************)
THEOREM MemoryJudges == Spec => [](Placed /\ JudgeInv)
<1>1. Init => Placed /\ JudgeInv
  BY InitJudges DEF Init, Placed, JudgeInv
<1>2. SInv /\ Placed /\ JudgeInv /\ [Next]_vars => (Placed /\ JudgeInv)'
  <2>1. ASSUME SInv, Placed, JudgeInv, Move PROVE (Placed /\ JudgeInv)'
    <3>1. layout' = layout
      BY <2>1 DEF Move
    <3>2. Placed' /\ (Tall(layout)' => Tall(layout))
      BY <2>1, <3>1 DEF Placed
    <3>3. CASE Tall(layout)
      <4>1. (ReportInv /\ Judged(mem, Recorded) /\ EndInv)'
        BY <2>1, <3>3, MoveJudges DEF TallPlaced, JudgeInv
      <4> QED  BY <3>2, <4>1 DEF JudgeInv
    <3> QED  BY <3>2, <3>3 DEF JudgeInv
  <2>2. ASSUME Placed, JudgeInv, UNCHANGED vars PROVE (Placed /\ JudgeInv)'
    <3>1. /\ layout' = layout /\ mem' = mem /\ last' = last /\ shots' = shots /\ status' = status
      BY <2>2 DEF vars
    <3>2. /\ Fleet' = Fleet /\ Ships' = Ships /\ Recorded' = Recorded
          /\ \A k, seen : Afloat(k, seen)' = Afloat(k, seen)
          /\ \A c : ShipOf(c)' = ShipOf(c)
      BY <3>1 DEF Fleet, Ships, Afloat, ShipOf, Recorded
    <3>3. Placed' /\ (Tall(layout)' => Tall(layout))
      BY <2>2, <3>1 DEF Placed
    <3>4. ReportInv => ReportInv'
      BY <3>1, <3>2 DEF ReportInv
    <3>5. Judged(mem, Recorded) => Judged(mem, Recorded)'
      BY <3>1, <3>2 DEF Judged
    <3>6. EndInv => EndInv'
      BY <3>1, <3>2 DEF EndInv
    <3> QED  BY <2>2, <3>3, <3>4, <3>5, <3>6 DEF JudgeInv
  <2> QED  BY <2>1, <2>2 DEF Next
<1> QED  BY <1>1, <1>2, ShotsKnown, PTL DEF Spec

(***************************************************************************)
(* With a tall fleet the solver counts the ships that are left, takes no   *)
(* cell of a ship for water, and can always move but when only the longest *)
(* ships are left, for which get_min_size has no eyes.                     *)
(***************************************************************************)
THEOREM FleetJudged == Spec => []TallFleetJudged
<1>1. SInv /\ Placed /\ JudgeInv => TallFleetJudged
  <2> SUFFICES ASSUME SInv, Placed, JudgeInv, Tall(layout) PROVE TallFleetJudged
    BY DEF TallFleetJudged
  <2>1. TallPlaced /\ ReportInv /\ Judged(mem, Recorded) /\ EndInv
    BY DEF TallPlaced, JudgeInv
  <2>2. \A c \in Fleet : mem.mark[c] # "miss"
    BY <2>1 DEF Judged
  <2>3. ASSUME status = "sigfpe", NEW s \in Ships \ Sinks PROVE Length(layout[s]) = MaxLen
    <3>1. Length(layout[s]) \in MinLen .. MaxLen
      BY <2>1, Standing
    <3>2. s \in Afloat(Length(layout[s]), shots)
      BY DEF Afloat, Sinks
    <3>3. Length(layout[s]) \notin MinLen .. MaxLen - 1
      BY <2>1, <2>3, <3>2 DEF EndInv
    <3> QED  BY <3>1, <3>3, MapAssumption
  <2>4. ASSUME status = "playing", NEW n \in MinLen .. MaxLen
        PROVE  Record(mem).counts[n]
                 = Cardinality({s \in Ships \ Sinks : Length(layout[s]) = n})
    <3>1. Record(mem).counts[n] = Cardinality(Afloat(n, shots))
      BY <2>1, <2>4, RecordJudges DEF Judged
    <3>2. Afloat(n, shots) = {s \in Ships \ Sinks : Length(layout[s]) = n}
      BY DEF Afloat, Sinks
    <3> QED  BY <3>1, <3>2
  <2> QED  BY <2>1, <2>2, <2>3, <2>4 DEF TallFleetJudged, EndInv
<1> QED  BY <1>1, ShotsKnown, MemoryJudges, PTL

-----------------------------------------------------------------------------
(* The hunt.                                                               *)

\* A cell or one next to it, maybe outside the map.
Points == Int \X Int

\* The targets of m lie next to its hits.
Hunting(m) ==
  /\ m.scan => m.hits = <<>> /\ m.targets = <<>>
  /\ m.hits \in Seq(Cells) /\ m.targets \in Seq(Points)
  /\ \A t \in Range(m.targets) : \E c \in Range(m.hits) : t \in Around(c)

\* And they are all such cells that are unknown and not shot at.
HuntInv == Hunting(mem) /\ NextTo(mem) \ shots \subseteq Range(mem.targets)

\* A cell and its neighbours.
LEMMA AroundPoints ==
  ASSUME NEW c \in Cells
  PROVE  Up(c) \in Points /\ Down(c) \in Points /\ Left(c) \in Points /\ Right(c) \in Points
<1>1. c[1] \in Int /\ c[2] \in Int
  BY MapAssumption DEF Cells
<1> QED  BY <1>1 DEF Up, Down, Left, Right, Points

LEMMA CellsArePoints == Cells \subseteq Points
BY MapAssumption DEF Cells, Points

\* Two sequences, one after the other.
LEMMA Joined ==
  ASSUME NEW S, NEW s \in Seq(S), NEW t \in Seq(S)
  PROVE  s \o t \in Seq(S) /\ Range(s \o t) = Range(s) \cup Range(t)
BY ConcatProperties, RangeConcatenation

LEMMA JoinPoints ==
  ASSUME NEW s \in Seq(Points), NEW t \in Seq(Points)
  PROVE  s \o t \in Seq(Points) /\ Range(s \o t) = Range(s) \cup Range(t)
BY Joined

\* A sequence of at most one point.
LEMMA OnePoint ==
  /\ <<>> \in Seq(Points) /\ Range(<<>>) = {}
  /\ \A p \in Points : <<p>> \in Seq(Points) /\ Range(<<p>>) = {p}
BY DEF Range

\* add_targets adds the unknown neighbours.
LEMMA TargetsAdded ==
  ASSUME NEW m, DOMAIN m = Fields, m.targets \in Seq(Points), NEW c \in Cells
  PROVE  /\ AddTargets(m, c).targets \in Seq(Points)
         /\ Range(AddTargets(m, c).targets) = Range(m.targets) \cup (Around(c) \cap Unknown(m))
         /\ DOMAIN AddTargets(m, c) = Fields
         /\ AddTargets(m, c).hits = m.hits /\ AddTargets(m, c).mark = m.mark
         /\ AddTargets(m, c).scan = m.scan
<1> DEFINE Target(n) == IF n \in Unknown(m) THEN <<n>> ELSE <<>>
           r == Target(Right(c))
           l == Target(Left(c))
           d == Target(Down(c))
           u == Target(Up(c))
           new == r \o l \o d \o u \o m.targets
<1>1. ASSUME NEW n \in Points
      PROVE  Target(n) \in Seq(Points) /\ Range(Target(n)) = {n} \cap Unknown(m)
  BY OnePoint
<1>2. AddTargets(m, c) = [m EXCEPT !.targets = new]
  BY DEF AddTargets
<1> HIDE DEF Target
<1>3. /\ r \in Seq(Points) /\ Range(r) = {Right(c)} \cap Unknown(m)
      /\ l \in Seq(Points) /\ Range(l) = {Left(c)} \cap Unknown(m)
      /\ d \in Seq(Points) /\ Range(d) = {Down(c)} \cap Unknown(m)
      /\ u \in Seq(Points) /\ Range(u) = {Up(c)} \cap Unknown(m)
  BY <1>1, AroundPoints
<1> HIDE DEF r, l, d, u
<1>4. r \o l \in Seq(Points) /\ Range(r \o l) = Range(r) \cup Range(l)
  BY <1>3, JoinPoints
<1>5. r \o l \o d \in Seq(Points) /\ Range(r \o l \o d) = Range(r \o l) \cup Range(d)
  BY <1>3, <1>4, JoinPoints
<1>6. r \o l \o d \o u \in Seq(Points) /\ Range(r \o l \o d \o u) = Range(r \o l \o d) \cup Range(u)
  BY <1>3, <1>5, JoinPoints
<1>7. new \in Seq(Points) /\ Range(new) = Range(r \o l \o d \o u) \cup Range(m.targets)
  BY <1>6, JoinPoints
<1>8. Range(new) = Range(m.targets) \cup (Around(c) \cap Unknown(m))
  BY <1>3, <1>4, <1>5, <1>6, <1>7 DEF Around
<1> HIDE DEF new
<1> QED  BY <1>2, <1>7, <1>8 DEF Fields

\* A hit joins the hunt with its unknown neighbours.
LEMMA HitHunts ==
  ASSUME NEW m, IsMem(m), Hunting(m), NEW c \in Cells,
         NEW seen, NextTo(m) \ seen \subseteq Range(m.targets)
  PROVE  Hunting(Hit(m, c)) /\ NextTo(Hit(m, c)) \ seen \subseteq Range(Hit(m, c).targets)
<1> DEFINE marked == [m EXCEPT !.mark[c] = "hit", !.scan = FALSE]
           added  == AddTargets(marked, c)
           n      == Hit(m, c)
<1>1. /\ DOMAIN marked = Fields /\ marked.targets = m.targets /\ marked.hits = m.hits
      /\ Unknown(marked) = Unknown(m) \ {c} /\ marked.scan = FALSE
  BY DEF IsMem, Fields, Unknown, Marks
<1> HIDE DEF marked
<1>2. /\ added.targets \in Seq(Points)
      /\ Range(added.targets) = Range(m.targets) \cup (Around(c) \cap Unknown(marked))
      /\ DOMAIN added = Fields /\ added.hits = m.hits /\ added.mark = marked.mark
      /\ added.scan = FALSE
  BY <1>1, TargetsAdded DEF Hunting
<1>3. n = [added EXCEPT !.hits = <<c>> \o @]
  BY DEF Hit, marked
<1> HIDE DEF added, n
<1>4. /\ n.targets = added.targets /\ n.hits = <<c>> \o m.hits
      /\ n.mark = marked.mark /\ n.scan = FALSE
  BY <1>2, <1>3 DEF Fields
<1>5. n.hits \in Seq(Cells) /\ Range(n.hits) = {c} \cup Range(m.hits)
  <2> DEFINE one == <<c>>
             old == m.hits
  <2>1. one \in Seq(Cells) /\ Range(one) = {c} /\ old \in Seq(Cells)
    BY DEF Range, Hunting
  <2> HIDE DEF one, old
  <2>2. one \o old \in Seq(Cells) /\ Range(one \o old) = Range(one) \cup Range(old)
    BY <2>1, Joined
  <2> QED  BY <1>4, <2>1, <2>2 DEF one, old
<1>6. Unknown(n) = Unknown(m) \ {c}
  BY <1>1, <1>4 DEF Unknown
<1>7. Hunting(n)
  <2>1. \A t \in Range(n.targets) : \E d \in Range(n.hits) : t \in Around(d)
    BY <1>2, <1>4, <1>5 DEF Hunting
  <2> QED  BY <1>2, <1>4, <1>5, <2>1 DEF Hunting
<1>8. NextTo(n) \ seen \subseteq Range(n.targets)
  <2>1. NextTo(n) \subseteq NextTo(m) \cup (Around(c) \cap Unknown(marked))
    BY <1>1, <1>5, <1>6 DEF NextTo
  <2> QED  BY <1>2, <1>4, <2>1
<1> QED  BY <1>7, <1>8 DEF n

\* The other reports leave the hunt alone, or end it.
LEMMA NoHitHunts ==
  ASSUME NEW m, IsMem(m), Hunting(m), NEW c \in Cells,
         NEW seen, NextTo(m) \ seen \subseteq Range(m.targets)
  PROVE  Hunting(NoHit(m, c)) /\ NextTo(NoHit(m, c)) \ seen \subseteq Range(NoHit(m, c).targets)
<1> DEFINE n == NoHit(m, c)
<1>1. /\ n.targets = m.targets /\ n.hits = m.hits /\ n.scan = m.scan
      /\ Unknown(n) \subseteq Unknown(m)
  BY DEF NoHit, IsMem, Fields, Unknown, Marks
<1> HIDE DEF n
<1>2. Hunting(n) /\ NextTo(n) \subseteq NextTo(m)
  BY <1>1 DEF Hunting, NextTo
<1> QED  BY <1>1, <1>2 DEF n

\* A memory without hits and targets.
LEMMA NoHunt ==
  ASSUME NEW m, m.hits = <<>>, m.targets = <<>>
  PROVE  Hunting(m) /\ NextTo(m) = {}
<1>1. <<>> \in Seq(Cells) /\ <<>> \in Seq(Points) /\ Range(<<>>) = {}
  BY DEF Range
<1> QED  BY <1>1 DEF Hunting, NextTo

LEMMA SunkHunts ==
  ASSUME NEW m, IsMem(m), NEW c \in Cells
  PROVE  Hunting(Sunk(m, c)) /\ NextTo(Sunk(m, c)) = {}
<1> DEFINE marked == [m EXCEPT !.mark[c] = "hit"]
           ship == GetShipAt(marked, c)
           put  == PutMiss(marked, Surroundings(ship))
           n    == Sunk(m, c)
           Less(k) == (k + 255) % 256
<1>1. DOMAIN put = Fields
  BY DEF PutMiss, IsMem, Fields
<1>2. n = [put EXCEPT
        !.counts = [k \in DOMAIN @ |-> IF k = ship.len THEN Less(@[k]) ELSE @[k]],
        !.targets = <<>>, !.hits = <<>>, !.scan = TRUE]
  BY DEF Sunk
<1> HIDE DEF put, ship, Less, n
<1>3. n.targets = <<>> /\ n.hits = <<>>
  BY <1>1, <1>2 DEF Fields
<1> QED  BY <1>3, NoHunt DEF n

\* After the report is recorded the targets are the unknown cells next to hits.
LEMMA RecordHunts ==
  ASSUME SInv, HuntInv
  PROVE  Hunting(Record(mem)) /\ NextTo(Record(mem)) \subseteq Range(Record(mem).targets)
<1>1. Hunting(Record(mem)) /\ NextTo(Record(mem)) \ shots \subseteq Range(Record(mem).targets)
  <2>1. CASE last = None
    BY <2>1 DEF Record, HuntInv
  <2>2. CASE last # None
    <3>1. IsMem(mem) /\ last.shot \in Cells
      BY <2>2 DEF SInv, LastInv
    <3>2. CASE last.report = "hit"
      BY <2>2, <3>1, <3>2, HitHunts DEF Record, HuntInv
    <3>3. CASE last.report = "no_hit"
      BY <2>2, <3>1, <3>3, NoHitHunts DEF Record, HuntInv
    <3>4. CASE last.report \notin {"hit", "no_hit"}
      BY <2>2, <3>1, <3>4, SunkHunts DEF Record
    <3> QED  BY <3>2, <3>3, <3>4
  <2> QED  BY <2>1, <2>2
<1>2. NextTo(Record(mem)) \cap shots = {}
  BY RecordKnowsAll DEF NextTo
<1> QED  BY <1>1, <1>2

\* The candidates lie next to hits, and the targets are among them.
LEMMA CandidatesNext ==
  ASSUME NEW m, Hunting(m)
  PROVE  /\ Candidates(m) \in Seq(Points)
         /\ Range(m.targets) \subseteq Range(Candidates(m))
         /\ \A t \in Range(Candidates(m)) : \E c \in Range(m.hits) : t \in Around(c)
<1>1. CASE Len(m.hits) # 2
  BY <1>1 DEF Candidates, Hunting
<1>2. CASE Len(m.hits) = 2
  <2> DEFINE c1 == m.hits[1]
             c2 == m.hits[2]
  <2>1. /\ c1 \in Cells /\ c2 \in Cells
        /\ c1 \in Range(m.hits) /\ c2 \in Range(m.hits)
    <3>1. m.hits \in Seq(Cells) /\ 1 \in 1 .. Len(m.hits) /\ 2 \in 1 .. Len(m.hits)
      BY <1>2 DEF Hunting
    <3> QED  BY <3>1, RangeEquality, ElementOfSeq
  <2>2. ASSUME NEW p \in Points, NEW q \in Points, NEW r \in Points, NEW t \in Points
        PROVE  <<p, q, r, t>> \in Seq(Points) /\ Range(<<p, q, r, t>>) = {p, q, r, t}
    BY DEF Range
  <2>3. Line(m) = IF c1[2] # c2[2] THEN <<Right(c2), Left(c2), Right(c1), Left(c1)>>
                  ELSE <<Down(c2), Up(c2), Down(c1), Up(c1)>>
    BY DEF Line
  <2> HIDE DEF c1, c2
  <2>4. /\ Line(m) \in Seq(Points)
        /\ Range(Line(m)) \subseteq Around(c1) \cup Around(c2)
    BY <2>1, <2>2, <2>3, AroundPoints DEF Around
  <2>5. Candidates(m) = Line(m) \o m.targets /\ m.targets \in Seq(Points)
    BY <1>2 DEF Candidates, Hunting
  <2>6. /\ Candidates(m) \in Seq(Points)
        /\ Range(Candidates(m)) = Range(Line(m)) \cup Range(m.targets)
    BY <2>4, <2>5, JoinPoints
  <2> QED  BY <2>1, <2>4, <2>6 DEF Hunting
<1> QED  BY <1>1, <1>2

\* What is popped and not shot at is known, or lies outside the map.
LEMMA Popping ==
  ASSUME NEW m, IsMem(m), Hunting(m), ~m.scan, NextTo(m) \subseteq Range(m.targets)
  PROVE  /\ Hunting(AfterPops(m)) /\ NextTo(AfterPops(m)) = NextTo(m)
         /\ \A d \in NextTo(m) : d \in Range(AfterPops(m).targets) \/ Aimed(m) = {d}
         /\ Aimed(m) \subseteq NextTo(m)
         /\ Range(Candidates(m)) \subseteq Cells /\ NextTo(m) # {} => Aimed(m) # {}
<1> DEFINE t    == Candidates(m)
           stop == {i \in DOMAIN t : Stops(m, t[i])}
           p    == Popped(m)
           rest == SubSeq(t, p + 1, Len(t))
           n    == AfterPops(m)
<1>1. /\ t \in Seq(Points) /\ Range(m.targets) \subseteq Range(t)
      /\ \A x \in Range(t) : \E c \in Range(m.hits) : x \in Around(c)
  BY CandidatesNext
<1>2. p = IF stop = {} THEN Len(t) ELSE Min(stop)
  BY DEF Popped
<1>3. n = [m EXCEPT !.targets = rest]
  BY DEF AfterPops
<1>4. Aimed(m) = {c \in Cells : p > 0 /\ c = t[p] /\ Stops(m, c)}
  BY DEF Aimed
<1> HIDE DEF t, p, n
<1>5. Len(t) \in Nat /\ DOMAIN t = 1 .. Len(t) /\ \A i \in 1 .. Len(t) : t[i] \in Points
  BY <1>1, LenProperties, ElementOfSeq
<1>6. Range(t) = {t[i] : i \in 1 .. Len(t)}
  BY <1>1, RangeEquality
<1>7. /\ p \in 0 .. Len(t)
      /\ \A i \in stop : p <= i
      /\ stop # {} => p \in stop
  <2>1. CASE stop = {}
    BY <1>2, <1>5, <2>1
  <2>2. CASE stop # {}
    <3>1. stop \in SUBSET Nat /\ stop \subseteq 1 .. Len(t)
      BY <1>5
    <3> HIDE DEF stop
    <3>2. Min(stop) \in stop /\ \A i \in stop : Min(stop) <= i
      BY <2>2, <3>1, LeastElement
    <3>3. p \in stop /\ \A i \in stop : p <= i
      BY <1>2, <2>2, <3>2
    <3> QED  BY <1>5, <3>1, <3>3
  <2> QED  BY <2>1, <2>2
<1>8. /\ rest \in Seq(Points) /\ Len(rest) = Len(t) - p
      /\ \A i \in 1 .. Len(t) - p : rest[i] = t[p + i]
  <2>1. p + 1 \in Int /\ Len(t) \in Int /\ \A i \in p + 1 .. Len(t) : t[i] \in Points
    BY <1>5, <1>7
  <2>2. /\ rest \in Seq(Points)
        /\ Len(rest) = IF p + 1 <= Len(t) THEN Len(t) - (p + 1) + 1 ELSE 0
        /\ \A i \in 1 .. Len(t) - (p + 1) + 1 : rest[i] = t[(p + 1) + i - 1]
    BY <2>1, SubSeqProperties
  <2> HIDE DEF rest
  <2>3. Len(rest) = Len(t) - p
    <3>1. Len(t) \in Nat /\ p \in 0 .. Len(t)
      BY <1>5, <1>7
    <3>2. Len(rest) = IF p + 1 <= Len(t) THEN Len(t) - (p + 1) + 1 ELSE 0
      BY <2>2
    <3> QED  BY <3>1, <3>2
  <2>4. ASSUME NEW i \in 1 .. Len(t) - p PROVE rest[i] = t[p + i]
    <3>1. i \in 1 .. Len(t) - (p + 1) + 1 /\ (p + 1) + i - 1 = p + i
      BY <1>5, <1>7
    <3> QED  BY <2>2, <3>1
  <2> QED  BY <2>2, <2>3, <2>4
<1> HIDE DEF rest
<1>9. Range(rest) = {rest[i] : i \in 1 .. Len(rest)}
  BY <1>8, RangeEquality
<1>10. ASSUME NEW i \in p + 1 .. Len(t) PROVE t[i] \in Range(rest)
  <2>1. i - p \in 1 .. Len(t) - p /\ p + (i - p) = i
    BY <1>5, <1>7
  <2>2. rest[i - p] = t[i] /\ i - p \in 1 .. Len(rest)
    BY <1>8, <2>1
  <2> QED  BY <1>9, <2>2
<1>11. Range(rest) \subseteq Range(t)
  <2>1. ASSUME NEW i \in 1 .. Len(rest) PROVE rest[i] \in Range(t)
    <3>1. i \in 1 .. Len(t) - p /\ p + i \in 1 .. Len(t)
      BY <1>5, <1>7, <1>8
    <3>2. rest[i] = t[p + i]
      BY <1>8, <3>1
    <3> QED  BY <1>6, <3>1, <3>2
  <2> QED  BY <1>9, <2>1
<1>12. n.targets = rest /\ n.hits = m.hits /\ n.mark = m.mark /\ n.scan = m.scan
  BY <1>3 DEF IsMem, Fields
<1>13. Hunting(n)
  <2>1. m.hits \in Seq(Cells)
    BY DEF Hunting
  <2>2. \A x \in Range(n.targets) : \E c \in Range(n.hits) : x \in Around(c)
    BY <1>1, <1>11, <1>12
  <2> QED  BY <1>8, <1>12, <2>1, <2>2 DEF Hunting
<1>14. NextTo(n) = NextTo(m)
  BY <1>12 DEF NextTo, Unknown
<1>15. ASSUME NEW d \in NextTo(m)
       PROVE  /\ stop # {}
              /\ d \in Range(n.targets) \/ Aimed(m) = {d}
  <2>1. d \in Range(t) /\ d \in Cells /\ Stops(m, d)
    BY <1>1 DEF NextTo, Unknown, Stops
  <2>2. PICK i \in 1 .. Len(t) : t[i] = d
    BY <1>6, <2>1
  <2>3. i \in stop
    BY <1>5, <2>1, <2>2
  <2>4. p <= i
    BY <1>7, <2>3
  <2>5. CASE p = i
    BY <1>4, <2>1, <2>2, <2>5
  <2>6. CASE p < i
    <3>1. i \in p + 1 .. Len(t)
      BY <1>5, <1>7, <2>6
    <3> QED  BY <1>10, <1>12, <2>2, <2>3, <3>1
  <2> QED  BY <1>7, <2>3, <2>4, <2>5, <2>6
<1>16. ASSUME NEW d \in Aimed(m) PROVE d \in NextTo(m)
  <2>1. d \in Cells /\ p > 0 /\ d = t[p] /\ Stops(m, d)
    BY <1>4
  <2>2. d \in Range(t)
    BY <1>6, <1>7, <2>1
  <2> QED  BY <1>1, <2>1, <2>2 DEF NextTo, Unknown, Stops
<1>17. ASSUME Range(t) \subseteq Cells, NextTo(m) # {} PROVE Aimed(m) # {}
  <2>1. stop # {}
    BY <1>15, <1>17
  <2>2. p \in 1 .. Len(t) /\ Stops(m, t[p])
    BY <1>5, <1>7, <2>1
  <2>3. t[p] \in Cells /\ p > 0
    BY <1>6, <1>17, <2>2
  <2> QED  BY <1>4, <2>2, <2>3
<1> QED  BY <1>13, <1>14, <1>15, <1>16, <1>17 DEF n, t

\* A move leaves no cell of the hunt out, and takes one if it can.
LEMMA MoveHunts ==
  ASSUME SInv, HuntInv, Move
  PROVE  /\ HuntInv'
         /\ LET m == Record(mem) IN
              /\ round' # round /\ ~m.scan /\ Len(m.hits) # MaxSize(m)
              /\ Range(Candidates(m)) \subseteq Cells /\ NextTo(m) # {}
              => last'.shot \in NextTo(m)
<1> DEFINE m == Record(mem)
           n == Choice(m).mem
           aim == Choice(m).aim
<1>1. IsMem(m) /\ Hunting(m) /\ NextTo(m) \subseteq Range(m.targets)
  BY RecordKnowsAll, RecordHunts
<1>2. mem' = n /\ (aim # {} => \E c \in aim : Shoot(c))
  BY DEF Move
<1>3. /\ shots \subseteq shots'
      /\ aim # {} => \E c \in aim : c \in shots' /\ last'.shot = c
  BY <1>2 DEF Move, RandomShot, Shoot
<1>4. HuntInv' <=> Hunting(n) /\ NextTo(n) \ shots' \subseteq Range(n.targets)
  BY <1>2 DEF HuntInv, Hunting, NextTo, Unknown
<1>5. Choice(m) = IF m.scan THEN [mem |-> m, aim |-> {}]
                  ELSE IF Len(m.hits) = MaxSize(m) THEN [mem |-> GiveUp(m), aim |-> {}]
                  ELSE [mem |-> AfterPops(m), aim |-> Aimed(m)]
  BY DEF Choice
<1> HIDE DEF m
<1>6. CASE m.scan
  <2>1. n = m
    BY <1>5, <1>6
  <2> HIDE DEF n
  <2> QED  BY <1>1, <1>4, <1>6, <2>1 DEF m, n
<1>7. CASE ~m.scan /\ Len(m.hits) = MaxSize(m)
  <2>1. n = GiveUp(m)
    BY <1>5, <1>7
  <2>2. n.hits = <<>> /\ n.targets = <<>>
    BY <1>1, <2>1 DEF GiveUp, IsMem, Fields
  <2>3. Hunting(n) /\ NextTo(n) = {}
    BY <2>2, NoHunt
  <2> QED  BY <1>4, <1>7, <2>3 DEF m
<1>8. CASE ~m.scan /\ Len(m.hits) # MaxSize(m)
  <2>1. n = AfterPops(m) /\ aim = Aimed(m)
    BY <1>5, <1>8
  <2>2. /\ Hunting(n) /\ NextTo(n) = NextTo(m)
        /\ \A d \in NextTo(m) : d \in Range(n.targets) \/ aim = {d}
        /\ aim \subseteq NextTo(m)
        /\ Range(Candidates(m)) \subseteq Cells /\ NextTo(m) # {} => aim # {}
    BY <1>1, <1>8, <2>1, Popping
  <2> HIDE DEF n, aim
  <2>3. NextTo(n) \ shots' \subseteq Range(n.targets)
    BY <1>3, <2>2
  <2> QED  BY <1>3, <1>4, <2>2, <2>3 DEF m, n
<1> QED  BY <1>6, <1>7, <1>8 DEF m

(***************************************************************************)
(* As long as a cell next to a hit of this hunt is unknown, the next shot  *)
(* is such a cell: nothing of the hunt is lost from the queue of targets   *)
(* over the rounds, and nothing of earlier hunts is left in it.            *)
(***************************************************************************)
THEOREM StaysWithShip == Spec => HuntsAround
<1>1. Init => HuntInv
  <2> SUFFICES ASSUME Init PROVE HuntInv
    OBVIOUS
  <2>1. mem.hits = <<>> /\ mem.targets = <<>>
    BY DEF Init, Fresh
  <2> QED  BY <2>1, NoHunt DEF HuntInv
<1>2. SInv /\ HuntInv /\ [Next]_vars => HuntInv'
  <2>1. ASSUME SInv, HuntInv, Move PROVE HuntInv'
    BY <2>1, MoveHunts
  <2>2. ASSUME HuntInv, UNCHANGED vars PROVE HuntInv'
    <3>1. mem' = mem /\ shots' = shots
      BY <2>2 DEF vars
    <3> QED  BY <2>2, <3>1 DEF HuntInv, Hunting, NextTo, Unknown
  <2> QED  BY <2>1, <2>2 DEF Next
<1> DEFINE m == Record(mem)
           Next_Hunts ==
             /\ round' # round /\ ~m.scan /\ Len(m.hits) # MaxSize(m)
             /\ Range(Candidates(m)) \subseteq Cells /\ NextTo(m) # {}
             => last'.shot \in NextTo(m)
<1>3. SInv /\ HuntInv /\ [Next]_vars => [Next_Hunts]_vars
  BY MoveHunts DEF Next
<1>4. HuntsAround <=> [][Next_Hunts]_vars
  BY DEF HuntsAround
<1> HIDE DEF Next_Hunts
<1> QED  BY <1>1, <1>2, <1>3, <1>4, ShotsKnown, PTL DEF Spec
=============================================================================
