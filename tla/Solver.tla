------------------------------- MODULE Solver -------------------------------
(***************************************************************************)
(* Exercise 1B, the solver of the client: next_move records the report of  *)
(* the last shot on its own map and chooses the next one, at random or     *)
(* next to a hit.  It plays against a hidden layout that obeys the rules;  *)
(* the server's side is reduced to the report of shoot.                    *)
(*                                                                         *)
(* An action is a round of the client: next_move and the report.  A        *)
(* coordinate is a pair of numbers; what uint8_t makes 255 is -1 here,     *)
(* outside the map as well.  A deque is a sequence with its front first.   *)
(***************************************************************************)
EXTENDS BattleshipMap, FiniteSetsExt

CONSTANTS
  Layouts,     \* the layouts played
  Behind(_),   \* Behind(l): what may lie behind map->hits when l is played
  MaxRounds    \* MAX_ROUNDS

ASSUME SolverAssumption ==
  /\ Layouts \subseteq Seq(Cells \X Cells) /\ \A l \in Layouts : Legal(l)
  /\ \A l \in Layouts : Behind(l) \subseteq SUBSET (Nat \ 0 .. Size * Size - 1)
  /\ MaxRounds \in Nat \ {0}

VARIABLES
  layout,   \* the ships of the server
  behind,   \* the indices behind map->hits where the heap holds a 1
  mem,      \* the static variables of solver.c
  last,     \* last_shot and last_report of the client
  shots,    \* the shots the server has seen
  round,    \* their number
  status    \* "playing", or how the game ended

vars == <<layout, behind, mem, last, shots, round, status>>

None    == <<>>
Marks   == {"unknown", "hit", "miss"}
Reports == {"no_hit", "hit", "sunk", "last_sunk"}

\* init_solver and the initializers.
Fresh ==
  [mark    |-> [c \in Cells |-> "unknown"],   \* map->hits
   targets |-> <<>>,                          \* target_queue
   hits    |-> <<>>,                          \* hit_queue
   counts  |-> ShipCnt,                       \* ship_counts
   scan    |-> TRUE]                          \* scan_mode

Init ==
  /\ layout \in Layouts /\ behind \in Behind(layout)
  /\ mem = Fresh
  /\ last = None
  /\ shots = {} /\ round = 0 /\ status = "playing"

-----------------------------------------------------------------------------
(* Coordinates and the map.                                                *)

Up(c)    == <<c[1] - 1, c[2]>>
Down(c)  == <<c[1] + 1, c[2]>>
Left(c)  == <<c[1], c[2] - 1>>
Right(c) == <<c[1], c[2] + 1>>

\* get_hit = hit.  The index is computed from any coordinate: a column beyond
\* the map is one of the next row, a row beyond it uninitialized memory.
HitAt(m, c) ==
  LET index == c[1] * Size + c[2]
  IN  IF index < Size * Size THEN m.mark[<<index \div Size, index % Size>>] = "hit"
      ELSE index \in behind

Unknown(m) == {c \in Cells : m.mark[c] = "unknown"}

PutMiss(m, cs) == [m EXCEPT !.mark = [c \in Cells |-> IF c \in cs THEN "miss" ELSE @[c]]]

-----------------------------------------------------------------------------
(* get_ship_at: the ship whose last cell was hit at c.                     *)

\* The neighbour the search starts from.
From(c) == IF Up(c) \in Cells /\ Down(c) \in Cells THEN Up(c) ELSE Down(c)

\* Mutant: the cell below is not looked at.
Upright_AboveOnly(m, c) == HitAt(m, From(c))

\* The ship is vertical.
Upright(m, c) == HitAt(m, From(c)) \/ HitAt(m, Down(c))

\* The first cell of the hits on the map that end in From(c), or the cell after it.
Top(m, c) ==
  LET row == From(c)[1]
      Hits(r) == \A k \in r .. row : <<k, c[2]>> \in Cells /\ HitAt(m, <<k, c[2]>>)
  IN  <<Min({r \in 0 .. row + 1 : Hits(r)}), c[2]>>

\* The number of hits from begin on in steps of d; the first is not tested.
Extent(m, begin, d) ==
  Min({n \in 1 .. Size * Size : ~HitAt(m, <<begin[1] + n * d[1], begin[2] + n * d[2]>>)})

\* A horizontal ship is looked for in the row of From(c).
GetShipAt(m, c) ==
  IF Upright(m, c)
  THEN [begin |-> Top(m, c), vertical |-> TRUE, len |-> Extent(m, Top(m, c), <<1, 0>>)]
  ELSE [begin |-> Right(From(c)), vertical |-> FALSE, len |-> Extent(m, Right(From(c)), <<0, 1>>)]

\* mark_surroundings; end lies one cell behind the ship.
Surroundings(ship) ==
  LET row == ship.begin[1]
      col == ship.begin[2]
      offsets == 0 .. ship.len - 1
  IN  IF ship.vertical
      THEN {<<row - 1, col>>, <<row + ship.len + 1, col>>}
             \cup {<<row + i, col - 1>> : i \in offsets} \cup {<<row + i, col + 1>> : i \in offsets}
      ELSE {<<row, col - 1>>, <<row, col + ship.len + 1>>}
             \cup {<<row - 1, col + i>> : i \in offsets} \cup {<<row + 1, col + i>> : i \in offsets}

-----------------------------------------------------------------------------
(* next_move, first part: the report is recorded.                          *)

\* add_targets: each is pushed in front of the one before.
AddTargets(m, c) ==
  LET Target(n) == IF n \in Unknown(m) THEN <<n>> ELSE <<>>
  IN  [m EXCEPT !.targets =
         Target(Right(c)) \o Target(Left(c)) \o Target(Down(c)) \o Target(Up(c)) \o @]

\* Mutant: a miss is not put on the map.
NoHit_Forgotten(m, c) == m

NoHit(m, c) == [m EXCEPT !.mark[c] = "miss"]

Hit(m, c) ==
  LET marked == [m EXCEPT !.mark[c] = "hit", !.scan = FALSE]
  IN  [AddTargets(marked, c) EXCEPT !.hits = <<c>> \o @]

\* A length without a count is decremented behind the array, where nothing
\* that is still needed lies.
Sunk(m, c) ==
  LET marked == [m EXCEPT !.mark[c] = "hit"]
      ship   == GetShipAt(marked, c)
      Less(n) == (n + 255) % 256
  IN  [PutMiss(marked, Surroundings(ship)) EXCEPT
         !.counts = [n \in DOMAIN @ |-> IF n = ship.len THEN Less(@[n]) ELSE @[n]],
         !.targets = <<>>, !.hits = <<>>, !.scan = TRUE]

Record(m) ==
  IF last = None THEN m
  ELSE CASE last.report = "hit"    -> Hit(m, last.shot)
         [] last.report = "no_hit" -> NoHit(m, last.shot)
         [] OTHER                  -> Sunk(m, last.shot)

-----------------------------------------------------------------------------
(* next_move, second part: the choice.                                     *)

\* What get_min_size and get_max_size return if they find no ship.
NoSize == 0

\* The longest ships are not looked at.
MinSize(m) ==
  LET left == {n \in MinLen .. MaxLen - 1 : m.counts[n] # 0}
  IN  IF left = {} THEN NoSize ELSE Min(left)

MaxSize(m) ==
  LET left == {n \in MinLen .. MaxLen : m.counts[n] # 0}
  IN  IF left = {} THEN NoSize ELSE Max(left)

GiveUp(m) == [m EXCEPT !.scan = TRUE, !.targets = <<>>, !.hits = <<>>]

\* get_sink_coordinate with two hits: the cells before and after both, in the
\* direction they have in common.
Line(m) ==
  LET c1 == m.hits[1]
      c2 == m.hits[2]
  IN  IF c1[2] # c2[2] THEN <<Right(c2), Left(c2), Right(c1), Left(c1)>>
      ELSE <<Down(c2), Up(c2), Down(c1), Up(c1)>>

Candidates(m) == IF Len(m.hits) = 2 THEN Line(m) \o m.targets ELSE m.targets

\* Candidates are dropped as long as they are known cells of the map.
Stops(m, c) == c \in Cells => m.mark[c] = "unknown"

\* Mutant: one candidate is popped, whether it is of use or not.
Popped_Once(m) == IF Candidates(m) = <<>> THEN 0 ELSE 1

\* The number of candidates popped.
Popped(m) ==
  LET t == Candidates(m)
      stop == {i \in DOMAIN t : Stops(m, t[i])}
  IN  IF stop = {} THEN Len(t) ELSE Min(stop)

AfterPops(m) ==
  [m EXCEPT !.targets = SubSeq(Candidates(m), Popped(m) + 1, Len(Candidates(m)))]

\* The candidate popped last, if it lies on the map and is unknown.
Aimed(m) ==
  {c \in Cells : /\ Popped(m) > 0 /\ c = Candidates(m)[Popped(m)]
                 /\ Stops(m, c)}

\* The memory after next_move, and the candidate it returns; without one the
\* shot is random.
Choice(m) ==
  IF m.scan THEN [mem |-> m, aim |-> {}]
  ELSE IF Len(m.hits) = MaxSize(m) THEN [mem |-> GiveUp(m), aim |-> {}]
  ELSE [mem |-> AfterPops(m), aim |-> Aimed(m)]

-----------------------------------------------------------------------------
(* The game.                                                               *)

ShipOf(c) == CellsOf(layout[ShipAt(layout, c)])
Fleet     == UNION {CellsOf(layout[s]) : s \in DOMAIN layout}

\* shoot.
Report(c) ==
  IF c \in shots \/ ShipAt(layout, c) = NoShip THEN "no_hit"
  ELSE IF ~(ShipOf(c) \subseteq shots \cup {c}) THEN "hit"
  ELSE IF ~(Fleet \subseteq shots \cup {c}) THEN "sunk"
  ELSE "last_sunk"

\* The client sends the shot and receives the report.
Shoot(c) ==
  LET report == Report(c) IN
  /\ last' = [shot |-> c, report |-> report]
  /\ shots' = shots \cup {c} /\ round' = round + 1
  /\ status' = IF report = "last_sunk" THEN "won"
               ELSE IF round' = MaxRounds THEN "lost" ELSE "playing"

\* get_random_coordinate divides by get_min_size, and draws until the cell is
\* unknown.  The limit of ten draws lets any parity through.
RandomShot(m) ==
  \/ MinSize(m) = 0 /\ status' = "sigfpe" /\ UNCHANGED <<last, shots, round>>
  \/ /\ MinSize(m) # 0 /\ Unknown(m) = {}
     /\ status' = "hangs" /\ UNCHANGED <<last, shots, round>>
  \/ MinSize(m) # 0 /\ \E c \in Unknown(m) : Shoot(c)

Move ==
  LET choice == Choice(Record(mem)) IN
  /\ status = "playing"
  /\ mem' = choice.mem
  /\ \/ \E c \in choice.aim : Shoot(c)
     \/ choice.aim = {} /\ RandomShot(choice.mem)
  /\ UNCHANGED <<layout, behind>>

Next == Move

Spec == Init /\ [][Next]_vars

-----------------------------------------------------------------------------
(* Properties.                                                             *)

Ships  == DOMAIN layout
Sinks  == {s \in Ships : CellsOf(layout[s]) \subseteq shots}

(***************************************************************************)
(* No round is wasted: a shot lies on the map and the server has not seen  *)
(* it before, whatever the solver thinks it knows about the ships.         *)
(***************************************************************************)
ShotsFresh == [][round' # round => last'.shot \in Cells \ shots]_vars

(***************************************************************************)
(* Where get_ship_at finds the right ship, the solver is right: if all     *)
(* ships are vertical, end above the last row and have no other ship two   *)
(* rows below, it counts the ships that are left, believes of no cell of a *)
(* ship that it is water, and can always make a move but when only ships   *)
(* of the greatest length are left.                                        *)
(***************************************************************************)
Tall(l) ==
  \A s \in DOMAIN l :
    LET b == Begin(l[s])
        e == End(l[s])
    IN  /\ e[1] > b[1] /\ e[1] < Size - 1
        /\ ShipAt(l, <<e[1] + 2, e[2]>>) = NoShip

TallFleetJudged ==
  Tall(layout) =>
    /\ \A c \in Fleet : mem.mark[c] # "miss"
    /\ status # "hangs"
    /\ status = "sigfpe" => \A s \in Ships \ Sinks : Length(layout[s]) = MaxLen
    /\ last # None /\ status = "playing" =>
         \A n \in MinLen .. MaxLen :
           Record(mem).counts[n] = Cardinality({s \in Ships \ Sinks : Length(layout[s]) = n})

(***************************************************************************)
(* In target mode the solver stays with the ship it has hit: as long as a  *)
(* cell next to a hit of this hunt is unknown, the next shot is such a     *)
(* cell, neither random nor one noted in an earlier hunt, whatever was     *)
(* shot at in between.  The exceptions are a hunt with as many hits as the *)
(* longest ship left has cells, which get_sink_coordinate gives up, and a  *)
(* candidate outside the map, which ends the search.                       *)
(***************************************************************************)
Around(c) == {Up(c), Down(c), Left(c), Right(c)}

NextTo(m) == {d \in Unknown(m) : \E c \in Range(m.hits) : d \in Around(c)}

HuntsAround ==
  [][LET m == Record(mem) IN
     /\ round' # round /\ ~m.scan /\ Len(m.hits) # MaxSize(m)
     /\ Range(Candidates(m)) \subseteq Cells /\ NextTo(m) # {}
     => last'.shot \in NextTo(m)]_vars
=============================================================================
