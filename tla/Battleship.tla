----------------------------- MODULE Battleship -----------------------------
(***************************************************************************)
(* Exercise 1B: a server that holds a map with ships and a client that     *)
(* shoots at it, over one TCP connection.  Server and client take turns;   *)
(* an action is a turn: what is done between two calls of recv.            *)
(*                                                                         *)
(* A message to the server is the set of its bits that are 1.  A message   *)
(* to the client is its two fields.  The solver of the client, which has a *)
(* module of its own, chooses any target, divides by zero, or loops for    *)
(* ever.                                                                   *)
(***************************************************************************)
EXTENDS BattleshipMap

CONSTANTS
  MaxRounds,   \* MAX_ROUNDS
  Layouts,     \* the ships on the command line: sequences of pairs of cells
  Targets(_),  \* Targets(layout): the cells the client shoots at
  Garbage(_),  \* Garbage(layout): what an uninitialized buffer may hold
  Faults       \* what the environment may do, a subset of FaultKinds

FaultKinds == {"flip", "kill_server", "kill_client"}

\* There are ships, and the longest have four cells.
ASSUME BattleshipAssumption ==
  /\ MaxLen <= 4 /\ \E n \in MinLen .. MaxLen : ShipCnt[n] > 0
  /\ MaxRounds \in 1 .. 255
  /\ Layouts \subseteq Seq(Cells \X Cells)
  /\ \A l \in Layouts : Targets(l) \subseteq Cells /\ Garbage(l) \subseteq SUBSET (0 .. 15)
  /\ Faults \subseteq FaultKinds

VARIABLES
  srv,        \* where the server is, or how it ended
  cli,        \* where the client is, or how it ended
  layout,     \* the arguments of the server
  hits,       \* the cells that are not unknown
  remainder,  \* remainder[s]: ship_remainder of the ship s
  shipCount,  \* ship_count: the intact ships
  round,      \* the rounds the server has done
  toServer,   \* the messages under way
  toClient,
  chosen,     \* history: the cells the client shot at
  faulty      \* history: a fault occurred

vars == <<srv, cli, layout, hits, remainder, shipCount, round, toServer, toClient, chosen, faulty>>
game == <<hits, remainder, shipCount, round>>

SrvEnds == {"usage", "won", "lost", "parity", "coordinate", "failed"}
CliEnds == (SrvEnds \ {"usage"}) \cup {"sigfpe"}

-----------------------------------------------------------------------------
(* Messages.                                                               *)

BitsOf(n)      == {k \in 0 .. 5 : (n \div 2 ^ k) % 2 = 1}
Value(bs)      == CHOOSE n \in 0 .. 63 : BitsOf(n) = bs
Shifted(bs, d) == {k + d : k \in bs}

\* Mutant: the bit mask of another bit.
CalcParityBit_Mask(msg) == Cardinality(msg \ {7}) % 2

\* PARITY_BIT is 0x800, the bit 11.
CalcParityBit(msg) == Cardinality(msg \ {11}) % 2

\* The cast leaves the bits below 8, of which none is at PARITY_POS.
GetParityBit(msg) == IF 15 \in msg \cap 0 .. 7 THEN 1 ELSE 0

CheckParity(msg)     == CalcParityBit(msg) = GetParityBit(msg)
SetParityBit(msg, b) == IF b = 1 THEN msg \cup {15} ELSE msg

Request(c) ==
  LET msg == BitsOf(c[1]) \cup Shifted(BitsOf(c[2]), 6)
  IN  SetParityBit(msg, CalcParityBit(msg))

GetCoordinates(msg) ==
  <<Value(msg \cap 0 .. 5), Value(Shifted(msg \cap 6 .. 11, -6))>>

Response(status, report) == [status |-> status, report |-> report]
Responses == [status: {"game_ongoing", "game_over", "err_parity", "err_coordinate"},
              report: {"no_hit", "hit", "sunk", "last_sunk"}]

-----------------------------------------------------------------------------
(* The checks of the layout.                                               *)

CheckShipCount(l) ==
  \A n \in MinLen .. MaxLen : Cardinality({s \in DOMAIN l : Length(l[s]) = n}) = ShipCnt[n]

\* A neighbour outside the map is replaced by one inside.
Neighbours(c) ==
  LET Inside(x, dx) == IF x + dx \in 0 .. Size - 1 THEN x + dx ELSE x
  IN  {<<Inside(c[1], d[1]), Inside(c[2], d[2])>> : d \in (-1 .. 1) \X (-1 .. 1)}

\* Mutant: the end of the ship is not looked at.
CheckShipTouch_BeginOnly(l) ==
  \A s \in DOMAIN l : \A n \in Neighbours(Begin(l[s])) : ShipAt(l, n) \in {NoShip, s}

CheckShipTouch(l) ==
  \A s \in DOMAIN l : \A n \in Neighbours(Begin(l[s])) \cup Neighbours(End(l[s])) :
    ShipAt(l, n) \in {NoShip, s}

-----------------------------------------------------------------------------
(* The connection.  The end of a process closes it; sending once more than *)
(* the other side will read brings a reset, and the next send SIGPIPE.     *)

BrokenPipe(queue, ended) == ended /\ queue # <<>>

Init ==
  /\ srv = "args" /\ cli = "connect"
  /\ layout \in Layouts
  /\ hits = {} /\ remainder = <<>> /\ shipCount = 0 /\ round = 0
  /\ toServer = <<>> /\ toClient = <<>>
  /\ chosen = {} /\ faulty = FALSE

-----------------------------------------------------------------------------
(* The server.                                                             *)

\* parse_args.
Accepts(l) == (\A s \in DOMAIN l : IsShip(l[s])) /\ CheckShipCount(l) /\ CheckShipTouch(l)

ParseArgs ==
  /\ srv = "args"
  /\ IF Accepts(layout)
     THEN /\ srv' = "listen"
          /\ remainder' = [s \in DOMAIN layout |-> Length(layout[s])]
          /\ shipCount' = Len(layout)
     ELSE srv' = "usage" /\ UNCHANGED <<remainder, shipCount>>
  /\ UNCHANGED <<cli, layout, hits, round, toServer, toClient, chosen, faulty>>

ServerSends(msg) ==
  toClient' = IF BrokenPipe(toClient, cli \in CliEnds) THEN toClient ELSE Append(toClient, msg)

ServerGoes(to) ==
  srv' = IF BrokenPipe(toClient, cli \in CliEnds) THEN "failed" ELSE to

Refuse(status, to) ==
  /\ ServerSends(Response(status, "no_hit")) /\ ServerGoes(to)
  /\ UNCHANGED game

\* Mutant: does not see that a cell was a target before.
Shoot_Again(c) ==
  LET s == ShipAt(layout, c) IN
  /\ hits' = hits \cup {c} /\ round' = round + 1
  /\ \/ /\ s = NoShip
        /\ UNCHANGED <<remainder, shipCount>>
        /\ ServerSends(Response("game_ongoing", "no_hit")) /\ ServerGoes("play")
     \/ /\ s # NoShip /\ remainder[s] > 1
        /\ remainder' = [remainder EXCEPT ![s] = @ - 1] /\ UNCHANGED shipCount
        /\ ServerSends(Response("game_ongoing", "hit")) /\ ServerGoes("play")
     \/ /\ s # NoShip /\ remainder[s] <= 1
        /\ remainder' = [remainder EXCEPT ![s] = @ - 1] /\ shipCount' = shipCount - 1
        /\ IF shipCount > 1
           THEN ServerSends(Response("game_ongoing", "sunk")) /\ ServerGoes("play")
           ELSE ServerSends(Response("game_over", "last_sunk")) /\ ServerGoes("won")

\* Mutant: a shot at the same cell is no round.
Shoot_FreeRepeat(c) ==
  \/ /\ c \in hits
     /\ ServerSends(Response("game_ongoing", "no_hit")) /\ ServerGoes("play")
     /\ UNCHANGED game
  \/ c \notin hits /\ Shoot_Again(c)

\* shoot, and the answer.
Shoot(c) ==
  LET s == ShipAt(layout, c) IN
  /\ hits' = hits \cup {c} /\ round' = round + 1
  /\ \/ /\ c \in hits \/ s = NoShip
        /\ UNCHANGED <<remainder, shipCount>>
        /\ ServerSends(Response("game_ongoing", "no_hit")) /\ ServerGoes("play")
     \/ /\ c \notin hits /\ s # NoShip /\ remainder[s] > 1
        /\ remainder' = [remainder EXCEPT ![s] = @ - 1] /\ UNCHANGED shipCount
        /\ ServerSends(Response("game_ongoing", "hit")) /\ ServerGoes("play")
     \/ /\ c \notin hits /\ s # NoShip /\ remainder[s] = 1
        /\ remainder' = [remainder EXCEPT ![s] = 0] /\ shipCount' = shipCount - 1
        /\ IF shipCount > 1
           THEN ServerSends(Response("game_ongoing", "sunk")) /\ ServerGoes("play")
           ELSE ServerSends(Response("game_over", "last_sunk")) /\ ServerGoes("won")

\* The body of the loop for one message.
Serve(msg) ==
  \/ ~CheckParity(msg) /\ Refuse("err_parity", "parity")
  \/ /\ CheckParity(msg) /\ ~CheckCoordinate(GetCoordinates(msg))
     /\ Refuse("err_coordinate", "coordinate")
  \/ /\ CheckParity(msg) /\ CheckCoordinate(GetCoordinates(msg))
     /\ Shoot(GetCoordinates(msg))

ServerRound ==
  /\ srv = "play" /\ round < MaxRounds /\ toServer # <<>>
  /\ Serve(Head(toServer))
  /\ toServer' = Tail(toServer)
  /\ UNCHANGED <<cli, layout, chosen, faulty>>

\* recv returns 0 at the end of the input, which recv_msg takes for success:
\* the message is what was in the buffer.  After an answer the client did not
\* read there may be a reset instead, and recv fails.
ServerRoundAtEnd ==
  /\ srv = "play" /\ round < MaxRounds /\ toServer = <<>> /\ cli \in CliEnds
  /\ \/ \E msg \in Garbage(layout) : Serve(msg)
     \/ toClient # <<>> /\ srv' = "failed" /\ UNCHANGED <<toClient, game>>
  /\ UNCHANGED <<cli, layout, toServer, chosen, faulty>>

\* Mutant: the server leaves the loop without a word.
GameLost_Silent ==
  /\ srv = "play" /\ round = MaxRounds
  /\ srv' = "lost"
  /\ UNCHANGED <<cli, layout, toServer, toClient, chosen, faulty, game>>

\* The end of the loop; the answer to the last shot is already under way.
GameLost ==
  /\ srv = "play" /\ round = MaxRounds
  /\ ServerSends(Response("game_over", "no_hit")) /\ ServerGoes("lost")
  /\ UNCHANGED <<cli, layout, toServer, chosen, faulty, game>>

Server == ParseArgs \/ ServerRound \/ ServerRoundAtEnd \/ GameLost

-----------------------------------------------------------------------------
(* The client.                                                             *)

\* connect and accept; connect fails if no server listens.
Connect ==
  /\ cli = "connect"
  /\ \/ srv = "listen" /\ srv' = "play" /\ cli' = "move"
     \/ srv # "listen" /\ cli' = "failed" /\ UNCHANGED srv
  /\ UNCHANGED <<layout, toServer, toClient, chosen, faulty, game>>

Flipped(msg, b) == IF b \in msg THEN msg \ {b} ELSE msg \cup {b}

\* next_move, and the request, of which a bit may be flipped on the way.  In
\* next_move get_random_coordinate may divide by zero, which SIGFPE ends, or
\* draw for ever on a map without an unknown cell: no request is sent then.
Move ==
  /\ cli = "move"
  /\ \/ /\ ~BrokenPipe(toServer, srv \in SrvEnds)
        /\ \E c \in Targets(layout) :
             /\ chosen' = chosen \cup {c}
             /\ \/ toServer' = Append(toServer, Request(c)) /\ UNCHANGED faulty
                \/ /\ "flip" \in Faults /\ faulty' = TRUE
                   /\ \E b \in 0 .. 15 : toServer' = Append(toServer, Flipped(Request(c), b))
        /\ cli' = "recv"
     \/ /\ BrokenPipe(toServer, srv \in SrvEnds)
        /\ cli' = "failed" /\ UNCHANGED <<chosen, toServer, faulty>>
     \/ cli' \in {"sigfpe", "hangs"} /\ UNCHANGED <<chosen, toServer, faulty>>
  /\ UNCHANGED <<srv, layout, toClient, game>>

\* The switch on the status of the response.
Verdict(msg) ==
  CASE msg.status = "game_over"      -> IF msg.report = "last_sunk" THEN "won" ELSE "lost"
    [] msg.status = "err_parity"     -> "parity"
    [] msg.status = "err_coordinate" -> "coordinate"
    [] msg.status = "game_ongoing"   -> "move"

Receive ==
  /\ cli = "recv" /\ toClient # <<>>
  /\ cli' = Verdict(Head(toClient))
  /\ toClient' = Tail(toClient)
  /\ UNCHANGED <<srv, layout, toServer, chosen, faulty, game>>

\* The server is gone: recv_msg reports success and whatever was in the
\* buffer, or recv fails after a reset.
ReceiveAtEnd ==
  /\ cli = "recv" /\ toClient = <<>> /\ srv \in SrvEnds
  /\ cli' \in {Verdict(msg) : msg \in Responses} \cup {"failed"}
  /\ UNCHANGED <<srv, layout, toServer, toClient, chosen, faulty, game>>

Client == Connect \/ Move \/ Receive \/ ReceiveAtEnd

\* A signal: the handler of the server cleans up and exits, the client ends.
Kill ==
  /\ \/ /\ "kill_server" \in Faults /\ srv \notin SrvEnds
        /\ srv' = "failed" /\ UNCHANGED cli
     \/ /\ "kill_client" \in Faults /\ cli \notin CliEnds
        /\ cli' = "failed" /\ UNCHANGED srv
  /\ faulty' = TRUE
  /\ UNCHANGED <<layout, toServer, toClient, chosen, game>>

Next == Server \/ Client \/ Kill

\* Both processes run.
Spec == Init /\ [][Next]_vars /\ WF_vars(Server) /\ WF_vars(Client)

-----------------------------------------------------------------------------
(* Properties.                                                             *)

Started == srv \notin {"args", "usage"} /\ remainder # <<>>

(***************************************************************************)
(* parse_args accepts what the rules allow and nothing else: the ships of  *)
(* each length are all there and no two of them overlap or touch, not even *)
(* at a corner.  check_ship_touch looks at the two ends of each ship only. *)
(***************************************************************************)
LayoutChecked == (Started => Legal(layout)) /\ (srv = "usage" => ~Legal(layout))

(***************************************************************************)
(* The counters shoot decides by agree with the shots: what is left of a   *)
(* ship is its cells that no shot hit, however often a cell was a target,  *)
(* and a ship counts as intact until it is sunk.                           *)
(***************************************************************************)
CountersAgree ==
  Started =>
    /\ \A s \in DOMAIN layout : remainder[s] = Cardinality(CellsOf(layout[s]) \ hits)
    /\ shipCount = Cardinality({s \in DOMAIN layout : remainder[s] > 0})

(***************************************************************************)
(* A shot the server carries out was chosen by the client: a bit that      *)
(* flips on the way is noticed, by the parity or, as the bit 11 does not   *)
(* count there, by the coordinate.  Until the client is gone.              *)
(***************************************************************************)
FlipNoticed == cli \notin CliEnds => hits \subseteq chosen

(***************************************************************************)
(* A game without a fault ends with the same verdict on both sides, there  *)
(* is no other end than winning or losing, the client wins if it has hit   *)
(* all ships, and it loses after MAX_ROUNDS rounds.  A client that dies in *)
(* next_move has no verdict, and the server makes of its end what the      *)
(* buffer holds.                                                           *)
(***************************************************************************)
VerdictsAgree ==
  ~faulty /\ chosen # {} /\ cli \in CliEnds \ {"sigfpe"} =>
    /\ srv = cli /\ cli \in {"won", "lost"}
    /\ cli = "won" <=> UNION {CellsOf(layout[s]) : s \in DOMAIN layout} \subseteq hits
    /\ cli = "lost" => round = MaxRounds

(***************************************************************************)
(* Both processes end, whatever is flipped and whichever of them is killed *)
(* or dies in next_move; a client that does not return from next_move is   *)
(* the only thing that keeps them, as neither side has a timeout.          *)
(***************************************************************************)
GameEnds == srv = "play" ~> (srv \in SrvEnds /\ cli \in CliEnds) \/ cli = "hangs"

-----------------------------------------------------------------------------
(* The inductive invariant behind the four invariants above.               *)

TypeOK ==
  /\ srv \in SrvEnds \cup {"args", "listen", "play"}
  /\ cli \in CliEnds \cup {"connect", "move", "recv", "hangs"}
  /\ layout \in Layouts /\ hits \subseteq Cells /\ chosen \subseteq Cells
  /\ remainder \in {<<>>} \cup [DOMAIN layout -> Nat] /\ shipCount \in Nat
  /\ round \in 0 .. MaxRounds /\ faulty \in BOOLEAN
  /\ toServer \in Seq(SUBSET (0 .. 15)) /\ toClient \in Seq(Responses)

\* The server plays with what parse_args accepted, and not before.
LayoutInv ==
  /\ srv \in {"args", "listen", "usage"} => hits = {} /\ round = 0
  /\ srv \in {"args", "usage"} => remainder = <<>>
  /\ srv = "usage" => ~Accepts(layout)
  /\ srv \notin {"args", "usage", "failed"} => remainder # <<>>
  /\ remainder # <<>> => Accepts(layout)

CountInv ==
  remainder # <<>> =>
    /\ \A s \in DOMAIN layout : remainder[s] = Cardinality(CellsOf(layout[s]) \ hits)
    /\ shipCount = Cardinality({s \in DOMAIN layout : remainder[s] > 0})

\* What the server makes of its counters: it wins no game, and loses none,
\* in which ships are left, or none.
EndInv ==
  /\ srv = "won" => shipCount = 0
  /\ srv \in {"listen", "play", "lost"} => shipCount > 0
  /\ srv = "lost" => round = MaxRounds

\* A message the client sent, with at most one bit flipped.
Sent(msg) ==
  \E c \in chosen : msg = Request(c) \/ \E b \in 0 .. 15 : msg = Flipped(Request(c), b)

FlipInv ==
  cli \notin CliEnds => hits \subseteq chosen /\ \A i \in DOMAIN toServer : Sent(toServer[i])

OneRequest == \E c \in Cells : toServer = <<Request(c)>>
Ongoing    == {msg \in Responses : msg.status = "game_ongoing"}
Over       == Response("game_over", "no_hit")

\* Whose turn it is in a game without faults, and what is under way.
TurnInv ==
  ~faulty =>
    /\ cli \in {"connect", "failed"} =>
         /\ srv \in {"args", "listen", "usage"}
         /\ toServer = <<>> /\ toClient = <<>> /\ chosen = {}
    /\ cli \in {"move", "hangs"} =>
         /\ toServer = <<>>
         /\ \/ srv = "play" /\ toClient = <<>>
            \/ srv = "lost" /\ toClient = <<Over>>
    /\ cli = "recv" =>
         \/ srv = "play" /\ OneRequest /\ toClient = <<>>
         \/ srv = "play" /\ toServer = <<>> /\ \E msg \in Ongoing : toClient = <<msg>>
         \/ srv = "won" /\ toServer = <<>> /\ toClient = <<Response("game_over", "last_sunk")>>
         \/ srv = "lost" /\ toServer = <<>> /\ \E msg \in Ongoing : toClient = <<msg, Over>>
         \/ srv = "lost" /\ OneRequest /\ toClient = <<Over>>
    /\ cli = "sigfpe" => toServer = <<>>
    /\ cli \in {"won", "lost"} => srv = cli /\ toClient = <<>>
    /\ cli \notin {"parity", "coordinate"}

IInv == TypeOK /\ LayoutInv /\ CountInv /\ EndInv /\ FlipInv /\ TurnInv

=============================================================================
