------------------------------ MODULE Generator ------------------------------
(***************************************************************************)
(* Exercise 3: what one generator process computes.  It paints the graph   *)
(* at random, deletes edges whose ends have the same colour until none is  *)
(* left, and submits the deleted edges as a solution: removing them makes  *)
(* the graph 3-colourable.  A colouring that needs more than               *)
(* MAX_SOLUTION_SIZE deletions is given up.                                *)
(*                                                                         *)
(* Vertices are of type vid_t: loop variables and vertex numbers are taken *)
(* modulo 2^8, here modulo VidMod.                                         *)
(***************************************************************************)
EXTENDS Naturals, Sequences, FiniteSets

CONSTANTS
  Arguments,    \* the edge lists the program is started with: sequences of
                \* pairs of vertex numbers
  VidMod,       \* number of values of vid_t, 256 in the source
  MaxSolution   \* MAX_SOLUTION_SIZE

Colors == {"red", "green", "blue"}
Vid    == 0 .. VidMod - 1

ASSUME GeneratorAssumption ==
  /\ Arguments \subseteq Seq(Nat \X Nat)
  /\ \A a \in Arguments : a # <<>>
  /\ VidMod \in Nat \ {0}
  /\ MaxSolution \in Nat \ {0}

VARIABLES
  args,       \* the command line, constant
  vertices,   \* graph->vertices: a function on 0 .. vertex_size - 1
  i,          \* the loop variable of new_graph
  edges,      \* graph->edges, edge_size entries
  block,      \* the heap block of graph->edges: "allocated" or "freed"
  solution,   \* the edges deleted so far
  pc

vars == <<args, vertices, i, edges, block, solution, pc>>

\* parse_edge: strtol, stored in a vid_t.
ParseEdge(e) == <<e[1] % VidMod, e[2] % VidMod>>
InputEdges   == [k \in 1 .. Len(args) |-> ParseEdge(args[k])]

\* max_node(edges, size) + 1.
VertexSize ==
  LET used == {InputEdges[k][1] : k \in 1 .. Len(args)}
                \cup {InputEdges[k][2] : k \in 1 .. Len(args)}
  IN  (CHOOSE m \in used : \A n \in used : n <= m) + 1

TypeOK ==
  /\ args \in Arguments
  /\ vertices \in [0 .. VertexSize - 1 -> Colors]
  /\ i \in Vid
  /\ edges \in Seq(Vid \X Vid) /\ Len(edges) <= Len(args)
  /\ block \in {"allocated", "freed"}
  /\ solution \in Seq(Vid \X Vid) /\ Len(solution) <= MaxSolution + 1
  /\ pc \in {"paint", "search", "submit", "next", "exit", "exited", "aborted"}

\* new_graph after its allocations: calloc paints everything red.
NewGraph ==
  /\ edges' = InputEdges
  /\ block' = "allocated"
  /\ vertices' = [v \in 0 .. VertexSize - 1 |-> "red"]
  /\ i' = 0
  /\ solution' = <<>>

Init ==
  /\ args \in Arguments
  /\ edges = InputEdges
  /\ block = "allocated"
  /\ vertices = [v \in 0 .. VertexSize - 1 |-> "red"]
  /\ i = 0
  /\ solution = <<>>
  /\ pc = "paint"

-----------------------------------------------------------------------------
\* The painting loop of new_graph; i is a vid_t and wraps.
Paint ==
  /\ pc = "paint"
  /\ \/ /\ i < VertexSize
        /\ \E c \in Colors : vertices' = [vertices EXCEPT ![i] = c]
        /\ i' = (i + 1) % VidMod
        /\ UNCHANGED pc
     \/ /\ i >= VertexSize
        /\ pc' = "search"
        /\ UNCHANGED <<vertices, i>>
  /\ UNCHANGED <<args, edges, block, solution>>

\* An edge whose ends have the same colour.
Conflict(e) == vertices[e[1]] = vertices[e[2]]

\* Mutant: the loop stops one edge short.
GraphColored_Short == \A k \in 1 .. Len(edges) - 1 : ~Conflict(edges[k])

GraphColored == \A k \in 1 .. Len(edges) : ~Conflict(edges[k])

\* find_edge: the first conflict.
FoundAt ==
  CHOOSE k \in 1 .. Len(edges) :
    Conflict(edges[k]) /\ \A l \in 1 .. k - 1 : ~Conflict(edges[l])

\* Mutant: the index is as narrow as a position in a solution.
Reachable_Narrow(k) == k <= MaxSolution

\* delete_edge's search reaches the edge only if its index fits a vid_t.
\* (Otherwise it does not end: the process is stuck.)
Reachable(k) == k <= VidMod

\* Mutant: the edge to delete is not swapped with the last one.
Without_NoSwap(s, k) == SubSeq(s, 1, Len(s) - 1)

\* delete_edge: swap with the last edge, shorten by one.
Without(s, k) == SubSeq([s EXCEPT ![k] = s[Len(s)]], 1, Len(s) - 1)

\* The graph is properly coloured: leave the loop.
Colored ==
  /\ pc = "search"
  /\ GraphColored
  /\ pc' = "submit"
  /\ UNCHANGED <<args, vertices, i, edges, block, solution>>

\* Mutant: the loop goes on after MAX_SOLUTION_SIZE.
DeleteConflict_NoLimit ==
  /\ pc = "search"
  /\ ~GraphColored
  /\ Len(edges) > 1
  /\ Reachable(FoundAt)
  /\ edges' = Without(edges, FoundAt)
  /\ solution' = Append(solution, edges[FoundAt])
  /\ UNCHANGED <<args, vertices, i, block, pc>>

\* Delete the first conflict; give the colouring up after too many.
DeleteConflict ==
  /\ pc = "search"
  /\ ~GraphColored
  /\ Len(edges) > 1
  /\ Reachable(FoundAt)
  /\ edges' = Without(edges, FoundAt)
  /\ solution' = Append(solution, edges[FoundAt])
  /\ pc' = IF Len(solution') > MaxSolution THEN "next" ELSE "search"
  /\ UNCHANGED <<args, vertices, i, block>>

(***************************************************************************)
(* Delete the only edge: realloc(p, 0) frees p and returns NULL, so        *)
(* delete_edge returns -1 although the edge is gone, graph->edges is left  *)
(* dangling, and main leaves the loop without recording the edge.          *)
(***************************************************************************)
DeleteLast ==
  /\ pc = "search"
  /\ ~GraphColored
  /\ Len(edges) = 1
  /\ edges' = <<>>
  /\ block' = "freed"
  /\ pc' = "submit"
  /\ UNCHANGED <<args, vertices, i, solution>>

\* block_write; an empty solution ends the program.
Submit ==
  /\ pc = "submit"
  /\ pc' = IF solution = <<>> THEN "exit" ELSE "next"
  /\ UNCHANGED <<args, vertices, i, edges, block, solution>>

\* free_graph of the old graph, then the next colouring.
NextColoring ==
  /\ pc = "next"
  /\ block = "allocated"
  /\ NewGraph
  /\ pc' = "paint"
  /\ UNCHANGED args

\* exit_handler: free_graph.
Exit ==
  /\ pc = "exit"
  /\ block = "allocated"
  /\ pc' = "exited"
  /\ UNCHANGED <<args, vertices, i, edges, block, solution>>

\* free_graph of a graph whose edges are freed already: the C library aborts.
DoubleFree ==
  /\ pc \in {"next", "exit"}
  /\ block = "freed"
  /\ pc' = "aborted"
  /\ UNCHANGED <<args, vertices, i, edges, block, solution>>

Next ==
  \/ Paint \/ Colored \/ DeleteConflict \/ DeleteLast \/ Submit
  \/ NextColoring \/ Exit \/ DoubleFree

Spec == Init /\ [][Next]_vars

\* The process runs; the colours may always be unlucky.
FairSpec == Spec /\ WF_vars(Next)

-----------------------------------------------------------------------------
(* Properties.                                                             *)

\* How often e occurs in s.
Count(s, e) == Cardinality({k \in 1 .. Len(s) : s[k] = e})

Ends == {InputEdges[k] : k \in 1 .. Len(args)}

(***************************************************************************)
(* Deleting by swap-with-last repeats no edge, parallel edges included,    *)
(* and loses none: every edge of the input is kept or deleted as often as  *)
(* it was given.  But the last edge of a graph goes unrecorded: graph.h:44 *)
(* has delete_edge return "0 on success, -1 on failure", and it deletes    *)
(* that edge and returns -1.                                               *)
(***************************************************************************)
Forgotten(d, e) == IF block = "freed" /\ d = e THEN 1 ELSE 0

Partition ==
  /\ \E d \in Ends : \A e \in Ends :
       Count(edges, e) + Count(solution, e) + Forgotten(d, e) = Count(InputEdges, e)
  /\ \A k \in 1 .. Len(edges) : edges[k] \in Ends
  /\ block = "freed" => edges = <<>>

\* The edges E can be coloured, whatever the program painted.
Colorable(E) ==
  \E c \in [{e[1] : e \in E} \cup {e[2] : e \in E} -> Colors] : \A e \in E : c[e[1]] # c[e[2]]

(***************************************************************************)
(* What is handed to block_write is a solution: the edges of the command   *)
(* line that it does not name form a 3-colourable graph, in particular if  *)
(* it is empty and the supervisor stops.  That holds although parse_edge   *)
(* truncates the numbers, so that vertices are merged and edges become     *)
(* self-loops or parallel: an edge is named by its truncated numbers.      *)
(* (Self-loops on the command line are excluded: DeleteLast forgets one.)  *)
(***************************************************************************)
SubmittedSound ==
  pc = "submit" /\ (\A k \in 1 .. Len(args) : args[k][1] # args[k][2]) =>
    Colorable({e \in {args[k] : k \in 1 .. Len(args)} :
                 \A d \in 1 .. Len(solution) : solution[d] # ParseEdge(e)})

(***************************************************************************)
(* Every colouring comes to an end, submitted or given up, if neither loop *)
(* over a vid_t can fail to: the graph does not have the highest vertex    *)
(* number, for which the painting loop of new_graph never ends, nor more   *)
(* edges than a vid_t has values, of which delete_edge may not reach all.  *)
(***************************************************************************)
ColoringEnds ==
  pc = "paint" /\ VertexSize < VidMod /\ Len(args) <= VidMod ~> pc \in {"next", "exited", "aborted"}

-----------------------------------------------------------------------------
(* The inductive invariant.                                                *)

\* More than MAX_SOLUTION_SIZE edges are deleted only on the way to the next
\* colouring, and a freed block is not searched.
ControlInv ==
  /\ pc \in {"paint", "search", "submit"} => Len(solution) <= MaxSolution
  /\ block = "freed" => pc \in {"submit", "next", "exit", "aborted"}
  /\ pc = "submit" /\ block = "allocated" => GraphColored

IInv == TypeOK /\ ControlInv /\ Partition
=============================================================================
