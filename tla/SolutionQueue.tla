---------------------------- MODULE SolutionQueue ----------------------------
(***************************************************************************)
(* What the shared ring buffer of exercise 3 promises to the generators    *)
(* and the supervisor, without saying how: a bounded first-in first-out    *)
(* queue into which every offered solution is put at most once, from which *)
(* one reader takes, and which can be closed once and for all.             *)
(*                                                                         *)
(* The contract is that of include/ring_buffer.h (block_write, block_read, *)
(* close_buffer); RingBuffer.tla is shown to implement it.                 *)
(***************************************************************************)
EXTENDS Naturals, Sequences

CONSTANTS
  Generators,   \* the writing processes
  Solutions,    \* the values that travel through the buffer
  NoSolution,   \* "nothing offered", "nothing taken yet"
  Capacity      \* number of slots

VARIABLES
  offered,      \* the solution each generator is trying to write
  queue,        \* written and not yet read, oldest first
  got,          \* the solution the supervisor read last
  closed        \* close_buffer has been called

vars == <<offered, queue, got, closed>>

TypeOK ==
  /\ offered \in [Generators -> Solutions \cup {NoSolution}]
  /\ queue \in Seq(Solutions) /\ Len(queue) <= Capacity
  /\ got \in Solutions \cup {NoSolution}
  /\ closed \in BOOLEAN

Init ==
  /\ offered = [g \in Generators |-> NoSolution]
  /\ queue = <<>>
  /\ got = NoSolution
  /\ closed = FALSE

\* A generator calls block_write with s.
Offer(g, s) ==
  /\ offered[g] = NoSolution
  /\ offered' = [offered EXCEPT ![g] = s]
  /\ UNCHANGED <<queue, got, closed>>

\* The offered solution enters the queue, once, and only while there is room.
Put(g) ==
  /\ ~closed
  /\ offered[g] # NoSolution
  /\ Len(queue) < Capacity
  /\ queue' = Append(queue, offered[g])
  /\ offered' = [offered EXCEPT ![g] = NoSolution]
  /\ UNCHANGED <<got, closed>>

\* The write is given up: the buffer is closed, a semaphore call failed or the
\* generator was killed.
Drop(g) ==
  /\ offered[g] # NoSolution
  /\ offered' = [offered EXCEPT ![g] = NoSolution]
  /\ UNCHANGED <<queue, got, closed>>

\* The supervisor reads the oldest solution.
Get ==
  /\ ~closed
  /\ queue # <<>>
  /\ got' = Head(queue)
  /\ queue' = Tail(queue)
  /\ UNCHANGED <<offered, closed>>

\* The buffer is closed; what it still holds is lost.
Close ==
  /\ ~closed
  /\ closed' = TRUE
  /\ queue' = <<>>
  /\ UNCHANGED <<offered, got>>

Next ==
  \/ \E g \in Generators : \/ \E s \in Solutions : Offer(g, s)
                           \/ Put(g)
                           \/ Drop(g)
  \/ Get
  \/ Close

Spec == Init /\ [][Next]_vars
==============================================================================
