---------------------------- MODULE MCRingBuffer ----------------------------
(* Model checking of RingBuffer: solutions are named by their size.        *)
EXTENDS RingBuffer, TLC

MCSizeOf == [s \in Solutions |-> s]

\* The generators are interchangeable; used by runs without liveness only.
Symmetry == Permutations(Generators)

=============================================================================
