--------------------------- MODULE MCBufferAttach ---------------------------
(* Model checking of BufferAttach.                                         *)
EXTENDS BufferAttach, TLC

\* The generators are interchangeable.
Symmetry == Permutations(Generators)

=============================================================================
