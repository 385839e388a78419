---------------------------- MODULE MCBufferPool ----------------------------
(* Small instances of BufferPool for TLC. *)
EXTENDS BufferPool

\* Tables, and tuples that are all well formed, are interchangeable.
Symmetry == Permutations(Table)

=============================================================================
