---------------------------- MODULE MCOperations ----------------------------
(* Small instances of Operations for TLC. *)
EXTENDS Operations, TLC

CONSTANTS c1, c2, c3, h1, h2

\* The operator's container is in the way of the first replica's name.
FirstName == {BaseName(0)}

Symmetry == Permutations(Ids) \cup Permutations(Handlers)
=============================================================================
