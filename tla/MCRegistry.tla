----------------------------- MODULE MCRegistry -----------------------------
(* Clients a, b and c; the chunks of the heap are interchangeable. *)
EXTENDS Registry, TLC

CONSTANTS a, b, c, n1, n2, n3, n4

MCSymmetry == Permutations(Nodes)
=============================================================================
