----------------------------- MODULE MCEndpoint -----------------------------
EXTENDS Endpoint, TLC

(* Association ids and slab keys are only compared with each other. *)
Symmetry == Permutations(Aids) \cup Permutations(Handles)
=============================================================================
