---------------------------- MODULE MCStreamReset ----------------------------
(***************************************************************************)
(* StreamReset with two ends and two stream identifiers.  Neither the ends *)
(* nor the identifiers are told apart by the specification: it never       *)
(* orders events of different streams.                                     *)
(***************************************************************************)
EXTENDS StreamReset

LOCAL INSTANCE TLC

CONSTANTS A, B, s1, s2

MCPeers == {A, B}

MCIds == {s1, s2}

Symmetry == Permutations(MCPeers) \cup Permutations(MCIds)
=============================================================================
