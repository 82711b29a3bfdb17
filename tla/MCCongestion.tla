---------------------------- MODULE MCCongestion ----------------------------
(* Small instances of Congestion for TLC. *)
EXTENDS Congestion

\* A full chunk behind shorter ones, and enough chunks for fast recovery
MixedScripts == {<<1200, 600, 1200, 1200, 300, 1200>>}
=============================================================================
