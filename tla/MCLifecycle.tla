---------------------------- MODULE MCLifecycle ----------------------------
(* Lifecycle for TLC: the sets of peers that the configurations choose from. *)
EXTENDS Lifecycle

Nobody == {}
OnlyClient == {"client"}
OnlyServer == {"server"}
=============================================================================
