-------------------------- MODULE MCQueryCallbacks --------------------------
(* Instances of QueryCallbacks, with its pool, for TLC. *)
EXTENDS QueryCallbacks
=============================================================================
