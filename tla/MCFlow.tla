--------------------------------- MODULE MCFlow ---------------------------------
(***************************************************************************)
(* Instances of Flow for TLC: a queue of two slots (flow::ring rounds up   *)
(* to two, so it is the smallest there is), records of three words, and    *)
(* enough pushes to reuse a slot and wrap the grant, under each policy.     *)
(***************************************************************************)
EXTENDS Flow

MCWords  == {"a", "b", "c"}
MCGrants == {1, 2}
================================================================================
