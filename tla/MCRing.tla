--------------------------------- MODULE MCRing ---------------------------------
(***************************************************************************)
(* Instances of Ring for TLC: a ring of two slots, so that a reader is     *)
(* lapped after two records, and records of two words, the least that can  *)
(* be torn.  MaxPublished is at least twice the capacity plus one, so every *)
(* slot is reused and a reader can be lapped twice.                        *)
(***************************************************************************)
EXTENDS Ring

MCWords == {"seq", "body"}
================================================================================
