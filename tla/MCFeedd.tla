-------------------------------- MODULE MCFeedd --------------------------------
(***************************************************************************)
(* Instances of Feedd for TLC: a connection of three records, the first    *)
(* and the last with a bad header, so that the good one can be held back   *)
(* between them, and a connection of two; a channel of one record, so that *)
(* it fills; a sync after every second record, so that a stop and a crash  *)
(* fall between two syncs; and two starts, so that a run follows a run.    *)
(* The instances under fairness have one start and one damaged record.     *)
(***************************************************************************)
EXTENDS Feedd, TLC

CONSTANTS c1, c2

MCRecord  == [from : Conns, num : 1 .. 3]
MCBad     == {<<c1, 1>>, <<c1, 3>>}
MCMaxSent == c1 :> 3 @@ c2 :> 2
MCBadLive     == {<<c1, 1>>}
MCMaxSentLive == c1 :> 2 @@ c2 :> 1
================================================================================
