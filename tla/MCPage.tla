--------------------------------- MODULE MCPage ---------------------------------
(***************************************************************************)
(* Three connections to a server that serves two at once.                  *)
(***************************************************************************)
EXTENDS Page, TLC

CONSTANTS c1, c2, c3

MCAsks == (c1 :> {"stream"}) @@ (c2 :> {"act"}) @@ (c3 :> {"stream", "plain"})

MCAsksBoth == (c1 :> {"act"}) @@ (c2 :> {"act"})
================================================================================
