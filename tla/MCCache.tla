--------------------------------- MODULE MCCache --------------------------------
(***************************************************************************)
(* An instance of Cache for TLC: books of one level a side under a feed    *)
(* that sends a symbol two prices on one of them, deletes and resets;      *)
(* names that collide in a table that starts with room for one and may     *)
(* grow once; two shards; queues of two.                                   *)
(***************************************************************************)
EXTENDS Cache

MCNames  == {"x", "y", "z"}
MCHashOf == [n \in MCNames |-> IF n = "y" THEN 0 ELSE 2]
MCRegistered == {"y"}

Put1(side, px, qty) == [kind |-> "Depth", side |-> side, sym |-> "x", px |-> px, qty |-> qty]
ResetOf(side)       == [kind |-> "DepthReset", side |-> side, sym |-> "x", px |-> 0, qty |-> 0]

MCRecords ==
    {Put1("Bid", 8, 3), Put1("Bid", 9, 12), Put1("Bid", 9, 0),
     Put1("Ask", 8, 4), ResetOf("Bid"),
     [kind |-> "Depth", side |-> "Bid", sym |-> "z", px |-> 6, qty |-> 5],
     [kind |-> "Depth", side |-> "Both", sym |-> "x", px |-> 6, qty |-> 5],
     [kind |-> "Heartbeat", side |-> "Both", sym |-> "x", px |-> 0, qty |-> 0]}

MCPolicies == {"DropOldest", "DropNewest", "Credit"}
MCMaxPublished == [p \in MCPolicies |-> IF p = "DropOldest" THEN 4 ELSE 3]
================================================================================
