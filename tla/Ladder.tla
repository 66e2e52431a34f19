---------------------------------- MODULE Ladder --------------------------------
(***************************************************************************)
(* One side of a book (Book) under every sequence of records, against what *)
(* the records say without the bound on depth.                             *)
(***************************************************************************)
EXTENDS Book

CONSTANTS
    Prices,         \* prices a record may name
    Sizes           \* sizes, 0 for a deletion

ASSUME LadderAssumption == Prices \subseteq Nat \ {0} /\ Sizes \subseteq Nat

VARIABLES
    ladSide,        \* the side
    ladLevels,      \* its levels, as the book keeps them
    ladTrue,        \* history: what the feed left standing, size by price
    ladFallen       \* history: prices dropped off the end since the last reset

ladVars == <<ladSide, ladLevels, ladTrue, ladFallen>>

LadInit ==
    /\ ladSide \in Sides
    /\ ladLevels = <<>>
    /\ ladTrue = [p \in {} |-> 0]
    /\ ladFallen = {}

\* The side after a record, by Book::apply.
After(kind, p, q) ==
    Apply([EmptyBook EXCEPT ![ladSide] = ladLevels],
          [kind |-> kind, side |-> ladSide, px |-> p, qty |-> q, seq |-> 1]).book[ladSide]

PricesOf(levels) == {levels[i].px : i \in DOMAIN levels}

LadDepth(p, q) ==
    /\ ladLevels' = After("Depth", p, q)
    /\ ladTrue' = IF q = 0 THEN [x \in DOMAIN ladTrue \ {p} |-> ladTrue[x]]
                  ELSE [x \in DOMAIN ladTrue \cup {p} |-> IF x = p THEN q ELSE ladTrue[x]]
    /\ ladFallen' = ladFallen \cup
            (IF q = 0 THEN {} ELSE (PricesOf(ladLevels) \cup {p}) \ PricesOf(ladLevels'))
    /\ UNCHANGED ladSide

LadReset ==
    /\ ladLevels' = After("DepthReset", 0, 0)
    /\ ladTrue' = [p \in {} |-> 0]
    /\ ladFallen' = {}
    /\ UNCHANGED ladSide

LadNext == LadReset \/ \E p \in Prices, q \in Sizes : LadDepth(p, q)

--------------------------------------------------------------------------------
(* Properties.                                                             *)

\* Every level shown is one the feed left standing, with its size, best first;
\* and every price better than all that fell off the end since the last reset
\* is shown ("a side that overflows has its worst levels dropped", book.rs).
\* The best price is right for as long as that holds of it, and no longer: a
\* level that fell off does not come back when those in front of it go.
SideShowsTheBest ==
    /\ Len(ladLevels) <= Depth
    /\ \A i \in 2 .. Len(ladLevels) :
        Better(ladSide, ladLevels[i - 1].px, ladLevels[i].px)
    /\ \A i \in DOMAIN ladLevels :
        /\ ladLevels[i].px \in DOMAIN ladTrue
        /\ ladTrue[ladLevels[i].px] = ladLevels[i].qty
    /\ \A p \in DOMAIN ladTrue \ PricesOf(ladLevels) :
        \E d \in ladFallen : d = p \/ Better(ladSide, d, p)

\* How many of the levels a size needs, by the running total.
Needed(levels, size) ==
    Min({k \in DOMAIN levels : Cumulative(levels, Depth)[k] >= size} \cup {Len(levels)})

\* What a fill takes of each: all but of the last, of which it takes the rest.
TakenOf(levels, filled, need) ==
    [i \in 1 .. need |->
        IF i < need THEN levels[i].qty
        ELSE filled - (IF need = 1 THEN 0 ELSE Cumulative(levels, Depth)[need - 1])]

\* A walk of a side takes what was asked or all there is, from as many levels
\* as the running total says it needs, and its value is short of the exact one
\* by less than a unit for each of them.
WalkIsExact(levels, size) ==
    LET fill  == Fill(levels, size)
        need  == Needed(levels, size)
        taken == TakenOf(levels, fill.filled, need)
        exact == RunningSum([i \in 1 .. need |-> levels[i].px * taken[i]])[need]
    IN  /\ fill.filled = Min({size, Cumulative(levels, Depth)[Len(levels)]})
        /\ fill.levels = need
        /\ fill.notional * E8 <= exact /\ exact < (fill.notional + need) * E8

\* It is so of the side as it stands, for any size.
FillIsTheWalk ==
    ladLevels # <<>> => \A size \in 1 .. 2 * E8 : WalkIsExact(ladLevels, size)

\* A side is the best levels it was given and a fill is the walk over them.
LadderIsExact == SideShowsTheBest /\ FillIsTheWalk
================================================================================
