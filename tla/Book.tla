---------------------------------- MODULE Book ----------------------------------
(***************************************************************************)
(* One symbol's book (rust/ob/src/book.rs): two sides of at most Depth     *)
(* levels, best first, as the arrays of the code are.  Pure operators: the *)
(* publisher's books and the subscribers' replicas in Cache are values of  *)
(* them, and the slippage ledger reads them.                               *)
(*                                                                         *)
(* The saturation of 64-bit sums is left out: no value here is near it.    *)
(***************************************************************************)
EXTENDS Fixed

CONSTANT
    Depth           \* levels kept on a side

ASSUME BookAssumption == Depth \in Nat \ {0}

Sides == {"Bid", "Ask"}

BookKinds == {"Depth", "DepthReset"}

\* p is a better price than q: the highest bid and the lowest ask are best.
Better(side, p, q) == IF side = "Bid" THEN p > q ELSE p < q

\* Levels::locate: the first level that p is not worse than, or one past the
\* last.
Locate(side, levels, p) ==
    Min({i \in 1 .. Len(levels) : ~Better(side, levels[i].px, p)} \cup {Len(levels) + 1})

Present(levels, at, p) == at <= Len(levels) /\ levels[at].px = p

\* A variant whose eviction overwrites the worst level where it stands.
UpsertInPlace(side, levels, p, q) ==
    LET at       == Locate(side, levels, p)
        new      == [px |-> p, qty |-> q]
    IN  IF Present(levels, at, p)
        THEN [levels |-> [levels EXCEPT ![at].qty = q], fits |-> TRUE, overflows |-> FALSE]
        ELSE IF Len(levels) < Depth
        THEN [levels |-> InsertAt(levels, at, new), fits |-> TRUE, overflows |-> FALSE]
        ELSE [levels |-> [levels EXCEPT ![Depth] = new], fits |-> TRUE, overflows |-> TRUE]

\* Levels::upsert: replace the size, or insert where the price belongs and let
\* the worst level fall off a full side, which is the new one if it is worst.
Upsert(side, levels, p, q) ==
    LET at       == Locate(side, levels, p)
        inserted == InsertAt(levels, at, [px |-> p, qty |-> q])
    IN  IF Present(levels, at, p)
        THEN [levels |-> [levels EXCEPT ![at].qty = q], fits |-> TRUE, overflows |-> FALSE]
        ELSE [levels    |-> IF Len(levels) = Depth THEN Front(inserted) ELSE inserted,
              fits      |-> at <= Depth,
              overflows |-> Len(levels) = Depth]

\* Levels::erase.  The caller does not ask whether the price was there.
Erase(side, levels, p) ==
    LET at == Locate(side, levels, p)
    IN  IF Present(levels, at, p) THEN RemoveAt(levels, at) ELSE levels

--------------------------------------------------------------------------------
(* Book.                                                                   *)

EmptyBook ==
    [Bid |-> <<>>, Ask |-> <<>>, overflowed |-> [s \in Sides |-> 0], lastSeq |-> 0, applied |-> 0]

\* A Depth of size zero deletes the price, whether or not it was there.
Delete(b, m) ==
    [book    |-> [b EXCEPT ![m.side] = Erase(m.side, b[m.side], m.px),
                           !.lastSeq = m.seq, !.applied = @ + 1],
     outcome |-> "Changed"]

\* A Depth with a size.  Only a level that did not fit is reported: one that
\* pushed the worst level out is a change like any other.
Put(b, m) ==
    LET put == Upsert(m.side, b[m.side], m.px, m.qty)
    IN  [book    |-> [b EXCEPT ![m.side] = put.levels,
                               !.overflowed[m.side] = @ + (IF put.overflows THEN 1 ELSE 0),
                               !.lastSeq = m.seq, !.applied = @ + 1],
         outcome |-> IF put.fits THEN "Changed" ELSE "Overflow"]

\* A DepthReset clears the side, and is not a new price: lastSeq stays.
Reset(b, m) ==
    [book |-> [b EXCEPT ![m.side] = <<>>, !.applied = @ + 1], outcome |-> "Reset"]

\* Book::apply.
Apply(b, m) ==
    IF m.kind \notin BookKinds THEN [book |-> b, outcome |-> "Ignored"]
    ELSE IF m.side \notin Sides THEN [book |-> b, outcome |-> "WrongSide"]
    ELSE IF m.kind = "DepthReset" THEN Reset(b, m)
    ELSE IF m.qty = 0 THEN Delete(b, m)
    ELSE Put(b, m)

--------------------------------------------------------------------------------
(* What is read from a book.                                               *)

NoLevel == [px |-> 0, qty |-> 0]

Best(levels) == IF levels = <<>> THEN NoLevel ELSE levels[1]

Priced(b) == b.Bid # <<>> /\ b.Ask # <<>>

\* Book::mid_e8 of a book that is priced.
BookMid(b) == Mid(b.Bid[1].px, b.Ask[1].px)

Crossed(b) == Priced(b) /\ b.Bid[1].px >= b.Ask[1].px

\* TopOfBook::of: the inside, with a missing level in place of an empty side.
TopOf(b) == [bid |-> Best(b.Bid), ask |-> Best(b.Ask)]

\* Levels::top: the best n levels.
TopLevels(levels, n) == SubSeq(levels, 1, IF n < Len(levels) THEN n ELSE Len(levels))

\* The sum of the first i of a sequence of numbers, for each i.
RunningSum(s) ==
    LET sum[i \in 0 .. Len(s)] == IF i = 0 THEN 0 ELSE sum[i - 1] + s[i]
    IN  sum

\* Levels::cumulative: the size available at the best i levels, for each i.
Cumulative(levels, n) ==
    [i \in 1 .. Len(TopLevels(levels, n)) |-> RunningSum([j \in 1 .. Len(levels) |-> levels[j].qty])[i]]

\* One level of the walk of Levels::fill: what is still wanted is taken from
\* it, and its value is truncated to the scale.
TakeLevel(size, taken, level) ==
    LET want == size - taken.filled
        take == IF want < level.qty THEN want ELSE level.qty
    IN  IF taken.filled >= size THEN taken
        ELSE [filled   |-> taken.filled + take,
              notional |-> taken.notional + Notional(take, level.px),
              levels   |-> taken.levels + 1]

NothingTaken == [filled |-> 0, notional |-> 0, levels |-> 0]

\* What is taken after the first i levels, for each i.
Walk(levels, size) ==
    LET walk[i \in 0 .. Len(levels)] ==
            IF i = 0 THEN NothingTaken ELSE TakeLevel(size, walk[i - 1], levels[i])
    IN  walk

\* Levels::fill of a side that has a level, for a size above zero.
Fill(levels, size) ==
    LET taken == Walk(levels, size)[Len(levels)]
    IN  [filled   |-> taken.filled,
         notional |-> taken.notional,
         levels   |-> taken.levels,
         average  |-> Quotient(taken.notional * E8, taken.filled)]
================================================================================
