---------------------------------- MODULE Sift ----------------------------------
(***************************************************************************)
(* SelectSeq for definitions that are reasoned about: what is kept is      *)
(* given by a set, and the recursion is that of a function.                *)
(***************************************************************************)
EXTENDS Integers, Sequences

\* The elements of s at the positions in at, in order.
Picked(s, at) ==
    LET kept[n \in 0 .. Len(s)] ==
            IF n = 0 THEN <<>>
            ELSE IF n \in at THEN Append(kept[n - 1], s[n]) ELSE kept[n - 1]
    IN  kept[Len(s)]

\* The elements of s that are in S, in order.
Sift(s, S) == Picked(s, {i \in DOMAIN s : s[i] \in S})
================================================================================
