---------------------------------- MODULE Bus ----------------------------------
(***************************************************************************)
(* What the bus promises its readers, with no memory in it.  One writer    *)
(* numbers its records 0, 1, 2, ...  A reader holds the number of the next *)
(* record it wants.  It is handed that record, or it is moved forward past *)
(* records it will never be handed, and in neither case past the end of    *)
(* what was published.  Nothing is handed over twice and nothing goes      *)
(* backwards.                                                              *)
(*                                                                         *)
(* Ring implements this specification: see Ring!Bus and RingProofs.        *)
(***************************************************************************)
EXTENDS Naturals, Sequences

CONSTANT Readers

VARIABLES
    published,      \* how many records the writer has published
    next,           \* next[r]: the record reader r is waiting for
    got             \* got[r]: the numbers of the records handed to r, in order

busVars == <<published, next, got>>

Init ==
    /\ published = 0
    /\ next = [r \in Readers |-> 0]
    /\ got = [r \in Readers |-> <<>>]

Publish ==
    /\ published' = published + 1
    /\ UNCHANGED <<next, got>>

Deliver(r) ==
    /\ next[r] < published
    /\ got' = [got EXCEPT ![r] = Append(@, next[r])]
    /\ next' = [next EXCEPT ![r] = @ + 1]
    /\ UNCHANGED published

Skip(r) ==
    \E to \in next[r] + 1 .. published :
        /\ next' = [next EXCEPT ![r] = to]
        /\ UNCHANGED <<published, got>>

Next == Publish \/ \E r \in Readers : Deliver(r) \/ Skip(r)

Spec == Init /\ [][Next]_busVars
================================================================================
