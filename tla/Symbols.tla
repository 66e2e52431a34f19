--------------------------------- MODULE Symbols --------------------------------
(***************************************************************************)
(* The interning table of rust/ob/src/symbol.rs: a value with the names in *)
(* the order they were first seen, whose ids are their places, and the     *)
(* buckets of an open-addressing index over them.                          *)
(*                                                                         *)
(* The hash is a constant: which names collide is all that matters of it.  *)
(***************************************************************************)
EXTENDS Integers, Sequences, SequencesExt

CONSTANTS
    Names,          \* the symbols a feed may send
    HashOf,         \* hash_symbol, as a function on Names
    InitialSymbols, \* the capacity the table is built with
    Ceiling         \* the capacity it does not grow past: 2^20 in the code

ASSUME SymbolsAssumption ==
    /\ HashOf \in [Names -> Nat]
    /\ InitialSymbols \in Nat
    /\ Ceiling \in Nat \ {0}

NextPowerOfTwo(n) == Min({2 ^ k : k \in 0 .. n} \cap {m \in 1 .. 2 * n + 1 : m >= n})

Buckets(capacity) == NextPowerOfTwo(2 * capacity)

EmptyIndex(capacity) == [b \in 0 .. Buckets(capacity) - 1 |-> 0]

\* SymbolTable::new.
NewTable ==
    LET capacity == Max({InitialSymbols, 1})
    IN  [names |-> <<>>, index |-> EmptyIndex(capacity), capacity |-> capacity]

\* The buckets in the order a probe for the name looks at them.
ProbeAt(index, name, k) == (HashOf[name] + k) % Cardinality(DOMAIN index)

\* Where a probe ends: at the first bucket that is empty or holds the name.
ProbeEnd(table, name) ==
    LET stops(b) == table.index[b] = 0 \/ table.names[table.index[b]] = name
        k == Min({j \in DOMAIN table.index : stops(ProbeAt(table.index, name, j))})
    IN  ProbeAt(table.index, name, k)

\* lookup: the id plus one, or zero, as the index holds it.
Lookup(table, name) == table.index[ProbeEnd(table, name)]

\* insert_bucket: the first empty bucket of the name's probe.
InsertBucket(names, index, id) ==
    LET k == Min({j \in DOMAIN index : index[ProbeAt(index, names[id + 1], j)] = 0})
    IN  [index EXCEPT ![ProbeAt(index, names[id + 1], k)] = id + 1]

\* A variant of the growth that keeps the old buckets where they were.
GrowInPlace(table) ==
    LET larger == 2 * table.capacity
    IN  [table EXCEPT !.capacity = larger,
                      !.index = [b \in 0 .. Buckets(larger) - 1 |->
                                    IF b \in DOMAIN table.index THEN table.index[b] ELSE 0]]

\* grow: twice the capacity, and every id placed again.
Grow(table) ==
    LET larger == 2 * table.capacity
        placed[n \in 0 .. Len(table.names)] ==
            IF n = 0 THEN EmptyIndex(larger)
            ELSE InsertBucket(table.names, placed[n - 1], n - 1)
    IN  [table EXCEPT !.capacity = larger, !.index = placed[Len(table.names)]]

\* The table is at its ceiling and holds what it can.
Exhausted(table) == Len(table.names) = table.capacity /\ table.capacity >= Ceiling

\* intern of a name that is new, when the table is not exhausted.
Added(table, name) ==
    LET roomy == IF Len(table.names) = table.capacity THEN Grow(table) ELSE table
        names == Append(roomy.names, name)
    IN  [roomy EXCEPT !.names = names, !.index = InsertBucket(names, @, Len(names) - 1)]

\* The table after intern, which refuses a new name only when exhausted.
Interned(table, name) ==
    IF Lookup(table, name) # 0 \/ Exhausted(table) THEN table ELSE Added(table, name)
================================================================================
