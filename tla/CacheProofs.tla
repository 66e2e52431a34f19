------------------------------ MODULE CacheProofs -------------------------------
(***************************************************************************)
(* Theorems about Cache, for any feed, any table, any number of shards and *)
(* subscribers, any queue and every policy, and about Ladder and Slippage, *)
(* for any depth, any horizons, any slots and any executions.              *)
(*                                                                         *)
(* The argument.  A change keeps a side within its depth and its levels    *)
(* priced, so the lane, which is written from the book in the same step,   *)
(* has a zero where the book has no level: Lane, the inductive form of     *)
(* LaneIsTheBooks.                                                         *)
(* The symbol table is sound when every id is in one bucket, which the     *)
(* probe of its name reaches through buckets that are taken.  There are    *)
(* twice as many buckets as names, so one is always empty: every probe     *)
(* ends, and one for a name that is not there ends at an empty bucket.     *)
(* Filling the first empty bucket of a probe leaves the table sound, since *)
(* a taken bucket is never emptied; growing places every id once more, so  *)
(* it does too.                                                            *)
(* The counts: a push ends one way at every subscriber, and what is lost   *)
(* that way is one more at just those it ended so for, so the pairs that   *)
(* SumLost counts grow by what CountPushed counted (GrownAt, of Lemmas).   *)
(* The replicas: Follows says that a side, run through the events queued   *)
(* from some point on, comes to what the publisher has; Tracks, that it    *)
(* does from every point where the side is known, at a reset or with       *)
(* nothing missing, and after which no event of the side is missing.  A    *)
(* change at the end, an event taken from the front and an eviction each   *)
(* keep it, and with an empty queue it is ReplicaInStep.                   *)
(* A side alone (Ladder): it is sorted and every price has one place, so a *)
(* price looked for and not found is nowhere; what an insertion pushes out *)
(* is in ladFallen, and so is, or something better, whatever is not shown. *)
(* A walk of it is followed level by level beside the running total.       *)
(* The slippage ledger (Slippage): a slot that is waiting holds the entry  *)
(* of the one live execution whose place it is, as the calls tell it       *)
(* (Slots), since an execution is live while fewer than PendingSlots came  *)
(* after it, so two that are live are less than a lap apart.  What a timer *)
(* call adds to a horizon is then one move for every execution it is the   *)
(* first to find past it (DueSlots), whichever order the sum is taken in   *)
(* (SumGrows), and the slot a new execution takes is the one of the        *)
(* execution that ceases to be live.                                       *)
(***************************************************************************)
EXTENDS Cache, Ladder, Slippage, Lemmas

--------------------------------------------------------------------------------
(* The symbol table, for any names, any hash and any capacity.             *)

USE SymbolsAssumption

\* The buckets of the index hold the ids of the first n names, each in one
\* bucket, at the end of a stretch of its name's probe that is all taken.
Placed(names, index, n) ==
    LET size == Cardinality(DOMAIN index)
    IN  /\ size \in Nat \ {0} /\ index \in [0 .. size - 1 -> 0 .. n]
        /\ \A a, b \in 0 .. size - 1 : index[a] = index[b] /\ index[a] # 0 => a = b
        /\ \A i \in 1 .. n : \E k \in 0 .. size - 1 :
            /\ index[ProbeAt(index, names[i], k)] = i
            /\ \A j \in 0 .. k - 1 : index[ProbeAt(index, names[i], j)] \notin {0, i}

\* A sound table.
Sound(table) ==
    /\ table = [names |-> table.names, index |-> table.index, capacity |-> table.capacity]
    /\ table.capacity \in Nat \ {0}
    /\ table.names \in Seq(Names) /\ Len(table.names) <= table.capacity
    /\ \A i, j \in 1 .. Len(table.names) : table.names[i] = table.names[j] => i = j
    /\ Placed(table.names, table.index, Len(table.names))
    /\ Cardinality(DOMAIN table.index) >= 2 * table.capacity

--------------------------------------------------------------------------------
\* next_power_of_two is a number, and no less than what it is asked for.
LEMMA NextPowerBounds ==
    ASSUME NEW n \in Nat
    PROVE  NextPowerOfTwo(n) \in Nat \ {0} /\ NextPowerOfTwo(n) >= n
<1> DEFINE T == {k \in 0 .. n : 2 ^ k >= n}
           P == {2 ^ k : k \in 0 .. n} \cap {m \in 1 .. 2 * n + 1 : m >= n}
<1>1. n \in T
  BY PowerExceeds, PowerIsSubsets
<1>2. PICK k \in T : \A j \in T : k <= j
  <2>1. T \subseteq Nat
    OBVIOUS
  <2> HIDE DEF T
  <2> QED BY <1>1, <2>1, LeastNat
<1>3. k \in Nat /\ k \in 0 .. n /\ 2 ^ k \in Nat /\ 2 ^ k >= n
  <2>1. k \in Nat
    OBVIOUS
  <2> QED BY <2>1, PowerIsSubsets
<1>4. 2 ^ k >= 1 /\ 2 ^ k <= 2 * n + 1
  <2>1. CASE k = 0
    BY <2>1, PowerOfZero
  <2>2. CASE k # 0
    <3>1. k - 1 \in Nat /\ k - 1 \in 0 .. n /\ (k - 1) + 1 = k
      BY <2>2, <1>3
    <3>2. k - 1 \notin T
      BY <1>2, <3>1
    <3>3. 2 ^ (k - 1) \in Nat /\ 2 ^ (k - 1) > k - 1
      BY <3>1, PowerIsSubsets, PowerExceeds
    <3>4. 2 ^ ((k - 1) + 1) = 2 * 2 ^ (k - 1)
      BY <3>1, PowerDoubles
    <3>5. 2 ^ k = 2 * 2 ^ (k - 1)
      BY <3>1, <3>4
    <3>6. ~(2 ^ (k - 1) >= n)
      BY <3>1, <3>2
    <3> QED BY <3>1, <3>3, <3>5, <3>6
  <2> QED BY <2>1, <2>2
<1>5. 2 ^ k \in P
  BY <1>3, <1>4
<1>6. P \subseteq Nat /\ P # {}
  <2>1. P \subseteq 1 .. 2 * n + 1
    OBVIOUS
  <2> HIDE DEF P
  <2> QED BY <1>5, <2>1
<1>7. Min(P) \in P
  <2> HIDE DEF P
  <2> QED BY <1>6, MinOfNats
<1>8. NextPowerOfTwo(n) = Min(P)
  BY DEF NextPowerOfTwo
<1> QED BY <1>7, <1>8

LEMMA BucketsBounds ==
    ASSUME NEW capacity \in Nat \ {0}
    PROVE  Buckets(capacity) \in Nat \ {0} /\ Buckets(capacity) >= 2 * capacity
<1>1. 2 * capacity \in Nat
  OBVIOUS
<1> QED BY <1>1, NextPowerBounds DEF Buckets

LEMMA SizeOfIndex ==
    ASSUME NEW size \in Nat \ {0}, NEW T, NEW index \in [0 .. size - 1 -> T]
    PROVE  DOMAIN index = 0 .. size - 1 /\ Cardinality(DOMAIN index) = size
<1>1. DOMAIN index = 0 .. size - 1
  OBVIOUS
<1>2. Cardinality(0 .. size - 1) = size
  BY FS_Interval
<1> QED BY <1>1, <1>2

\* An empty index holds no id.
LEMMA EmptyIsPlaced ==
    ASSUME NEW capacity \in Nat \ {0}, NEW names
    PROVE  /\ Placed(names, EmptyIndex(capacity), 0)
           /\ Cardinality(DOMAIN EmptyIndex(capacity)) = Buckets(capacity)
<1> DEFINE size == Buckets(capacity)
           index == EmptyIndex(capacity)
<1>1. size \in Nat \ {0}
  BY BucketsBounds
<1>2. index \in [0 .. size - 1 -> 0 .. 0] /\ \A b \in 0 .. size - 1 : index[b] = 0
  BY DEF EmptyIndex
<1> HIDE DEF size, index
<1>3. Cardinality(DOMAIN index) = size
  BY <1>1, <1>2, SizeOfIndex
<1>4. Placed(names, index, 0)
  BY <1>1, <1>2, <1>3 DEF Placed
<1> QED BY <1>3, <1>4 DEF size, index

--------------------------------------------------------------------------------
\* A probe stays within the buckets, and comes to every one of them.
LEMMA ProbeInRange ==
    ASSUME NEW index, Cardinality(DOMAIN index) \in Nat \ {0}, NEW name \in Names, NEW k \in Nat
    PROVE  ProbeAt(index, name, k) \in 0 .. Cardinality(DOMAIN index) - 1
<1>1. HashOf[name] + k \in Int
  OBVIOUS
<1> QED BY <1>1, SlotInRange DEF ProbeAt

LEMMA ProbeReaches ==
    ASSUME NEW index, Cardinality(DOMAIN index) \in Nat \ {0}, NEW name \in Names,
           NEW b \in 0 .. Cardinality(DOMAIN index) - 1
    PROVE  \E k \in 0 .. Cardinality(DOMAIN index) - 1 : ProbeAt(index, name, k) = b
<1> DEFINE c == Cardinality(DOMAIN index)
           h == HashOf[name]
           d == b - h
           k == d % c
<1>1. c \in Nat \ {0} /\ h \in Nat /\ b - h \in Int /\ b \in 0 .. c - 1
  OBVIOUS
<1> HIDE DEF c, h
<1>2. k \in 0 .. c - 1
  BY <1>1, SlotInRange
<1>3. (k + h) % c = (d + h) % c
  <2>1. d \in Int /\ h \in Int
    BY <1>1
  <2> HIDE DEF d
  <2> QED BY <1>1, <2>1, RemainderOfSum
<1>4. d + h = b /\ b % c = b
  BY <1>1
<1> HIDE DEF k
<1>5. h + k = k + h
  BY <1>1, <1>2
<1>6. (h + k) % c = b
  BY <1>3, <1>4, <1>5
<1> QED BY <1>2, <1>6 DEF ProbeAt, c, h

\* With fewer ids than buckets, a bucket is empty.
LEMMA SomeBucketEmpty ==
    ASSUME NEW names, NEW index, NEW n \in Nat, Placed(names, index, n),
           n < Cardinality(DOMAIN index)
    PROVE  \E b \in 0 .. Cardinality(DOMAIN index) - 1 : index[b] = 0
<1> DEFINE size == Cardinality(DOMAIN index)
<1>1. /\ size \in Nat \ {0} /\ index \in [0 .. size - 1 -> 0 .. n] /\ n < size
      /\ \A a, b \in 0 .. size - 1 : index[a] = index[b] /\ index[a] # 0 => a = b
  BY DEF Placed
<1> HIDE DEF size
<1> SUFFICES ASSUME \A b \in 0 .. size - 1 : index[b] # 0 PROVE FALSE
  BY DEF size
<1>2. index \in [0 .. size - 1 -> 1 .. n]
  <2>1. ASSUME NEW b \in 0 .. size - 1 PROVE index[b] \in 1 .. n
    BY <1>1
  <2> QED BY <1>1, <2>1
<1>3. index \in Injection(0 .. size - 1, 1 .. n)
  BY <1>1, <1>2 DEF Injection, IsInjective
<1>4. IsFiniteSet(1 .. n) /\ Cardinality(1 .. n) = n /\ Cardinality(0 .. size - 1) = size
  BY <1>1, FS_Interval
<1>5. size <= n
  BY <1>3, <1>4, FS_Injection
<1> QED BY <1>1, <1>5

\* Where the probe of a name first comes to an empty bucket.
LEMMA FirstEmptyBucket ==
    ASSUME NEW names, NEW index, NEW n \in Nat, Placed(names, index, n),
           n < Cardinality(DOMAIN index), NEW name \in Names,
           NEW k, k = Min({j \in DOMAIN index : index[ProbeAt(index, name, j)] = 0})
    PROVE  /\ k \in 0 .. Cardinality(DOMAIN index) - 1
           /\ index[ProbeAt(index, name, k)] = 0
           /\ \A j \in 0 .. k - 1 : index[ProbeAt(index, name, j)] # 0
<1> DEFINE K == {j \in DOMAIN index : index[ProbeAt(index, name, j)] = 0}
           size == Cardinality(DOMAIN index)
<1>1. size \in Nat \ {0} /\ DOMAIN index = 0 .. size - 1
  BY DEF Placed
<1>2. \E j \in 0 .. size - 1 : index[ProbeAt(index, name, j)] = 0
  <2>1. PICK b \in 0 .. size - 1 : index[b] = 0
    BY SomeBucketEmpty
  <2>2. PICK j \in 0 .. size - 1 : ProbeAt(index, name, j) = b
    BY <1>1, ProbeReaches
  <2> QED BY <2>1, <2>2
<1>3. K # {} /\ K \subseteq Nat /\ k = Min(K)
  BY <1>1, <1>2
<1>4. k \in K /\ \A j \in K : k <= j
  <2> HIDE DEF K
  <2>1. Min(K) \in K /\ \A j \in K : Min(K) <= j
    BY <1>3, MinOfNats
  <2> QED BY <1>3, <2>1
<1>5. ASSUME NEW j \in 0 .. k - 1 PROVE index[ProbeAt(index, name, j)] # 0
  <2>1. j \in 0 .. size - 1 /\ ~(k <= j)
    BY <1>1, <1>4
  <2> QED BY <1>1, <1>4, <2>1
<1> QED BY <1>1, <1>4, <1>5

\* insert_bucket leaves every id where it was and adds the next one.
LEMMA InsertIsPlaced ==
    ASSUME NEW names \in Seq(Names), NEW index, NEW n \in Nat, Placed(names, index, n),
           n < Cardinality(DOMAIN index), n < Len(names)
    PROVE  /\ Placed(names, InsertBucket(names, index, n), n + 1)
           /\ DOMAIN InsertBucket(names, index, n) = DOMAIN index
<1> DEFINE size == Cardinality(DOMAIN index)
           name == names[n + 1]
           k == Min({j \in DOMAIN index : index[ProbeAt(index, name, j)] = 0})
           at == ProbeAt(index, name, k)
           filled == [index EXCEPT ![at] = n + 1]
<1>1. name \in Names
  BY n + 1 \in 1 .. Len(names), ElementOfSeq
<1>2. /\ size \in Nat \ {0} /\ index \in [0 .. size - 1 -> 0 .. n]
      /\ \A a, b \in 0 .. size - 1 : index[a] = index[b] /\ index[a] # 0 => a = b
      /\ \A i \in 1 .. n : \E l \in 0 .. size - 1 :
            /\ index[ProbeAt(index, names[i], l)] = i
            /\ \A j \in 0 .. l - 1 : index[ProbeAt(index, names[i], j)] \notin {0, i}
  BY DEF Placed
<1>3. /\ k \in 0 .. size - 1 /\ index[at] = 0
      /\ \A j \in 0 .. k - 1 : index[ProbeAt(index, name, j)] # 0
  <2>1. ASSUME NEW l, l = k
        PROVE  /\ l \in 0 .. size - 1 /\ index[ProbeAt(index, name, l)] = 0
               /\ \A j \in 0 .. l - 1 : index[ProbeAt(index, name, j)] # 0
    <3> HIDE DEF name
    <3> QED BY <1>1, <2>1, FirstEmptyBucket
  <2> HIDE DEF k
  <2> QED BY <2>1
<1>4. InsertBucket(names, index, n) = filled
  BY DEF InsertBucket
<1> HIDE DEF k, name
<1>5. at \in 0 .. size - 1
  <2>1. k \in Nat
    BY <1>2, <1>3
  <2> QED BY <1>1, <1>2, <2>1, ProbeInRange
<1> HIDE DEF at
<1>6. /\ DOMAIN filled = DOMAIN index
      /\ filled \in [0 .. size - 1 -> 0 .. n + 1]
      /\ filled[at] = n + 1
      /\ \A b \in 0 .. size - 1 : b # at => filled[b] = index[b] /\ filled[b] # n + 1
  <2>1. DOMAIN filled = DOMAIN index /\ filled[at] = n + 1
    BY <1>2, <1>5
  <2>2. ASSUME NEW b \in 0 .. size - 1, b # at PROVE filled[b] = index[b] /\ filled[b] # n + 1
    <3>1. filled[b] = index[b] /\ index[b] \in 0 .. n
      BY <1>2, <2>2
    <3> QED BY <3>1
  <2>3. filled \in [0 .. size - 1 -> 0 .. n + 1]
    BY <1>2, <1>5
  <2> QED BY <2>1, <2>2, <2>3
<1>7. \A other, j : ProbeAt(filled, other, j) = ProbeAt(index, other, j)
  BY <1>6 DEF ProbeAt
<1> HIDE DEF filled
<1>8. ASSUME NEW a \in 0 .. size - 1, NEW b \in 0 .. size - 1, filled[a] = filled[b], filled[a] # 0
      PROVE  a = b
  <2>1. CASE a = at
    BY <1>6, <1>8, <2>1
  <2>2. CASE b = at
    BY <1>6, <1>8, <2>2
  <2>3. CASE a # at /\ b # at
    <3>1. filled[a] = index[a] /\ filled[b] = index[b]
      BY <1>6, <2>3
    <3> QED BY <1>2, <1>8, <3>1
  <2> QED BY <2>1, <2>2, <2>3
<1>9. ASSUME NEW i \in 1 .. n + 1
      PROVE  \E l \in 0 .. size - 1 :
                /\ filled[ProbeAt(filled, names[i], l)] = i
                /\ \A j \in 0 .. l - 1 : filled[ProbeAt(filled, names[i], j)] \notin {0, i}
  <2>1. CASE i = n + 1
    <3>1. names[i] = name /\ filled[ProbeAt(filled, names[i], k)] = i
      BY <1>6, <1>7, <2>1 DEF name, at
    <3>2. ASSUME NEW j \in 0 .. k - 1 PROVE filled[ProbeAt(filled, names[i], j)] \notin {0, i}
      <4>1. ProbeAt(filled, names[i], j) = ProbeAt(index, name, j)
        BY <1>7, <3>1
      <4>2. ProbeAt(index, name, j) \in 0 .. size - 1
        BY <1>1, <1>2, ProbeInRange
      <4>3. index[ProbeAt(index, name, j)] # 0
        BY <1>3
      <4>4. ProbeAt(index, name, j) # at
        BY <1>3, <4>3
      <4> QED BY <1>6, <2>1, <4>1, <4>2, <4>3, <4>4
    <3> QED BY <1>3, <3>1, <3>2
  <2>2. CASE i \in 1 .. n
    <3>1. PICK l \in 0 .. size - 1 :
            /\ index[ProbeAt(index, names[i], l)] = i
            /\ \A j \in 0 .. l - 1 : index[ProbeAt(index, names[i], j)] \notin {0, i}
      BY <1>2, <2>2
    <3>2. names[i] \in Names
      BY i \in 1 .. Len(names), <2>2, ElementOfSeq
    <3>3. ASSUME NEW j \in 0 .. l, index[ProbeAt(index, names[i], j)] # 0
          PROVE  filled[ProbeAt(filled, names[i], j)] = index[ProbeAt(index, names[i], j)]
      <4>1. ProbeAt(index, names[i], j) \in 0 .. size - 1
        <5>1. j \in Nat
          OBVIOUS
        <5> QED BY <1>2, <3>2, <5>1, ProbeInRange
      <4>2. ProbeAt(index, names[i], j) # at
        BY <1>3, <3>3
      <4> QED BY <1>6, <1>7, <4>1, <4>2
    <3>4. filled[ProbeAt(filled, names[i], l)] = i
      BY <2>2, <3>1, <3>3
    <3>5. ASSUME NEW j \in 0 .. l - 1 PROVE filled[ProbeAt(filled, names[i], j)] \notin {0, i}
      BY <3>1, <3>3
    <3> QED BY <3>4, <3>5
  <2> QED BY <2>1, <2>2
<1>10. Cardinality(DOMAIN filled) = size
  BY <1>6
<1>11. n + 1 \in Nat
  OBVIOUS
<1>12. Placed(names, filled, n + 1)
  <2> HIDE DEF size
  <2> QED BY <1>2, <1>6, <1>8, <1>9, <1>10 DEF Placed
<1> QED BY <1>4, <1>6, <1>12

\* What is placed does not depend on names that come after.
LEMMA PlacedOfLonger ==
    ASSUME NEW names, NEW longer, NEW index, NEW n \in Nat, Placed(names, index, n),
           \A i \in 1 .. n : longer[i] = names[i]
    PROVE  Placed(longer, index, n)
BY DEF Placed

--------------------------------------------------------------------------------
\* lookup of a sound table: the place of a name that is there, and zero for one
\* that is not.
LEMMA LookupOfSound ==
    ASSUME NEW table, Sound(table), NEW name \in Names
    PROVE  /\ Lookup(table, name) \in 0 .. Len(table.names)
           /\ \A i \in 1 .. Len(table.names) : table.names[i] = name => Lookup(table, name) = i
           /\ (\A i \in 1 .. Len(table.names) : table.names[i] # name) => Lookup(table, name) = 0
<1> DEFINE names == table.names
           index == table.index
           n == Len(names)
           size == Cardinality(DOMAIN index)
           stops(b) == index[b] = 0 \/ names[index[b]] = name
           K == {j \in DOMAIN index : stops(ProbeAt(index, name, j))}
           k == Min(K)
<1>1. /\ names \in Seq(Names) /\ n \in Nat /\ n < size
      /\ \A i, j \in 1 .. n : names[i] = names[j] => i = j
      /\ Placed(names, index, n)
  <2>1. /\ names \in Seq(Names) /\ n <= table.capacity /\ table.capacity \in Nat \ {0}
        /\ \A i, j \in 1 .. n : names[i] = names[j] => i = j
        /\ Placed(names, index, n) /\ size >= 2 * table.capacity
    BY DEF Sound
  <2>2. size \in Nat
    BY <2>1 DEF Placed
  <2>3. n \in Nat
    BY <2>1
  <2> HIDE DEF n, size, names, index
  <2>4. n < size
    BY <2>1, <2>2, <2>3
  <2> QED BY <2>1, <2>3, <2>4
<1>2. /\ size \in Nat \ {0} /\ index \in [0 .. size - 1 -> 0 .. n] /\ DOMAIN index = 0 .. size - 1
      /\ \A i \in 1 .. n : \E l \in 0 .. size - 1 :
            /\ index[ProbeAt(index, names[i], l)] = i
            /\ \A j \in 0 .. l - 1 : index[ProbeAt(index, names[i], j)] \notin {0, i}
  BY <1>1 DEF Placed
<1>3. Lookup(table, name) = index[ProbeAt(index, name, k)]
  BY DEF Lookup, ProbeEnd
<1> HIDE DEF names, index, n, size
<1>4. \A j \in 0 .. size - 1 : ProbeAt(index, name, j) \in 0 .. size - 1
  BY <1>2, ProbeInRange DEF size
<1>5. K # {} /\ K \subseteq Nat
  <2>1. PICK b \in 0 .. size - 1 : index[b] = 0
    BY <1>1, SomeBucketEmpty DEF size
  <2>2. PICK j \in 0 .. size - 1 : ProbeAt(index, name, j) = b
    BY <1>2, ProbeReaches DEF size
  <2>3. j \in K
    BY <1>2, <2>1, <2>2
  <2>4. K \subseteq 0 .. size - 1
    BY <1>2
  <2> HIDE DEF K
  <2> QED BY <2>3, <2>4
<1>6. k \in K /\ \A j \in K : k <= j
  <2> HIDE DEF K
  <2> QED BY <1>5, MinOfNats
<1>7. /\ k \in 0 .. size - 1 /\ stops(ProbeAt(index, name, k))
      /\ \A j \in 0 .. size - 1 : stops(ProbeAt(index, name, j)) => k <= j
  BY <1>2, <1>6
<1> HIDE DEF K, k
<1>8. index[ProbeAt(index, name, k)] \in 0 .. n
  BY <1>2, <1>4, <1>7
<1>9. ASSUME NEW i \in 1 .. n, names[i] = name PROVE index[ProbeAt(index, name, k)] = i
  <2>1. PICK l \in 0 .. size - 1 :
            /\ index[ProbeAt(index, names[i], l)] = i
            /\ \A j \in 0 .. l - 1 : index[ProbeAt(index, names[i], j)] \notin {0, i}
    BY <1>2
  <2>2. k <= l
    BY <1>7, <1>9, <2>1
  <2>3. CASE k = l
    BY <1>9, <2>1, <2>3
  <2>4. CASE k < l
    <3>1. k \in 0 .. l - 1
      BY <1>7, <2>4
    <3>2. index[ProbeAt(index, name, k)] \notin {0, i}
      BY <1>9, <2>1, <3>1
    <3>3. names[index[ProbeAt(index, name, k)]] = name
      BY <1>7, <3>2
    <3> QED BY <1>1, <1>8, <1>9, <3>2, <3>3
  <2> QED BY <1>7, <2>2, <2>3, <2>4
<1>10. ASSUME \A i \in 1 .. n : names[i] # name PROVE index[ProbeAt(index, name, k)] = 0
  BY <1>7, <1>8, <1>10
<1> QED BY <1>3, <1>8, <1>9, <1>10 DEF n, names

\* grow puts the ids of all names into a table of twice the room.
LEMMA GrowIsSound ==
    ASSUME NEW table, Sound(table)
    PROVE  /\ Sound(Grow(table)) /\ Grow(table).names = table.names
           /\ Grow(table).capacity = 2 * table.capacity
<1> DEFINE names == table.names
           n == Len(names)
           larger == 2 * table.capacity
           size == Buckets(larger)
           fresh == EmptyIndex(larger)
           again(f) == [i \in 0 .. n |-> IF i = 0 THEN fresh ELSE InsertBucket(names, f[i - 1], i - 1)]
           placed == CHOOSE f : f = again(f)
<1>1. /\ names \in Seq(Names) /\ n \in Nat /\ larger \in Nat \ {0} /\ n <= table.capacity
      /\ \A i, j \in 1 .. n : names[i] = names[j] => i = j
  BY DEF Sound
<1>2. size \in Nat \ {0} /\ size >= 2 * larger
  BY <1>1, BucketsBounds
<1>3. Placed(names, fresh, 0) /\ DOMAIN fresh = 0 .. size - 1 /\ Cardinality(DOMAIN fresh) = size
  BY <1>1, EmptyIsPlaced DEF EmptyIndex
<1>4. n < size
  <2> HIDE DEF n, size
  <2>1. table.capacity \in Nat /\ larger = 2 * table.capacity
    BY DEF Sound
  <2> QED BY <1>1, <1>2, <2>1
<1>5. Grow(table) = [table EXCEPT !.capacity = larger, !.index = placed[n]]
  BY DEF Grow
<1> HIDE DEF names, n, larger, size, fresh, placed
<1>6. ASSUME NEW i \in 1 .. n, NEW index \in [0 .. size - 1 -> Nat], Placed(names, index, i - 1)
      PROVE  /\ Placed(names, InsertBucket(names, index, i - 1), i)
             /\ InsertBucket(names, index, i - 1) \in [0 .. size - 1 -> Nat]
  <2>1. i - 1 \in Nat /\ i - 1 < Len(names) /\ (i - 1) + 1 = i
    BY <1>1 DEF n
  <2>2. DOMAIN index = 0 .. size - 1 /\ Cardinality(DOMAIN index) = size
    BY <1>2, <1>6, SizeOfIndex
  <2>3. i - 1 < Cardinality(DOMAIN index)
    BY <1>1, <1>2, <1>4, <2>1, <2>2
  <2> DEFINE next == InsertBucket(names, index, i - 1)
  <2>4. Placed(names, next, (i - 1) + 1) /\ DOMAIN next = DOMAIN index
    <3> HIDE DEF next
    <3> QED BY <1>1, <1>6, <2>1, <2>3, InsertIsPlaced DEF next
  <2>5. next \in [0 .. size - 1 -> 0 .. i]
    <3> HIDE DEF next
    <3> QED BY <2>1, <2>2, <2>4 DEF Placed
  <2>6. next \in [0 .. size - 1 -> Nat]
    <3> HIDE DEF next
    <3>1. \A b \in 0 .. size - 1 : next[b] \in Nat
      BY <1>1, <2>5
    <3> QED BY <2>5, <3>1
  <2> QED BY <2>1, <2>4, <2>6
<1>7. \E f \in [0 .. n -> [0 .. size - 1 -> Nat]] : f = again(f)
  <2> DEFINE T == [0 .. size - 1 -> Nat]
             step == [p \in (1 .. n) \X T |->
                        IF Placed(names, p[2], p[1] - 1) THEN InsertBucket(names, p[2], p[1] - 1)
                        ELSE p[2]]
  <2>1. step \in [(1 .. n) \X T -> T]
    <3>1. ASSUME NEW p \in (1 .. n) \X T
          PROVE  (IF Placed(names, p[2], p[1] - 1) THEN InsertBucket(names, p[2], p[1] - 1) ELSE p[2]) \in T
      <4>1. p[1] \in 1 .. n /\ p[2] \in T
        OBVIOUS
      <4> QED BY <1>6, <4>1
    <3> QED BY <3>1
  <2>2. fresh \in T
    <3>1. \A b \in 0 .. size - 1 : fresh[b] \in 0 .. 0
      BY <1>3 DEF Placed
    <3>2. fresh \in [0 .. size - 1 -> 0 .. 0]
      BY <1>3 DEF Placed
    <3> QED BY <3>1, <3>2
  <2>3. PICK f \in [0 .. n -> T] : f[0] = fresh /\ \A i \in 1 .. n : f[i] = step[<<i, f[i - 1]>>]
    <3> HIDE DEF T, step
    <3>1. n \in Nat
      BY <1>1
    <3>2. \E f \in [0 .. n -> T] : Unrolled(f, n, fresh, step)
      BY <2>1, <2>2, <3>1, Recursion
    <3> QED BY <3>2 DEF Unrolled
  <2> DEFINE S == {i \in 0 .. n : Placed(names, f[i], i)}
  <2>4. ASSUME NEW i \in 1 .. n, Placed(names, f[i - 1], i - 1)
        PROVE  f[i] = InsertBucket(names, f[i - 1], i - 1) /\ Placed(names, f[i], i)
    <3>1. i - 1 \in 0 .. n
      BY <1>1
    <3>2. f[i - 1] \in T
      BY <2>3, <3>1
    <3>3. f[i] = InsertBucket(names, f[i - 1], i - 1)
      BY <2>3, <2>4, <3>2
    <3> QED BY <1>6, <2>4, <3>2, <3>3
  <2>5. \A i \in 0 .. n : i \in S
    <3>1. 0 \in S
      BY <1>1, <1>3, <2>3
    <3>2. ASSUME NEW i \in 0 .. n - 1, i \in S PROVE i + 1 \in S
      <4>1. i + 1 \in 1 .. n /\ (i + 1) - 1 = i /\ i + 1 \in 0 .. n
        BY <1>1
      <4>2. Placed(names, f[(i + 1) - 1], (i + 1) - 1)
        BY <3>2, <4>1
      <4> QED BY <2>4, <4>1, <4>2
    <3> HIDE DEF S
    <3> QED BY <1>1, <3>1, <3>2, Climb
  <2>6. ASSUME NEW i \in 1 .. n PROVE f[i] = InsertBucket(names, f[i - 1], i - 1)
    <3>1. i - 1 \in 0 .. n
      BY <1>1
    <3>2. Placed(names, f[i - 1], i - 1)
      BY <2>5, <3>1
    <3> QED BY <2>4, <3>2
  <2>7. f = again(f)
    <3> HIDE DEF T, step, S
    <3>1. \A i \in 0 .. n : f[i] = again(f)[i]
      BY <1>1, <2>3, <2>6
    <3> QED BY <2>3, <3>1
  <2> QED BY <2>3, <2>7
<1>8. placed = again(placed)
  BY <1>7 DEF placed
<1> DEFINE S == {i \in 0 .. n : placed[i] \in [0 .. size - 1 -> Nat] /\ Placed(names, placed[i], i)}
<1>9. \A i \in 0 .. n : i \in S
  <2>1. 0 \in S
    <3>1. placed[0] = fresh /\ 0 \in 0 .. n
      BY <1>1, <1>8
    <3>2. fresh \in [0 .. size - 1 -> 0 .. 0]
      BY <1>3 DEF Placed
    <3>3. fresh \in [0 .. size - 1 -> Nat]
      BY <3>2
    <3> QED BY <1>3, <3>1, <3>3
  <2>2. ASSUME NEW i \in 0 .. n - 1, i \in S PROVE i + 1 \in S
    <3>1. i + 1 \in 1 .. n /\ (i + 1) - 1 = i /\ i + 1 \in 0 .. n /\ i + 1 # 0
      BY <1>1
    <3>2. placed[i + 1] = InsertBucket(names, placed[i], i)
      BY <1>8, <3>1
    <3> QED BY <1>6, <2>2, <3>1, <3>2
  <2> HIDE DEF S
  <2> QED BY <1>1, <2>1, <2>2, Climb
<1>10. placed[n] \in [0 .. size - 1 -> Nat] /\ Placed(names, placed[n], n)
  BY <1>1, <1>9
<1>11. Cardinality(DOMAIN placed[n]) = size
  BY <1>2, <1>10, SizeOfIndex
<1> DEFINE grown == Grow(table)
<1>12. /\ grown.names = names /\ grown.index = placed[n] /\ grown.capacity = larger
       /\ grown = [names |-> grown.names, index |-> grown.index, capacity |-> grown.capacity]
  BY <1>5 DEF Sound, names
<1>13. n <= larger
  <2>1. table.capacity \in Nat /\ larger = 2 * table.capacity
    BY DEF Sound, larger
  <2> QED BY <1>1, <2>1
<1> HIDE DEF grown
<1>14. Sound(grown)
  BY <1>1, <1>2, <1>10, <1>11, <1>12, <1>13 DEF Sound, n
<1> QED BY <1>12, <1>14 DEF grown, names, larger

--------------------------------------------------------------------------------
\* The table a new cache has.
LEMMA NewTableIsSound == Sound(NewTable) /\ NewTable.names = <<>>
<1> DEFINE capacity == Max({InitialSymbols, 1})
<1>1. capacity \in Nat \ {0}
  <2>1. CASE InitialSymbols >= 1
    <3>1. InitialSymbols \in {InitialSymbols, 1} /\ \A y \in {InitialSymbols, 1} : InitialSymbols >= y
      BY <2>1
    <3> QED BY <2>1, <3>1 DEF Max
  <2>2. CASE ~(InitialSymbols >= 1)
    <3>1. 1 \in {InitialSymbols, 1} /\ \A y \in {InitialSymbols, 1} : 1 >= y
      BY <2>2
    <3>2. capacity \in {InitialSymbols, 1} /\ capacity >= 1
      BY <3>1 DEF Max
    <3> QED BY <2>2, <3>2
  <2> QED BY <2>1, <2>2
<1>2. NewTable = [names |-> <<>>, index |-> EmptyIndex(capacity), capacity |-> capacity]
  BY DEF NewTable
<1> HIDE DEF capacity
<1>3. /\ Placed(<<>>, EmptyIndex(capacity), 0)
      /\ Cardinality(DOMAIN EmptyIndex(capacity)) >= 2 * capacity
  BY <1>1, EmptyIsPlaced, BucketsBounds
<1>4. <<>> \in Seq(Names) /\ Len(<<>>) = 0
  OBVIOUS
<1> QED BY <1>1, <1>2, <1>3, <1>4 DEF Sound

\* intern keeps the table sound: the names that were there keep their ids, and
\* the name is among them unless it was refused.
LEMMA AddedIsSound ==
    ASSUME NEW table, Sound(table), NEW name \in Names, Lookup(table, name) = 0
    PROVE  /\ Sound(Added(table, name))
           /\ Added(table, name).names = Append(table.names, name)
<1> DEFINE roomy == IF Len(table.names) = table.capacity THEN Grow(table) ELSE table
           names == Append(roomy.names, name)
           n == Len(roomy.names)
           size == Cardinality(DOMAIN roomy.index)
           index == InsertBucket(names, roomy.index, n)
           added == Added(table, name)
<1>1. /\ Sound(roomy) /\ roomy.names = table.names /\ n < roomy.capacity
  <2>1. table.names \in Seq(Names) /\ table.capacity \in Nat \ {0} /\ Len(table.names) <= table.capacity
    BY DEF Sound
  <2>2. CASE Len(table.names) = table.capacity
    <3>1. roomy = Grow(table)
      BY <2>2
    <3> HIDE DEF roomy
    <3>2. Sound(roomy) /\ roomy.names = table.names /\ roomy.capacity = 2 * table.capacity
      BY <3>1, GrowIsSound
    <3> QED BY <2>1, <2>2, <3>2
  <2>3. CASE Len(table.names) # table.capacity
    BY <2>1, <2>3
  <2> QED BY <2>2, <2>3
<1>2. added = [roomy EXCEPT !.names = names, !.index = InsertBucket(names, @, Len(names) - 1)]
  BY DEF Added
<1> HIDE DEF roomy, added
<1>3. /\ roomy.names \in Seq(Names) /\ n \in Nat /\ roomy.capacity \in Nat \ {0}
      /\ \A i, j \in 1 .. n : roomy.names[i] = roomy.names[j] => i = j
      /\ Placed(roomy.names, roomy.index, n) /\ size >= 2 * roomy.capacity
      /\ roomy = [names |-> roomy.names, index |-> roomy.index, capacity |-> roomy.capacity]
  BY <1>1 DEF Sound
<1>4. /\ names \in Seq(Names) /\ Len(names) = n + 1 /\ names[n + 1] = name
      /\ \A i \in 1 .. n : names[i] = roomy.names[i]
  BY <1>3
<1>5. \A i \in 1 .. n : roomy.names[i] # name
  <2>1. ASSUME NEW i \in 1 .. n, table.names[i] = name PROVE FALSE
    <3>1. i \in 1 .. Len(table.names)
      BY <1>1
    <3>2. Lookup(table, name) = i
      BY <2>1, <3>1, LookupOfSound
    <3> QED BY <3>1, <3>2
  <2> QED BY <1>1, <2>1
<1> HIDE DEF names, n, size
<1>6. Placed(names, roomy.index, n)
  BY <1>3, <1>4, PlacedOfLonger
<1>7. n < size /\ n < Len(names) /\ n + 1 <= roomy.capacity /\ size = Cardinality(DOMAIN roomy.index)
  <2>1. size \in Nat
    BY <1>3 DEF Placed, size
  <2>2. n < Len(names) /\ n + 1 <= roomy.capacity
    BY SMTT(60), <1>1, <1>3, <1>4 DEF n
  <2> QED BY <1>3, <2>1, <2>2 DEF size
<1>8. Placed(names, index, n + 1) /\ DOMAIN index = DOMAIN roomy.index
  <2> HIDE DEF index
  <2> QED BY <1>3, <1>4, <1>6, <1>7, InsertIsPlaced DEF index
<1>9. Len(names) - 1 = n
  BY <1>3, <1>4
<1>10. /\ added.names = names /\ added.index = index /\ added.capacity = roomy.capacity
       /\ added = [names |-> added.names, index |-> added.index, capacity |-> added.capacity]
  <2> HIDE DEF index
  <2>1. added = [roomy EXCEPT !.names = names, !.index = index]
    BY <1>2, <1>9 DEF index
  <2> QED BY <1>3, <2>1
<1> HIDE DEF index
<1>11. ASSUME NEW i \in 1 .. n + 1, NEW j \in 1 .. n + 1, names[i] = names[j] PROVE i = j
  <2>1. CASE i = n + 1 /\ j = n + 1
    BY <2>1
  <2>2. CASE i \in 1 .. n /\ j \in 1 .. n
    BY <1>3, <1>4, <1>11, <2>2
  <2>3. CASE i \in 1 .. n /\ j = n + 1
    BY <1>4, <1>5, <1>11, <2>3
  <2>4. CASE i = n + 1 /\ j \in 1 .. n
    BY <1>4, <1>5, <1>11, <2>4
  <2>5. \A l \in 1 .. n + 1 : l = n + 1 \/ l \in 1 .. n
    BY <1>3
  <2> QED BY <2>1, <2>2, <2>3, <2>4, <2>5
<1>12. Sound(added)
  BY <1>3, <1>4, <1>7, <1>8, <1>10, <1>11 DEF Sound, size
<1> QED BY <1>1, <1>10, <1>12 DEF added, names

LEMMA InternedIsSound ==
    ASSUME NEW table, Sound(table), NEW name \in Names
    PROVE  /\ Sound(Interned(table, name))
           /\ \/ Interned(table, name).names = table.names
              \/ Lookup(table, name) = 0 /\ Interned(table, name).names = Append(table.names, name)
<1>1. CASE Lookup(table, name) # 0 \/ Exhausted(table)
  BY <1>1 DEF Interned
<1>2. CASE ~(Lookup(table, name) # 0 \/ Exhausted(table))
  <2>1. Interned(table, name) = Added(table, name) /\ Lookup(table, name) = 0
    BY <1>2 DEF Interned
  <2> QED BY <2>1, AddedIsSound
<1> QED BY <1>1, <1>2

HIDE SymbolsAssumption

--------------------------------------------------------------------------------
(* What the values are.                                                    *)

Level == [px : Int \ {0}, qty : Int]

Levels == {levels \in Seq(Level) : Len(levels) <= Depth}

BookType ==
    [Bid : Levels, Ask : Levels, overflowed : [Sides -> Nat], lastSeq : Nat, applied : Nat]

\* The records a feed may send, and those that change a side.
Messages ==
    {m \in [kind : STRING, side : STRING, sym : Names, px : Int, qty : Int, seq : Nat] :
        m.kind = "Depth" => m.px # 0}

Changes == {m \in Messages : m.kind \in BookKinds /\ m.side \in Sides}

--------------------------------------------------------------------------------
(* A side of a book.                                                       *)

LEMMA LocateBounds ==
    ASSUME NEW side, NEW levels \in Seq(Level), NEW p \in Int
    PROVE  Locate(side, levels, p) \in 1 .. Len(levels) + 1
<1> DEFINE S == {i \in 1 .. Len(levels) : ~Better(side, levels[i].px, p)} \cup {Len(levels) + 1}
<1>1. S \subseteq 1 .. Len(levels) + 1 /\ S # {} /\ S \subseteq Nat
  OBVIOUS
<1>2. Locate(side, levels, p) = Min(S)
  BY DEF Locate
<1> HIDE DEF S
<1>3. Min(S) \in S
  BY <1>1, MinOfNats
<1> QED BY <1>1, <1>2, <1>3

LEMMA InsertAtIsLevels ==
    ASSUME NEW levels \in Seq(Level), NEW at \in 1 .. Len(levels) + 1, NEW new \in Level
    PROVE  InsertAt(levels, at, new) \in Seq(Level) /\ Len(InsertAt(levels, at, new)) = Len(levels) + 1
<1> DEFINE front == SubSeq(levels, 1, at - 1)
           back == SubSeq(levels, at, Len(levels))
<1>1. front \in Seq(Level) /\ Len(front) = at - 1
  BY SubSeqProperties, ElementOfSeq
<1>2. back \in Seq(Level) /\ Len(back) = (Len(levels) - at) + 1
  BY SubSeqProperties, ElementOfSeq
<1>3. <<new>> \in Seq(Level) /\ Len(<<new>>) = 1
  OBVIOUS
<1>4. InsertAt(levels, at, new) = front \o <<new>> \o back
  BY DEF InsertAt
<1> HIDE DEF front, back
<1>5. front \o <<new>> \in Seq(Level) /\ Len(front \o <<new>>) = at
  BY <1>1, <1>3, ConcatProperties
<1> DEFINE begun == front \o <<new>>
<1>6. begun \o back \in Seq(Level) /\ Len(begun \o back) = Len(begun) + Len(back)
  <2> HIDE DEF begun
  <2> QED BY <1>2, <1>5, ConcatProperties DEF begun
<1> QED BY <1>2, <1>4, <1>5, <1>6

LEMMA RemoveAtIsLevels ==
    ASSUME NEW levels \in Seq(Level), NEW at \in 1 .. Len(levels)
    PROVE  RemoveAt(levels, at) \in Seq(Level) /\ Len(RemoveAt(levels, at)) = Len(levels) - 1
<1> DEFINE front == SubSeq(levels, 1, at - 1)
           back == SubSeq(levels, at + 1, Len(levels))
<1>1. front \in Seq(Level) /\ Len(front) = at - 1
  BY SubSeqProperties, ElementOfSeq
<1>2. back \in Seq(Level) /\ Len(back) = Len(levels) - at
  BY SubSeqProperties, ElementOfSeq
<1>3. RemoveAt(levels, at) = front \o back
  BY DEF RemoveAt
<1> HIDE DEF front, back
<1>4. front \o back \in Seq(Level) /\ Len(front \o back) = Len(front) + Len(back)
  BY <1>1, <1>2, ConcatProperties
<1> QED BY <1>1, <1>2, <1>3, <1>4

\* A side is never longer than its depth.
LEMMA UpsertIsLevels ==
    ASSUME NEW side, NEW levels \in Levels, NEW p \in Int \ {0}, NEW q \in Int
    PROVE  Upsert(side, levels, p, q).levels \in Levels
<1> DEFINE at == Locate(side, levels, p)
           new == [px |-> p, qty |-> q]
           inserted == InsertAt(levels, at, new)
<1>1. levels \in Seq(Level) /\ Len(levels) \in Nat /\ Len(levels) <= Depth
  BY BookAssumption DEF Levels
<1>2. at \in 1 .. Len(levels) + 1
  BY <1>1, LocateBounds
<1>3. new \in Level
  BY DEF Level
<1>4. CASE Present(levels, at, p)
  <2>1. at \in 1 .. Len(levels)
    BY <1>2, <1>4 DEF Present
  <2>2. Upsert(side, levels, p, q).levels = [levels EXCEPT ![at] = [@ EXCEPT !.qty = q]]
    BY <1>4 DEF Upsert
  <2> HIDE DEF at
  <2>3. [levels[at] EXCEPT !.qty = q] \in Level
    <3>1. levels[at] \in Level
      BY <1>1, <2>1, ElementOfSeq
    <3> QED BY <3>1 DEF Level
  <2>4. [levels EXCEPT ![at] = [levels[at] EXCEPT !.qty = q]] \in Seq(Level)
        /\ Len([levels EXCEPT ![at] = [levels[at] EXCEPT !.qty = q]]) = Len(levels)
    BY <1>1, <2>1, <2>3, ExceptSeq
  <2> QED BY <1>1, <2>2, <2>4 DEF Levels
<1>5. CASE ~Present(levels, at, p)
  <2>1. Upsert(side, levels, p, q).levels = IF Len(levels) = Depth THEN Front(inserted) ELSE inserted
    BY <1>5 DEF Upsert
  <2>2. inserted \in Seq(Level) /\ Len(inserted) = Len(levels) + 1
    <3> HIDE DEF at, new
    <3> QED BY <1>1, <1>2, <1>3, InsertAtIsLevels
  <2> HIDE DEF inserted
  <2>3. Front(inserted) \in Seq(Level) /\ Len(Front(inserted)) = Len(levels)
    BY <1>1, <2>2, SubSeqProperties, ElementOfSeq DEF Front
  <2> QED BY <1>1, <2>1, <2>2, <2>3, BookAssumption DEF Levels
<1> QED BY <1>4, <1>5

LEMMA EraseIsLevels ==
    ASSUME NEW side, NEW levels \in Levels, NEW p \in Int
    PROVE  Erase(side, levels, p) \in Levels
<1> DEFINE at == Locate(side, levels, p)
<1>1. levels \in Seq(Level) /\ Len(levels) \in Nat /\ Len(levels) <= Depth
  BY BookAssumption DEF Levels
<1>2. at \in 1 .. Len(levels) + 1
  BY <1>1, LocateBounds
<1>3. Erase(side, levels, p) = IF Present(levels, at, p) THEN RemoveAt(levels, at) ELSE levels
  BY DEF Erase
<1>4. CASE Present(levels, at, p)
  <2>1. at \in 1 .. Len(levels)
    BY <1>2, <1>4 DEF Present
  <2> HIDE DEF at
  <2>2. RemoveAt(levels, at) \in Seq(Level) /\ Len(RemoveAt(levels, at)) = Len(levels) - 1
    BY <1>1, <2>1, RemoveAtIsLevels
  <2> QED BY <1>1, <1>3, <1>4, <2>2, BookAssumption DEF Levels
<1>5. CASE ~Present(levels, at, p)
  BY <1>3, <1>5
<1> QED BY <1>4, <1>5

--------------------------------------------------------------------------------
(* A book.                                                                 *)

\* What a record makes of one side.
SideAfter(side, levels, m) ==
    IF m.kind \notin BookKinds \/ m.side # side THEN levels
    ELSE IF m.kind = "DepthReset" THEN <<>>
    ELSE IF m.qty = 0 THEN Erase(side, levels, m.px)
    ELSE Upsert(side, levels, m.px, m.qty).levels

\* Each side of a book goes its own way.
LEMMA ApplyBySide ==
    ASSUME NEW b \in BookType, NEW m \in Messages, NEW side \in Sides
    PROVE  Apply(b, m).book[side] = SideAfter(side, b[side], m)
<1> USE DEF BookType, Sides
<1>1. CASE m.kind \notin BookKinds \/ m.side \notin Sides
  BY <1>1 DEF Apply, SideAfter
<1>2. CASE m.kind \in BookKinds /\ m.side \in Sides
  <2>1. CASE m.kind = "DepthReset"
    BY <1>2, <2>1 DEF Apply, Reset, SideAfter
  <2>2. CASE m.kind # "DepthReset" /\ m.qty = 0
    BY <1>2, <2>2 DEF Apply, Delete, SideAfter
  <2>3. CASE m.kind # "DepthReset" /\ m.qty # 0
    BY <1>2, <2>3 DEF Apply, Put, SideAfter
  <2> QED BY <2>1, <2>2, <2>3
<1> QED BY <1>1, <1>2

LEMMA SideAfterIsLevels ==
    ASSUME NEW levels \in Levels, NEW m \in Messages, NEW side \in Sides
    PROVE  SideAfter(side, levels, m) \in Levels
<1>1. <<>> \in Levels
  BY BookAssumption DEF Levels
<1>2. m.px \in Int /\ m.qty \in Int /\ (m.kind = "Depth" => m.px # 0)
  BY DEF Messages
<1>3. m.kind \in BookKinds /\ m.kind # "DepthReset" => m.px \in Int \ {0}
  BY <1>2 DEF BookKinds
<1> QED BY <1>1, <1>2, <1>3, EraseIsLevels, UpsertIsLevels DEF SideAfter

\* What applying a record may change of a book.
Edited(b, side, levels, overflowed, lastSeq) ==
    [b EXCEPT ![side] = levels, !.overflowed = overflowed, !.lastSeq = lastSeq, !.applied = @ + 1]

LEMMA EditedIsBook ==
    ASSUME NEW b \in BookType, NEW side \in Sides, NEW levels \in Levels,
           NEW overflowed \in [Sides -> Nat], NEW lastSeq \in Nat
    PROVE  Edited(b, side, levels, overflowed, lastSeq) \in BookType
<1> DEFINE b1 == [b EXCEPT ![side] = levels]
           b2 == [b1 EXCEPT !.overflowed = overflowed]
           b3 == [b2 EXCEPT !.lastSeq = lastSeq]
           b4 == [b3 EXCEPT !.applied = @ + 1]
<1>1. b1 \in BookType
  BY DEF BookType, Sides
<1>2. b2 \in BookType
  <2> HIDE DEF b1
  <2> QED BY <1>1 DEF BookType
<1>3. b3 \in BookType
  <2> HIDE DEF b2
  <2> QED BY <1>2 DEF BookType
<1>4. b4 \in BookType
  <2> HIDE DEF b3
  <2> QED BY <1>3 DEF BookType
<1>5. Edited(b, side, levels, overflowed, lastSeq) = b4
  BY DEF Edited, Sides
<1> QED BY <1>4, <1>5

\* A book stays a book, within its depth.
LEMMA ApplyIsBook ==
    ASSUME NEW b \in BookType, NEW m \in Messages
    PROVE  Apply(b, m).book \in BookType
<1> DEFINE after == Apply(b, m).book
<1>1. /\ m.seq \in Nat /\ m.px \in Int /\ m.qty \in Int /\ (m.kind = "Depth" => m.px # 0)
      /\ b.overflowed \in [Sides -> Nat] /\ b.lastSeq \in Nat
  BY DEF Messages, BookType
<1>2. CASE ~(m.kind \in BookKinds /\ m.side \in Sides)
  BY <1>2 DEF Apply
<1>3. CASE m.kind \in BookKinds /\ m.side \in Sides
  <2>1. b[m.side] \in Levels
    BY <1>3 DEF BookType, Sides
  <2>2. CASE m.kind = "DepthReset"
    <3>1. after = Edited(b, m.side, <<>>, b.overflowed, b.lastSeq)
      BY <1>3, <2>2 DEF Apply, Reset, BookType, Sides, Edited
    <3>2. <<>> \in Levels
      BY BookAssumption DEF Levels
    <3> QED BY <1>1, <1>3, <3>1, <3>2, EditedIsBook
  <2>3. CASE m.kind # "DepthReset" /\ m.qty = 0
    <3>1. after = Edited(b, m.side, Erase(m.side, b[m.side], m.px), b.overflowed, m.seq)
      BY <1>3, <2>3 DEF Apply, Delete, BookType, Sides, Edited
    <3>2. Erase(m.side, b[m.side], m.px) \in Levels
      BY <1>1, <2>1, EraseIsLevels
    <3> QED BY <1>1, <1>3, <3>1, <3>2, EditedIsBook
  <2>4. CASE m.kind # "DepthReset" /\ m.qty # 0
    <3> DEFINE put == Upsert(m.side, b[m.side], m.px, m.qty)
               overflowed == [b.overflowed EXCEPT ![m.side] = @ + (IF put.overflows THEN 1 ELSE 0)]
    <3>1. overflowed \in [Sides -> Nat]
      <4> HIDE DEF put
      <4>1. b.overflowed[m.side] + (IF put.overflows THEN 1 ELSE 0) \in Nat
        BY <1>1, <1>3
      <4> QED BY <1>1, <4>1
    <3>2. after = Edited(b, m.side, put.levels, overflowed, m.seq)
      <4> HIDE DEF put
      <4>1. after = [b EXCEPT ![m.side] = put.levels,
                              !.overflowed[m.side] = @ + (IF put.overflows THEN 1 ELSE 0),
                              !.lastSeq = m.seq, !.applied = @ + 1]
        BY <1>3, <2>4 DEF Apply, Put, put
      <4> QED BY <1>3, <4>1 DEF BookType, Sides, Edited
    <3>3. put.levels \in Levels
      <4>1. m.px \in Int \ {0}
        BY <1>1, <1>3, <2>4 DEF BookKinds
      <4> QED BY <1>1, <2>1, <4>1, UpsertIsLevels
    <3> HIDE DEF put, overflowed
    <3> QED BY <1>1, <1>3, <3>1, <3>2, <3>3, EditedIsBook
  <2> QED BY <2>2, <2>3, <2>4
<1> QED BY <1>2, <1>3

LEMMA EmptyIsBook == EmptyBook \in BookType
<1>1. <<>> \in Levels
  BY BookAssumption DEF Levels
<1>2. [s \in Sides |-> 0] \in [Sides -> Nat]
  OBVIOUS
<1> QED BY <1>1, <1>2 DEF EmptyBook, BookType

\* What a publish makes of a record that changes a side.
LEMMA OutcomeOfApply ==
    ASSUME NEW b \in BookType, NEW m \in Messages, m.kind \in BookKinds
    PROVE  /\ Apply(b, m).outcome \in {"Reset", "Changed", "Overflow"} <=> m.side \in Sides
           /\ Apply(b, m).outcome = "WrongSide" <=> m.side \notin Sides
BY DEF Apply, Reset, Delete, Put

\* The best of a side is a price, and zero is not one.
LEMMA BestOfLevels ==
    ASSUME NEW levels \in Levels
    PROVE  /\ Best(levels) \in [px : Int, qty : Int]
           /\ Best(levels).px = 0 <=> levels = <<>>
<1>1. CASE levels = <<>>
  BY <1>1 DEF Best, NoLevel
<1>2. CASE levels # <<>>
  <2>1. levels \in Seq(Level) /\ 1 \in 1 .. Len(levels)
    BY <1>2, EmptySeq DEF Levels
  <2>2. levels[1] \in Level
    BY <2>1, ElementOfSeq
  <2> QED BY <1>2, <2>2 DEF Best, Level
<1> QED BY <1>1, <1>2

\* A record of the feed, numbered.
LEMMA NumberedIsMessage ==
    ASSUME NEW r \in Records, NEW seq \in Nat
    PROVE  Numbered(r, seq) \in Messages
<1>1. r \in [kind : STRING, side : STRING, sym : Names, px : Int, qty : Int]
  BY CacheAssumption
<1> QED BY <1>1, PriceAssumption DEF Messages, Numbered

--------------------------------------------------------------------------------
(* The state.                                                              *)

Offer == [px : Int, qty : Int]

Events == [symbol : Nat, msg : Changes, top : [bid : Offer, ask : Offer], gap : SUBSET Sides]

StatsType ==
    [published : Nat, applied : Nat, ignored : Nat, unknown : Nat, wrongSide : Nat,
     overflow : Nat, crossed : Nat, evicted : Nat, dropped : Nat, refused : Nat]

CacheType ==
    /\ policy \in PolicyChoices
    /\ Sound(symbols)
    /\ shards \in [0 .. Shards - 1 -> Seq(BookType)]
    /\ bestBid \in Seq(Int) /\ bestAsk \in Seq(Int)
    /\ stats \in StatsType
    /\ queue \in [Subscribers -> Seq(Events)]
    /\ \A s \in Subscribers : Len(queue[s]) <= QueueSize
    /\ credit \in [Subscribers -> 0 .. MaxCredit]
    /\ lost \in [Subscribers -> [Losses -> Nat]]
    /\ delivered \in [Subscribers -> Nat]
    /\ replica \in [Subscribers -> BookType]
    /\ missed \in [Subscribers -> SUBSET Sides] /\ gap \in [Subscribers -> SUBSET Sides]

--------------------------------------------------------------------------------
(* Where things are.                                                       *)

LEMMA SeqOfFunction ==
    ASSUME NEW n \in Nat, NEW S, NEW f \in [1 .. n -> S]
    PROVE  f \in Seq(S) /\ Len(f) = n
  OBVIOUS

LEMMA MaxOfTwo ==
    ASSUME NEW a \in Int, NEW b \in Int
    PROVE  Max({a, b}) \in {a, b} /\ Max({a, b}) >= a /\ Max({a, b}) >= b
<1>1. \E x \in {a, b} : \A y \in {a, b} : x >= y
  <2>1. CASE a >= b
    BY <2>1
  <2>2. CASE b >= a
    BY <2>2
  <2> QED BY <2>1, <2>2
<1> QED BY <1>1 DEF Max

\* The lane's price of an id, which is none beyond its end.
PriceAt(lane, id) == IF id < Len(lane) THEN lane[id + 1] ELSE 0

LEMMA CoveringKeepsPrices ==
    ASSUME NEW lane \in Seq(Int), NEW id \in Nat
    PROVE  /\ Covering(lane, id) \in Seq(Int)
           /\ Len(Covering(lane, id)) >= Len(lane) /\ Len(Covering(lane, id)) > id
           /\ \A i \in Nat : PriceAt(Covering(lane, id), i) = PriceAt(lane, i)
<1>1. CASE id < Len(lane)
  BY <1>1 DEF Covering
<1>2. CASE ~(id < Len(lane))
  <2> DEFINE n == NextPowerOfTwo(id + 1)
             longer == [i \in 1 .. n |-> IF i <= Len(lane) THEN lane[i] ELSE 0]
  <2>1. n \in Nat /\ n >= id + 1
    BY NextPowerBounds
  <2>2. Covering(lane, id) = longer
    BY <1>2 DEF Covering
  <2> HIDE DEF n
  <2>3. longer \in [1 .. n -> Int]
    BY ElementOfSeq
  <2>4. longer \in Seq(Int) /\ Len(longer) = n
    <3> HIDE DEF longer
    <3> QED BY <2>1, <2>3, SeqOfFunction
  <2>5. Len(lane) \in Nat /\ n > Len(lane)
    BY <1>2, <2>1
  <2>6. ASSUME NEW i \in Nat PROVE PriceAt(longer, i) = PriceAt(lane, i)
    <3>1. CASE i < n
      <4>1. i + 1 \in 1 .. n
        BY <2>1, <3>1
      <4>2. longer[i + 1] = IF i + 1 <= Len(lane) THEN lane[i + 1] ELSE 0
        BY <4>1
      <4> HIDE DEF longer
      <4> QED BY <2>4, <2>5, <3>1, <4>2 DEF PriceAt
    <3>2. CASE ~(i < n)
      <4> HIDE DEF longer
      <4> QED BY <2>1, <2>4, <2>5, <3>2 DEF PriceAt
    <3> QED BY <3>1, <3>2
  <2> HIDE DEF longer
  <2> QED BY <2>1, <2>2, <2>4, <2>5, <2>6
<1> QED BY <1>1, <1>2

\* The book at a slot, empty if there is none yet.
BookAt(books, slot) == IF slot < Len(books) THEN books[slot + 1] ELSE EmptyBook

LEMMA ReachingKeepsBooks ==
    ASSUME NEW books \in Seq(BookType), NEW slot \in Nat
    PROVE  /\ Reaching(books, slot) \in Seq(BookType)
           /\ Len(Reaching(books, slot)) > slot
           /\ Len(Reaching(books, slot)) >= Len(books)
           /\ \A i \in Nat : BookAt(Reaching(books, slot), i) = BookAt(books, i)
<1> DEFINE want == slot + 1
           n == Max({Len(books), want})
           more == [i \in 1 .. n |-> IF i <= Len(books) THEN books[i] ELSE EmptyBook]
<1>1. Len(books) \in Nat /\ n \in Nat /\ n >= Len(books) /\ n > slot
  <2>1. Len(books) \in Int /\ want \in Int
    OBVIOUS
  <2>2. n \in {Len(books), want} /\ n >= Len(books) /\ n >= want
    <3> HIDE DEF want
    <3> QED BY <2>1, MaxOfTwo
  <2> HIDE DEF n
  <2> QED BY <2>1, <2>2
<1>2. Reaching(books, slot) = more
  BY DEF Reaching
<1> HIDE DEF n
<1>3. more \in [1 .. n -> BookType]
  BY ElementOfSeq, EmptyIsBook
<1>4. more \in Seq(BookType) /\ Len(more) = n
  <2> HIDE DEF more
  <2> QED BY <1>1, <1>3, SeqOfFunction
<1>5. ASSUME NEW i \in Nat PROVE BookAt(more, i) = BookAt(books, i)
  <2>1. CASE i < n
    <3>1. i + 1 \in 1 .. n
      BY <1>1, <2>1
    <3>2. more[i + 1] = IF i + 1 <= Len(books) THEN books[i + 1] ELSE EmptyBook
      BY <3>1
    <3> HIDE DEF more
    <3> QED BY <1>1, <1>4, <2>1, <3>2 DEF BookAt
  <2>2. CASE ~(i < n)
    <3> HIDE DEF more
    <3> QED BY <1>1, <1>4, <2>2 DEF BookAt
  <2> QED BY <2>1, <2>2
<1> HIDE DEF more
<1> QED BY <1>1, <1>2, <1>4, <1>5

\* Every id has a place of its own.
LEMMA PlaceOfId ==
    ASSUME NEW id \in Nat
    PROVE  /\ ShardOf(id) \in 0 .. Shards - 1 /\ SlotOf(id) \in Nat
           /\ id = Shards * SlotOf(id) + ShardOf(id)
<1>1. Shards \in Nat \ {0}
  BY CacheAssumption
<1>2. id % Shards \in 0 .. Shards - 1
  BY <1>1, SlotInRange
<1>3. id \div Shards \in Int /\ id = Shards * (id \div Shards) + (id % Shards)
  BY <1>1, Division
<1>4. id \div Shards \in Nat
  <2> DEFINE q == id \div Shards
  <2>1. SUFFICES ASSUME q <= -1 PROVE FALSE
    BY <1>3
  <2>2. Shards * (-q) >= Shards
    BY <1>1, <1>3, <2>1, MulBound
  <2>3. Shards * (-q) = -(Shards * q)
    BY <1>1, <1>3
  <2>4. Shards * q \in Int
    BY <1>1, <1>3
  <2> HIDE DEF q
  <2> QED BY <1>1, <1>2, <1>3, <2>2, <2>3, <2>4 DEF q
<1> QED BY <1>2, <1>3, <1>4 DEF ShardOf, SlotOf

\* The id of a record's symbol, once it is interned.
LEMMA IdOfInterned ==
    ASSUME Sound(symbols), NEW m, m.sym \in Names, IdFor(m) >= 0
    PROVE  /\ IdFor(m) \in Nat
           /\ Sound(Interned(symbols, m.sym))
           /\ IdFor(m) < Len(Interned(symbols, m.sym).names)
           /\ \/ Interned(symbols, m.sym).names = symbols.names
              \/ /\ Interned(symbols, m.sym).names = Append(symbols.names, m.sym)
                 /\ IdFor(m) = Len(symbols.names)
<1> DEFINE after == Interned(symbols, m.sym)
           found == Lookup(after, m.sym)
<1>1. /\ Sound(after)
      /\ after.names = symbols.names \/ after.names = Append(symbols.names, m.sym)
  BY InternedIsSound
<1>2. IdFor(m) = found - 1
  BY DEF IdFor
<1> HIDE DEF after
<1>3. /\ found \in 0 .. Len(after.names)
      /\ \A i \in 1 .. Len(after.names) : after.names[i] = m.sym => found = i
  BY <1>1, LookupOfSound
<1>4. Len(after.names) \in Nat
  BY <1>1 DEF Sound
<1> HIDE DEF found
<1>5. IdFor(m) \in Nat /\ IdFor(m) < Len(after.names)
  BY <1>2, <1>3, <1>4
<1>6. ASSUME after.names = Append(symbols.names, m.sym) PROVE IdFor(m) = Len(symbols.names)
  <2>1. symbols.names \in Seq(Names)
    BY DEF Sound
  <2>2. Len(after.names) = Len(symbols.names) + 1 /\ after.names[Len(symbols.names) + 1] = m.sym
    BY <1>6, <2>1
  <2>3. found = Len(symbols.names) + 1
    BY <1>3, <1>4, <2>1, <2>2
  <2> QED BY <1>2, <2>1, <2>3
<1> QED BY <1>1, <1>5, <1>6 DEF after

--------------------------------------------------------------------------------
(* The tables and the lane.                                                *)

\* The book of an id, empty if none was kept for it yet.
BookFor(id) == BookAt(shards[ShardOf(id)], SlotOf(id))

\* The lane has the best prices of every book, and is as long as the table.
Lane ==
    /\ Len(symbols.names) <= Len(bestBid) /\ Len(symbols.names) <= Len(bestAsk)
    /\ \A id \in Nat :
        /\ PriceAt(bestBid, id) = Best(BookFor(id).Bid).px
        /\ PriceAt(bestAsk, id) = Best(BookFor(id).Ask).px

LEMMA BookForIsBook ==
    ASSUME CacheType, NEW id \in Nat
    PROVE  BookFor(id) \in BookType
<1>1. shards[ShardOf(id)] \in Seq(BookType) /\ SlotOf(id) \in Nat
  BY PlaceOfId DEF CacheType
<1>2. CASE SlotOf(id) < Len(shards[ShardOf(id)])
  <2>1. SlotOf(id) + 1 \in 1 .. Len(shards[ShardOf(id)])
    BY <1>1, <1>2
  <2>2. shards[ShardOf(id)][SlotOf(id) + 1] \in BookType
    BY <1>1, <2>1, ElementOfSeq
  <2> QED BY <1>2, <2>2 DEF BookFor, BookAt
<1>3. CASE ~(SlotOf(id) < Len(shards[ShardOf(id)]))
  BY <1>3, EmptyIsBook DEF BookFor, BookAt
<1> QED BY <1>2, <1>3

\* What a record is applied to is the book of its symbol.
LEMMA AppliedToBookFor ==
    ASSUME CacheType, NEW id \in Nat, NEW m
    PROVE  AppliedTo(id, m) = Apply(BookFor(id), m)
<1> DEFINE books == shards[ShardOf(id)]
           slot == SlotOf(id)
<1>1. books \in Seq(BookType) /\ slot \in Nat
  BY PlaceOfId DEF CacheType
<1> HIDE DEF books, slot
<1>2. Len(Reaching(books, slot)) > slot /\ BookAt(Reaching(books, slot), slot) = BookAt(books, slot)
  BY <1>1, ReachingKeepsBooks
<1>3. Reaching(books, slot)[slot + 1] = BookAt(books, slot)
  BY <1>1, <1>2 DEF BookAt
<1> QED BY <1>3 DEF AppliedTo, BookFor, books, slot

\* Replacing a price at its place of the lane.
LEMMA PriceReplaced ==
    ASSUME NEW lane \in Seq(Int), NEW id \in Nat, NEW px \in Int
    PROVE  /\ [Covering(lane, id) EXCEPT ![id + 1] = px] \in Seq(Int)
           /\ Len([Covering(lane, id) EXCEPT ![id + 1] = px]) = Len(Covering(lane, id))
           /\ \A i \in Nat : PriceAt([Covering(lane, id) EXCEPT ![id + 1] = px], i) =
                                IF i = id THEN px ELSE PriceAt(lane, i)
<1> DEFINE longer == Covering(lane, id)
           after == [longer EXCEPT ![id + 1] = px]
<1>1. longer \in Seq(Int) /\ Len(longer) > id /\ \A i \in Nat : PriceAt(longer, i) = PriceAt(lane, i)
  BY CoveringKeepsPrices
<1> HIDE DEF longer
<1>2. id + 1 \in 1 .. Len(longer)
  BY <1>1
<1>3. /\ after \in Seq(Int) /\ Len(after) = Len(longer)
      /\ \A j \in 1 .. Len(longer) : after[j] = IF j = id + 1 THEN px ELSE longer[j]
  BY <1>1, <1>2, ExceptSeq
<1> HIDE DEF after
<1>4. ASSUME NEW i \in Nat PROVE PriceAt(after, i) = IF i = id THEN px ELSE PriceAt(lane, i)
  <2>1. CASE i < Len(longer)
    <3>1. i + 1 \in 1 .. Len(longer)
      BY <1>1, <2>1
    <3>2. after[i + 1] = IF i + 1 = id + 1 THEN px ELSE longer[i + 1]
      BY <1>3, <3>1
    <3> QED BY <1>1, <1>3, <2>1, <3>2 DEF PriceAt
  <2>2. CASE ~(i < Len(longer))
    BY <1>1, <1>3, <2>2 DEF PriceAt
  <2> QED BY <2>1, <2>2
<1> QED BY <1>3, <1>4 DEF after, longer

\* Replacing a book at its place of the shards.
LEMMA BookReplaced ==
    ASSUME CacheType, NEW id \in Nat, NEW book \in BookType,
           shards' = [shards EXCEPT ![ShardOf(id)] =
                        [Reaching(@, SlotOf(id)) EXCEPT ![SlotOf(id) + 1] = book]]
    PROVE  /\ shards' \in [0 .. Shards - 1 -> Seq(BookType)]
           /\ \A i \in Nat : BookFor(i)' = IF i = id THEN book ELSE BookFor(i)
           /\ \A n \in 0 .. Shards - 1 : Len(shards'[n]) >= Len(shards[n])
           /\ Len(shards'[ShardOf(id)]) > SlotOf(id)
<1> DEFINE n == ShardOf(id)
           slot == SlotOf(id)
           books == shards[n]
           more == Reaching(books, slot)
           after == [more EXCEPT ![slot + 1] = book]
<1>1. /\ n \in 0 .. Shards - 1 /\ slot \in Nat /\ books \in Seq(BookType)
      /\ shards \in [0 .. Shards - 1 -> Seq(BookType)]
  BY PlaceOfId DEF CacheType
<1>2. shards' = [shards EXCEPT ![n] = after]
  OBVIOUS
<1> HIDE DEF n, slot, books
<1>3. /\ more \in Seq(BookType) /\ Len(more) > slot /\ Len(more) >= Len(books)
      /\ \A i \in Nat : BookAt(more, i) = BookAt(books, i)
  BY <1>1, ReachingKeepsBooks
<1> HIDE DEF more
<1>4. slot + 1 \in 1 .. Len(more)
  BY <1>1, <1>3
<1>5. /\ after \in Seq(BookType) /\ Len(after) = Len(more)
      /\ \A j \in 1 .. Len(more) : after[j] = IF j = slot + 1 THEN book ELSE more[j]
  BY <1>3, <1>4, ExceptSeq
<1> HIDE DEF after
<1>6. \A i \in Nat : BookAt(after, i) = IF i = slot THEN book ELSE BookAt(books, i)
  <2> SUFFICES ASSUME NEW i \in Nat PROVE BookAt(after, i) = IF i = slot THEN book ELSE BookAt(books, i)
    OBVIOUS
  <2>1. CASE i < Len(more)
    <3>1. i + 1 \in 1 .. Len(more)
      BY <1>3, <2>1
    <3>2. after[i + 1] = IF i + 1 = slot + 1 THEN book ELSE more[i + 1]
      BY <1>5, <3>1
    <3> QED BY <1>1, <1>3, <1>5, <2>1, <3>2 DEF BookAt
  <2>2. CASE ~(i < Len(more))
    BY <1>1, <1>3, <1>5, <2>2 DEF BookAt
  <2> QED BY <2>1, <2>2
<1>7. shards' \in [0 .. Shards - 1 -> Seq(BookType)] /\ shards'[n] = after
      /\ \A k \in 0 .. Shards - 1 : k # n => shards'[k] = shards[k]
  BY <1>1, <1>2, <1>5
<1>8. ASSUME NEW i \in Nat PROVE BookFor(i)' = IF i = id THEN book ELSE BookFor(i)
  <2>1. BookFor(i)' = BookAt(shards'[ShardOf(i)], SlotOf(i))
    BY DEF BookFor
  <2>2. ShardOf(i) \in 0 .. Shards - 1 /\ SlotOf(i) \in Nat /\ i = Shards * SlotOf(i) + ShardOf(i)
    BY PlaceOfId
  <2>3. CASE ShardOf(i) = n
    <3>1. BookFor(i)' = IF SlotOf(i) = slot THEN book ELSE BookAt(books, SlotOf(i))
      BY <1>6, <1>7, <2>1, <2>2, <2>3
    <3>2. BookFor(i) = BookAt(books, SlotOf(i))
      BY <2>3 DEF BookFor, books
    <3>3. SlotOf(i) = slot <=> i = id
      BY <2>2, <2>3, PlaceOfId DEF n, slot
    <3> QED BY <3>1, <3>2, <3>3
  <2>4. CASE ShardOf(i) # n
    <3>1. i # id
      BY <2>4 DEF n
    <3>2. shards'[ShardOf(i)] = shards[ShardOf(i)]
      BY <1>7, <2>2, <2>4
    <3> QED BY <2>1, <3>1, <3>2 DEF BookFor
  <2> QED BY <2>3, <2>4
<1>9. ASSUME NEW k \in 0 .. Shards - 1 PROVE Len(shards'[k]) >= Len(shards[k])
  <2>1. CASE k = n
    BY <1>3, <1>5, <1>7, <2>1 DEF books
  <2>2. CASE k # n
    <3>1. shards[k] \in Seq(BookType)
      BY <1>1
    <3>2. Len(shards[k]) \in Nat
      BY <3>1
    <3> QED BY <1>7, <2>2, <3>2
  <2> QED BY <2>1, <2>2
<1>10. Len(shards'[n]) > slot
  BY <1>3, <1>5, <1>7
<1> QED BY <1>7, <1>8, <1>9, <1>10 DEF n, slot

\* What a publish that keeps a book does to the tables.
LEMMA KeepBookTables ==
    ASSUME CacheType, Lane, NEW m \in Messages, NEW id, id = IdFor(m), id >= 0,
           KeepBook(m, id, AppliedTo(id, m).book)
    PROVE  /\ id \in Nat /\ id < Len(symbols'.names)
           /\ Sound(symbols)' /\ Lane'
           /\ shards' \in [0 .. Shards - 1 -> Seq(BookType)]
           /\ bestBid' \in Seq(Int) /\ bestAsk' \in Seq(Int)
           /\ AppliedTo(id, m) = Apply(BookFor(id), m)
           /\ \A i \in Nat : BookFor(i)' = IF i = id THEN Apply(BookFor(id), m).book ELSE BookFor(i)
           /\ Len(shards'[ShardOf(id)]) > SlotOf(id)
           /\ \/ symbols'.names = symbols.names
              \/ symbols'.names = Append(symbols.names, m.sym) /\ id = Len(symbols.names)
<1> DEFINE book == AppliedTo(id, m).book
<1>1. m.sym \in Names
  BY DEF Messages
<1>2. /\ symbols' = Interned(symbols, m.sym) /\ id \in Nat
      /\ Sound(symbols') /\ id < Len(symbols'.names)
      /\ \/ symbols'.names = symbols.names
         \/ symbols'.names = Append(symbols.names, m.sym) /\ id = Len(symbols.names)
  BY <1>1, IdOfInterned DEF CacheType, KeepBook
<1>3. AppliedTo(id, m) = Apply(BookFor(id), m)
  BY <1>2, AppliedToBookFor
<1>4. book \in BookType
  BY <1>2, <1>3, BookForIsBook, ApplyIsBook
<1>5. /\ shards' = [shards EXCEPT ![ShardOf(id)] =
                        [Reaching(@, SlotOf(id)) EXCEPT ![SlotOf(id) + 1] = book]]
      /\ bestBid' = [Covering(bestBid, id) EXCEPT ![id + 1] = Best(book.Bid).px]
      /\ bestAsk' = [Covering(bestAsk, id) EXCEPT ![id + 1] = Best(book.Ask).px]
  BY DEF KeepBook
<1> HIDE DEF book
<1>6. /\ shards' \in [0 .. Shards - 1 -> Seq(BookType)]
      /\ \A i \in Nat : BookFor(i)' = IF i = id THEN book ELSE BookFor(i)
      /\ Len(shards'[ShardOf(id)]) > SlotOf(id)
  BY <1>2, <1>4, <1>5, BookReplaced
<1>7. Best(book.Bid).px \in Int /\ Best(book.Ask).px \in Int
  <2>1. book.Bid \in Levels /\ book.Ask \in Levels
    BY <1>4 DEF BookType
  <2> QED BY <2>1, BestOfLevels
<1>8. bestBid \in Seq(Int) /\ bestAsk \in Seq(Int)
  BY DEF CacheType
<1> DEFINE bid == Best(book.Bid).px
           ask == Best(book.Ask).px
           bids == [Covering(bestBid, id) EXCEPT ![id + 1] = bid]
           asks == [Covering(bestAsk, id) EXCEPT ![id + 1] = ask]
<1>9. /\ bestBid' \in Seq(Int) /\ Len(bestBid') = Len(Covering(bestBid, id))
      /\ \A i \in Nat : PriceAt(bestBid', i) = IF i = id THEN Best(book.Bid).px ELSE PriceAt(bestBid, i)
  <2>1. bid \in Int /\ id \in Nat /\ bestBid \in Seq(Int)
    BY <1>2, <1>7, <1>8
  <2>2. bestBid' = bids
    BY <1>5
  <2> HIDE DEF bid
  <2>3. /\ bids \in Seq(Int) /\ Len(bids) = Len(Covering(bestBid, id))
        /\ \A i \in Nat : PriceAt(bids, i) = IF i = id THEN bid ELSE PriceAt(bestBid, i)
    BY <2>1, PriceReplaced
  <2> HIDE DEF bids
  <2> QED BY <2>2, <2>3 DEF bid
<1>10. /\ bestAsk' \in Seq(Int) /\ Len(bestAsk') = Len(Covering(bestAsk, id))
       /\ \A i \in Nat : PriceAt(bestAsk', i) = IF i = id THEN Best(book.Ask).px ELSE PriceAt(bestAsk, i)
  <2>1. ask \in Int /\ id \in Nat /\ bestAsk \in Seq(Int)
    BY <1>2, <1>7, <1>8
  <2>2. bestAsk' = asks
    BY <1>5
  <2> HIDE DEF ask
  <2>3. /\ asks \in Seq(Int) /\ Len(asks) = Len(Covering(bestAsk, id))
        /\ \A i \in Nat : PriceAt(asks, i) = IF i = id THEN ask ELSE PriceAt(bestAsk, i)
    BY <2>1, PriceReplaced
  <2> HIDE DEF asks
  <2> QED BY <2>2, <2>3 DEF ask
<1>11. Len(symbols'.names) <= Len(bestBid') /\ Len(symbols'.names) <= Len(bestAsk')
  <2>1. /\ Len(bestBid') >= Len(bestBid) /\ Len(bestBid') > id /\ Len(bestBid) \in Nat
        /\ Len(bestAsk') >= Len(bestAsk) /\ Len(bestAsk') > id /\ Len(bestAsk) \in Nat
    BY <1>2, <1>8, <1>9, <1>10, CoveringKeepsPrices
  <2>2. symbols.names \in Seq(Names) /\ Len(bestBid') \in Nat /\ Len(bestAsk') \in Nat
    BY <1>9, <1>10 DEF CacheType, Sound
  <2>3. Len(symbols'.names) = Len(symbols.names) \/ Len(symbols'.names) = id + 1
    BY <1>2, <2>2
  <2>4. Len(symbols.names) <= Len(bestBid) /\ Len(symbols.names) <= Len(bestAsk)
    BY DEF Lane
  <2>5. Len(symbols.names) \in Nat
    BY <2>2
  <2> QED BY <1>2, <2>1, <2>2, <2>3, <2>4, <2>5
<1>12. Lane'
  <2>1. ASSUME NEW i \in Nat
        PROVE  PriceAt(bestBid', i) = Best(BookFor(i)'.Bid).px /\ PriceAt(bestAsk', i) = Best(BookFor(i)'.Ask).px
    <3>1. PriceAt(bestBid, i) = Best(BookFor(i).Bid).px /\ PriceAt(bestAsk, i) = Best(BookFor(i).Ask).px
      BY DEF Lane
    <3> QED BY <1>6, <1>9, <1>10, <3>1
  <2> QED BY <1>11, <2>1 DEF Lane
<1> QED BY <1>2, <1>3, <1>6, <1>9, <1>10, <1>12 DEF book

\* What is left of a queue that gives up its oldest event.
LEMMA EvictedIsSeq ==
    ASSUME NEW q \in Seq(Events), Len(q) >= 2
    PROVE  /\ Evicted(q) \in Seq(Events) /\ Len(Evicted(q)) = Len(q) - 1
           /\ \A j \in 1 .. Len(q) - 1 :
                Evicted(q)[j] =
                    IF j = 1 THEN [q[2] EXCEPT !.gap = @ \cup q[1].gap \cup {q[1].msg.side}] ELSE q[j + 1]
<1> DEFINE rest == Tail(q)
           wider == [rest[1] EXCEPT !.gap = @ \cup Head(q).gap \cup {Head(q).msg.side}]
<1>1. /\ rest \in Seq(Events) /\ Len(rest) = Len(q) - 1 /\ q # <<>>
      /\ \A j \in 1 .. Len(rest) : rest[j] = q[j + 1]
  BY HeadTailProperties
<1>2. Head(q) = q[1] /\ q[1] \in Events /\ q[2] \in Events /\ 1 \in 1 .. Len(rest) /\ rest[1] = q[2]
  BY <1>1, ElementOfSeq
<1>3. wider \in Events
  BY <1>2 DEF Events, Changes
<1>4. Evicted(q) = [rest EXCEPT ![1] = wider]
  BY DEF Evicted
<1> HIDE DEF rest
<1>5. wider = [q[2] EXCEPT !.gap = @ \cup q[1].gap \cup {q[1].msg.side}]
  BY <1>2
<1> HIDE DEF wider
<1>6. /\ [rest EXCEPT ![1] = wider] \in Seq(Events) /\ Len([rest EXCEPT ![1] = wider]) = Len(rest)
      /\ \A j \in 1 .. Len(rest) : [rest EXCEPT ![1] = wider][j] = IF j = 1 THEN wider ELSE rest[j]
  BY <1>1, <1>2, <1>3, ExceptSeq
<1> QED BY <1>1, <1>4, <1>5, <1>6

\* What it does to the queues.
LEMMA FanOutTypes ==
    ASSUME CacheType, NEW event, event.symbol \in Nat, event.msg \in Changes,
           event.top \in [bid : Offer, ask : Offer], FanOut(event)
    PROVE  /\ queue' \in [Subscribers -> Seq(Events)]
           /\ \A s \in Subscribers : Len(queue'[s]) <= QueueSize
           /\ gap' \in [Subscribers -> SUBSET Sides]
           /\ lost' \in [Subscribers -> [Losses -> Nat]]
           /\ credit' \in [Subscribers -> 0 .. MaxCredit]
<1> USE DEF CacheType
<1>1. event.msg.side \in Sides
  BY DEF Changes
<1>2. ASSUME NEW s \in Subscribers
      PROVE  /\ queue'[s] \in Seq(Events) /\ Len(queue'[s]) <= QueueSize
             /\ gap'[s] \in SUBSET Sides
             /\ lost'[s] \in [Losses -> Nat]
             /\ credit'[s] \in 0 .. MaxCredit
  <2>1. /\ queue[s] \in Seq(Events) /\ Len(queue[s]) \in Nat /\ Len(queue[s]) <= QueueSize
        /\ gap[s] \in SUBSET Sides /\ lost[s] \in [Losses -> Nat] /\ credit[s] \in 0 .. MaxCredit
    OBVIOUS
  <2> DEFINE last == WithGap(event, gap[s])
  <2>2. last \in Events
    BY <2>1 DEF WithGap, Events
  <2>3. Pushed(s) \in {"queued"} \cup Losses
    BY DEF Pushed, Losses
  <2>4. gap'[s] \in SUBSET Sides
    BY <1>1, <2>1 DEF FanOut
  <2>5. lost'[s] \in [Losses -> Nat]
    <3>1. lost'[s] = IF Pushed(s) = "queued" THEN lost[s] ELSE [lost[s] EXCEPT ![Pushed(s)] = @ + 1]
      BY DEF FanOut
    <3>2. CASE Pushed(s) = "queued"
      BY <2>1, <3>1, <3>2
    <3>3. CASE Pushed(s) \in Losses
      <4>1. lost[s][Pushed(s)] + 1 \in Nat
        BY <2>1, <3>3
      <4>2. Pushed(s) # "queued"
        BY <3>3 DEF Losses
      <4> QED BY <2>1, <3>1, <4>1, <4>2
    <3> QED BY <2>3, <3>2, <3>3
  <2>6. credit'[s] \in 0 .. MaxCredit
    <3>1. credit'[s] = IF policy = "Credit" /\ Pushed(s) = "queued" THEN credit[s] - 1 ELSE credit[s]
      BY DEF FanOut
    <3>2. policy = "Credit" /\ Pushed(s) = "queued" => credit[s] # 0
      BY DEF Pushed
    <3> QED BY <2>1, <3>1, <3>2, CacheAssumption
  <2>7. queue'[s] = CASE Pushed(s) = "queued"  -> Append(queue[s], last)
                      [] Pushed(s) = "evicted" -> Append(Evicted(queue[s]), last)
                      [] OTHER                 -> queue[s]
    BY DEF FanOut
  <2> HIDE DEF last
  <2>8. CASE Pushed(s) = "queued"
    <3>1. Len(queue[s]) < QueueSize
      BY <2>8 DEF Pushed
    <3>2. queue'[s] = Append(queue[s], last)
      BY <2>7, <2>8
    <3> QED BY SMTT(60), <2>1, <2>2, <2>4, <2>5, <2>6, <3>1, <3>2, CacheAssumption
  <2>9. CASE Pushed(s) = "evicted"
    <3>1. ~(Len(queue[s]) < QueueSize)
      BY <2>9 DEF Pushed
    <3>2. queue'[s] = Append(Evicted(queue[s]), last)
      BY <2>7, <2>9
    <3>3. Len(queue[s]) = QueueSize /\ Len(queue[s]) >= 2
      <4>1. QueueSize \in Nat /\ QueueSize # 0 /\ QueueSize # 1
        BY CacheAssumption
      <4> QED BY <2>1, <3>1, <4>1
    <3>4. Evicted(queue[s]) \in Seq(Events) /\ Len(Evicted(queue[s])) = Len(queue[s]) - 1
      BY <2>1, <3>3, EvictedIsSeq
    <3> QED BY <2>1, <2>2, <2>4, <2>5, <2>6, <3>2, <3>3, <3>4, CacheAssumption
  <2>10. CASE Pushed(s) \notin {"queued", "evicted"}
    BY <2>1, <2>4, <2>5, <2>6, <2>7, <2>10
  <2> QED BY <2>8, <2>9, <2>10
<1>3. /\ DOMAIN queue' = Subscribers /\ DOMAIN gap' = Subscribers
      /\ DOMAIN lost' = Subscribers /\ DOMAIN credit' = Subscribers
  BY DEF FanOut
<1>4. queue' = [s \in Subscribers |-> queue'[s]] /\ gap' = [s \in Subscribers |-> gap'[s]]
      /\ lost' = [s \in Subscribers |-> lost'[s]] /\ credit' = [s \in Subscribers |-> credit'[s]]
  BY DEF FanOut
<1> QED BY <1>2, <1>4

--------------------------------------------------------------------------------
(* The steps.                                                              *)

\* The publisher's counts after a record that changed nothing, and after one
\* that did.
LEMMA CountsOfIdle ==
    ASSUME stats \in StatsType
    PROVE  /\ [stats EXCEPT !.published = @ + 1, !.ignored = @ + 1] \in StatsType
           /\ [stats EXCEPT !.published = @ + 1, !.unknown = @ + 1] \in StatsType
           /\ [stats EXCEPT !.published = @ + 1, !.wrongSide = @ + 1] \in StatsType
<1> DEFINE next == [stats EXCEPT !.published = @ + 1]
<1>1. next \in StatsType
  BY DEF StatsType
<1>2. /\ [stats EXCEPT !.published = @ + 1, !.ignored = @ + 1] = [next EXCEPT !.ignored = @ + 1]
      /\ [stats EXCEPT !.published = @ + 1, !.unknown = @ + 1] = [next EXCEPT !.unknown = @ + 1]
      /\ [stats EXCEPT !.published = @ + 1, !.wrongSide = @ + 1] = [next EXCEPT !.wrongSide = @ + 1]
  OBVIOUS
<1> HIDE DEF next
<1>3. /\ [next EXCEPT !.ignored = @ + 1] \in StatsType
      /\ [next EXCEPT !.unknown = @ + 1] \in StatsType
      /\ [next EXCEPT !.wrongSide = @ + 1] \in StatsType
  BY <1>1 DEF StatsType
<1> QED BY <1>2, <1>3

CountsWith(overflow, crossed, evicted, dropped, refused) ==
    [stats EXCEPT !.published = @ + 1, !.applied = @ + 1, !.overflow = @ + overflow,
                  !.crossed = @ + crossed, !.evicted = @ + evicted, !.dropped = @ + dropped,
                  !.refused = @ + refused]

ChangeCounted(after, evicted, dropped, refused) ==
    /\ after.published = stats.published + 1 /\ after.applied = stats.applied + 1
    /\ after.ignored = stats.ignored /\ after.unknown = stats.unknown
    /\ after.wrongSide = stats.wrongSide /\ after.evicted = stats.evicted + evicted
    /\ after.dropped = stats.dropped + dropped /\ after.refused = stats.refused + refused

LEMMA CountsOfChange ==
    ASSUME stats \in StatsType, NEW overflow \in Nat, NEW crossed \in Nat,
           NEW evicted \in Nat, NEW dropped \in Nat, NEW refused \in Nat
    PROVE  /\ CountsWith(overflow, crossed, evicted, dropped, refused) \in StatsType
           /\ ChangeCounted(CountsWith(overflow, crossed, evicted, dropped, refused),
                            evicted, dropped, refused)
<1> DEFINE after == CountsWith(overflow, crossed, evicted, dropped, refused)
           s1 == [stats EXCEPT !.published = @ + 1]
           s2 == [s1 EXCEPT !.applied = @ + 1]
           s3 == [s2 EXCEPT !.overflow = @ + overflow]
           s4 == [s3 EXCEPT !.crossed = @ + crossed]
           s5 == [s4 EXCEPT !.evicted = @ + evicted]
           s6 == [s5 EXCEPT !.dropped = @ + dropped]
           s7 == [s6 EXCEPT !.refused = @ + refused]
<1>1. after = s7
  BY DEF CountsWith
<1>2. s1 \in StatsType
  BY DEF StatsType
<1> HIDE DEF s1
<1>3. s2 \in StatsType
  BY <1>2 DEF StatsType
<1> HIDE DEF s2
<1>4. s3 \in StatsType
  BY <1>3 DEF StatsType
<1> HIDE DEF s3
<1>5. s4 \in StatsType
  BY <1>4 DEF StatsType
<1> HIDE DEF s4
<1>6. s5 \in StatsType
  BY <1>5 DEF StatsType
<1> HIDE DEF s5
<1>7. s6 \in StatsType
  BY <1>6 DEF StatsType
<1> HIDE DEF s6
<1>8. s7 \in StatsType
  BY <1>7 DEF StatsType
<1> HIDE DEF s7
<1>9. /\ after.published = stats.published + 1 /\ after.applied = stats.applied + 1
      /\ after.ignored = stats.ignored /\ after.unknown = stats.unknown
      /\ after.wrongSide = stats.wrongSide /\ after.evicted = stats.evicted + evicted
      /\ after.dropped = stats.dropped + dropped /\ after.refused = stats.refused + refused
  BY DEF StatsType, CountsWith
<1> QED BY <1>1, <1>8, <1>9 DEF ChangeCounted

LEMMA CountPushedIsNat ==
    ASSUME NEW outcome
    PROVE  CountPushed(outcome) \in Nat /\ IsFiniteSet({s \in Subscribers : Pushed(s) = outcome})
<1>1. IsFiniteSet(Subscribers)
  BY CacheAssumption
<1>2. {s \in Subscribers : Pushed(s) = outcome} \in SUBSET Subscribers
  OBVIOUS
<1>3. IsFiniteSet({s \in Subscribers : Pushed(s) = outcome})
  BY <1>1, <1>2, FS_Subset
<1> QED BY <1>3, FS_CardinalityType DEF CountPushed

\* The event a record that changes a book becomes.
EventOf(m) == [symbol |-> IdFor(m), msg |-> m, top |-> TopOf(AppliedTo(IdFor(m), m).book)]

LEMMA EventOfChange ==
    ASSUME CacheType, Lane, NEW m \in Messages, PublishChange(m)
    PROVE  LET event == EventOf(m)
           IN  /\ event.symbol \in Nat /\ event.msg \in Changes
               /\ event.top \in [bid : Offer, ask : Offer] /\ event.msg = m
<1> DEFINE id == IdFor(m)
           applied == AppliedTo(id, m)
<1>1. /\ id >= 0 /\ KeepBook(m, id, applied.book) /\ m.kind \in BookKinds
      /\ applied.outcome \in {"Reset", "Changed", "Overflow"}
  BY DEF PublishChange
<1>2. EventOf(m) = [symbol |-> id, msg |-> m, top |-> TopOf(applied.book)]
  BY DEF EventOf
<1> HIDE DEF id
<1>3. id \in Nat /\ applied = Apply(BookFor(id), m)
  BY <1>1, KeepBookTables DEF id
<1>4. BookFor(id) \in BookType
  BY <1>3, BookForIsBook
<1>5. m \in Changes
  BY <1>1, <1>3, <1>4, OutcomeOfApply DEF Changes
<1>6. applied.book \in BookType
  BY <1>3, <1>4, ApplyIsBook
<1> HIDE DEF applied
<1>7. TopOf(applied.book) \in [bid : Offer, ask : Offer]
  <2>1. applied.book.Bid \in Levels /\ applied.book.Ask \in Levels
    BY <1>6 DEF BookType
  <2> QED BY <2>1, BestOfLevels DEF TopOf, Offer
<1> QED BY <1>2, <1>3, <1>5, <1>7

LEMMA StatsOfChange ==
    ASSUME CacheType, NEW m, PublishChange(m)
    PROVE  /\ stats' \in StatsType
           /\ stats'.published = stats.published + 1 /\ stats'.applied = stats.applied + 1
           /\ stats'.ignored = stats.ignored /\ stats'.unknown = stats.unknown
           /\ stats'.wrongSide = stats.wrongSide
           /\ stats'.evicted = stats.evicted + CountPushed("evicted")
           /\ stats'.dropped = stats.dropped + CountPushed("dropped")
           /\ stats'.refused = stats.refused + CountPushed("refused")
<1> DEFINE applied == AppliedTo(IdFor(m), m)
           overflow == IF applied.outcome = "Overflow" THEN 1 ELSE 0
           crossed == IF Crossed(applied.book) THEN 1 ELSE 0
<1>1. /\ CountPushed("evicted") \in Nat /\ CountPushed("dropped") \in Nat
      /\ CountPushed("refused") \in Nat
  BY CountPushedIsNat
<1>2. overflow \in Nat /\ crossed \in Nat /\ stats \in StatsType
  BY DEF CacheType
<1>3. stats' = CountsWith(overflow, crossed, CountPushed("evicted"), CountPushed("dropped"),
                          CountPushed("refused"))
  BY DEF PublishChange, CountsWith
<1> DEFINE evicted == CountPushed("evicted")
           dropped == CountPushed("dropped")
           refused == CountPushed("refused")
<1> HIDE DEF overflow, crossed, evicted, dropped, refused
<1>4. evicted \in Nat /\ dropped \in Nat /\ refused \in Nat
  BY <1>1 DEF evicted, dropped, refused
<1>5. stats' = CountsWith(overflow, crossed, evicted, dropped, refused)
  BY <1>3 DEF evicted, dropped, refused
<1>6. stats' \in StatsType /\ ChangeCounted(stats', evicted, dropped, refused)
  BY <1>2, <1>4, <1>5, CountsOfChange
<1> QED BY <1>6 DEF ChangeCounted, evicted, dropped, refused

LEMMA InitTables == Init => CacheType /\ Lane
<1> SUFFICES ASSUME Init PROVE CacheType /\ Lane
  OBVIOUS
<1>1. Sound(symbols) /\ symbols.names = <<>>
  BY NewTableIsSound DEF Init
<1>2. shards \in [0 .. Shards - 1 -> Seq(BookType)] /\ \A n \in 0 .. Shards - 1 : shards[n] = <<>>
  BY DEF Init
<1>3. bestBid \in Seq(Int) /\ bestAsk \in Seq(Int) /\ bestAsk = bestBid
      /\ \A i \in 1 .. Len(bestBid) : bestBid[i] = 0
  <2> DEFINE n == Max({InitialSymbols, 1})
             lane == [i \in 1 .. n |-> 0]
  <2>1. n \in Nat
    <3>1. InitialSymbols \in Int /\ 1 \in Int
      BY SymbolsAssumption
    <3>2. n \in {InitialSymbols, 1} /\ n >= 1
      BY <3>1, MaxOfTwo
    <3> QED BY <3>2, SymbolsAssumption
  <2>2. bestBid = lane /\ bestAsk = bestBid
    BY DEF Init
  <2> HIDE DEF n
  <2>3. lane \in [1 .. n -> Int] /\ \A i \in 1 .. n : lane[i] = 0
    OBVIOUS
  <2> HIDE DEF lane
  <2>4. lane \in Seq(Int) /\ Len(lane) = n
    BY <2>1, <2>3, SeqOfFunction
  <2> QED BY <2>2, <2>3, <2>4
<1>4. stats \in StatsType
  BY DEF Init, StatsType
<1>5. queue \in [Subscribers -> Seq(Events)] /\ \A s \in Subscribers : Len(queue[s]) <= QueueSize
  <2>1. <<>> \in Seq(Events) /\ Len(<<>>) = 0 /\ QueueSize >= 0
    BY CacheAssumption
  <2> QED BY <2>1 DEF Init
<1>6. credit \in [Subscribers -> 0 .. MaxCredit] /\ delivered \in [Subscribers -> Nat]
      /\ lost \in [Subscribers -> [Losses -> Nat]]
      /\ missed \in [Subscribers -> SUBSET Sides] /\ gap \in [Subscribers -> SUBSET Sides]
  BY CacheAssumption DEF Init
<1>7. replica \in [Subscribers -> BookType]
  BY EmptyIsBook DEF Init
<1>8. CacheType
  BY <1>1, <1>2, <1>3, <1>4, <1>5, <1>6, <1>7 DEF CacheType, Init
<1>9. Len(symbols.names) <= Len(bestBid) /\ Len(symbols.names) <= Len(bestAsk)
  BY <1>1, <1>3
<1>10. ASSUME NEW id \in Nat
       PROVE  /\ PriceAt(bestBid, id) = Best(BookFor(id).Bid).px
              /\ PriceAt(bestAsk, id) = Best(BookFor(id).Ask).px
  <2>1. shards[ShardOf(id)] = <<>> /\ SlotOf(id) \in Nat
    BY <1>2, PlaceOfId
  <2>2. BookFor(id) = EmptyBook
    BY <2>1 DEF BookFor, BookAt
  <2>3. Best(BookFor(id).Bid).px = 0 /\ Best(BookFor(id).Ask).px = 0
    BY <2>2 DEF EmptyBook, Best, NoLevel
  <2>4. PriceAt(bestBid, id) = 0
    BY <1>3 DEF PriceAt
  <2> QED BY <1>3, <2>3, <2>4
<1> QED BY <1>8, <1>9, <1>10 DEF Lane

\* A step that leaves the tables, the shards and the lane leaves Lane.
LEMMA LaneUntouched ==
    ASSUME Lane, UNCHANGED <<symbols, shards, bestBid, bestAsk>>
    PROVE  Lane'
BY DEF Lane, BookFor

LEMMA PublishTables ==
    ASSUME CacheType, Lane, Publish
    PROVE  (CacheType /\ Lane)'
<1>1. PICK r \in Records :
        LET m == Numbered(r, stats.published + 1)
        IN  PublishIgnored(m) \/ PublishUnknown(m) \/ PublishWrongSide(m) \/ PublishChange(m)
  BY DEF Publish
<1> DEFINE m == Numbered(r, stats.published + 1)
<1>2. m \in Messages
  <2>1. stats.published + 1 \in Nat
    BY DEF CacheType, StatsType
  <2> QED BY <2>1, NumberedIsMessage
<1> HIDE DEF m
<1>3. CASE PublishIgnored(m)
  <2>1. stats' \in StatsType
    BY <1>3, CountsOfIdle DEF PublishIgnored, CacheType
  <2> QED BY <1>3, <2>1, LaneUntouched DEF PublishIgnored, CacheType
<1>4. CASE PublishUnknown(m)
  <2>1. stats' \in StatsType
    BY <1>4, CountsOfIdle DEF PublishUnknown, CacheType
  <2> QED BY <1>4, <2>1, LaneUntouched DEF PublishUnknown, CacheType
<1>5. CASE PublishWrongSide(m)
  <2>1. stats' \in StatsType
    BY <1>5, CountsOfIdle DEF PublishWrongSide, CacheType
  <2>2. IdFor(m) >= 0 /\ KeepBook(m, IdFor(m), AppliedTo(IdFor(m), m).book)
    BY <1>5 DEF PublishWrongSide
  <2>3. /\ Sound(symbols)' /\ Lane' /\ shards' \in [0 .. Shards - 1 -> Seq(BookType)]
        /\ bestBid' \in Seq(Int) /\ bestAsk' \in Seq(Int)
    BY <1>2, <2>2, KeepBookTables
  <2> QED BY <1>5, <2>1, <2>3 DEF PublishWrongSide, CacheType
<1>6. CASE PublishChange(m)
  <2> DEFINE id == IdFor(m)
             event == EventOf(m)
  <2>1. KeepBook(m, id, AppliedTo(id, m).book) /\ FanOut(event) /\ id >= 0
        /\ UNCHANGED <<policy, delivered, replica, missed>>
    BY <1>6 DEF PublishChange, EventOf
  <2>2. stats' \in StatsType
    BY <1>6, StatsOfChange
  <2>3. /\ Sound(symbols)' /\ Lane' /\ shards' \in [0 .. Shards - 1 -> Seq(BookType)]
        /\ bestBid' \in Seq(Int) /\ bestAsk' \in Seq(Int)
    BY <1>2, <2>1, KeepBookTables
  <2>4. event.symbol \in Nat /\ event.msg \in Changes /\ event.top \in [bid : Offer, ask : Offer]
    BY <1>2, <1>6, EventOfChange
  <2> HIDE DEF event, id
  <2>5. /\ queue' \in [Subscribers -> Seq(Events)]
        /\ \A s \in Subscribers : Len(queue'[s]) <= QueueSize
        /\ gap' \in [Subscribers -> SUBSET Sides]
        /\ lost' \in [Subscribers -> [Losses -> Nat]]
        /\ credit' \in [Subscribers -> 0 .. MaxCredit]
    BY <2>1, <2>4, FanOutTypes
  <2> QED BY <2>1, <2>2, <2>3, <2>5 DEF CacheType
<1> QED BY <1>1, <1>3, <1>4, <1>5, <1>6 DEF m

LEMMA InternTables ==
    ASSUME CacheType, Lane, NEW name \in Registered, Intern(name)
    PROVE  (CacheType /\ Lane)'
<1> DEFINE n == Len(symbols.names)
<1>1. name \in Names /\ n \in Nat /\ bestBid \in Seq(Int) /\ bestAsk \in Seq(Int)
      /\ symbols.names \in Seq(Names)
  BY CacheAssumption DEF CacheType, Sound
<1>2. /\ Sound(symbols') 
      /\ symbols'.names = symbols.names \/ symbols'.names = Append(symbols.names, name)
  BY <1>1, InternedIsSound DEF CacheType, Intern
<1>3. Len(symbols'.names) <= n + 1
  BY <1>1, <1>2
<1>4. /\ bestBid' \in Seq(Int) /\ Len(bestBid') > n /\ \A i \in Nat : PriceAt(bestBid', i) = PriceAt(bestBid, i)
      /\ bestAsk' \in Seq(Int) /\ Len(bestAsk') > n /\ \A i \in Nat : PriceAt(bestAsk', i) = PriceAt(bestAsk, i)
  BY <1>1, CoveringKeepsPrices DEF Intern
<1>5. CacheType'
  BY <1>2, <1>4 DEF CacheType, Intern
<1>6. Len(symbols'.names) <= Len(bestBid') /\ Len(symbols'.names) <= Len(bestAsk')
  <2>1. Len(symbols'.names) \in Nat /\ Len(bestBid') \in Nat /\ Len(bestAsk') \in Nat
    BY <1>1, <1>2, <1>4
  <2>2. n \in Nat /\ Len(bestBid') > n /\ Len(bestAsk') > n
    BY <1>1, <1>4
  <2> HIDE DEF n
  <2> QED BY <1>3, <2>1, <2>2
<1>7. \A id \in Nat : BookFor(id)' = BookFor(id)
  BY DEF Intern, BookFor
<1> QED BY <1>4, <1>5, <1>6, <1>7 DEF Lane

\* An event that is taken off a queue.
LEMMA HeadOfQueue ==
    ASSUME CacheType, NEW s \in Subscribers, queue[s] # <<>>
    PROVE  /\ Head(queue[s]) \in Events /\ Head(queue[s]) = queue[s][1]
           /\ Tail(queue[s]) \in Seq(Events) /\ Len(Tail(queue[s])) = Len(queue[s]) - 1
           /\ \A j \in 1 .. Len(Tail(queue[s])) : Tail(queue[s])[j] = queue[s][j + 1]
<1>1. queue[s] \in Seq(Events)
  BY DEF CacheType
<1> QED BY <1>1, HeadTailProperties

LEMMA SubscriberTables ==
    ASSUME CacheType, Lane, NEW s \in Subscribers, Receive(s) \/ ApplyNext(s) \/ Grant(s)
    PROVE  (CacheType /\ Lane)'
<1>1. ASSUME queue[s] # <<>>, queue' = [queue EXCEPT ![s] = Tail(@)],
             missed' = [missed EXCEPT ![s] = MissedWith(s, Head(queue[s]))],
             delivered' = [delivered EXCEPT ![s] = @ + 1]
      PROVE  /\ queue' \in [Subscribers -> Seq(Events)]
             /\ \A t \in Subscribers : Len(queue'[t]) <= QueueSize
             /\ missed' \in [Subscribers -> SUBSET Sides]
             /\ delivered' \in [Subscribers -> Nat]
  <2>1. /\ Tail(queue[s]) \in Seq(Events) /\ Len(Tail(queue[s])) = Len(queue[s]) - 1
        /\ Head(queue[s]) \in Events
    BY <1>1, HeadOfQueue
  <2>2. MissedWith(s, Head(queue[s])) \in SUBSET Sides
    BY <2>1 DEF MissedWith, Events, CacheType
  <2>3. queue' \in [Subscribers -> Seq(Events)]
    BY <1>1, <2>1 DEF CacheType
  <2>4. ASSUME NEW t \in Subscribers PROVE Len(queue'[t]) <= QueueSize
    <3>1. Len(queue[t]) \in Nat /\ Len(queue[t]) <= QueueSize /\ QueueSize \in Nat
      BY CacheAssumption DEF CacheType
    <3>2. CASE t = s
      <4>1. queue'[t] = Tail(queue[s])
        BY <1>1, <3>2 DEF CacheType
      <4> QED BY <2>1, <3>1, <3>2, <4>1
    <3>3. CASE t # s
      <4>1. queue'[t] = queue[t]
        BY <1>1, <3>3 DEF CacheType
      <4> QED BY <3>1, <4>1
    <3> QED BY <3>2, <3>3
  <2>5. missed' \in [Subscribers -> SUBSET Sides]
    BY <1>1, <2>2 DEF CacheType
  <2>6. delivered' \in [Subscribers -> Nat]
    BY <1>1 DEF CacheType
  <2> QED BY <2>3, <2>4, <2>5, <2>6
<1>2. CASE Receive(s)
  <2>1. CacheType'
    BY <1>1, <1>2 DEF Receive, CacheType
  <2> QED BY <1>2, <2>1, LaneUntouched DEF Receive
<1>3. CASE ApplyNext(s)
  <2>1. Head(queue[s]) \in Events
    BY <1>3, HeadOfQueue DEF ApplyNext
  <2>2. Head(queue[s]).msg \in Messages /\ replica[s] \in BookType
    BY <2>1 DEF Events, Changes, CacheType
  <2>3. Kept(s, Head(queue[s]).msg) \in BookType
    BY <2>2, ApplyIsBook DEF Kept
  <2>4. replica' \in [Subscribers -> BookType]
    BY <1>3, <2>3 DEF ApplyNext, CacheType
  <2>5. CacheType'
    BY <1>1, <1>3, <2>4 DEF ApplyNext, CacheType
  <2> QED BY <1>3, <2>5, LaneUntouched DEF ApplyNext
<1>4. CASE Grant(s)
  <2>1. credit' \in [Subscribers -> 0 .. MaxCredit]
    <3>1. credit[s] \in 0 .. MaxCredit /\ GrantSize \in Nat /\ credit[s] + GrantSize <= MaxCredit
      BY <1>4, CacheAssumption DEF CacheType, Grant
    <3>2. credit[s] + GrantSize \in 0 .. MaxCredit
      BY <3>1, CacheAssumption
    <3> QED BY <1>4, <3>2 DEF CacheType, Grant
  <2>2. CacheType'
    BY <1>4, <2>1 DEF Grant, CacheType
  <2> QED BY <1>4, <2>2, LaneUntouched DEF Grant
<1> QED BY <1>2, <1>3, <1>4

LEMMA NextTables ==
    ASSUME CacheType, Lane, [Next]_vars
    PROVE  (CacheType /\ Lane)'
<1>1. CASE UNCHANGED vars
  <2>1. CacheType'
    BY <1>1 DEF vars, CacheType
  <2> QED BY <1>1, <2>1, LaneUntouched DEF vars
<1>2. CASE Next
  BY <1>2, PublishTables, InternTables, SubscriberTables DEF Next
<1> QED BY <1>1, <1>2

LEMMA TypesAreOK == ASSUME CacheType PROVE TypeOK
<1>1. policy \in PolicyChoices /\ Len(symbols.names) <= symbols.capacity
  BY DEF CacheType, Sound
<1>2. ASSUME NEW n \in 0 .. Shards - 1, NEW i \in 1 .. Len(shards[n]), NEW side \in Sides
      PROVE  Len(shards[n][i][side]) <= Depth
  <2>1. shards[n] \in Seq(BookType)
    BY DEF CacheType
  <2>2. shards[n][i] \in BookType
    BY <2>1, ElementOfSeq
  <2>3. shards[n][i][side] \in Levels
    BY <2>2 DEF BookType, Sides
  <2> QED BY <2>3 DEF Levels
<1>3. ASSUME NEW s \in Subscribers, NEW side \in Sides PROVE Len(replica[s][side]) <= Depth
  <2>1. replica[s] \in BookType
    BY DEF CacheType
  <2>2. replica[s][side] \in Levels
    BY <2>1 DEF BookType, Sides
  <2> QED BY <2>2 DEF Levels
<1>4. ASSUME NEW s \in Subscribers
      PROVE  /\ Len(queue[s]) <= QueueSize /\ credit[s] \in 0 .. MaxCredit
             /\ missed[s] \subseteq Sides /\ gap[s] \subseteq Sides
  BY DEF CacheType
<1> QED BY <1>1, <1>2, <1>3, <1>4 DEF TypeOK

LEMMA LookupOfCache == ASSUME CacheType PROVE LookupIsExact
<1>1. Sound(symbols) /\ symbols.names \in Seq(Names)
  BY DEF CacheType, Sound
<1>2. 2 * Len(symbols.names) <= Cardinality(DOMAIN symbols.index)
  <2>1. /\ Len(symbols.names) <= symbols.capacity /\ symbols.capacity \in Nat
        /\ Cardinality(DOMAIN symbols.index) >= 2 * symbols.capacity
        /\ Cardinality(DOMAIN symbols.index) \in Nat /\ Len(symbols.names) \in Nat
    BY <1>1 DEF Sound, Placed
  <2> QED BY <2>1
<1>3. ASSUME NEW name \in Names, NEW id, id = Lookup(symbols, name)
      PROVE  IF id = 0 THEN ~Contains(symbols.names, name) ELSE symbols.names[id] = name
  <2>1. /\ id \in 0 .. Len(symbols.names)
        /\ \A i \in 1 .. Len(symbols.names) : symbols.names[i] = name => id = i
        /\ (\A i \in 1 .. Len(symbols.names) : symbols.names[i] # name) => id = 0
    BY <1>1, <1>3, LookupOfSound
  <2>2. CASE id = 0
    <3>1. \A i \in 1 .. Len(symbols.names) : symbols.names[i] # name
      BY <2>1, <2>2
    <3> QED BY <2>2, <3>1 DEF Contains
  <2>3. CASE id # 0
    <3>1. PICK i \in 1 .. Len(symbols.names) : symbols.names[i] = name
      BY <2>1, <2>3
    <3> QED BY <2>1, <2>3, <3>1
  <2> QED BY <2>2, <2>3
<1> QED BY <1>2, <1>3 DEF LookupIsExact

LEMMA LaneOfCache == ASSUME CacheType, Lane PROVE LaneIsTheBooks
<1>1. /\ Len(symbols.names) <= Len(bestBid) /\ Len(symbols.names) <= Len(bestAsk)
      /\ Len(symbols.names) \in Nat /\ Len(bestBid) \in Nat /\ Len(bestAsk) \in Nat
  BY DEF Lane, CacheType, Sound
<1>2. ASSUME NEW id \in Ids
      PROVE  LaneMid(id) = IF HasBook(id) /\ Priced(BookOf(id)) THEN BookMid(BookOf(id)) ELSE 0
  <2>1. id \in Nat /\ id < Len(bestBid) /\ id < Len(bestAsk)
    BY <1>1 DEF Ids
  <2>2. bestBid[id + 1] = Best(BookFor(id).Bid).px /\ bestAsk[id + 1] = Best(BookFor(id).Ask).px
    BY <2>1 DEF Lane, PriceAt
  <2>3. BookFor(id) \in BookType
    BY <2>1, BookForIsBook
  <2>4. /\ Best(BookFor(id).Bid).px # 0 <=> BookFor(id).Bid # <<>>
        /\ Best(BookFor(id).Ask).px # 0 <=> BookFor(id).Ask # <<>>
    <3>1. BookFor(id).Bid \in Levels /\ BookFor(id).Ask \in Levels
      BY <2>3 DEF BookType
    <3> QED BY <3>1, BestOfLevels
  <2>5. LaneMid(id) = IF Priced(BookFor(id)) THEN BookMid(BookFor(id)) ELSE 0
    BY <2>2, <2>4 DEF LaneMid, Priced, BookMid, Best
  <2>6. CASE HasBook(id)
    <3>1. BookOf(id) = BookFor(id)
      BY <2>6 DEF HasBook, BookOf, BookFor, BookAt
    <3> QED BY <2>5, <2>6, <3>1
  <2>7. CASE ~HasBook(id)
    <3>1. BookFor(id) = EmptyBook
      BY <2>7 DEF HasBook, BookFor, BookAt
    <3>2. ~Priced(BookFor(id))
      BY <3>1 DEF Priced, EmptyBook
    <3> QED BY <2>5, <2>7, <3>2
  <2> QED BY <2>6, <2>7
<1> QED BY <1>1, <1>2 DEF LaneIsTheBooks

\* Every variable keeps its type, whatever the feed sends and the queues lose; and
\* the lane has, for every symbol, the best prices of its book or zero.
THEOREM CacheTypeCorrect == Spec => [](CacheType /\ Lane)
<1>1. Init => CacheType /\ Lane
  BY InitTables
<1>2. (CacheType /\ Lane) /\ [Next]_vars => (CacheType /\ Lane)'
  BY NextTables
<1> QED BY <1>1, <1>2, PTL DEF Spec

\* A symbol is found under its id and under no other, through collisions and
\* growth; the lane a reader takes the prices from has those of the books; and
\* nothing outgrows the room it has.
THEOREM TablesStayExact == Spec => []TablesAreExact
<1>1. CacheType /\ Lane => TablesAreExact
  BY TypesAreOK, LookupOfCache, LaneOfCache DEF TablesAreExact
<1> QED BY <1>1, CacheTypeCorrect, PTL

--------------------------------------------------------------------------------
(* The counts.                                                             *)

Losing(l) == {s \in Subscribers : Pushed(s) = l}

CountsStand ==
    /\ EveryEventCounted
    /\ \A l \in Losses : IsFiniteSet(LossesBy(l))

\* A push adds one loss for every subscriber it is lost to.
LEMMA LossesGrow ==
    ASSUME NEW l \in Losses, lost \in [Subscribers -> [Losses -> Nat]], IsFiniteSet(LossesBy(l)),
           \A s \in Subscribers :
                lost'[s][l] = IF Pushed(s) = l THEN lost[s][l] + 1 ELSE lost[s][l]
    PROVE  /\ IsFiniteSet(LossesBy(l)') /\ SumLost(l)' = SumLost(l) + CountPushed(l)
           /\ SumLost(l) \in Nat /\ CountPushed(l) \in Nat
<1> DEFINE old == LossesBy(l)
           more == {<<s, lost[s][l] + 1>> : s \in Losing(l)}
           f == [s \in Losing(l) |-> <<s, lost[s][l] + 1>>]
<1>1. IsFiniteSet(Losing(l)) /\ CountPushed(l) = Cardinality(Losing(l)) /\ CountPushed(l) \in Nat
  BY CountPushedIsNat DEF Losing, CountPushed
<1>2. f \in Bijection(Losing(l), more)
  <2>1. f \in [Losing(l) -> more]
    OBVIOUS
  <2>2. ASSUME NEW a \in Losing(l), NEW b \in Losing(l), f[a] = f[b] PROVE a = b
    BY <2>2
  <2>3. ASSUME NEW p \in more PROVE \E a \in Losing(l) : f[a] = p
    OBVIOUS
  <2> HIDE DEF f, more
  <2>4. f \in Injection(Losing(l), more)
    BY <2>1, <2>2 DEF Injection, IsInjective
  <2>5. f \in Surjection(Losing(l), more)
    BY <2>1, <2>3 DEF Surjection
  <2> QED BY <2>4, <2>5 DEF Bijection
<1>3. IsFiniteSet(more) /\ Cardinality(more) = Cardinality(Losing(l))
  <2> HIDE DEF f, more
  <2>1. ExistsBijection(Losing(l), more)
    BY <1>2 DEF ExistsBijection
  <2> QED BY <1>1, <2>1, FS_Bijection
<1>4. \A p : p \in old <=> \E s \in Subscribers : \E n \in 1 .. lost[s][l] : p = <<s, n>>
  BY DEF LossesBy
<1>5. \A p : p \in LossesBy(l)' <=> \E s \in Subscribers : \E n \in 1 .. lost'[s][l] : p = <<s, n>>
  BY DEF LossesBy
<1> HIDE DEF old
<1>6. old \cap more = {}
  <2>1. ASSUME NEW p, p \in old, p \in more PROVE FALSE
    <3>1. PICK s \in Subscribers : \E n \in 1 .. lost[s][l] : p = <<s, n>>
      BY <1>4, <2>1
    <3>0. PICK n \in 1 .. lost[s][l] : p = <<s, n>>
      BY <3>1
    <3>2. PICK t \in Losing(l) : p = <<t, lost[t][l] + 1>>
      BY <2>1
    <3>3. s = t /\ n = lost[s][l] + 1
      BY <3>0, <3>2
    <3>4. lost[s][l] \in Nat
      OBVIOUS
    <3> QED BY <3>3, <3>4
  <2> QED BY <2>1
<1>7. LossesBy(l)' = old \cup more
  <2>1. ASSUME NEW p \in LossesBy(l)' PROVE p \in old \cup more
    <3>1. PICK s \in Subscribers : \E n \in 1 .. lost'[s][l] : p = <<s, n>>
      BY <1>5, <2>1
    <3>0. PICK n \in 1 .. lost'[s][l] : p = <<s, n>>
      BY <3>1
    <3>2. lost[s][l] \in Nat
      OBVIOUS
    <3>3. CASE n \in 1 .. lost[s][l]
      BY <1>4, <3>0, <3>3
    <3>4. CASE n \notin 1 .. lost[s][l]
      <4>1. Pushed(s) = l /\ n = lost[s][l] + 1
        BY SMTT(60), <3>0, <3>2, <3>4
      <4> QED BY <3>0, <4>1 DEF Losing
    <3> QED BY <3>3, <3>4
  <2>2. ASSUME NEW p \in old PROVE p \in LossesBy(l)'
    <3>1. PICK s \in Subscribers : \E n \in 1 .. lost[s][l] : p = <<s, n>>
      BY <1>4
    <3>0. PICK n \in 1 .. lost[s][l] : p = <<s, n>>
      BY <3>1
    <3>2. lost[s][l] \in Nat
      OBVIOUS
    <3>3. n \in 1 .. lost'[s][l]
      BY <3>2
    <3> QED BY <1>5, <3>0, <3>3
  <2>3. ASSUME NEW p \in more PROVE p \in LossesBy(l)'
    <3>1. PICK s \in Losing(l) : p = <<s, lost[s][l] + 1>>
      OBVIOUS
    <3>2. s \in Subscribers /\ Pushed(s) = l /\ lost[s][l] \in Nat
      BY DEF Losing
    <3>3. lost[s][l] + 1 \in 1 .. lost'[s][l]
      BY <3>2
    <3> QED BY <1>5, <3>1, <3>2, <3>3
  <2> HIDE DEF more
  <2> QED BY <2>1, <2>2, <2>3
<1> HIDE DEF more
<1>8. IsFiniteSet(old)
  BY DEF old
<1>9. IsFiniteSet(old \cup more) /\ Cardinality(old \cup more) = Cardinality(old) + Cardinality(more) - Cardinality({})
  BY <1>3, <1>6, <1>8, FS_Union
<1>10. Cardinality({}) = 0 /\ Cardinality(old) \in Nat /\ Cardinality(more) \in Nat
  BY <1>3, <1>8, FS_EmptySet, FS_CardinalityType
<1>11. SumLost(l) = Cardinality(old) /\ SumLost(l)' = Cardinality(old \cup more)
  BY <1>7 DEF SumLost, old
<1> QED BY <1>1, <1>3, <1>7, <1>9, <1>10, <1>11

LEMMA InitCounts == Init => CountsStand
<1> SUFFICES ASSUME Init PROVE CountsStand
  OBVIOUS
<1>1. ASSUME NEW l \in Losses PROVE LossesBy(l) = {}
  <2>1. \A s \in Subscribers : lost[s][l] = 0
    BY <1>1 DEF Init
  <2> QED BY <2>1 DEF LossesBy
<1>2. IsFiniteSet({}) /\ Cardinality({}) = 0
  BY FS_EmptySet
<1>3. SumLost("evicted") = 0 /\ SumLost("dropped") = 0 /\ SumLost("refused") = 0
  BY <1>1, <1>2 DEF SumLost, Losses
<1>4. /\ stats.published = 0 /\ stats.applied = 0 /\ stats.ignored = 0 /\ stats.unknown = 0
      /\ stats.wrongSide = 0 /\ stats.evicted = 0 /\ stats.dropped = 0 /\ stats.refused = 0
  BY DEF Init
<1>5. ASSUME NEW s \in Subscribers
      PROVE  delivered[s] + Len(queue[s]) + lost[s].evicted + lost[s].dropped + lost[s].refused = 0
  <2>1. queue[s] = <<>> /\ delivered[s] = 0 /\ lost[s] = [l \in Losses |-> 0]
    BY DEF Init
  <2>2. Len(queue[s]) = 0 /\ lost[s].evicted = 0 /\ lost[s].dropped = 0 /\ lost[s].refused = 0
    BY <2>1 DEF Losses
  <2> QED BY <2>1, <2>2
<1>6. EveryEventCounted
  BY <1>3, <1>4, <1>5 DEF EveryEventCounted
<1> QED BY <1>1, <1>2, <1>6 DEF CountsStand

\* A step that takes nothing from a queue and offers none anything.
LEMMA CountsUntouched ==
    ASSUME CacheType, CountsStand,
           UNCHANGED <<queue, lost, delivered>>,
           stats'.published - stats.published =
                (stats'.ignored - stats.ignored) + (stats'.unknown - stats.unknown)
                + (stats'.wrongSide - stats.wrongSide),
           stats' \in StatsType, stats'.applied = stats.applied,
           \A l \in Losses : stats'[l] = stats[l]
    PROVE  CountsStand'
<1>1. stats \in StatsType
  BY DEF CacheType
<1>2. (\A l \in Losses : IsFiniteSet(LossesBy(l)))' /\ \A l \in Losses : SumLost(l)' = SumLost(l)
  BY DEF CountsStand, LossesBy, SumLost
<1>3. \A s \in Subscribers : (stats'.applied = delivered'[s] + Len(queue'[s])
                        + lost'[s].evicted + lost'[s].dropped + lost'[s].refused)
  BY DEF CountsStand, EveryEventCounted
<1>4. stats'.published = stats'.applied + stats'.ignored + stats'.unknown + stats'.wrongSide
  <2>1. /\ stats.published \in Int /\ stats.applied \in Int /\ stats.ignored \in Int
        /\ stats.unknown \in Int /\ stats.wrongSide \in Int
    BY <1>1 DEF StatsType
  <2>2. /\ stats'.published \in Int /\ stats'.applied \in Int /\ stats'.ignored \in Int
        /\ stats'.unknown \in Int /\ stats'.wrongSide \in Int
    BY DEF StatsType
  <2>3. stats.published = stats.applied + stats.ignored + stats.unknown + stats.wrongSide
    BY DEF CountsStand, EveryEventCounted
  <2> QED BY <2>1, <2>2, <2>3
<1>5. /\ stats'.evicted = SumLost("evicted")' /\ stats'.dropped = SumLost("dropped")'
      /\ stats'.refused = SumLost("refused")'
  BY <1>2 DEF CountsStand, EveryEventCounted, Losses
<1> QED BY <1>2, <1>3, <1>4, <1>5 DEF CountsStand, EveryEventCounted

\* A push to a subscriber leaves one more event queued or one more counted lost.
LEMMA PushIsCounted ==
    ASSUME CacheType, NEW event, event.symbol \in Nat, event.msg \in Changes,
           event.top \in [bid : Offer, ask : Offer], FanOut(event), NEW s \in Subscribers
    PROVE  /\ Len(queue'[s]) = IF Pushed(s) = "queued" THEN Len(queue[s]) + 1 ELSE Len(queue[s])
           /\ \A l \in Losses :
                lost'[s][l] = IF Pushed(s) = l THEN lost[s][l] + 1 ELSE lost[s][l]
           /\ Pushed(s) \in {"queued"} \cup Losses
<1> DEFINE last == WithGap(event, gap[s])
<1>1. queue[s] \in Seq(Events) /\ Len(queue[s]) \in Nat /\ Len(queue[s]) <= QueueSize
      /\ gap[s] \in SUBSET Sides /\ lost[s] \in [Losses -> Nat]
  BY DEF CacheType
<1>2. last \in Events
  BY <1>1 DEF WithGap, Events
<1>3. Pushed(s) \in {"queued"} \cup Losses
  BY DEF Pushed, Losses
<1>4. queue'[s] = CASE Pushed(s) = "queued"  -> Append(queue[s], last)
                    [] Pushed(s) = "evicted" -> Append(Evicted(queue[s]), last)
                    [] OTHER                 -> queue[s]
  BY DEF FanOut
<1>5. lost'[s] = IF Pushed(s) = "queued" THEN lost[s] ELSE [lost[s] EXCEPT ![Pushed(s)] = @ + 1]
  BY DEF FanOut
<1> HIDE DEF last
<1>6. ASSUME NEW l \in Losses
      PROVE  lost'[s][l] = IF Pushed(s) = l THEN lost[s][l] + 1 ELSE lost[s][l]
  <2>1. l # "queued"
    BY DEF Losses
  <2> QED BY <1>1, <1>3, <1>5, <2>1
<1>7. CASE Pushed(s) = "queued"
  <2>1. queue'[s] = Append(queue[s], last)
    BY <1>4, <1>7
  <2> QED BY <1>1, <1>2, <1>3, <1>6, <1>7, <2>1
<1>8. CASE Pushed(s) = "evicted"
  <2>1. ~(Len(queue[s]) < QueueSize)
    BY <1>8 DEF Pushed
  <2>2. queue'[s] = Append(Evicted(queue[s]), last)
    BY <1>4, <1>8
  <2>3. Len(queue[s]) >= 2
    <3>1. QueueSize \in Nat /\ QueueSize # 0 /\ QueueSize # 1
      BY CacheAssumption
    <3> QED BY <1>1, <2>1, <3>1
  <2>4. Evicted(queue[s]) \in Seq(Events) /\ Len(Evicted(queue[s])) = Len(queue[s]) - 1
    BY <1>1, <2>3, EvictedIsSeq
  <2> QED BY <1>1, <1>2, <1>3, <1>6, <1>8, <2>2, <2>4
<1>9. CASE Pushed(s) \notin {"queued", "evicted"}
  BY <1>3, <1>4, <1>6, <1>9
<1> QED BY <1>7, <1>8, <1>9

LEMMA InternIsCounted ==
    ASSUME CacheType, CountsStand, UNCHANGED <<stats, queue, lost, delivered>>
    PROVE  CountsStand'
<1>1. stats \in StatsType
  BY DEF CacheType
<1> QED BY <1>1, CountsUntouched DEF StatsType

LEMMA ChangeIsCounted ==
    ASSUME CacheType, Lane, CountsStand, NEW m \in Messages, PublishChange(m)
    PROVE  CountsStand'
<1> DEFINE event == EventOf(m)
<1>1. FanOut(event) /\ UNCHANGED delivered
  BY DEF PublishChange, EventOf
<1>2. event.symbol \in Nat /\ event.msg \in Changes /\ event.top \in [bid : Offer, ask : Offer]
  BY EventOfChange
<1> HIDE DEF event
<1>3. /\ stats'.published = stats.published + 1 /\ stats'.applied = stats.applied + 1
      /\ stats'.ignored = stats.ignored /\ stats'.unknown = stats.unknown
      /\ stats'.wrongSide = stats.wrongSide
      /\ stats'.evicted = stats.evicted + CountPushed("evicted")
      /\ stats'.dropped = stats.dropped + CountPushed("dropped")
      /\ stats'.refused = stats.refused + CountPushed("refused")
  BY StatsOfChange
<1>4. ASSUME NEW l \in Losses
      PROVE  IsFiniteSet(LossesBy(l))' /\ SumLost(l)' = SumLost(l) + CountPushed(l)
  <2>1. lost \in [Subscribers -> [Losses -> Nat]] /\ IsFiniteSet(LossesBy(l))
    BY DEF CacheType, CountsStand
  <2>2. \A s \in Subscribers : lost'[s][l] = IF Pushed(s) = l THEN lost[s][l] + 1 ELSE lost[s][l]
    BY <1>1, <1>2, PushIsCounted
  <2> QED BY <2>1, <2>2, LossesGrow
<1>5. /\ stats'.evicted = SumLost("evicted")' /\ stats'.dropped = SumLost("dropped")'
      /\ stats'.refused = SumLost("refused")'
  BY <1>3, <1>4 DEF CountsStand, EveryEventCounted, Losses
<1>6. ASSUME NEW s \in Subscribers
      PROVE  stats'.applied = delivered'[s] + Len(queue'[s])
                              + lost'[s].evicted + lost'[s].dropped + lost'[s].refused
  <2>1. stats.applied = delivered[s] + Len(queue[s])
                        + lost[s].evicted + lost[s].dropped + lost[s].refused
    BY DEF CountsStand, EveryEventCounted
  <2>2. /\ delivered[s] \in Nat /\ Len(queue[s]) \in Nat
        /\ lost[s].evicted \in Nat /\ lost[s].dropped \in Nat /\ lost[s].refused \in Nat
    BY DEF CacheType, Losses
  <2>3. /\ Len(queue'[s]) = IF Pushed(s) = "queued" THEN Len(queue[s]) + 1 ELSE Len(queue[s])
        /\ \A l \in Losses : lost'[s][l] = IF Pushed(s) = l THEN lost[s][l] + 1 ELSE lost[s][l]
        /\ Pushed(s) \in {"queued"} \cup Losses
    BY <1>1, <1>2, PushIsCounted
  <2>4. /\ lost'[s].evicted = IF Pushed(s) = "evicted" THEN lost[s].evicted + 1 ELSE lost[s].evicted
        /\ lost'[s].dropped = IF Pushed(s) = "dropped" THEN lost[s].dropped + 1 ELSE lost[s].dropped
        /\ lost'[s].refused = IF Pushed(s) = "refused" THEN lost[s].refused + 1 ELSE lost[s].refused
    BY <2>3 DEF Losses
  <2>5. Pushed(s) \in {"queued", "evicted", "dropped", "refused"}
    BY <2>3 DEF Losses
  <2>6. delivered'[s] = delivered[s] /\ stats'.applied = stats.applied + 1
    BY <1>1, <1>3
  <2> DEFINE waiting == Len(queue'[s])
             evicted == lost'[s].evicted
             dropped == lost'[s].dropped
             refused == lost'[s].refused
  <2>7. \/ waiting = Len(queue[s]) + 1 /\ evicted = lost[s].evicted /\ dropped = lost[s].dropped
           /\ refused = lost[s].refused
        \/ waiting = Len(queue[s]) /\ evicted = lost[s].evicted + 1 /\ dropped = lost[s].dropped
           /\ refused = lost[s].refused
        \/ waiting = Len(queue[s]) /\ evicted = lost[s].evicted /\ dropped = lost[s].dropped + 1
           /\ refused = lost[s].refused
        \/ waiting = Len(queue[s]) /\ evicted = lost[s].evicted /\ dropped = lost[s].dropped
           /\ refused = lost[s].refused + 1
    BY <2>3, <2>4, <2>5
  <2> HIDE DEF waiting, evicted, dropped, refused
  <2>8. stats.applied + 1 = delivered[s] + waiting + evicted + dropped + refused
    <3> DEFINE a == stats.applied
               d == delivered[s]
               w == Len(queue[s])
               e == lost[s].evicted
               x == lost[s].dropped
               r == lost[s].refused
    <3>1. a = d + w + e + x + r /\ d \in Nat /\ w \in Nat /\ e \in Nat /\ x \in Nat /\ r \in Nat
      BY <2>1, <2>2
    <3>2. \/ waiting = w + 1 /\ evicted = e /\ dropped = x /\ refused = r
          \/ waiting = w /\ evicted = e + 1 /\ dropped = x /\ refused = r
          \/ waiting = w /\ evicted = e /\ dropped = x + 1 /\ refused = r
          \/ waiting = w /\ evicted = e /\ dropped = x /\ refused = r + 1
      BY <2>7
    <3> HIDE DEF a, d, w, e, x, r
    <3>3. a + 1 = d + waiting + evicted + dropped + refused
      BY <3>1, <3>2
    <3> QED BY <3>3 DEF a, d
  <2> QED BY <2>6, <2>8 DEF waiting, evicted, dropped, refused
<1>7. stats'.published = stats'.applied + stats'.ignored + stats'.unknown + stats'.wrongSide
  <2>1. stats \in StatsType
    BY DEF CacheType
  <2> QED BY <1>3, <2>1 DEF StatsType, CountsStand, EveryEventCounted
<1> QED BY <1>4, <1>5, <1>6, <1>7 DEF CountsStand, EveryEventCounted

LEMMA PublishIsCounted ==
    ASSUME CacheType, Lane, CountsStand, Publish
    PROVE  CountsStand'
<1>1. PICK r \in Records :
        LET m == Numbered(r, stats.published + 1)
        IN  PublishIgnored(m) \/ PublishUnknown(m) \/ PublishWrongSide(m) \/ PublishChange(m)
  BY DEF Publish
<1> DEFINE m == Numbered(r, stats.published + 1)
<1>2. m \in Messages
  <2>1. stats.published + 1 \in Nat
    BY DEF CacheType, StatsType
  <2> QED BY <2>1, NumberedIsMessage
<1> HIDE DEF m
<1>3. stats \in StatsType
  BY DEF CacheType
<1>4. CASE PublishIgnored(m) \/ PublishUnknown(m) \/ PublishWrongSide(m)
  <2>1. UNCHANGED <<queue, lost, delivered>>
    BY <1>4 DEF PublishIgnored, PublishUnknown, PublishWrongSide
  <2>2. stats' \in StatsType
    BY <1>3, <1>4, CountsOfIdle DEF PublishIgnored, PublishUnknown, PublishWrongSide
  <2>3. /\ stats'.published - stats.published =
                (stats'.ignored - stats.ignored) + (stats'.unknown - stats.unknown)
                + (stats'.wrongSide - stats.wrongSide)
        /\ stats'.applied = stats.applied /\ \A l \in Losses : stats'[l] = stats[l]
    <3>1. CASE PublishIgnored(m)
      BY <1>3, <3>1 DEF PublishIgnored, StatsType, Losses
    <3>2. CASE PublishUnknown(m)
      BY <1>3, <3>2 DEF PublishUnknown, StatsType, Losses
    <3>3. CASE PublishWrongSide(m)
      BY <1>3, <3>3 DEF PublishWrongSide, StatsType, Losses
    <3> QED BY <1>4, <3>1, <3>2, <3>3
  <2> QED BY <2>1, <2>2, <2>3, CountsUntouched
<1>5. CASE PublishChange(m)
  BY <1>2, <1>5, ChangeIsCounted
<1> QED BY <1>1, <1>4, <1>5 DEF m

LEMMA SubscriberIsCounted ==
    ASSUME CacheType, CountsStand, NEW s \in Subscribers, Receive(s) \/ ApplyNext(s)
    PROVE  CountsStand'
<1>1. /\ queue[s] # <<>> /\ queue' = [queue EXCEPT ![s] = Tail(@)]
      /\ delivered' = [delivered EXCEPT ![s] = @ + 1] /\ UNCHANGED <<stats, lost>>
  BY DEF Receive, ApplyNext
<1>2. (\A l \in Losses : IsFiniteSet(LossesBy(l)))' /\ \A l \in Losses : SumLost(l)' = SumLost(l)
  BY <1>1 DEF CountsStand, LossesBy, SumLost
<1>3. ASSUME NEW t \in Subscribers
      PROVE  delivered'[t] + Len(queue'[t]) = delivered[t] + Len(queue[t])
  <2>1. Len(Tail(queue[s])) = Len(queue[s]) - 1 /\ Len(queue[s]) \in Nat /\ delivered[s] \in Nat
    BY <1>1, HeadOfQueue DEF CacheType
  <2>2. CASE t = s
    <3>1. queue'[t] = Tail(queue[s]) /\ delivered'[t] = delivered[s] + 1
      BY <1>1, <2>2 DEF CacheType
    <3> QED BY <2>1, <2>2, <3>1
  <2>3. CASE t # s
    <3>1. queue'[t] = queue[t] /\ delivered'[t] = delivered[t]
      BY <1>1, <2>3 DEF CacheType
    <3> QED BY <3>1
  <2> QED BY <2>2, <2>3
<1>4. ASSUME NEW t \in Subscribers
      PROVE  stats'.applied = delivered'[t] + Len(queue'[t])
                              + lost'[t].evicted + lost'[t].dropped + lost'[t].refused
  BY <1>1, <1>3 DEF CountsStand, EveryEventCounted
<1> QED BY <1>1, <1>2, <1>4 DEF CountsStand, EveryEventCounted, Losses

\* Every record offered is counted under one outcome, every event is accounted
\* for at every subscriber, and the publisher's counts of what was lost are the
\* sums of the queues' own.
THEOREM EveryEventStaysCounted == Spec => []EveryEventCounted
<1>1. Init => CountsStand
  BY InitCounts
<1>2. ASSUME CacheType, Lane, CountsStand, [Next]_vars PROVE CountsStand'
  <2>1. CASE Publish
    BY <1>2, <2>1, PublishIsCounted
  <2>2. CASE \E name \in Registered : Intern(name)
    BY <1>2, <2>2, InternIsCounted DEF Intern
  <2>3. CASE \E s \in Subscribers : Receive(s) \/ ApplyNext(s)
    BY <1>2, <2>3, SubscriberIsCounted
  <2>4. CASE \E s \in Subscribers : Grant(s)
    BY <1>2, <2>4, InternIsCounted DEF Grant
  <2>5. CASE UNCHANGED vars
    BY <1>2, <2>5, InternIsCounted DEF vars
  <2> QED BY <1>2, <2>1, <2>2, <2>3, <2>4, <2>5 DEF Next
<1>3. CountsStand => EveryEventCounted
  BY DEF CountsStand
<1> QED BY <1>1, <1>2, <1>3, CacheTypeCorrect, PTL DEF Spec

--------------------------------------------------------------------------------
(* A subscriber's book, against the publisher's.                           *)

\* A side that is x before the j-th event of a queue is y after the last.
Follows(side, q, j, x, y) ==
    \E g \in [j .. Len(q) -> Levels] :
        /\ g[j] = x /\ g[Len(q)] = y
        /\ \A k \in j + 1 .. Len(q) : g[k] = SideAfter(side, g[k - 1], q[k].msg)

LEMMA FollowsNothing ==
    ASSUME NEW side, NEW q \in Seq(Events), NEW x \in Levels
    PROVE  Follows(side, q, Len(q), x, x)
<1> DEFINE n == Len(q)
           g == [k \in n .. n |-> x]
<1>1. n \in Nat
  OBVIOUS
<1> HIDE DEF n
<1>2. g \in [n .. n -> Levels] /\ g[n] = x /\ n + 1 .. n = {}
  BY <1>1
<1> HIDE DEF g
<1> QED BY <1>1, <1>2 DEF Follows, n

LEMMA NothingFollows ==
    ASSUME NEW side, NEW q \in Seq(Events), NEW x, NEW y, Follows(side, q, Len(q), x, y)
    PROVE  x = y
BY DEF Follows

LEMMA FollowsAppend ==
    ASSUME NEW side \in Sides, NEW q \in Seq(Events), NEW e \in Events, NEW j \in 0 .. Len(q),
           NEW x \in Levels, NEW y \in Levels, Follows(side, q, j, x, y)
    PROVE  Follows(side, Append(q, e), j, x, SideAfter(side, y, e.msg))
<1> DEFINE n == Len(q)
           last == SideAfter(side, y, e.msg)
           r == Append(q, e)
<1>1. /\ n \in Nat /\ j \in Nat /\ j <= n /\ Len(r) = n + 1 /\ r[n + 1] = e
      /\ \A k \in 1 .. n : r[k] = q[k]
  OBVIOUS
<1>2. last \in Levels
  BY SideAfterIsLevels DEF Events, Changes
<1>3. PICK g \in [j .. n -> Levels] :
        /\ g[j] = x /\ g[n] = y
        /\ \A k \in j + 1 .. n : g[k] = SideAfter(side, g[k - 1], q[k].msg)
  BY DEF Follows
<1> HIDE DEF n, r
<1> DEFINE h == [k \in j .. n + 1 |-> IF k <= n THEN g[k] ELSE last]
<1>4. h \in [j .. n + 1 -> Levels] /\ h[j] = x /\ h[n] = y /\ h[n + 1] = last
      /\ \A k \in j .. n : h[k] = g[k]
  <2> HIDE DEF last
  <2> QED BY <1>1, <1>2, <1>3
<1> HIDE DEF h
<1>5. ASSUME NEW k \in j + 1 .. n + 1 PROVE h[k] = SideAfter(side, h[k - 1], r[k].msg)
  <2>1. CASE k = n + 1
    <3>1. h[k - 1] = y /\ r[k] = e /\ h[k] = last
      BY <1>1, <1>4, <2>1
    <3> QED BY <3>1
  <2>2. CASE k # n + 1
    <3>1. k \in j + 1 .. n /\ k \in j .. n /\ k - 1 \in j .. n /\ k \in 1 .. n
      BY <1>1, <2>2
    <3> QED BY <1>1, <1>3, <1>4, <3>1
  <2> QED BY <2>1, <2>2
<1>6. Follows(side, r, j, x, last)
  <2> HIDE DEF last
  <2> QED BY <1>1, <1>4, <1>5 DEF Follows
<1> QED BY <1>6 DEF r

\* A queue whose first event is gone.
LEMMA FollowsShorter ==
    ASSUME NEW side \in Sides, NEW q \in Seq(Events), NEW r \in Seq(Events), NEW j \in 0 .. Len(r),
           Len(q) = Len(r) + 1, \A k \in j + 1 .. Len(r) : r[k].msg = q[k + 1].msg,
           NEW x \in Levels, NEW y \in Levels, Follows(side, q, j + 1, x, y)
    PROVE  Follows(side, r, j, x, y)
<1> DEFINE n == Len(r)
<1>1. n \in Nat /\ j \in Nat /\ j <= n /\ Len(q) = n + 1
  OBVIOUS
<1>2. PICK g \in [j + 1 .. n + 1 -> Levels] :
        /\ g[j + 1] = x /\ g[n + 1] = y
        /\ \A k \in j + 1 + 1 .. n + 1 : g[k] = SideAfter(side, g[k - 1], q[k].msg)
  BY DEF Follows
<1>3. \A k \in j + 1 .. n : r[k].msg = q[k + 1].msg
  OBVIOUS
<1> HIDE DEF n
<1> DEFINE h == [k \in j .. n |-> g[k + 1]]
<1>4. h \in [j .. n -> Levels] /\ h[j] = x /\ h[n] = y /\ \A k \in j .. n : h[k] = g[k + 1]
  BY <1>1, <1>2
<1> HIDE DEF h
<1>5. ASSUME NEW k \in j + 1 .. n PROVE h[k] = SideAfter(side, h[k - 1], r[k].msg)
  <2>1. k + 1 \in j + 1 + 1 .. n + 1 /\ k \in j .. n /\ k - 1 \in j .. n /\ (k - 1) + 1 = k /\ (k + 1) - 1 = k
    BY <1>1
  <2>2. g[k + 1] = SideAfter(side, g[(k + 1) - 1], q[k + 1].msg)
    BY <1>2, <2>1
  <2>3. h[k] = g[k + 1] /\ h[k - 1] = g[k]
    BY <1>4, <2>1
  <2> QED BY <1>3, <2>1, <2>2, <2>3
<1> QED BY <1>1, <1>4, <1>5 DEF Follows, n

\* The first event is applied.
LEMMA FollowsFirst ==
    ASSUME NEW side \in Sides, NEW q \in Seq(Events), Len(q) >= 1,
           NEW x \in Levels, NEW y \in Levels, Follows(side, q, 0, x, y)
    PROVE  Follows(side, q, 1, SideAfter(side, x, q[1].msg), y)
<1> DEFINE n == Len(q)
<1>1. n \in Nat /\ n >= 1
  OBVIOUS
<1>2. PICK g \in [0 .. n -> Levels] :
        /\ g[0] = x /\ g[n] = y
        /\ \A k \in 0 + 1 .. n : g[k] = SideAfter(side, g[k - 1], q[k].msg)
  BY DEF Follows
<1> HIDE DEF n
<1> DEFINE h == [k \in 1 .. n |-> g[k]]
<1>3. h \in [1 .. n -> Levels] /\ h[n] = y /\ \A k \in 1 .. n : h[k] = g[k]
  BY <1>1, <1>2
<1> HIDE DEF h
<1>4. h[1] = SideAfter(side, x, q[1].msg)
  <2>1. 1 \in 0 + 1 .. n /\ 1 \in 1 .. n /\ 1 - 1 = 0
    BY <1>1
  <2>2. g[1] = SideAfter(side, g[1 - 1], q[1].msg)
    BY <1>2, <2>1
  <2> QED BY <1>2, <1>3, <2>1, <2>2
<1>5. ASSUME NEW k \in 1 + 1 .. n PROVE h[k] = SideAfter(side, h[k - 1], q[k].msg)
  <2>1. k \in 0 + 1 .. n /\ k \in 1 .. n /\ k - 1 \in 1 .. n
    BY <1>1
  <2> QED BY <1>2, <1>3, <2>1
<1> QED BY <1>1, <1>3, <1>4, <1>5 DEF Follows, n

Clears(m, side) == m.kind = "DepthReset" /\ m.side = side

\* Where the side is known: before the queue, if nothing of it is missing in
\* what was taken, and after an event that clears it.
Known(side, q, j, missing) == IF j = 0 THEN side \notin missing ELSE Clears(q[j].msg, side)

\* None of the side's events is missing behind the j-th.
Unbroken(side, q, j) == \A k \in j + 1 .. Len(q) : side \notin q[k].gap

\* From wherever the side is known and whole to the end, what is queued leads
\* to what the publisher has.
Tracks(side, q, base, missing, behind, y) ==
    side \notin behind =>
        \A j \in 0 .. Len(q) : Known(side, q, j, missing) /\ Unbroken(side, q, j) =>
            Follows(side, q, j, IF j = 0 THEN base ELSE <<>>, y)

LEMMA SideOfOther ==
    ASSUME NEW side, NEW x, NEW m, m.side # side
    PROVE  SideAfter(side, x, m) = x
BY DEF SideAfter

LEMMA SideOfCleared ==
    ASSUME NEW side \in Sides, NEW x, NEW m, Clears(m, side)
    PROVE  SideAfter(side, x, m) = <<>>
BY DEF SideAfter, Clears, BookKinds

LEMMA NoneIsLevels == <<>> \in Levels
BY BookAssumption DEF Levels

LEMMA TracksAppend ==
    ASSUME NEW side \in Sides, NEW q \in Seq(Events), NEW e \in Events,
           NEW base \in Levels, NEW missing, NEW y \in Levels,
           Tracks(side, q, base, missing, e.gap, y)
    PROVE  Tracks(side, Append(q, e), base, missing, {}, SideAfter(side, y, e.msg))
<1> DEFINE r == Append(q, e)
           n == Len(q)
           last == SideAfter(side, y, e.msg)
<1>1. /\ n \in Nat /\ Len(r) = n + 1 /\ r[n + 1] = e /\ r \in Seq(Events)
      /\ \A k \in 1 .. n : r[k] = q[k]
  OBVIOUS
<1> HIDE DEF r
<1>2. last \in Levels
  BY SideAfterIsLevels DEF Events, Changes
<1> SUFFICES ASSUME NEW j \in 0 .. n + 1, Known(side, r, j, missing), Unbroken(side, r, j)
             PROVE  Follows(side, r, j, IF j = 0 THEN base ELSE <<>>, last)
  BY <1>1 DEF Tracks, r
<1>3. CASE j = n + 1
  <2>1. last = <<>>
    BY <1>1, <1>3, SideOfCleared DEF Known
  <2>2. Follows(side, r, Len(r), last, last)
    BY <1>1, <1>2, FollowsNothing
  <2> QED BY <1>1, <1>3, <2>1, <2>2
<1>4. CASE j # n + 1
  <2>1. j \in 0 .. n /\ n + 1 \in j + 1 .. n + 1
    BY <1>1, <1>4
  <2>2. side \notin e.gap
    BY <1>1, <2>1 DEF Unbroken
  <2>3. Known(side, q, j, missing)
    BY <1>1, <2>1 DEF Known
  <2>4. Unbroken(side, q, j)
    BY <1>1, <2>1 DEF Unbroken
  <2> DEFINE x == IF j = 0 THEN base ELSE <<>>
  <2>5. Follows(side, q, j, x, y)
    BY <2>1, <2>2, <2>3, <2>4 DEF Tracks
  <2>6. x \in Levels
    BY NoneIsLevels
  <2> HIDE DEF x, n
  <2>7. Follows(side, r, j, x, last)
    BY <2>1, <2>5, <2>6, FollowsAppend DEF r, n
  <2> QED BY <2>7 DEF x
<1> QED BY <1>3, <1>4

LEMMA TracksEvicted ==
    ASSUME NEW side \in Sides, NEW q \in Seq(Events), Len(q) >= 2,
           NEW base \in Levels, NEW missing, NEW behind, NEW y \in Levels,
           Tracks(side, q, base, missing, behind, y)
    PROVE  Tracks(side, Evicted(q), base, missing, behind, y)
<1> DEFINE r == Evicted(q)
           n == Len(r)
<1>1. /\ r \in Seq(Events) /\ Len(q) = n + 1 /\ n \in Nat /\ n >= 1
      /\ \A k \in 1 .. n :
            r[k] = IF k = 1 THEN [q[2] EXCEPT !.gap = @ \cup q[1].gap \cup {q[1].msg.side}] ELSE q[k + 1]
  BY EvictedIsSeq
<1> HIDE DEF r
<1>2. ASSUME NEW k \in 1 .. n
      PROVE  /\ r[k].msg = q[k + 1].msg /\ q[k + 1].gap \subseteq r[k].gap
             /\ k = 1 => q[1].gap \subseteq r[k].gap /\ q[1].msg.side \in r[k].gap
  <2>1. q[k + 1] \in Events /\ q[2] \in Events
    BY <1>1, ElementOfSeq
  <2>2. CASE k = 1
    <3>1. r[k] = [q[2] EXCEPT !.gap = @ \cup q[1].gap \cup {q[1].msg.side}]
      BY <1>1, <2>2
    <3>2. r[k].msg = q[2].msg /\ r[k].gap = q[2].gap \cup q[1].gap \cup {q[1].msg.side}
      BY <2>1, <3>1 DEF Events
    <3>3. k + 1 = 2
      BY <2>2
    <3> QED BY <3>2, <3>3
  <2>3. CASE k # 1
    BY <1>1, <2>3
  <2> QED BY <2>2, <2>3
<1> SUFFICES ASSUME side \notin behind, NEW j \in 0 .. n, Known(side, r, j, missing), Unbroken(side, r, j)
             PROVE  Follows(side, r, j, IF j = 0 THEN base ELSE <<>>, y)
  BY DEF Tracks, r
<1>3. CASE j = 0
  <2>1. side \notin q[1].gap /\ q[1].msg.side # side
    BY <1>1, <1>2, <1>3 DEF Unbroken
  <2>2. Unbroken(side, q, 0)
    <3> SUFFICES ASSUME NEW k \in 0 + 1 .. n + 1 PROVE side \notin q[k].gap
      BY <1>1 DEF Unbroken
    <3>1. CASE k = 1
      BY <2>1, <3>1
    <3>2. CASE k # 1
      <4>1. k - 1 \in 1 .. n /\ k - 1 \in j + 1 .. n /\ (k - 1) + 1 = k
        BY <1>1, <1>3, <3>2
      <4> QED BY <1>2, <4>1 DEF Unbroken
    <3> QED BY <3>1, <3>2
  <2>3. Known(side, q, 0, missing)
    BY <1>3 DEF Known
  <2>4. Follows(side, q, 0, base, y)
    BY <2>2, <2>3 DEF Tracks
  <2>5. Follows(side, q, 1, SideAfter(side, base, q[1].msg), y)
    BY <1>1, <2>4, FollowsFirst
  <2>6. Follows(side, q, 0 + 1, base, y)
    BY <2>1, <2>5, SideOfOther
  <2>7. 0 \in 0 .. n /\ \A k \in 0 + 1 .. n : r[k].msg = q[k + 1].msg
    BY <1>1, <1>2
  <2>8. Follows(side, r, 0, base, y)
    BY <1>1, <2>6, <2>7, FollowsShorter
  <2> QED BY <1>3, <2>8
<1>4. CASE j # 0
  <2>1. j + 1 \in 0 .. n + 1 /\ j + 1 # 0 /\ j \in 1 .. n
    BY <1>1, <1>4
  <2>2. Known(side, q, j + 1, missing)
    BY <1>2, <1>4, <2>1 DEF Known
  <2>3. Unbroken(side, q, j + 1)
    <3> SUFFICES ASSUME NEW k \in j + 1 + 1 .. n + 1 PROVE side \notin q[k].gap
      BY <1>1 DEF Unbroken
    <3>1. k - 1 \in 1 .. n /\ k - 1 \in j + 1 .. n /\ (k - 1) + 1 = k
      BY <1>1, <2>1
    <3> QED BY <1>2, <3>1 DEF Unbroken
  <2>4. Follows(side, q, j + 1, <<>>, y)
    BY <1>1, <2>1, <2>2, <2>3 DEF Tracks
  <2>5. \A k \in j + 1 .. n : r[k].msg = q[k + 1].msg
    BY <1>1, <1>2, <2>1
  <2>6. Follows(side, r, j, <<>>, y)
    BY <1>1, <2>1, <2>4, <2>5, FollowsShorter, NoneIsLevels
  <2> QED BY <1>4, <2>6
<1> QED BY <1>3, <1>4

\* An event that s will not get: its side is known no more.
LEMMA TracksLost ==
    ASSUME NEW side, NEW q, NEW base, NEW missing, NEW behind, NEW y, NEW m,
           Tracks(side, q, base, missing, behind, y)
    PROVE  Tracks(side, q, base, missing, behind \cup {m.side}, SideAfter(side, y, m))
<1>1. CASE m.side = side
  BY <1>1 DEF Tracks
<1>2. CASE m.side # side
  <2>1. SideAfter(side, y, m) = y
    BY <1>2, SideOfOther
  <2> QED BY <2>1 DEF Tracks
<1> QED BY <1>1, <1>2

MissingAfter(missing, e) ==
    (missing \cup e.gap) \ (IF e.msg.kind = "DepthReset" THEN {e.msg.side} ELSE {})

LEMMA TracksTaken ==
    ASSUME NEW side \in Sides, NEW q \in Seq(Events), Len(q) >= 1,
           NEW r \in Seq(Events), Len(q) = Len(r) + 1, \A k \in 1 .. Len(r) : r[k] = q[k + 1],
           NEW base \in Levels, NEW missing, NEW behind, NEW y \in Levels,
           Tracks(side, q, base, missing, behind, y)
    PROVE  Tracks(side, r, SideAfter(side, base, q[1].msg), MissingAfter(missing, q[1]), behind, y)
<1> DEFINE n == Len(r)
           after == SideAfter(side, base, q[1].msg)
<1>1. n \in Nat /\ Len(q) = n + 1 /\ \A k \in 1 .. n : r[k] = q[k + 1]
  OBVIOUS
<1>2. q[1] \in Events /\ after \in Levels
  <2>1. q[1] \in Events
    BY <1>1, ElementOfSeq
  <2>2. q[1].msg \in Messages
    BY <2>1 DEF Events, Changes
  <2> QED BY <2>1, <2>2, SideAfterIsLevels
<1> SUFFICES ASSUME side \notin behind, NEW j \in 0 .. n,
                    Known(side, r, j, MissingAfter(missing, q[1])), Unbroken(side, r, j)
             PROVE  Follows(side, r, j, IF j = 0 THEN after ELSE <<>>, y)
  BY DEF Tracks
<1> HIDE DEF n, after
<1>3. Unbroken(side, q, j + 1)
  <2> SUFFICES ASSUME NEW k \in j + 1 + 1 .. n + 1 PROVE side \notin q[k].gap
    BY <1>1 DEF Unbroken
  <2>1. k - 1 \in 1 .. n /\ k - 1 \in j + 1 .. n /\ (k - 1) + 1 = k
    BY <1>1
  <2> QED BY <1>1, <2>1 DEF Unbroken, n
<1>4. \A k \in j + 1 .. n : r[k].msg = q[k + 1].msg
  BY <1>1
<1>5. j + 1 \in 0 .. n + 1 /\ j + 1 # 0 /\ 1 \in 0 .. n + 1
  BY <1>1
<1>6. CASE j = 0
  <2>1. side \notin MissingAfter(missing, q[1])
    BY <1>6 DEF Known
  <2>2. Follows(side, q, 0 + 1, after, y)
    <3>1. CASE Clears(q[1].msg, side)
      <4>1. Known(side, q, 1, missing)
        BY <3>1 DEF Known
      <4>2. Follows(side, q, 1, <<>>, y)
        BY <1>1, <1>3, <1>5, <1>6, <4>1 DEF Tracks
      <4>3. after = <<>>
        BY <3>1, SideOfCleared DEF after
      <4> QED BY <4>2, <4>3
    <3>2. CASE ~Clears(q[1].msg, side)
      <4>1. side \notin missing /\ side \notin q[1].gap
        BY <2>1, <3>2 DEF MissingAfter, Clears
      <4>2. Unbroken(side, q, 0)
        <5> SUFFICES ASSUME NEW k \in 0 + 1 .. n + 1 PROVE side \notin q[k].gap
          BY <1>1 DEF Unbroken
        <5>1. CASE k = 1
          BY <4>1, <5>1
        <5>2. CASE k # 1
          <6>1. k \in 0 + 1 + 1 .. n + 1
            BY <1>1, <5>2
          <6> QED BY <1>1, <1>3, <1>6, <6>1 DEF Unbroken
        <5> QED BY <5>1, <5>2
      <4>3. 0 \in 0 .. n + 1 /\ Known(side, q, 0, missing)
        BY <1>1, <4>1 DEF Known
      <4>4. Follows(side, q, 0, base, y)
        BY <1>1, <4>2, <4>3 DEF Tracks
      <4> QED BY <4>4, FollowsFirst DEF after
    <3> QED BY <3>1, <3>2
  <2>3. 0 \in 0 .. n /\ \A k \in 0 + 1 .. n : r[k].msg = q[k + 1].msg
    BY <1>1, <1>4, <1>6
  <2>4. Follows(side, r, 0, after, y)
    BY <1>1, <1>2, <2>2, <2>3, FollowsShorter DEF n
  <2> QED BY <1>6, <2>4
<1>7. CASE j # 0
  <2>1. r[j] = q[j + 1]
    BY <1>1, <1>7
  <2>2. Known(side, q, j + 1, missing)
    BY <1>5, <1>7, <2>1 DEF Known
  <2>3. Follows(side, q, j + 1, <<>>, y)
    BY <1>1, <1>3, <1>5, <2>2 DEF Tracks
  <2>4. Follows(side, r, j, <<>>, y)
    BY <1>1, <1>4, <2>3, FollowsShorter, NoneIsLevels DEF n
  <2> QED BY <1>7, <2>4
<1> QED BY <1>6, <1>7

LEMMA TracksToTheEnd ==
    ASSUME NEW side, NEW base, NEW missing, NEW behind, NEW y,
           Tracks(side, <<>>, base, missing, behind, y), side \notin missing \cup behind
    PROVE  base = y
<1>1. Len(<<>>) = 0 /\ <<>> \in Seq(Events) /\ 0 \in 0 .. Len(<<>>)
  OBVIOUS
<1>2. Known(side, <<>>, 0, missing) /\ Unbroken(side, <<>>, 0)
  BY <1>1 DEF Known, Unbroken
<1>3. Follows(side, <<>>, 0, base, y)
  BY <1>1, <1>2 DEF Tracks
<1> QED BY <1>1, <1>3, NothingFollows

TracksAt(s, side) ==
    Tracks(side, queue[s], replica[s][side], missed[s], gap[s], BookFor(0)[side])

InStep == Len(symbols.names) <= 1 => \A s \in Appliers : \A side \in Sides : TracksAt(s, side)

LEMMA SideOfBook ==
    ASSUME NEW b \in BookType, NEW side \in Sides
    PROVE  b[side] \in Levels
BY DEF BookType, Sides

LEMMA SidesOfState ==
    ASSUME CacheType, NEW s \in Appliers, NEW side \in Sides
    PROVE  /\ s \in Subscribers /\ queue[s] \in Seq(Events) /\ gap[s] \in SUBSET Sides
           /\ replica[s][side] \in Levels /\ BookFor(0)[side] \in Levels
<1>1. s \in Subscribers
  BY CacheAssumption
<1>2. replica[s] \in BookType /\ BookFor(0) \in BookType
  BY <1>1, BookForIsBook DEF CacheType
<1> QED BY <1>1, <1>2, SideOfBook DEF CacheType

LEMMA InitInStep == Init => InStep
<1> SUFFICES ASSUME Init, NEW s \in Appliers, NEW side \in Sides PROVE TracksAt(s, side)
  BY DEF InStep
<1>1. CacheType /\ s \in Subscribers
  BY InitTables, CacheAssumption
<1>2. queue[s] = <<>> /\ replica[s] = EmptyBook
  BY <1>1 DEF Init
<1>3. BookFor(0) = EmptyBook
  <2>1. shards[ShardOf(0)] = <<>> /\ SlotOf(0) \in Nat
    BY PlaceOfId DEF Init
  <2> QED BY <2>1 DEF BookFor, BookAt
<1> DEFINE x == EmptyBook[side]
<1>4. x \in Levels
  BY EmptyIsBook, SideOfBook
<1>5. <<>> \in Seq(Events) /\ Len(<<>>) = 0
  OBVIOUS
<1> HIDE DEF x
<1>6. Follows(side, <<>>, 0, x, x)
  BY <1>4, <1>5, FollowsNothing
<1>7. Tracks(side, <<>>, x, missed[s], gap[s], x)
  <2> SUFFICES ASSUME NEW j \in 0 .. 0
               PROVE  Follows(side, <<>>, j, IF j = 0 THEN x ELSE <<>>, x)
    BY <1>5 DEF Tracks
  <2>1. j = 0
    OBVIOUS
  <2> QED BY <1>6, <2>1
<1> QED BY <1>2, <1>3, <1>7 DEF TracksAt, x

\* A step that leaves the subscribers and the first book.
LEMMA InStepUntouched ==
    ASSUME InStep, UNCHANGED <<queue, replica, missed, gap>>, BookFor(0)' = BookFor(0),
           Len(symbols'.names) <= 1 => Len(symbols.names) <= 1
    PROVE  InStep'
<1> SUFFICES ASSUME Len(symbols'.names) <= 1, NEW s \in Appliers, NEW side \in Sides
             PROVE  TracksAt(s, side)'
  BY DEF InStep
<1>1. TracksAt(s, side)
  BY DEF InStep
<1> QED BY <1>1 DEF TracksAt

\* Nothing is forgotten by the table.
LEMMA NoneForgotten ==
    ASSUME CacheType, NEW names,
           names = symbols.names \/ \E name \in Names : names = Append(symbols.names, name),
           Len(names) <= 1
    PROVE  Len(symbols.names) <= 1
<1>1. symbols.names \in Seq(Names) /\ Len(symbols.names) \in Nat
  BY DEF CacheType, Sound
<1> QED BY <1>1

LEMMA FanOutInStep ==
    ASSUME CacheType, NEW event, event.symbol \in Nat, event.msg \in Changes,
           event.top \in [bid : Offer, ask : Offer], FanOut(event),
           NEW s \in Appliers, NEW side \in Sides, TracksAt(s, side)
    PROVE  Tracks(side, queue'[s], replica[s][side], missed[s], gap'[s],
                  SideAfter(side, BookFor(0)[side], event.msg))
<1> DEFINE q == queue[s]
           base == replica[s][side]
           y == BookFor(0)[side]
           last == WithGap(event, gap[s])
           after == SideAfter(side, y, event.msg)
<1>1. s \in Subscribers /\ q \in Seq(Events) /\ base \in Levels /\ y \in Levels /\ gap[s] \in SUBSET Sides
  BY SidesOfState
<1>2. last \in Events /\ last.gap = gap[s] /\ last.msg = event.msg
  BY <1>1 DEF WithGap, Events
<1>3. Tracks(side, q, base, missed[s], gap[s], y)
  BY DEF TracksAt
<1>4. queue'[s] = CASE Pushed(s) = "queued"  -> Append(q, last)
                    [] Pushed(s) = "evicted" -> Append(Evicted(q), last)
                    [] OTHER                 -> q
  BY <1>1 DEF FanOut
<1>5. gap'[s] = IF Pushed(s) \in {"queued", "evicted"} THEN {} ELSE gap[s] \cup {event.msg.side}
  BY <1>1 DEF FanOut
<1>6. CASE Pushed(s) = "queued"
  <2>1. queue'[s] = Append(q, last) /\ gap'[s] = {}
    BY <1>4, <1>5, <1>6
  <2> HIDE DEF q, base, y, last
  <2>2. Tracks(side, Append(q, last), base, missed[s], {}, SideAfter(side, y, last.msg))
    BY <1>1, <1>2, <1>3, TracksAppend
  <2> QED BY <1>2, <2>1, <2>2 DEF base, y
<1>7. CASE Pushed(s) = "evicted"
  <2>1. queue'[s] = Append(Evicted(q), last) /\ gap'[s] = {}
    BY <1>4, <1>5, <1>7
  <2>2. Len(q) >= 2
    <3>1. ~(Len(q) < QueueSize)
      BY <1>7 DEF Pushed
    <3>2. QueueSize \in Nat /\ QueueSize # 0 /\ QueueSize # 1
      BY CacheAssumption
    <3> QED BY <1>1, <3>1, <3>2
  <2> HIDE DEF q, base, y, last
  <2>3. Tracks(side, Evicted(q), base, missed[s], gap[s], y)
    BY <1>1, <1>3, <2>2, TracksEvicted
  <2>4. Evicted(q) \in Seq(Events)
    BY <1>1, <2>2, EvictedIsSeq
  <2>5. Tracks(side, Append(Evicted(q), last), base, missed[s], {}, SideAfter(side, y, last.msg))
    BY <1>1, <1>2, <2>3, <2>4, TracksAppend
  <2> QED BY <1>2, <2>1, <2>5 DEF base, y
<1>8. CASE Pushed(s) \notin {"queued", "evicted"}
  <2>1. queue'[s] = q /\ gap'[s] = gap[s] \cup {event.msg.side}
    BY <1>4, <1>5, <1>8
  <2> HIDE DEF q, base, y
  <2>2. Tracks(side, q, base, missed[s], gap[s] \cup {event.msg.side}, SideAfter(side, y, event.msg))
    BY <1>3, TracksLost
  <2> QED BY <2>1, <2>2 DEF base, y
<1> QED BY <1>6, <1>7, <1>8

\* The only symbol is the first one.
LEMMA OnlySymbol ==
    ASSUME CacheType, Lane, NEW m \in Messages, IdFor(m) >= 0,
           KeepBook(m, IdFor(m), AppliedTo(IdFor(m), m).book), Len(symbols'.names) <= 1
    PROVE  /\ Len(symbols.names) <= 1
           /\ BookFor(0)' = Apply(BookFor(0), m).book
<1> DEFINE id == IdFor(m)
<1>1. /\ id \in Nat /\ id < Len(symbols'.names) /\ Sound(symbols')
      /\ \A i \in Nat : BookFor(i)' = IF i = id THEN Apply(BookFor(id), m).book ELSE BookFor(i)
      /\ symbols'.names = symbols.names \/ symbols'.names = Append(symbols.names, m.sym)
  BY KeepBookTables
<1>2. m.sym \in Names
  BY DEF Messages
<1>3. Len(symbols.names) <= 1
  BY <1>1, <1>2, NoneForgotten
<1>4. Len(symbols'.names) \in Nat
  BY <1>1 DEF Sound
<1> HIDE DEF id
<1>5. id = 0
  BY <1>1, <1>4
<1> QED BY <1>1, <1>3, <1>5

LEMMA PublishInStep ==
    ASSUME CacheType, Lane, InStep, Publish
    PROVE  InStep'
<1>1. PICK r \in Records :
        LET m == Numbered(r, stats.published + 1)
        IN  PublishIgnored(m) \/ PublishUnknown(m) \/ PublishWrongSide(m) \/ PublishChange(m)
  BY DEF Publish
<1> DEFINE m == Numbered(r, stats.published + 1)
<1>2. m \in Messages
  <2>1. stats.published + 1 \in Nat
    BY DEF CacheType, StatsType
  <2> QED BY <2>1, NumberedIsMessage
<1> HIDE DEF m
<1>3. CASE PublishIgnored(m) \/ PublishUnknown(m)
  <2>1. UNCHANGED <<queue, replica, missed, gap, symbols, shards>>
    BY <1>3 DEF PublishIgnored, PublishUnknown
  <2> QED BY <2>1, InStepUntouched DEF BookFor
<1>4. CASE PublishWrongSide(m) /\ Len(symbols'.names) <= 1
  <2>1. /\ IdFor(m) >= 0 /\ KeepBook(m, IdFor(m), AppliedTo(IdFor(m), m).book)
        /\ AppliedTo(IdFor(m), m).outcome = "WrongSide" /\ UNCHANGED <<queue, replica, missed, gap>>
    BY <1>4 DEF PublishWrongSide
  <2>2. Len(symbols.names) <= 1 /\ BookFor(0)' = Apply(BookFor(0), m).book
    BY <1>2, <1>4, <2>1, OnlySymbol
  <2>3. m.side \notin Sides
    <3> DEFINE id == IdFor(m)
    <3> HIDE DEF id
    <3>1. id \in Nat /\ AppliedTo(id, m) = Apply(BookFor(id), m)
      BY <1>2, <2>1, KeepBookTables DEF id
    <3>2. BookFor(id) \in BookType
      BY <3>1, BookForIsBook
    <3>3. Apply(BookFor(id), m).outcome = "WrongSide" /\ m.kind \in BookKinds
      BY <1>4, <2>1, <3>1 DEF id, PublishWrongSide
    <3> QED BY <1>2, <3>2, <3>3, OutcomeOfApply
  <2>4. BookFor(0)' = BookFor(0)
    BY <2>2, <2>3 DEF Apply
  <2> QED BY <2>1, <2>2, <2>4, InStepUntouched
<1>5. CASE PublishChange(m) /\ Len(symbols'.names) <= 1
  <2> SUFFICES ASSUME NEW s \in Appliers, NEW side \in Sides PROVE TracksAt(s, side)'
    BY DEF InStep
  <2> DEFINE event == EventOf(m)
  <2>1. /\ IdFor(m) >= 0 /\ KeepBook(m, IdFor(m), AppliedTo(IdFor(m), m).book) /\ FanOut(event)
        /\ UNCHANGED <<replica, missed>>
    BY <1>5 DEF PublishChange, EventOf
  <2>2. /\ event.symbol \in Nat /\ event.msg \in Changes
        /\ event.top \in [bid : Offer, ask : Offer] /\ event.msg = m
    BY <1>2, <1>5, EventOfChange
  <2>3. Len(symbols.names) <= 1 /\ BookFor(0)' = Apply(BookFor(0), m).book
    BY <1>2, <1>5, <2>1, OnlySymbol
  <2>4. TracksAt(s, side)
    BY <2>3 DEF InStep
  <2> HIDE DEF event
  <2>5. Tracks(side, queue'[s], replica[s][side], missed[s], gap'[s],
               SideAfter(side, BookFor(0)[side], event.msg))
    BY <2>1, <2>2, <2>4, FanOutInStep
  <2>6. BookFor(0) \in BookType
    BY BookForIsBook
  <2>7. (BookFor(0)')[side] = SideAfter(side, BookFor(0)[side], m)
    BY <1>2, <2>3, <2>6, ApplyBySide
  <2> QED BY <2>1, <2>2, <2>5, <2>7 DEF TracksAt
<1>6. CASE ~(Len(symbols'.names) <= 1)
  BY <1>6 DEF InStep
<1> QED BY <1>1, <1>3, <1>4, <1>5, <1>6 DEF m

LEMMA InternInStep ==
    ASSUME CacheType, InStep, NEW name \in Registered, Intern(name)
    PROVE  InStep'
<1>1. name \in Names
  BY CacheAssumption
<1>2. symbols'.names = symbols.names \/ symbols'.names = Append(symbols.names, name)
  BY <1>1, InternedIsSound DEF CacheType, Intern
<1>3. Len(symbols'.names) <= 1 => Len(symbols.names) <= 1
  BY <1>1, <1>2, NoneForgotten
<1>4. BookFor(0)' = BookFor(0)
  BY DEF Intern, BookFor
<1> QED BY <1>3, <1>4, InStepUntouched DEF Intern

LEMMA ApplyInStep ==
    ASSUME CacheType, InStep, NEW s \in Subscribers, ApplyNext(s)
    PROVE  InStep'
<1> SUFFICES ASSUME Len(symbols'.names) <= 1, NEW t \in Appliers, NEW side \in Sides
             PROVE  TracksAt(t, side)'
  BY DEF InStep
<1>1. /\ queue[s] # <<>> /\ queue' = [queue EXCEPT ![s] = Tail(@)]
      /\ replica' = [replica EXCEPT ![s] = Kept(s, Head(queue[s]).msg)]
      /\ missed' = [missed EXCEPT ![s] = MissedWith(s, Head(queue[s]))]
      /\ UNCHANGED <<symbols, shards, gap>>
  BY DEF ApplyNext
<1>2. TracksAt(t, side) /\ BookFor(0)' = BookFor(0)
  BY <1>1 DEF InStep, BookFor
<1>3. CASE t = s
  <2> DEFINE q == queue[s]
             base == replica[s][side]
             y == BookFor(0)[side]
             r == Tail(q)
  <2>1. /\ q \in Seq(Events) /\ base \in Levels /\ y \in Levels /\ replica[s] \in BookType
        /\ Len(q) \in Nat
    BY <1>3, SidesOfState DEF CacheType
  <2>2. /\ Head(q) \in Events /\ Head(q) = q[1] /\ r \in Seq(Events) /\ Len(r) = Len(q) - 1
        /\ \A j \in 1 .. Len(r) : r[j] = q[j + 1]
    BY <1>1, HeadOfQueue
  <2>3. Len(q) >= 1 /\ Len(q) = Len(r) + 1
    BY <1>1, <2>1, <2>2, EmptySeq
  <2>4. Tracks(side, q, base, missed[s], gap[s], y)
    BY <1>2, <1>3 DEF TracksAt
  <2>5. /\ queue'[s] = r /\ missed'[s] = MissingAfter(missed[s], q[1])
        /\ replica'[s] = Apply(replica[s], q[1].msg).book
    BY <1>1, <2>2 DEF CacheType, MissedWith, MissingAfter, Kept
  <2>6. replica'[s][side] = SideAfter(side, base, q[1].msg)
    BY <2>1, <2>2, <2>5, ApplyBySide DEF Events, Changes
  <2> HIDE DEF q, base, y, r
  <2>7. Tracks(side, r, SideAfter(side, base, q[1].msg), MissingAfter(missed[s], q[1]), gap[s], y)
    BY <2>1, <2>2, <2>3, <2>4, TracksTaken
  <2> QED BY <1>1, <1>2, <1>3, <2>5, <2>6, <2>7 DEF TracksAt, y
<1>4. CASE t # s
  <2>1. t \in Subscribers
    BY CacheAssumption
  <2>2. queue'[t] = queue[t] /\ replica'[t] = replica[t] /\ missed'[t] = missed[t]
    BY <1>1, <1>4, <2>1 DEF CacheType
  <2> QED BY <1>1, <1>2, <2>2 DEF TracksAt
<1> QED BY <1>3, <1>4

\* The other subscribers keep no book.
LEMMA ReceiveInStep ==
    ASSUME CacheType, InStep, NEW s \in Subscribers, Receive(s)
    PROVE  InStep'
<1> SUFFICES ASSUME Len(symbols'.names) <= 1, NEW t \in Appliers, NEW side \in Sides
             PROVE  TracksAt(t, side)'
  BY DEF InStep
<1>1. /\ s \notin Appliers /\ queue' = [queue EXCEPT ![s] = Tail(@)]
      /\ missed' = [missed EXCEPT ![s] = MissedWith(s, Head(queue[s]))]
      /\ UNCHANGED <<symbols, shards, gap, replica>>
  BY DEF Receive
<1>2. TracksAt(t, side) /\ BookFor(0)' = BookFor(0) /\ t \in Subscribers /\ t # s
  BY <1>1, CacheAssumption DEF InStep, BookFor
<1>3. queue'[t] = queue[t] /\ missed'[t] = missed[t]
  BY <1>1, <1>2 DEF CacheType
<1> QED BY <1>1, <1>2, <1>3 DEF TracksAt

\* A subscriber that has taken all that is queued has, of a feed of one symbol,
\* the publisher's book, but for the sides it knows it has missed events of.
THEOREM ReplicaStaysInStep == Spec => []ReplicaInStep
<1>1. Init => InStep
  BY InitInStep
<1>2. ASSUME CacheType, Lane, InStep, [Next]_vars PROVE InStep'
  <2>1. CASE Publish
    BY <1>2, <2>1, PublishInStep
  <2>2. CASE \E name \in Registered : Intern(name)
    BY <1>2, <2>2, InternInStep
  <2>3. CASE \E s \in Subscribers : Receive(s)
    BY <1>2, <2>3, ReceiveInStep
  <2>4. CASE \E s \in Subscribers : ApplyNext(s)
    BY <1>2, <2>4, ApplyInStep
  <2>5. CASE \E s \in Subscribers : Grant(s)
    BY <1>2, <2>5, InStepUntouched DEF Grant, BookFor
  <2>6. CASE UNCHANGED vars
    BY <1>2, <2>6, InStepUntouched DEF vars, BookFor
  <2> QED BY <1>2, <2>1, <2>2, <2>3, <2>4, <2>5, <2>6 DEF Next
<1>3. ASSUME CacheType, InStep PROVE ReplicaInStep
  <2> SUFFICES ASSUME NEW s \in Appliers, queue[s] = <<>>, Len(symbols.names) = 1, HasBook(0),
                      NEW side \in Sides, side \notin missed[s] \cup gap[s]
               PROVE  replica[s][side] = BookOf(0)[side]
    BY DEF ReplicaInStep
  <2>1. TracksAt(s, side)
    BY <1>3 DEF InStep
  <2>2. replica[s][side] = BookFor(0)[side]
    BY <2>1, TracksToTheEnd DEF TracksAt
  <2>3. BookFor(0) = BookOf(0)
    BY DEF BookFor, BookAt, BookOf, HasBook
  <2> QED BY <2>2, <2>3
<1> QED BY <1>1, <1>2, <1>3, CacheTypeCorrect, PTL DEF Spec

--------------------------------------------------------------------------------
(* A side against what was sent: Ladder.                                   *)

Sorted(side, levels) ==
    \A i, j \in 1 .. Len(levels) : i < j => Better(side, levels[i].px, levels[j].px)

\* Better is a strict total order on prices.
LEMMA BetterOrders ==
    ASSUME NEW side, NEW a \in Int, NEW b \in Int, NEW c \in Int
    PROVE  /\ ~Better(side, a, a)
           /\ Better(side, a, b) /\ Better(side, b, c) => Better(side, a, c)
           /\ a # b => Better(side, a, b) \/ Better(side, b, a)
  BY DEF Better

LEMMA PriceOfLevel ==
    ASSUME NEW levels \in Seq(Level), NEW i \in 1 .. Len(levels)
    PROVE  levels[i] \in Level /\ levels[i].px \in Int /\ levels[i].qty \in Int
<1>1. levels[i] \in Level
  BY ElementOfSeq
<1> QED BY <1>1 DEF Level

LEMMA InsertAtElements ==
    ASSUME NEW levels \in Seq(Level), NEW at \in 1 .. Len(levels) + 1, NEW new \in Level
    PROVE  \A i \in 1 .. Len(levels) + 1 :
              InsertAt(levels, at, new)[i] =
                  IF i < at THEN levels[i] ELSE IF i = at THEN new ELSE levels[i - 1]
<1> DEFINE front == SubSeq(levels, 1, at - 1)
           back == SubSeq(levels, at, Len(levels))
           begun == front \o <<new>>
<1>1. front \in Seq(Level) /\ Len(front) = at - 1 /\ \A i \in 1 .. at - 1 : front[i] = levels[i]
  BY SubSeqProperties, ElementOfSeq
<1>2. /\ back \in Seq(Level) /\ Len(back) = (Len(levels) - at) + 1
      /\ \A i \in 1 .. (Len(levels) - at) + 1 : back[i] = levels[at + i - 1]
  BY SubSeqProperties, ElementOfSeq
<1>3. <<new>> \in Seq(Level) /\ Len(<<new>>) = 1 /\ <<new>>[1] = new
  OBVIOUS
<1>4. InsertAt(levels, at, new) = begun \o back
  BY DEF InsertAt
<1> HIDE DEF front, back
<1>5. /\ begun \in Seq(Level) /\ Len(begun) = at
      /\ \A i \in 1 .. at : begun[i] = IF i < at THEN levels[i] ELSE new
  <2>1. /\ begun \in Seq(Level) /\ Len(begun) = Len(front) + 1
        /\ \A i \in 1 .. Len(front) + 1 :
              begun[i] = IF i <= Len(front) THEN front[i] ELSE <<new>>[i - Len(front)]
    BY <1>1, <1>3, ConcatProperties
  <2> HIDE DEF begun
  <2>2. ASSUME NEW i \in 1 .. at PROVE begun[i] = IF i < at THEN levels[i] ELSE new
    <3>1. CASE i < at
      BY <1>1, <2>1, <3>1
    <3>2. CASE i = at
      <4>1. i - Len(front) = 1
        BY <1>1, <3>2
      <4> QED BY <1>1, <1>3, <2>1, <3>2, <4>1
    <3> QED BY <3>1, <3>2
  <2> QED BY <1>1, <2>1, <2>2
<1> HIDE DEF begun
<1> DEFINE whole == begun \o back
<1>6. \A i \in 1 .. at + Len(back) : whole[i] = IF i <= at THEN begun[i] ELSE back[i - at]
  BY <1>2, <1>5, ConcatProperties
<1> HIDE DEF whole
<1>7. ASSUME NEW i \in 1 .. Len(levels) + 1
      PROVE  whole[i] = IF i < at THEN levels[i] ELSE IF i = at THEN new ELSE levels[i - 1]
  <2>1. CASE i <= at
    BY <1>2, <1>5, <1>6, <2>1
  <2>2. CASE i > at
    <3>1. Len(levels) \in Nat /\ at \in Int /\ i \in Int
      OBVIOUS
    <3>2. i - at \in 1 .. (Len(levels) - at) + 1 /\ at + (i - at) - 1 = i - 1
      BY <2>2, <3>1
    <3>3. i \in 1 .. at + Len(back)
      BY <1>2, <2>2, <3>1
    <3>4. whole[i] = back[i - at]
      BY <1>6, <2>2, <3>1, <3>3
    <3>5. back[i - at] = levels[i - 1]
      BY <1>2, <3>2
    <3> QED BY <2>2, <3>1, <3>4, <3>5
  <2> QED BY <2>1, <2>2
<1> QED BY <1>4, <1>7 DEF whole

LEMMA RemoveAtElements ==
    ASSUME NEW levels \in Seq(Level), NEW at \in 1 .. Len(levels)
    PROVE  \A i \in 1 .. Len(levels) - 1 :
              RemoveAt(levels, at)[i] = IF i < at THEN levels[i] ELSE levels[i + 1]
<1> DEFINE front == SubSeq(levels, 1, at - 1)
           back == SubSeq(levels, at + 1, Len(levels))
<1>1. front \in Seq(Level) /\ Len(front) = at - 1 /\ \A i \in 1 .. at - 1 : front[i] = levels[i]
  BY SubSeqProperties, ElementOfSeq
<1>2. /\ back \in Seq(Level) /\ Len(back) = Len(levels) - at
      /\ \A i \in 1 .. Len(levels) - at : back[i] = levels[at + i]
  <2>1. \A i \in at + 1 .. Len(levels) : levels[i] \in Level
    BY ElementOfSeq
  <2> QED BY <2>1, SubSeqProperties, ElementOfSeq
<1>3. RemoveAt(levels, at) = front \o back
  BY DEF RemoveAt
<1> HIDE DEF front, back
<1> DEFINE whole == front \o back
<1>4. \A i \in 1 .. Len(front) + Len(back) :
         whole[i] = IF i <= Len(front) THEN front[i] ELSE back[i - Len(front)]
  BY <1>1, <1>2, ConcatProperties
<1> HIDE DEF whole
<1>5. ASSUME NEW i \in 1 .. Len(levels) - 1
      PROVE  whole[i] = IF i < at THEN levels[i] ELSE levels[i + 1]
  <2>1. CASE i < at
    BY <1>1, <1>2, <1>4, <2>1
  <2>2. CASE i >= at
    <3>1. Len(levels) \in Nat /\ at \in Int /\ i \in Int
      OBVIOUS
    <3>2. i - (at - 1) \in 1 .. Len(levels) - at /\ at + (i - (at - 1)) = i + 1
      BY <2>2, <3>1
    <3>3. i \in 1 .. Len(front) + Len(back) /\ ~(i <= Len(front))
      BY <1>1, <1>2, <2>2, <3>1
    <3>4. whole[i] = back[i - (at - 1)]
      BY <1>1, <1>4, <3>3
    <3>5. back[i - (at - 1)] = levels[i + 1]
      BY <1>2, <3>2
    <3> QED BY <2>2, <3>1, <3>4, <3>5
  <2> QED BY <2>1, <2>2
<1> QED BY <1>3, <1>5 DEF whole

\* Where a price belongs: behind what is better, in front of what is worse.
LEMMA LocateParts ==
    ASSUME NEW side, NEW levels \in Seq(Level), Sorted(side, levels), NEW p \in Int,
           NEW at, at = Locate(side, levels, p)
    PROVE  /\ at \in 1 .. Len(levels) + 1
           /\ \A i \in 1 .. Len(levels) : i < at => Better(side, levels[i].px, p)
           /\ \A i \in 1 .. Len(levels) : i > at => Better(side, p, levels[i].px)
           /\ at <= Len(levels) /\ levels[at].px # p => Better(side, p, levels[at].px)
<1> DEFINE S == {i \in 1 .. Len(levels) : ~Better(side, levels[i].px, p)} \cup {Len(levels) + 1}
<1>1. at \in 1 .. Len(levels) + 1
  BY LocateBounds
<1>2. at \in S /\ \A y \in S : at <= y
  <2>1. S \subseteq Nat /\ S # {}
    OBVIOUS
  <2>2. at = Min(S)
    BY DEF Locate
  <2> HIDE DEF S
  <2> QED BY <2>1, <2>2, MinOfNats
<1>3. ASSUME NEW i \in 1 .. Len(levels), i < at PROVE Better(side, levels[i].px, p)
  BY <1>1, <1>2, <1>3
<1>4. ASSUME at <= Len(levels), levels[at].px # p PROVE Better(side, p, levels[at].px)
  <2>1. ~Better(side, levels[at].px, p)
    BY <1>1, <1>2, <1>4
  <2>2. levels[at].px \in Int
    BY <1>1, <1>4, PriceOfLevel
  <2> QED BY <1>4, <2>1, <2>2, BetterOrders
<1>5. ASSUME NEW i \in 1 .. Len(levels), i > at PROVE Better(side, p, levels[i].px)
  <2>1. at \in 1 .. Len(levels)
    BY <1>1, <1>5
  <2>2. Better(side, levels[at].px, levels[i].px)
    BY <1>5, <2>1 DEF Sorted
  <2>3. levels[at].px \in Int /\ levels[i].px \in Int
    BY <2>1, PriceOfLevel
  <2> QED BY <1>4, <2>1, <2>2, <2>3, BetterOrders
<1> HIDE DEF S
<1> QED BY <1>1, <1>3, <1>4, <1>5

\* A price that is not where it belongs is nowhere.
LEMMA AbsentIsNowhere ==
    ASSUME NEW side, NEW levels \in Seq(Level), Sorted(side, levels), NEW p \in Int,
           ~Present(levels, Locate(side, levels, p), p)
    PROVE  \A i \in 1 .. Len(levels) : levels[i].px # p
<1> DEFINE at == Locate(side, levels, p)
<1> SUFFICES ASSUME NEW i \in 1 .. Len(levels), levels[i].px = p PROVE FALSE
  OBVIOUS
<1>1. i < at => Better(side, p, p)
  BY LocateParts
<1>2. i > at => Better(side, p, p)
  BY LocateParts
<1>3. i # at
  BY DEF Present
<1>4. ~Better(side, p, p) /\ at \in 1 .. Len(levels) + 1
  BY BetterOrders, LocateBounds
<1> HIDE DEF at
<1> QED BY <1>1, <1>2, <1>3, <1>4

--------------------------------------------------------------------------------
\* What is kept of a side: that it is sorted, that it shows what was given, and
\* that what it does not show is no better than something that fell.
Shows(side, levels, given, fallen) ==
    /\ levels \in Levels
    /\ Sorted(side, levels)
    /\ DOMAIN given \subseteq Prices
    /\ \A p \in DOMAIN given : given[p] \in Sizes \ {0}
    /\ fallen \subseteq Prices
    /\ \A i \in 1 .. Len(levels) :
          levels[i].px \in DOMAIN given /\ given[levels[i].px] = levels[i].qty
    /\ \A p \in DOMAIN given \ PricesOf(levels) : \E d \in fallen : d = p \/ Better(side, d, p)

LEMMA DomainOfLevels ==
    ASSUME NEW levels \in Seq(Level)
    PROVE  DOMAIN levels = 1 .. Len(levels) /\ Len(levels) \in Nat
  OBVIOUS

\* Erasing a price.
LEMMA ErasedShows ==
    ASSUME NEW side, NEW levels, NEW given, NEW fallen, Shows(side, levels, given, fallen),
           NEW p \in Prices
    PROVE  Shows(side, Erase(side, levels, p), [x \in DOMAIN given \ {p} |-> given[x]], fallen)
<1> DEFINE at == Locate(side, levels, p)
           left == Erase(side, levels, p)
           known == [x \in DOMAIN given \ {p} |-> given[x]]
<1> SUFFICES Shows(side, left, known, fallen)
  OBVIOUS
<1>1. levels \in Seq(Level) /\ levels \in Levels /\ Len(levels) \in Nat /\ Sorted(side, levels)
  BY DEF Shows, Levels
<1>2. p \in Int
  BY LadderAssumption
<1>3. left \in Levels
  BY <1>1, <1>2, EraseIsLevels
<1>4. DOMAIN known = DOMAIN given \ {p} /\ \A x \in DOMAIN known : known[x] = given[x]
  OBVIOUS
<1>5. DOMAIN known \subseteq Prices /\ (\A x \in DOMAIN known : known[x] \in Sizes \ {0}) /\ fallen \subseteq Prices
  BY <1>4 DEF Shows
<1>8. ASSUME NEW x \in DOMAIN given, x \notin PricesOf(levels)
      PROVE  \E d \in fallen : d = x \/ Better(side, d, x)
  BY <1>8 DEF Shows
<1>6. CASE Present(levels, at, p)
  <2>1. at \in 1 .. Len(levels) /\ levels[at].px = p
    <3>1. at \in 1 .. Len(levels) + 1
      BY <1>1, <1>2, LocateBounds
    <3> HIDE DEF at
    <3> QED BY <1>1, <1>6, <3>1 DEF Present
  <2>2. left = RemoveAt(levels, at)
    BY <1>6 DEF Erase
  <2> HIDE DEF at
  <2>3. Len(left) = Len(levels) - 1
    BY <1>1, <2>1, <2>2, RemoveAtIsLevels
  <2>4. \A i \in 1 .. Len(levels) - 1 : left[i] = IF i < at THEN levels[i] ELSE levels[i + 1]
    BY <1>1, <2>1, <2>2, RemoveAtElements
  <2> HIDE DEF left, known
  <2> DEFINE from(i) == IF i < at THEN i ELSE i + 1
  <2>5. ASSUME NEW i \in 1 .. Len(left)
        PROVE  from(i) \in 1 .. Len(levels) /\ from(i) # at /\ left[i] = levels[from(i)]
    <3>1. i \in 1 .. Len(levels) - 1 /\ at \in Int /\ i \in Int
      BY <2>1, <2>3
    <3> QED BY <1>1, <2>1, <2>4, <3>1
  <2>6. \A i, j \in 1 .. Len(left) : i < j => from(i) < from(j)
    BY <1>1, <2>1, <2>3
  <2>7. \A i \in 1 .. Len(levels) : i # at => \E j \in 1 .. Len(left) : from(j) = i
    <3> SUFFICES ASSUME NEW i \in 1 .. Len(levels), i # at PROVE \E j \in 1 .. Len(left) : from(j) = i
      OBVIOUS
    <3>1. CASE i < at
      <4>1. i \in 1 .. Len(left) /\ from(i) = i
        BY <1>1, <2>1, <2>3, <3>1
      <4> QED BY <4>1
    <3>2. CASE i > at
      <4>1. i - 1 \in 1 .. Len(left) /\ from(i - 1) = i
        BY <1>1, <2>1, <2>3, <3>2
      <4> QED BY <4>1
    <3> QED BY <2>1, <3>1, <3>2
  <2> HIDE DEF from
  <2>8. Sorted(side, left)
    <3> SUFFICES ASSUME NEW i \in 1 .. Len(left), NEW j \in 1 .. Len(left), i < j
                 PROVE  Better(side, left[i].px, left[j].px)
      BY DEF Sorted
    <3> QED BY <1>1, <2>5, <2>6 DEF Sorted
  <2>9. ASSUME NEW i \in 1 .. Len(left)
        PROVE  left[i].px \in DOMAIN known /\ known[left[i].px] = left[i].qty
    <3>1. from(i) \in 1 .. Len(levels) /\ from(i) # at /\ left[i] = levels[from(i)]
      BY <2>5
    <3>2. levels[from(i)].px \in DOMAIN given /\ given[levels[from(i)].px] = levels[from(i)].qty
      BY <3>1 DEF Shows
    <3>3. levels[from(i)].px # p
      <4>1. from(i) < at \/ at < from(i)
        BY <2>1, <3>1
      <4>2. Better(side, levels[from(i)].px, p) \/ Better(side, p, levels[from(i)].px)
        BY <1>1, <2>1, <3>1, <4>1 DEF Sorted
      <4> QED BY <1>2, <4>2, BetterOrders
    <3> QED BY <1>4, <3>1, <3>2, <3>3
  <2>10. ASSUME NEW x \in DOMAIN known \ PricesOf(left)
         PROVE  \E d \in fallen : d = x \/ Better(side, d, x)
    <3>1. x \notin PricesOf(levels)
      <4> SUFFICES ASSUME NEW i \in 1 .. Len(levels), levels[i].px = x PROVE FALSE
        BY <1>1, DomainOfLevels DEF PricesOf
      <4>1. i # at
        BY <1>4, <2>1
      <4>2. PICK j \in 1 .. Len(left) : from(j) = i
        BY <2>7, <4>1
      <4>3. left[j].px = x
        BY <2>5, <4>2
      <4>4. j \in DOMAIN left
        BY <1>3, DomainOfLevels DEF Levels
      <4> QED BY <4>3, <4>4 DEF PricesOf
    <3>2. x \in DOMAIN given
      BY <1>4
    <3> QED BY <1>8, <3>1, <3>2
  <2> QED BY <1>3, <1>5, <2>8, <2>9, <2>10 DEF Shows
<1>7. CASE ~Present(levels, at, p)
  <2>1. left = levels
    BY <1>7 DEF Erase
  <2>2. \A i \in 1 .. Len(levels) : levels[i].px # p
    BY <1>1, <1>2, <1>7, AbsentIsNowhere
  <2> HIDE DEF left, known
  <2>3. ASSUME NEW i \in 1 .. Len(left)
        PROVE  left[i].px \in DOMAIN known /\ known[left[i].px] = left[i].qty
    BY <1>4, <2>1, <2>2 DEF Shows
  <2>4. ASSUME NEW x \in DOMAIN known \ PricesOf(left)
        PROVE  \E d \in fallen : d = x \/ Better(side, d, x)
    <3>1. x \in DOMAIN given /\ x \notin PricesOf(levels)
      BY <1>4, <2>1
    <3> QED BY <1>8, <3>1
  <2> QED BY <1>1, <1>3, <1>5, <2>1, <2>3, <2>4 DEF Shows
<1> QED BY <1>6, <1>7

\* A size, put where its price belongs: the side with it, not yet cut.
LEMMA InsertedShows ==
    ASSUME NEW side, NEW levels, NEW given, NEW fallen, Shows(side, levels, given, fallen),
           NEW p \in Prices, NEW q \in Int,
           ~Present(levels, Locate(side, levels, p), p),
           NEW longer, longer = InsertAt(levels, Locate(side, levels, p), [px |-> p, qty |-> q])
    PROVE  /\ longer \in Seq(Level) /\ Len(longer) = Len(levels) + 1
           /\ Sorted(side, longer)
           /\ PricesOf(longer) = PricesOf(levels) \cup {p}
           /\ \A i \in 1 .. Len(longer) :
                 \/ longer[i].px = p /\ longer[i].qty = q
                 \/ longer[i].px # p /\ \E j \in 1 .. Len(levels) : longer[i] = levels[j]
<1> DEFINE at == Locate(side, levels, p)
           new == [px |-> p, qty |-> q]
<1>1. levels \in Seq(Level) /\ Len(levels) \in Nat /\ Sorted(side, levels)
  BY DEF Shows, Levels
<1>2. p \in Int /\ new \in Level
  BY LadderAssumption DEF Level
<1>3. at \in 1 .. Len(levels) + 1
  BY <1>1, <1>2, LocateBounds
<1>4. longer \in Seq(Level) /\ Len(longer) = Len(levels) + 1
  <2> HIDE DEF at, new
  <2> QED BY <1>1, <1>2, <1>3, InsertAtIsLevels DEF at, new
<1>5. \A i \in 1 .. Len(levels) + 1 :
         longer[i] = IF i < at THEN levels[i] ELSE IF i = at THEN new ELSE levels[i - 1]
  <2> HIDE DEF at, new
  <2> QED BY <1>1, <1>2, <1>3, InsertAtElements DEF at, new
<1>6. /\ \A i \in 1 .. Len(levels) : i < at => Better(side, levels[i].px, p)
      /\ \A i \in 1 .. Len(levels) : i >= at => Better(side, p, levels[i].px)
  <2>1. \A i \in 1 .. Len(levels) : i < at => Better(side, levels[i].px, p)
    BY <1>1, <1>2, LocateParts
  <2>2. \A i \in 1 .. Len(levels) : i > at => Better(side, p, levels[i].px)
    BY <1>1, <1>2, LocateParts
  <2>3. at <= Len(levels) /\ levels[at].px # p => Better(side, p, levels[at].px)
    BY <1>1, <1>2, LocateParts
  <2>4. ASSUME NEW i \in 1 .. Len(levels), i >= at PROVE Better(side, p, levels[i].px)
    <3>1. CASE i > at
      BY <2>2, <3>1
    <3>2. CASE i = at
      <4>1. at <= Len(levels) /\ levels[at].px # p
        BY <1>1, <3>2 DEF Present
      <4> HIDE DEF at
      <4> QED BY <2>3, <3>2, <4>1
    <3> HIDE DEF at
    <3> QED BY <1>1, <1>3, <2>4, <3>1, <3>2
  <2> HIDE DEF at
  <2> QED BY <2>1, <2>4
<1> DEFINE from(i) == IF i < at THEN i ELSE i - 1
<1>7. new.px = p /\ new.qty = q
  OBVIOUS
<1> HIDE DEF at, new
<1>8. ASSUME NEW i \in 1 .. Len(longer)
      PROVE  \/ i = at /\ longer[i] = new
             \/ i # at /\ from(i) \in 1 .. Len(levels) /\ longer[i] = levels[from(i)]
  BY <1>1, <1>3, <1>4, <1>5
<1>9. Sorted(side, longer)
  <2> SUFFICES ASSUME NEW i \in 1 .. Len(longer), NEW j \in 1 .. Len(longer), i < j
               PROVE  Better(side, longer[i].px, longer[j].px)
    BY DEF Sorted
  <2>1. CASE i = at
    <3>1. j # at /\ from(j) >= at /\ from(j) \in 1 .. Len(levels) /\ longer[j] = levels[from(j)]
      BY <1>1, <1>3, <1>8, <2>1
    <3>2. longer[i].px = p
      BY <1>7, <1>8, <2>1
    <3> QED BY <1>6, <3>1, <3>2
  <2>2. CASE j = at
    <3>1. i # at /\ from(i) < at /\ from(i) \in 1 .. Len(levels) /\ longer[i] = levels[from(i)]
      BY <1>1, <1>3, <1>8, <2>2
    <3>2. longer[j].px = p
      BY <1>7, <1>8, <2>2
    <3> QED BY <1>6, <3>1, <3>2
  <2>3. CASE i # at /\ j # at
    <3>1. /\ from(i) \in 1 .. Len(levels) /\ longer[i] = levels[from(i)]
          /\ from(j) \in 1 .. Len(levels) /\ longer[j] = levels[from(j)]
      BY <1>8, <2>3
    <3>2. from(i) < from(j)
      BY <1>1, <1>3, <1>4, <2>3
    <3> HIDE DEF from
    <3> QED BY <1>1, <3>1, <3>2 DEF Sorted
  <2> QED BY <2>1, <2>2, <2>3
<1>10. ASSUME NEW i \in 1 .. Len(longer)
       PROVE  \/ longer[i].px = p /\ longer[i].qty = q
              \/ longer[i].px # p /\ \E j \in 1 .. Len(levels) : longer[i] = levels[j]
  <2>1. CASE i = at
    BY <1>7, <1>8, <2>1
  <2>2. CASE i # at
    <3>1. from(i) \in 1 .. Len(levels) /\ longer[i] = levels[from(i)]
      BY <1>8, <2>2
    <3>2. Better(side, levels[from(i)].px, p) \/ Better(side, p, levels[from(i)].px)
      <4>1. from(i) < at \/ from(i) >= at
        BY <1>1, <1>3, <3>1
      <4> HIDE DEF from
      <4> QED BY <1>6, <3>1, <4>1
    <3>3. levels[from(i)].px # p
      BY <1>2, <3>2, BetterOrders
    <3> HIDE DEF from
    <3> QED BY <3>1, <3>3
  <2> QED BY <2>1, <2>2
<1>11. PricesOf(longer) = PricesOf(levels) \cup {p}
  <2>1. DOMAIN longer = 1 .. Len(longer) /\ DOMAIN levels = 1 .. Len(levels)
    BY <1>1, <1>4, DomainOfLevels
  <2>2. ASSUME NEW i \in 1 .. Len(longer) PROVE longer[i].px \in PricesOf(levels) \cup {p}
    BY <1>10, <2>1 DEF PricesOf
  <2>3. p \in PricesOf(longer)
    <3>1. at \in 1 .. Len(longer)
      BY <1>3, <1>4
    <3>2. longer[at].px = p
      BY <1>7, <1>8, <3>1
    <3> QED BY <2>1, <3>1, <3>2 DEF PricesOf
  <2>4. ASSUME NEW j \in 1 .. Len(levels) PROVE levels[j].px \in PricesOf(longer)
    <3> DEFINE k == IF j < at THEN j ELSE j + 1
    <3>1. k \in 1 .. Len(longer) /\ k # at /\ from(k) = j
      BY <1>1, <1>3, <1>4
    <3> HIDE DEF k, from
    <3>2. longer[k] = levels[j]
      BY <1>8, <3>1
    <3> QED BY <2>1, <3>1, <3>2 DEF PricesOf
  <2> QED BY ZenonT(60), <2>1, <2>2, <2>3, <2>4 DEF PricesOf
<1> QED BY <1>4, <1>9, <1>10, <1>11

\* A size put.
LEMMA PutShows ==
    ASSUME NEW side, NEW levels, NEW given, NEW fallen, Shows(side, levels, given, fallen),
           NEW p \in Prices, NEW q \in Sizes \ {0},
           NEW left, left = Upsert(side, levels, p, q).levels
    PROVE  Shows(side, left, [x \in DOMAIN given \cup {p} |-> IF x = p THEN q ELSE given[x]],
                 fallen \cup ((PricesOf(levels) \cup {p}) \ PricesOf(left)))
<1> DEFINE at == Locate(side, levels, p)
           known == [x \in DOMAIN given \cup {p} |-> IF x = p THEN q ELSE given[x]]
           gone == fallen \cup ((PricesOf(levels) \cup {p}) \ PricesOf(left))
<1> SUFFICES Shows(side, left, known, gone)
  OBVIOUS
<1>1. levels \in Seq(Level) /\ levels \in Levels /\ Len(levels) \in Nat /\ Sorted(side, levels)
  BY DEF Shows, Levels
<1>2. p \in Int \ {0} /\ q \in Int
  BY LadderAssumption
<1>3. left \in Levels
  BY <1>1, <1>2, UpsertIsLevels
<1>4. DOMAIN known = DOMAIN given \cup {p} /\ \A x \in DOMAIN known : known[x] = IF x = p THEN q ELSE given[x]
  OBVIOUS
<1>5. /\ \A i \in 1 .. Len(levels) :
            levels[i].px \in DOMAIN given /\ given[levels[i].px] = levels[i].qty
      /\ DOMAIN given \subseteq Prices /\ (\A x \in DOMAIN given : given[x] \in Sizes \ {0})
      /\ fallen \subseteq Prices
  BY DEF Shows
<1>6. ASSUME NEW x \in DOMAIN given, x \notin PricesOf(levels)
      PROVE  \E d \in fallen : d = x \/ Better(side, d, x)
  BY <1>6 DEF Shows
<1>7. DOMAIN levels = 1 .. Len(levels) /\ DOMAIN left = 1 .. Len(left)
  BY <1>1, <1>3, DomainOfLevels DEF Levels
<1>8. DOMAIN known \subseteq Prices /\ (\A x \in DOMAIN known : known[x] \in Sizes \ {0})
  BY <1>4, <1>5
<1>9. gone \subseteq Prices
  BY <1>5, <1>7 DEF PricesOf
<1>10. CASE Present(levels, at, p)
  <2>1. at \in 1 .. Len(levels) /\ levels[at].px = p
    <3>1. at \in 1 .. Len(levels) + 1
      BY <1>1, <1>2, LocateBounds
    <3> HIDE DEF at
    <3> QED BY <1>1, <1>10, <3>1 DEF Present
  <2>2. left = [levels EXCEPT ![at] = [@ EXCEPT !.qty = q]]
    BY <1>10 DEF Upsert
  <2> HIDE DEF at, known, gone
  <2>3. Len(left) = Len(levels)
    <3>1. [levels[at] EXCEPT !.qty = q] \in Level
      <4>1. levels[at] \in Level
        BY <1>1, <2>1, ElementOfSeq
      <4> QED BY <1>2, <4>1 DEF Level
    <3> QED BY <1>1, <2>1, <2>2, <3>1, ExceptSeq
  <2>4. ASSUME NEW i \in 1 .. Len(levels)
        PROVE  left[i].px = levels[i].px /\ left[i].qty = IF i = at THEN q ELSE levels[i].qty
    <3>1. levels[i] \in Level
      BY <1>1, ElementOfSeq
    <3>2. left[i] = IF i = at THEN [levels[i] EXCEPT !.qty = q] ELSE levels[i]
      BY <1>7, <2>1, <2>2
    <3> QED BY <3>1, <3>2 DEF Level
  <2>5. PricesOf(left) = PricesOf(levels)
    BY <1>7, <2>3, <2>4 DEF PricesOf
  <2>6. Sorted(side, left)
    BY <1>1, <2>3, <2>4 DEF Sorted
  <2>7. ASSUME NEW i \in 1 .. Len(left)
        PROVE  left[i].px \in DOMAIN known /\ known[left[i].px] = left[i].qty
    <3>1. CASE i = at
      BY <1>4, <2>1, <2>3, <2>4, <3>1
    <3>2. CASE i # at
      <4>1. i < at \/ at < i
        BY <2>1, <2>3, <3>2
      <4>2. Better(side, levels[i].px, p) \/ Better(side, p, levels[i].px)
        BY <1>1, <2>1, <2>3, <4>1 DEF Sorted
      <4>3. levels[i].px # p
        BY <1>2, <4>2, BetterOrders
      <4> QED BY <1>4, <1>5, <2>3, <2>4, <3>2, <4>3
    <3> QED BY <3>1, <3>2
  <2>8. ASSUME NEW x \in DOMAIN known \ PricesOf(left)
        PROVE  \E d \in gone : d = x \/ Better(side, d, x)
    <3>1. x # p
      BY <1>7, <2>1, <2>5 DEF PricesOf
    <3>2. x \in DOMAIN given /\ x \notin PricesOf(levels)
      BY <1>4, <2>5, <3>1
    <3> QED BY <1>6, <3>2 DEF gone
  <2> QED BY <1>3, <1>8, <1>9, <2>6, <2>7, <2>8 DEF Shows
<1>11. CASE ~Present(levels, at, p)
  <2> DEFINE longer == InsertAt(levels, at, [px |-> p, qty |-> q])
  <2>1. left = IF Len(levels) = Depth THEN Front(longer) ELSE longer
    BY <1>11 DEF Upsert
  <2>2. /\ longer \in Seq(Level) /\ Len(longer) = Len(levels) + 1
        /\ Sorted(side, longer)
        /\ PricesOf(longer) = PricesOf(levels) \cup {p}
        /\ \A i \in 1 .. Len(longer) :
              \/ longer[i].px = p /\ longer[i].qty = q
              \/ longer[i].px # p /\ \E j \in 1 .. Len(levels) : longer[i] = levels[j]
    BY <1>2, <1>11, InsertedShows
  <2> HIDE DEF at, known, gone, longer
  <2>3. Len(left) \in Nat /\ Len(left) <= Len(longer) /\ \A i \in 1 .. Len(left) : left[i] = longer[i]
    <3>1. CASE Len(levels) = Depth
      BY <1>1, <2>1, <2>2, <3>1, SubSeqProperties, ElementOfSeq DEF Front
    <3>2. CASE Len(levels) # Depth
      BY <1>1, <2>1, <2>2, <3>2
    <3> QED BY <3>1, <3>2
  <2>4. \A i \in 1 .. Len(left) : i \in 1 .. Len(longer)
    BY <1>1, <2>2, <2>3
  <2>5. Sorted(side, left)
    BY <2>2, <2>3, <2>4 DEF Sorted
  <2>6. ASSUME NEW i \in 1 .. Len(left)
        PROVE  left[i].px \in DOMAIN known /\ known[left[i].px] = left[i].qty
    <3>1. left[i] = longer[i] /\ i \in 1 .. Len(longer)
      BY <2>3, <2>4
    <3>2. CASE longer[i].px = p /\ longer[i].qty = q
      BY <1>4, <3>1, <3>2
    <3>3. CASE longer[i].px # p /\ \E j \in 1 .. Len(levels) : longer[i] = levels[j]
      <4>1. longer[i].px \in DOMAIN given /\ given[longer[i].px] = longer[i].qty
        BY <1>5, <3>3
      <4> QED BY <1>4, <3>1, <3>3, <4>1
    <3> QED BY <2>2, <3>1, <3>2, <3>3
  <2>7. ASSUME NEW x \in DOMAIN known \ PricesOf(left)
        PROVE  \E d \in gone : d = x \/ Better(side, d, x)
    <3>1. CASE x \in PricesOf(levels) \cup {p}
      BY <3>1 DEF gone
    <3>2. CASE x \notin PricesOf(levels) \cup {p}
      <4>1. x \in DOMAIN given /\ x \notin PricesOf(levels)
        BY <1>4, <3>2
      <4> QED BY <1>6, <4>1 DEF gone
    <3> QED BY <3>1, <3>2
  <2> QED BY <1>3, <1>8, <1>9, <2>5, <2>6, <2>7 DEF Shows
<1> QED BY <1>10, <1>11

--------------------------------------------------------------------------------
(* A walk of a side.                                                       *)

\* What it means for f to be defined by its equation.
LEMMA RunningSumUnrolls ==
    ASSUME NEW s \in Seq(Int), NEW sum, sum = RunningSum(s)
    PROVE  /\ sum[0] = 0
           /\ \A i \in 1 .. Len(s) : sum[i] = sum[i - 1] + s[i]
           /\ \A i \in 0 .. Len(s) : sum[i] \in Int
<1> DEFINE N == Len(s)
           step == [p \in (1 .. N) \X Int |-> p[2] + s[p[1]]]
           Body(g) == [i \in 0 .. N |-> IF i = 0 THEN 0 ELSE g[i - 1] + s[i]]
<1>1. N \in Nat /\ \A i \in 1 .. N : s[i] \in Int
  OBVIOUS
<1>2. step \in [(1 .. N) \X Int -> Int]
  BY <1>1
<1> DEFINE zero == 0
<1>3. PICK f \in [0 .. N -> Int] : Unrolled(f, N, zero, step)
  <2>1. zero \in Int
    OBVIOUS
  <2> HIDE DEF step, N, zero
  <2> QED BY <1>1, <1>2, <2>1, Recursion
<1>4. f = Body(f)
  <2>1. ASSUME NEW i \in 0 .. N PROVE f[i] = IF i = 0 THEN 0 ELSE f[i - 1] + s[i]
    <3>1. CASE i = 0
      BY <1>3, <3>1 DEF Unrolled
    <3>2. CASE i # 0
      <4>1. i \in 1 .. N /\ i - 1 \in 0 .. N
        BY <1>1, <3>2
      <4>2. f[i] = step[<<i, f[i - 1]>>]
        BY <1>3, <4>1 DEF Unrolled
      <4> QED BY <3>2, <4>1, <4>2
    <3> QED BY <3>1, <3>2
  <2> QED BY <2>1
<1>5. sum = Body(sum)
  <2>1. sum = CHOOSE g : g = Body(g)
    BY DEF RunningSum
  <2> HIDE DEF Body
  <2> QED BY <1>4, <2>1
<1>6. \A i \in 0 .. N : sum[i] = IF i = 0 THEN 0 ELSE sum[i - 1] + s[i]
  <2> HIDE DEF step
  <2> QED BY <1>5
<1> HIDE DEF Body, step
<1>7. sum[0] = 0 /\ \A i \in 1 .. N : sum[i] = sum[i - 1] + s[i]
  BY <1>1, <1>6
<1> DEFINE S == {i \in 0 .. N : sum[i] \in Int}
<1>8. 0 \in S
  BY <1>1, <1>7
<1>9. ASSUME NEW i \in 0 .. N - 1, i \in S PROVE i + 1 \in S
  BY <1>1, <1>7, <1>9
<1>10. \A i \in 0 .. N : i \in S
  <2> HIDE DEF S, N
  <2> QED BY <1>1, <1>8, <1>9, Climb
<1> QED BY <1>7, <1>10

LEMMA ScaleIsPositive == E8 \in Nat \ {0}
<1> DEFINE f == Ten
<1>1. f = CHOOSE g : g = [k \in Nat |-> IF k = 0 THEN 1 ELSE 10 * g[k - 1]]
  BY DEF Ten
<1>2. 10 \in Nat \ {0} /\ E8Digits \in Nat
  BY FixedAssumption
<1> HIDE DEF f
<1>3. \A k \in Nat : f[k] \in Nat \ {0}
  BY <1>1, <1>2, PowersOf
<1> QED BY <1>2, <1>3 DEF f, E8

LEMMA NotionalIsInt ==
    ASSUME NEW take \in Int, NEW px \in Int
    PROVE  Notional(take, px) \in Int
<1> DEFINE a == take * px
           m(x) == IF x < 0 THEN -x ELSE x
<1>1. a \in Int
  OBVIOUS
<1>2. E8 \in Nat \ {0}
  BY ScaleIsPositive
<1>3. Notional(take, px) = IF (a < 0) = (E8 < 0) THEN m(a) \div m(E8) ELSE -(m(a) \div m(E8))
  BY DEF Notional, Quotient
<1> HIDE DEF a
<1>4. m(E8) = E8 /\ m(a) \in Nat
  BY <1>1, <1>2
<1> HIDE DEF m
<1>5. m(a) \div E8 \in Int
  BY <1>2, <1>4, Division
<1> QED BY <1>3, <1>4, <1>5

\* The value of a fill of a level, truncated: short by less than a unit.
LEMMA NotionalTruncates ==
    ASSUME NEW take \in Nat, NEW px \in Nat
    PROVE  /\ Notional(take, px) \in Int
           /\ Notional(take, px) * E8 <= take * px
           /\ take * px <= Notional(take, px) * E8 + E8 - 1
<1> DEFINE a == take * px
           m(x) == IF x < 0 THEN -x ELSE x
<1>1. a \in Nat
  OBVIOUS
<1>2. E8 \in Nat \ {0}
  BY ScaleIsPositive
<1>3. Notional(take, px) = IF (a < 0) = (E8 < 0) THEN m(a) \div m(E8) ELSE -(m(a) \div m(E8))
  BY DEF Notional, Quotient
<1> HIDE DEF a
<1>4. Notional(take, px) = a \div E8
  BY <1>1, <1>2, <1>3
<1>5. a \div E8 \in Int /\ a = E8 * (a \div E8) + (a % E8) /\ a % E8 \in 0 .. E8 - 1
  BY <1>1, <1>2, Division, SlotInRange
<1> DEFINE n == a \div E8
           r == a % E8
<1>6. n * E8 = E8 * n
  BY <1>2, <1>5
<1> HIDE DEF n, r
<1>7. n * E8 \in Int /\ n \in Int /\ a = n * E8 + r /\ r \in 0 .. E8 - 1
  BY <1>2, <1>5, <1>6 DEF n, r
<1> DEFINE w == n * E8
<1> HIDE DEF w
<1>8. w <= a /\ a <= w + E8 - 1
  BY <1>1, <1>2, <1>7 DEF w
<1> QED BY <1>4, <1>5, <1>7, <1>8 DEF n, w, a

Taking == [filled : Int, notional : Int, levels : Int]

LEMMA TakeLevelIsTaking ==
    ASSUME NEW size \in Int, NEW t \in Taking, NEW level \in Level
    PROVE  TakeLevel(size, t, level) \in Taking
<1> DEFINE want == size - t.filled
           take == IF want < level.qty THEN want ELSE level.qty
<1>1. t.filled \in Int /\ t.notional \in Int /\ t.levels \in Int
      /\ level.qty \in Int /\ level.px \in Int
  BY DEF Taking, Level
<1>2. take \in Int
  BY <1>1
<1>3. TakeLevel(size, t, level) =
         IF t.filled >= size THEN t
         ELSE [filled |-> t.filled + take, notional |-> t.notional + Notional(take, level.px),
               levels |-> t.levels + 1]
  BY DEF TakeLevel
<1> HIDE DEF take
<1>4. Notional(take, level.px) \in Int
  BY <1>1, <1>2, NotionalIsInt
<1> QED BY <1>1, <1>2, <1>3, <1>4 DEF Taking

LEMMA WalkUnrolls ==
    ASSUME NEW levels \in Seq(Level), NEW size \in Int, NEW walk, walk = Walk(levels, size)
    PROVE  /\ walk[0] = NothingTaken
           /\ \A i \in 1 .. Len(levels) : walk[i] = TakeLevel(size, walk[i - 1], levels[i])
           /\ \A i \in 0 .. Len(levels) : walk[i] \in Taking
<1> DEFINE N == Len(levels)
           step == [p \in (1 .. N) \X Taking |-> TakeLevel(size, p[2], levels[p[1]])]
           Body(g) == [i \in 0 .. N |->
                         IF i = 0 THEN NothingTaken ELSE TakeLevel(size, g[i - 1], levels[i])]
<1>1. N \in Nat /\ \A i \in 1 .. N : levels[i] \in Level
  BY ElementOfSeq
<1>2. NothingTaken \in Taking
  BY DEF NothingTaken, Taking
<1>3. step \in [(1 .. N) \X Taking -> Taking]
  <2> SUFFICES ASSUME NEW p \in (1 .. N) \X Taking PROVE TakeLevel(size, p[2], levels[p[1]]) \in Taking
    OBVIOUS
  <2>1. p[2] \in Taking /\ levels[p[1]] \in Level
    BY <1>1
  <2> QED BY <2>1, TakeLevelIsTaking
<1>4. PICK f \in [0 .. N -> Taking] : Unrolled(f, N, NothingTaken, step)
  <2> HIDE DEF step, N
  <2> QED BY <1>1, <1>2, <1>3, Recursion
<1>5. \A i \in 1 .. N : f[i] = TakeLevel(size, f[i - 1], levels[i])
  <2> SUFFICES ASSUME NEW i \in 1 .. N PROVE f[i] = TakeLevel(size, f[i - 1], levels[i])
    OBVIOUS
  <2>1. f[i] = step[<<i, f[i - 1]>>]
    BY <1>4 DEF Unrolled
  <2>2. i - 1 \in 0 .. N
    BY <1>1
  <2>3. <<i, f[i - 1]>> \in (1 .. N) \X Taking
    BY <2>2
  <2> QED BY <2>1, <2>3
<1>6. f = Body(f)
  <2>1. ASSUME NEW i \in 0 .. N
        PROVE  f[i] = IF i = 0 THEN NothingTaken ELSE TakeLevel(size, f[i - 1], levels[i])
    <3>1. CASE i = 0
      BY <1>4, <3>1 DEF Unrolled
    <3>2. CASE i # 0
      <4>1. i \in 1 .. N
        BY <1>1, <3>2
      <4> QED BY <1>5, <3>2, <4>1
    <3> QED BY <3>1, <3>2
  <2> QED BY <2>1
<1>7. walk = Body(walk)
  <2>1. walk = CHOOSE g : g = Body(g)
    BY DEF Walk
  <2> HIDE DEF Body
  <2> QED BY <1>6, <2>1
<1>8. \A i \in 0 .. N : walk[i] = IF i = 0 THEN NothingTaken ELSE TakeLevel(size, walk[i - 1], levels[i])
  <2> HIDE DEF step
  <2> QED BY <1>7
<1> HIDE DEF Body, step
<1>9. walk[0] = NothingTaken /\ \A i \in 1 .. N : walk[i] = TakeLevel(size, walk[i - 1], levels[i])
  BY <1>1, <1>8
<1> DEFINE S == {i \in 0 .. N : walk[i] \in Taking}
<1>10. 0 \in S
  BY <1>1, <1>2, <1>9
<1>11. ASSUME NEW i \in 0 .. N - 1, i \in S PROVE i + 1 \in S
  <2>1. i + 1 \in 1 .. N /\ (i + 1) - 1 = i /\ i + 1 \in 0 .. N
    BY <1>1
  <2>2. walk[i + 1] = TakeLevel(size, walk[i], levels[i + 1])
    BY <1>9, <2>1
  <2>3. walk[i] \in Taking /\ levels[i + 1] \in Level
    BY <1>1, <1>11, <2>1
  <2> QED BY <2>1, <2>2, <2>3, TakeLevelIsTaking
<1>12. \A i \in 0 .. N : i \in S
  <2> HIDE DEF S, N
  <2> QED BY <1>1, <1>10, <1>11, Climb
<1> QED BY <1>9, <1>12


LEMMA MinOfTwo ==
    ASSUME NEW a \in Int, NEW b \in Int
    PROVE  Min({a, b}) = IF a < b THEN a ELSE b
<1>1. \E x \in {a, b} : \A y \in {a, b} : x <= y
  <2>1. CASE a <= b
    BY <2>1
  <2>2. CASE b <= a
    BY <2>2
  <2> QED BY <2>1, <2>2
<1>2. Min({a, b}) \in {a, b} /\ Min({a, b}) <= a /\ Min({a, b}) <= b
  BY <1>1 DEF Min
<1> QED BY <1>2

\* One more term, truncated, under a sum of i truncated ones.
LEMMA TruncatedSum ==
    ASSUME NEW e \in Nat \ {0}, NEW n \in Int, NEW m \in Int, NEW i \in Nat, NEW x \in Int, NEW a \in Int,
           n * e <= x, x <= (n + i) * e - i, m * e <= a, a <= m * e + e - 1
    PROVE  (n + m) * e <= x + a /\ x + a <= ((n + m) + (i + 1)) * e - (i + 1)
<1> DEFINE ne == n * e
           me == m * e
           ie == i * e
<1>1. ne \in Int /\ me \in Int /\ ie \in Int
  OBVIOUS
<1>2. (n + m) * e = ne + me /\ (n + i) * e = ne + ie /\ ((n + m) + (i + 1)) * e = ne + me + ie + e
  OBVIOUS
<1>3. ne <= x /\ x <= (ne + ie) - i /\ me <= a /\ a <= me + e - 1
  BY <1>2
<1> HIDE DEF ne, me, ie
<1>4. ne + me <= x + a /\ x + a <= (ne + me + ie + e) - (i + 1)
  BY <1>1, <1>3
<1> QED BY <1>2, <1>4

LEMMA CumulativeOfSide ==
    ASSUME NEW levels \in Seq(Level), Len(levels) <= Depth
    PROVE  LET sum == RunningSum([j \in 1 .. Len(levels) |-> levels[j].qty])
           IN  /\ Cumulative(levels, Depth) = [i \in 1 .. Len(levels) |-> sum[i]]
               /\ sum[0] = 0
               /\ \A i \in 1 .. Len(levels) : sum[i] = sum[i - 1] + levels[i].qty
               /\ \A i \in 0 .. Len(levels) : sum[i] \in Int
<1> DEFINE N == Len(levels)
           sizes == [j \in 1 .. N |-> levels[j].qty]
           sum == RunningSum(sizes)
<1>1. N \in Nat /\ \A i \in 1 .. N : levels[i].qty \in Int
  BY PriceOfLevel
<1>2. sizes \in [1 .. N -> Int]
  BY <1>1
<1>3. sizes \in Seq(Int) /\ Len(sizes) = N
  <2> HIDE DEF sizes, N
  <2> QED BY <1>1, <1>2, SeqOfFunction
<1>4. Len(TopLevels(levels, Depth)) = N
  <2>1. TopLevels(levels, Depth) = SubSeq(levels, 1, N)
    BY BookAssumption DEF TopLevels
  <2>2. Len(SubSeq(levels, 1, N)) = N
    BY SubSeqProperties
  <2> QED BY <2>1, <2>2
<1>5. Cumulative(levels, Depth) = [i \in 1 .. N |-> sum[i]]
  BY <1>4 DEF Cumulative
<1>6. sum[0] = 0 /\ (\A i \in 1 .. N : sum[i] = sum[i - 1] + sizes[i]) /\ \A i \in 0 .. N : sum[i] \in Int
  <2> HIDE DEF sizes, N
  <2> QED BY <1>3, RunningSumUnrolls
<1>7. \A i \in 1 .. N : sizes[i] = levels[i].qty
  OBVIOUS
<1> HIDE DEF sizes
<1> QED BY <1>5, <1>6, <1>7 DEF sizes


\* A walk of a side of positive sizes is the one the running total says.
LEMMA WalkStaysExact ==
    ASSUME NEW levels \in Seq(Level), levels # <<>>, Len(levels) <= Depth,
           \A i \in 1 .. Len(levels) : levels[i].px \in Nat /\ levels[i].qty \in Nat \ {0},
           NEW size \in Nat \ {0}
    PROVE  WalkIsExact(levels, size)
<1> DEFINE N == Len(levels)
           cum == Cumulative(levels, Depth)
           sum == RunningSum([j \in 1 .. Len(levels) |-> levels[j].qty])
           need == Needed(levels, size)
           walk == Walk(levels, size)
           filled == walk[N].filled
           taken == TakenOf(levels, filled, need)
           products == [i \in 1 .. need |-> levels[i].px * taken[i]]
           exact == RunningSum(products)
<1>1. N \in Nat \ {0} /\ \A i \in 1 .. N : levels[i] \in Level /\ levels[i].px \in Nat /\ levels[i].qty \in Nat \ {0}
  BY PriceOfLevel
<1>2. /\ cum = [i \in 1 .. N |-> sum[i]] /\ sum[0] = 0
      /\ \A i \in 1 .. N : sum[i] = sum[i - 1] + levels[i].qty
      /\ \A i \in 0 .. N : sum[i] \in Int
  BY CumulativeOfSide
<1>3. /\ walk[0] = NothingTaken
      /\ \A i \in 1 .. N : walk[i] = TakeLevel(size, walk[i - 1], levels[i])
      /\ \A i \in 0 .. N : walk[i] \in Taking
  BY WalkUnrolls
<1>4. Fill(levels, size).filled = filled /\ Fill(levels, size).levels = walk[N].levels
      /\ Fill(levels, size).notional = walk[N].notional
  BY DEF Fill
<1> HIDE DEF sum, walk
<1>5. /\ need \in 1 .. N
      /\ \A k \in 1 .. N : k < need => sum[k] < size
      /\ need < N => sum[need] >= size
  <2> DEFINE S == {k \in DOMAIN levels : cum[k] >= size} \cup {N}
  <2>1. S = {k \in 1 .. N : sum[k] >= size} \cup {N}
    BY <1>2, DomainOfLevels
  <2>2. need = Min(S)
    BY DEF Needed
  <2> HIDE DEF S, need, cum, N
  <2>3. S \subseteq Nat /\ S # {}
    BY <1>1, <2>1
  <2>4. need \in S /\ \A y \in S : need <= y
    BY <2>2, <2>3, MinOfNats
  <2>5. ASSUME NEW k \in 1 .. N, k < need PROVE sum[k] < size
    <3>1. sum[k] \in Int /\ k \notin S
      BY <1>1, <1>2, <2>4, <2>5, <2>1
    <3> QED BY <2>1, <3>1
  <2> QED BY <1>1, <2>1, <2>4, <2>5
<1> HIDE DEF need, N, cum
<1>6. ASSUME NEW i \in 0 .. need - 1 PROVE sum[i] < size
  <2>1. CASE i = 0
    BY <1>2, <2>1
  <2>2. CASE i # 0
    <3>1. i \in 1 .. N /\ i < need
      BY <1>1, <1>5, <2>2
    <3> QED BY <1>5, <3>1
  <2> QED BY <2>1, <2>2
\* Levels that are taken whole.
<1> DEFINE A == {i \in 0 .. need - 1 : walk[i].filled = sum[i] /\ walk[i].levels = i}
<1>7. \A i \in 0 .. need - 1 : i \in A
  <2>1. 0 \in A
    BY <1>1, <1>2, <1>3, <1>5 DEF NothingTaken
  <2>2. ASSUME NEW i \in 0 .. (need - 1) - 1, i \in A PROVE i + 1 \in A
    <3>1. i \in 0 .. N /\ i + 1 \in 1 .. N /\ (i + 1) - 1 = i /\ i + 1 \in 0 .. need - 1 /\ i \in 0 .. need - 1
      BY <1>1, <1>5
    <3>2. walk[i + 1] = TakeLevel(size, walk[i], levels[i + 1])
      BY <1>3, <3>1
    <3>3. sum[i] < size /\ sum[i + 1] < size /\ sum[i + 1] = sum[i] + levels[i + 1].qty
          /\ sum[i] \in Int /\ sum[i + 1] \in Int /\ levels[i + 1].qty \in Int
      <4>1. i \in 0 .. need - 1 /\ i + 1 \in 0 .. need - 1
        BY <3>1
      <4>2. sum[i] < size /\ sum[i + 1] < size
        BY <1>6, <4>1
      <4>3. sum[i + 1] = sum[i] + levels[i + 1].qty
        BY <1>2, <3>1
      <4>4. sum[i] \in Int /\ sum[i + 1] \in Int /\ levels[i + 1].qty \in Int
        BY <1>1, <1>2, <3>1
      <4> QED BY <4>2, <4>3, <4>4
    <3>4. walk[i].filled = sum[i] /\ walk[i].levels = i
      BY <2>2
    <3> HIDE DEF A
    <3>5. walk[i + 1].filled = sum[i + 1] /\ walk[i + 1].levels = i + 1
      BY <3>2, <3>3, <3>4 DEF TakeLevel
    <3> QED BY <3>1, <3>5 DEF A
  <2> HIDE DEF A
  <2>3. need - 1 \in Nat
    BY <1>1, <1>5
  <2> QED BY <2>1, <2>2, <2>3, Climb
<1> DEFINE before == sum[need - 1]
           want == size - before
           last == IF want < levels[need].qty THEN want ELSE levels[need].qty
<1>8. before \in Int /\ before < size /\ walk[need - 1].filled = before /\ walk[need - 1].levels = need - 1
      /\ sum[need] = before + levels[need].qty /\ levels[need].qty \in Nat \ {0} /\ need - 1 \in 0 .. N
  <2>1. need - 1 \in 0 .. need - 1 /\ need - 1 \in 0 .. N
    BY <1>1, <1>5
  <2>2. need - 1 \in A
    BY <1>7, <2>1
  <2> QED BY <1>1, <1>2, <1>5, <1>6, <2>1, <2>2
<1>9. last \in Nat \ {0} /\ before + last = IF size < sum[need] THEN size ELSE sum[need]
  <2> HIDE DEF before
  <2> QED BY <1>8
<1>10. walk[need] = [filled |-> before + last, notional |-> walk[need - 1].notional + Notional(last, levels[need].px),
                     levels |-> need]
  <2>1. walk[need] = TakeLevel(size, walk[need - 1], levels[need])
    BY <1>3, <1>5
  <2>2. walk[need - 1].filled < size
    BY <1>8
  <2>3. walk[need - 1].levels + 1 = need
    BY <1>5, <1>8
  <2> DEFINE prior == walk[need - 1]
  <2>4. prior.filled = before /\ ~(before >= size) /\ prior.levels + 1 = need
    BY <1>8, <2>3
  <2> HIDE DEF prior
  <2>5. TakeLevel(size, prior, levels[need]) =
           [filled |-> before + last, notional |-> prior.notional + Notional(last, levels[need].px), levels |-> need]
    <3> HIDE DEF before
    <3> QED BY <2>4 DEF TakeLevel
  <2> QED BY <2>1, <2>5 DEF prior
<1> HIDE DEF last
\* What is behind them is not touched.
<1>11. walk[N] = walk[need]
  <2>1. CASE need = N
    BY <2>1
  <2>2. CASE need # N
    <3>1. walk[need].filled = size
      <4> HIDE DEF before
      <4>1. need < N
        BY <1>1, <1>5, <2>2
      <4>2. sum[need] >= size /\ sum[need] \in Int
        BY <1>2, <1>5, <4>1
      <4>3. before + last = size
        BY <1>9, <4>2
      <4> QED BY <1>10, <4>3
    <3> DEFINE B == {i \in 0 .. N : i >= need => walk[i] = walk[need]}
    <3>2. 0 \in B
      BY <1>1, <1>5
    <3>3. ASSUME NEW i \in 0 .. N - 1, i \in B PROVE i + 1 \in B
      <4>1. i + 1 \in 1 .. N /\ i + 1 \in 0 .. N /\ (i + 1) - 1 = i
        BY <1>1
      <4>2. CASE i + 1 > need
        <5>1. walk[i] = walk[need]
          BY <1>5, <3>3, <4>2
        <5>2. walk[i + 1] = TakeLevel(size, walk[need], levels[i + 1])
          BY <1>3, <4>1, <5>1
        <5>3. walk[i + 1] = walk[need]
          BY <3>1, <5>2 DEF TakeLevel
        <5> QED BY <4>1, <5>3
      <4>3. CASE ~(i + 1 > need)
        BY <1>5, <4>1, <4>3
      <4> QED BY <4>2, <4>3
    <3>4. \A i \in 0 .. N : i \in B
      <4> HIDE DEF B
      <4> QED BY <1>1, <3>2, <3>3, Climb
    <3> QED BY <1>1, <1>5, <3>4
  <2> QED BY <2>1, <2>2
<1>12. filled = before + last /\ walk[N].levels = need
  BY <1>10, <1>11
<1>13. filled = Min({size, cum[N]})
  <2>1. cum[N] = sum[N] /\ sum[N] \in Int
    BY <1>1, <1>2
  <2>2. filled = IF size < sum[N] THEN size ELSE sum[N]
    <3>1. CASE need = N
      BY <1>9, <1>12, <3>1
    <3>2. CASE need # N
      <4>1. sum[need] >= size
        BY <1>1, <1>5, <3>2
      <4> DEFINE B == {i \in 0 .. N : i >= need => sum[i] >= size}
      <4>2. 0 \in B
        BY <1>1, <1>5
      <4>3. ASSUME NEW i \in 0 .. N - 1, i \in B PROVE i + 1 \in B
        <5>1. i + 1 \in 1 .. N /\ i + 1 \in 0 .. N /\ (i + 1) - 1 = i /\ i \in 0 .. N
          BY <1>1
        <5>2. sum[i + 1] = sum[i] + levels[i + 1].qty /\ sum[i] \in Int /\ levels[i + 1].qty \in Nat
          BY <1>1, <1>2, <5>1
        <5>3. i + 1 > need => i >= need
          BY <1>5
        <5>4. i + 1 >= need => sum[i + 1] >= size
          <6>1. CASE i + 1 = need
            BY <4>1, <6>1
          <6>2. CASE i + 1 > need
            BY <4>3, <5>2, <5>3, <6>2
          <6> QED BY <1>5, <6>1, <6>2
        <5> QED BY <5>1, <5>4
      <4>4. \A i \in 0 .. N : i \in B
        <5> HIDE DEF B
        <5> QED BY <1>1, <4>2, <4>3, Climb
      <4>5. sum[N] >= size
        BY <1>1, <1>5, <4>4
      <4>6. need \in 0 .. N /\ sum[need] \in Int
        BY <1>1, <1>2, <1>5
      <4>7. filled = size
        BY <1>9, <1>12, <4>1, <4>6
      <4> QED BY <2>1, <4>5, <4>7
    <3> QED BY <3>1, <3>2
  <2>3. {size, sum[N]} # {} /\ Min({size, sum[N]}) = IF size < sum[N] THEN size ELSE sum[N]
    BY <2>1, MinOfTwo
  <2> HIDE DEF filled
  <2> QED BY <2>1, <2>2, <2>3
\* What each level gives.
<1>14. \A i \in 1 .. need : taken[i] = IF i < need THEN levels[i].qty ELSE last
  <2>1. filled - (IF need = 1 THEN 0 ELSE cum[need - 1]) = last
    <3>1. CASE need = 1
      <4>1. before = 0
        BY <1>2, <3>1
      <4> QED BY <1>9, <1>12, <3>1, <4>1
    <3>2. CASE need # 1
      <4>1. need - 1 \in 1 .. N
        BY <1>1, <1>5, <3>2
      <4>2. cum[need - 1] = before
        BY <1>2, <4>1
      <4> HIDE DEF before, filled
      <4> QED BY <1>8, <1>9, <1>12, <3>2, <4>2
    <3> QED BY <3>1, <3>2
  <2>2. taken = [i \in 1 .. need |-> IF i < need THEN levels[i].qty
                                    ELSE filled - (IF need = 1 THEN 0 ELSE cum[need - 1])]
    BY DEF TakenOf, cum
  <2> HIDE DEF filled, taken, before
  <2> QED BY <2>1, <2>2
<1> HIDE DEF taken
<1>15. ASSUME NEW i \in 1 .. need
       PROVE  /\ i \in 1 .. N /\ i - 1 \in 0 .. N
              /\ taken[i] \in Nat /\ levels[i].px \in Nat
              /\ walk[i].notional = walk[i - 1].notional + Notional(taken[i], levels[i].px)
  <2>1. i \in 1 .. N /\ i - 1 \in 0 .. need - 1 /\ i - 1 \in 0 .. N /\ levels[i].px \in Nat /\ levels[i].qty \in Nat
    BY <1>1, <1>5
  <2>2. taken[i] \in Nat
    BY <1>9, <1>14, <2>1
  <2>3. CASE i = need
    <3>1. taken[i] = last
      BY <1>14, <2>3
    <3> QED BY <1>10, <2>1, <2>2, <2>3, <3>1
  <2>4. CASE i < need
    <3>1. taken[i] = levels[i].qty
      BY <1>14, <2>4
    <3>2. walk[i] = TakeLevel(size, walk[i - 1], levels[i])
      BY <1>3, <2>1
    <3>3. i - 1 \in A /\ sum[i - 1] < size /\ sum[i] < size /\ sum[i] = sum[i - 1] + levels[i].qty
          /\ sum[i - 1] \in Int
      BY <1>2, <1>5, <1>6, <1>7, <2>1, <2>4
    <3>4. walk[i - 1].filled = sum[i - 1]
      BY <3>3
    <3> DEFINE prior == walk[i - 1]
               level == levels[i]
    <3>5. prior.filled = sum[i - 1] /\ ~(prior.filled >= size) /\ ~(size - prior.filled < level.qty)
      BY <2>1, <3>3, <3>4
    <3> HIDE DEF prior, level
    <3>6. TakeLevel(size, prior, level).notional = prior.notional + Notional(level.qty, level.px)
      BY <3>5 DEF TakeLevel
    <3> QED BY <2>1, <2>2, <3>1, <3>2, <3>6 DEF prior, level
  <2> QED BY <1>5, <2>1, <2>3, <2>4
<1>16. /\ exact[0] = 0 /\ (\A i \in 1 .. need : exact[i] = exact[i - 1] + levels[i].px * taken[i])
       /\ \A i \in 0 .. need : exact[i] \in Int
  <2>1. \A i \in 1 .. need : levels[i].px * taken[i] \in Int
    BY <1>15
  <2>2. products \in [1 .. need -> Int] /\ \A i \in 1 .. need : products[i] = levels[i].px * taken[i]
    BY <2>1
  <2> HIDE DEF products
  <2>3. products \in Seq(Int) /\ Len(products) = need
    <3>1. need \in Nat
      BY <1>5
    <3> QED BY <2>2, <3>1, SeqOfFunction
  <2>4. exact[0] = 0 /\ (\A i \in 1 .. need : exact[i] = exact[i - 1] + products[i])
        /\ \A i \in 0 .. need : exact[i] \in Int
    BY <2>3, RunningSumUnrolls
  <2> QED BY <2>2, <2>4
<1> HIDE DEF exact
<1> DEFINE C == {i \in 0 .. need : /\ walk[i].notional * E8 <= exact[i]
                                   /\ exact[i] <= (walk[i].notional + i) * E8 - i}
<1>17. \A i \in 0 .. need : i \in C
  <2>0. E8 \in Nat \ {0}
    BY ScaleIsPositive
  <2>1. 0 \in C
    <3>1. walk[0].notional = 0 /\ exact[0] = 0
      BY <1>3, <1>16 DEF NothingTaken
    <3>2. 0 * E8 = 0 /\ (0 + 0) * E8 = 0 /\ 0 \in 0 .. need
      BY <1>5, <2>0
    <3> QED BY <3>1, <3>2
  <2>2. ASSUME NEW i \in 0 .. need - 1, i \in C PROVE i + 1 \in C
    <3> DEFINE t == taken[i + 1]
               px == levels[i + 1].px
               m == Notional(t, px)
               a == px * t
               n == walk[i].notional
               x == exact[i]
    <3>1. i + 1 \in 1 .. need /\ (i + 1) - 1 = i /\ i + 1 \in 0 .. need /\ i \in 0 .. N /\ i \in Nat
      BY <1>1, <1>5
    <3>2. t \in Nat /\ px \in Nat /\ walk[i + 1].notional = n + m
      BY <1>15, <3>1
    <3>3. exact[i + 1] = x + a /\ x \in Int
      <4>1. exact[i + 1] = exact[(i + 1) - 1] + levels[i + 1].px * taken[i + 1]
        BY <1>16, <3>1
      <4>2. (i + 1) - 1 = i /\ i \in 0 .. need
        BY <3>1, <1>5
      <4> QED BY <1>16, <4>1, <4>2
    <3>4. a = t * px /\ a \in Int
      BY <3>2
    <3>5. m \in Int /\ m * E8 <= a /\ a <= m * E8 + E8 - 1
      <4>1. m \in Int /\ m * E8 <= t * px /\ t * px <= m * E8 + E8 - 1
        <5> HIDE DEF t, px
        <5> QED BY <3>2, NotionalTruncates
      <4> QED BY <3>4, <4>1
    <3>6. n \in Int
      <4>1. walk[i] \in Taking
        BY <1>3, <3>1
      <4> QED BY <4>1 DEF Taking
    <3>7. n * E8 <= x /\ x <= (n + i) * E8 - i
      BY <2>2
    <3> HIDE DEF t, px, m, a, n, x, C
    <3>8. (n + m) * E8 <= x + a /\ x + a <= ((n + m) + (i + 1)) * E8 - (i + 1)
      BY <2>0, <3>1, <3>3, <3>4, <3>5, <3>6, <3>7, TruncatedSum
    <3> QED BY <3>1, <3>2, <3>3, <3>8 DEF C
  <2> HIDE DEF C
  <2>3. need \in Nat
    BY <1>5
  <2> QED BY <2>1, <2>2, <2>3, Climb
<1>18. walk[N].notional * E8 <= exact[need] /\ exact[need] < (walk[N].notional + need) * E8
  <2> DEFINE n == walk[need].notional
  <2>1. need \in 0 .. need /\ need \in Nat \ {0} /\ need \in 0 .. N
    BY <1>1, <1>5
  <2>2. n * E8 <= exact[need] /\ exact[need] <= (n + need) * E8 - need
    BY <1>17, <2>1
  <2>3. n \in Int
    <3>1. walk[need] \in Taking
      BY <1>3, <2>1
    <3> QED BY <3>1 DEF Taking
  <2>4. (n + need) * E8 \in Int /\ exact[need] \in Int
    BY <1>16, <2>1, <2>3, ScaleIsPositive
  <2> DEFINE bound == (n + need) * E8
  <2>5. exact[need] < bound
    <3>1. exact[need] <= bound - need /\ bound \in Int /\ exact[need] \in Int
      BY <2>2, <2>4
    <3> HIDE DEF bound
    <3> QED BY <2>1, <3>1
  <2> QED BY <1>11, <2>2, <2>5
<1> HIDE DEF filled, C, A
<1>19. WalkIsExact(levels, size) <=>
         /\ filled = Min({size, cum[N]})
         /\ walk[N].levels = need
         /\ walk[N].notional * E8 <= exact[need] /\ exact[need] < (walk[N].notional + need) * E8
  BY <1>4 DEF WalkIsExact, cum, N, need, exact, taken, products
<1> QED BY <1>12, <1>13, <1>18, <1>19

--------------------------------------------------------------------------------
(* The theorem.                                                            *)

LadderInv == ladSide \in Sides /\ Shows(ladSide, ladLevels, ladTrue, ladFallen)

LEMMA AfterIsOfTheSide ==
    ASSUME ladSide \in Sides, NEW p, NEW q
    PROVE  /\ After("DepthReset", p, q) = <<>>
           /\ q = 0 => After("Depth", p, q) = Erase(ladSide, ladLevels, p)
           /\ q # 0 => After("Depth", p, q) = Upsert(ladSide, ladLevels, p, q).levels
<1> DEFINE b == [EmptyBook EXCEPT ![ladSide] = ladLevels]
           m(kind) == [kind |-> kind, side |-> ladSide, px |-> p, qty |-> q, seq |-> 1]
<1>1. b[ladSide] = ladLevels /\ ladSide \in DOMAIN b /\ DOMAIN b = {"Bid", "Ask", "overflowed", "lastSeq", "applied"}
  BY DEF EmptyBook, Sides
<1>2. ladSide \notin {"overflowed", "lastSeq", "applied"}
  BY DEF Sides
<1> HIDE DEF b
<1>3. After("DepthReset", p, q) = <<>>
  BY <1>1, <1>2 DEF After, Apply, Reset, BookKinds, b
<1>4. ASSUME q = 0 PROVE After("Depth", p, q) = Erase(ladSide, ladLevels, p)
  <2>1. After("Depth", p, q) = Delete(b, m("Depth")).book[ladSide]
    BY <1>4 DEF After, Apply, BookKinds, b
  <2>2. Delete(b, m("Depth")).book[ladSide] = Erase(ladSide, b[ladSide], p)
    BY <1>1, <1>2 DEF Delete
  <2> QED BY <1>1, <2>1, <2>2
<1>5. ASSUME q # 0 PROVE After("Depth", p, q) = Upsert(ladSide, ladLevels, p, q).levels
  <2>1. After("Depth", p, q) = Put(b, m("Depth")).book[ladSide]
    BY <1>5 DEF After, Apply, BookKinds, b
  <2> DEFINE put == Upsert(ladSide, b[ladSide], p, q)
  <2>2. Put(b, m("Depth")).book[ladSide] = put.levels
    <3>1. Put(b, m("Depth")).book =
             [b EXCEPT ![ladSide] = put.levels,
                       !.overflowed[ladSide] = @ + (IF put.overflows THEN 1 ELSE 0),
                       !.lastSeq = 1, !.applied = @ + 1]
      BY DEF Put
    <3> HIDE DEF put
    <3> QED BY <1>1, <1>2, <3>1
  <2> QED BY <1>1, <2>1, <2>2
<1> QED BY <1>3, <1>4, <1>5

LEMMA NothingShows == ASSUME NEW side PROVE Shows(side, <<>>, [p \in {} |-> 0], {})
<1>1. <<>> \in Levels
  BY NoneIsLevels
<1>2. DOMAIN [p \in {} |-> 0] = {} /\ Len(<<>>) = 0
  OBVIOUS
<1> QED BY <1>1, <1>2 DEF Shows, Sorted

LEMMA LadderInvInitially == LadInit => LadderInv
  BY NothingShows DEF LadInit, LadderInv

LEMMA LadderInvKept == LadderInv /\ [LadNext]_ladVars => LadderInv'
<1> SUFFICES ASSUME LadderInv, [LadNext]_ladVars PROVE LadderInv'
  OBVIOUS
<1>1. ASSUME LadReset PROVE LadderInv'
  <2>1. ladLevels' = <<>> /\ ladTrue' = [p \in {} |-> 0] /\ ladFallen' = {} /\ ladSide' = ladSide
    BY <1>1, AfterIsOfTheSide DEF LadReset, LadderInv
  <2> QED BY <2>1, NothingShows DEF LadderInv
<1>2. ASSUME NEW p \in Prices, NEW q \in Sizes, LadDepth(p, q) PROVE LadderInv'
  <2>1. ladSide \in Sides /\ ladSide' = ladSide /\ Shows(ladSide, ladLevels, ladTrue, ladFallen)
    BY <1>2 DEF LadDepth, LadderInv
  <2>2. CASE q = 0
    <3>1. ladLevels' = Erase(ladSide, ladLevels, p)
      BY <1>2, <2>1, <2>2, AfterIsOfTheSide DEF LadDepth
    <3>2. ladTrue' = [x \in DOMAIN ladTrue \ {p} |-> ladTrue[x]] /\ ladFallen' = ladFallen
      BY <1>2, <2>2 DEF LadDepth
    <3>3. Shows(ladSide, Erase(ladSide, ladLevels, p), [x \in DOMAIN ladTrue \ {p} |-> ladTrue[x]], ladFallen)
      BY <2>1, ErasedShows
    <3> QED BY <2>1, <3>1, <3>2, <3>3 DEF LadderInv
  <2>3. CASE q # 0
    <3> DEFINE left == Upsert(ladSide, ladLevels, p, q).levels
               known == [x \in DOMAIN ladTrue \cup {p} |-> IF x = p THEN q ELSE ladTrue[x]]
               gone == ladFallen \cup ((PricesOf(ladLevels) \cup {p}) \ PricesOf(left))
    <3>1. ladLevels' = left
      BY <1>2, <2>1, <2>3, AfterIsOfTheSide DEF LadDepth
    <3>2. ladTrue' = known
      BY <1>2, <2>3 DEF LadDepth
    <3>3. ladFallen' = gone
      <4>1. ladFallen' = ladFallen \cup ((PricesOf(ladLevels) \cup {p}) \ PricesOf(ladLevels'))
        BY <1>2, <2>3 DEF LadDepth
      <4> HIDE DEF left
      <4> QED BY <3>1, <4>1
    <3>4. Shows(ladSide, left, known, gone)
      BY <2>1, <2>3, PutShows
    <3> HIDE DEF left, known, gone
    <3> QED BY <2>1, <3>1, <3>2, <3>3, <3>4 DEF LadderInv
  <2> QED BY <2>2, <2>3
<1>3. ASSUME UNCHANGED ladVars PROVE LadderInv'
  BY <1>3 DEF ladVars, LadderInv
<1> QED BY <1>1, <1>2, <1>3 DEF LadNext

LEMMA LadderInvIsExact == LadderInv => LadderIsExact
<1> SUFFICES ASSUME LadderInv PROVE LadderIsExact
  OBVIOUS
<1>1. /\ ladLevels \in Seq(Level) /\ Len(ladLevels) \in Nat /\ Len(ladLevels) <= Depth
      /\ Sorted(ladSide, ladLevels) /\ DOMAIN ladLevels = 1 .. Len(ladLevels)
  BY BookAssumption, DomainOfLevels DEF LadderInv, Shows, Levels
<1>2. /\ \A i \in 1 .. Len(ladLevels) :
            ladLevels[i].px \in DOMAIN ladTrue /\ ladTrue[ladLevels[i].px] = ladLevels[i].qty
      /\ DOMAIN ladTrue \subseteq Prices /\ \A x \in DOMAIN ladTrue : ladTrue[x] \in Sizes \ {0}
  BY DEF LadderInv, Shows
<1>3. \A p \in DOMAIN ladTrue \ PricesOf(ladLevels) : \E d \in ladFallen : d = p \/ Better(ladSide, d, p)
  BY DEF LadderInv, Shows
<1>4. SideShowsTheBest
  <2>1. ASSUME NEW i \in 2 .. Len(ladLevels) PROVE Better(ladSide, ladLevels[i - 1].px, ladLevels[i].px)
    <3>1. i - 1 \in 1 .. Len(ladLevels) /\ i \in 1 .. Len(ladLevels) /\ i - 1 < i
      BY <1>1
    <3> QED BY <1>1, <3>1 DEF Sorted
  <2> QED BY <1>1, <1>2, <1>3, <2>1 DEF SideShowsTheBest
<1>5. FillIsTheWalk
  <2> SUFFICES ASSUME ladLevels # <<>>, NEW size \in 1 .. 2 * E8 PROVE WalkIsExact(ladLevels, size)
    BY DEF FillIsTheWalk
  <2>1. size \in Nat \ {0}
    BY ScaleIsPositive
  <2>2. \A i \in 1 .. Len(ladLevels) : ladLevels[i].px \in Nat /\ ladLevels[i].qty \in Nat \ {0}
    BY <1>2, LadderAssumption
  <2> QED BY <1>1, <2>1, <2>2, WalkStaysExact
<1> QED BY <1>4, <1>5 DEF LadderIsExact

\* Whatever is sent of one side, in whatever order, the side shows the best of
\* it, as far as what fell off allows, and a fill is the walk over what it
\* shows (Levels::upsert, erase and fill).
THEOREM LadderStaysExact == LadInit /\ [][LadNext]_ladVars => []LadderIsExact
<1>1. LadInit => LadderInv
  BY LadderInvInitially
<1>2. LadderInv /\ [LadNext]_ladVars => LadderInv'
  BY LadderInvKept
<1>3. LadderInv => LadderIsExact
  BY LadderInvIsExact
<1> QED BY <1>1, <1>2, <1>3, PTL
--------------------------------------------------------------------------------
(* Sums over a set, whichever element is taken first.                      *)

First(T) == CHOOSE x \in T : TRUE

\* g has the sums of f over the subsets of D.
Sums(g, f, D) ==
    \A T \in SUBSET D : g[T] = IF T = {} THEN 0 ELSE f[First(T)] + g[T \ {First(T)}]

LEMMA WithoutOne ==
    ASSUME NEW T, IsFiniteSet(T), NEW x \in T
    PROVE  /\ IsFiniteSet(T \ {x}) /\ Cardinality(T \ {x}) = Cardinality(T) - 1
           /\ Cardinality(T) \in Nat \ {0} /\ Cardinality(T \ {x}) \in Nat
<1>1. Cardinality(T) \in Nat /\ Cardinality(T) # 0
  BY FS_CardinalityType, FS_EmptySet
<1>2. IsFiniteSet(T \ {x}) /\ Cardinality(T \ {x}) = Cardinality(T) - 1
  BY FS_RemoveElement
<1> QED BY <1>1, <1>2, FS_CardinalityType

LEMMA FirstIs ==
    ASSUME NEW T, T # {}
    PROVE  First(T) \in T
  BY DEF First

LEMMA SumsExist ==
    ASSUME NEW D, IsFiniteSet(D), NEW f, \A x \in D : f[x] \in Int
    PROVE  \E g \in [SUBSET D -> Int] : Sums(g, f, D)
<1> DEFINE N == Cardinality(D)
           Of(g, T) == IF T = {} THEN 0 ELSE f[First(T)] + g[T \ {First(T)}]
           Upto(n) == \E g \in [SUBSET D -> Int] :
                        \A T \in SUBSET D : Cardinality(T) <= n => g[T] = Of(g, T)
           S == {n \in 0 .. N : Upto(n)}
<1>1. /\ N \in Nat
      /\ \A T \in SUBSET D : IsFiniteSet(T) /\ Cardinality(T) \in Nat /\ Cardinality(T) <= N
  BY FS_Subset, FS_CardinalityType
<1>2. \A T \in SUBSET D : Cardinality(T) = 0 => T = {}
  BY <1>1, FS_EmptySet
<1>3. 0 \in S
  <2> DEFINE g == [T \in SUBSET D |-> 0]
  <2>1. g \in [SUBSET D -> Int]
    OBVIOUS
  <2>2. ASSUME NEW T \in SUBSET D, Cardinality(T) <= 0 PROVE g[T] = Of(g, T)
    <3>1. T = {}
      BY <1>1, <1>2, <2>2
    <3> QED BY <3>1
  <2> HIDE DEF g, Of, N
  <2> QED BY <1>1, <2>1, <2>2
<1>4. ASSUME NEW n \in 0 .. N - 1, n \in S PROVE n + 1 \in S
  <2>1. PICK g \in [SUBSET D -> Int] : \A T \in SUBSET D : Cardinality(T) <= n => g[T] = Of(g, T)
    BY <1>4
  <2> DEFINE h == [T \in SUBSET D |-> IF Cardinality(T) <= n THEN g[T] ELSE Of(g, T)]
  <2>2. ASSUME NEW T \in SUBSET D PROVE Of(g, T) \in Int
    <3>1. CASE T = {}
      BY <3>1
    <3>2. CASE T # {}
      <4>1. First(T) \in D /\ T \ {First(T)} \in SUBSET D
        BY <3>2, FirstIs
      <4>2. f[First(T)] \in Int /\ g[T \ {First(T)}] \in Int
        BY <4>1
      <4> QED BY <3>2, <4>2
    <3> QED BY <3>1, <3>2
  <2>3. h \in [SUBSET D -> Int]
    <3> HIDE DEF Of
    <3> QED BY <2>2
  <2>4. ASSUME NEW T \in SUBSET D, Cardinality(T) <= n + 1 PROVE h[T] = Of(h, T)
    <3>1. CASE T = {}
      <4>1. Cardinality(T) <= n
        BY <3>1, FS_EmptySet
      <4> QED BY <2>1, <3>1, <4>1
    <3>2. CASE T # {}
      <4> DEFINE U == T \ {First(T)}
      <4>1. First(T) \in T
        BY <3>2, FirstIs
      <4>2. U \in SUBSET D /\ Cardinality(U) = Cardinality(T) - 1
        BY <1>1, <4>1, WithoutOne
      <4>3. h[U] = g[U]
        BY <1>1, <2>4, <4>2
      <4>4. h[T] = Of(g, T)
        <5> HIDE DEF Of
        <5> QED BY <2>1
      <4> HIDE DEF h
      <4> QED BY <3>2, <4>3, <4>4
    <3> QED BY <3>1, <3>2
  <2> HIDE DEF h, Of, N
  <2> QED BY <1>1, <2>3, <2>4
<1>5. N \in S
  <2> HIDE DEF S, N
  <2>1. N \in 0 .. N
    BY <1>1
  <2> QED BY <1>1, <1>3, <1>4, <2>1, Climb
<1>6. PICK g \in [SUBSET D -> Int] : \A T \in SUBSET D : Cardinality(T) <= N => g[T] = Of(g, T)
  BY <1>5
<1>7. \A T \in SUBSET D : g[T] = Of(g, T)
  <2> HIDE DEF Of, N
  <2> QED BY <1>1, <1>6
<1> QED BY <1>7 DEF Sums

\* What the sums of a set are depends on its members' values alone.
LEMMA SumsAgree ==
    ASSUME NEW D, NEW E, NEW f, NEW k, NEW g, NEW h, Sums(g, f, D), Sums(h, k, E),
           NEW M \in SUBSET (D \cap E), IsFiniteSet(M), \A x \in M : f[x] = k[x]
    PROVE  g[M] = h[M]
<1> DEFINE N == Cardinality(M)
           S == {n \in 0 .. N : \A T \in SUBSET M : Cardinality(T) = n => g[T] = h[T]}
<1>1. /\ N \in Nat
      /\ \A T \in SUBSET M : IsFiniteSet(T) /\ Cardinality(T) \in Nat /\ Cardinality(T) <= N
  BY FS_Subset, FS_CardinalityType
<1>2. g[{}] = 0 /\ h[{}] = 0
  BY DEF Sums
<1>3. 0 \in S
  <2>1. \A T \in SUBSET M : Cardinality(T) = 0 => T = {}
    BY <1>1, FS_EmptySet
  <2> QED BY <1>1, <1>2, <2>1
<1>4. ASSUME NEW n \in 0 .. N - 1, n \in S PROVE n + 1 \in S
  <2>1. n \in Nat /\ n + 1 \in 0 .. N
    BY <1>1
  <2>2. ASSUME NEW T \in SUBSET M, Cardinality(T) = n + 1 PROVE g[T] = h[T]
    <3> DEFINE x == First(T)
    <3>1. T # {}
      BY <2>1, <2>2, FS_EmptySet
    <3>2. x \in T
      BY <3>1, FirstIs
    <3>3. Cardinality(T \ {x}) = n
      BY <1>1, <2>1, <2>2, <3>2, WithoutOne
    <3>4. g[T \ {x}] = h[T \ {x}]
      BY <1>4, <3>3
    <3>5. g[T] = f[x] + g[T \ {x}]
      BY <3>1 DEF Sums
    <3>6. h[T] = k[x] + h[T \ {x}]
      BY <3>1 DEF Sums
    <3> QED BY <3>2, <3>4, <3>5, <3>6
  <2> HIDE DEF N
  <2> QED BY <2>1, <2>2
<1>5. N \in S
  <2> HIDE DEF S, N
  <2>1. N \in 0 .. N
    BY <1>1
  <2> QED BY <1>1, <1>3, <1>4, <2>1, Climb
<1> QED BY <1>5

LEMMA SumIs ==
    ASSUME NEW D, IsFiniteSet(D), NEW f, \A x \in D : f[x] \in Int
    PROVE  \E g \in [SUBSET D -> Int] : Sums(g, f, D) /\ SumFunctionOnSet(f, D) = g[D]
<1> DEFINE iter == CHOOSE g : g = [s \in SUBSET D |->
                       IF s = {} THEN 0 ELSE f[CHOOSE x \in s : TRUE] + g[s \ {CHOOSE x \in s : TRUE}]]
<1>1. SumFunctionOnSet(f, D) = iter[D]
  BY DEF SumFunctionOnSet, FoldFunctionOnSet, MapThenFoldSet
<1>2. PICK g \in [SUBSET D -> Int] : Sums(g, f, D)
  BY SumsExist
<1>3. g = [s \in SUBSET D |->
            IF s = {} THEN 0 ELSE f[CHOOSE x \in s : TRUE] + g[s \ {CHOOSE x \in s : TRUE}]]
  BY <1>2 DEF Sums, First
<1>4. iter = [s \in SUBSET D |->
            IF s = {} THEN 0 ELSE f[CHOOSE x \in s : TRUE] + iter[s \ {CHOOSE x \in s : TRUE}]]
  BY <1>3
<1> HIDE DEF iter
<1>5. Sums(iter, f, D)
  BY <1>4 DEF First, Sums
<1>6. iter[D] = g[D]
  BY <1>2, <1>5, SumsAgree
<1> QED BY <1>1, <1>2, <1>6

LEMMA SumOfNone == ASSUME NEW f PROVE SumFunctionOnSet(f, {}) = 0
<1>1. IsFiniteSet({})
  BY FS_EmptySet
<1>2. PICK g : Sums(g, f, {}) /\ SumFunctionOnSet(f, {}) = g[{}]
  BY <1>1, SumIs
<1> QED BY <1>2 DEF Sums

LEMMA SumSame ==
    ASSUME NEW D, IsFiniteSet(D), NEW f, \A x \in D : f[x] \in Int, NEW k, \A x \in D : k[x] = f[x]
    PROVE  SumFunctionOnSet(f, D) \in Int /\ SumFunctionOnSet(k, D) = SumFunctionOnSet(f, D)
<1>1. PICK g \in [SUBSET D -> Int] : Sums(g, f, D) /\ SumFunctionOnSet(f, D) = g[D]
  BY SumIs
<1>2. PICK h \in [SUBSET D -> Int] : Sums(h, k, D) /\ SumFunctionOnSet(k, D) = h[D]
  <2>1. \A x \in D : k[x] \in Int
    OBVIOUS
  <2> QED BY <2>1, SumIs
<1>3. h[D] = g[D]
  BY <1>1, <1>2, SumsAgree
<1> QED BY <1>1, <1>2, <1>3

\* Any of the elements may be taken first.
LEMMA SumPeels ==
    ASSUME NEW D, IsFiniteSet(D), NEW f, \A x \in D : f[x] \in Int, NEW y \in D
    PROVE  SumFunctionOnSet(f, D) = f[y] + SumFunctionOnSet(f, D \ {y})
<1>1. PICK g \in [SUBSET D -> Int] : Sums(g, f, D) /\ SumFunctionOnSet(f, D) = g[D]
  BY SumIs
<1> DEFINE N == Cardinality(D)
           S == {n \in 0 .. N : \A T \in SUBSET D : Cardinality(T) = n =>
                                    \A x \in T : g[T] = f[x] + g[T \ {x}]}
<1>2. /\ N \in Nat
      /\ \A T \in SUBSET D : IsFiniteSet(T) /\ Cardinality(T) \in Nat /\ Cardinality(T) <= N
  BY FS_Subset, FS_CardinalityType
<1>3. 0 \in S
  <2>1. \A T \in SUBSET D : Cardinality(T) = 0 => T = {}
    BY <1>2, FS_EmptySet
  <2> QED BY <1>2, <2>1
<1>4. ASSUME NEW n \in 0 .. N - 1, n \in S PROVE n + 1 \in S
  <2>1. n \in Nat /\ n + 1 \in 0 .. N
    BY <1>2
  <2>2. ASSUME NEW T \in SUBSET D, Cardinality(T) = n + 1, NEW x \in T
        PROVE g[T] = f[x] + g[T \ {x}]
    <3> DEFINE c == First(T)
    <3>1. c \in T
      BY FirstIs
    <3>2. g[T] = f[c] + g[T \ {c}]
      BY <1>1, <3>1 DEF Sums
    <3>3. CASE x = c
      BY <3>2, <3>3
    <3>4. CASE x # c
      <4>1. Cardinality(T \ {c}) = n /\ Cardinality(T \ {x}) = n
        BY <1>2, <2>1, <2>2, <3>1, WithoutOne
      <4>2. x \in T \ {c} /\ c \in T \ {x} /\ T \ {c} \in SUBSET D /\ T \ {x} \in SUBSET D
        BY <3>1, <3>4
      <4> HIDE DEF c
      <4>3. g[T \ {c}] = f[x] + g[(T \ {c}) \ {x}]
        BY <1>4, <4>1, <4>2
      <4>4. g[T \ {x}] = f[c] + g[(T \ {x}) \ {c}]
        BY <1>4, <4>1, <4>2
      <4>5. (T \ {x}) \ {c} = (T \ {c}) \ {x} /\ (T \ {x}) \ {c} \in SUBSET D
        OBVIOUS
      <4>6. f[x] \in Int /\ f[c] \in Int /\ g[(T \ {x}) \ {c}] \in Int
        BY <3>1, <4>5
      <4>7. g[(T \ {c}) \ {x}] = g[(T \ {x}) \ {c}]
        BY <4>5
      <4> QED BY <3>2, <4>3, <4>4, <4>6, <4>7
    <3> QED BY <3>3, <3>4
  <2> HIDE DEF N
  <2> QED BY <2>1, <2>2
<1>5. N \in S
  <2> HIDE DEF S, N
  <2>1. N \in 0 .. N
    BY <1>2
  <2> QED BY <1>2, <1>3, <1>4, <2>1, Climb
<1>6. g[D] = f[y] + g[D \ {y}]
  BY <1>5
<1>7. PICK h \in [SUBSET (D \ {y}) -> Int] :
            Sums(h, f, D \ {y}) /\ SumFunctionOnSet(f, D \ {y}) = h[D \ {y}]
  <2>1. IsFiniteSet(D \ {y})
    BY WithoutOne
  <2> QED BY <2>1, SumIs
<1>8. h[D \ {y}] = g[D \ {y}]
  <2>1. IsFiniteSet(D \ {y})
    BY WithoutOne
  <2> QED BY <1>1, <1>7, <2>1, SumsAgree
<1> QED BY <1>1, <1>6, <1>7, <1>8

\* b takes T one to one to what is not in A, with the same values.
Joins(A, h, T, g, b) ==
    /\ IsFiniteSet(A) /\ \A x \in A : h[x] \in Int
    /\ IsFiniteSet(T) /\ \A t \in T : g[t] \in Int
    /\ \A t \in T : b[t] \notin A /\ h[b[t]] = g[t]
    /\ \A t, u \in T : b[t] = b[u] => t = u

\* A sum over the members of A and the image of T is one over A and one over T.
LEMMA SumGrows ==
    ASSUME NEW A, NEW h, NEW T, NEW g, NEW b, Joins(A, h, T, g, b)
    PROVE  LET all == A \cup {b[t] : t \in T}
           IN  /\ IsFiniteSet(all) /\ Cardinality(all) = Cardinality(A) + Cardinality(T)
               /\ SumFunctionOnSet(h, all) = SumFunctionOnSet(h, A) + SumFunctionOnSet(g, T)
<1> DEFINE N == Cardinality(T)
           All(U) == A \cup {b[t] : t \in U}
           Good(U) == /\ IsFiniteSet(All(U)) /\ Cardinality(All(U)) = Cardinality(A) + Cardinality(U)
                      /\ SumFunctionOnSet(h, All(U)) = SumFunctionOnSet(h, A) + SumFunctionOnSet(g, U)
           S == {n \in 0 .. N : \A U \in SUBSET T : Cardinality(U) = n => Good(U)}
<1>j. /\ IsFiniteSet(A) /\ \A x \in A : h[x] \in Int
      /\ IsFiniteSet(T) /\ \A t \in T : g[t] \in Int
      /\ \A t \in T : b[t] \notin A /\ h[b[t]] = g[t]
      /\ \A t, u \in T : b[t] = b[u] => t = u
  BY DEF Joins
<1>1. /\ N \in Nat
      /\ \A U \in SUBSET T : IsFiniteSet(U) /\ Cardinality(U) \in Nat /\ Cardinality(U) <= N
  BY <1>j, FS_Subset, FS_CardinalityType
<1>2. Cardinality(A) \in Nat /\ SumFunctionOnSet(h, A) \in Int
  BY <1>j, FS_CardinalityType, SumSame
<1>3. 0 \in S
  <2>1. ASSUME NEW U \in SUBSET T, Cardinality(U) = 0 PROVE Good(U)
    <3>1. U = {} /\ Cardinality({}) = 0
      BY <1>1, <2>1, FS_EmptySet
    <3>2. All(U) = A
      BY <3>1
    <3>3. SumFunctionOnSet(g, U) = 0
      BY <3>1, SumOfNone
    <3> HIDE DEF All
    <3> QED BY <1>2, <1>j, <3>1, <3>2, <3>3
  <2> HIDE DEF Good, N
  <2> QED BY <1>1, <2>1
<1>4. ASSUME NEW n \in 0 .. N - 1, n \in S PROVE n + 1 \in S
  <2>1. n \in Nat /\ n + 1 \in 0 .. N
    BY <1>1
  <2>2. ASSUME NEW U \in SUBSET T, Cardinality(U) = n + 1 PROVE Good(U)
    <3> DEFINE t == First(U)
               V == U \ {t}
    <3>1. t \in U
      <4>1. U # {}
        BY <2>1, <2>2, FS_EmptySet
      <4> QED BY <4>1, FirstIs
    <3>2. Cardinality(V) = n /\ V \in SUBSET T /\ IsFiniteSet(U)
      <4>1. IsFiniteSet(U)
        BY <1>1
      <4>2. Cardinality(V) = Cardinality(U) - 1
        BY <3>1, <4>1, WithoutOne
      <4> QED BY <2>1, <2>2, <4>1, <4>2
    <3>3. Good(V)
      <4> HIDE DEF Good, V
      <4> QED BY <1>4, <3>2
    <3> HIDE DEF t
    <3>4. b[t] \notin All(V)
      BY <1>j, <3>1
    <3>5. All(U) = All(V) \cup {b[t]} /\ All(U) \ {b[t]} = All(V) /\ b[t] \in All(U)
      BY <3>1, <3>4
    <3>6. IsFiniteSet(All(U)) /\ Cardinality(All(U)) = Cardinality(All(V)) + 1
      <4>1. IsFiniteSet(All(V))
        BY <3>3
      <4> HIDE DEF All, V, Good
      <4>2. IsFiniteSet(All(V) \cup {b[t]}) /\ Cardinality(All(V) \cup {b[t]}) = Cardinality(All(V)) + 1
        BY <3>4, <4>1, FS_AddElement
      <4> QED BY <3>5, <4>2
    <3>7. \A x \in All(U) : h[x] \in Int
      <4>1. \A u \in U : h[b[u]] \in Int
        BY <1>j
      <4> QED BY <1>j, <4>1
    <3>8. SumFunctionOnSet(h, All(U)) = h[b[t]] + SumFunctionOnSet(h, All(V))
      <4> HIDE DEF All, V
      <4>1. SumFunctionOnSet(h, All(U)) = h[b[t]] + SumFunctionOnSet(h, All(U) \ {b[t]})
        BY <3>5, <3>6, <3>7, SumPeels
      <4> QED BY <3>5, <4>1
    <3>9. SumFunctionOnSet(g, U) = g[t] + SumFunctionOnSet(g, V) /\ g[t] \in Int
      <4>1. \A u \in U : g[u] \in Int
        BY <1>j
      <4> QED BY <3>1, <3>2, <4>1, SumPeels
    <3>10. h[b[t]] = g[t]
      BY <1>j, <3>1
    <3>11. SumFunctionOnSet(g, V) \in Int
      <4>1. IsFiniteSet(V) /\ \A u \in V : g[u] \in Int
        BY <1>1, <1>j, <3>2
      <4> QED BY <4>1, SumSame
    <3> HIDE DEF All, V
    <3> QED BY <1>2, <2>1, <2>2, <3>2, <3>3, <3>6, <3>8, <3>9, <3>10, <3>11
  <2> HIDE DEF Good, N
  <2> QED BY <2>1, <2>2
<1>5. N \in S
  <2> HIDE DEF S, N
  <2>1. N \in 0 .. N
    BY <1>1
  <2> QED BY <1>1, <1>3, <1>4, <2>1, Climb
<1>6. Good(T)
  <2> HIDE DEF Good
  <2> QED BY <1>5
<1> QED BY <1>6

\* A sum is at least as many times what each value is at least.
LEMMA SumAtLeast ==
    ASSUME NEW T, IsFiniteSet(T), NEW g, NEW m \in Int, \A t \in T : g[t] \in Int /\ g[t] >= m
    PROVE  SumFunctionOnSet(g, T) >= m * Cardinality(T)
<1> DEFINE N == Cardinality(T)
           S == {n \in 0 .. N : \A U \in SUBSET T : Cardinality(U) = n => SumFunctionOnSet(g, U) >= m * n}
<1>1. /\ N \in Nat
      /\ \A U \in SUBSET T : IsFiniteSet(U) /\ Cardinality(U) \in Nat /\ Cardinality(U) <= N
  BY FS_Subset, FS_CardinalityType
<1>2. 0 \in S
  <2>1. ASSUME NEW U \in SUBSET T, Cardinality(U) = 0 PROVE SumFunctionOnSet(g, U) >= m * 0
    <3>1. U = {}
      BY <1>1, <2>1, FS_EmptySet
    <3>2. SumFunctionOnSet(g, U) = 0
      BY <3>1, SumOfNone
    <3> QED BY <3>2
  <2> HIDE DEF N
  <2> QED BY <1>1, <2>1
<1>3. ASSUME NEW n \in 0 .. N - 1, n \in S PROVE n + 1 \in S
  <2>1. n \in Nat /\ n + 1 \in 0 .. N
    BY <1>1
  <2>2. ASSUME NEW U \in SUBSET T, Cardinality(U) = n + 1 PROVE SumFunctionOnSet(g, U) >= m * (n + 1)
    <3> DEFINE t == First(U)
               V == U \ {t}
    <3>1. t \in U
      <4>1. U # {}
        BY <2>1, <2>2, FS_EmptySet
      <4> QED BY <4>1, FirstIs
    <3>2. Cardinality(V) = n /\ V \in SUBSET T /\ IsFiniteSet(U)
      BY <1>1, <2>1, <2>2, <3>1, WithoutOne
    <3>3. SumFunctionOnSet(g, V) >= m * n
      <4> HIDE DEF V
      <4> QED BY <1>3, <3>2
    <3> HIDE DEF t
    <3>4. SumFunctionOnSet(g, U) = g[t] + SumFunctionOnSet(g, V) /\ g[t] \in Int /\ g[t] >= m
      <4>1. \A u \in U : g[u] \in Int
        OBVIOUS
      <4> QED BY <3>1, <3>2, <4>1, SumPeels
    <3>5. SumFunctionOnSet(g, V) \in Int
      <4>1. IsFiniteSet(V) /\ \A u \in V : g[u] \in Int
        BY <1>1, <3>2
      <4> QED BY <4>1, SumSame
    <3>6. m * (n + 1) = m * n + m /\ m * n \in Int
      BY <2>1
    <3> HIDE DEF V
    <3> DEFINE p == m * n
               q == SumFunctionOnSet(g, V)
               r == g[t]
               s == SumFunctionOnSet(g, U)
    <3>7. p \in Int /\ q \in Int /\ r \in Int /\ q >= p /\ r >= m /\ s = r + q
      BY <3>3, <3>4, <3>5, <3>6
    <3> HIDE DEF p, q, r, s
    <3>8. s >= p + m
      BY <3>7
    <3> QED BY <3>6, <3>8 DEF p, s
  <2> HIDE DEF N
  <2> QED BY <2>1, <2>2
<1>4. N \in S
  <2> HIDE DEF S, N
  <2>1. N \in 0 .. N
    BY <1>1
  <2> QED BY <1>1, <1>2, <1>3, <2>1, Climb
<1> QED BY <1>4

--------------------------------------------------------------------------------
(* Division towards zero.                                                  *)

LEMMA QuotientIs ==
    ASSUME NEW a \in Int, NEW d \in Nat \ {0}
    PROVE  \E q \in Int, r \in Int :
              /\ Quotient(a, d) = q /\ a = d * q + r /\ -d < r /\ r < d
              /\ a >= 0 => q >= 0 /\ r >= 0
              /\ a <= 0 => q <= 0 /\ r <= 0
<1>1. CASE a >= 0
  <2>1. Quotient(a, d) = a \div d
    BY <1>1 DEF Quotient
  <2>2. a \div d \in Int /\ a = d * (a \div d) + (a % d) /\ a % d \in 0 .. d - 1
    BY Division, SlotInRange
  <2>3. a \div d >= 0
    BY <1>1
  <2>4. a = 0 => a \div d = 0 /\ a % d = 0
    OBVIOUS
  <2> DEFINE q == a \div d
             r == a % d
  <2>5. /\ q \in Int /\ r \in Int /\ a = d * q + r /\ r >= 0 /\ r < d /\ q >= 0
        /\ a <= 0 => q = 0 /\ r = 0
    BY <1>1, <2>2, <2>3, <2>4
  <2>6. Quotient(a, d) = q
    BY <2>1
  <2> HIDE DEF q, r
  <2> QED BY <1>1, <2>5, <2>6
<1>2. CASE a < 0
  <2> DEFINE c == -a
             q == c \div d
             r == c % d
  <2>1. c \in Nat
    BY <1>2
  <2>2. Quotient(a, d) = -q
    BY <1>2 DEF Quotient
  <2> HIDE DEF c
  <2>3. q \in Int /\ c = d * q + r /\ r \in 0 .. d - 1 /\ q >= 0
    <3>1. q \in Int /\ c = d * q + r
      BY <2>1, Division
    <3>2. r \in 0 .. d - 1
      BY <2>1, SlotInRange
    <3>3. c \div d >= 0
      BY <2>1
    <3> QED BY <3>1, <3>2, <3>3
  <2> HIDE DEF q, r
  <2>4. a = d * (-q) + (-r)
    <3>1. d * (-q) = -(d * q) /\ d * q \in Int
      BY <2>3
    <3>2. a = -c
      BY DEF c
    <3> DEFINE p == d * q
               n == d * (-q)
    <3>3. p \in Int /\ n = -p /\ c = p + r
      BY <2>3, <3>1
    <3> HIDE DEF p, n
    <3>4. a = n + (-r)
      BY <2>3, <3>2, <3>3
    <3> QED BY <3>4 DEF n
  <2>5. -q \in Int /\ -r \in Int /\ -d < -r /\ -r < d /\ -q <= 0 /\ -r <= 0
    BY <2>3
  <2>6. \E u \in Int, v \in Int :
            /\ Quotient(a, d) = u /\ a = d * u + v /\ -d < v /\ v < d /\ u <= 0 /\ v <= 0
    BY <2>2, <2>4, <2>5
  <2> QED BY <1>2, <2>6
<1> QED BY <1>1, <1>2

LEMMA QuotientBetween ==
    ASSUME NEW a \in Int, NEW n \in Nat \ {0}
    PROVE  /\ Quotient(a, n) \in Int
           /\ \A lo \in Int : lo * n <= a => lo <= Quotient(a, n)
           /\ \A hi \in Int : a <= hi * n => Quotient(a, n) <= hi
<1>1. PICK q \in Int, r \in Int : Quotient(a, n) = q /\ a = n * q + r /\ -n < r /\ r < n
  BY QuotientIs
<1>2. ASSUME NEW lo \in Int, lo * n <= a, q < lo PROVE FALSE
  <2>1. n * (lo - q) >= n
    <3>1. lo - q \in Int /\ lo - q >= 1
      BY <1>2
    <3> QED BY <3>1, MulBound
  <2>2. n * (lo - q) = lo * n - n * q
    OBVIOUS
  <2> DEFINE x == lo * n
             y == n * q
             z == n * (lo - q)
  <2>3. x \in Int /\ y \in Int /\ z = x - y /\ z >= n /\ x <= a /\ a = y + r
    BY <1>1, <1>2, <2>1, <2>2
  <2> HIDE DEF x, y, z
  <2> QED BY <1>1, <2>3
<1>3. ASSUME NEW hi \in Int, a <= hi * n, hi < q PROVE FALSE
  <2>1. n * (q - hi) >= n
    <3>1. q - hi \in Int /\ q - hi >= 1
      BY <1>3
    <3> QED BY <3>1, MulBound
  <2>2. n * (q - hi) = n * q - hi * n
    OBVIOUS
  <2> DEFINE x == hi * n
             y == n * q
             z == n * (q - hi)
  <2>3. x \in Int /\ y \in Int /\ z = y - x /\ z >= n /\ a <= x /\ a = y + r
    BY <1>1, <1>3, <2>1, <2>2
  <2> HIDE DEF x, y, z
  <2> QED BY <1>1, <2>3
<1> QED BY <1>1, <1>2, <1>3

LEMMA QuotientSplits ==
    ASSUME NEW a \in Int, NEW b \in Int, NEW d \in Nat \ {0}
    PROVE  Quotient(a, d) + Quotient(b, d) - Quotient(a + b, d) \in -1 .. 1
<1>1. PICK p \in Int, r \in Int :
            /\ Quotient(a, d) = p /\ a = d * p + r /\ -d < r /\ r < d
            /\ a >= 0 => p >= 0 /\ r >= 0
            /\ a <= 0 => p <= 0 /\ r <= 0
  BY QuotientIs
<1>2. PICK q \in Int, s \in Int :
            /\ Quotient(b, d) = q /\ b = d * q + s /\ -d < s /\ s < d
            /\ b >= 0 => q >= 0 /\ s >= 0
            /\ b <= 0 => q <= 0 /\ s <= 0
  BY QuotientIs
<1>3. PICK u \in Int, t \in Int :
            /\ Quotient(a + b, d) = u /\ a + b = d * u + t /\ -d < t /\ t < d
            /\ a + b >= 0 => u >= 0 /\ t >= 0
            /\ a + b <= 0 => u <= 0 /\ t <= 0
  <2>1. a + b \in Int
    OBVIOUS
  <2> QED BY <2>1, QuotientIs
<1> DEFINE k == p + q - u
           over == t - r - s
<1>4. k \in Int /\ over \in Int
  OBVIOUS
<1>5. over < 2 * d /\ -(2 * d) < over
  <2>1. CASE a >= 0 /\ b >= 0
    BY <1>1, <1>2, <1>3, <2>1
  <2>2. CASE a <= 0 /\ b <= 0
    BY <1>1, <1>2, <1>3, <2>2
  <2>3. CASE a >= 0 /\ b <= 0
    BY <1>1, <1>2, <1>3, <2>3
  <2>4. CASE a <= 0 /\ b >= 0
    BY <1>1, <1>2, <1>3, <2>4
  <2> QED BY <2>1, <2>2, <2>3, <2>4
<1>6. d * k = over
  <2>1. d * k = d * p + d * q - d * u
    OBVIOUS
  <2> DEFINE x == d * p
             y == d * q
             z == d * u
  <2>2. x \in Int /\ y \in Int /\ z \in Int /\ a = x + r /\ b = y + s /\ a + b = z + t
    BY <1>1, <1>2, <1>3
  <2> HIDE DEF x, y, z
  <2>3. x + y - z = t - r - s
    BY <2>2
  <2> QED BY <2>1, <2>3 DEF x, y, z
<1> HIDE DEF k, over
<1>7. ASSUME k >= 2 PROVE FALSE
  <2>1. d * (k - 1) >= d /\ d * (k - 1) = d * k - d
    <3>1. k - 1 \in Int /\ k - 1 >= 1
      BY <1>4, <1>7
    <3>2. d * (k - 1) >= d
      BY <3>1, MulBound
    <3> QED BY <1>4, <3>2
  <2> DEFINE x == d * (k - 1)
  <2>2. x >= d /\ x = over - d
    BY <1>6, <2>1
  <2> HIDE DEF x
  <2> QED BY <1>4, <1>5, <2>2
<1>8. ASSUME k <= -2 PROVE FALSE
  <2>1. d * (-k - 1) >= d /\ d * (-k - 1) = -(d * k) - d
    <3>1. -k - 1 \in Int /\ -k - 1 >= 1
      BY <1>4, <1>8
    <3>2. d * (-k - 1) >= d
      BY <3>1, MulBound
    <3> QED BY <1>4, <3>2
  <2> DEFINE x == d * (-k - 1)
  <2>2. x >= d /\ x = -over - d
    BY <1>6, <2>1
  <2> HIDE DEF x
  <2> QED BY <1>4, <1>5, <2>2
<1>9. k \in -1 .. 1
  BY <1>4, <1>7, <1>8
<1> QED BY <1>1, <1>2, <1>3, <1>9 DEF k

LEMMA QuotientOfMinus ==
    ASSUME NEW a \in Int, NEW d \in Nat \ {0}
    PROVE  Quotient(-a, d) + Quotient(a, d) = 0
<1> DEFINE b == -a
<1>0. b \in Int /\ b + a = 0
  OBVIOUS
<1> HIDE DEF b
<1>1. CASE a = 0
  <2>1. b = 0 /\ 0 \div d = 0
    BY <1>0, <1>1
  <2>2. Quotient(0, d) = 0
    BY <2>1 DEF Quotient
  <2> QED BY <1>1, <2>1, <2>2 DEF b
<1>2. CASE a > 0
  <2>1. a \div d \in Int /\ b < 0 /\ -b = a
    BY <1>0, <1>2
  <2>2. Quotient(a, d) = a \div d
    BY <1>2 DEF Quotient
  <2>3. Quotient(b, d) = -(a \div d)
    BY <1>2, <2>1 DEF Quotient
  <2> QED BY <2>1, <2>2, <2>3 DEF b
<1>3. CASE a < 0
  <2>1. b \div d \in Int /\ b > 0 /\ -a = b
    BY <1>0, <1>3
  <2>2. Quotient(b, d) = b \div d
    BY <2>1 DEF Quotient
  <2>3. Quotient(a, d) = -(b \div d)
    BY <1>3, <2>1 DEF Quotient
  <2> QED BY <2>1, <2>2, <2>3 DEF b
<1> QED BY <1>1, <1>2, <1>3

--------------------------------------------------------------------------------
(* What an execution costs.                                                *)

Trade == [taker : {"Buy", "Sell"}, decision : Nat, action : Nat, px : Nat]

LEMMA SignIs == Sign("Buy") = 1 /\ Sign("Sell") = -1
  BY DEF Sign

LEMMA DeltaIs ==
    ASSUME NEW delta \in Int, NEW d \in Nat
    PROVE  DeltaBps(delta, d) \in Int /\ (d # 0 => DeltaBps(delta, d) = Quotient(delta * BpsScale, d))
<1>1. delta * BpsScale \in Int
  BY FixedAssumption
<1>2. d # 0 => DeltaBps(delta, d) = Quotient(delta * BpsScale, d)
  BY DEF DeltaBps
<1>3. d = 0 => DeltaBps(delta, d) = 0
  BY DEF DeltaBps
<1>4. d # 0 => Quotient(delta * BpsScale, d) \in Int
  BY <1>1, QuotientBetween
<1> QED BY <1>2, <1>3, <1>4

LEMMA CostsAre ==
    ASSUME NEW e \in Trade
    PROVE  LET c == Decompose(e)
           IN  /\ c.latency \in Int /\ c.depth \in Int /\ c.shortfall \in Int /\ c.spread \in Int
               /\ c.latency + c.depth - c.shortfall \in -1 .. 1
               /\ \A other \in Trade :
                    /\ other.decision = e.decision /\ other.action = e.action /\ other.px = e.px
                    /\ other.taker # e.taker
                    => c.shortfall = -Decompose(other).shortfall
<1> DEFINE s == Sign(e.taker)
           d == e.decision
           x == s * (e.action - d)
           y == s * (e.px - e.action)
           z == s * (e.px - d)
<1>1. /\ e.taker \in {"Buy", "Sell"} /\ d \in Nat /\ e.action \in Nat /\ e.px \in Nat
  BY DEF Trade
<1>2. s \in {1, -1}
  BY <1>1, SignIs
<1>3. x \in Int /\ y \in Int /\ z \in Int /\ z = x + y
  BY <1>1, <1>2
<1>4. CASE d = 0
  <2>1. Decompose(e) = [latency |-> 0, depth |-> 0, shortfall |-> 0, spread |-> 0]
    BY <1>4 DEF Decompose
  <2>2. ASSUME NEW other \in Trade, other.decision = d
        PROVE  Decompose(other) = [latency |-> 0, depth |-> 0, shortfall |-> 0, spread |-> 0]
    BY <1>4, <2>2 DEF Decompose
  <2> QED BY <2>1, <2>2
<1>5. CASE d # 0
  <2>1. /\ Decompose(e).latency = DeltaBps(x, d) /\ Decompose(e).depth = DeltaBps(y, d)
        /\ Decompose(e).shortfall = DeltaBps(z, d)
    BY <1>5 DEF Decompose
  <2>2. Decompose(e).spread \in Int
    <3> DEFINE half == IF e.px >= e.action THEN e.px - e.action ELSE e.action - e.px
    <3>1. 2 * half \in Int
      BY <1>1
    <3>2. Decompose(e).spread = DeltaBps(2 * half, d)
      BY <1>5 DEF Decompose
    <3> HIDE DEF half
    <3> QED BY <1>1, <3>1, <3>2, DeltaIs
  <2>3. ASSUME NEW other \in Trade, other.decision = e.decision, other.px = e.px, other.taker # e.taker
        PROVE  Decompose(e).shortfall = -Decompose(other).shortfall
    <3>1. Sign(other.taker) = -s
      <4>1. other.taker \in {"Buy", "Sell"}
        BY DEF Trade
      <4> QED BY <1>1, <2>3, <4>1, SignIs
    <3>2. Decompose(other).shortfall = DeltaBps(Sign(other.taker) * (e.px - d), d)
      BY <1>5, <2>3 DEF Decompose
    <3>3. (-s) * (e.px - d) = -z /\ -z \in Int
      BY <1>1, <1>2
    <3>4. Decompose(other).shortfall = DeltaBps(-z, d)
      <4> HIDE DEF z, s
      <4> QED BY <3>1, <3>2, <3>3
    <3> HIDE DEF z, s, d
    <3>5. DeltaBps(-z, d) = Quotient((-z) * BpsScale, d) /\ DeltaBps(z, d) = Quotient(z * BpsScale, d)
          /\ DeltaBps(z, d) \in Int
      BY <1>1, <1>3, <1>5, <3>3, DeltaIs
    <3>6. (-z) * BpsScale = -(z * BpsScale) /\ z * BpsScale \in Int
      BY <1>3, FixedAssumption
    <3>7. Quotient(-(z * BpsScale), d) + Quotient(z * BpsScale, d) = 0
      BY <1>1, <1>5, <3>6, QuotientOfMinus
    <3>8. Decompose(other).shortfall + DeltaBps(z, d) = 0 /\ Decompose(other).shortfall \in Int
      BY <1>1, <1>3, <3>3, <3>4, <3>5, <3>6, <3>7, DeltaIs
    <3> QED BY <2>1, <3>5, <3>8
  <2> HIDE DEF x, y, z, s, d
  <2>4. /\ DeltaBps(x, d) = Quotient(x * BpsScale, d) /\ DeltaBps(y, d) = Quotient(y * BpsScale, d)
        /\ DeltaBps(z, d) = Quotient(z * BpsScale, d)
        /\ DeltaBps(x, d) \in Int /\ DeltaBps(y, d) \in Int /\ DeltaBps(z, d) \in Int
    BY <1>1, <1>3, <1>5, DeltaIs
  <2>5. x * BpsScale \in Int /\ y * BpsScale \in Int /\ z * BpsScale = x * BpsScale + y * BpsScale
    BY <1>3, FixedAssumption
  <2>6. Quotient(x * BpsScale, d) + Quotient(y * BpsScale, d) - Quotient(z * BpsScale, d) \in -1 .. 1
    BY <1>1, <1>5, <2>5, QuotientSplits
  <2> QED BY <2>1, <2>2, <2>3, <2>4, <2>6
<1> QED BY <1>4, <1>5

--------------------------------------------------------------------------------
(* The sums over the executions.                                           *)

Call == [call : {"record"}, at : Nat, made : Trade] \cup [call : {"resolve"}, at : Nat, mid : Nat]

\* No cost passes what a number can hold, where delta_bps_x100 would clamp it.
CostsFit == \A e \in Executions : Decompose(e).shortfall \in -MaxInt - 1 .. MaxInt

SumsType == [executions : Nat, latency : Int, depth : Int, shortfall : Int, spread : Int,
             worst : Int, best : Int]

LEMMA CallsGrow ==
    ASSUME NEW calls \in Seq(Call), NEW c \in Call
    PROVE  /\ Len(calls) \in Nat /\ DOMAIN calls = 1 .. Len(calls)
           /\ Append(calls, c) \in Seq(Call) /\ Len(Append(calls, c)) = Len(calls) + 1
           /\ DOMAIN Append(calls, c) = (1 .. Len(calls)) \cup {Len(calls) + 1}
           /\ Append(calls, c)[Len(calls) + 1] = c
           /\ \A i \in 1 .. Len(calls) : /\ Append(calls, c)[i] = calls[i] /\ calls[i] \in Call
                                         /\ i \in Nat /\ i < Len(calls) + 1
<1> HIDE DEF Call
<1>1. Len(Append(calls, c)) = Len(calls) + 1 /\ Append(calls, c) \in Seq(Call) /\ Len(calls) \in Nat
  OBVIOUS
<1>2. DOMAIN Append(calls, c) = 1 .. Len(calls) + 1 /\ DOMAIN calls = 1 .. Len(calls)
  BY <1>1
<1>3. 1 .. Len(calls) + 1 = (1 .. Len(calls)) \cup {Len(calls) + 1}
  BY <1>1
<1> QED BY <1>1, <1>2, <1>3

LEMMA MadeGrows ==
    ASSUME NEW calls \in Seq(Call), NEW c \in Call
    PROVE  /\ Made(calls) \subseteq 1 .. Len(calls)
           /\ \A i \in Made(calls) : calls[i] \in [call : {"record"}, at : Nat, made : Trade]
           /\ \A i \in (1 .. Len(calls)) \ Made(calls) : calls[i] \in [call : {"resolve"}, at : Nat, mid : Nat]
           /\ Made(Append(calls, c)) =
                IF c.call = "record" THEN Made(calls) \cup {Len(calls) + 1} ELSE Made(calls)
<1> DEFINE more == Append(calls, c)
           k == Len(calls) + 1
<1>1. /\ Len(calls) \in Nat /\ DOMAIN calls = 1 .. Len(calls) /\ DOMAIN more = (1 .. Len(calls)) \cup {k}
      /\ more[k] = c /\ \A i \in 1 .. Len(calls) : more[i] = calls[i] /\ calls[i] \in Call
  BY CallsGrow
<1> HIDE DEF more, k
<1>2. Made(more) = {i \in 1 .. Len(calls) : calls[i].call = "record"} \cup {i \in {k} : c.call = "record"}
  BY <1>1 DEF Made
<1>3. Made(calls) = {i \in 1 .. Len(calls) : calls[i].call = "record"}
  BY <1>1 DEF Made
<1>4. \A i \in Made(calls) : calls[i] \in [call : {"record"}, at : Nat, made : Trade]
  BY <1>1, <1>3 DEF Call
<1>5. \A i \in (1 .. Len(calls)) \ Made(calls) : calls[i] \in [call : {"resolve"}, at : Nat, mid : Nat]
  BY <1>1, <1>3 DEF Call
<1> QED BY <1>2, <1>3, <1>4, <1>5 DEF more, k

CostsOf(calls) == {Decompose(calls[i].made).shortfall : i \in Made(calls)}

\* The sums are of as many costs, between the least of them and the greatest.
Totals(sums, calls) ==
    /\ sums \in SumsType
    /\ sums.latency + sums.depth - sums.shortfall \in -sums.executions .. sums.executions
    /\ \A c \in CostsOf(calls) : c \in Int /\ sums.best <= c /\ c <= sums.worst
    /\ IF sums.executions = 0
       THEN sums.worst = -MaxInt - 1 /\ sums.best = MaxInt /\ CostsOf(calls) = {} /\ sums.shortfall = 0
       ELSE /\ sums.worst \in CostsOf(calls) /\ sums.best \in CostsOf(calls)
            /\ sums.best * sums.executions <= sums.shortfall
            /\ sums.shortfall <= sums.worst * sums.executions

LEMMA LargerOfTwo ==
    ASSUME NEW a \in Int, NEW b \in Int
    PROVE  Max({a, b}) = IF a >= b THEN a ELSE b
<1>1. \E x \in {a, b} : \A y \in {a, b} : x >= y
  OBVIOUS
<1>2. PICK x \in {a, b} : x = Max({a, b}) /\ \A y \in {a, b} : x >= y
  BY <1>1 DEF Max
<1> QED BY <1>2

LEMMA SmallerOfTwo ==
    ASSUME NEW a \in Int, NEW b \in Int
    PROVE  Min({a, b}) = IF a <= b THEN a ELSE b
<1>1. \E x \in {a, b} : \A y \in {a, b} : x <= y
  OBVIOUS
<1>2. PICK x \in {a, b} : x = Min({a, b}) /\ \A y \in {a, b} : x <= y
  BY <1>1 DEF Min
<1> QED BY <1>2

LEMMA TimesMonotone ==
    ASSUME NEW a \in Int, NEW b \in Int, a <= b, NEW n \in Nat
    PROVE  a * n <= b * n
<1>1. (b - a) * n >= 0
  OBVIOUS
<1>2. (b - a) * n = b * n - a * n
  OBVIOUS
<1> DEFINE x == a * n
           y == b * n
           z == (b - a) * n
<1>3. x \in Int /\ y \in Int /\ z = y - x /\ z >= 0
  BY <1>1, <1>2
<1> HIDE DEF x, y, z
<1>4. x <= y
  BY <1>3
<1> QED BY <1>4 DEF x, y

\* One more execution.
LEMMA TotalsGrow ==
    ASSUME CostsFit, NEW sums, NEW calls \in Seq(Call), Totals(sums, calls), NEW e \in Executions, NEW at \in Nat
    PROVE  LET c    == Decompose(e)
               more == [sums EXCEPT
                          !.executions = @ + 1, !.latency = @ + c.latency, !.depth = @ + c.depth,
                          !.shortfall = @ + c.shortfall, !.spread = @ + c.spread,
                          !.worst = Max({@, c.shortfall}), !.best = Min({@, c.shortfall})]
           IN  Totals(more, Append(calls, [call |-> "record", at |-> at, made |-> e]))
<1> DEFINE c == Decompose(e)
           x == c.shortfall
           more == [sums EXCEPT
                      !.executions = @ + 1, !.latency = @ + c.latency, !.depth = @ + c.depth,
                      !.shortfall = @ + c.shortfall, !.spread = @ + c.spread,
                      !.worst = Max({@, c.shortfall}), !.best = Min({@, c.shortfall})]
           entry == [call |-> "record", at |-> at, made |-> e]
           longer == Append(calls, entry)
           n == sums.executions
<1>1. e \in Trade
  BY SlippageAssumption DEF Trade
<1>2. /\ c.latency \in Int /\ c.depth \in Int /\ x \in Int /\ c.spread \in Int
      /\ c.latency + c.depth - x \in -1 .. 1
  BY <1>1, CostsAre
<1>3. x \in -MaxInt - 1 .. MaxInt /\ MaxInt \in Nat
  BY FixedAssumption DEF CostsFit
<1>4. sums \in SumsType /\ n \in Nat
  BY DEF Totals, SumsType
<1>5. /\ sums.latency \in Int /\ sums.depth \in Int /\ sums.shortfall \in Int /\ sums.spread \in Int
      /\ sums.worst \in Int /\ sums.best \in Int
  BY <1>4 DEF SumsType
<1>6. CostsOf(longer) = CostsOf(calls) \cup {x}
  <2>1. entry \in Call /\ entry.call = "record" /\ entry.made = e
    BY <1>1 DEF Call
  <2> HIDE DEF entry
  <2>2. /\ Made(longer) = Made(calls) \cup {Len(calls) + 1} /\ Made(calls) \subseteq 1 .. Len(calls)
        /\ longer[Len(calls) + 1] = entry /\ \A i \in 1 .. Len(calls) : longer[i] = calls[i]
    BY <2>1, MadeGrows, CallsGrow
  <2> HIDE DEF longer
  <2>3. \A i \in Made(calls) : longer[i] = calls[i]
    BY <2>2
  <2> QED BY <2>1, <2>2, <2>3 DEF CostsOf
<1> HIDE DEF c, x, entry, longer
<1>7. /\ more.executions = n + 1 /\ more.latency = sums.latency + c.latency
      /\ more.depth = sums.depth + c.depth /\ more.shortfall = sums.shortfall + x
      /\ more.spread = sums.spread + c.spread
      /\ more.worst = Max({sums.worst, x}) /\ more.best = Min({sums.best, x})
  BY <1>4 DEF SumsType, x
<1>9. more \in SumsType
  <2>1. /\ n + 1 \in Nat /\ sums.latency + c.latency \in Int /\ sums.depth + c.depth \in Int
        /\ sums.shortfall + x \in Int /\ sums.spread + c.spread \in Int
    <3>1. \A u, v \in Int : u + v \in Int
      OBVIOUS
    <3>2. n + 1 \in Nat
      BY <1>4
    <3> HIDE DEF n
    <3> QED BY <1>2, <1>5, <3>1, <3>2
  <2>2. Max({sums.worst, x}) \in Int /\ Min({sums.best, x}) \in Int
    BY ZenonT(60), <1>2, <1>5, LargerOfTwo, SmallerOfTwo
  <2> QED BY <1>4, <2>1, <2>2 DEF SumsType, x
<1> HIDE DEF more
<1>8. /\ more.worst = IF sums.worst >= x THEN sums.worst ELSE x
      /\ more.best = IF sums.best <= x THEN sums.best ELSE x
  BY <1>2, <1>5, <1>7, LargerOfTwo, SmallerOfTwo
<1>10. more.latency + more.depth - more.shortfall \in -more.executions .. more.executions
  <2> DEFINE off == sums.latency + sums.depth - sums.shortfall
             one == c.latency + c.depth - x
  <2>1. off \in -n .. n /\ one \in -1 .. 1
    BY <1>2 DEF Totals
  <2>2. more.latency + more.depth - more.shortfall = off + one
    <3> DEFINE l == sums.latency
               d == sums.depth
               f == sums.shortfall
               cl == c.latency
               cd == c.depth
    <3>1. /\ l \in Int /\ d \in Int /\ f \in Int /\ cl \in Int /\ cd \in Int /\ x \in Int
          /\ more.latency = l + cl /\ more.depth = d + cd /\ more.shortfall = f + x
      BY <1>2, <1>5, <1>7
    <3> HIDE DEF l, d, f, cl, cd
    <3>2. more.latency + more.depth - more.shortfall = (l + d - f) + (cl + cd - x)
      BY <3>1
    <3> QED BY <3>2 DEF l, d, f, cl, cd
  <2> HIDE DEF off, one, n
  <2>3. off + one \in -(n + 1) .. n + 1
    BY <1>4, <2>1
  <2> QED BY <1>7, <2>2, <2>3
<1>11. \A y \in CostsOf(longer) : y \in Int /\ more.best <= y /\ y <= more.worst
  <2>1. \A y \in CostsOf(calls) : y \in Int /\ sums.best <= y /\ y <= sums.worst
    BY DEF Totals
  <2> QED BY <1>2, <1>5, <1>6, <1>8, <2>1
<1>12. /\ more.worst \in CostsOf(longer) /\ more.best \in CostsOf(longer)
       /\ more.best * (n + 1) <= more.shortfall /\ more.shortfall <= more.worst * (n + 1)
  <2>1. CASE n = 0
    <3>1. sums.worst = -MaxInt - 1 /\ sums.best = MaxInt /\ sums.shortfall = 0
      BY <2>1 DEF Totals
    <3>2. more.worst = x /\ more.best = x
      BY <1>3, <1>8, <3>1
    <3>3. more.shortfall = x /\ n + 1 = 1 /\ x * 1 = x
      BY <1>2, <1>7, <2>1, <3>1
    <3> QED BY <1>2, <1>6, <3>2, <3>3
  <2>2. CASE n # 0
    <3>1. /\ sums.worst \in CostsOf(calls) /\ sums.best \in CostsOf(calls)
          /\ sums.best * n <= sums.shortfall /\ sums.shortfall <= sums.worst * n
      BY <2>2 DEF Totals
    <3>2. more.worst \in CostsOf(longer) /\ more.best \in CostsOf(longer)
      BY <1>6, <1>8, <3>1
    <3>3. /\ more.best \in Int /\ more.best <= sums.best /\ more.best <= x
          /\ more.worst \in Int /\ sums.worst <= more.worst /\ x <= more.worst
      BY <1>2, <1>5, <1>8
    <3>4. more.best * n <= sums.best * n /\ sums.worst * n <= more.worst * n
      BY <1>4, <1>5, <3>3, TimesMonotone
    <3>5. more.best * (n + 1) = more.best * n + more.best /\ more.worst * (n + 1) = more.worst * n + more.worst
      BY <1>4, <3>3
    <3>6. /\ more.best * n \in Int /\ sums.best * n \in Int /\ more.worst * n \in Int /\ sums.worst * n \in Int
      BY SMTT(60), <1>4, <1>5, <3>3
    <3> DEFINE p == more.best * n
               q == sums.best * n
               r == more.worst * n
               s == sums.worst * n
    <3>7. /\ p \in Int /\ q \in Int /\ r \in Int /\ s \in Int /\ p <= q /\ s <= r
          /\ q <= sums.shortfall /\ sums.shortfall <= s
          /\ more.best * (n + 1) = p + more.best /\ more.worst * (n + 1) = r + more.worst
      BY <3>1, <3>4, <3>5, <3>6
    <3> HIDE DEF p, q, r, s
    <3>8. p + more.best <= sums.shortfall + x /\ sums.shortfall + x <= r + more.worst
      <4> DEFINE f == sums.shortfall
                 b == more.best
                 w == more.worst
      <4>1. /\ f \in Int /\ b \in Int /\ w \in Int /\ x \in Int /\ b <= x /\ x <= w
            /\ p <= q /\ q <= f /\ f <= s /\ s <= r
        BY <1>2, <1>5, <3>3, <3>7
      <4> HIDE DEF f, b, w
      <4>2. p + b <= f + x /\ f + x <= r + w
        BY <3>7, <4>1
      <4> QED BY <4>2 DEF f, b, w
    <3> QED BY <1>7, <3>2, <3>7, <3>8
  <2> QED BY <2>1, <2>2
<1>13. Totals(more, longer)
  <2>1. more.executions = n + 1 /\ n + 1 # 0
    BY <1>4, <1>7
  <2> HIDE DEF n
  <2> QED BY <1>9, <1>10, <1>11, <1>12, <2>1 DEF Totals
<1> QED BY <1>13 DEF more, longer, entry, c

--------------------------------------------------------------------------------
(* Slots, and who has them.                                                *)

\* How many executions are behind call i, and in front of the one that it is.
Behind(calls, i) == Cardinality(MadeSince(calls, i, Len(calls)))
Place(calls, i)  == Cardinality(Made(calls)) - Behind(calls, i) - 1
Slot(calls, i)   == Place(calls, i) % PendingSlots

IsLive(calls, i) == Behind(calls, i) < PendingSlots

\* The horizons of an execution that were settled, and what its slot then has.
Seen(calls, i) == {h \in DOMAIN Horizons : Settling(calls, i, h) # {}}

Entry(calls, i) ==
    [at |-> calls[i].at, taker |-> calls[i].made.taker, px |-> calls[i].made.px,
     settled |-> Seen(calls, i), done |-> Seen(calls, i) = DOMAIN Horizons]

LEMMA MadeIsFinite ==
    ASSUME NEW calls \in Seq(Call)
    PROVE  /\ IsFiniteSet(Made(calls)) /\ Cardinality(Made(calls)) \in Nat
           /\ \A i, j : /\ IsFiniteSet(MadeSince(calls, i, j)) /\ Cardinality(MadeSince(calls, i, j)) \in Nat
                        /\ MadeSince(calls, i, j) \subseteq Made(calls)
           /\ \A i \in Made(calls) : /\ Place(calls, i) \in Nat /\ Place(calls, i) < Cardinality(Made(calls))
                                     /\ Behind(calls, i) \in Nat
<1>1. Made(calls) \subseteq 1 .. Len(calls) /\ Len(calls) \in Nat
  <2>1. Made(calls) = {i \in DOMAIN calls : calls[i].call = "record"} /\ DOMAIN calls = 1 .. Len(calls)
    BY DEF Made
  <2> HIDE DEF Call
  <2> QED BY <2>1
<1>2. IsFiniteSet(1 .. Len(calls))
  <2>1. \A k \in Nat : IsFiniteSet(1 .. k)
    BY FS_Interval
  <2> QED BY <1>1, <2>1
<1>3. IsFiniteSet(Made(calls)) /\ Cardinality(Made(calls)) \in Nat
  BY <1>1, <1>2, FS_Subset, FS_CardinalityType
<1>4. ASSUME NEW i, NEW j
      PROVE  /\ IsFiniteSet(MadeSince(calls, i, j)) /\ Cardinality(MadeSince(calls, i, j)) \in Nat
             /\ MadeSince(calls, i, j) \subseteq Made(calls)
  <2>1. MadeSince(calls, i, j) \subseteq Made(calls)
    BY DEF MadeSince
  <2> QED BY <1>3, <2>1, FS_Subset, FS_CardinalityType
<1>5. ASSUME NEW i \in Made(calls)
      PROVE  /\ Place(calls, i) \in Nat /\ Place(calls, i) < Cardinality(Made(calls))
             /\ Behind(calls, i) \in Nat
  <2> DEFINE T == MadeSince(calls, i, Len(calls))
  <2>1. T \subseteq Made(calls) \ {i}
    BY <1>1 DEF MadeSince
  <2>2. IsFiniteSet(Made(calls) \ {i}) /\ Cardinality(Made(calls) \ {i}) = Cardinality(Made(calls)) - 1
    BY <1>3, WithoutOne
  <2>3. Cardinality(T) <= Cardinality(Made(calls)) - 1 /\ Cardinality(T) \in Nat
    <3> HIDE DEF T
    <3> QED BY <2>1, <2>2, FS_Subset, FS_CardinalityType
  <2> HIDE DEF T
  <2>4. Behind(calls, i) = Cardinality(T)
    BY DEF Behind, T
  <2> QED BY <1>3, <2>3, <2>4 DEF Place
<1> QED BY <1>3, <1>4, <1>5

\* The later of two has fewer behind it.
LEMMA BehindIsStrict ==
    ASSUME NEW calls \in Seq(Call), NEW i \in Made(calls), NEW j \in Made(calls), i < j
    PROVE  Behind(calls, j) < Behind(calls, i)
<1> DEFINE T == MadeSince(calls, i, Len(calls))
           U == MadeSince(calls, j, Len(calls))
<1>1. Made(calls) \subseteq 1 .. Len(calls) /\ Len(calls) \in Nat
  <2>1. Made(calls) = {k \in DOMAIN calls : calls[k].call = "record"} /\ DOMAIN calls = 1 .. Len(calls)
    BY DEF Made
  <2> HIDE DEF Call
  <2> QED BY <2>1
<1>2. IsFiniteSet(T) /\ IsFiniteSet(U) /\ Cardinality(T) \in Nat /\ Cardinality(U) \in Nat
  BY MadeIsFinite
<1>3. j \in T /\ j \notin U
  BY <1>1 DEF MadeSince
<1>4. U \subseteq T \ {j}
  BY <1>1 DEF MadeSince
<1> HIDE DEF T, U
<1>5. IsFiniteSet(T \ {j}) /\ Cardinality(T \ {j}) = Cardinality(T) - 1
  BY <1>2, <1>3, WithoutOne
<1>6. Cardinality(U) <= Cardinality(T \ {j})
  BY <1>4, <1>5, FS_Subset
<1> QED BY <1>2, <1>5, <1>6 DEF Behind, T, U

LEMMA BehindIsOne ==
    ASSUME NEW calls \in Seq(Call), NEW i \in Made(calls), NEW j \in Made(calls),
           Behind(calls, i) = Behind(calls, j)
    PROVE  i = j
<1>1. i \in Int /\ j \in Int
  <2>1. Made(calls) \subseteq 1 .. Len(calls) /\ Len(calls) \in Nat
    <3>1. Made(calls) = {k \in DOMAIN calls : calls[k].call = "record"} /\ DOMAIN calls = 1 .. Len(calls)
      BY DEF Made
    <3> HIDE DEF Call
    <3> QED BY <3>1
  <2> QED BY <2>1
<1>2. Behind(calls, i) \in Nat
  BY MadeIsFinite
<1> QED BY <1>1, <1>2, BehindIsStrict

\* No two that are live have one slot, and the slot that is next has the one that
\* ceases to be.
LEMMA SlotsAreApart ==
    ASSUME NEW calls \in Seq(Call), NEW i \in Made(calls), IsLive(calls, i)
    PROVE  /\ Slot(calls, i) \in 0 .. PendingSlots - 1
           /\ \A j \in Made(calls) : IsLive(calls, j) /\ Slot(calls, j) = Slot(calls, i) => i = j
           /\ Slot(calls, i) = Cardinality(Made(calls)) % PendingSlots <=> Behind(calls, i) = PendingSlots - 1
<1> DEFINE R == Cardinality(Made(calls))
           B == Behind(calls, i)
           P == PendingSlots
           p == Place(calls, i)
<1>1. R \in Nat /\ B \in Nat /\ p \in Nat /\ p = R - B - 1 /\ B < P /\ P \in Nat \ {0}
  BY MadeIsFinite, SlippageAssumption DEF Place, IsLive
<1>2. Slot(calls, i) = p % P
  BY DEF Slot
<1> HIDE DEF R, B, P, p
<1>n. P \in Nat \ {0}
  BY <1>1
<1>i. p \in Int /\ R \in Int
  BY <1>1
<1>3. p % P \in 0 .. P - 1
  BY <1>n, <1>i, SlotInRange
<1>4. ASSUME NEW j \in Made(calls), IsLive(calls, j), Slot(calls, j) = Slot(calls, i) PROVE i = j
  <2> DEFINE C == Behind(calls, j)
             q == Place(calls, j)
  <2>1. C \in Nat /\ q \in Nat /\ q = R - C - 1 /\ C < P
    BY <1>4, MadeIsFinite DEF Place, IsLive, R, P
  <2>2. q % P = p % P
    BY <1>2, <1>4 DEF Slot, P
  <2> HIDE DEF C, q
  <2>i. q \in Int
    BY <2>1
  <2>3. ~(q < p)
    <3>1. ASSUME q < p PROVE p - q >= P
      BY <1>n, <1>i, <2>i, <2>2, <3>1, SameSlot
    <3> QED BY <1>1, <2>1, <3>1
  <2>4. ~(p < q)
    <3>1. ASSUME p < q PROVE q - p >= P
      BY <1>n, <1>i, <2>i, <2>2, <3>1, SameSlot
    <3> QED BY <1>1, <2>1, <3>1
  <2>5. B = C
    BY <1>1, <2>1, <2>3, <2>4
  <2> QED BY <2>5, BehindIsOne DEF B, C
<1>5. p % P = R % P => B = P - 1
  <2>1. ASSUME p % P = R % P PROVE R - p >= P
    <3>1. p < R
      BY <1>1
    <3> QED BY <1>n, <1>i, <2>1, <3>1, SameSlot
  <2> QED BY <1>1, <2>1
<1>6. B = P - 1 => p % P = R % P
  <2>1. ASSUME B = P - 1 PROVE R % P = p % P
    <3>1. R = p + P
      BY <1>1, <2>1
    <3>2. (p + P) % P = p % P
      <4>1. ((P % P) + p) % P = (P + p) % P
        <5>1. P \in Int
          BY <1>n
        <5> QED BY <1>n, <1>i, <5>1, RemainderOfSum
      <4>2. P % P = 0
        BY <1>1
      <4>3. (P % P) + p = p /\ P + p = p + P
        BY <1>1, <4>2
      <4> QED BY <4>1, <4>3
    <3> QED BY <3>1, <3>2
  <2> QED BY <2>1
<1> QED BY <1>2, <1>3, <1>4, <1>5, <1>6 DEF R, P, B

--------------------------------------------------------------------------------
(* One more call.                                                          *)

LEMMA MadeSinceGrows ==
    ASSUME NEW calls \in Seq(Call), NEW c \in Call, NEW i \in 1 .. Len(calls)
    PROVE  LET more == Append(calls, c)
               k    == Len(calls) + 1
           IN  /\ \A j \in 1 .. Len(calls) : MadeSince(more, i, j) = MadeSince(calls, i, j)
               /\ MadeSince(more, i, k) = IF c.call = "record" THEN MadeSince(calls, i, Len(calls)) \cup {k}
                                          ELSE MadeSince(calls, i, Len(calls))
               /\ k \notin MadeSince(calls, i, Len(calls))
               /\ MadeSince(more, k, k) = {}
<1> DEFINE more == Append(calls, c)
           k == Len(calls) + 1
           M == Made(calls)
           N == Made(more)
<1>1. /\ Len(calls) \in Nat /\ i \in Nat /\ i < k
      /\ \A j \in 1 .. Len(calls) : j \in Nat /\ j < k
  BY CallsGrow
<1>2. M \subseteq 1 .. Len(calls) /\ N = IF c.call = "record" THEN M \cup {k} ELSE M
  BY MadeGrows
<1>3. \A j \in M : j \in Nat /\ j < k /\ j <= Len(calls)
  BY <1>1, <1>2
<1>4. ASSUME NEW a, NEW b
      PROVE  MadeSince(more, a, b) = {j \in N : a < j /\ j <= b} /\ MadeSince(calls, a, b) = {j \in M : a < j /\ j <= b}
  BY DEF MadeSince
<1> HIDE DEF M, N, more
<1>5. \A j \in 1 .. Len(calls) : MadeSince(more, i, j) = MadeSince(calls, i, j)
  <2>1. ASSUME NEW j \in 1 .. Len(calls) PROVE {x \in N : i < x /\ x <= j} = {x \in M : i < x /\ x <= j}
    <3>1. ~(k <= j)
      BY <1>1
    <3> HIDE DEF k
    <3> QED BY <1>2, <3>1
  <2> QED BY <1>4, <2>1
<1>6. MadeSince(more, i, k) = IF c.call = "record" THEN MadeSince(calls, i, Len(calls)) \cup {k}
                              ELSE MadeSince(calls, i, Len(calls))
  <2>1. \A x \in M : x <= k /\ x <= Len(calls)
    BY <1>1, <1>3
  <2>2. i < k /\ k <= k
    BY <1>1
  <2>3. {x \in M : i < x /\ x <= k} = {x \in M : i < x /\ x <= Len(calls)}
    BY <2>1
  <2> HIDE DEF k
  <2>4. {x \in N : i < x /\ x <= k} = IF c.call = "record" THEN {x \in M : i < x /\ x <= k} \cup {k}
                                      ELSE {x \in M : i < x /\ x <= k}
    BY <1>2, <2>2
  <2>5. /\ MadeSince(more, i, k) = {x \in N : i < x /\ x <= k}
        /\ MadeSince(calls, i, Len(calls)) = {x \in M : i < x /\ x <= Len(calls)}
    BY <1>4
  <2>6. CASE c.call = "record"
    BY <2>3, <2>4, <2>5, <2>6
  <2>7. CASE c.call # "record"
    BY <2>3, <2>4, <2>5, <2>7
  <2> QED BY <2>6, <2>7
<1>7. k \notin MadeSince(calls, i, Len(calls))
  <2>1. k \notin M
    BY <1>1, <1>3
  <2> QED BY <1>4, <2>1
<1>8. MadeSince(more, k, k) = {}
  <2>1. \A x \in N : ~(k < x /\ x <= k)
    BY <1>1, <1>2, <1>3
  <2> QED BY <1>4, <2>1
<1> QED BY <1>5, <1>6, <1>7, <1>8 DEF more

LEMMA BehindGrows ==
    ASSUME NEW calls \in Seq(Call), NEW c \in Call
    PROVE  LET more == Append(calls, c)
               k    == Len(calls) + 1
           IN  /\ \A i \in Made(calls) : Behind(more, i) = Behind(calls, i) + IF c.call = "record" THEN 1 ELSE 0
               /\ \A i \in Made(calls) : Place(more, i) = Place(calls, i) /\ Slot(more, i) = Slot(calls, i)
               /\ c.call = "record" => /\ Behind(more, k) = 0 /\ Place(more, k) = Cardinality(Made(calls))
                                       /\ Slot(more, k) = Cardinality(Made(calls)) % PendingSlots
                                       /\ Cardinality(Made(more)) = Cardinality(Made(calls)) + 1
               /\ c.call # "record" => Made(more) = Made(calls)
<1> DEFINE more == Append(calls, c)
           k == Len(calls) + 1
           R == Cardinality(Made(calls))
<1>1. /\ Len(more) = k /\ Len(calls) \in Nat /\ k \notin 1 .. Len(calls)
      /\ Made(calls) \subseteq 1 .. Len(calls)
      /\ Made(more) = IF c.call = "record" THEN Made(calls) \cup {k} ELSE Made(calls)
  BY CallsGrow, MadeGrows
<1>2. IsFiniteSet(Made(calls)) /\ R \in Nat
  BY MadeIsFinite
<1>3. Cardinality(Made(more)) = R + IF c.call = "record" THEN 1 ELSE 0
  <2>1. k \notin Made(calls)
    BY <1>1
  <2>2. Cardinality(Made(calls) \cup {k}) = R + 1
    BY <1>2, <2>1, FS_AddElement
  <2> QED BY <1>1, <1>2, <2>2
<1>4. ASSUME NEW i \in Made(calls)
      PROVE  Behind(more, i) = Behind(calls, i) + IF c.call = "record" THEN 1 ELSE 0
  <2> DEFINE T == MadeSince(calls, i, Len(calls))
  <2>1. IsFiniteSet(T) /\ Cardinality(T) \in Nat
    BY MadeIsFinite
  <2>2. /\ MadeSince(more, i, k) = IF c.call = "record" THEN T \cup {k} ELSE T
        /\ k \notin T
    BY <1>1, MadeSinceGrows
  <2> HIDE DEF T, k, more
  <2>3. Cardinality(T \cup {k}) = Cardinality(T) + 1
    BY <2>1, <2>2, FS_AddElement
  <2>4. Behind(more, i) = Cardinality(MadeSince(more, i, k)) /\ Behind(calls, i) = Cardinality(T)
    BY <1>1 DEF Behind, T
  <2> QED BY <2>1, <2>2, <2>3, <2>4
<1>5. ASSUME NEW i \in Made(calls) PROVE Place(more, i) = Place(calls, i)
  <2>1. Behind(calls, i) \in Nat
    BY MadeIsFinite
  <2>2. Place(more, i) = Cardinality(Made(more)) - Behind(more, i) - 1 /\ Place(calls, i) = R - Behind(calls, i) - 1
    BY DEF Place
  <2> HIDE DEF R, more
  <2> QED BY <1>2, <1>3, <1>4, <2>1, <2>2
<1>6. ASSUME c.call = "record" PROVE Behind(more, k) = 0 /\ Place(more, k) = R
  <2>1. MadeSince(more, k, k) = {}
    <3>1. MadeSince(more, k, k) = {x \in Made(more) : k < x /\ x <= k}
      BY DEF MadeSince
    <3>2. \A x \in Made(more) : x \in Int /\ k \in Int
      BY <1>1
    <3> QED BY <3>1, <3>2
  <2>2. Behind(more, k) = 0
    BY <1>1, <2>1, FS_EmptySet DEF Behind
  <2>3. Place(more, k) = (R + 1) - 0 - 1
    BY <1>3, <1>6, <2>2 DEF Place
  <2> QED BY <1>2, <2>2, <2>3
<1> QED BY <1>1, <1>3, <1>4, <1>5, <1>6 DEF Slot

\* What may settle an execution: a timer call that finds a mid and the horizon
\* past while it is live.
LEMMA SettlingGrows ==
    ASSUME NEW calls \in Seq(Call), NEW c \in Call, NEW h \in DOMAIN Horizons
    PROVE  LET more == Append(calls, c)
               k    == Len(calls) + 1
           IN  /\ \A i \in Made(calls) :
                    /\ Settling(calls, i, h) \subseteq 1 .. Len(calls)
                    /\ Settling(more, i, h) =
                         IF /\ c.call = "resolve" /\ IsLive(calls, i)
                            /\ c.mid # 0 /\ c.at - calls[i].at >= Horizons[h]
                         THEN Settling(calls, i, h) \cup {k} ELSE Settling(calls, i, h)
               /\ c.call = "record" => Settling(more, k, h) = {}
<1> DEFINE more == Append(calls, c)
           k == Len(calls) + 1
           L == 1 .. Len(calls)
           M == Made(calls)
           N == Made(more)
<1>1. /\ Len(calls) \in Nat /\ DOMAIN calls = L /\ DOMAIN more = L \cup {k} /\ k \notin L
      /\ more[k] = c /\ \A i \in L : more[i] = calls[i] /\ i \in Nat /\ i < k
  BY CallsGrow
<1>2. M \subseteq L /\ N = IF c.call = "record" THEN M \cup {k} ELSE M
  BY MadeGrows
<1>3. c.call \in {"record", "resolve"}
  BY DEF Call
<1>4. ASSUME NEW i \in M
      PROVE  Settling(more, i, h) =
                IF c.call = "resolve" /\ IsLive(calls, i) /\ c.mid # 0 /\ c.at - calls[i].at >= Horizons[h]
                THEN Settling(calls, i, h) \cup {k} ELSE Settling(calls, i, h)
  <2> DEFINE Now(j) == /\ i < j /\ Cardinality(MadeSince(calls, i, j)) < PendingSlots
                       /\ calls[j].mid # 0 /\ calls[j].at - calls[i].at >= Horizons[h]
             Then(j) == /\ i < j /\ Cardinality(MadeSince(more, i, j)) < PendingSlots
                        /\ more[j].mid # 0 /\ more[j].at - more[i].at >= Horizons[h]
             last == c.call = "resolve" /\ IsLive(calls, i) /\ c.mid # 0 /\ c.at - calls[i].at >= Horizons[h]
  <2>1. Settling(calls, i, h) = {j \in L \ M : Now(j)}
    BY <1>1 DEF Settling
  <2>2. Settling(more, i, h) = {j \in (L \cup {k}) \ N : Then(j)}
    BY <1>1 DEF Settling
  <2>3. more[i] = calls[i] /\ i < k
    BY <1>1, <1>2
  <2>4. \A j \in L : Then(j) <=> Now(j)
    <3>1. \A j \in L : MadeSince(more, i, j) = MadeSince(calls, i, j)
      BY <1>2, MadeSinceGrows
    <3> HIDE DEF more
    <3> QED BY <1>1, <2>3, <3>1
  <2>5. ASSUME c.call = "resolve" PROVE Then(k) <=> last
    <3>1. MadeSince(more, i, k) = MadeSince(calls, i, Len(calls))
      BY <1>2, <2>5, MadeSinceGrows
    <3>2. IsLive(calls, i) <=> Cardinality(MadeSince(more, i, k)) < PendingSlots
      BY <3>1 DEF IsLive, Behind
    <3> HIDE DEF more, k
    <3> QED BY <1>1, <2>3, <2>5, <3>2
  <2> HIDE DEF Now, Then, last, L, M, N, k, more
  <2>6. CASE c.call = "record"
    <3>1. (L \cup {k}) \ N = L \ M /\ ~last
      BY <1>1, <1>2, <2>6 DEF last
    <3> QED BY <2>1, <2>2, <2>4, <3>1 DEF last
  <2>7. CASE c.call = "resolve"
    <3>1. (L \cup {k}) \ N = (L \ M) \cup {k}
      BY <1>1, <1>2, <2>7
    <3>2. {j \in (L \ M) \cup {k} : Then(j)} = {j \in L \ M : Now(j)} \cup {j \in {k} : last}
      BY <2>4, <2>5, <2>7
    <3>3. Settling(more, i, h) = IF last THEN Settling(calls, i, h) \cup {k} ELSE Settling(calls, i, h)
      BY <2>1, <2>2, <3>1, <3>2
    <3> QED BY <3>3 DEF last
  <2> QED BY <1>3, <2>6, <2>7
<1>5. ASSUME NEW i \in M PROVE Settling(calls, i, h) \subseteq L
  BY <1>1 DEF Settling
<1>6. ASSUME c.call = "record" PROVE Settling(more, k, h) = {}
  <2>1. \A j \in L \cup {k} : ~(k < j)
    BY <1>1
  <2> QED BY <1>1, <2>1 DEF Settling
<1> QED BY <1>4, <1>5, <1>6 DEF more, k

--------------------------------------------------------------------------------
(* The slots keep what the calls say.                                      *)

PendingType ==
    [at : Nat, taker : {"Buy", "Sell"}, px : Nat, settled : SUBSET DOMAIN Horizons, done : BOOLEAN]

Slots(calls, pending) ==
    /\ pending \in [0 .. PendingSlots - 1 -> PendingType]
    /\ \A i \in Made(calls) : IsLive(calls, i) => pending[Slot(calls, i)] = Entry(calls, i)
    /\ \A k \in 0 .. PendingSlots - 1 :
        pending[k] = NoPending \/ \E i \in Made(calls) : IsLive(calls, i) /\ Slot(calls, i) = k

RecordOf(e, at) == [call |-> "record", at |-> at, made |-> e]
ResolveOf(at, mid) == [call |-> "resolve", at |-> at, mid |-> mid]

\* What record puts into the slot.
Fresh(e, at) == [at |-> at, taker |-> e.taker, px |-> e.px, settled |-> {}, done |-> FALSE]

LEMMA SomeHorizon == DOMAIN Horizons # {} /\ DOMAIN Horizons \subseteq Nat /\ \A h \in DOMAIN Horizons : Horizons[h] \in Nat
<1>1. Horizons \in Seq(Nat) /\ Horizons # <<>>
  BY SlippageAssumption
<1>2. DOMAIN Horizons = 1 .. Len(Horizons) /\ Len(Horizons) \in Nat /\ Len(Horizons) # 0
  BY <1>1
<1>3. 1 \in DOMAIN Horizons
  BY <1>2
<1> QED BY <1>1, <1>2, <1>3

LEMMA EntriesAre ==
    ASSUME NEW calls \in Seq(Call), NEW i \in Made(calls)
    PROVE  /\ Entry(calls, i) \in PendingType
           /\ calls[i].at \in Nat /\ calls[i].made \in Trade
           /\ i \in 1 .. Len(calls)
<1>1. calls[i] \in [call : {"record"}, at : Nat, made : Trade] /\ i \in 1 .. Len(calls)
  <2> DEFINE c == ResolveOf(0, 0)
  <2>1. c \in Call
    BY DEF ResolveOf, Call
  <2> HIDE DEF c
  <2> QED BY <2>1, MadeGrows
<1>2. calls[i].at \in Nat /\ calls[i].made \in Trade
  BY <1>1
<1>3. calls[i].made.taker \in {"Buy", "Sell"} /\ calls[i].made.px \in Nat
  BY <1>2 DEF Trade
<1>4. Seen(calls, i) \in SUBSET DOMAIN Horizons
  BY DEF Seen
<1> QED BY <1>1, <1>2, <1>3, <1>4 DEF Entry, PendingType

LEMMA SeenOnRecord ==
    ASSUME NEW calls \in Seq(Call), NEW e \in Trade, NEW at \in Nat
    PROVE  LET more == Append(calls, RecordOf(e, at))
               k    == Len(calls) + 1
           IN  /\ RecordOf(e, at) \in Call
               /\ \A i \in Made(calls) : /\ Seen(more, i) = Seen(calls, i) /\ Entry(more, i) = Entry(calls, i)
                                         /\ \A h \in DOMAIN Horizons : Settling(more, i, h) = Settling(calls, i, h)
               /\ Seen(more, k) = {} /\ Entry(more, k) = Fresh(e, at)
               /\ \A h \in DOMAIN Horizons : Settling(more, k, h) = {}
<1> DEFINE c == RecordOf(e, at)
           more == Append(calls, c)
           k == Len(calls) + 1
<1>1. c \in Call /\ c.call = "record" /\ c.at = at /\ c.made = e
  BY DEF RecordOf, Call
<1> HIDE DEF c
<1>2. \A h \in DOMAIN Horizons : /\ \A i \in Made(calls) : Settling(more, i, h) = Settling(calls, i, h)
                                 /\ Settling(more, k, h) = {}
  BY <1>1, SettlingGrows
<1>3. more[k] = c /\ \A i \in Made(calls) : more[i] = calls[i]
  BY <1>1, CallsGrow, MadeGrows
<1> HIDE DEF more, k
<1>4. ASSUME NEW i \in Made(calls) PROVE Seen(more, i) = Seen(calls, i) /\ Entry(more, i) = Entry(calls, i)
  <2>1. Seen(more, i) = Seen(calls, i)
    BY <1>2 DEF Seen
  <2> QED BY <1>3, <2>1 DEF Entry
<1>5. Seen(more, k) = {}
  BY <1>2 DEF Seen
<1>6. Entry(more, k) = Fresh(e, at)
  BY <1>1, <1>3, <1>5, SomeHorizon DEF Entry, Fresh
<1> QED BY <1>1, <1>2, <1>4, <1>5, <1>6 DEF more, k, c

LEMMA SlotsOnRecord ==
    ASSUME NEW calls \in Seq(Call), NEW pending, Slots(calls, pending), NEW e \in Trade, NEW at \in Nat
    PROVE  Slots(Append(calls, RecordOf(e, at)),
                 [pending EXCEPT ![Cardinality(Made(calls)) % PendingSlots] = Fresh(e, at)])
<1> DEFINE c == RecordOf(e, at)
           more == Append(calls, c)
           k == Len(calls) + 1
           next == Cardinality(Made(calls)) % PendingSlots
           later == [pending EXCEPT ![next] = Fresh(e, at)]
<1>1. c \in Call /\ c.call = "record"
  BY DEF RecordOf, Call
<1>2. /\ \A i \in Made(calls) : Entry(more, i) = Entry(calls, i)
      /\ Entry(more, k) = Fresh(e, at)
  BY SeenOnRecord
<1>3. /\ Made(more) = Made(calls) \cup {k} /\ Made(calls) \subseteq 1 .. Len(calls)
      /\ \A i \in Made(calls) : Behind(more, i) = Behind(calls, i) + 1 /\ Slot(more, i) = Slot(calls, i)
      /\ Behind(more, k) = 0 /\ Slot(more, k) = next
  <2> HIDE DEF c
  <2> QED BY <1>1, BehindGrows, MadeGrows
<1>4. next \in 0 .. PendingSlots - 1 /\ PendingSlots \in Nat \ {0}
  <2>1. Cardinality(Made(calls)) \in Int
    BY MadeIsFinite
  <2> QED BY <2>1, SlippageAssumption, SlotInRange
<1>5. \A i \in Made(calls) : Behind(calls, i) \in Nat
  BY MadeIsFinite
<1>6. pending \in [0 .. PendingSlots - 1 -> PendingType]
  BY DEF Slots
<1>7. Fresh(e, at) \in PendingType
  <2>1. e.taker \in {"Buy", "Sell"} /\ e.px \in Nat
    BY DEF Trade
  <2> QED BY <2>1 DEF Fresh, PendingType
<1> HIDE DEF c, more, k, next
<1>8. later \in [0 .. PendingSlots - 1 -> PendingType] /\ later[next] = Fresh(e, at)
      /\ \A j \in 0 .. PendingSlots - 1 : j # next => later[j] = pending[j]
  <2> HIDE DEF PendingType
  <2> QED BY <1>4, <1>6, <1>7
<1> HIDE DEF later
\* An execution that stays live has another slot.
<1>9. ASSUME NEW i \in Made(calls), IsLive(more, i)
      PROVE  IsLive(calls, i) /\ Slot(calls, i) # next /\ Slot(calls, i) \in 0 .. PendingSlots - 1
  <2>1. IsLive(calls, i) /\ Behind(calls, i) # PendingSlots - 1
    BY <1>3, <1>4, <1>5, <1>9 DEF IsLive
  <2> QED BY <2>1, SlotsAreApart DEF next
<1>10. ASSUME NEW i \in Made(calls), IsLive(calls, i), Slot(calls, i) # next PROVE IsLive(more, i)
  <2>1. Behind(calls, i) # PendingSlots - 1
    BY <1>10, SlotsAreApart DEF next
  <2> QED BY <1>3, <1>4, <1>5, <1>10, <2>1 DEF IsLive
<1>11. IsLive(more, k)
  BY <1>3, <1>4 DEF IsLive
<1>12. \A i \in Made(more) : IsLive(more, i) => later[Slot(more, i)] = Entry(more, i)
  <2>1. ASSUME NEW i \in Made(calls), IsLive(more, i) PROVE later[Slot(more, i)] = Entry(more, i)
    <3>1. later[Slot(calls, i)] = pending[Slot(calls, i)]
      BY <1>8, <1>9, <2>1
    <3>2. pending[Slot(calls, i)] = Entry(calls, i)
      BY <1>9, <2>1 DEF Slots
    <3> QED BY <1>2, <1>3, <3>1, <3>2
  <2>2. later[Slot(more, k)] = Entry(more, k)
    BY <1>2, <1>3, <1>8
  <2> QED BY <1>3, <2>1, <2>2
<1>13. \A j \in 0 .. PendingSlots - 1 :
            later[j] = NoPending \/ \E i \in Made(more) : IsLive(more, i) /\ Slot(more, i) = j
  <2>1. ASSUME NEW j \in 0 .. PendingSlots - 1, j # next, later[j] # NoPending
        PROVE  \E i \in Made(more) : IsLive(more, i) /\ Slot(more, i) = j
    <3>1. pending[j] # NoPending
      BY <1>8, <2>1
    <3>2. PICK i \in Made(calls) : IsLive(calls, i) /\ Slot(calls, i) = j
      BY <3>1 DEF Slots
    <3>3. IsLive(more, i) /\ Slot(more, i) = j /\ i \in Made(more)
      BY <1>3, <1>10, <2>1, <3>2
    <3> QED BY <3>3
  <2>2. \E i \in Made(more) : IsLive(more, i) /\ Slot(more, i) = next
    BY <1>3, <1>11
  <2> QED BY <2>1, <2>2
<1>14. Slots(more, later)
  BY <1>8, <1>12, <1>13 DEF Slots
<1> QED BY <1>14 DEF more, later, c, next

\* A slot that is not over stands for the execution that is about to lose it.
LEMMA DroppedOnRecord ==
    ASSUME NEW calls \in Seq(Call), NEW pending, Slots(calls, pending), NEW e \in Trade, NEW at \in Nat
    PROVE  /\ Cardinality(Lost(calls)) \in Nat
           /\ Cardinality(Lost(Append(calls, RecordOf(e, at)))) =
                Cardinality(Lost(calls))
                    + IF pending[Cardinality(Made(calls)) % PendingSlots].done THEN 0 ELSE 1
<1> DEFINE c == RecordOf(e, at)
           more == Append(calls, c)
           k == Len(calls) + 1
           next == Cardinality(Made(calls)) % PendingSlots
           Open(i) == \E h \in DOMAIN Horizons : Settling(calls, i, h) = {}
           last == {i \in Made(calls) : Behind(calls, i) = PendingSlots - 1 /\ Open(i)}
<1>1. c \in Call /\ c.call = "record"
  BY DEF RecordOf, Call
<1>2. /\ \A i \in Made(calls) : \A h \in DOMAIN Horizons : Settling(more, i, h) = Settling(calls, i, h)
  BY SeenOnRecord
<1>3. /\ Made(more) = Made(calls) \cup {k}
      /\ \A i \in Made(calls) : Behind(more, i) = Behind(calls, i) + 1
      /\ Behind(more, k) = 0
  <2> HIDE DEF c
  <2> QED BY <1>1, BehindGrows, MadeGrows
<1>4. next \in 0 .. PendingSlots - 1 /\ PendingSlots \in Nat \ {0}
  <2>1. Cardinality(Made(calls)) \in Int
    BY MadeIsFinite
  <2> QED BY <2>1, SlippageAssumption, SlotInRange
<1>5. \A i \in Made(calls) : Behind(calls, i) \in Nat
  BY MadeIsFinite
<1>6. Lost(calls) = {i \in Made(calls) : Behind(calls, i) >= PendingSlots /\ Open(i)}
  BY DEF Lost, Behind
<1>7. Lost(more) = {i \in Made(more) : Behind(more, i) >= PendingSlots
                                        /\ \E h \in DOMAIN Horizons : Settling(more, i, h) = {}}
  BY DEF Lost, Behind
<1> HIDE DEF c, more, k, next
<1>8. Lost(more) = Lost(calls) \cup last
  <2>1. \A i \in Made(calls) : (\E h \in DOMAIN Horizons : Settling(more, i, h) = {}) <=> Open(i)
    BY <1>2
  <2>2. \A i \in Made(calls) : Behind(more, i) >= PendingSlots <=>
                                  Behind(calls, i) >= PendingSlots \/ Behind(calls, i) = PendingSlots - 1
    BY <1>3, <1>4, <1>5
  <2>3. ~(Behind(more, k) >= PendingSlots)
    BY <1>3, <1>4
  <2> HIDE DEF Open
  <2> QED BY <1>3, <1>6, <1>7, <2>1, <2>2, <2>3
<1>9. IsFiniteSet(Lost(calls)) /\ Cardinality(Lost(calls)) \in Nat
  <2>1. Lost(calls) \subseteq Made(calls)
    BY <1>6
  <2> QED BY <2>1, MadeIsFinite, FS_Subset, FS_CardinalityType
<1>10. \A i \in Made(calls) : Behind(calls, i) = PendingSlots - 1 => IsLive(calls, i) /\ Slot(calls, i) = next
  <2>1. ASSUME NEW i \in Made(calls), Behind(calls, i) = PendingSlots - 1 PROVE IsLive(calls, i)
    BY <1>4, <2>1 DEF IsLive
  <2> QED BY <2>1, SlotsAreApart DEF next
<1>11. \A i \in Made(calls) : Open(i) <=> ~Entry(calls, i).done
  BY DEF Entry, Seen
<1> HIDE DEF Open
<1>12. CASE pending[next].done
  <2>1. last = {}
    <3>1. ASSUME NEW i \in last PROVE FALSE
      <4>1. i \in Made(calls) /\ IsLive(calls, i) /\ Slot(calls, i) = next /\ Open(i)
        BY <1>10
      <4>2. pending[next] = Entry(calls, i)
        BY <4>1 DEF Slots
      <4> QED BY <1>11, <1>12, <4>1, <4>2
    <3> QED BY <3>1
  <2>2. Lost(more) = Lost(calls)
    BY <1>8, <2>1
  <2> QED BY <1>9, <1>12, <2>2 DEF more, c, next
<1>13. CASE ~pending[next].done
  <2>1. pending[next] # NoPending
    BY <1>13 DEF NoPending
  <2>2. PICK i \in Made(calls) : IsLive(calls, i) /\ Slot(calls, i) = next
    BY <1>4, <2>1 DEF Slots
  <2>3. Behind(calls, i) = PendingSlots - 1
    BY <2>2, SlotsAreApart DEF next
  <2>4. Open(i)
    <3>1. pending[next] = Entry(calls, i)
      BY <2>2 DEF Slots
    <3> QED BY <1>11, <1>13, <3>1
  <2>5. last = {i}
    <3>1. \A j \in last : j = i
      BY <2>3, BehindIsOne
    <3> QED BY <2>3, <2>4, <3>1
  <2>6. i \notin Lost(calls)
    BY <1>4, <1>6, <2>3
  <2> HIDE DEF last
  <2>7. Cardinality(Lost(calls) \cup {i}) = Cardinality(Lost(calls)) + 1
    BY <1>9, <2>6, FS_AddElement
  <2> QED BY <1>8, <1>9, <1>13, <2>5, <2>7 DEF more, c, next
<1> QED BY <1>12, <1>13

--------------------------------------------------------------------------------
(* A timer call.                                                           *)

LEMMA ResolveIs ==
    ASSUME NEW calls \in Seq(Call), NEW at \in Nat, NEW mid \in Nat
    PROVE  LET c    == ResolveOf(at, mid)
               more == Append(calls, c)
               k    == Len(calls) + 1
           IN  /\ c \in Call /\ c.call = "resolve" /\ c.at = at /\ c.mid = mid
               /\ Made(more) = Made(calls) /\ more[k] = c
               /\ \A i \in Made(calls) :
                    /\ more[i] = calls[i] /\ i < k /\ i \in Nat
                    /\ Behind(more, i) = Behind(calls, i) /\ Behind(calls, i) \in Nat
                    /\ Slot(more, i) = Slot(calls, i)
                    /\ IsLive(more, i) <=> IsLive(calls, i)
               /\ \A i \in Made(calls), h \in DOMAIN Horizons :
                    /\ Settling(calls, i, h) \subseteq 1 .. Len(calls)
                    /\ Settling(more, i, h) =
                         IF IsLive(calls, i) /\ mid # 0 /\ at - calls[i].at >= Horizons[h]
                         THEN Settling(calls, i, h) \cup {k} ELSE Settling(calls, i, h)
<1> DEFINE c == ResolveOf(at, mid)
           more == Append(calls, c)
           k == Len(calls) + 1
<1>1. c \in Call /\ c.call = "resolve" /\ c.at = at /\ c.mid = mid
  BY DEF ResolveOf, Call
<1> HIDE DEF c
<1>2. Made(more) = Made(calls) /\ Made(calls) \subseteq 1 .. Len(calls)
  BY <1>1, MadeGrows
<1>3. more[k] = c /\ \A i \in Made(calls) : more[i] = calls[i] /\ i < k /\ i \in Nat
  BY <1>1, <1>2, CallsGrow
<1>4. ASSUME NEW i \in Made(calls)
      PROVE  /\ Behind(more, i) = Behind(calls, i) /\ Behind(calls, i) \in Nat
             /\ Slot(more, i) = Slot(calls, i)
             /\ IsLive(more, i) <=> IsLive(calls, i)
  <2>1. Behind(calls, i) \in Nat
    BY MadeIsFinite
  <2>2. Behind(more, i) = Behind(calls, i) + 0 /\ Slot(more, i) = Slot(calls, i)
    BY <1>1, BehindGrows
  <2> QED BY <2>1, <2>2 DEF IsLive
<1>5. ASSUME NEW i \in Made(calls), NEW h \in DOMAIN Horizons
      PROVE  /\ Settling(calls, i, h) \subseteq 1 .. Len(calls)
             /\ Settling(more, i, h) =
                  IF IsLive(calls, i) /\ mid # 0 /\ at - calls[i].at >= Horizons[h]
                  THEN Settling(calls, i, h) \cup {k} ELSE Settling(calls, i, h)
  BY <1>1, SettlingGrows
<1> QED BY <1>1, <1>2, <1>3, <1>4, <1>5 DEF c

LEMMA EntryOnResolve ==
    ASSUME NEW calls \in Seq(Call), NEW at \in Nat, NEW mid \in Nat, NEW i \in Made(calls)
    PROVE  Entry(Append(calls, ResolveOf(at, mid)), i) =
             IF mid # 0 /\ IsLive(calls, i) THEN Settled(Entry(calls, i), at) ELSE Entry(calls, i)
<1> DEFINE more == Append(calls, ResolveOf(at, mid))
           p == Entry(calls, i)
           Past == {h \in DOMAIN Horizons : at - calls[i].at >= Horizons[h]}
           seen == Seen(calls, i)
<1>1. /\ more[i] = calls[i]
      /\ \A h \in DOMAIN Horizons :
            Settling(more, i, h) # {} <=>
                Settling(calls, i, h) # {} \/ (IsLive(calls, i) /\ mid # 0 /\ at - calls[i].at >= Horizons[h])
  <2>1. \A h \in DOMAIN Horizons :
            Settling(more, i, h) =
                IF IsLive(calls, i) /\ mid # 0 /\ at - calls[i].at >= Horizons[h]
                THEN Settling(calls, i, h) \cup {Len(calls) + 1} ELSE Settling(calls, i, h)
    BY ResolveIs
  <2>2. more[i] = calls[i]
    <3> DEFINE c == ResolveOf(at, mid)
    <3>1. c \in Call
      BY ResolveIs
    <3> HIDE DEF c
    <3>2. i \in 1 .. Len(calls)
      BY <3>1, MadeGrows
    <3> QED BY <3>1, <3>2, CallsGrow DEF c
  <2> HIDE DEF more
  <2> QED BY <2>1, <2>2
<1> HIDE DEF more
<1>2. Seen(more, i) = IF IsLive(calls, i) /\ mid # 0 THEN seen \cup Past ELSE seen
  BY <1>1 DEF Seen
<1>3. p.settled = seen /\ p.at = calls[i].at /\ (p.done <=> seen = DOMAIN Horizons) /\ p.done \in BOOLEAN
  BY DEF Entry
<1>4. seen \subseteq DOMAIN Horizons /\ Past \subseteq DOMAIN Horizons
  BY DEF Seen
<1>5. ASSUME ~(mid # 0 /\ IsLive(calls, i)) PROVE Entry(more, i) = p
  BY <1>1, <1>2, <1>5 DEF Entry
<1>6. ASSUME mid # 0 /\ IsLive(calls, i) PROVE Entry(more, i) = Settled(p, at)
  <2>1. Due(p, at) = IF p.done THEN {} ELSE Past \ seen
    BY <1>3 DEF Due
  <2> HIDE DEF seen, Past
  <2>2. seen \cup Due(p, at) = seen \cup Past
    BY <1>3, <1>4, <2>1
  <2>3. Settled(p, at) = [p EXCEPT !.settled = seen \cup Past,
                                   !.done = p.done \/ seen \cup Past = DOMAIN Horizons]
    <3> HIDE DEF p
    <3> QED BY <1>3, <2>2 DEF Settled
  <2>4. (p.done \/ seen \cup Past = DOMAIN Horizons) <=> seen \cup Past = DOMAIN Horizons
    BY <1>3, <1>4
  <2>5. Settled(p, at) = [at |-> calls[i].at, taker |-> calls[i].made.taker, px |-> calls[i].made.px,
                          settled |-> seen \cup Past, done |-> seen \cup Past = DOMAIN Horizons]
    <3>1. p = [at |-> calls[i].at, taker |-> calls[i].made.taker, px |-> calls[i].made.px,
               settled |-> seen, done |-> seen = DOMAIN Horizons]
      BY DEF Entry, seen
    <3>2. (p.done \/ seen \cup Past = DOMAIN Horizons) = (seen \cup Past = DOMAIN Horizons)
      BY <1>3, <2>4
    <3> HIDE DEF p
    <3>3. Settled(p, at) = [p EXCEPT !.settled = seen \cup Past,
                                     !.done = (seen \cup Past = DOMAIN Horizons)]
      BY <2>3, <3>2
    <3> QED BY <3>1, <3>3
  <2> QED BY <1>1, <1>2, <1>6, <2>5 DEF Entry
<1> QED BY <1>5, <1>6 DEF more

LEMMA SettledIs ==
    ASSUME NEW p \in PendingType, NEW at \in Nat
    PROVE  Settled(p, at) \in PendingType /\ Settled(NoPending, at) = NoPending
<1>1. Due(p, at) \subseteq DOMAIN Horizons
  BY DEF Due
<1>2. Settled(p, at) \in PendingType
  <2>1. p.settled \cup Due(p, at) \in SUBSET DOMAIN Horizons /\ p.settled \in SUBSET DOMAIN Horizons
    BY <1>1 DEF PendingType
  <2>2. (p.done \/ p.settled \cup Due(p, at) = DOMAIN Horizons) \in BOOLEAN
    BY DEF PendingType
  <2> QED BY <2>1, <2>2 DEF Settled, PendingType
<1>3. Settled(NoPending, at) = NoPending
  <2>1. Due(NoPending, at) = {}
    BY DEF Due, NoPending
  <2>2. NoPending.settled = {} /\ NoPending.done = TRUE
    BY DEF NoPending
  <2>3. (NoPending.done \/ NoPending.settled \cup Due(NoPending, at) = DOMAIN Horizons) = TRUE
    BY <2>2
  <2>4. NoPending.settled \cup Due(NoPending, at) = {}
    BY <2>1, <2>2
  <2>5. Settled(NoPending, at) = [NoPending EXCEPT !.settled = {}, !.done = TRUE]
    BY <2>3, <2>4 DEF Settled
  <2> QED BY <2>5 DEF NoPending
<1> QED BY <1>2, <1>3

LEMMA SlotsOnResolve ==
    ASSUME NEW calls \in Seq(Call), NEW pending, Slots(calls, pending), NEW at \in Nat, NEW mid \in Nat
    PROVE  Slots(Append(calls, ResolveOf(at, mid)),
                 IF mid = 0 THEN pending ELSE [i \in DOMAIN pending |-> Settled(pending[i], at)])
<1> DEFINE more == Append(calls, ResolveOf(at, mid))
           later == IF mid = 0 THEN pending ELSE [i \in DOMAIN pending |-> Settled(pending[i], at)]
<1>1. /\ Made(more) = Made(calls)
      /\ \A i \in Made(calls) : Slot(more, i) = Slot(calls, i) /\ (IsLive(more, i) <=> IsLive(calls, i))
  BY ResolveIs
<1>2. \A i \in Made(calls) : IsLive(calls, i) =>
            Entry(more, i) = IF mid # 0 THEN Settled(Entry(calls, i), at) ELSE Entry(calls, i)
  BY EntryOnResolve
<1>3. pending \in [0 .. PendingSlots - 1 -> PendingType]
  BY DEF Slots
<1>4. later \in [0 .. PendingSlots - 1 -> PendingType]
      /\ \A j \in 0 .. PendingSlots - 1 : later[j] = IF mid # 0 THEN Settled(pending[j], at) ELSE pending[j]
  <2>1. \A j \in 0 .. PendingSlots - 1 : Settled(pending[j], at) \in PendingType
    BY <1>3, SettledIs
  <2> HIDE DEF PendingType
  <2> QED BY <1>3, <2>1
<1> HIDE DEF more, later
<1>5. ASSUME NEW i \in Made(calls), IsLive(calls, i) PROVE later[Slot(more, i)] = Entry(more, i)
  <2>1. Slot(calls, i) \in 0 .. PendingSlots - 1
    BY <1>5, SlotsAreApart
  <2>2. pending[Slot(calls, i)] = Entry(calls, i)
    BY <1>5 DEF Slots
  <2> QED BY <1>1, <1>2, <1>4, <1>5, <2>1, <2>2
<1>6. ASSUME NEW j \in 0 .. PendingSlots - 1, later[j] # NoPending
      PROVE  \E i \in Made(calls) : IsLive(calls, i) /\ Slot(calls, i) = j
  <2>1. pending[j] # NoPending
    <3>1. pending[j] \in PendingType
      BY <1>3
    <3> QED BY <1>4, <1>6, <3>1, SettledIs
  <2> QED BY <2>1 DEF Slots
<1>7. Slots(more, later)
  <2>1. \A j \in 0 .. PendingSlots - 1 :
            later[j] = NoPending \/ \E i \in Made(more) : IsLive(more, i) /\ Slot(more, i) = j
    BY <1>1, <1>6
  <2>2. \A i \in Made(more) : IsLive(more, i) => later[Slot(more, i)] = Entry(more, i)
    BY <1>1, <1>5
  <2> QED BY <1>4, <2>1, <2>2 DEF Slots
<1> QED BY <1>7 DEF more, later

LEMMA DroppedOnResolve ==
    ASSUME NEW calls \in Seq(Call), NEW at \in Nat, NEW mid \in Nat
    PROVE  Lost(Append(calls, ResolveOf(at, mid))) = Lost(calls)
<1> DEFINE more == Append(calls, ResolveOf(at, mid))
<1>1. /\ Made(more) = Made(calls)
      /\ \A i \in Made(calls) : Behind(more, i) = Behind(calls, i) /\ Behind(calls, i) \in Nat
      /\ \A i \in Made(calls), h \in DOMAIN Horizons :
            ~IsLive(calls, i) => Settling(more, i, h) = Settling(calls, i, h)
  BY ResolveIs
<1>2. \A i \in Made(calls) : Behind(calls, i) >= PendingSlots => ~IsLive(calls, i)
  BY <1>1, SlippageAssumption DEF IsLive
<1>3. Lost(calls) = {i \in Made(calls) : Behind(calls, i) >= PendingSlots
                                         /\ \E h \in DOMAIN Horizons : Settling(calls, i, h) = {}}
  BY DEF Lost, Behind
<1>4. Lost(more) = {i \in Made(more) : Behind(more, i) >= PendingSlots
                                        /\ \E h \in DOMAIN Horizons : Settling(more, i, h) = {}}
  BY DEF Lost, Behind
<1> HIDE DEF more
<1>5. Lost(more) = Lost(calls)
  BY <1>1, <1>2, <1>3, <1>4
<1> QED BY <1>5 DEF more

--------------------------------------------------------------------------------
(* The markouts.                                                           *)

LEMMA MinOfFinite ==
    ASSUME NEW T, IsFiniteSet(T), T \subseteq Int, T # {}
    PROVE  Min(T) \in T /\ \A y \in T : Min(T) <= y
<1> DEFINE N == Cardinality(T)
           Has(U) == \E x \in U : \A y \in U : x <= y
           S == {n \in 0 .. N : \A U \in SUBSET T : Cardinality(U) = n /\ U # {} => Has(U)}
<1>1. /\ N \in Nat
      /\ \A U \in SUBSET T : IsFiniteSet(U) /\ Cardinality(U) \in Nat /\ Cardinality(U) <= N
  BY FS_Subset, FS_CardinalityType
<1>2. 0 \in S
  <2>1. \A U \in SUBSET T : Cardinality(U) = 0 => U = {}
    BY <1>1, FS_EmptySet
  <2>2. \A U \in SUBSET T : Cardinality(U) = 0 /\ U # {} => Has(U)
    BY <2>1
  <2> HIDE DEF N, Has
  <2> QED BY <1>1, <2>2
<1>3. ASSUME NEW n \in 0 .. N - 1, n \in S PROVE n + 1 \in S
  <2>1. n \in Nat /\ n + 1 \in 0 .. N
    BY <1>1
  <2>2. ASSUME NEW U \in SUBSET T, Cardinality(U) = n + 1, U # {} PROVE Has(U)
    <3>1. PICK u : u \in U
      BY <2>2
    <3>2. Cardinality(U \ {u}) = n /\ U \ {u} \in SUBSET T
      BY <1>1, <2>1, <2>2, <3>1, WithoutOne
    <3>3. CASE U \ {u} = {}
      <4>1. \A y \in U : y = u
        BY <3>1, <3>3
      <4> QED BY <3>1, <4>1
    <3>4. CASE U \ {u} # {}
      <4>1. Has(U \ {u})
        <5> HIDE DEF Has
        <5> QED BY <1>3, <3>2, <3>4
      <4>2. PICK x \in U \ {u} : \A y \in U \ {u} : x <= y
        BY <4>1
      <4>3. x \in Int /\ u \in Int /\ \A y \in U : y \in Int
        BY <3>1
      <4>4. CASE x <= u
        BY <4>2, <4>4
      <4>5. CASE ~(x <= u)
        <5>1. \A y \in U : u <= y
          BY <4>2, <4>3, <4>5
        <5> QED BY <3>1, <5>1
      <4> QED BY <4>4, <4>5
    <3> QED BY <3>3, <3>4
  <2> HIDE DEF N, Has
  <2> QED BY <2>1, <2>2
<1>4. N \in S
  <2> HIDE DEF S, N
  <2>1. N \in 0 .. N
    BY <1>1
  <2> QED BY <1>1, <1>2, <1>3, <2>1, Climb
<1>5. Has(T)
  <2> HIDE DEF Has
  <2> QED BY <1>4
<1> QED BY <1>5 DEF Min

\* The move of an execution that was observed.
MoveOf(calls, i, h) == Moved(calls[i].made, calls[Min(Settling(calls, i, h))].mid)

LEMMA MovedIs ==
    ASSUME NEW p, p.taker \in {"Buy", "Sell"}, p.px \in Nat, NEW mid \in Nat
    PROVE  Moved(p, mid) \in Int
<1>1. Sign(p.taker) \in Int
  BY SignIs
<1>2. Sign(p.taker) * (mid - p.px) \in Int
  BY <1>1
<1> QED BY <1>2, DeltaIs DEF Moved

LEMMA MoveIs ==
    ASSUME NEW calls \in Seq(Call), NEW h \in DOMAIN Horizons, NEW i \in Observed(calls, h)
    PROVE  /\ i \in Made(calls) /\ MoveOf(calls, i, h) \in Int
           /\ Min(Settling(calls, i, h)) \in Settling(calls, i, h)
           /\ \A j \in Settling(calls, i, h) : Min(Settling(calls, i, h)) <= j
           /\ Settling(calls, i, h) \subseteq (1 .. Len(calls)) \ Made(calls)
<1> DEFINE S == Settling(calls, i, h)
<1>1. i \in Made(calls) /\ S # {}
  BY DEF Observed
<1>2. S \subseteq (1 .. Len(calls)) \ Made(calls)
  <2>1. DOMAIN calls = 1 .. Len(calls)
    <3> HIDE DEF Call
    <3> QED OBVIOUS
  <2> QED BY <2>1 DEF Settling
<1> HIDE DEF S
<1>3. Min(S) \in S /\ \A j \in S : Min(S) <= j
  <2>1. S \subseteq Nat
    BY <1>2
  <2> QED BY <1>1, <2>1, MinOfNats
<1>4. calls[Min(S)].mid \in Nat
  <2> DEFINE c == ResolveOf(0, 0)
  <2>1. c \in Call
    BY DEF ResolveOf, Call
  <2> HIDE DEF c
  <2>2. calls[Min(S)] \in [call : {"resolve"}, at : Nat, mid : Nat]
    BY <1>2, <1>3, <2>1, MadeGrows
  <2> QED BY <2>2
<1>5. calls[i].made.taker \in {"Buy", "Sell"} /\ calls[i].made.px \in Nat
  BY <1>1, EntriesAre DEF Trade
<1>6. MoveOf(calls, i, h) \in Int
  <2> DEFINE mid == calls[Min(S)].mid
             p == calls[i].made
  <2>1. MoveOf(calls, i, h) = Moved(p, mid)
    BY DEF MoveOf, S
  <2> HIDE DEF mid, p
  <2> QED BY <1>4, <1>5, <2>1, MovedIs DEF mid, p
<1> QED BY <1>1, <1>2, <1>3, <1>6 DEF S

\* By horizon: as many observed as are counted, what their moves add up to, and
\* one that none of them is below.
Marks(calls, markout) ==
    /\ markout \in [DOMAIN Horizons -> [count : Nat, sum : Int, worst : Int]]
    /\ \A h \in DOMAIN Horizons :
        /\ markout[h].count = Cardinality(Observed(calls, h))
        /\ markout[h].sum = SumFunction(Markouts(calls, h))
        /\ \A i \in Observed(calls, h) : markout[h].worst <= MoveOf(calls, i, h)

LEMMA MarkoutsAre ==
    ASSUME NEW calls \in Seq(Call), NEW h \in DOMAIN Horizons
    PROVE  /\ DOMAIN Markouts(calls, h) = Observed(calls, h)
           /\ \A i \in Observed(calls, h) : /\ Markouts(calls, h)[i] = MoveOf(calls, i, h)
                                            /\ Markouts(calls, h)[i] \in Int
           /\ IsFiniteSet(Observed(calls, h)) /\ Cardinality(Observed(calls, h)) \in Nat
           /\ SumFunction(Markouts(calls, h)) = SumFunctionOnSet(Markouts(calls, h), Observed(calls, h))
<1>1. DOMAIN Markouts(calls, h) = Observed(calls, h)
      /\ \A i \in Observed(calls, h) : Markouts(calls, h)[i] = MoveOf(calls, i, h)
  BY DEF Markouts, MoveOf
<1>2. \A i \in Observed(calls, h) : MoveOf(calls, i, h) \in Int
  BY MoveIs
<1>3. IsFiniteSet(Observed(calls, h)) /\ Cardinality(Observed(calls, h)) \in Nat
  <2>1. Observed(calls, h) \subseteq Made(calls)
    BY DEF Observed
  <2> QED BY <2>1, MadeIsFinite, FS_Subset, FS_CardinalityType
<1> QED BY <1>1, <1>2, <1>3 DEF SumFunction

LEMMA MarksOnRecord ==
    ASSUME NEW calls \in Seq(Call), NEW markout, Marks(calls, markout), NEW e \in Trade, NEW at \in Nat
    PROVE  Marks(Append(calls, RecordOf(e, at)), markout)
<1> DEFINE c == RecordOf(e, at)
           more == Append(calls, c)
           k == Len(calls) + 1
<1>1. c \in Call /\ c.call = "record"
  BY DEF RecordOf, Call
<1>2. \A h \in DOMAIN Horizons :
        Settling(more, k, h) = {} /\ \A i \in Made(calls) : Settling(more, i, h) = Settling(calls, i, h)
  BY SeenOnRecord
<1> HIDE DEF c
<1>3. Made(more) = Made(calls) \cup {k}
  BY <1>1, MadeGrows
<1>4. \A i \in 1 .. Len(calls) : more[i] = calls[i]
  BY <1>1, CallsGrow
<1>m. Made(calls) \subseteq 1 .. Len(calls)
  BY <1>1, MadeGrows
<1> HIDE DEF more, k
<1>5. ASSUME NEW h \in DOMAIN Horizons PROVE Observed(more, h) = Observed(calls, h)
  BY <1>2, <1>3 DEF Observed
<1>6. ASSUME NEW h \in DOMAIN Horizons, NEW i \in Observed(calls, h)
      PROVE  MoveOf(more, i, h) = MoveOf(calls, i, h)
  <2>1. i \in Made(calls) /\ Min(Settling(calls, i, h)) \in 1 .. Len(calls)
    BY MoveIs
  <2>2. Settling(more, i, h) = Settling(calls, i, h) /\ more[i] = calls[i]
    BY <1>2, <1>4, <1>m, <2>1
  <2> QED BY <1>4, <2>1, <2>2 DEF MoveOf
<1>7. ASSUME NEW h \in DOMAIN Horizons PROVE Markouts(more, h) = Markouts(calls, h)
  <2>1. /\ Markouts(more, h) = [i \in Observed(more, h) |-> MoveOf(more, i, h)]
        /\ Markouts(calls, h) = [i \in Observed(calls, h) |-> MoveOf(calls, i, h)]
    BY DEF Markouts, MoveOf
  <2> QED BY <1>5, <1>6, <2>1
<1>8. Marks(more, markout)
  BY <1>5, <1>6, <1>7 DEF Marks
<1> QED BY <1>8 DEF more, c

\* The slots that a timer call settles for a horizon, and the executions that it is
\* the first to find past it.
DueAt(pending, h, at) == {s \in DOMAIN pending : h \in Due(pending[s], at)}

News(calls, h, at) == {i \in Made(calls) : /\ IsLive(calls, i) /\ Settling(calls, i, h) = {}
                                           /\ at - calls[i].at >= Horizons[h]}

LEMMA DueSlots ==
    ASSUME NEW calls \in Seq(Call), NEW pending, Slots(calls, pending), NEW at \in Nat,
           NEW h \in DOMAIN Horizons
    PROVE  LET due  == DueAt(pending, h, at)
               news == News(calls, h, at)
           IN  /\ IsFiniteSet(due)
               /\ \A i \in news : Slot(calls, i) \in due /\ pending[Slot(calls, i)] = Entry(calls, i)
               /\ \A s \in due : \E i \in news : Slot(calls, i) = s
               /\ \A i, j \in news : Slot(calls, i) = Slot(calls, j) => i = j
<1> DEFINE due == {s \in DOMAIN pending : h \in Due(pending[s], at)}
           news == {i \in Made(calls) : /\ IsLive(calls, i) /\ Settling(calls, i, h) = {}
                                        /\ at - calls[i].at >= Horizons[h]}
<1>1. DOMAIN pending = 0 .. PendingSlots - 1
  BY DEF Slots
<1>2. IsFiniteSet(due)
  <2>1. IsFiniteSet(0 .. PendingSlots - 1)
    BY SlippageAssumption, FS_Interval
  <2>2. due \subseteq 0 .. PendingSlots - 1
    BY <1>1
  <2> HIDE DEF due
  <2> QED BY <2>1, <2>2, FS_Subset
<1>3. \A i \in Made(calls) : h \in Due(Entry(calls, i), at) <=>
            Settling(calls, i, h) = {} /\ at - calls[i].at >= Horizons[h]
  <2>1. SUFFICES ASSUME NEW i \in Made(calls)
                 PROVE  h \in Due(Entry(calls, i), at) <=>
                            Settling(calls, i, h) = {} /\ at - calls[i].at >= Horizons[h]
    OBVIOUS
  <2> DEFINE p == Entry(calls, i)
  <2>2. p.at = calls[i].at /\ p.settled = Seen(calls, i) /\ (p.done <=> Seen(calls, i) = DOMAIN Horizons)
    BY DEF Entry
  <2>3. h \in Seen(calls, i) <=> Settling(calls, i, h) # {}
    BY DEF Seen
  <2> HIDE DEF p
  <2>4. h \in Due(p, at) <=> ~p.done /\ at - p.at >= Horizons[h] /\ h \notin p.settled
    BY DEF Due
  <2>5. h \notin Seen(calls, i) => Seen(calls, i) # DOMAIN Horizons
    OBVIOUS
  <2> QED BY <2>2, <2>3, <2>4, <2>5 DEF p
<1>4. ASSUME NEW i \in news
      PROVE  /\ i \in Made(calls) /\ IsLive(calls, i) /\ Slot(calls, i) \in DOMAIN pending
             /\ pending[Slot(calls, i)] = Entry(calls, i) /\ Slot(calls, i) \in due
  <2>1. i \in Made(calls) /\ IsLive(calls, i) /\ h \in Due(Entry(calls, i), at)
    BY <1>3
  <2>2. Slot(calls, i) \in DOMAIN pending
    BY <1>1, <2>1, SlotsAreApart
  <2>3. pending[Slot(calls, i)] = Entry(calls, i)
    BY <2>1 DEF Slots
  <2> QED BY <2>1, <2>2, <2>3
<1>5. ASSUME NEW s \in due PROVE \E i \in news : Slot(calls, i) = s
  <2>1. s \in 0 .. PendingSlots - 1 /\ h \in Due(pending[s], at)
    BY <1>1
  <2>2. pending[s] # NoPending
    BY <2>1 DEF Due, NoPending
  <2>3. PICK i \in Made(calls) : IsLive(calls, i) /\ Slot(calls, i) = s
    BY <2>1, <2>2 DEF Slots
  <2>4. h \in Due(Entry(calls, i), at)
    <3>1. pending[s] = Entry(calls, i)
      BY <2>3 DEF Slots
    <3> QED BY <2>1, <3>1
  <2>5. i \in news
    BY <1>3, <2>3, <2>4
  <2> QED BY <2>3, <2>5
<1>6. \A i, j \in news : Slot(calls, i) = Slot(calls, j) => i = j
  <2>1. \A i \in news : i \in Made(calls) /\ IsLive(calls, i)
    OBVIOUS
  <2> HIDE DEF news
  <2> QED BY <2>1, SlotsAreApart
<1>7. due = DueAt(pending, h, at) /\ news = News(calls, h, at)
  BY DEF DueAt, News
<1> HIDE DEF due, news
<1> QED BY <1>2, <1>4, <1>5, <1>6, <1>7

MarkAfter(mark, pending, h, at, mid) ==
    LET due   == DueAt(pending, h, at)
        moves == [s \in due |-> Moved(pending[s], mid)]
    IN  [count |-> mark.count + Cardinality(due),
         sum   |-> mark.sum + SumFunction(moves),
         worst |-> Min({mark.worst} \cup {moves[s] : s \in due})]

LEMMA MarkOnResolve ==
    ASSUME NEW calls \in Seq(Call), NEW pending, Slots(calls, pending), NEW at \in Nat, NEW mid \in Nat \ {0},
           NEW h \in DOMAIN Horizons, NEW mark \in [count : Nat, sum : Int, worst : Int],
           mark.count = Cardinality(Observed(calls, h)), mark.sum = SumFunction(Markouts(calls, h)),
           \A i \in Observed(calls, h) : mark.worst <= MoveOf(calls, i, h)
    PROVE  LET more  == Append(calls, ResolveOf(at, mid))
               later == MarkAfter(mark, pending, h, at, mid)
           IN  /\ later \in [count : Nat, sum : Int, worst : Int]
               /\ later.count = Cardinality(Observed(more, h)) /\ later.sum = SumFunction(Markouts(more, h))
               /\ \A i \in Observed(more, h) : later.worst <= MoveOf(more, i, h)
<1> DEFINE more == Append(calls, ResolveOf(at, mid))
           k == Len(calls) + 1
           due == DueAt(pending, h, at)
           moves == [s \in due |-> Moved(pending[s], mid)]
           low == Min({mark.worst} \cup {moves[s] : s \in due})
           news == News(calls, h, at)
           A == Observed(calls, h)
           F == Markouts(more, h)
           b == [s \in due |-> CHOOSE i \in news : Slot(calls, i) = s]
<1>1. /\ Made(more) = Made(calls) /\ Len(calls) \in Nat
      /\ \A i \in Made(calls) :
            /\ Settling(calls, i, h) \subseteq 1 .. Len(calls)
            /\ Settling(more, i, h) = IF IsLive(calls, i) /\ at - calls[i].at >= Horizons[h]
                                      THEN Settling(calls, i, h) \cup {k} ELSE Settling(calls, i, h)
  <2>1. Len(calls) \in Nat
    <3> HIDE DEF Call
    <3> QED OBVIOUS
  <2> QED BY <2>1, ResolveIs
<1>2. more \in Seq(Call) /\ more[k].mid = mid /\ \A i \in 1 .. Len(calls) : more[i] = calls[i]
  <2> DEFINE c == ResolveOf(at, mid)
  <2>1. c \in Call /\ c.mid = mid
    BY ResolveIs
  <2> HIDE DEF c
  <2> QED BY <2>1, CallsGrow DEF c
<1>3. Made(calls) \subseteq 1 .. Len(calls)
  BY EntriesAre
<1>4. /\ IsFiniteSet(due)
      /\ \A i \in news : Slot(calls, i) \in due /\ pending[Slot(calls, i)] = Entry(calls, i)
      /\ \A s \in due : \E i \in news : Slot(calls, i) = s
      /\ \A i, j \in news : Slot(calls, i) = Slot(calls, j) => i = j
  BY DueSlots
<1>n. /\ news \subseteq Made(calls)
      /\ \A i \in Made(calls) : i \in news <=> /\ IsLive(calls, i) /\ Settling(calls, i, h) = {}
                                               /\ at - calls[i].at >= Horizons[h]
  BY DEF News
<1>5. /\ \A i \in news : i \in Made(calls) /\ Settling(calls, i, h) = {} /\ i \notin A
      /\ \A i \in news : Settling(more, i, h) = {k}
  <2> HIDE DEF more, k, news
  <2> QED BY <1>1, <1>n DEF Observed
<1>6. Observed(more, h) = A \cup news
  <2>1. \A i \in Made(calls) : Settling(more, i, h) # {} <=> Settling(calls, i, h) # {} \/ i \in news
    <3> HIDE DEF more, k, news
    <3> QED BY <1>1, <1>n
  <2> HIDE DEF more, news
  <2> QED BY <1>1, <1>n, <2>1 DEF Observed
<1> HIDE DEF more, news, due
<1>7. \A s \in due : b[s] \in news /\ Slot(calls, b[s]) = s
  BY <1>4
<1>8. {b[s] : s \in due} = news
  <2>1. ASSUME NEW i \in news PROVE \E s \in due : b[s] = i
    <3>1. Slot(calls, i) \in due
      BY <1>4
    <3>2. b[Slot(calls, i)] \in news /\ Slot(calls, b[Slot(calls, i)]) = Slot(calls, i)
      BY <1>7, <3>1
    <3> HIDE DEF b
    <3>3. b[Slot(calls, i)] = i
      BY <1>4, <3>2
    <3> QED BY <3>1, <3>3
  <2> HIDE DEF b
  <2> QED BY <1>7, <2>1
<1>9. /\ \A i \in A : F[i] = MoveOf(calls, i, h) /\ F[i] = Markouts(calls, h)[i] /\ F[i] \in Int
      /\ \A i \in news : F[i] = Moved(calls[i].made, mid) /\ F[i] \in Int
  <2>1. \A i \in A \cup news : F[i] = MoveOf(more, i, h) /\ F[i] \in Int
    BY <1>2, <1>6, MarkoutsAre
  <2>2. ASSUME NEW i \in A PROVE MoveOf(more, i, h) = MoveOf(calls, i, h)
    <3> DEFINE S == Settling(calls, i, h)
               m == Min(S)
    <3>1. i \in Made(calls) /\ m \in S /\ S \subseteq 1 .. Len(calls) /\ \A j \in S : m <= j
      BY MoveIs
    <3>2. Settling(more, i, h) = S \/ Settling(more, i, h) = S \cup {k}
      BY <1>1, <3>1
    <3>3. Min(Settling(more, i, h)) = m
      <4> DEFINE U == Settling(more, i, h)
      <4>1. U \subseteq Nat /\ m \in U /\ m \in Nat /\ \A j \in U : m <= j
        <5> HIDE DEF m, S
        <5> QED BY <1>1, <3>1, <3>2
      <4> HIDE DEF U, m
      <4>2. Min(U) \in U /\ \A j \in U : Min(U) <= j
        BY <4>1, MinOfNats
      <4>3. Min(U) \in Nat /\ Min(U) <= m /\ m <= Min(U)
        BY <4>1, <4>2
      <4>4. Min(U) = m
        BY <4>1, <4>3
      <4> QED BY <4>4 DEF U
    <3>4. more[i] = calls[i] /\ more[m] = calls[m]
      <4> HIDE DEF m, S
      <4> QED BY <1>2, <1>3, <3>1
    <3> HIDE DEF m, S
    <3> QED BY <3>3, <3>4 DEF MoveOf, m, S
  <2>3. ASSUME NEW i \in news PROVE MoveOf(more, i, h) = Moved(calls[i].made, mid)
    <3>1. Min({k}) = k
      <4>1. k \in Nat
        BY <1>1
      <4> HIDE DEF k
      <4>2. {k} \subseteq Nat /\ {k} # {}
        BY <4>1
      <4>3. Min({k}) \in {k}
        BY <4>2, MinOfNats
      <4> QED BY <4>3
    <3>2. Settling(more, i, h) = {k} /\ more[i] = calls[i]
      BY <1>2, <1>3, <1>5
    <3> HIDE DEF k
    <3> QED BY <1>2, <3>1, <3>2 DEF MoveOf
  <2>4. \A i \in A : Markouts(calls, h)[i] = MoveOf(calls, i, h)
    BY MarkoutsAre
  <2> HIDE DEF F, A
  <2> QED BY <2>1, <2>2, <2>3, <2>4
<1>10. \A s \in due : moves[s] = F[b[s]] /\ moves[s] \in Int /\ b[s] \notin A
  <2>1. SUFFICES ASSUME NEW s \in due PROVE moves[s] = F[b[s]] /\ moves[s] \in Int /\ b[s] \notin A
    OBVIOUS
  <2> DEFINE i == b[s]
  <2>2. i \in news /\ Slot(calls, i) = s /\ i \notin A
    BY <1>5, <1>7
  <2> HIDE DEF i, F, A
  <2>3. pending[s] = Entry(calls, i)
    BY <1>4, <2>2
  <2>4. Moved(pending[s], mid) = Moved(calls[i].made, mid)
    BY <2>3 DEF Moved, Entry
  <2>5. moves[s] = F[i] /\ F[i] \in Int
    BY <1>9, <2>2, <2>4
  <2> QED BY <2>2, <2>5 DEF i
<1>11. \A s, t \in due : b[s] = b[t] => s = t
  <2> HIDE DEF b
  <2> QED BY <1>7
<1>12. /\ IsFiniteSet(A) /\ Cardinality(A) \in Nat /\ mark.sum = SumFunctionOnSet(Markouts(calls, h), A)
       /\ DOMAIN F = A \cup news /\ SumFunction(F) = SumFunctionOnSet(F, A \cup news)
  BY <1>2, <1>6, MarkoutsAre
<1>13. DOMAIN moves = due /\ SumFunction(moves) = SumFunctionOnSet(moves, due)
  BY DEF SumFunction
<1> HIDE DEF F, A, b, moves
<1>14. /\ Cardinality(A \cup news) = Cardinality(A) + Cardinality(due)
       /\ SumFunctionOnSet(F, A \cup news) = SumFunctionOnSet(F, A) + SumFunctionOnSet(moves, due)
  <2>1. \A x \in A : F[x] \in Int
    BY <1>9
  <2>2. \A s \in due : moves[s] \in Int
    BY <1>10
  <2>3. \A s \in due : b[s] \notin A /\ F[b[s]] = moves[s]
    BY <1>10
  <2>4. LET all == A \cup {b[t] : t \in due}
        IN  /\ IsFiniteSet(all) /\ Cardinality(all) = Cardinality(A) + Cardinality(due)
            /\ SumFunctionOnSet(F, all) = SumFunctionOnSet(F, A) + SumFunctionOnSet(moves, due)
    <3>1. IsFiniteSet(due) /\ IsFiniteSet(A)
      BY <1>4, <1>12
    <3>2. Joins(A, F, due, moves, b)
      BY <1>11, <2>1, <2>2, <2>3, <3>1 DEF Joins
    <3> QED BY <3>2, SumGrows
  <2> QED BY <1>8, <2>4
<1>15. SumFunctionOnSet(F, A) = mark.sum /\ mark.sum \in Int
  <2>1. \A x \in A : Markouts(calls, h)[x] \in Int /\ F[x] = Markouts(calls, h)[x]
    BY <1>9
  <2> QED BY <1>12, <2>1, SumSame
<1>16. Cardinality(due) \in Nat /\ SumFunctionOnSet(moves, due) \in Int
  BY <1>4, <1>10, FS_CardinalityType, SumSame
<1>17. low \in Int /\ low <= mark.worst /\ \A s \in due : low <= moves[s]
  <2> DEFINE T == {mark.worst} \cup {moves[s] : s \in due}
  <2>1. IsFiniteSet({moves[s] : s \in due})
    <3> DEFINE all == {moves[s] : s \in due}
    <3>1. moves \in [due -> all] /\ \A y \in all : \E s \in due : moves[s] = y
      BY DEF moves
    <3>2. moves \in Surjection(due, all)
      <4> HIDE DEF all, moves
      <4> QED BY <3>1 DEF Surjection
    <3> QED BY <1>4, <3>2, FS_Surjection
  <2>2. IsFiniteSet(T)
    BY <2>1, FS_Union, FS_Singleton
  <2>3. T \subseteq Int /\ T # {}
    BY <1>10
  <2>4. Min(T) \in T /\ \A y \in T : Min(T) <= y
    <3> HIDE DEF T
    <3> QED BY <2>2, <2>3, MinOfFinite
  <2> QED BY <2>3, <2>4
<1> HIDE DEF low
<1>18. \A i \in A \cup news : low <= MoveOf(more, i, h)
  <2>0. \A i \in A \cup news : MoveOf(more, i, h) = F[i]
    BY <1>2, <1>6, MarkoutsAre DEF F
  <2>1. ASSUME NEW i \in A PROVE low <= F[i]
    <3>1. mark.worst <= F[i] /\ F[i] \in Int /\ mark.worst \in Int
      BY <1>9 DEF A
    <3> QED BY <1>17, <3>1
  <2>2. ASSUME NEW i \in news PROVE low <= F[i]
    <3>1. PICK s \in due : b[s] = i
      BY <1>8
    <3> QED BY <1>10, <1>17, <3>1
  <2> QED BY <2>0, <2>1, <2>2
<1> DEFINE later == [count |-> mark.count + Cardinality(due), sum |-> mark.sum + SumFunction(moves), worst |-> low]
<1>19. later.count = Cardinality(Observed(more, h)) /\ later.sum = SumFunction(F) /\ later.worst = low
  BY <1>6, <1>12, <1>13, <1>14, <1>15 DEF A
<1>20. later \in [count : Nat, sum : Int, worst : Int]
  <2>1. mark.count + Cardinality(due) \in Nat /\ mark.sum + SumFunction(moves) \in Int
    BY <1>13, <1>15, <1>16
  <2> QED BY <1>17, <2>1
<1> HIDE DEF later
<1>21. \A i \in Observed(more, h) : later.worst <= MoveOf(more, i, h)
  BY <1>6, <1>18, <1>19
<1>22. later = MarkAfter(mark, pending, h, at, mid)
  BY DEF later, MarkAfter, due, moves, low
<1> QED BY <1>19, <1>20, <1>21, <1>22 DEF more, F

\* A timer call that finds no mid observes nothing.
LEMMA MarksOnNoMid ==
    ASSUME NEW calls \in Seq(Call), NEW markout, Marks(calls, markout), NEW at \in Nat, NEW mid \in Nat, mid = 0
    PROVE  Marks(Append(calls, ResolveOf(at, mid)), markout)
<1> DEFINE more == Append(calls, ResolveOf(at, mid))
<1>1. /\ Made(more) = Made(calls)
      /\ \A i \in Made(calls), h \in DOMAIN Horizons : Settling(more, i, h) = Settling(calls, i, h)
  <2>1. \A i \in Made(calls), h \in DOMAIN Horizons :
            Settling(more, i, h) = IF IsLive(calls, i) /\ mid # 0 /\ at - calls[i].at >= Horizons[h]
                                   THEN Settling(calls, i, h) \cup {Len(calls) + 1} ELSE Settling(calls, i, h)
    BY ResolveIs
  <2>2. Made(more) = Made(calls)
    BY ResolveIs
  <2> HIDE DEF more
  <2> QED BY <2>1, <2>2
<1>2. \A i \in 1 .. Len(calls) : more[i] = calls[i]
  <2> DEFINE c == ResolveOf(at, mid)
  <2>1. c \in Call
    BY ResolveIs
  <2> HIDE DEF c
  <2> QED BY <2>1, CallsGrow DEF c
<1>3. Made(calls) \subseteq 1 .. Len(calls)
  BY EntriesAre
<1> HIDE DEF more
<1>4. ASSUME NEW h \in DOMAIN Horizons PROVE Observed(more, h) = Observed(calls, h)
  BY <1>1 DEF Observed
<1>5. ASSUME NEW h \in DOMAIN Horizons, NEW i \in Observed(calls, h)
      PROVE  MoveOf(more, i, h) = MoveOf(calls, i, h)
  <2>1. i \in Made(calls) /\ Min(Settling(calls, i, h)) \in 1 .. Len(calls)
    BY MoveIs
  <2> QED BY <1>1, <1>2, <1>3, <2>1 DEF MoveOf
<1>6. ASSUME NEW h \in DOMAIN Horizons PROVE Markouts(more, h) = Markouts(calls, h)
  <2>1. /\ Markouts(more, h) = [i \in Observed(more, h) |-> MoveOf(more, i, h)]
        /\ Markouts(calls, h) = [i \in Observed(calls, h) |-> MoveOf(calls, i, h)]
    BY DEF Markouts, MoveOf
  <2> QED BY <1>4, <1>5, <2>1
<1>7. Marks(more, markout)
  BY <1>4, <1>5, <1>6 DEF Marks
<1> QED BY <1>7 DEF more

LEMMA MarksOnResolve ==
    ASSUME NEW calls \in Seq(Call), NEW pending, Slots(calls, pending), NEW markout, Marks(calls, markout),
           NEW at \in Nat, NEW mid \in Nat \ {0}, NEW later,
           later = [h \in DOMAIN Horizons |-> MarkAfter(markout[h], pending, h, at, mid)]
    PROVE  Marks(Append(calls, ResolveOf(at, mid)), later)
<1> DEFINE more == Append(calls, ResolveOf(at, mid))
<1>1. ASSUME NEW h \in DOMAIN Horizons
      PROVE  /\ later[h] \in [count : Nat, sum : Int, worst : Int]
             /\ later[h].count = Cardinality(Observed(more, h)) /\ later[h].sum = SumFunction(Markouts(more, h))
             /\ \A i \in Observed(more, h) : later[h].worst <= MoveOf(more, i, h)
  <2> DEFINE mark == markout[h]
             new == MarkAfter(mark, pending, h, at, mid)
  <2>1. /\ mark \in [count : Nat, sum : Int, worst : Int]
        /\ mark.count = Cardinality(Observed(calls, h)) /\ mark.sum = SumFunction(Markouts(calls, h))
        /\ \A i \in Observed(calls, h) : mark.worst <= MoveOf(calls, i, h)
    BY DEF Marks
  <2>2. later[h] = new
    <3> HIDE DEF more
    <3> QED OBVIOUS
  <2>3. /\ new \in [count : Nat, sum : Int, worst : Int]
        /\ new.count = Cardinality(Observed(more, h)) /\ new.sum = SumFunction(Markouts(more, h))
        /\ \A i \in Observed(more, h) : new.worst <= MoveOf(more, i, h)
    <3> HIDE DEF mark
    <3>1. LET next == MarkAfter(mark, pending, h, at, mid)
          IN  /\ next \in [count : Nat, sum : Int, worst : Int]
              /\ next.count = Cardinality(Observed(more, h)) /\ next.sum = SumFunction(Markouts(more, h))
              /\ \A i \in Observed(more, h) : next.worst <= MoveOf(more, i, h)
      BY <2>1, MarkOnResolve
    <3> HIDE DEF more
    <3> QED BY <3>1
  <2> HIDE DEF new, more
  <2> QED BY <2>2, <2>3
<1>2. later \in [DOMAIN Horizons -> [count : Nat, sum : Int, worst : Int]]
  <2>1. \A h \in DOMAIN Horizons : later[h] \in [count : Nat, sum : Int, worst : Int]
    BY <1>1
  <2>2. DOMAIN later = DOMAIN Horizons /\ later = [h \in DOMAIN Horizons |-> later[h]]
    OBVIOUS
  <2> QED BY <2>1, <2>2
<1> HIDE DEF more
<1>3. Marks(more, later)
  BY <1>1, <1>2 DEF Marks
<1> QED BY <1>3 DEF more

--------------------------------------------------------------------------------
(* The ledger.                                                             *)

SlInv ==
    /\ slCalls \in Seq(Call) /\ slNow \in Nat
    /\ slNext = Cardinality(Made(slCalls)) % PendingSlots
    /\ Slots(slCalls, slPending)
    /\ Marks(slCalls, slMarkout)
    /\ slDropped = Cardinality(Lost(slCalls))
    /\ Totals(slSums, slCalls)

LEMMA LedgerStarts == SlInit => SlInv
<1> SUFFICES ASSUME SlInit PROVE SlInv
  OBVIOUS
<1> USE DEF SlInit
<1>1. slCalls \in Seq(Call) /\ slNow \in Nat
  OBVIOUS
<1>2. Made(slCalls) = {}
  BY DEF Made
<1>3. Cardinality({}) = 0 /\ 0 % PendingSlots = 0
  <2>1. PendingSlots \in Nat \ {0}
    BY SlippageAssumption
  <2> QED BY <2>1, FS_EmptySet
<1>4. Slots(slCalls, slPending)
  <2>1. NoPending \in PendingType
    BY DEF NoPending, PendingType
  <2>2. slPending \in [0 .. PendingSlots - 1 -> PendingType]
        /\ \A k \in 0 .. PendingSlots - 1 : slPending[k] = NoPending
    <3> HIDE DEF PendingType, NoPending
    <3> QED BY <2>1
  <2> QED BY <1>2, <2>2 DEF Slots
<1>5. \A h \in DOMAIN Horizons : Observed(slCalls, h) = {}
  BY <1>2 DEF Observed
<1>6. Marks(slCalls, slMarkout)
  <2>1. \A h \in DOMAIN Horizons : SumFunction(Markouts(slCalls, h)) = 0
    <3>1. \A h \in DOMAIN Horizons : SumFunction(Markouts(slCalls, h)) = SumFunctionOnSet(Markouts(slCalls, h), {})
      BY <1>1, <1>5, MarkoutsAre
    <3> QED BY <3>1, SumOfNone
  <2>2. slMarkout \in [DOMAIN Horizons -> [count : Nat, sum : Int, worst : Int]]
        /\ \A h \in DOMAIN Horizons : slMarkout[h].count = 0 /\ slMarkout[h].sum = 0
    OBVIOUS
  <2> QED BY <1>3, <1>5, <2>1, <2>2 DEF Marks
<1>7. Lost(slCalls) = {}
  BY <1>2 DEF Lost
<1>8. Totals(slSums, slCalls)
  <2>1. CostsOf(slCalls) = {}
    BY <1>2 DEF CostsOf
  <2>2. slSums \in SumsType /\ slSums.executions = 0 /\ slSums.latency = 0 /\ slSums.depth = 0
        /\ slSums.shortfall = 0 /\ slSums.worst = -MaxInt - 1 /\ slSums.best = MaxInt
    BY FixedAssumption DEF NoSums, SumsType
  <2> QED BY <2>1, <2>2 DEF Totals
<1> QED BY <1>1, <1>2, <1>3, <1>4, <1>6, <1>7, <1>8 DEF SlInv

LEMMA LedgerStep ==
    ASSUME CostsFit, SlInv, [SlNext]_slVars
    PROVE  SlInv'
<1> USE DEF SlInv
<1>1. ASSUME NEW e \in Executions, SlRecord(e) PROVE SlInv'
  <2>1. e \in Trade
    BY SlippageAssumption DEF Trade
  <2> DEFINE more == Append(slCalls, RecordOf(e, slNow))
  <2>2. slCalls' = more /\ slNow' = slNow /\ slMarkout' = slMarkout
    BY <1>1 DEF SlRecord, RecordOf
  <2>3. more \in Seq(Call)
    <3>1. RecordOf(e, slNow) \in Call
      BY <2>1 DEF RecordOf, Call
    <3> QED BY <3>1, CallsGrow
  <2>4. Slots(more, slPending')
    <3>1. slPending' = [slPending EXCEPT ![Cardinality(Made(slCalls)) % PendingSlots] = Fresh(e, slNow)]
      BY <1>1 DEF SlRecord, Fresh
    <3> QED BY <2>1, <3>1, SlotsOnRecord
  <2>5. Marks(more, slMarkout)
    BY <2>1, MarksOnRecord
  <2>6. slDropped' = Cardinality(Lost(more))
    <3>1. slDropped' = slDropped + (IF slPending[slNext].done THEN 0 ELSE 1)
      BY <1>1 DEF SlRecord
    <3> QED BY <2>1, <3>1, DroppedOnRecord
  <2>7. Totals(slSums', more)
    <3>1. more = Append(slCalls, [call |-> "record", at |-> slNow, made |-> e])
      BY DEF RecordOf
    <3>2. slSums' = LET c == Decompose(e)
                    IN  [slSums EXCEPT
                          !.executions = @ + 1, !.latency = @ + c.latency, !.depth = @ + c.depth,
                          !.shortfall = @ + c.shortfall, !.spread = @ + c.spread,
                          !.worst = Max({@, c.shortfall}), !.best = Min({@, c.shortfall})]
      BY <1>1 DEF SlRecord
    <3> HIDE DEF more
    <3> QED BY <3>1, <3>2, TotalsGrow
  <2>8. slNext' = Cardinality(Made(more)) % PendingSlots
    <3> DEFINE R == Cardinality(Made(slCalls))
    <3>1. slNext' = ((R % PendingSlots) + 1) % PendingSlots
      BY <1>1 DEF SlRecord
    <3>2. Cardinality(Made(more)) = R + 1 /\ R \in Nat
      <4> DEFINE c == RecordOf(e, slNow)
      <4>1. c \in Call /\ c.call = "record"
        BY <2>1 DEF RecordOf, Call
      <4> HIDE DEF c
      <4> QED BY <4>1, BehindGrows, MadeIsFinite DEF c
    <3> HIDE DEF R
    <3>3. ((R % PendingSlots) + 1) % PendingSlots = (R + 1) % PendingSlots
      <4>1. PendingSlots \in Nat \ {0} /\ R \in Int /\ 1 \in Int
        BY <3>2, SlippageAssumption
      <4> QED BY <4>1, RemainderOfSum
    <3> QED BY <3>1, <3>2, <3>3
  <2> HIDE DEF more
  <2> QED BY <2>2, <2>3, <2>4, <2>5, <2>6, <2>7, <2>8
<1>2. ASSUME NEW tick \in Ticks, NEW mid \in Mids, SlResolve(tick, mid) PROVE SlInv'
  <2> DEFINE at == slNow + tick
             more == Append(slCalls, ResolveOf(at, mid))
  <2>1. at \in Nat /\ mid \in Nat
    BY SlippageAssumption
  <2>2. slCalls' = more /\ slNow' = at /\ UNCHANGED <<slNext, slDropped, slSums>>
    BY <1>2 DEF SlResolve, ResolveOf
  <2>m. slPending' = IF mid = 0 THEN slPending ELSE [i \in DOMAIN slPending |-> Settled(slPending[i], at)]
    BY <1>2 DEF SlResolve
  <2>k. IF mid = 0 THEN slMarkout' = slMarkout
        ELSE slMarkout' = [h \in DOMAIN Horizons |-> Resolved(h, at, mid)]
    BY <1>2 DEF SlResolve
  <2> HIDE DEF at
  <2>3. more \in Seq(Call)
    <3>1. ResolveOf(at, mid) \in Call
      BY <2>1 DEF ResolveOf, Call
    <3> QED BY <3>1, CallsGrow
  <2>4. Slots(more, slPending')
    BY <2>1, <2>m, SlotsOnResolve
  <2>5. Made(more) = Made(slCalls)
    BY <2>1, ResolveIs
  <2>6. Lost(more) = Lost(slCalls)
    BY <2>1, DroppedOnResolve
  <2>7. Totals(slSums, more)
    <3>1. CostsOf(more) = CostsOf(slCalls)
      <4>1. \A i \in Made(slCalls) : more[i] = slCalls[i]
        <5> DEFINE c == ResolveOf(at, mid)
        <5>1. c \in Call
          BY <2>1, ResolveIs
        <5> HIDE DEF c
        <5>2. Made(slCalls) \subseteq 1 .. Len(slCalls)
          BY EntriesAre
        <5> QED BY <5>1, <5>2, CallsGrow DEF c
      <4> HIDE DEF more
      <4> QED BY <2>5, <4>1 DEF CostsOf
    <3> HIDE DEF more
    <3> QED BY <3>1 DEF Totals
  <2>8. Marks(more, slMarkout')
    <3>1. CASE mid = 0
      <4>1. slMarkout' = slMarkout
        BY <2>k, <3>1
      <4> QED BY <2>1, <3>1, <4>1, MarksOnNoMid
    <3>2. CASE mid # 0
      <4>1. slMarkout' = [h \in DOMAIN Horizons |-> MarkAfter(slMarkout[h], slPending, h, at, mid)]
        BY <2>k, <3>2 DEF Resolved, MarkAfter, DueAt
      <4>2. mid \in Nat \ {0}
        BY <2>1, <3>2
      <4> QED BY <2>1, <4>1, <4>2, MarksOnResolve
    <3> QED BY <3>1, <3>2
  <2> HIDE DEF more
  <2> QED BY <2>1, <2>2, <2>3, <2>4, <2>5, <2>6, <2>7, <2>8
<1>3. ASSUME UNCHANGED slVars PROVE SlInv'
  BY <1>3 DEF slVars
<1> QED BY <1>1, <1>2, <1>3 DEF SlNext

\* What the ledger's totals say of what is reported.
LEMMA LedgerTells == SlInv => CostsAreTraced
<1> SUFFICES ASSUME SlInv PROVE CostsAreTraced
  OBVIOUS
<1> USE DEF SlInv
<1>1. MarkoutsAreTheFirstPast
  <2>1. \A h \in DOMAIN Horizons : /\ slMarkout[h].count = Cardinality(DOMAIN Markouts(slCalls, h))
                                   /\ slMarkout[h].sum = SumFunction(Markouts(slCalls, h))
    BY MarkoutsAre DEF Marks
  <2> QED BY <2>1 DEF MarkoutsAreTheFirstPast
<1>2. SplitAddsUp
  <2>1. slSums.latency + slSums.depth - slSums.shortfall \in -slSums.executions .. slSums.executions
    BY DEF Totals
  <2>2. ASSUME NEW i \in Made(slCalls), NEW e, e = slCalls[i].made
        PROVE  Decompose(e).shortfall =
                 -Decompose([e EXCEPT !.taker = IF e.taker = "Buy" THEN "Sell" ELSE "Buy"]).shortfall
    <3> DEFINE other == [e EXCEPT !.taker = IF e.taker = "Buy" THEN "Sell" ELSE "Buy"]
    <3>1. e \in Trade
      BY <2>2, EntriesAre
    <3>2. /\ other \in Trade /\ other.decision = e.decision /\ other.action = e.action /\ other.px = e.px
          /\ other.taker # e.taker
      BY <3>1 DEF Trade
    <3> HIDE DEF other
    <3>3. Decompose(e).shortfall = -Decompose(other).shortfall
      BY <3>1, <3>2, CostsAre
    <3> QED BY <3>3 DEF other
  <2> QED BY <2>1, <2>2 DEF SplitAddsUp
<1>3. MeansAreBetween
  <2> DEFINE n == slSums.executions
             f == slSums.shortfall
  <2>1. /\ n \in Nat /\ f \in Int /\ slSums.best \in Int /\ slSums.worst \in Int
        /\ Costs = CostsOf(slCalls)
        /\ \A c \in Costs : c \in Int /\ slSums.best <= c /\ c <= slSums.worst
    BY DEF Totals, SumsType, Costs, CostsOf
  <2>2. Reported.best <= Reported.shortfall /\ Reported.shortfall <= Reported.worst
        /\ (Costs # {} => Reported.worst = Max(Costs) /\ Reported.best = Min(Costs))
    <3>1. CASE n = 0
      <4>1. Reported.best = 0 /\ Reported.shortfall = 0 /\ Reported.worst = 0
        BY <3>1 DEF Reported, MeanOfSum
      <4>2. Costs = {}
        BY <2>1, <3>1 DEF Totals
      <4> QED BY <4>1, <4>2
    <3>2. CASE n # 0
      <4>1. /\ slSums.worst \in Costs /\ slSums.best \in Costs
            /\ slSums.best * n <= f /\ f <= slSums.worst * n
        BY <2>1, <3>2 DEF Totals
      <4>2. Reported.best = slSums.best /\ Reported.shortfall = Quotient(f, n) /\ Reported.worst = slSums.worst
        BY <3>2 DEF Reported, MeanOfSum
      <4>3. slSums.best <= Quotient(f, n) /\ Quotient(f, n) <= slSums.worst
        <5>1. n \in Nat \ {0}
          BY <2>1, <3>2
        <5> HIDE DEF n, f
        <5> QED BY <2>1, <4>1, <5>1, QuotientBetween
      <4>4. Max(Costs) = slSums.worst
        <5>1. \E x \in Costs : \A y \in Costs : x >= y
          BY <2>1, <4>1
        <5>2. Max(Costs) \in Costs /\ \A y \in Costs : Max(Costs) >= y
          BY <5>1 DEF Max
        <5> QED BY <2>1, <4>1, <5>2
      <4>5. Min(Costs) = slSums.best
        <5>1. \E x \in Costs : \A y \in Costs : x <= y
          BY <2>1, <4>1
        <5>2. Min(Costs) \in Costs /\ \A y \in Costs : Min(Costs) <= y
          BY <5>1 DEF Min
        <5> QED BY <2>1, <4>1, <5>2
      <4> QED BY <4>2, <4>3, <4>4, <4>5
    <3> QED BY <3>1, <3>2
  <2>3. ASSUME NEW h \in DOMAIN Horizons, slMarkout[h].count # 0 PROVE slMarkout[h].worst <= MeanMarkout(h)
    <3> DEFINE T == Observed(slCalls, h)
               g == Markouts(slCalls, h)
               w == slMarkout[h].worst
               k == slMarkout[h].count
               s == slMarkout[h].sum
    <3>1. /\ w \in Int /\ k \in Nat \ {0} /\ s \in Int /\ k = Cardinality(T) /\ s = SumFunction(g)
          /\ \A i \in T : w <= MoveOf(slCalls, i, h)
      BY <2>3 DEF Marks
    <3>2. /\ IsFiniteSet(T) /\ s = SumFunctionOnSet(g, T)
          /\ \A i \in T : g[i] \in Int /\ g[i] = MoveOf(slCalls, i, h)
      BY <3>1, MarkoutsAre
    <3>3. MeanMarkout(h) = Quotient(s, k)
      BY <2>3 DEF MeanMarkout, MeanOfSum
    <3> HIDE DEF T, g, w, k, s
    <3>4. \A i \in T : g[i] \in Int /\ g[i] >= w
      BY <3>1, <3>2
    <3>5. s >= w * k
      BY <3>1, <3>2, <3>4, SumAtLeast
    <3>6. w * k <= s
      <4> DEFINE x == w * k
      <4>1. x \in Int /\ s >= x
        BY <3>1, <3>5
      <4> HIDE DEF x
      <4>2. x <= s
        BY <3>1, <4>1
      <4> QED BY <4>2 DEF x
    <3>7. w <= Quotient(s, k)
      BY <3>1, <3>6, QuotientBetween
    <3> QED BY <3>3, <3>7 DEF w
  <2> QED BY <2>2, <2>3 DEF MeansAreBetween
<1> QED BY <1>1, <1>2, <1>3 DEF CostsAreTraced

\* CostsAreTraced.  For any horizons, any number of slots, any executions and mids
\* and any length of the history, where no cost passes what a number can hold: each
\* markout is that of the first timer call past its horizon, what lost its slot is
\* counted, the parts of the cost add up, and every mean lies between its extremes.
THEOREM CostsStayTraced ==
    ASSUME CostsFit
    PROVE  SlInit /\ [][SlNext]_slVars => []CostsAreTraced
<1>1. SlInit => SlInv
  BY LedgerStarts
<1>2. SlInv /\ [SlNext]_slVars => SlInv'
  BY LedgerStep
<1>3. SlInv => CostsAreTraced
  BY LedgerTells
<1> QED BY <1>1, <1>2, <1>3, PTL
================================================================================
