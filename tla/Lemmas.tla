--------------------------------- MODULE Lemmas ---------------------------------
(***************************************************************************)
(* Facts the proofs of several modules rest on.                            *)
(*                                                                         *)
(* The arithmetic of a bounded ring: position n is kept in slot n % c.     *)
(* Two positions that share a slot are at least a lap apart, which is why  *)
(* a bounded ring can tell a slot's current contents from an older lap's.  *)
(*                                                                         *)
(* Induction on a set instead of a formula: a nonempty set of naturals has *)
(* a least element, so what would be the first number to fail is looked at *)
(* and found not to.  From it, that a function defined by recursion on an  *)
(* initial segment exists and obeys its equation, what powers of two are,  *)
(* what powers of any number are, and what is kept of a sequence that is   *)
(* sifted.                                                                 *)
(***************************************************************************)
EXTENDS Sift, FiniteSetsExt, FiniteSetTheorems, SequenceTheorems, WellFoundedInduction, TLAPS

LEMMA MulBound ==
    ASSUME NEW c \in Nat \ {0}, NEW k \in Int, k >= 1
    PROVE  c * k >= c
  OBVIOUS

\* The slot of a position is one of the ring's slots.
LEMMA SlotInRange ==
    ASSUME NEW c \in Nat \ {0}, NEW a \in Int
    PROVE  a % c \in 0 .. c - 1
  OBVIOUS

LEMMA Division ==
    ASSUME NEW c \in Nat \ {0}, NEW a \in Int
    PROVE  a \div c \in Int /\ a = c * (a \div c) + (a % c)
  OBVIOUS

\* Two positions in one slot are at least a lap apart.
LEMMA SameSlot ==
    ASSUME NEW c \in Nat \ {0}, NEW a \in Int, NEW b \in Int,
           a % c = b % c, a < b
    PROVE  b - a >= c
<1> DEFINE p == a \div c
           q == b \div c
<1>1. /\ p \in Int
      /\ q \in Int
      /\ a = c * p + (a % c)
      /\ b = c * q + (b % c)
  BY Division
<1>2. a % c \in Int /\ b % c \in Int
  BY SlotInRange
<1> HIDE DEF p, q
<1>3. b - a = c * (q - p)
  BY <1>1, <1>2
<1>4. q - p >= 1
  <2>1. SUFFICES ASSUME q - p <= 0 PROVE FALSE
    BY <1>1
  <2>2. c * (q - p) <= 0
    BY <2>1, <1>1
  <2>3. QED
    BY <2>2, <1>3
<1>5. QED
  BY <1>3, <1>4, <1>1, MulBound

\* A multiple of the modulus more or less is the same remainder.
LEMMA RemainderOfSum ==
    ASSUME NEW c \in Nat \ {0}, NEW a \in Int, NEW n \in Int
    PROVE  ((a % c) + n) % c = (a + n) % c
<1> DEFINE p == a \div c
           x == (a % c) + n
           y == a + n
           q == x \div c
           s == y \div c
<1>1. a % c \in Int /\ p \in Int /\ a = c * p + (a % c)
  BY Division, SlotInRange
<1>2. x \in Int /\ y \in Int
  BY <1>1
<1>3. q \in Int /\ x = c * q + (x % c) /\ x % c \in 0 .. c - 1
  BY <1>2, Division, SlotInRange
<1>4. s \in Int /\ y = c * s + (y % c) /\ y % c \in 0 .. c - 1
  BY <1>2, Division, SlotInRange
<1>5. y = c * p + x
  BY <1>1
<1> DEFINE k == p + q - s
<1>6. k \in Int /\ c * k = c * p + c * q - c * s
  BY <1>1, <1>3, <1>4
<1> HIDE DEF p, q, s, x, y, k
<1>7. (y % c) - (x % c) = c * k
  <2>1. c * p \in Int /\ c * q \in Int /\ c * s \in Int
    BY <1>1, <1>3, <1>4
  <2>3. x % c \in Int /\ y % c \in Int
    BY <1>3, <1>4
  <2>4. x = c * q + (x % c) /\ y = c * s + (y % c) /\ y = c * p + x
    BY <1>3, <1>4, <1>5
  <2>5. (y % c) - (x % c) = c * p + c * q - c * s
    <3> DEFINE cp == c * p
               cq == c * q
               cs == c * s
    <3>1. /\ cp \in Int /\ cq \in Int /\ cs \in Int
          /\ x = cq + (x % c) /\ y = cs + (y % c) /\ y = cp + x
      BY <2>1, <2>4
    <3> HIDE DEF cp, cq, cs
    <3>2. (y % c) - (x % c) = cp + cq - cs
      BY <2>3, <3>1
    <3>3. QED
      BY <3>2 DEF cp, cq, cs
  <2>6. QED
    BY <1>6, <2>5
<1>8. ~(k >= 1)
  BY <1>3, <1>4, <1>6, <1>7, MulBound
<1>9. ~(-k >= 1)
  <2>1. c * (-k) = -(c * k)
    BY <1>6
  <2>2. SUFFICES ASSUME -k >= 1 PROVE FALSE
    OBVIOUS
  <2>3. c * (-k) >= c
    BY <1>6, <2>2, MulBound
  <2>4. QED
    BY <1>3, <1>4, <1>6, <1>7, <2>1, <2>3
<1>10. k = 0
  BY <1>6, <1>8, <1>9
<1>11. c * k = 0
  BY <1>10
<1>12. y % c = x % c
  BY <1>3, <1>4, <1>7, <1>11
<1>13. QED
  BY <1>12 DEF x, y

--------------------------------------------------------------------------------
\* A nonempty set of naturals has a least element.
LEMMA LeastNat ==
    ASSUME NEW S, S \subseteq Nat, S # {}
    PROVE  \E x \in S : \A y \in S : x <= y
<1> DEFINE R == OpToRel(<, Nat)
<1>1. IsWellFoundedOn(R, Nat)
  BY NatLessThanWellFounded
<1>2. PICK x \in S : \A y \in S : <<y, x>> \notin R
  <2> HIDE DEF R
  <2> QED BY <1>1, WFMin
<1>3. \A y \in S : ~(y < x)
  BY <1>2 DEF OpToRel
<1> QED BY <1>3

\* What Min returns, of a nonempty set of naturals.
LEMMA MinOfNats ==
    ASSUME NEW S, S \subseteq Nat, S # {}
    PROVE  Min(S) \in S /\ \A y \in S : Min(S) <= y
<1>1. \E x \in S : \A y \in S : x <= y
  BY LeastNat
<1> QED BY <1>1 DEF Min

\* Induction up to a bound: a set that has 0 and the successor of each of its
\* members below n has all of 0 .. n.
LEMMA Climb ==
    ASSUME NEW n \in Nat, NEW S, 0 \in S, \A i \in 0 .. n - 1 : i \in S => i + 1 \in S
    PROVE  \A i \in 0 .. n : i \in S
<1> DEFINE Bad == {i \in 0 .. n : i \notin S}
<1> SUFFICES ASSUME Bad # {} PROVE FALSE
  OBVIOUS
<1>1. PICK x \in Bad : \A y \in Bad : x <= y
  <2>1. Bad \subseteq Nat
    OBVIOUS
  <2> HIDE DEF Bad
  <2> QED BY <2>1, LeastNat
<1>2. x \in 0 .. n /\ x # 0 /\ x \notin S
  OBVIOUS
<1>3. x - 1 \in 0 .. n - 1 /\ (x - 1) + 1 = x
  BY <1>2
<1>4. x - 1 \in S
  <2>1. x - 1 \notin Bad
    BY <1>1, <1>2, <1>3
  <2>2. x - 1 \in 0 .. n
    BY <1>3
  <2> QED BY <2>1, <2>2
<1>5. QED
  BY <1>2, <1>3, <1>4

\* A sequence of values from a, each a step from the one before it.
Unrolled(f, n, a, step) == f[0] = a /\ \A i \in 1 .. n : f[i] = step[<<i, f[i - 1]>>]

\* There is one, however the step is given.
LEMMA Recursion ==
    ASSUME NEW n \in Nat, NEW T, NEW a \in T, NEW step \in [(1 .. n) \X T -> T]
    PROVE  \E f \in [0 .. n -> T] : Unrolled(f, n, a, step)
<1> DEFINE Good(f, k) == f[0] = a /\ \A i \in 1 .. k : f[i] = step[<<i, f[i - 1]>>]
           S == {k \in 0 .. n : \E f \in [0 .. k -> T] : Good(f, k)}
<1>1. 0 \in S
  <2> DEFINE f == [i \in 0 .. 0 |-> a]
  <2>1. f \in [0 .. 0 -> T] /\ Good(f, 0) /\ 0 \in 0 .. n
    OBVIOUS
  <2> HIDE DEF f, Good
  <2> QED BY <2>1
<1>2. ASSUME NEW k \in 0 .. n - 1, k \in S PROVE k + 1 \in S
  <2>1. PICK f \in [0 .. k -> T] : Good(f, k)
    BY <1>2
  <2> DEFINE g == [i \in 0 .. k + 1 |-> IF i = k + 1 THEN step[<<k + 1, f[k]>>] ELSE f[i]]
  <2>2. k + 1 \in 1 .. n /\ f[k] \in T
    OBVIOUS
  <2>3. step[<<k + 1, f[k]>>] \in T
    BY <2>2
  <2>4. g \in [0 .. k + 1 -> T]
    <3>1. ASSUME NEW i \in 0 .. k + 1 PROVE (IF i = k + 1 THEN step[<<k + 1, f[k]>>] ELSE f[i]) \in T
      BY <2>3
    <3> QED BY <3>1
  <2>5. Good(g, k + 1)
    <3>1. g[0] = a
      BY <2>1
    <3>2. ASSUME NEW i \in 1 .. k + 1 PROVE g[i] = step[<<i, g[i - 1]>>]
      <4>1. CASE i = k + 1
        <5>1. g[i] = step[<<k + 1, f[k]>>]
          BY <4>1
        <5>2. i - 1 = k /\ k \in 0 .. k + 1 /\ k # k + 1
          BY <4>1
        <5>3. g[i - 1] = f[k]
          BY <5>2
        <5> QED BY <4>1, <5>1, <5>3
      <4>2. CASE i # k + 1
        <5>1. i \in 1 .. k /\ i - 1 \in 0 .. k + 1 /\ i - 1 # k + 1
          BY <4>2
        <5>2. g[i] = f[i] /\ g[i - 1] = f[i - 1]
          BY <5>1
        <5> QED BY <2>1, <5>1, <5>2
      <4> QED BY <4>1, <4>2
    <3> HIDE DEF g
    <3> QED BY <3>1, <3>2
  <2>6. k + 1 \in 0 .. n
    OBVIOUS
  <2> HIDE DEF g, Good
  <2> QED BY <2>4, <2>5, <2>6
<1>3. n \in S
  <2> HIDE DEF S
  <2>1. n \in 0 .. n
    OBVIOUS
  <2> QED BY <1>1, <1>2, <2>1, Climb
<1> QED BY <1>3 DEF Unrolled

--------------------------------------------------------------------------------
\* Powers of two: how many subsets a set of n has.
LEMMA PowerIsSubsets ==
    ASSUME NEW n \in Nat
    PROVE  IsFiniteSet(SUBSET (1 .. n)) /\ Cardinality(SUBSET (1 .. n)) = 2 ^ n /\ 2 ^ n \in Nat
<1>1. IsFiniteSet(1 .. n) /\ Cardinality(1 .. n) = n
  BY FS_Interval
<1>2. IsFiniteSet(SUBSET (1 .. n)) /\ Cardinality(SUBSET (1 .. n)) = 2 ^ n
  BY <1>1, FS_SUBSET
<1> QED BY <1>2, FS_CardinalityType

LEMMA PowerOfZero == 2 ^ 0 = 1
<1>1. SUBSET (1 .. 0) = {{}}
  OBVIOUS
<1>2. Cardinality({{}}) = 1
  BY FS_Singleton
<1> QED BY <1>1, <1>2, PowerIsSubsets

LEMMA PowerDoubles ==
    ASSUME NEW n \in Nat
    PROVE  2 ^ (n + 1) = 2 * 2 ^ n
<1> DEFINE A == SUBSET (1 .. n)
           B == {X \in SUBSET (1 .. n + 1) : n + 1 \in X}
           f == [X \in A |-> X \cup {n + 1}]
<1>1. IsFiniteSet(A) /\ Cardinality(A) = 2 ^ n /\ 2 ^ n \in Nat
  BY PowerIsSubsets
<1>2. f \in Bijection(A, B)
  <2>1. ASSUME NEW X \in A PROVE X \cup {n + 1} \in B
    <3>1. X \cup {n + 1} \subseteq 1 .. n + 1
      OBVIOUS
    <3> QED BY <3>1
  <2>2. f \in [A -> B]
    BY <2>1
  <2>3. ASSUME NEW X \in A, NEW Y \in A, f[X] = f[Y] PROVE X = Y
    <3>1. n + 1 \notin X /\ n + 1 \notin Y
      OBVIOUS
    <3>2. X \cup {n + 1} = Y \cup {n + 1}
      BY <2>3
    <3> QED BY <3>1, <3>2
  <2>4. ASSUME NEW Z \in B PROVE \E X \in A : f[X] = Z
    <3>1. Z \ {n + 1} \in A
      <4>1. ASSUME NEW z \in Z, z # n + 1 PROVE z \in 1 .. n
        BY <4>1
      <4> QED BY <4>1
    <3>2. (Z \ {n + 1}) \cup {n + 1} = Z
      OBVIOUS
    <3> QED BY <3>1, <3>2
  <2> HIDE DEF f, A, B
  <2>5. f \in Injection(A, B)
    BY <2>2, <2>3 DEF Injection, IsInjective
  <2>6. f \in Surjection(A, B)
    BY <2>2, <2>4 DEF Surjection
  <2> QED BY <2>5, <2>6 DEF Bijection
<1>3. IsFiniteSet(B) /\ Cardinality(B) = 2 ^ n
  <2> HIDE DEF f, A, B
  <2>1. ExistsBijection(A, B)
    BY <1>2 DEF ExistsBijection
  <2> QED BY <1>1, <2>1, FS_Bijection
<1>4. A \cap B = {}
  OBVIOUS
<1>5. A \cup B = SUBSET (1 .. n + 1)
  <2>1. ASSUME NEW X \in SUBSET (1 .. n + 1), n + 1 \notin X PROVE X \in A
    <3>1. ASSUME NEW x \in X PROVE x \in 1 .. n
      BY <2>1, <3>1
    <3> QED BY <3>1
  <2>2. A \subseteq SUBSET (1 .. n + 1) /\ B \subseteq SUBSET (1 .. n + 1)
    OBVIOUS
  <2>3. ASSUME NEW X \in SUBSET (1 .. n + 1) PROVE X \in A \cup B
    BY <2>1
  <2> HIDE DEF A, B
  <2> QED BY <2>2, <2>3
<1>6. Cardinality(A \cup B) = 2 ^ n + 2 ^ n - Cardinality({})
  <2> HIDE DEF A, B
  <2> QED BY <1>1, <1>3, <1>4, FS_Union
<1>7. Cardinality(SUBSET (1 .. n + 1)) = 2 ^ (n + 1)
  <2>1. n + 1 \in Nat
    OBVIOUS
  <2> QED BY <2>1, PowerIsSubsets
<1> HIDE DEF A, B
<1> QED BY <1>1, <1>5, <1>6, <1>7, FS_EmptySet

LEMMA PowerExceeds ==
    ASSUME NEW n \in Nat
    PROVE  2 ^ n > n
<1> DEFINE S == {i \in 0 .. n : 2 ^ i > i}
<1>1. 0 \in S
  BY PowerOfZero
<1>2. ASSUME NEW i \in 0 .. n - 1, i \in S PROVE i + 1 \in S
  <2>1. i \in Nat
    OBVIOUS
  <2>3. 2 ^ i \in Nat
    BY <2>1, PowerIsSubsets
  <2>2. 2 ^ (i + 1) = 2 * 2 ^ i
    BY <2>1, PowerDoubles
  <2>4. 2 ^ i > i
    BY <1>2
  <2>5. 2 ^ (i + 1) > i + 1
    BY <2>1, <2>2, <2>3, <2>4
  <2> QED BY <2>5
<1>3. n \in S
  <2> HIDE DEF S
  <2>1. n \in 0 .. n
    OBVIOUS
  <2> QED BY <1>1, <1>2, <2>1, Climb
<1> QED BY <1>3

--------------------------------------------------------------------------------
(* A sum as the size of a set: of what is counted, one pair for each.      *)

UnitsOf(S, f) == UNION {{s} \X (1 .. f[s]) : s \in S}

GrownAt(S, f, c, k) == [s \in S |-> IF s = c THEN f[s] + k ELSE f[s]]

\* A sum of which one term grows.
LEMMA UnitsGrow ==
    ASSUME NEW S, NEW c \in S, NEW f \in [S -> Nat], NEW k \in Nat, IsFiniteSet(UnitsOf(S, f))
    PROVE  /\ IsFiniteSet(UnitsOf(S, GrownAt(S, f, c, k))) /\ Cardinality(UnitsOf(S, f)) \in Nat
           /\ Cardinality(UnitsOf(S, GrownAt(S, f, c, k))) = Cardinality(UnitsOf(S, f)) + k
<1> DEFINE g == GrownAt(S, f, c, k)
<1>0. g \in [S -> Nat] /\ \A s \in S : g[s] = IF s = c THEN f[s] + k ELSE f[s]
  BY DEF GrownAt
<1> HIDE DEF g
<1> DEFINE n == f[c]
           old == UnitsOf(S, f)
           more == {<<c, i>> : i \in n + 1 .. n + k}
           pair == [i \in n + 1 .. n + k |-> <<c, i>>]
<1>1. n \in Nat
  OBVIOUS
<1>2. \A p : p \in old <=> \E s \in S : \E i \in 1 .. f[s] : p = <<s, i>>
  BY DEF UnitsOf
<1>3. \A p : p \in UnitsOf(S, g) <=> \E s \in S : \E i \in 1 .. g[s] : p = <<s, i>>
  BY DEF UnitsOf
<1> HIDE DEF old
<1>4. IsFiniteSet(more) /\ Cardinality(more) = k
  <2> HIDE DEF n
  <2>1. IsFiniteSet(n + 1 .. n + k) /\ Cardinality(n + 1 .. n + k) = k
    <3>1. n + 1 \in Int /\ n + k \in Int
      BY <1>1
    <3>2. IsFiniteSet(n + 1 .. n + k)
          /\ Cardinality(n + 1 .. n + k) = IF n + 1 > n + k THEN 0 ELSE (n + k) - (n + 1) + 1
      BY <3>1, FS_Interval
    <3> QED BY <1>1, <3>2
  <2>2. pair \in [n + 1 .. n + k -> more]
    OBVIOUS
  <2>3. \A a, b \in n + 1 .. n + k : pair[a] = pair[b] => a = b
    OBVIOUS
  <2>4. \A p \in more : \E a \in n + 1 .. n + k : pair[a] = p
    OBVIOUS
  <2> HIDE DEF pair, more
  <2>5. ExistsBijection(n + 1 .. n + k, more)
    <3>1. pair \in Injection(n + 1 .. n + k, more)
      BY <2>2, <2>3 DEF Injection, IsInjective
    <3>2. pair \in Surjection(n + 1 .. n + k, more)
      BY <2>2, <2>4 DEF Surjection
    <3>3. pair \in Bijection(n + 1 .. n + k, more)
      BY <3>1, <3>2 DEF Bijection
    <3> QED BY <3>3 DEF ExistsBijection
  <2> QED BY <2>1, <2>5, FS_Bijection
<1>5. old \cap more = {}
  <2> SUFFICES ASSUME NEW p, p \in old, p \in more PROVE FALSE
    OBVIOUS
  <2>1. PICK s \in S : \E i \in 1 .. f[s] : p = <<s, i>>
    BY <1>2
  <2>2. PICK i \in 1 .. f[s] : p = <<s, i>>
    BY <2>1
  <2>3. PICK j \in n + 1 .. n + k : p = <<c, j>>
    OBVIOUS
  <2>4. s = c /\ i = j
    BY <2>2, <2>3
  <2> QED BY <1>1, <2>2, <2>3, <2>4
<1>6. UnitsOf(S, g) = old \cup more
  <2>1. ASSUME NEW p \in UnitsOf(S, g) PROVE p \in old \cup more
    <3>1. PICK s \in S : \E i \in 1 .. g[s] : p = <<s, i>>
      BY <1>3, <2>1
    <3>2. PICK i \in 1 .. g[s] : p = <<s, i>>
      BY <3>1
    <3>3. CASE i \in 1 .. f[s]
      BY <1>2, <3>2, <3>3
    <3>4. CASE i \notin 1 .. f[s]
      <4>1. s = c /\ i \in n + 1 .. n + k
        BY <1>0, <1>1, <3>2, <3>4
      <4> QED BY <3>2, <4>1
    <3> QED BY <3>3, <3>4
  <2>2. ASSUME NEW p \in old PROVE p \in UnitsOf(S, g)
    <3>1. PICK s \in S : \E i \in 1 .. f[s] : p = <<s, i>>
      BY <1>2, <2>2
    <3>2. PICK i \in 1 .. f[s] : p = <<s, i>>
      BY <3>1
    <3>3. f[s] \in Nat /\ i \in 1 .. g[s]
      BY <1>0, <3>2
    <3> QED BY <1>3, <3>2, <3>3
  <2>3. ASSUME NEW p \in more PROVE p \in UnitsOf(S, g)
    <3>1. PICK i \in n + 1 .. n + k : p = <<c, i>>
      OBVIOUS
    <3>2. i \in 1 .. g[c]
      BY <1>0, <1>1, <3>1
    <3> QED BY <1>3, <3>1, <3>2
  <2> HIDE DEF more
  <2> QED BY <2>1, <2>2, <2>3
<1> HIDE DEF more
<1>7. IsFiniteSet(old)
  BY DEF old
<1>8. IsFiniteSet(old \cup more) /\ Cardinality(old \cup more) = Cardinality(old) + Cardinality(more) - Cardinality({})
  BY <1>4, <1>5, <1>7, FS_Union
<1>9. Cardinality({}) = 0 /\ Cardinality(old) \in Nat
  BY <1>7, FS_EmptySet, FS_CardinalityType
<1> QED BY <1>4, <1>6, <1>8, <1>9 DEF old, g

LEMMA NoUnits ==
    ASSUME NEW S, NEW f, \A s \in S : f[s] = 0
    PROVE  IsFiniteSet(UnitsOf(S, f)) /\ Cardinality(UnitsOf(S, f)) = 0
<1>1. UnitsOf(S, f) = {}
  BY DEF UnitsOf
<1> QED BY <1>1, FS_EmptySet

--------------------------------------------------------------------------------
\* A stretch of a sequence, the empty one at its end too.
LEMMA Stretch ==
    ASSUME NEW T, NEW s \in Seq(T), NEW i \in 1 .. Len(s) + 1, NEW j \in i - 1 .. Len(s)
    PROVE  /\ SubSeq(s, i, j) \in Seq(T)
           /\ Len(SubSeq(s, i, j)) = j - i + 1
           /\ \A n \in 1 .. j - i + 1 : SubSeq(s, i, j)[n] = s[i - 1 + n]
<1>1. i \in Int /\ j \in Int /\ Len(s) \in Nat
  OBVIOUS
<1>2. \A n \in i .. j : s[n] \in T
  BY <1>1, ElementOfSeq
<1>3. /\ SubSeq(s, i, j) \in Seq(T)
      /\ Len(SubSeq(s, i, j)) = IF i <= j THEN j - i + 1 ELSE 0
      /\ \A n \in 1 .. j - i + 1 : SubSeq(s, i, j)[n] = s[i + n - 1]
  BY <1>1, <1>2, SubSeqProperties
<1>4. ASSUME NEW n \in 1 .. j - i + 1 PROVE SubSeq(s, i, j)[n] = s[i - 1 + n]
  <2>1. i - 1 + n = i + n - 1
    BY <1>1
  <2> QED BY <1>3, <2>1
<1>5. Len(SubSeq(s, i, j)) = j - i + 1
  BY <1>1, <1>3
<1> QED BY <1>3, <1>4, <1>5

\* What is left of a sequence from i on.
LEMMA StretchToEnd ==
    ASSUME NEW T, NEW s \in Seq(T), NEW i \in 1 .. Len(s) + 1
    PROVE  /\ SubSeq(s, i, Len(s)) \in Seq(T)
           /\ Len(SubSeq(s, i, Len(s))) = Len(s) - i + 1
           /\ \A n \in 1 .. Len(s) - i + 1 : SubSeq(s, i, Len(s))[n] = s[i - 1 + n]
<1>1. Len(s) \in i - 1 .. Len(s)
  OBVIOUS
<1> QED BY <1>1, Stretch

--------------------------------------------------------------------------------
(* What Sift keeps, of an element more and of one sequence behind another. *)

\* What Picked has kept of the first n elements of s.
Keeps(f, s, at) ==
    /\ f[0] = <<>>
    /\ \A n \in 1 .. Len(s) : f[n] = IF n \in at THEN Append(f[n - 1], s[n]) ELSE f[n - 1]

\* Picked is the last of such a function.
LEMMA PickedUnrolls ==
    ASSUME NEW T, NEW s \in Seq(T), NEW at
    PROVE  \E f \in [0 .. Len(s) -> Seq(T)] : Keeps(f, s, at) /\ Picked(s, at) = f[Len(s)]
<1> DEFINE N == Len(s)
           step == [p \in (1 .. N) \X Seq(T) |->
                       IF p[1] \in at THEN Append(p[2], s[p[1]]) ELSE p[2]]
<1>1. step \in [(1 .. N) \X Seq(T) -> Seq(T)]
  OBVIOUS
<1>2. N \in Nat /\ <<>> \in Seq(T)
  OBVIOUS
<1>3. PICK f \in [0 .. N -> Seq(T)] : Unrolled(f, N, <<>>, step)
  <2> HIDE DEF step, N
  <2> QED BY <1>1, <1>2, Recursion
<1>4. f[0] = <<>>
  BY <1>3 DEF Unrolled
<1>5. ASSUME NEW n \in 1 .. N PROVE f[n] = IF n \in at THEN Append(f[n - 1], s[n]) ELSE f[n - 1]
  <2>1. f[n] = step[<<n, f[n - 1]>>]
    BY <1>3 DEF Unrolled
  <2>2. n - 1 \in 0 .. N
    BY <1>2
  <2>3. f[n - 1] \in Seq(T)
    BY <2>2
  <2>4. <<n, f[n - 1]>> \in (1 .. N) \X Seq(T)
    BY <2>3
  <2> QED BY <2>1, <2>4
<1> DEFINE Body(g) == [n \in 0 .. N |-> IF n = 0 THEN <<>>
                                   ELSE IF n \in at THEN Append(g[n - 1], s[n]) ELSE g[n - 1]]
           kept == CHOOSE g : g = Body(g)
<1>6. f = Body(f)
  <2>1. ASSUME NEW n \in 0 .. N PROVE f[n] = IF n = 0 THEN <<>>
                                   ELSE IF n \in at THEN Append(f[n - 1], s[n]) ELSE f[n - 1]
    <3>1. CASE n = 0
      BY <1>4, <3>1
    <3>2. CASE n # 0
      <4>1. n \in 1 .. N
        BY <1>2, <3>2
      <4> HIDE DEF N
      <4> QED BY <1>5, <3>2, <4>1
    <3> QED BY <3>1, <3>2
  <2>2. Body(f) = [n \in 0 .. N |-> f[n]]
    BY <2>1
  <2>3. f = [n \in 0 .. N |-> f[n]]
    OBVIOUS
  <2> QED BY <2>2, <2>3
<1>7. kept = Body(kept)
  <2> HIDE DEF Body
  <2> QED BY <1>6
<1>8. Picked(s, at) = kept[N]
  BY DEF Picked
<1>9. kept[0] = <<>> /\ \A n \in 1 .. N : kept[n] = IF n \in at THEN Append(kept[n - 1], s[n]) ELSE kept[n - 1]
  <2>1. ASSUME NEW n \in 0 .. N PROVE kept[n] = IF n = 0 THEN <<>>
                                   ELSE IF n \in at THEN Append(kept[n - 1], s[n]) ELSE kept[n - 1]
    <3> HIDE DEF kept
    <3> QED BY <1>7
  <2> HIDE DEF kept
  <2> QED BY <1>2, <2>1
<1> HIDE DEF kept, step, Body
<1> DEFINE S == {n \in 0 .. N : kept[n] = f[n]}
<1>10. 0 \in S
  BY <1>2, <1>4, <1>9
<1>11. ASSUME NEW n \in 0 .. N - 1, n \in S PROVE n + 1 \in S
  <2>1. n + 1 \in 1 .. N /\ (n + 1) - 1 = n /\ n + 1 \in 0 .. N
    BY <1>2
  <2>2. kept[n] = f[n]
    BY <1>11
  <2>3. kept[n + 1] = f[n + 1]
    BY <1>5, <1>9, <2>1, <2>2
  <2> QED BY <2>1, <2>3
<1>12. N \in S
  <2>1. N \in 0 .. N
    BY <1>2
  <2> HIDE DEF S, N
  <2> QED BY <1>2, <1>10, <1>11, <2>1, Climb
<1>13. kept[N] = f[N]
  BY <1>12
<1> QED BY <1>4, <1>5, <1>8, <1>13 DEF Keeps

LEMMA PickedOfNone == ASSUME NEW at PROVE Picked(<<>>, at) = <<>>
<1>1. <<>> \in Seq({}) /\ Len(<<>>) = 0
  OBVIOUS
<1>2. PICK f \in [0 .. Len(<<>>) -> Seq({})] : Keeps(f, <<>>, at) /\ Picked(<<>>, at) = f[Len(<<>>)]
  BY <1>1, PickedUnrolls
<1> QED BY <1>1, <1>2 DEF Keeps

\* Two that keep the same of what they share have kept the same of it.
LEMMA KeepsAgree ==
    ASSUME NEW T, NEW s \in Seq(T), NEW t \in Seq(T), NEW at, NEW by, NEW f, NEW g,
           Keeps(f, s, at), Keeps(g, t, by), NEW n \in Nat, n <= Len(s), n <= Len(t),
           \A i \in 1 .. n : s[i] = t[i] /\ (i \in at <=> i \in by)
    PROVE  f[n] = g[n]
<1> DEFINE S == {k \in 0 .. n : f[k] = g[k]}
<1>1. 0 \in S
  BY DEF Keeps
<1>2. ASSUME NEW k \in 0 .. n - 1, k \in S PROVE k + 1 \in S
  <2>1. k + 1 \in 1 .. n /\ k + 1 \in 1 .. Len(s) /\ k + 1 \in 1 .. Len(t) /\ (k + 1) - 1 = k
    OBVIOUS
  <2>2. f[k] = g[k] /\ k + 1 \in 0 .. n
    BY <1>2, <2>1
  <2>3. f[k + 1] = IF k + 1 \in at THEN Append(f[k], s[k + 1]) ELSE f[k]
    BY <2>1 DEF Keeps
  <2>4. g[k + 1] = IF k + 1 \in by THEN Append(g[k], t[k + 1]) ELSE g[k]
    BY <2>1 DEF Keeps
  <2> QED BY <2>1, <2>2, <2>3, <2>4
<1>3. n \in S
  <2>1. n \in 0 .. n
    OBVIOUS
  <2> HIDE DEF S
  <2> QED BY <1>1, <1>2, <2>1, Climb
<1> QED BY <1>3

LEMMA PickedIsSeq ==
    ASSUME NEW T, NEW s \in Seq(T), NEW at
    PROVE  Picked(s, at) \in Seq(T)
<1>1. Len(s) \in 0 .. Len(s)
  OBVIOUS
<1> QED BY <1>1, PickedUnrolls

\* What is picked depends on the positions of the sequence alone.
LEMMA PickedSame ==
    ASSUME NEW T, NEW s \in Seq(T), NEW at, NEW by, \A i \in 1 .. Len(s) : i \in at <=> i \in by
    PROVE  Picked(s, at) = Picked(s, by)
<1>1. PICK f \in [0 .. Len(s) -> Seq(T)] : Keeps(f, s, at) /\ Picked(s, at) = f[Len(s)]
  BY PickedUnrolls
<1>2. PICK g \in [0 .. Len(s) -> Seq(T)] : Keeps(g, s, by) /\ Picked(s, by) = g[Len(s)]
  BY PickedUnrolls
<1>3. Len(s) \in Nat
  OBVIOUS
<1> QED BY <1>1, <1>2, <1>3, KeepsAgree

LEMMA SiftIsSeq ==
    ASSUME NEW T, NEW s \in Seq(T), NEW S
    PROVE  Sift(s, S) \in Seq(T)
  BY PickedIsSeq DEF Sift

LEMMA SiftOfNone == ASSUME NEW S PROVE Sift(<<>>, S) = <<>>
  BY PickedOfNone DEF Sift

\* One more element is behind what was kept, or is not.
LEMMA SiftAppend ==
    ASSUME NEW T, NEW s \in Seq(T), NEW e \in T, NEW S
    PROVE  Sift(Append(s, e), S) = IF e \in S THEN Append(Sift(s, S), e) ELSE Sift(s, S)
<1> DEFINE t  == Append(s, e)
           at == {i \in DOMAIN s : s[i] \in S}
           by == {i \in DOMAIN t : t[i] \in S}
           n  == Len(s)
<1>1. t \in Seq(T) /\ Len(t) = n + 1 /\ t[n + 1] = e /\ n \in Nat
      /\ DOMAIN t = 1 .. n + 1 /\ DOMAIN s = 1 .. n
  OBVIOUS
<1>2. \A i \in 1 .. n : t[i] = s[i]
  OBVIOUS
<1>3. \A i \in 1 .. n : s[i] = t[i] /\ (i \in at <=> i \in by)
  BY <1>1, <1>2
<1>4. n + 1 \in by <=> e \in S
  BY <1>1
<1>5. Sift(s, S) = Picked(s, at) /\ Sift(t, S) = Picked(t, by)
  BY DEF Sift
<1> HIDE DEF t, at, by, n
<1>6. PICK f \in [0 .. Len(s) -> Seq(T)] : Keeps(f, s, at) /\ Picked(s, at) = f[Len(s)]
  BY PickedUnrolls
<1>7. PICK g \in [0 .. Len(t) -> Seq(T)] : Keeps(g, t, by) /\ Picked(t, by) = g[Len(t)]
  BY <1>1, PickedUnrolls
<1>8. Len(s) = n
  BY DEF n
<1>9. f[n] = g[n]
  <2>1. n <= Len(s) /\ n <= Len(t)
    BY <1>1, <1>8
  <2>2. Keeps(f, s, at) /\ Keeps(g, t, by)
    BY <1>6, <1>7
  <2>3. s \in Seq(T) /\ t \in Seq(T) /\ n \in Nat
    BY <1>1
  <2>4. \A i \in 1 .. n : s[i] = t[i] /\ (i \in at <=> i \in by)
    BY <1>3

  <2> QED BY <2>1, <2>2, <2>3, <2>4, KeepsAgree, SMTT(60)
<1>10. g[n + 1] = IF n + 1 \in by THEN Append(g[n], t[n + 1]) ELSE g[n]
  <2>1. n + 1 \in 1 .. Len(t) /\ (n + 1) - 1 = n
    BY <1>1
  <2> QED BY <1>7, <2>1 DEF Keeps
<1>11. Sift(t, S) = IF e \in S THEN Append(Sift(s, S), e) ELSE Sift(s, S)
  BY <1>1, <1>4, <1>5, <1>6, <1>7, <1>8, <1>9, <1>10
<1> QED BY <1>11 DEF t

\* What is kept of two sequences, one behind the other.
LEMMA SiftConcat ==
    ASSUME NEW T, NEW s \in Seq(T), NEW t \in Seq(T), NEW S
    PROVE  Sift(s \o t, S) = Sift(s, S) \o Sift(t, S)
<1> DEFINE P(k) == Sift(s \o SubSeq(t, 1, k), S) = Sift(s, S) \o Sift(SubSeq(t, 1, k), S)
           K == {k \in 0 .. Len(t) : P(k)}
<1>1. Sift(s, S) \in Seq(T)
  BY SiftIsSeq
<1>2. 0 \in K
  <2>1. SubSeq(t, 1, 0) = <<>> /\ s \o <<>> = s
    OBVIOUS
  <2>2. Sift(s, S) \o <<>> = Sift(s, S)
    BY <1>1
  <2>3. Sift(s \o SubSeq(t, 1, 0), S) = Sift(s, S)
    BY <2>1
  <2>4. Sift(s, S) \o Sift(SubSeq(t, 1, 0), S) = Sift(s, S)
    BY <2>1, <2>2, SiftOfNone
  <2>5. 0 \in 0 .. Len(t)
    OBVIOUS
  <2> QED BY <2>3, <2>4, <2>5
<1>3. ASSUME NEW k \in 0 .. Len(t) - 1, k \in K PROVE k + 1 \in K
  <2> DEFINE u == SubSeq(t, 1, k)
             e == t[k + 1]
  <2>1. u \in Seq(T) /\ e \in T
    OBVIOUS
  <2>2. SubSeq(t, 1, k + 1) = Append(u, e)
    OBVIOUS
  <2>3. Sift(s \o u, S) = Sift(s, S) \o Sift(u, S)
    BY <1>3
  <2> HIDE DEF u, e
  <2>4. s \o u \in Seq(T) /\ s \o Append(u, e) = Append(s \o u, e)
    BY <2>1
  <2>5. Sift(u, S) \in Seq(T)
    BY <2>1, SiftIsSeq
  <2>6. Sift(Append(s \o u, e), S) = IF e \in S THEN Append(Sift(s \o u, S), e) ELSE Sift(s \o u, S)
    BY <2>1, <2>4, SiftAppend
  <2>7. Sift(Append(u, e), S) = IF e \in S THEN Append(Sift(u, S), e) ELSE Sift(u, S)
    BY <2>1, SiftAppend
  <2>8. Append(Sift(s, S) \o Sift(u, S), e) = Sift(s, S) \o Append(Sift(u, S), e)
    <3> DEFINE a == Sift(s, S)
               b == Sift(u, S)
    <3>1. a \in Seq(T) /\ b \in Seq(T)
      BY <1>1, <2>5
    <3> HIDE DEF a, b
    <3>2. Append(a \o b, e) = (a \o b) \o <<e>> /\ Append(b, e) = b \o <<e>>
      <4>1. a \o b \in Seq(T)
        BY <3>1, ConcatProperties
      <4> QED BY <2>1, <3>1, <4>1, AppendIsConcat
    <3>3. <<e>> \in Seq(T)
      BY <2>1
    <3>4. (a \o b) \o <<e>> = a \o (b \o <<e>>)
      BY SMTT(60), <3>1, <3>3, ConcatAssociative
    <3>5. Append(a \o b, e) = a \o Append(b, e)
      BY <3>2, <3>4
    <3> QED BY <3>5 DEF a, b
  <2>9. P(k + 1)
    BY <2>2, <2>3, <2>4, <2>6, <2>7, <2>8
  <2> QED BY <2>9
<1>4. Len(t) \in Nat /\ Len(t) \in 0 .. Len(t)
  OBVIOUS
<1>5. Len(t) \in K
  <2> HIDE DEF K
  <2> QED BY <1>2, <1>3, <1>4, Climb
<1>6. SubSeq(t, 1, Len(t)) = t
  OBVIOUS
<1> QED BY <1>5, <1>6

\* What is kept of one element.
LEMMA SiftOfOne ==
    ASSUME NEW T, NEW e \in T, NEW S
    PROVE  Sift(<<e>>, S) = IF e \in S THEN <<e>> ELSE <<>>
<1>1. <<>> \in Seq(T) /\ Append(<<>>, e) = <<e>>
  OBVIOUS
<1>2. Sift(Append(<<>>, e), S) = IF e \in S THEN Append(Sift(<<>>, S), e) ELSE Sift(<<>>, S)
  BY <1>1, SiftAppend
<1>3. Sift(<<>>, S) = <<>>
  BY SiftOfNone
<1> QED BY <1>1, <1>2, <1>3

--------------------------------------------------------------------------------
\* A function by recursion over all the naturals: the powers of a number.
LEMMA PowersOf ==
    ASSUME NEW b \in Nat \ {0}, NEW f, f = CHOOSE g : g = [k \in Nat |-> IF k = 0 THEN 1 ELSE b * g[k - 1]]
    PROVE  f[0] = 1 /\ \A k \in Nat : f[k] \in Nat \ {0} /\ f[k + 1] = b * f[k]
<1> DEFINE Good(h, n) == h \in [0 .. n -> Nat \ {0}] /\ h[0] = 1 /\ \A i \in 1 .. n : h[i] = b * h[i - 1]
           upTo(n) == CHOOSE h : Good(h, n)
           g == [k \in Nat |-> upTo(k)[k]]
<1>1. ASSUME NEW n \in Nat PROVE Good(upTo(n), n)
  <2> DEFINE T == Nat \ {0}
             step == [q \in (1 .. n) \X T |-> b * q[2]]
  <2>1. step \in [(1 .. n) \X T -> T]
    <3>1. \A x \in T : b * x \in T
      OBVIOUS
    <3> QED BY <3>1
  <2>2. 1 \in T
    OBVIOUS
  <2> HIDE DEF step, T
  <2>3. PICK h \in [0 .. n -> T] : Unrolled(h, n, 1, step)
    BY <2>1, <2>2, Recursion
  <2>4. h[0] = 1
    BY <2>3 DEF Unrolled
  <2>5. ASSUME NEW i \in 1 .. n PROVE h[i] = b * h[i - 1]
    <3>1. i - 1 \in 0 .. n
      BY <2>5
    <3>2. <<i, h[i - 1]>> \in (1 .. n) \X T
      BY <3>1
    <3>3. h[i] = step[<<i, h[i - 1]>>]
      BY <2>3 DEF Unrolled
    <3> QED BY <3>2, <3>3 DEF step
  <2>6. Good(h, n)
    BY <2>4, <2>5 DEF T
  <2> HIDE DEF Good
  <2> QED BY <2>6
<1>2. ASSUME NEW n \in Nat PROVE upTo(n + 1)[n] = upTo(n)[n]
  <2> DEFINE x == upTo(n)
             y == upTo(n + 1)
             S == {i \in 0 .. n : y[i] = x[i]}
  <2>1. Good(x, n) /\ Good(y, n + 1)
    <3>1. n + 1 \in Nat
      OBVIOUS
    <3> HIDE DEF Good, upTo
    <3> QED BY <1>1, <3>1
  <2> HIDE DEF x, y
  <2>2. 0 \in S
    BY <2>1
  <2>3. ASSUME NEW i \in 0 .. n - 1, i \in S PROVE i + 1 \in S
    <3>1. i + 1 \in 1 .. n /\ i + 1 \in 1 .. n + 1 /\ (i + 1) - 1 = i /\ i + 1 \in 0 .. n
      OBVIOUS
    <3>2. x[i + 1] = b * x[i] /\ y[i + 1] = b * y[i]
      BY <2>1, <3>1
    <3> QED BY <2>3, <3>1, <3>2
  <2>4. n \in S
    <3>1. n \in 0 .. n
      OBVIOUS
    <3> HIDE DEF S
    <3> QED BY <2>2, <2>3, <3>1, Climb
  <2> QED BY <2>4 DEF x, y
<1>3. ASSUME NEW n \in Nat
      PROVE  /\ upTo(n)[n] \in Nat \ {0} /\ upTo(n + 1)[n + 1] = b * upTo(n)[n]
             /\ (n = 0 => upTo(n)[n] = 1)
  <2> DEFINE x == upTo(n)
             y == upTo(n + 1)
  <2>1. Good(x, n) /\ Good(y, n + 1) /\ y[n] = x[n]
    <3>1. n + 1 \in Nat
      OBVIOUS
    <3> HIDE DEF Good, upTo
    <3> QED BY <1>1, <1>2, <3>1
  <2> HIDE DEF x, y
  <2>2. x[n] \in Nat \ {0} /\ (n = 0 => x[n] = 1)
    BY <2>1
  <2>3. y[n + 1] = b * y[n]
    <3>1. n + 1 \in 1 .. n + 1 /\ (n + 1) - 1 = n
      OBVIOUS
    <3> QED BY <2>1, <3>1
  <2> QED BY <2>1, <2>2, <2>3 DEF x, y
<1> HIDE DEF upTo, Good
<1>4. \A k \in Nat : g[k] = upTo(k)[k]
  OBVIOUS
<1>5. g = [k \in Nat |-> IF k = 0 THEN 1 ELSE b * g[k - 1]]
  <2>1. ASSUME NEW k \in Nat PROVE upTo(k)[k] = IF k = 0 THEN 1 ELSE b * g[k - 1]
    <3>1. CASE k = 0
      BY <1>3, <3>1
    <3>2. CASE k # 0
      <4>1. k - 1 \in Nat /\ (k - 1) + 1 = k
        BY <3>2
      <4> HIDE DEF g
      <4> QED BY <1>3, <1>4, <3>2, <4>1
    <3> QED BY <3>1, <3>2
  <2> QED BY <2>1
<1> HIDE DEF g
<1>6. f = [k \in Nat |-> IF k = 0 THEN 1 ELSE b * f[k - 1]]
  BY <1>5
<1>7. f[0] = 1
  BY <1>6
<1>8. ASSUME NEW k \in Nat PROVE f[k + 1] = b * f[k]
  <2>1. k + 1 \in Nat /\ k + 1 # 0 /\ (k + 1) - 1 = k
    OBVIOUS
  <2>2. f[k + 1] = IF k + 1 = 0 THEN 1 ELSE b * f[(k + 1) - 1]
    BY <1>6, <2>1
  <2> QED BY <2>1, <2>2
<1>9. ASSUME NEW k \in Nat PROVE f[k] \in Nat \ {0}
  <2> DEFINE S == {i \in 0 .. k : f[i] \in Nat \ {0}}
  <2>1. 0 \in S
    BY <1>7
  <2>2. ASSUME NEW i \in 0 .. k - 1, i \in S PROVE i + 1 \in S
    <3>1. i \in Nat /\ i + 1 \in 0 .. k /\ f[i] \in Nat \ {0}
      BY <2>2
    <3>2. f[i + 1] = b * f[i]
      BY <1>8, <3>1
    <3>3. \A x \in Nat \ {0} : b * x \in Nat \ {0}
      OBVIOUS
    <3> QED BY <3>1, <3>2, <3>3
  <2>3. k \in S
    <3>1. k \in 0 .. k
      OBVIOUS
    <3> HIDE DEF S
    <3> QED BY <2>1, <2>2, <3>1, Climb
  <2> QED BY <2>3
<1> QED BY <1>7, <1>8, <1>9
================================================================================
