------------------------------ MODULE ScreenProofs ------------------------------
(***************************************************************************)
(* Theorems about what a window shows and watches: of Compose, for any     *)
(* sizes of the terminal, any snapshots and any number of frames and       *)
(* resizes; of Desk, for any names, any number of commands and saves and   *)
(* any trouble; and of Keys, for any keys, limit and interleaving.         *)
(*                                                                         *)
(* The frame.  Every block of a frame is Made: its rows are rows, of the   *)
(* blocks it may hold, none cut, and what is wrapped no wider than the     *)
(* window.  A block before the body gives up a row of what is left         *)
(* (SeatedIs), so the body has one wherever there was room at all, and     *)
(* three under a picker (SeatsFit); all of it and the prompt then fit      *)
(* (ComposedFits).  With no room at all there are six rows at the most.    *)
(* The screen: line by line it becomes the frame if it showed what the     *)
(* cache knows (RenderedShows); that it does, when the sizes agree and no  *)
(* resize came between, is what ScreenInv keeps.                           *)
(*                                                                         *)
(* The watch set.  Every command makes a usable set of a usable set        *)
(* (SelectIsUsable, UnwatchedIsUsable), and so does a load of any lines of *)
(* names that may be watched (LoadIsUsable); DeskInv has all inodes full   *)
(* of such lines, whoever writes them and wherever a save ends.  OneFile   *)
(* is why the file is whole: the inode that is written is never the one    *)
(* that is read.                                                           *)
(*                                                                         *)
(* The line.  Some of the keys have been read, and the bytes that are      *)
(* still to be are those of the others, whole and in order, with the       *)
(* escape the reader is in before them (Sent, Stream); what the keys read  *)
(* make of the line is what the loop has, with what is queued applied to   *)
(* it (InFlight).  A step of the reader takes a key from one side to the   *)
(* other (InEscape, AtTheHead, OneMoreRead); one of the loop keeps both.   *)
(***************************************************************************)
EXTENDS Compose, Desk, Keys, Lemmas

--------------------------------------------------------------------------------
(* Rows, and sequences of them.                                            *)

LEMMA MinOfTwo ==
    ASSUME NEW a \in Int, NEW b \in Int
    PROVE  Min({a, b}) = IF a <= b THEN a ELSE b
<1>1. \E x \in {a, b} : \A y \in {a, b} : x <= y
  OBVIOUS
<1>2. PICK x \in {a, b} : x = Min({a, b}) /\ \A y \in {a, b} : x <= y
  BY <1>1 DEF Min
<1> QED BY <1>2

LEMMA MaxOfTwo ==
    ASSUME NEW a \in Int, NEW b \in Int
    PROVE  Max({a, b}) = IF a >= b THEN a ELSE b
<1>1. \E x \in {a, b} : \A y \in {a, b} : x >= y
  OBVIOUS
<1>2. PICK x \in {a, b} : x = Max({a, b}) /\ \A y \in {a, b} : x >= y
  BY <1>1 DEF Max
<1> QED BY <1>2

LEMMA AtMostOf ==
    ASSUME NEW V, NEW n \in Nat, NEW seq \in Seq(V)
    PROVE  /\ AtMost(n, seq) \in Seq(V)
           /\ Len(AtMost(n, seq)) = IF n <= Len(seq) THEN n ELSE Len(seq)
           /\ \A i \in 1 .. Len(AtMost(n, seq)) : AtMost(n, seq)[i] = seq[i]
           /\ Len(seq) <= n => AtMost(n, seq) = seq
<1>1. Min({n, Len(seq)}) = IF n <= Len(seq) THEN n ELSE Len(seq)
  BY MinOfTwo
<1> DEFINE m == Min({n, Len(seq)})
<1>2. m \in Nat /\ m <= Len(seq) /\ AtMost(n, seq) = SubSeq(seq, 1, m)
  BY <1>1 DEF AtMost
<1> HIDE DEF m
<1>3. /\ SubSeq(seq, 1, m) \in Seq(V)
      /\ Len(SubSeq(seq, 1, m)) = m
      /\ \A i \in 1 .. m : SubSeq(seq, 1, m)[i] = seq[i]
  BY <1>2
<1>4. Len(seq) <= n => AtMost(n, seq) = seq
  <2> SUFFICES ASSUME Len(seq) <= n PROVE SubSeq(seq, 1, m) = seq
    BY <1>2
  <2>1. m = Len(seq)
    BY <1>1 DEF m
  <2> QED BY <1>3, <2>1
<1> QED BY <1>1, <1>2, <1>3, <1>4 DEF m

Blocks == {"header", "times", "sentence", "remedy", "picker", "level", "note", "columns",
           "dashboard", "prompt", "status", "help", "blank", "garbled"}

RowType == [block : Blocks, at : Nat, width : Nat, says : {"", "a", "b"}, chosen : BOOLEAN, cut : BOOLEAN]

\* The blocks of what is told in sentences, which are wrapped.
Told == {"sentence", "remedy", "status"}

\* Rows of these blocks, none of them cut, and what is wrapped no wider than this.
Made(rows, names, cols) ==
    /\ rows \in Seq(RowType)
    /\ \A i \in 1 .. Len(rows) :
        /\ rows[i].block \in names
        /\ rows[i].cut = FALSE
        /\ rows[i].block \in Told => rows[i].width <= cols

LEMMA RowIsRow ==
    ASSUME NEW block \in Blocks, NEW at \in Nat, NEW width \in Nat
    PROVE  /\ Row(block, at, width) \in RowType
           /\ Row(block, at, width).block = block /\ Row(block, at, width).at = at
           /\ Row(block, at, width).width = width /\ Row(block, at, width).cut = FALSE
  BY DEF Row, RowType

LEMMA NoneIsMade ==
    ASSUME NEW names, NEW cols
    PROVE  Made(<<>>, names, cols)
<1>1. <<>> \in Seq(RowType) /\ Len(<<>>) = 0
  BY EmptySeq
<1> QED BY <1>1 DEF Made

\* A sequence of rows given one by one.
LEMMA MadeOf ==
    ASSUME NEW n \in Nat, NEW names, NEW cols, NEW f,
           f = [i \in 1 .. n |-> f[i]],
           \A i \in 1 .. n : /\ f[i] \in RowType /\ f[i].block \in names /\ f[i].cut = FALSE
                             /\ f[i].block \in Told => f[i].width <= cols
    PROVE  Made(f, names, cols) /\ Len(f) = n
<1>1. f \in [1 .. n -> RowType]
  OBVIOUS
<1>2. f \in Seq(RowType) /\ Len(f) = n
  <2> HIDE DEF RowType
  <2> QED BY <1>1
<1> QED BY <1>2 DEF Made

LEMMA RowsAreMade ==
    ASSUME NEW block \in Blocks \ Told, NEW n \in Nat, NEW width \in Nat, NEW cols
    PROVE  Made(Rows(block, n, width), {block}, cols) /\ Len(Rows(block, n, width)) = n
<1> DEFINE f == [i \in 1 .. n |-> Row(block, i, width)]
<1>1. ASSUME NEW i \in 1 .. n
      PROVE  /\ f[i] \in RowType /\ f[i].block \in {block} /\ f[i].cut = FALSE
             /\ f[i].block \in Told => f[i].width <= cols
  <2>1. i \in Nat /\ f[i] = Row(block, i, width) /\ block \in Blocks /\ block \notin Told
    OBVIOUS
  <2> HIDE DEF f
  <2>2. /\ Row(block, i, width) \in RowType /\ Row(block, i, width).block = block
        /\ Row(block, i, width).cut = FALSE
    BY <2>1 DEF Row, RowType
  <2> QED BY <2>1, <2>2
<1>2. f = [i \in 1 .. n |-> f[i]]
  OBVIOUS
<1> HIDE DEF f
<1>3. Made(f, {block}, cols) /\ Len(f) = n
  BY <1>1, <1>2, MadeOf
<1> QED BY <1>3 DEF f, Rows

LEMMA MadeTogether ==
    ASSUME NEW a, NEW A, NEW b, NEW B, NEW cols, Made(a, A, cols), Made(b, B, cols)
    PROVE  /\ Made(a \o b, A \cup B, cols)
           /\ Len(a \o b) = Len(a) + Len(b)
           /\ \A i \in 1 .. Len(a) : (a \o b)[i] = a[i]
           /\ \A i \in 1 .. Len(b) : (a \o b)[Len(a) + i] = b[i]
<1>1. a \in Seq(RowType) /\ b \in Seq(RowType) /\ Len(a) \in Nat /\ Len(b) \in Nat
  BY DEF Made
<1> DEFINE whole == a \o b
<1>2. /\ whole \in Seq(RowType) /\ Len(whole) = Len(a) + Len(b)
      /\ \A i \in 1 .. Len(a) + Len(b) : whole[i] = IF i <= Len(a) THEN a[i] ELSE b[i - Len(a)]
  BY <1>1, ConcatProperties
<1> HIDE DEF whole
<1>3. \A i \in 1 .. Len(a) : whole[i] = a[i]
  BY <1>1, <1>2
<1>4. ASSUME NEW i \in 1 .. Len(b) PROVE whole[Len(a) + i] = b[i]
  <2>1. Len(a) + i \in 1 .. Len(a) + Len(b) /\ ~(Len(a) + i <= Len(a)) /\ (Len(a) + i) - Len(a) = i
    BY <1>1
  <2> QED BY <1>2, <2>1
<1>5. ASSUME NEW i \in 1 .. Len(whole)
      PROVE  /\ whole[i].block \in A \cup B /\ whole[i].cut = FALSE
             /\ whole[i].block \in Told => whole[i].width <= cols
  <2>1. CASE i <= Len(a)
    <3>1. i \in 1 .. Len(a)
      BY <1>1, <2>1
    <3> QED BY <1>3, <3>1 DEF Made
  <2>2. CASE ~(i <= Len(a))
    <3>1. i - Len(a) \in 1 .. Len(b) /\ whole[i] = b[i - Len(a)]
      BY <1>1, <1>2, <2>2
    <3> QED BY <3>1 DEF Made
  <2> QED BY <2>1, <2>2
<1>6. Made(whole, A \cup B, cols)
  BY <1>2, <1>5 DEF Made
<1> QED BY <1>2, <1>3, <1>4, <1>6 DEF whole

LEMMA MadeAtMost ==
    ASSUME NEW n \in Nat, NEW a, NEW A, NEW cols, Made(a, A, cols)
    PROVE  /\ Made(AtMost(n, a), A, cols)
           /\ Len(AtMost(n, a)) = IF n <= Len(a) THEN n ELSE Len(a)
           /\ \A i \in 1 .. Len(AtMost(n, a)) : AtMost(n, a)[i] = a[i]
<1>1. a \in Seq(RowType) /\ Len(a) \in Nat
  BY DEF Made
<1> DEFINE cut == AtMost(n, a)
<1>2. /\ cut \in Seq(RowType)
      /\ Len(cut) = IF n <= Len(a) THEN n ELSE Len(a)
      /\ \A i \in 1 .. Len(cut) : cut[i] = a[i]
  BY <1>1, AtMostOf
<1> HIDE DEF cut
<1>3. Made(cut, A, cols)
  <2>1. \A i \in 1 .. Len(cut) : i \in 1 .. Len(a)
    BY <1>1, <1>2
  <2> QED BY <1>2, <2>1 DEF Made
<1> QED BY <1>2, <1>3 DEF cut

--------------------------------------------------------------------------------
(* Words on rows.                                                          *)

\* What is wrapped: the rows done, and how much of the next is taken.
WrapType(cols) == [done : Seq(0 .. cols), now : 0 .. cols]

LEMMA JoinedFits ==
    ASSUME NEW cols \in Nat \ {0}, NEW out \in WrapType(cols), NEW w \in Nat
    PROVE  Joined(out, w, cols) \in WrapType(cols)
<1> DEFINE word == Min({w, cols})
<1>1. word = IF w <= cols THEN w ELSE cols
  BY MinOfTwo
<1>2. out.done \in Seq(0 .. cols) /\ out.now \in 0 .. cols
  BY DEF WrapType
<1>3. word \in 0 .. cols
  BY <1>1
<1>4. Joined(out, w, cols) =
        IF out.now # 0 /\ out.now + 1 + w > cols
        THEN [done |-> Append(out.done, out.now), now |-> word]
        ELSE [out EXCEPT !.now = IF @ = 0 THEN word ELSE @ + 1 + word]
  BY DEF Joined
<1> HIDE DEF word
<1>5. CASE out.now # 0 /\ out.now + 1 + w > cols
  <2>1. Append(out.done, out.now) \in Seq(0 .. cols)
    BY <1>2, AppendProperties
  <2> QED BY <1>3, <1>4, <1>5, <2>1 DEF WrapType
<1>6. CASE ~(out.now # 0 /\ out.now + 1 + w > cols)
  <2>1. (IF out.now = 0 THEN word ELSE out.now + 1 + word) \in 0 .. cols
    BY <1>1, <1>2, <1>3, <1>6
  <2> QED BY <1>2, <1>4, <1>6, <2>1 DEF WrapType
<1> QED BY <1>5, <1>6

\* No row of what is wrapped is wider than the window.
LEMMA WrapFits ==
    ASSUME NEW cols \in Nat \ {0}, NEW words \in Seq(Nat)
    PROVE  Wrap(words, cols) \in Seq(0 .. cols)
<1> DEFINE N == Len(words)
           T == WrapType(cols)
           none == [done |-> <<>>, now |-> 0]
           step == [p \in (1 .. N) \X T |-> Joined(p[2], words[p[1]], cols)]
           Course(g) == [n \in 0 .. N |-> IF n = 0 THEN none ELSE Joined(g[n - 1], words[n], cols)]
           out == CHOOSE g : g = Course(g)
<1>1. N \in Nat /\ \A i \in 1 .. N : words[i] \in Nat
  BY ElementOfSeq
<1>2. none \in T
  <2>1. <<>> \in Seq(0 .. cols) /\ 0 \in 0 .. cols
    BY EmptySeq
  <2> QED BY <2>1 DEF WrapType
<1>3. Wrap(words, cols) = IF out[N].now = 0 THEN out[N].done ELSE Append(out[N].done, out[N].now)
  BY DEF Wrap
<1> HIDE DEF none, T
<1>4. step \in [(1 .. N) \X T -> T]
  <2> SUFFICES ASSUME NEW p \in (1 .. N) \X T PROVE Joined(p[2], words[p[1]], cols) \in T
    OBVIOUS
  <2>1. p[2] \in T /\ words[p[1]] \in Nat
    BY <1>1
  <2> QED BY <2>1, JoinedFits DEF T
<1>5. PICK f \in [0 .. N -> T] : Unrolled(f, N, none, step)
  <2> HIDE DEF step, N
  <2> QED BY <1>1, <1>2, <1>4, Recursion
<1>6. ASSUME NEW n \in 0 .. N
      PROVE  f[n] = IF n = 0 THEN none ELSE Joined(f[n - 1], words[n], cols)
  <2>1. CASE n = 0
    BY <1>1, <1>5, <2>1 DEF Unrolled
  <2>2. CASE n # 0
    <3>1. n \in 1 .. N /\ n - 1 \in 0 .. N
      BY <1>1, <2>2
    <3>2. f[n] = step[<<n, f[n - 1]>>]
      BY <1>5, <3>1 DEF Unrolled
    <3>3. <<n, f[n - 1]>> \in (1 .. N) \X T
      BY <3>1
    <3> QED BY <2>2, <3>2, <3>3
  <2> QED BY <2>1, <2>2
<1>7. f = Course(f)
  BY <1>6
<1>8. out = Course(out)
  <2> HIDE DEF Course
  <2> QED BY <1>7
<1>9. ASSUME NEW n \in 0 .. N
      PROVE  out[n] = IF n = 0 THEN none ELSE Joined(out[n - 1], words[n], cols)
  <2> HIDE DEF out
  <2> QED BY <1>8
<1> HIDE DEF step, out, Course
<1> DEFINE S == {n \in 0 .. N : out[n] \in T}
<1>10. 0 \in S
  BY <1>1, <1>2, <1>9
<1>11. ASSUME NEW n \in 0 .. N - 1, n \in S PROVE n + 1 \in S
  <2>1. n + 1 \in 0 .. N /\ (n + 1) - 1 = n /\ n + 1 \in 1 .. N /\ n + 1 # 0
    BY <1>1
  <2>2. Joined(out[n], words[n + 1], cols) \in T
    BY <1>1, <1>11, <2>1, JoinedFits DEF T
  <2> QED BY <1>9, <2>1, <2>2
<1>12. N \in S
  <2>1. N \in 0 .. N
    BY <1>1
  <2> HIDE DEF S, N
  <2> QED BY <1>1, <1>10, <1>11, <2>1, Climb
<1>13. out[N].done \in Seq(0 .. cols) /\ out[N].now \in 0 .. cols
  BY <1>12 DEF T, WrapType
<1>14. Append(out[N].done, out[N].now) \in Seq(0 .. cols)
  BY <1>13, AppendProperties
<1> QED BY <1>3, <1>13, <1>14

LEMMA WrappedIsMade ==
    ASSUME NEW cols \in Nat \ {0}, NEW words \in Seq(Nat), NEW block \in Blocks
    PROVE  Made(Wrapped(block, words, cols), {block}, cols)
<1> DEFINE widths == Wrap(words, cols)
           n == Len(widths)
           f == [i \in DOMAIN widths |-> Row(block, i, widths[i])]
<1>1. widths \in Seq(0 .. cols)
  BY WrapFits
<1> HIDE DEF widths
<1>2. n \in Nat /\ DOMAIN widths = 1 .. n /\ \A i \in 1 .. n : widths[i] \in 0 .. cols
  BY <1>1, ElementOfSeq
<1>3. ASSUME NEW i \in 1 .. n
      PROVE  /\ f[i] \in RowType /\ f[i].block \in {block} /\ f[i].cut = FALSE
             /\ f[i].block \in Told => f[i].width <= cols
  <2>1. i \in Nat /\ widths[i] \in Nat /\ widths[i] <= cols /\ f[i] = Row(block, i, widths[i])
    BY <1>2
  <2> HIDE DEF f
  <2>2. Row(block, i, widths[i]) \in RowType
    BY <2>1, RowIsRow
  <2>3. Row(block, i, widths[i]).cut = FALSE
    BY DEF Row
  <2>4. Row(block, i, widths[i]).block = block /\ Row(block, i, widths[i]).width = widths[i]
    BY DEF Row
  <2> QED BY <2>1, <2>2, <2>3, <2>4
<1>4. f = [i \in 1 .. n |-> f[i]]
  BY <1>2
<1> HIDE DEF f, n
<1>5. Made(f, {block}, cols)
  BY <1>2, <1>3, <1>4, MadeOf
<1> QED BY <1>5 DEF f, widths, Wrapped

--------------------------------------------------------------------------------
(* The blocks of a frame.                                                  *)

Known == {s \in SnapshotType : s.light < s.offered \/ s.light = 0}

LEMMA MadeMore ==
    ASSUME NEW a, NEW A, NEW B, A \subseteq B, NEW cols, Made(a, A, cols)
    PROVE  Made(a, B, cols)
  BY DEF Made

LEMMA OneIsMade ==
    ASSUME NEW r \in RowType, r.block \notin Told, r.cut = FALSE, NEW cols
    PROVE  Made(<<r>>, {r.block}, cols) /\ Len(<<r>>) = 1 /\ <<r>>[1] = r
<1>1. <<r>> \in Seq(RowType) /\ Len(<<r>>) = 1 /\ <<r>>[1] = r
  <2> HIDE DEF RowType
  <2> QED OBVIOUS
<1> DEFINE one == <<r>>
<1> HIDE DEF one
<1>2. ASSUME NEW i \in 1 .. 1 PROVE i = 1
  OBVIOUS
<1>3. Made(one, {r.block}, cols)
  BY <1>1, <1>2 DEF Made, one
<1> QED BY <1>1, <1>3 DEF one

LEMMA HeadIsMade ==
    ASSUME NEW s \in SnapshotType, NEW cols
    PROVE  Made(Head3(s), {"header", "times"}, cols) /\ Len(Head3(s)) = 3
<1> DEFINE r == [Row("header", 1, Wide) EXCEPT !.says = s.news]
<1>1. r \in RowType /\ r.block = "header"
  BY DEF Row, RowType, Blocks, SnapshotType, Wide
<1>2. r.cut = FALSE
  BY DEF Row
<1> HIDE DEF r
<1>3. Made(<<r>>, {"header"}, cols) /\ Len(<<r>>) = 1
  BY <1>1, <1>2, OneIsMade DEF Told
<1>4. Made(Rows("times", 2, Wide), {"times"}, cols) /\ Len(Rows("times", 2, Wide)) = 2
  BY ZenonT(60), RowsAreMade DEF Blocks, Told, Wide
<1> DEFINE one == <<r>>
           two == Rows("times", 2, Wide)
<1>5. Head3(s) = one \o two
  BY DEF Head3, r
<1>6. Made(one, {"header"}, cols) /\ Len(one) = 1 /\ Made(two, {"times"}, cols) /\ Len(two) = 2
  BY <1>3, <1>4
<1> HIDE DEF one, two
<1>8. Made(one \o two, {"header"} \cup {"times"}, cols)
  BY <1>6, MadeTogether
<1>9. one \in Seq(RowType) /\ two \in Seq(RowType)
  BY <1>6 DEF Made
<1>7. Made(one \o two, {"header"} \cup {"times"}, cols) /\ Len(one \o two) = Len(one) + Len(two)
  BY <1>8, <1>9, ConcatProperties
<1> QED BY <1>5, <1>6, <1>7, MadeMore

LEMMA DiagnosticIsMade ==
    ASSUME NEW s \in SnapshotType, NEW cols \in Nat \ {0}
    PROVE  Made(Diagnostic(s, cols), {"sentence", "remedy"}, cols)
<1> DEFINE a == Wrapped("sentence", s.sentence, cols)
           b == Wrapped("remedy", Remedy[1], cols)
           c == Wrapped("remedy", Remedy[2], cols)
           d == Wrapped("remedy", Remedy[3], cols)
           names == {"sentence", "remedy"}
<1>1. s.sentence \in Seq(Nat) /\ Remedy[1] \in Seq(Nat) /\ Remedy[2] \in Seq(Nat) /\ Remedy[3] \in Seq(Nat)
  BY DEF SnapshotType, Remedy
<1>2. Made(a, {"sentence"}, cols) /\ Made(b, {"remedy"}, cols) /\ Made(c, {"remedy"}, cols)
      /\ Made(d, {"remedy"}, cols)
  BY <1>1, WrappedIsMade DEF Blocks
<1>3. Diagnostic(s, cols) =
        IF s.sentence = <<>> THEN <<>>
        ELSE AtMost(5, IF s.restartable THEN AtMost(3, a) \o (b \o c \o d) ELSE AtMost(3, a))
  BY DEF Diagnostic, DiagnosticRows, RemedyRows
<1> HIDE DEF a, b, c, d
<1>4. Made(AtMost(3, a), {"sentence"}, cols)
  BY <1>2, MadeAtMost
<1>5. Made(b \o c, {"remedy"} \cup {"remedy"}, cols)
  BY <1>2, MadeTogether
<1>6. Made(b \o c \o d, ({"remedy"} \cup {"remedy"}) \cup {"remedy"}, cols)
  BY <1>2, <1>5, MadeTogether
<1> DEFINE remedy == b \o c \o d
<1>7. Made(remedy, {"remedy"}, cols)
  BY <1>6, MadeMore
<1> HIDE DEF remedy
<1>8. Made(AtMost(3, a) \o remedy, {"sentence"} \cup {"remedy"}, cols)
  BY <1>4, <1>7, MadeTogether
<1> DEFINE whole == IF s.restartable THEN AtMost(3, a) \o remedy ELSE AtMost(3, a)
<1>9. Made(whole, names, cols)
  <2>1. Made(AtMost(3, a) \o remedy, names, cols)
    BY <1>8, MadeMore
  <2>2. Made(AtMost(3, a), names, cols)
    BY <1>4, MadeMore
  <2> QED BY <2>1, <2>2
<1>10. Diagnostic(s, cols) = IF s.sentence = <<>> THEN <<>> ELSE AtMost(5, whole)
  BY <1>3 DEF whole, remedy
<1> HIDE DEF whole, names
<1>11. Made(AtMost(5, whole), names, cols) /\ Made(<<>>, names, cols)
  BY <1>9, MadeAtMost, NoneIsMade
<1> QED BY <1>10, <1>11 DEF names

LEMMA PickerIsMade ==
    ASSUME NEW s \in Known, NEW left \in Nat, NEW cols
    PROVE  LET picker == Picker(s, left)
           IN  /\ Made(picker, {"picker"}, cols)
               /\ Len(picker) <= s.offered
               /\ Len(picker) = 0 \/ Len(picker) + MinBody <= left
               /\ Len(picker) = s.offered =>
                    \A i \in 1 .. Len(picker) : /\ picker[i].at = i
                                                /\ picker[i].chosen <=> i = s.light + 1
<1> DEFINE shown    == IF s.mode # "Local" \/ s.input = 0 THEN 0
                       ELSE Min({s.offered, Suggestions, Less(left, MinBody)})
           selected == Min({s.light, Less(shown, 1)})
           f == [i \in 1 .. shown |-> [Row("picker", i, Wide) EXCEPT !.chosen = (i = selected + 1)]]
<1>1. Picker(s, left) = f
  BY DEF Picker
<1>2. s.offered \in Nat /\ s.light \in Nat /\ (s.light < s.offered \/ s.light = 0)
  BY DEF Known, SnapshotType
<1>3. Suggestions \in Nat \ {0}
  BY CatalogAssumption
<1>4. Less(left, MinBody) = IF left > 3 THEN left - 3 ELSE 0
  BY DEF Less, MinBody
<1>5. shown \in Nat /\ shown <= s.offered /\ (shown = 0 \/ shown + 3 <= left)
  <2> DEFINE S == {s.offered, Suggestions, Less(left, MinBody)}
  <2>1. S \subseteq Nat /\ S # {}
    BY <1>2, <1>3, <1>4
  <2>2. Min(S) \in S /\ \A y \in S : Min(S) <= y
    BY <2>1, MinOfNats
  <2>3. Min(S) \in Nat /\ Min(S) <= s.offered /\ Min(S) <= Less(left, MinBody)
    BY <2>1, <2>2
  <2>4. shown = IF s.mode # "Local" \/ s.input = 0 THEN 0 ELSE Min(S)
    OBVIOUS
  <2> HIDE DEF S, shown
  <2> QED BY <1>2, <1>4, <2>3, <2>4
<1> HIDE DEF shown
<1>6. Less(shown, 1) \in Nat /\ Less(shown, 1) = IF shown > 1 THEN shown - 1 ELSE 0
  BY <1>5 DEF Less
<1>7. selected \in Nat /\ (shown = s.offered /\ shown # 0 => selected = s.light)
  <2>1. selected = IF s.light <= Less(shown, 1) THEN s.light ELSE Less(shown, 1)
    BY <1>2, <1>6, MinOfTwo
  <2> HIDE DEF selected
  <2> QED BY <1>2, <1>5, <1>6, <2>1
<1> HIDE DEF selected
<1>8. ASSUME NEW i \in 1 .. shown
      PROVE  /\ f[i] \in RowType /\ f[i].block \in {"picker"} /\ f[i].cut = FALSE
             /\ f[i].block \in Told => f[i].width <= cols
             /\ f[i].at = i
             /\ f[i].chosen = (i = selected + 1)
  <2>1. i \in Nat
    BY <1>5
  <2>2. f[i] = [Row("picker", i, Wide) EXCEPT !.chosen = (i = selected + 1)]
    OBVIOUS
  <2> DEFINE r == [Row("picker", i, Wide) EXCEPT !.chosen = (i = selected + 1)]
  <2>3. r \in RowType /\ r.block = "picker" /\ r.at = i
    BY <2>1 DEF Row, RowType, Blocks, Wide
  <2>4. r.cut = FALSE
    BY DEF Row
  <2>5. r.chosen = (i = selected + 1)
    BY DEF Row
  <2>6. "picker" \notin Told
    BY DEF Told
  <2> HIDE DEF r, f
  <2> QED BY <2>2, <2>3, <2>4, <2>5, <2>6 DEF r
<1>9. f = [i \in 1 .. shown |-> f[i]]
  OBVIOUS
<1> HIDE DEF f
<1>10. Made(f, {"picker"}, cols) /\ Len(f) = shown
  <2>1. \A i \in 1 .. shown : /\ f[i] \in RowType /\ f[i].block \in {"picker"} /\ f[i].cut = FALSE
                              /\ f[i].block \in Told => f[i].width <= cols
    BY <1>8
  <2> QED BY <1>5, <1>9, <2>1, MadeOf
<1>11. ASSUME shown = s.offered, NEW i \in 1 .. shown PROVE f[i].at = i /\ (f[i].chosen <=> i = s.light + 1)
  <2>1. shown # 0
    BY <1>5
  <2> QED BY <1>7, <1>8, <1>11, <2>1
<1> QED BY <1>1, <1>5, <1>10, <1>11 DEF MinBody

LEMMA MadeBoth ==
    ASSUME NEW a, NEW A, NEW b, NEW B, NEW cols, Made(a, A, cols), Made(b, B, cols),
           NEW c, c = a \o b
    PROVE  /\ Made(c, A \cup B, cols)
           /\ Len(a) \in Nat /\ Len(b) \in Nat /\ Len(c) = Len(a) + Len(b)
           /\ \A i \in 1 .. Len(a) : c[i] = a[i]
           /\ \A i \in 1 .. Len(b) : c[Len(a) + i] = b[i]
<1>1. a \in Seq(RowType) /\ b \in Seq(RowType)
  BY DEF Made
<1>2. Made(c, A \cup B, cols)
  BY MadeTogether
<1>3. \A i \in 1 .. Len(a) : c[i] = a[i]
  BY MadeTogether
<1>4. \A i \in 1 .. Len(b) : c[Len(a) + i] = b[i]
  BY MadeTogether
<1>5. Len(a) \in Nat /\ Len(b) \in Nat /\ Len(c) = Len(a) + Len(b)
  BY <1>1, ConcatProperties
<1> QED BY <1>2, <1>3, <1>4, <1>5

\* What may stand below the times.
BodyBlocks == {"columns", "level", "dashboard", "note"}

LEMMA TableIsMade ==
    ASSUME NEW s \in SnapshotType, NEW rows \in Nat, NEW cols
    PROVE  LET table == Table(s, rows)
           IN  /\ Made(table, BodyBlocks, cols)
               /\ Len(table) <= rows
               /\ rows > 0 => Len(table) > 0
               /\ rows >= MinBody => \E i \in 1 .. Len(table) : table[i].block = "level"
<1> DEFINE all    == Min({s.levels, rows - 1})
           cut    == all < s.levels
           shown  == IF cut THEN Min({s.levels, Max({rows - 2, 1})}) ELSE all
           levels == [i \in 1 .. shown |-> [Row("level", i, TableWidth) EXCEPT !.says = s.news]]
           column == Rows("columns", 1, TableWidth)
           note   == Rows("note", 1, Wide)
           tail   == IF cut THEN note ELSE <<>>
<1>1. Table(s, rows) = IF rows = 0 THEN <<>>
                       ELSE IF rows < MinBody THEN note
                       ELSE column \o levels \o tail
  BY DEF Table
<1>2. Made(note, {"note"}, cols) /\ Len(note) = 1
  BY RowsAreMade DEF Blocks, Told, Wide
<1>3. Made(column, {"columns"}, cols) /\ Len(column) = 1
  BY RowsAreMade DEF Blocks, Told, TableWidth
<1>4. s.levels \in Nat \ {0} /\ s.news \in {"a", "b"}
  BY DEF SnapshotType
<1> DEFINE whole == column \o levels \o tail
<1>5. ASSUME rows >= 3
      PROVE  /\ Made(whole, BodyBlocks, cols)
             /\ Len(whole) > 0 /\ Len(whole) <= rows
             /\ \E i \in 1 .. Len(whole) : whole[i].block = "level"
  <2>1. all = IF s.levels <= rows - 1 THEN s.levels ELSE rows - 1
    BY <1>4, MinOfTwo
  <2>2. Max({rows - 2, 1}) = rows - 2
    BY <1>5, MaxOfTwo
  <2> HIDE DEF all
  <2>3. shown \in Nat /\ shown >= 1 /\ (IF cut THEN shown = rows - 2 ELSE shown <= rows - 1)
    <3>1. CASE cut
      <4>1. s.levels > rows - 1
        BY <1>4, <2>1, <3>1
      <4>2. Min({s.levels, rows - 2}) = rows - 2
        BY <1>4, <1>5, <4>1, MinOfTwo
      <4> QED BY <1>5, <2>2, <3>1, <4>2
    <3>2. CASE ~cut
      BY <1>4, <1>5, <2>1, <3>2
    <3> QED BY <3>1, <3>2
  <2> HIDE DEF cut, shown
  <2>4. Made(levels, {"level"}, cols) /\ Len(levels) = shown
    <3>1. ASSUME NEW i \in 1 .. shown
          PROVE  /\ levels[i] \in RowType /\ levels[i].block \in {"level"} /\ levels[i].cut = FALSE
                 /\ levels[i].block \in Told => levels[i].width <= cols
      <4> DEFINE r == [Row("level", i, TableWidth) EXCEPT !.says = s.news]
      <4>1. i \in Nat /\ levels[i] = r
        BY <2>3
      <4>2. r \in RowType /\ r.block = "level"
        BY <1>4, <4>1 DEF Row, RowType, Blocks, TableWidth
      <4>3. r.cut = FALSE
        BY DEF Row
      <4>4. "level" \notin Told
        BY DEF Told
      <4> HIDE DEF r, levels
      <4> QED BY <4>1, <4>2, <4>3, <4>4
    <3>2. levels = [i \in 1 .. shown |-> levels[i]]
      OBVIOUS
    <3> HIDE DEF levels
    <3> QED BY <2>3, <3>1, <3>2, MadeOf
  <2>5. Made(tail, {"note"}, cols) /\ Len(tail) = IF cut THEN 1 ELSE 0
    <3>1. Made(<<>>, {"note"}, cols) /\ Len(<<>>) = 0
      BY NoneIsMade
    <3> HIDE DEF note
    <3> QED BY <1>2, <3>1
  <2> DEFINE first == column \o levels
  <2>6. whole = first \o tail /\ first = column \o levels
    OBVIOUS
  <2> DEFINE A == {"columns"}
             B == {"level"}
             C == {"note"}
  <2>15. Made(column, A, cols) /\ Len(column) = 1 /\ Made(levels, B, cols) /\ Made(tail, C, cols)
    BY <1>3, <2>4, <2>5
  <2>16. (A \cup B) \cup C \subseteq BodyBlocks
    BY DEF BodyBlocks
  <2> HIDE DEF column, levels, tail, whole, first, A, B, C
  <2>7. /\ Made(first, A \cup B, cols)
        /\ Len(first) = 1 + shown
        /\ \A i \in 1 .. Len(levels) : first[1 + i] = levels[i]
    <3>4. Made(column, A, cols) /\ Made(levels, B, cols) /\ first = column \o levels
      BY <2>6, <2>15
    <3>1. Made(first, A \cup B, cols)
      BY <3>4, MadeBoth
    <3>2. Len(first) = Len(column) + Len(levels)
      BY <3>4, MadeBoth
    <3>3. \A i \in 1 .. Len(levels) : first[Len(column) + i] = levels[i]
      BY <3>4, MadeBoth
    <3> QED BY <2>4, <2>15, <3>1, <3>2, <3>3
  <2>8. /\ Made(whole, (A \cup B) \cup C, cols)
        /\ Len(whole) = Len(first) + Len(tail)
        /\ \A i \in 1 .. Len(first) : whole[i] = first[i]
    <3>1. Made(whole, (A \cup B) \cup C, cols)
      BY <2>6, <2>7, <2>15, MadeBoth
    <3>2. Len(whole) = Len(first) + Len(tail)
      BY <2>6, <2>7, <2>15, MadeBoth
    <3>3. \A i \in 1 .. Len(first) : whole[i] = first[i]
      BY <2>6, <2>7, <2>15, MadeBoth
    <3> QED BY <3>1, <3>2, <3>3
  <2>9. Len(whole) = 1 + shown + (IF cut THEN 1 ELSE 0)
    BY <2>5, <2>7, <2>8
  <2>10. 1 \in 1 .. Len(levels) /\ 2 \in 1 .. Len(first) /\ 2 \in 1 .. Len(whole)
    BY <2>3, <2>4, <2>7, <2>9
  <2>11. whole[2] = levels[1]
    <3>1. first[1 + 1] = levels[1]
      BY <2>7, <2>10
    <3>2. whole[2] = first[2]
      BY <2>8, <2>10
    <3> QED BY <3>1, <3>2
  <2>12. levels[1].block = "level"
    BY <2>4, <2>10 DEF Made
  <2>13. Made(whole, BodyBlocks, cols)
    BY <2>8, <2>16, MadeMore
  <2>14. Len(whole) > 0 /\ Len(whole) <= rows
    BY <1>5, <2>3, <2>9
  <2> QED BY <2>10, <2>11, <2>12, <2>13, <2>14
<1> HIDE DEF whole, note
<1>6. Table(s, rows) = IF rows = 0 THEN <<>> ELSE IF rows < 3 THEN note ELSE whole
  BY <1>1 DEF whole, MinBody
<1>7. Made(<<>>, BodyBlocks, cols) /\ Len(<<>>) = 0
  BY NoneIsMade
<1>8. Made(note, BodyBlocks, cols)
  BY <1>2, MadeMore DEF BodyBlocks
<1> DEFINE table == Table(s, rows)
<1>9. CASE rows = 0
  <2>1. table = <<>>
    BY <1>6, <1>9
  <2> QED BY <1>7, <1>9, <2>1 DEF MinBody
<1>10. CASE rows # 0 /\ rows < 3
  <2>1. Table(s, rows) = note
    BY <1>6, <1>10
  <2>2. rows > 0 /\ ~(rows >= MinBody) /\ Len(note) = 1
    BY <1>2, <1>10 DEF MinBody
  <2>3. Made(table, BodyBlocks, cols) /\ Len(table) = 1
    BY <1>8, <2>1, <2>2
  <2> HIDE DEF table
  <2>4. Len(table) <= rows /\ Len(table) > 0
    BY <2>2, <2>3
  <2> QED BY <2>2, <2>3, <2>4 DEF table
<1>11. CASE rows >= 3
  <2>1. table = whole
    BY <1>6, <1>11
  <2> HIDE DEF table
  <2> QED BY <1>5, <1>11, <2>1 DEF table
<1> QED BY <1>9, <1>10, <1>11

LEMMA DashboardIsMade ==
    ASSUME NEW s \in SnapshotType, NEW rows \in Nat, NEW cols
    PROVE  LET dashboard == Dashboard(s, rows)
           IN  /\ Made(dashboard, BodyBlocks, cols)
               /\ Len(dashboard) <= rows
               /\ rows > 0 => Len(dashboard) > 0
               /\ rows >= MinBody => Len(dashboard) >= MinBody
<1> DEFINE daemon == IF s.consumers < 0 THEN 1 ELSE 3 + s.consumers
           all    == 4 + Max({1, s.ticks}) + daemon
           note   == Rows("note", 1, Wide)
           full   == Rows("dashboard", all, Wide)
           part   == Rows("dashboard", rows - 1, Wide)
<1>1. Dashboard(s, rows) = IF all <= rows THEN full ELSE IF rows = 0 THEN <<>> ELSE part \o note
  BY DEF Dashboard
<1>2. all \in Nat /\ all >= 6
  <2>1. s.ticks \in Nat /\ s.consumers \in Int
    BY DEF SnapshotType
  <2>2. Max({1, s.ticks}) = IF 1 >= s.ticks THEN 1 ELSE s.ticks
    BY <2>1, MaxOfTwo
  <2> QED BY <2>1, <2>2
<1> HIDE DEF all
<1>3. Made(note, {"note"}, cols) /\ Len(note) = 1
  BY RowsAreMade DEF Blocks, Told, Wide
<1>4. Made(full, {"dashboard"}, cols) /\ Len(full) = all
  BY <1>2, RowsAreMade DEF Blocks, Told, Wide
<1> DEFINE dashboard == Dashboard(s, rows)
<1>5. CASE all <= rows
  <2>1. dashboard = full
    BY <1>1, <1>5
  <2>2. Made(full, BodyBlocks, cols)
    BY <1>4, MadeMore DEF BodyBlocks
  <2> HIDE DEF dashboard, full
  <2> QED BY <1>2, <1>4, <1>5, <2>1, <2>2 DEF dashboard, MinBody
<1>6. CASE ~(all <= rows) /\ rows = 0
  <2>1. dashboard = <<>>
    BY <1>1, <1>6
  <2>2. Made(<<>>, BodyBlocks, cols) /\ Len(<<>>) = 0
    BY NoneIsMade
  <2> QED BY <1>6, <2>1, <2>2 DEF MinBody
<1>7. CASE ~(all <= rows) /\ rows # 0
  <2>1. dashboard = part \o note
    BY <1>1, <1>7
  <2>2. Made(part, {"dashboard"}, cols) /\ Len(part) = rows - 1
    <3>1. rows - 1 \in Nat
      BY <1>7
    <3> QED BY <3>1, RowsAreMade DEF Blocks, Told, Wide
  <2> DEFINE A == {"dashboard"}
             B == {"note"}
  <2>6. Made(part, A, cols) /\ Made(note, B, cols) /\ A \cup B \subseteq BodyBlocks
    BY <1>3, <2>2 DEF BodyBlocks
  <2> HIDE DEF dashboard, part, note, A, B
  <2>3. Made(dashboard, A \cup B, cols)
    BY <2>1, <2>6, MadeBoth
  <2>7. Len(dashboard) = Len(part) + Len(note)
    BY <2>1, <2>6, MadeBoth
  <2>4. Made(dashboard, BodyBlocks, cols)
    BY <2>3, <2>6, MadeMore
  <2>5. Len(dashboard) = rows
    BY <1>3, <2>2, <2>7
  <2> QED BY <1>7, <2>4, <2>5 DEF dashboard
<1> QED BY <1>5, <1>6, <1>7

\* A block gives up one row at least of what is left.
LEMMA SeatedIs ==
    ASSUME NEW rows, NEW names, NEW cols, Made(rows, names, cols), NEW left \in Nat,
           NEW seat, seat = Seated(rows, left)
    PROVE  /\ Made(seat, names, cols)
           /\ Len(seat) \in Nat /\ Len(seat) <= left
           /\ left > 0 => Len(seat) < left
           /\ Len(seat) <= Len(rows)
           /\ \A i \in 1 .. Len(seat) : seat[i] = rows[i]
           /\ Len(rows) + 1 <= left => Len(seat) = Len(rows)
<1> DEFINE n == Less(left, 1)
<1>1. n = (IF left > 1 THEN left - 1 ELSE 0) /\ n \in Nat /\ seat = AtMost(n, rows)
  BY DEF Less, Seated
<1> HIDE DEF n
<1>2. Made(seat, names, cols)
  BY <1>1, MadeAtMost
<1>3. Len(seat) = IF n <= Len(rows) THEN n ELSE Len(rows)
  BY <1>1, MadeAtMost
<1>6. \A i \in 1 .. Len(AtMost(n, rows)) : AtMost(n, rows)[i] = rows[i]
  BY <1>1, MadeAtMost
<1>4. \A i \in 1 .. Len(seat) : seat[i] = rows[i]
  BY <1>1, <1>6
<1>5. Len(rows) \in Nat
  BY DEF Made
<1> QED BY <1>1, <1>2, <1>3, <1>4, <1>5

\* The picker marks the entry this far down.
Marks(picker, light) ==
    \A i \in 1 .. Len(picker) : picker[i].at = i /\ (picker[i].chosen <=> i = light + 1)

\* The blocks around the body leave it a row, and a picker with no help below it
\* leaves three.
LEMMA SeatsFit ==
    ASSUME NEW s \in Known, NEW cols \in Nat \ {0}, NEW room \in Nat,
           NEW seats, seats = Seats(s, cols, room)
    PROVE  /\ Made(seats.diagnostic, {"sentence", "remedy"}, cols)
           /\ Made(seats.picker, {"picker"}, cols)
           /\ Made(seats.help, {"help"}, cols)
           /\ Len(seats.diagnostic) \in Nat /\ Len(seats.picker) \in Nat /\ Len(seats.help) \in Nat
           /\ seats.left \in Nat
           /\ Len(seats.diagnostic) + Len(seats.picker) + Len(seats.help) + seats.left = room
           /\ room > 0 => seats.left > 0
           /\ Len(seats.picker) > 0 /\ ~s.help => seats.left >= MinBody
           /\ Len(seats.picker) = s.offered => Marks(seats.picker, s.light)
<1> DEFINE diagnostic == Seated(Diagnostic(s, cols), room)
           under      == room - Len(diagnostic)
           offer      == Picker(s, under)
           picker     == Seated(offer, under)
           rest       == under - Len(picker)
           reference  == IF s.help THEN Rows("help", Len(Reference), Wide) ELSE <<>>
           help       == Seated(reference, rest)
<1>1. seats = [diagnostic |-> diagnostic, picker |-> picker, help |-> help, left |-> rest - Len(help)]
  BY DEF Seats
<1>2. s \in SnapshotType
  BY DEF Known
<1>3. Made(Diagnostic(s, cols), {"sentence", "remedy"}, cols)
  BY <1>2, DiagnosticIsMade
<1>4. /\ Made(diagnostic, {"sentence", "remedy"}, cols)
      /\ Len(diagnostic) \in Nat /\ Len(diagnostic) <= room
      /\ room > 0 => Len(diagnostic) < room
  <2> DEFINE wanted == Diagnostic(s, cols)
             names == {"sentence", "remedy"}
  <2>1. Made(wanted, names, cols) /\ diagnostic = Seated(wanted, room)
    BY <1>3
  <2> HIDE DEF wanted, names, diagnostic
  <2>2. Made(diagnostic, names, cols)
    BY <2>1, SeatedIs
  <2>3. Len(diagnostic) \in Nat /\ Len(diagnostic) <= room /\ (room > 0 => Len(diagnostic) < room)
    BY <2>1, SeatedIs
  <2> QED BY <2>2, <2>3 DEF names
<1> HIDE DEF diagnostic
<1>5. under \in Nat /\ (room > 0 => under > 0) /\ under = room - Len(diagnostic)
  BY <1>4
<1> HIDE DEF under
<1>6. /\ Made(offer, {"picker"}, cols) /\ Len(offer) \in Nat
      /\ Len(offer) > 0 => Len(offer) + MinBody <= under
      /\ Len(offer) = s.offered => \A i \in 1 .. Len(offer) :
            offer[i].at = i /\ (offer[i].chosen <=> i = s.light + 1)
  <2>1. Made(offer, {"picker"}, cols)
    BY <1>5, PickerIsMade
  <2>2. Len(offer) > 0 => Len(offer) + MinBody <= under
    BY <1>5, PickerIsMade
  <2>3. Len(offer) = s.offered => \A i \in 1 .. Len(offer) :
            offer[i].at = i /\ (offer[i].chosen <=> i = s.light + 1)
    BY SMTT(60), <1>5, PickerIsMade
  <2>4. Len(offer) \in Nat
    BY <2>1 DEF Made
  <2> QED BY <2>1, <2>2, <2>3, <2>4
<1> HIDE DEF offer
<1>7. /\ Made(picker, {"picker"}, cols) /\ Len(picker) = Len(offer) /\ Len(picker) <= under
      /\ under > 0 => Len(picker) < under
      /\ \A i \in 1 .. Len(picker) : picker[i] = offer[i]
  <2> DEFINE names == {"picker"}
  <2>1. Made(offer, names, cols) /\ picker = Seated(offer, under)
    BY <1>6
  <2>5. Len(offer) > 0 => Len(offer) + 1 <= under
    BY <1>5, <1>6 DEF MinBody
  <2> HIDE DEF names, picker
  <2>2. Made(picker, names, cols)
    BY <1>5, <2>1, SeatedIs
  <2>3. /\ Len(picker) \in Nat /\ Len(picker) <= under /\ (under > 0 => Len(picker) < under)
        /\ Len(picker) <= Len(offer) /\ (Len(offer) + 1 <= under => Len(picker) = Len(offer))
    BY <1>5, <2>1, SeatedIs
  <2>4. \A i \in 1 .. Len(picker) : picker[i] = offer[i]
    BY <1>5, <2>1, SeatedIs
  <2>6. Len(picker) = Len(offer)
    BY <1>5, <1>6, <2>3, <2>5
  <2> QED BY <2>2, <2>3, <2>4, <2>6 DEF names
<1> HIDE DEF picker
<1>8. rest \in Nat /\ (room > 0 => rest > 0) /\ (Len(picker) > 0 => rest >= MinBody)
      /\ rest = under - Len(picker)
  BY <1>5, <1>6, <1>7 DEF MinBody
<1> HIDE DEF rest
<1>9. Made(reference, {"help"}, cols) /\ (~s.help => Len(reference) = 0)
  <2>1. Len(Reference) \in Nat
    BY CatalogAssumption, LenProperties
  <2>2. Made(Rows("help", Len(Reference), Wide), {"help"}, cols)
    BY <2>1, RowsAreMade DEF Blocks, Told, Wide
  <2>3. Made(<<>>, {"help"}, cols) /\ Len(<<>>) = 0
    BY NoneIsMade
  <2> QED BY <2>2, <2>3
<1> HIDE DEF reference
<1>10. /\ Made(help, {"help"}, cols) /\ Len(help) \in Nat /\ Len(help) <= rest
       /\ rest > 0 => Len(help) < rest
       /\ ~s.help => Len(help) = 0
  <2> DEFINE names == {"help"}
  <2>1. Made(reference, names, cols) /\ help = Seated(reference, rest)
    BY <1>9
  <2> HIDE DEF names, help
  <2>2. Made(help, names, cols)
    BY <1>8, <2>1, SeatedIs
  <2>3. /\ Len(help) \in Nat /\ Len(help) <= rest /\ (rest > 0 => Len(help) < rest)
        /\ Len(help) <= Len(reference)
    BY <1>8, <2>1, SeatedIs
  <2> QED BY <1>9, <2>2, <2>3 DEF names
<1> HIDE DEF help
<1>11. seats.diagnostic = diagnostic /\ seats.picker = picker /\ seats.help = help
       /\ seats.left = rest - Len(help)
  BY <1>1
<1>12. rest - Len(help) \in Nat /\ (room > 0 => rest - Len(help) > 0)
  BY <1>8, <1>10
<1>13. Len(diagnostic) + Len(picker) + Len(help) + (rest - Len(help)) = room
  BY <1>4, <1>5, <1>6, <1>7, <1>8, <1>10
<1>14. Len(picker) > 0 /\ ~s.help => rest - Len(help) >= MinBody
  BY <1>8, <1>10 DEF MinBody
<1>15. Len(picker) = s.offered => Marks(picker, s.light)
  BY <1>6, <1>7 DEF Marks
<1> QED BY <1>4, <1>6, <1>7, <1>10, <1>11, <1>12, <1>13, <1>14, <1>15

Narrow(r, cols) == IF r.width <= cols THEN r ELSE [r EXCEPT !.width = cols, !.cut = TRUE]

LEMMA Narrowed ==
    ASSUME NEW cols \in Nat, NEW r \in RowType, r.cut = FALSE, r.block \in Told => r.width <= cols,
           NEW q, q = Narrow(r, cols)
    PROVE  /\ q \in RowType /\ q.block = r.block /\ q.at = r.at /\ q.chosen = r.chosen
           /\ q.width <= cols /\ (q.cut => q.block \notin Told)
<1>1. CASE r.width <= cols
  BY <1>1 DEF Narrow
<1>2. CASE ~(r.width <= cols)
  <2>1. r.block \notin Told /\ q = [r EXCEPT !.width = cols, !.cut = TRUE]
    BY <1>2 DEF Narrow
  <2>2. q.block = r.block /\ q.at = r.at /\ q.chosen = r.chosen /\ q.width = cols
    BY <2>1 DEF RowType
  <2>3. q \in RowType
    BY <2>1 DEF RowType
  <2> QED BY <2>1, <2>2, <2>3
<1> QED BY <1>1, <1>2

\* What is left of the rows after the last cut.
Cropped(lines, rows, cols, fit) ==
    /\ fit \in Seq(RowType)
    /\ Len(fit) = IF rows <= Len(lines) THEN rows ELSE Len(lines)
    /\ \A i \in 1 .. Len(fit) :
        /\ fit[i].block = lines[i].block /\ fit[i].at = lines[i].at
        /\ fit[i].chosen = lines[i].chosen
        /\ fit[i].width <= cols
        /\ fit[i].cut => fit[i].block \notin Told

\* The last cut narrows rows, but not what is wrapped.
LEMMA FittedFits ==
    ASSUME NEW lines, NEW names, NEW rows \in Nat, NEW cols \in Nat, Made(lines, names, cols),
           NEW fit, fit = Fitted(lines, rows, cols)
    PROVE  Cropped(lines, rows, cols, fit)
<1> DEFINE kept == AtMost(rows, lines)
           n == Len(kept)
<1>1. /\ Made(kept, names, cols) /\ n = (IF rows <= Len(lines) THEN rows ELSE Len(lines))
      /\ \A i \in 1 .. n : kept[i] = lines[i]
  <2> HIDE DEF n
  <2>1. Made(kept, names, cols)
    BY MadeAtMost
  <2>2. Len(kept) = (IF rows <= Len(lines) THEN rows ELSE Len(lines))
    BY MadeAtMost
  <2>3. \A i \in 1 .. Len(kept) : kept[i] = lines[i]
    BY MadeAtMost
  <2> QED BY <2>1, <2>2, <2>3 DEF n
<1> DEFINE row(i) == Narrow(kept[i], cols)
<1>2. n \in Nat /\ DOMAIN kept = 1 .. n /\ \A i \in 1 .. n : kept[i] \in RowType
  BY <1>1, ElementOfSeq DEF Made
<1>3. fit = [i \in 1 .. n |-> row(i)]
  BY <1>2 DEF Fitted, Narrow
<1> HIDE DEF kept, n
<1>5. ASSUME NEW i \in 1 .. n
      PROVE  /\ row(i) \in RowType
             /\ row(i).block = kept[i].block /\ row(i).at = kept[i].at /\ row(i).chosen = kept[i].chosen
             /\ row(i).width <= cols /\ (row(i).cut => row(i).block \notin Told)
  <2> DEFINE r == kept[i]
             q == row(i)
  <2>1. q = Narrow(r, cols)
    OBVIOUS
  <2>2. r \in RowType /\ r.cut = FALSE /\ (r.block \in Told => r.width <= cols)
    BY <1>1, <1>2 DEF Made, n
  <2> HIDE DEF r, q
  <2>3. /\ q \in RowType /\ q.block = r.block /\ q.at = r.at /\ q.chosen = r.chosen
        /\ q.width <= cols /\ (q.cut => q.block \notin Told)
    BY <2>1, <2>2, Narrowed
  <2> HIDE DEF row
  <2> QED BY <2>3 DEF r, q
<1> HIDE DEF row
<1>6. fit \in Seq(RowType) /\ Len(fit) = n
  <2>1. fit \in [1 .. n -> RowType]
    BY <1>3, <1>5
  <2> HIDE DEF RowType
  <2> QED BY <1>2, <2>1
<1>7. \A i \in 1 .. n : fit[i] = row(i)
  BY <1>3
<1> QED BY <1>1, <1>5, <1>6, <1>7 DEF Cropped

\* The rows between the top and the picker, part by part.
LEMMA FourTogether ==
    ASSUME NEW cols, NEW U, NEW a, NEW b, NEW c, NEW d,
           Made(a, U, cols), Made(b, U, cols), Made(c, U, cols), Made(d, U, cols),
           NEW whole, whole = a \o b \o c \o d
    PROVE  /\ Made(whole, U, cols)
           /\ Len(a) \in Nat /\ Len(b) \in Nat /\ Len(c) \in Nat /\ Len(d) \in Nat
           /\ Len(whole) = Len(a) + Len(b) + Len(c) + Len(d)
           /\ \A i \in 1 .. Len(c) : whole[Len(a) + Len(b) + i] = c[i]
<1> DEFINE ab  == a \o b
           abc == ab \o c
<1>1. whole = abc \o d /\ abc = ab \o c /\ ab = a \o b
  OBVIOUS
<1> HIDE DEF ab, abc
<1>2. U \cup U = U
  OBVIOUS
<1>3. Made(ab, U, cols) /\ Len(a) \in Nat /\ Len(b) \in Nat
  BY <1>1, <1>2, MadeBoth
<1>4. Len(ab) = Len(a) + Len(b)
  BY <1>1, MadeBoth
<1>5. Made(abc, U, cols) /\ Len(c) \in Nat
  BY <1>1, <1>2, <1>3, MadeBoth
<1>6. Len(abc) = Len(ab) + Len(c)
  BY <1>1, <1>3, MadeBoth
<1>7. \A i \in 1 .. Len(c) : abc[Len(ab) + i] = c[i]
  BY <1>1, <1>3, MadeBoth
<1>8. Made(whole, U, cols) /\ Len(d) \in Nat
  BY <1>1, <1>2, <1>5, MadeBoth
<1>9. Len(whole) = Len(abc) + Len(d)
  BY <1>1, <1>5, MadeBoth
<1>10. \A i \in 1 .. Len(abc) : whole[i] = abc[i]
  BY <1>1, <1>5, MadeBoth
<1>11. ASSUME NEW i \in 1 .. Len(c) PROVE whole[Len(a) + Len(b) + i] = c[i]
  <2>1. Len(a) + Len(b) + i \in 1 .. Len(abc)
    BY <1>3, <1>4, <1>5, <1>6
  <2>2. abc[Len(ab) + i] = c[i]
    BY <1>7
  <2> QED BY <1>4, <1>10, <2>1, <2>2
<1> QED BY <1>3, <1>4, <1>5, <1>6, <1>8, <1>9, <1>11

\* What stands above the prompt, and what of it is neither picker nor body.
UpperBlocks == {"header", "times", "sentence", "remedy", "status"} \cup BodyBlocks

\* The body is the `body` rows after the first `at`, and the picker what comes
\* after the first `base`.
Placed(s, cols, room, seats, status, above, body, at, base) ==
    /\ Made(above, UpperBlocks \cup {"picker"}, cols)
    /\ at = 3 + Len(seats.diagnostic)
    /\ base = at + body + status
    /\ Len(above) = base + Len(seats.picker)
    /\ body <= seats.left
    /\ room > 0 => body > 0
    /\ \A i \in 1 .. body : above[at + i].block \in BodyBlocks
    /\ Len(seats.picker) > 0 /\ ~s.help =>
        body >= MinBody \/ \E i \in 1 .. body : above[at + i].block = "level"
    /\ \A i \in 1 .. base : above[i].block \in UpperBlocks
    /\ \A i \in 1 .. Len(seats.picker) : above[base + i].block = "picker"
    /\ Len(seats.picker) = s.offered =>
        \A i \in 1 .. Len(seats.picker) :
            above[base + i].at = i /\ (above[base + i].chosen <=> i = s.light + 1)

LEMMA AboveIs ==
    ASSUME NEW s \in Known, NEW cols \in Nat \ {0}, NEW room \in Nat,
           NEW seats, seats = Seats(s, cols, room),
           NEW status, Made(status, {"status"}, cols),
           NEW above, above = Above(s, status, seats)
    PROVE  \E body \in Nat, at \in Nat, base \in Nat :
                Placed(s, cols, room, seats, Len(status), above, body, at, base)
<1> DEFINE a == Head3(s)
           b == seats.diagnostic
           c == IF s.panel = "Book" THEN Table(s, seats.left) ELSE Dashboard(s, seats.left)
           e == seats.picker
           A == {"header", "times"}
           B == {"sentence", "remedy"}
           C == BodyBlocks
           D == {"status"}
           E == {"picker"}
<1>1. s \in SnapshotType
  BY DEF Known
<1>2. Made(a, A, cols) /\ Len(a) = 3
  BY <1>1, HeadIsMade
<1>3. Made(b, B, cols) /\ Made(e, E, cols) /\ Len(b) \in Nat /\ Len(e) \in Nat /\ seats.left \in Nat
  BY SeatsFit
<1>4. (room > 0 => seats.left > 0) /\ (Len(e) > 0 /\ ~s.help => seats.left >= MinBody)
  BY SeatsFit
<1>5. Len(e) = s.offered => \A i \in 1 .. Len(e) : e[i].at = i /\ (e[i].chosen <=> i = s.light + 1)
  <2>1. Len(seats.picker) = s.offered => Marks(seats.picker, s.light)
    BY SeatsFit
  <2> HIDE DEF e
  <2>2. e = seats.picker
    BY DEF e
  <2> QED BY <2>1, <2>2 DEF Marks
<1>6. /\ Made(c, C, cols) /\ Len(c) <= seats.left
      /\ seats.left > 0 => Len(c) > 0
      /\ seats.left >= MinBody => Len(c) >= MinBody \/ \E i \in 1 .. Len(c) : c[i].block = "level"
  <2>1. CASE s.panel = "Book"
    <3> DEFINE table == Table(s, seats.left)
    <3>1. /\ Made(table, C, cols) /\ Len(table) <= seats.left
          /\ seats.left > 0 => Len(table) > 0
          /\ seats.left >= MinBody => \E i \in 1 .. Len(table) : table[i].block = "level"
      BY <1>1, <1>3, TableIsMade
    <3>2. c = table
      BY <2>1
    <3> HIDE DEF table, c
    <3> QED BY <3>1, <3>2
  <2>2. CASE s.panel # "Book"
    <3> DEFINE dashboard == Dashboard(s, seats.left)
    <3>1. /\ Made(dashboard, C, cols) /\ Len(dashboard) <= seats.left
          /\ seats.left > 0 => Len(dashboard) > 0
          /\ seats.left >= MinBody => Len(dashboard) >= MinBody
      BY <1>1, <1>3, DashboardIsMade
    <3>2. c = dashboard
      BY <2>2
    <3> HIDE DEF dashboard, c
    <3> QED BY <3>1, <3>2
  <2> QED BY <2>1, <2>2
<1>7. above = a \o b \o c \o status \o e
  BY DEF Above
<1>28. E = {"picker"}
  OBVIOUS
<1>29. /\ Made(a, UpperBlocks, cols) /\ Made(b, UpperBlocks, cols) /\ Made(c, UpperBlocks, cols)
       /\ Made(status, UpperBlocks, cols)
  <2>1. A \subseteq UpperBlocks /\ B \subseteq UpperBlocks /\ C \subseteq UpperBlocks /\ D \subseteq UpperBlocks
    BY DEF UpperBlocks
  <2>2. Made(status, D, cols)
    OBVIOUS
  <2> HIDE DEF a, b, c, A, B, C, D
  <2> QED BY <1>2, <1>3, <1>6, <2>1, <2>2, MadeMore
<1>30. Made(e, E, cols)
  BY <1>3
<1> HIDE DEF a, b, c, e, A, B, C, D, E
<1> DEFINE four == a \o b \o c \o status
<1>31. above = four \o e /\ four = a \o b \o c \o status
  BY <1>7
<1> HIDE DEF four
<1>14. Made(four, UpperBlocks, cols)
  BY <1>29, <1>31, FourTogether
<1>32. /\ Len(a) \in Nat /\ Len(b) \in Nat /\ Len(c) \in Nat /\ Len(status) \in Nat
       /\ Len(four) = Len(a) + Len(b) + Len(c) + Len(status)
  BY <1>29, <1>31, FourTogether
<1>33. \A i \in 1 .. Len(c) : four[Len(a) + Len(b) + i] = c[i]
  BY <1>29, <1>31, FourTogether
<1>10. Made(above, UpperBlocks \cup E, cols)
  BY <1>14, <1>30, <1>31, MadeBoth
<1>34. Len(above) = Len(four) + Len(e)
  BY <1>14, <1>30, <1>31, MadeBoth
<1>35. \A i \in 1 .. Len(four) : above[i] = four[i]
  BY <1>14, <1>30, <1>31, MadeBoth
<1>36. \A i \in 1 .. Len(e) : above[Len(four) + i] = e[i]
  BY <1>14, <1>30, <1>31, MadeBoth
<1>11. /\ Len(status) \in Nat /\ Len(c) \in Nat
       /\ Len(above) = Len(a) + Len(b) + Len(c) + Len(status) + Len(e)
  BY <1>32, <1>34
<1>12. ASSUME NEW i \in 1 .. Len(c) PROVE above[Len(a) + Len(b) + i] = c[i]
  <2>1. Len(a) + Len(b) + i \in 1 .. Len(four)
    BY <1>32
  <2> QED BY <1>33, <1>35, <2>1
<1>13. \A i \in 1 .. Len(e) : above[Len(a) + Len(b) + Len(c) + Len(status) + i] = e[i]
  BY <1>32, <1>36
<1> DEFINE body == Len(c)
           at   == 3 + Len(b)
           base == at + body + Len(status)
<1>15. body \in Nat /\ at \in Nat /\ base \in Nat /\ at = Len(a) + Len(b)
       /\ base = Len(a) + Len(b) + Len(c) + Len(status)
  BY <1>2, <1>3, <1>11
<1>16. Made(above, UpperBlocks \cup {"picker"}, cols)
  BY <1>10, <1>28
<1>17. Len(above) = base + Len(e)
  BY <1>11, <1>15
<1>18. body <= seats.left /\ (room > 0 => body > 0)
  BY <1>4, <1>6
<1>19. \A i \in 1 .. body : above[at + i] = c[i]
  BY <1>12, <1>15
<1>20. \A i \in 1 .. body : above[at + i].block \in BodyBlocks
  BY <1>6, <1>19 DEF Made, C
<1>21. Len(e) > 0 /\ ~s.help => body >= MinBody \/ \E i \in 1 .. body : above[at + i].block = "level"
  BY <1>4, <1>6, <1>19
<1>22. \A i \in 1 .. base : above[i].block \in UpperBlocks
  BY <1>14, <1>15, <1>32, <1>35 DEF Made
<1>23. \A i \in 1 .. Len(e) : above[base + i] = e[i]
  BY <1>13, <1>15
<1>24. \A i \in 1 .. Len(e) : above[base + i].block = "picker"
  BY <1>23, <1>28, <1>30 DEF Made
<1>25. Len(e) = s.offered =>
            \A i \in 1 .. Len(e) : above[base + i].at = i /\ (above[base + i].chosen <=> i = s.light + 1)
  BY <1>5, <1>23
<1>26. at = 3 + Len(b) /\ base = at + body + Len(status)
  OBVIOUS
<1> HIDE DEF body, at, base
<1>27. Placed(s, cols, room, seats, Len(status), above, body, at, base)
  BY <1>16, <1>17, <1>18, <1>20, <1>21, <1>22, <1>24, <1>25, <1>26 DEF Placed, b, e
<1> QED BY <1>15, <1>27

LEMMA PromptIsMade ==
    ASSUME NEW s \in SnapshotType, NEW cols
    PROVE  Made(Prompt(s), {"prompt"}, cols) /\ Len(Prompt(s)) = IF s.mode = "Remote" THEN 0 ELSE 1
<1> DEFINE width == IF s.mode = "Local" THEN 2 + s.input ELSE 44
           r == Row("prompt", 1, width)
<1>1. width \in Nat
  BY DEF SnapshotType
<1> HIDE DEF width
<1>2. r \in RowType /\ r.block = "prompt"
  BY <1>1 DEF Row, RowType, Blocks
<1>3. r.cut = FALSE
  BY DEF Row
<1>4. Prompt(s) = IF s.mode = "Remote" THEN <<>> ELSE <<r>>
  BY DEF Prompt, width
<1> HIDE DEF r
<1>5. Made(<<r>>, {"prompt"}, cols) /\ Len(<<r>>) = 1
  BY <1>2, <1>3, OneIsMade DEF Told
<1>6. Made(<<>>, {"prompt"}, cols) /\ Len(<<>>) = 0
  BY NoneIsMade
<1> DEFINE one == <<r>>
<1>7. Prompt(s) = IF s.mode = "Remote" THEN <<>> ELSE one
  BY <1>4
<1>8. Made(one, {"prompt"}, cols) /\ Len(one) = 1
  BY <1>5
<1> HIDE DEF one
<1> QED BY <1>6, <1>7, <1>8

\* The rows of a frame that is composed, before the last cut.
Shape(rows, cols, above, prompt, help, lines) ==
    /\ Made(lines, UpperBlocks \cup {"picker"} \cup {"prompt"} \cup {"help"}, cols)
    /\ Len(lines) = Len(above) + prompt + help
    /\ \A i \in 1 .. Len(above) : lines[i] = above[i]
    /\ \A i \in 1 .. Len(lines) : lines[i].block = "prompt" <=> prompt = 1 /\ i = Len(above) + 1
    /\ \A i \in Len(above) + 1 .. Len(lines) : lines[i].block \in {"prompt", "help"}

LEMMA ShapeIs ==
    ASSUME NEW rows, NEW cols, NEW above, Made(above, UpperBlocks \cup {"picker"}, cols),
           NEW prompt, Made(prompt, {"prompt"}, cols), Len(prompt) \in {0, 1},
           NEW help, Made(help, {"help"}, cols),
           NEW lines, lines = above \o prompt \o help
    PROVE  Shape(rows, cols, above, Len(prompt), Len(help), lines)
<1> DEFINE U == UpperBlocks \cup {"picker"}
           P == {"prompt"}
           H == {"help"}
           up == above \o prompt
<1>1. Made(above, U, cols) /\ Made(prompt, P, cols) /\ Made(help, H, cols)
  OBVIOUS
<1>2. lines = up \o help /\ up = above \o prompt
  OBVIOUS
<1>3. "prompt" \notin U
  BY DEF UpperBlocks, BodyBlocks
<1>4. P = {"prompt"} /\ H = {"help"} /\ U = UpperBlocks \cup {"picker"}
  OBVIOUS
<1> HIDE DEF U, P, H, up
<1>5. Made(up, U \cup P, cols) /\ Len(above) \in Nat /\ Len(prompt) \in Nat
  BY <1>1, <1>2, MadeBoth
<1>6. Len(up) = Len(above) + Len(prompt)
  BY <1>1, <1>2, MadeBoth
<1>7. \A i \in 1 .. Len(above) : up[i] = above[i]
  BY <1>1, <1>2, MadeBoth
<1>8. \A i \in 1 .. Len(prompt) : up[Len(above) + i] = prompt[i]
  BY <1>1, <1>2, MadeBoth
<1>9. Made(lines, (U \cup P) \cup H, cols) /\ Len(help) \in Nat
  BY <1>1, <1>2, <1>5, MadeBoth
<1>10. Len(lines) = Len(up) + Len(help)
  BY <1>1, <1>2, <1>5, MadeBoth
<1>11. \A i \in 1 .. Len(up) : lines[i] = up[i]
  BY <1>1, <1>2, <1>5, MadeBoth
<1>12. \A i \in 1 .. Len(help) : lines[Len(up) + i] = help[i]
  BY <1>1, <1>2, <1>5, MadeBoth
<1>13. ASSUME NEW i \in 1 .. Len(above) PROVE lines[i] = above[i]
  <2>1. i \in 1 .. Len(up)
    BY <1>5, <1>6
  <2> QED BY <1>7, <1>11, <2>1
<1>14. ASSUME NEW i \in 1 .. Len(above) PROVE lines[i].block # "prompt"
  <2>1. above[i].block \in U
    BY <1>1 DEF Made
  <2> QED BY <1>3, <1>13, <2>1
<1>15. ASSUME Len(prompt) = 1 PROVE Len(above) + 1 \in 1 .. Len(lines) /\ lines[Len(above) + 1].block = "prompt"
  <2>1. 1 \in 1 .. Len(prompt) /\ Len(above) + 1 \in 1 .. Len(up) /\ Len(above) + 1 \in 1 .. Len(lines)
    BY <1>5, <1>6, <1>9, <1>10, <1>15
  <2>2. lines[Len(above) + 1] = prompt[1]
    BY <1>8, <1>11, <2>1
  <2>3. prompt[1].block \in P
    BY <1>1, <2>1 DEF Made
  <2> QED BY <1>4, <2>1, <2>2, <2>3
<1>16. ASSUME NEW i \in Len(up) + 1 .. Len(lines) PROVE lines[i].block = "help"
  <2>1. i - Len(up) \in 1 .. Len(help) /\ Len(up) + (i - Len(up)) = i
    BY <1>5, <1>6, <1>9, <1>10
  <2>2. lines[i] = help[i - Len(up)]
    BY <1>12, <2>1
  <2>3. help[i - Len(up)].block \in H
    BY <1>1, <2>1 DEF Made
  <2> QED BY <1>4, <2>2, <2>3
<1>17. ASSUME NEW i \in 1 .. Len(lines)
       PROVE  lines[i].block = "prompt" <=> Len(prompt) = 1 /\ i = Len(above) + 1
  <2>1. CASE i <= Len(above)
    <3>1. i \in 1 .. Len(above) /\ i # Len(above) + 1
      BY <1>5, <2>1
    <3> QED BY <1>14, <3>1
  <2>2. CASE i > Len(above) /\ i <= Len(up)
    <3>1. Len(prompt) = 1 /\ i = Len(above) + 1
      BY <1>5, <1>6, <2>2
    <3> QED BY <1>15, <3>1
  <2>3. CASE i > Len(up)
    <3>2. i \in Len(up) + 1 .. Len(lines)
      BY <1>5, <1>6, <1>9, <1>10, <2>3
    <3>3. ASSUME Len(prompt) = 1, i = Len(above) + 1 PROVE FALSE
      BY <1>5, <1>6, <2>3, <3>3
    <3>1. i \in Len(up) + 1 .. Len(lines) /\ ~(Len(prompt) = 1 /\ i = Len(above) + 1)
      BY <3>2, <3>3
    <3> QED BY <1>16, <3>1
  <2> QED BY <1>5, <1>6, <2>1, <2>2, <2>3
<1>18. ASSUME NEW i \in Len(above) + 1 .. Len(lines) PROVE lines[i].block \in {"prompt", "help"}
  <2>1. CASE i <= Len(up)
    <3>1. Len(prompt) = 1 /\ i = Len(above) + 1 /\ i \in 1 .. Len(lines)
      BY <1>5, <1>6, <1>9, <1>10, <2>1
    <3> QED BY <1>15, <3>1
  <2>2. CASE i > Len(up)
    <3>1. i \in Len(up) + 1 .. Len(lines)
      BY <1>5, <1>6, <1>9, <1>10, <2>2
    <3> QED BY <1>16, <3>1
  <2> QED BY <1>5, <1>6, <2>1, <2>2
<1>19. Made(lines, UpperBlocks \cup {"picker"} \cup {"prompt"} \cup {"help"}, cols)
  BY <1>4, <1>9
<1>20. Len(lines) = Len(above) + Len(prompt) + Len(help)
  BY <1>6, <1>10
<1> QED BY <1>13, <1>17, <1>18, <1>19, <1>20 DEF Shape

\* A frame that was composed for a size fits it.
LEMMA ComposedFits ==
    ASSUME cmSnapshot \in Known, cmSize \in SizeType, cmFrame = Composed(cmSnapshot, cmSize)
    PROVE  /\ StaysInside /\ NobodyIsSqueezedOut /\ CursorIsAtThePrompt
           /\ cmFrame.rows \in Seq(RowType)
<1> DEFINE s      == cmSnapshot
           cols   == Max({cmSize.cols, 20})
           rows   == Max({cmSize.rows, 4})
           status == AtMost(StatusRows, Wrapped("status", s.status, cols))
           prompt == Prompt(s)
           room   == Less(rows, Len(Head3(s)) + Len(prompt) + Len(status))
           seats  == Seats(s, cols, room)
           above  == Above(s, status, seats)
           lines  == above \o prompt \o seats.help
           fit    == Fitted(lines, rows, cols)
           n      == Len(fit)
           inside == s.mode = "Local" /\ Len(above) + 1 <= n
<1>1. /\ s \in Known /\ s \in SnapshotType
      /\ cols = Max({cmSize.cols, 20}) /\ rows = Max({cmSize.rows, 4})
  BY DEF Known
<1>2. /\ cols \in Nat \ {0} /\ cols >= 20
      /\ rows \in Nat /\ rows >= 4 /\ cmSize.rows <= rows
  <2>1. cmSize.rows \in Nat /\ cmSize.cols \in Nat
    BY DEF SizeType
  <2> QED BY <2>1, MaxOfTwo
<1>3. cmFrame = [rows |-> fit, room |-> room,
                 cursor |-> IF inside THEN <<Len(above) + 1, 3 + Min({s.input, cols - 3})>> ELSE <<>>]
  BY DEF Composed, Laid
<1>4. /\ cmFrame.rows = fit /\ cmFrame.room = room
      /\ cmFrame.cursor = IF inside THEN <<Len(above) + 1, 3 + Min({s.input, cols - 3})>> ELSE <<>>
  BY <1>3
<1>28. s = cmSnapshot
  OBVIOUS
<1> HIDE DEF s, cols, rows
<1>5. Made(status, {"status"}, cols) /\ Len(status) \in 0 .. 2
  <2> DEFINE all == Wrapped("status", s.status, cols)
  <2>1. s.status \in Seq(Nat) /\ "status" \in Blocks
    BY <1>1 DEF SnapshotType, Blocks
  <2>2. Made(all, {"status"}, cols)
    BY <1>2, <2>1, WrappedIsMade
  <2> HIDE DEF all
  <2>3. Made(AtMost(2, all), {"status"}, cols)
    BY <2>2, MadeAtMost
  <2>4. Len(AtMost(2, all)) = IF 2 <= Len(all) THEN 2 ELSE Len(all)
    BY <2>2, MadeAtMost
  <2>5. Len(all) \in Nat
    BY <2>2 DEF Made
  <2>6. status = AtMost(2, all)
    BY DEF all, StatusRows
  <2> HIDE DEF status
  <2> DEFINE m == Len(AtMost(2, all))
             k == Len(all)
  <2>8. k \in Nat /\ m = IF 2 <= k THEN 2 ELSE k
    BY <2>4, <2>5
  <2> HIDE DEF m, k
  <2>9. m \in 0 .. 2
    BY <2>8
  <2>7. Len(AtMost(2, all)) \in 0 .. 2
    BY <2>9 DEF m
  <2> QED BY <2>3, <2>6, <2>7
<1> HIDE DEF status
<1>6. Made(prompt, {"prompt"}, cols) /\ Len(prompt) = (IF s.mode = "Remote" THEN 0 ELSE 1)
  BY <1>1, PromptIsMade
<1> HIDE DEF prompt
<1>7. room \in Nat /\ room = IF rows > 3 + Len(prompt) + Len(status) THEN rows - (3 + Len(prompt) + Len(status)) ELSE 0
  <2>1. Len(Head3(s)) = 3
    BY <1>1, HeadIsMade
  <2>2. Len(status) \in Nat /\ Len(prompt) \in Nat
    BY <1>5, <1>6
  <2> DEFINE n3 == 3 + Len(prompt) + Len(status)
  <2>3. room = Less(rows, n3)
    BY <2>1
  <2>4. n3 \in Nat
    BY <2>2
  <2> HIDE DEF n3, room
  <2>5. room \in Nat /\ room = IF rows > n3 THEN rows - n3 ELSE 0
    BY <1>2, <2>3, <2>4 DEF Less
  <2> QED BY <2>5 DEF n3
<1> HIDE DEF room
<1> DEFINE d == Len(seats.diagnostic)
           p == Len(seats.picker)
           h == Len(seats.help)
<1>8. seats = Seats(s, cols, room)
  OBVIOUS
<1> HIDE DEF seats
<1>29. s \in Known /\ cols \in Nat \ {0} /\ room \in Nat
  BY <1>1, <1>2, <1>7
<1>9. Made(seats.help, {"help"}, cols)
  BY <1>8, <1>29, SeatsFit
<1>10. /\ d \in Nat /\ p \in Nat /\ h \in Nat /\ seats.left \in Nat
       /\ d + p + h + seats.left = room
  <2>1. Len(seats.diagnostic) + Len(seats.picker) + Len(seats.help) + seats.left = room
    BY <1>8, <1>29, SeatsFit
  <2>2. /\ Len(seats.diagnostic) \in Nat /\ Len(seats.picker) \in Nat /\ Len(seats.help) \in Nat
        /\ seats.left \in Nat
    BY <1>8, <1>29, SeatsFit
  <2> QED BY <2>1, <2>2
<1>11. above = Above(s, status, seats)
  OBVIOUS
<1> HIDE DEF above
<1>12. PICK body \in Nat, at \in Nat, base \in Nat :
            Placed(s, cols, room, seats, Len(status), above, body, at, base)
  BY <1>1, <1>2, <1>5, <1>7, <1>8, <1>11, AboveIs
<1>13. Shape(rows, cols, above, Len(prompt), h, lines)
  <2>1. Made(above, UpperBlocks \cup {"picker"}, cols)
    BY <1>12 DEF Placed
  <2>2. Len(prompt) \in {0, 1}
    BY <1>6
  <2> QED BY <1>6, <1>9, <2>1, <2>2, ShapeIs
<1> DEFINE names == UpperBlocks \cup {"picker"} \cup {"prompt"} \cup {"help"}
<1>14. Made(lines, names, cols) /\ Len(lines) \in Nat
  <2>1. Made(lines, names, cols)
    BY <1>13 DEF Shape
  <2> HIDE DEF lines, names
  <2>2. lines \in Seq(RowType)
    BY <2>1 DEF Made
  <2>3. Len(lines) \in Nat
    BY <2>2, LenProperties
  <2> QED BY <2>1, <2>3
<1>15. fit = Fitted(lines, rows, cols)
  OBVIOUS
<1> HIDE DEF lines, names, fit
<1>38. Cropped(lines, rows, cols, fit)
  <2>1. rows \in Nat /\ cols \in Nat /\ Made(lines, names, cols)
    BY <1>2, <1>14
  <2> QED BY <2>1, <1>15, FittedFits
<1>16. fit \in Seq(RowType) /\ n = (IF rows <= Len(lines) THEN rows ELSE Len(lines))
  BY <1>38 DEF Cropped
<1>17. \A i \in 1 .. n :
            /\ fit[i].block = lines[i].block /\ fit[i].at = lines[i].at
            /\ fit[i].chosen = lines[i].chosen
            /\ fit[i].width <= cols
            /\ fit[i].cut => fit[i].block \notin Told
  BY <1>38 DEF Cropped
<1>18. n \in Nat /\ DOMAIN cmFrame.rows = 1 .. n
  BY <1>2, <1>4, <1>14, <1>16
<1>19. /\ at = 3 + d /\ base = at + body + Len(status) /\ Len(above) = base + p
       /\ Len(above) \in Nat
       /\ body <= seats.left /\ Len(lines) = Len(above) + Len(prompt) + h
  <2>1. at = 3 + d /\ base = at + body + Len(status) /\ Len(above) = base + p /\ body <= seats.left
    BY <1>12 DEF Placed
  <2>2. Len(lines) = Len(above) + Len(prompt) + h
    BY <1>13 DEF Shape
  <2>3. p \in Nat
    BY <1>10
  <2> HIDE DEF p, d, h
  <2> QED BY <2>1, <2>2, <2>3
<1> HIDE DEF n, d, p, h
<1>21. room > 0 => n = Len(lines)
  BY <1>2, <1>5, <1>6, <1>7, <1>10, <1>16, <1>19 DEF n
<1>22. room = 0 => p = 0 /\ h = 0 /\ Len(above) = 3 + Len(status)
  BY <1>5, <1>10, <1>19
<1>23. rows >= 6 => n = Len(lines)
  <2> DEFINE all == Len(lines)
             pr  == Len(prompt)
             st  == Len(status)
             up  == Len(above)
  <2>1. /\ all \in Nat /\ all = up + pr + h /\ pr \in 0 .. 1 /\ st \in 0 .. 2
        /\ n = (IF rows <= all THEN rows ELSE all)
    BY <1>5, <1>6, <1>14, <1>16, <1>19 DEF n
  <2>2. room = 0 => h = 0 /\ up = 3 + st
    BY <1>22
  <2>3. room # 0 => n = all
    BY <1>7, <1>21
  <2> HIDE DEF all, pr, st, up
  <2>4. rows >= 6 => n = all
    BY <1>2, <2>1, <2>2, <2>3
  <2> QED BY <2>4 DEF all
<1>24. Drawn("prompt") = IF Len(prompt) = 1 /\ Len(above) + 1 <= n THEN {Len(above) + 1} ELSE {}
  <2>1. \A i \in 1 .. n : i \in 1 .. Len(lines)
    BY <1>2, <1>14, <1>16 DEF n
  <2>2. \A i \in 1 .. n : fit[i].block = "prompt" <=> Len(prompt) = 1 /\ i = Len(above) + 1
    BY <1>13, <1>17, <2>1 DEF Shape
  <2>3. Drawn("prompt") = {i \in 1 .. n : fit[i].block = "prompt"}
    BY <1>4, <1>18 DEF Drawn
  <2>4. Len(above) + 1 <= n => Len(above) + 1 \in 1 .. n
    BY SMTT(60), <1>18, <1>19
  <2> QED BY <2>2, <2>3, <2>4
<1>25. StaysInside
  <2>1. Len(cmFrame.rows) <= Max({cmSize.rows, 4})
    BY <1>1, <1>2, <1>4, <1>14, <1>16 DEF n
  <2>2. ASSUME NEW i \in DOMAIN cmFrame.rows
        PROVE  /\ cmFrame.rows[i].width <= Max({cmSize.cols, 20})
               /\ cmFrame.rows[i].cut => cmFrame.rows[i].block \notin {"sentence", "remedy", "status"}
    <3>1. i \in 1 .. n /\ cmFrame.rows[i] = fit[i]
      BY <1>4, <1>18
    <3>2. fit[i].width <= cols
      BY <1>17, <3>1
    <3>3. fit[i].cut => fit[i].block \notin Told
      BY <1>17, <3>1
    <3> QED BY <1>1, <3>1, <3>2, <3>3 DEF Told
  <2> QED BY <2>1, <2>2 DEF StaysInside
<1> DEFINE la == Len(above)
           pr == Len(prompt)
           st == Len(status)
           all == Len(lines)
<1>31. /\ la \in Nat /\ pr \in 0 .. 1 /\ st \in Nat /\ all \in Nat /\ d \in Nat /\ p \in Nat /\ h \in Nat
       /\ body \in Nat /\ at \in Nat /\ base \in Nat /\ n \in Nat
       /\ at = 3 + d /\ base = at + body + st /\ la = base + p /\ all = la + pr + h
       /\ pr = IF s.mode = "Remote" THEN 0 ELSE 1
       /\ room > 0 => n = all
       /\ rows >= 6 => n = all
       /\ n <= all
       /\ p > 0 => room > 0
  <2>1. la \in Nat /\ at = 3 + d /\ base = at + body + st /\ la = base + p /\ all = la + pr + h
    BY <1>19
  <2>2. d \in Nat /\ p \in Nat /\ h \in Nat
    BY <1>10 DEF d, p, h
  <2>3. pr \in 0 .. 1 /\ pr = IF s.mode = "Remote" THEN 0 ELSE 1
    BY <1>6
  <2>4. st \in Nat
    BY <1>5
  <2>5. all \in Nat
    BY <1>14
  <2>6. n \in Nat /\ n <= all
    BY <1>2, <1>14, <1>16 DEF n
  <2>7. p > 0 => room > 0
    BY <1>7, <1>22, <2>2
  <2> HIDE DEF la, pr, st
  <2> QED BY <1>21, <1>23, <2>1, <2>2, <2>3, <2>4, <2>5, <2>6, <2>7
<1> HIDE DEF la, pr, st, all
<1>30. ASSUME room > 0, NEW j \in 1 .. la
       PROVE  /\ j \in 1 .. n /\ fit[j].block = above[j].block /\ fit[j].at = above[j].at
              /\ fit[j].chosen = above[j].chosen
  <2>1. j \in 1 .. n
    BY <1>30, <1>31
  <2>2. lines[j] = above[j]
    BY <1>13 DEF Shape, la
  <2> QED BY <1>17, <2>1, <2>2 DEF n
<1>32. Body = {i \in 1 .. n : fit[i].block \in BodyBlocks}
  BY <1>4, <1>18 DEF Body, Drawn, BodyBlocks
<1>33. ASSUME NEW i \in Drawn("picker") PROVE room > 0 /\ i - base \in 1 .. p
  <2>1. i \in 1 .. n /\ fit[i].block = "picker"
    BY <1>4, <1>18 DEF Drawn
  <2>2. lines[i].block = "picker" /\ i \in 1 .. all
    BY <1>17, <1>31, <2>1 DEF n
  <2>3. ~(i > la)
    <3>1. ASSUME i > la PROVE FALSE
      <4>1. i \in la + 1 .. all
        BY <1>31, <2>2, <3>1
      <4>2. lines[i].block \in {"prompt", "help"}
        BY <1>13, <4>1 DEF Shape, la, all
      <4> QED BY <2>2, <4>2
    <3> QED BY <3>1
  <2>4. lines[i] = above[i]
    <3>1. i \in 1 .. la
      BY <1>31, <2>1, <2>3
    <3> QED BY <1>13, <3>1 DEF Shape, la
  <2>5. ~(i <= base)
    <3>1. ASSUME i <= base PROVE FALSE
      <4>1. i \in 1 .. base
        BY <1>31, <2>1, <3>1
      <4>2. above[i].block \in UpperBlocks
        BY <1>12, <4>1 DEF Placed
      <4> QED BY <2>2, <2>4, <4>2 DEF UpperBlocks, BodyBlocks
    <3> QED BY <3>1
  <2> QED BY <1>31, <2>1, <2>3, <2>5
<1>34. ASSUME NEW k \in 1 .. p PROVE base + k \in Drawn("picker")
  <2>1. base + k \in 1 .. la /\ room > 0
    BY <1>31
  <2>2. above[base + k].block = "picker"
    BY <1>12 DEF Placed, p
  <2>3. base + k \in 1 .. n /\ fit[base + k].block = "picker"
    BY <1>30, <2>1, <2>2
  <2> QED BY <1>4, <1>18, <2>3 DEF Drawn
<1>35. Drawn("picker") = base + 1 .. base + p
  <2>1. ASSUME NEW i \in Drawn("picker") PROVE i \in base + 1 .. base + p
    <3>1. i - base \in 1 .. p /\ i \in Int
      BY <1>4, <1>18, <1>33 DEF Drawn
    <3> QED BY <1>31, <3>1
  <2>2. ASSUME NEW i \in base + 1 .. base + p PROVE i \in Drawn("picker")
    <3>1. i - base \in 1 .. p /\ base + (i - base) = i
      BY <1>31
    <3>2. base + (i - base) \in Drawn("picker")
      BY <1>34, <3>1
    <3> QED BY <3>1, <3>2
  <2> QED BY <2>1, <2>2
<1>36. Cardinality(Drawn("picker")) = p
  <2>1. base + 1 \in Int /\ base + p \in Int /\ (base + p) - (base + 1) + 1 = p
    BY <1>31
  <2>2. Cardinality(base + 1 .. base + p) = IF base + 1 > base + p THEN 0 ELSE (base + p) - (base + 1) + 1
    BY <2>1, FS_Interval
  <2>3. ~(base + 1 > base + p) \/ p = 0
    BY <1>31
  <2> QED BY <1>31, <1>35, <2>1, <2>2, <2>3
<1>26. NobodyIsSqueezedOut
  <2>1. ASSUME cmSize.rows >= 6, s.mode # "Remote" PROVE Drawn("prompt") # {}
    <3>1. cmSize.rows \in Nat
      BY DEF SizeType
    <3>2. rows >= 6
      BY <1>2, <2>1, <3>1
    <3>3. pr = 1 /\ la + 1 <= n
      BY <1>31, <2>1, <3>2
    <3> QED BY <1>24, <3>3 DEF la, pr
  <2>2. ASSUME room > 0 PROVE Body # {}
    <3>1. 1 \in 1 .. body /\ at + 1 \in 1 .. la
      <4>1. body > 0
        BY <1>12, <2>2 DEF Placed
      <4> QED BY <1>31, <4>1
    <3>2. above[at + 1].block \in BodyBlocks
      BY <1>12, <3>1 DEF Placed
    <3> QED BY <1>30, <1>32, <2>2, <3>1, <3>2
  <2>3. ASSUME Drawn("picker") # {}, ~s.help
        PROVE  Cardinality(Body) >= MinBody \/ Drawn("level") # {}
    <3>1. p > 0 /\ room > 0
      <4>1. PICK i : i \in Drawn("picker")
        BY <2>3
      <4> QED BY <1>31, <1>33, <4>1
    <3>2. body >= MinBody \/ \E i \in 1 .. body : above[at + i].block = "level"
      BY <1>12, <2>3, <3>1 DEF Placed, p
    <3>3. \A i \in 1 .. body : at + i \in 1 .. la
      BY <1>31
    <3>4. CASE \E i \in 1 .. body : above[at + i].block = "level"
      <4>1. PICK i \in 1 .. body : above[at + i].block = "level"
        BY <3>4
      <4>2. at + i \in 1 .. n /\ fit[at + i].block = "level"
        BY <1>30, <3>1, <3>3, <4>1
      <4> QED BY <1>4, <1>18, <4>2 DEF Drawn
    <3>5. CASE body >= MinBody
      <4>1. at + 1 .. at + body \subseteq Body
        <5>1. ASSUME NEW j \in at + 1 .. at + body PROVE j \in Body
          <6>1. j - at \in 1 .. body /\ at + (j - at) = j
            BY <1>31
          <6>2. j \in 1 .. la /\ above[j].block \in BodyBlocks
            <7>1. above[at + (j - at)].block \in BodyBlocks
              BY <1>12, <6>1 DEF Placed
            <7>2. at + (j - at) \in 1 .. la
              BY <3>3, <6>1
            <7> QED BY <6>1, <7>1, <7>2
          <6> QED BY <1>30, <1>32, <3>1, <6>2
        <5> QED BY <5>1
      <4>2. IsFiniteSet(Body)
        <5>1. Body \subseteq 1 .. n /\ IsFiniteSet(1 .. n)
          BY <1>31, <1>32, FS_Interval
        <5> QED BY <5>1, FS_Subset
      <4>3. Cardinality(at + 1 .. at + body) = body
        <5>1. at + 1 \in Int /\ at + body \in Int /\ ~(at + 1 > at + body) /\ (at + body) - (at + 1) + 1 = body
          BY <1>31, <3>5 DEF MinBody
        <5>2. Cardinality(at + 1 .. at + body) = IF at + 1 > at + body THEN 0 ELSE (at + body) - (at + 1) + 1
          BY <5>1, FS_Interval
        <5> QED BY <5>1, <5>2
      <4>4. Cardinality(at + 1 .. at + body) <= Cardinality(Body)
        BY <4>1, <4>2, FS_Subset
      <4>5. Cardinality(Body) \in Nat
        BY <4>2, FS_CardinalityType
      <4> QED BY <3>5, <4>3, <4>4, <4>5 DEF MinBody
    <3> QED BY <3>2, <3>4, <3>5
  <2> QED BY <1>4, <1>28, <2>1, <2>2, <2>3 DEF NobodyIsSqueezedOut
<1>27. CursorIsAtThePrompt
  <2> DEFINE column == 3 + Min({s.input, cols - 3})
             place == <<Len(above) + 1, column>>
  <2>1. place # <<>> /\ place[1] = la + 1 /\ place[2] = column
    BY DEF la
  <2>2. column = Min({3 + s.input, Max({cmSize.cols, 20})})
    <3>1. s.input \in Nat
      BY <1>1 DEF SnapshotType
    <3>2. Min({s.input, cols - 3}) = IF s.input <= cols - 3 THEN s.input ELSE cols - 3
      BY <1>2, <3>1, MinOfTwo
    <3>3. Min({3 + s.input, cols}) = IF 3 + s.input <= cols THEN 3 + s.input ELSE cols
      BY <1>2, <3>1, MinOfTwo
    <3>4. column = Min({3 + s.input, cols})
      BY <1>2, <3>1, <3>2, <3>3
    <3> QED BY <1>1, <3>4
  <2>3. cmFrame.cursor = IF inside THEN place ELSE <<>>
    BY <1>4
  <2>4. inside <=> s.mode = "Local" /\ la + 1 <= n
    BY DEF la
  <2> HIDE DEF place, column, inside
  <2>5. ASSUME cmFrame.cursor # <<>>
        PROVE  /\ Drawn("prompt") = {cmFrame.cursor[1]}
               /\ cmFrame.cursor[2] = Min({3 + s.input, Max({cmSize.cols, 20})})
    <3>1. cmFrame.cursor = place /\ s.mode = "Local" /\ la + 1 <= n
      BY <2>3, <2>4, <2>5
    <3>2. pr = 1
      BY <1>31, <3>1
    <3>3. Drawn("prompt") = {la + 1}
      BY <1>24, <3>1, <3>2 DEF la, pr
    <3> QED BY <2>1, <2>2, <3>1, <3>3
  <2>6. ASSUME s.mode = "Local", Drawn("prompt") # {} PROVE cmFrame.cursor # <<>>
    <3>1. la + 1 <= n
      BY <1>24, <2>6 DEF la
    <3> QED BY <2>1, <2>3, <2>4, <2>6, <3>1
  <2>7. ASSUME NEW i \in Drawn("picker"), Cardinality(Drawn("picker")) = s.offered
        PROVE  cmFrame.rows[i].chosen <=> cmFrame.rows[i].at = s.light + 1
    <3> DEFINE k == i - base
    <3>1. room > 0 /\ k \in 1 .. p /\ i = base + k /\ i \in 1 .. la
      <4>1. i \in Int
        BY <1>4, <1>18 DEF Drawn
      <4> QED BY <1>31, <1>33, <4>1
    <3> HIDE DEF k
    <3>2. above[base + k].at = k /\ (above[base + k].chosen <=> k = s.light + 1)
      BY <1>12, <1>36, <2>7, <3>1 DEF Placed, p
    <3>3. fit[i].at = k /\ (fit[i].chosen <=> k = s.light + 1)
      BY <1>30, <3>1, <3>2
    <3> QED BY <1>4, <3>3
  <2> QED BY <1>28, <2>5, <2>6, <2>7 DEF CursorIsAtThePrompt
<1> QED BY <1>4, <1>16, <1>25, <1>26, <1>27

--------------------------------------------------------------------------------
(* What is written.                                                        *)

\* The screen shows these rows, and nothing else.
Shown(screen, rows) ==
    \A i \in 1 .. Len(screen) : screen[i] = IF i <= Len(rows) THEN rows[i] ELSE Blank

LEMMA BlankIsRow ==
    Blank \in RowType /\ Garbled \in RowType
  BY DEF Blank, Garbled, Row, RowType, Blocks

LEMMA PutIs ==
    ASSUME NEW n \in Nat \ {0}, NEW screen \in [1 .. n -> RowType], NEW line \in Nat \ {0}, NEW row \in RowType
    PROVE  /\ Put(screen, line, row) \in [1 .. n -> RowType]
           /\ line <= n => Put(screen, line, row) = [screen EXCEPT ![line] = row]
<1> HIDE DEF RowType
<1>1. Len(screen) = n
  <2>1. screen \in Seq(RowType)
    OBVIOUS
  <2> QED BY <2>1
<1> DEFINE at == Min({line, n})
<1>2. at = (IF line <= n THEN line ELSE n) /\ at \in 1 .. n
  BY MinOfTwo
<1>3. Put(screen, line, row) = [screen EXCEPT ![at] = row]
  BY <1>1 DEF Put
<1> HIDE DEF at
<1>4. [screen EXCEPT ![at] = row] \in [1 .. n -> RowType]
  BY <1>2
<1> QED BY <1>2, <1>3, <1>4

\* Writing only the rows that changed makes the screen show the frame, if it showed
\* what it was known to show.
LEMMA RenderedShows ==
    ASSUME NEW n \in Nat \ {0}, NEW screen \in [1 .. n -> RowType],
           NEW known \in Seq(RowType), NEW frame \in Seq(RowType),
           NEW result, result = Rendered(screen, known, frame)
    PROVE  /\ result \in [1 .. n -> RowType]
           /\ Len(known) <= n /\ Len(frame) <= n /\ Shown(screen, known) => Shown(result, frame)
<1> HIDE DEF RowType
<1>18. ASSUME NEW scr \in [1 .. n -> RowType], NEW line \in Nat \ {0}, NEW row \in RowType, line <= n
       PROVE  Put(scr, line, row)[line] = row
  <2>1. Put(scr, line, row) = [scr EXCEPT ![line] = row] /\ line \in 1 .. n
    <3>1. Len(scr) = n
      <4>1. scr \in Seq(RowType)
        OBVIOUS
      <4> QED BY <4>1
    <3> DEFINE at == Min({line, n})
    <3>2. at = line
      BY <1>18, MinOfTwo
    <3>3. Put(scr, line, row) = [scr EXCEPT ![at] = row]
      BY <3>1 DEF Put
    <3> HIDE DEF at
    <3>4. line \in 1 .. n
      BY <1>18
    <3> QED BY <3>2, <3>3, <3>4
  <2> QED BY <2>1
<1>19. ASSUME NEW scr \in [1 .. n -> RowType], NEW line \in Nat \ {0}, NEW row \in RowType, line <= n,
              NEW i \in 1 .. n, i # line
       PROVE  Put(scr, line, row)[i] = scr[i]
  <2>1. Put(scr, line, row) = [scr EXCEPT ![line] = row] /\ line \in 1 .. n
    <3>1. Len(scr) = n
      <4>1. scr \in Seq(RowType)
        OBVIOUS
      <4> QED BY <4>1
    <3> DEFINE at == Min({line, n})
    <3>2. at = line
      BY <1>19, MinOfTwo
    <3>3. Put(scr, line, row) = [scr EXCEPT ![at] = row]
      BY <3>1 DEF Put
    <3> HIDE DEF at
    <3>4. line \in 1 .. n
      BY <1>19
    <3> QED BY <3>2, <3>3, <3>4
  <2> QED BY <1>19, <2>1
<1> DEFINE T == [1 .. n -> RowType]
           N == Max({Len(frame), Len(known)})
           Turned(k, scr) == IF k > Len(frame) THEN Put(scr, k, Blank)
                             ELSE IF k <= Len(known) /\ known[k] = frame[k] THEN scr
                             ELSE Put(scr, k, frame[k])
           step == [p \in (1 .. N) \X T |-> Turned(p[1], p[2])]
           Unroll(g) == [k \in 0 .. N |-> IF k = 0 THEN screen ELSE Turned(k, g[k - 1])]
           drawn == CHOOSE g : g = Unroll(g)
<1>1. result = drawn[N]
  BY DEF Rendered
<1>2. Len(frame) \in Nat /\ Len(known) \in Nat
  OBVIOUS
<1>3. N \in Nat /\ Len(frame) <= N /\ Len(known) <= N /\ (N = Len(frame) \/ N = Len(known))
  BY SMTT(60), <1>2, MaxOfTwo
<1> HIDE DEF N
<1>4. ASSUME NEW k \in 1 .. N, NEW scr \in T PROVE Turned(k, scr) \in T
  <2>1. k \in Nat \ {0} /\ Blank \in RowType
    BY <1>3, BlankIsRow
  <2>2. Put(scr, k, Blank) \in T
    BY <2>1, PutIs
  <2>3. ASSUME ~(k > Len(frame)) PROVE Put(scr, k, frame[k]) \in T
    <3>1. k \in 1 .. Len(frame)
      BY <1>2, <2>1, <2>3
    <3>2. frame[k] \in RowType
      BY <3>1, ElementOfSeq
    <3> QED BY <2>1, <3>2, PutIs
  <2> QED BY <2>2, <2>3
<1> HIDE DEF Turned, T
<1>5. step \in [(1 .. N) \X T -> T]
  BY <1>4
<1>6. screen \in T
  BY DEF T
<1>7. PICK f \in [0 .. N -> T] : Unrolled(f, N, screen, step)
  <2> HIDE DEF step
  <2> QED BY <1>3, <1>5, <1>6, Recursion
<1>8. ASSUME NEW k \in 0 .. N PROVE f[k] = IF k = 0 THEN screen ELSE Turned(k, f[k - 1])
  <2>1. CASE k = 0
    BY <1>3, <1>7, <2>1 DEF Unrolled
  <2>2. CASE k # 0
    <3>1. k \in 1 .. N /\ k - 1 \in 0 .. N
      BY <1>3, <2>2
    <3>2. f[k] = step[<<k, f[k - 1]>>]
      BY <1>7, <3>1 DEF Unrolled
    <3>3. <<k, f[k - 1]>> \in (1 .. N) \X T
      BY <3>1
    <3> QED BY <2>2, <3>2, <3>3
  <2> QED BY <2>1, <2>2
<1>9. f = Unroll(f)
  BY <1>8
<1>10. drawn = Unroll(drawn)
  <2> HIDE DEF Unroll
  <2> QED BY <1>9
<1>11. ASSUME NEW k \in 0 .. N PROVE drawn[k] = IF k = 0 THEN screen ELSE Turned(k, drawn[k - 1])
  <2> HIDE DEF drawn
  <2> QED BY <1>10
<1> HIDE DEF step, Unroll, drawn
<1> DEFINE Fine == Len(known) <= n /\ Len(frame) <= n /\ Shown(screen, known)
           Upto(k) == \A i \in 1 .. n :
                        drawn[k][i] = IF i <= k THEN IF i <= Len(frame) THEN frame[i] ELSE Blank ELSE screen[i]
           S == {k \in 0 .. N : drawn[k] \in T /\ (Fine => Upto(k))}
<1>12. Len(screen) = n
  <2>1. screen \in Seq(RowType)
    OBVIOUS
  <2> QED BY <2>1
<1>13. 0 \in S
  <2>1. drawn[0] = screen /\ 0 \in 0 .. N
    <3>1. 0 \in 0 .. N
      BY <1>3
    <3>2. drawn[0] = IF 0 = 0 THEN screen ELSE Turned(0, drawn[0 - 1])
      BY <1>11, <3>1
    <3> QED BY <3>1, <3>2
  <2>2. Upto(0)
    BY <2>1
  <2> QED BY <1>6, <2>1, <2>2
<1>14. ASSUME NEW k \in 0 .. N - 1, k \in S PROVE k + 1 \in S
  <2>1. k + 1 \in 0 .. N /\ (k + 1) - 1 = k /\ k + 1 \in 1 .. N /\ k + 1 # 0 /\ k + 1 \in Nat \ {0} /\ k \in Nat
    BY <1>3
  <2>2. drawn[k + 1] = Turned(k + 1, drawn[k])
    BY <1>11, <2>1
  <2>3. drawn[k] \in T /\ (Fine => Upto(k))
    BY <1>14
  <2>4. drawn[k + 1] \in T
    BY <1>4, <2>1, <2>2, <2>3
  <2>5. ASSUME Fine PROVE Upto(k + 1)
    <3> DEFINE j == k + 1
               old == drawn[k]
               new == drawn[j]
               Was(i) == IF i <= k THEN IF i <= Len(frame) THEN frame[i] ELSE Blank ELSE screen[i]
    <3>1. old \in [1 .. n -> RowType] /\ new = Turned(j, old) /\ j \in Nat \ {0} /\ j = k + 1
      BY <2>1, <2>2, <2>3 DEF T
    <3>2. \A i \in 1 .. n : old[i] = Was(i)
      BY <2>3, <2>5
    <3>3. j <= n
      BY <1>3, <2>1, <2>5
    <3> HIDE DEF j, old, new
    <3>4. ASSUME NEW row \in RowType, new = Put(old, j, row)
          PROVE  new[j] = row /\ \A i \in 1 .. n : i # j => new[i] = old[i]
      <4>1. new[j] = row
        BY <1>18, <3>1, <3>3, <3>4
      <4>2. ASSUME NEW i \in 1 .. n, i # j PROVE new[i] = old[i]
        <5>1. Put(old, j, row)[i] = old[i]
          BY <1>19, <3>1, <3>3, <4>2
        <5> QED BY <3>4, <5>1
      <4> QED BY <4>1, <4>2
    <3>5. new[j] = (IF j <= Len(frame) THEN frame[j] ELSE Blank) /\ \A i \in 1 .. n : i # j => new[i] = old[i]
      <4>1. CASE j > Len(frame)
        <5>1. new = Put(old, j, Blank)
          BY <3>1, <4>1 DEF Turned
        <5> QED BY <1>2, <3>1, <3>4, <4>1, <5>1, BlankIsRow
      <4>2. CASE ~(j > Len(frame)) /\ j <= Len(known) /\ known[j] = frame[j]
        <5>1. new = old
          BY <3>1, <4>2 DEF Turned
        <5>2. j \in 1 .. n /\ ~(j <= k)
          BY <2>1, <3>1, <3>3
        <5>3. old[j] = screen[j]
          BY <3>2, <5>2
        <5>4. screen[j] = known[j]
          BY <1>12, <2>5, <4>2, <5>2 DEF Shown
        <5> QED BY <1>2, <3>1, <4>2, <5>1, <5>3, <5>4
      <4>3. CASE ~(j > Len(frame)) /\ ~(j <= Len(known) /\ known[j] = frame[j])
        <5>1. new = Put(old, j, frame[j])
          BY <3>1, <4>3 DEF Turned
        <5>2. frame[j] \in RowType
          <6>1. j \in 1 .. Len(frame)
            BY <1>2, <3>1, <4>3
          <6> QED BY <6>1, ElementOfSeq
        <5>3. j <= Len(frame)
          BY <1>2, <3>1, <4>3
        <5> QED BY <3>4, <5>1, <5>2, <5>3
      <4> QED BY <4>1, <4>2, <4>3
    <3>6. ASSUME NEW i \in 1 .. n
          PROVE  new[i] = IF i <= j THEN IF i <= Len(frame) THEN frame[i] ELSE Blank ELSE screen[i]
      <4>1. CASE i = j
        BY <3>5, <4>1
      <4>2. CASE i # j
        <5>1. new[i] = Was(i)
          BY <3>2, <3>5, <4>2
        <5>2. i <= j <=> i <= k
          BY <2>1, <3>1, <4>2
        <5> QED BY <5>1, <5>2
      <4> QED BY <4>1, <4>2
    <3> QED BY <3>6 DEF new, j
  <2> HIDE DEF Upto, Fine
  <2> QED BY <2>1, <2>4, <2>5
<1>15. N \in S
  <2>1. N \in 0 .. N
    BY <1>3
  <2> HIDE DEF S
  <2> QED BY <1>3, <1>13, <1>14, <2>1, Climb
<1>16. result \in [1 .. n -> RowType]
  BY <1>1, <1>15 DEF T
<1>17. ASSUME Fine PROVE Shown(result, frame)
  <2>1. Len(result) = n
    <3>1. result \in Seq(RowType)
      BY <1>16
    <3> QED BY <1>16, <3>1
  <2>2. Upto(N)
    BY <1>15, <1>17
  <2>3. ASSUME NEW i \in 1 .. n PROVE result[i] = IF i <= Len(frame) THEN frame[i] ELSE Blank
    <3>1. CASE i <= N
      BY <1>1, <2>2, <3>1
    <3>2. CASE ~(i <= N)
      <4>1. ~(i <= Len(frame)) /\ ~(i <= Len(known))
        BY <1>2, <1>3, <3>2
      <4>2. result[i] = screen[i]
        BY <1>1, <2>2, <3>2
      <4>3. screen[i] = Blank
        BY <1>12, <1>17, <4>1 DEF Shown
      <4> QED BY <4>1, <4>2, <4>3
    <3> QED BY <3>1, <3>2
  <2> QED BY <2>1, <2>3 DEF Shown
<1> QED BY <1>16, <1>17

--------------------------------------------------------------------------------
(* What holds in every state.                                              *)

NoSize == [rows |-> 0, cols |-> 0]

\* The screen is as the cache has it, the terminal as it was drawn for.
InStep ==
    /\ cmTerm = cmCache.size
    /\ Len(cmCache.rows) <= cmTerm.rows
    /\ Shown(cmScreen, cmCache.rows)

ScreenTypes ==
    /\ cmTerm \in SizeType /\ cmSize \in SizeType /\ cmSnapshot \in Known
    /\ cmScreen \in [1 .. cmTerm.rows -> RowType]
    /\ cmFrame.rows \in Seq(RowType) /\ cmCache.rows \in Seq(RowType)
    /\ cmAt \in {"gather", "write"} /\ cmDraws \in Nat
    /\ cmResized \in BOOLEAN /\ cmMissed \in BOOLEAN

\* Between frames the screen shows the last one; when one is to be written, the
\* screen shows what the cache takes it to show, if it is of the same size.
ScreenInv ==
    /\ ScreenTypes
    /\ IF cmDraws = 0 THEN cmCache.size = NoSize ELSE cmCache.size \in SizeType
    /\ cmAt = "gather" /\ cmDraws > 0 /\ ~cmResized /\ ~cmMissed =>
        InStep /\ cmSize = cmTerm /\ cmCache.rows = AtMost(cmSize.rows, cmFrame.rows)
    /\ cmAt = "write" => cmFrame = Composed(cmSnapshot, cmSize)
    /\ cmAt = "write" /\ ~cmResized => cmTerm = cmSize
    /\ cmAt = "write" /\ ~cmResized /\ ~cmMissed /\ cmSize = cmCache.size => InStep

LEMMA ScreenStarts == ComposeInit => ScreenInv
<1> SUFFICES ASSUME ComposeInit PROVE ScreenInv
  OBVIOUS
<1> USE DEF ComposeInit
<1>1. cmTerm \in SizeType /\ cmSize \in SizeType /\ cmSnapshot \in Known
  BY ComposeAssumption DEF Known
<1>2. cmScreen \in [1 .. cmTerm.rows -> RowType]
  <2>1. cmScreen = [i \in 1 .. cmTerm.rows |-> Garbled]
    OBVIOUS
  <2>2. Garbled \in RowType
    BY BlankIsRow
  <2> QED BY <2>1, <2>2
<1>3. cmFrame.rows \in Seq(RowType) /\ cmCache.rows \in Seq(RowType)
  <2>1. cmFrame.rows = <<>> /\ cmCache.rows = <<>>
    BY DEF NoFrame
  <2> QED BY <2>1, EmptySeq
<1>4. cmCache.size = NoSize
  BY DEF NoSize
<1>5. cmDraws = 0 /\ cmAt = "gather" /\ cmResized = FALSE /\ cmMissed = FALSE
  OBVIOUS
<1>6. ScreenTypes
  <2> HIDE DEF ComposeInit
  <2>1. cmResized \in BOOLEAN /\ cmMissed \in BOOLEAN
    BY <1>5
  <2>2. cmAt \in {"gather", "write"} /\ cmDraws \in Nat
    BY <1>5
  <2> QED BY <1>1, <1>2, <1>3, <2>1, <2>2 DEF ScreenTypes
<1> HIDE DEF ComposeInit
<1> QED BY <1>4, <1>5, <1>6 DEF ScreenInv

LEMMA GatherKeeps ==
    ASSUME ScreenInv, Gather
    PROVE  ScreenInv'
<1> USE DEF Gather
<1>1. ScreenTypes /\ (IF cmDraws = 0 THEN cmCache.size = NoSize ELSE cmCache.size \in SizeType)
  BY DEF ScreenInv
<1>2. cmSize' = cmTerm /\ cmFrame' = Composed(cmSnapshot, cmTerm) /\ cmAt' = "write" /\ cmResized' = FALSE
  OBVIOUS
<1>3. UNCHANGED <<cmTerm, cmScreen, cmSnapshot, cmCache, cmDraws>>
  OBVIOUS
<1>4. (cmFrame.rows \in Seq(RowType))'
  <2>1. (cmFrame = Composed(cmSnapshot, cmSize))'
    BY <1>2, <1>3
  <2>2. (cmSnapshot \in Known /\ cmSize \in SizeType)'
    BY <1>1, <1>2, <1>3 DEF ScreenTypes
  <2>3. (StaysInside /\ NobodyIsSqueezedOut /\ CursorIsAtThePrompt /\ cmFrame.rows \in Seq(RowType))'
    BY <2>1, <2>2, ComposedFits, PTL
  <2> QED BY <2>3
<1>5. cmMissed' \in BOOLEAN
  BY <1>1 DEF ScreenTypes
<1>6. ScreenTypes'
  BY <1>1, <1>2, <1>3, <1>4, <1>5 DEF ScreenTypes
<1>7. ASSUME ~cmMissed', cmSize' = cmCache.size' PROVE InStep'
  <2>1. cmTerm = cmCache.size
    BY <1>2, <1>3, <1>7
  <2>2. ~cmMissed /\ ~cmResized
    BY <1>7, <2>1
  <2>3. cmDraws > 0
    <3>1. cmDraws # 0
      BY <1>1, <2>1 DEF ScreenTypes, SizeType, NoSize
    <3> QED BY <1>1, <3>1 DEF ScreenTypes
  <2>4. InStep
    BY <2>2, <2>3 DEF ScreenInv
  <2> QED BY <1>3, <2>4 DEF InStep
<1> QED BY <1>1, <1>2, <1>3, <1>6, <1>7 DEF ScreenInv

LEMMA WriteKeeps ==
    ASSUME ScreenInv, Write
    PROVE  ScreenInv'
<1> DEFINE cleared == cmSize # cmCache.size
           known   == IF cleared THEN <<>> ELSE cmCache.rows
           frame   == AtMost(cmSize.rows, cmFrame.rows)
           blank   == [i \in DOMAIN cmScreen |-> Blank]
           screen  == IF cleared THEN blank ELSE cmScreen
           n       == cmTerm.rows
<1>1. ScreenTypes
  BY DEF ScreenInv
<1>2. /\ cmAt = "write"
      /\ cmScreen' = Rendered(screen, known, frame)
      /\ cmCache' = [rows |-> frame, size |-> cmSize]
      /\ cmMissed' = (cmMissed /\ ~cleared)
      /\ cmAt' = "gather"
      /\ cmDraws' = cmDraws + 1
      /\ UNCHANGED <<cmTerm, cmSnapshot, cmSize, cmFrame, cmResized, cmResizes>>
  BY DEF Write
<1>3. n \in Nat \ {0} /\ cmSize.rows \in Nat \ {0} /\ cmScreen \in [1 .. n -> RowType]
  BY <1>1 DEF ScreenTypes, SizeType
<1>4. cmFrame.rows \in Seq(RowType) /\ cmCache.rows \in Seq(RowType)
  BY <1>1 DEF ScreenTypes
<1>5. frame \in Seq(RowType) /\ Len(frame) <= cmSize.rows
  <2>1. frame \in Seq(RowType)
    BY <1>3, <1>4, AtMostOf
  <2>2. Len(frame) = IF cmSize.rows <= Len(cmFrame.rows) THEN cmSize.rows ELSE Len(cmFrame.rows)
    BY <1>3, <1>4, AtMostOf
  <2>3. Len(cmFrame.rows) \in Nat
    BY <1>4, LenProperties
  <2> QED BY <1>3, <2>1, <2>2, <2>3
<1>6. blank \in [1 .. n -> RowType] /\ known \in Seq(RowType)
  <2>1. Blank \in RowType
    BY BlankIsRow
  <2>2. <<>> \in Seq(RowType)
    BY EmptySeq
  <2>3. blank \in [1 .. n -> RowType]
    BY <1>3, <2>1
  <2> HIDE DEF blank
  <2> QED BY <1>4, <2>2, <2>3
<1>7. cleared => Shown(blank, <<>>)
  <2>1. \A i \in 1 .. Len(blank) : blank[i] = Blank /\ ~(i <= 0)
    <3>1. DOMAIN blank = 1 .. n /\ blank \in Seq(RowType)
      BY <1>3, <1>6
    <3>2. Len(blank) = n
      BY <1>3, <3>1, LenProperties
    <3> QED BY <1>3, <3>2
  <2>2. Len(<<>>) = 0
    BY EmptySeq
  <2> HIDE DEF blank
  <2> QED BY <2>1, <2>2 DEF Shown
<1>8. screen \in [1 .. n -> RowType]
  <2> HIDE DEF blank
  <2> QED BY <1>3, <1>6
<1>9. cmSize \in SizeType
  BY <1>1 DEF ScreenTypes
<1>10. cleared => Len(known) = 0 /\ Shown(screen, known)
  <2>1. Len(<<>>) = 0
    BY EmptySeq
  <2> HIDE DEF blank
  <2> QED BY <1>7, <2>1
<1>11. ~cleared => known = cmCache.rows /\ screen = cmScreen /\ cmSize = cmCache.size
  OBVIOUS
<1>12. cmCache'.rows = frame /\ cmCache'.size = cmSize /\ frame = AtMost(cmSize.rows, cmFrame.rows)
  BY <1>2
<1> HIDE DEF known, screen, blank, frame
<1>13. cmScreen' \in [1 .. n -> RowType]
  BY <1>2, <1>3, <1>5, <1>6, <1>8, RenderedShows
<1>14. Len(known) <= n /\ Len(frame) <= n /\ Shown(screen, known) => Shown(cmScreen', frame)
  BY <1>2, <1>3, <1>5, <1>6, <1>8, RenderedShows
<1>15. cmMissed' \in BOOLEAN /\ cmDraws' \in Nat /\ cmDraws' # 0
  BY <1>1, <1>2 DEF ScreenTypes
<1>16. ScreenTypes'
  BY <1>1, <1>2, <1>5, <1>12, <1>13, <1>15 DEF ScreenTypes
<1>17. ASSUME ~cmResized', ~cmMissed' PROVE InStep' /\ cmSize' = cmTerm'
  <2>1. cmTerm = cmSize
    BY <1>2, <1>17 DEF ScreenInv
  <2>2. Len(known) <= n /\ Shown(screen, known)
    <3>1. CASE cleared
      BY <1>3, <1>10, <3>1
    <3>2. CASE ~cleared
      <4>1. ~cmMissed /\ ~cmResized
        BY <1>2, <1>17, <3>2
      <4>2. InStep
        BY <1>2, <1>11, <3>2, <4>1 DEF ScreenInv
      <4> QED BY <1>11, <3>2, <4>2 DEF InStep
    <3> QED BY <3>1, <3>2
  <2>3. Shown(cmScreen', frame) /\ Len(frame) <= n
    BY <1>5, <1>14, <2>1, <2>2
  <2> QED BY <1>2, <1>12, <2>1, <2>3 DEF InStep, Shown
<1> QED BY <1>2, <1>9, <1>12, <1>15, <1>16, <1>17 DEF ScreenInv

LEMMA TurnKeeps ==
    ASSUME ScreenInv, Turn
    PROVE  ScreenInv'
<1> USE DEF Turn
<1>1. UNCHANGED <<cmTerm, cmScreen, cmSize, cmFrame, cmCache, cmAt, cmResized, cmMissed, cmDraws>>
  OBVIOUS
<1>2. cmSnapshot \in SnapshotType /\ (cmSnapshot.light < cmSnapshot.offered \/ cmSnapshot.light = 0)
  BY DEF ScreenInv, ScreenTypes, Known
<1>3. cmSnapshot' \in Known
  <2>1. <<>> \in Seq(Nat)
    BY EmptySeq
  <2> DEFINE s == cmSnapshot
             news   == [s EXCEPT !.news = IF @ = "a" THEN "b" ELSE "a"]
             help   == [s EXCEPT !.help = ~@]
             panel  == [s EXCEPT !.panel = IF @ = "Book" THEN "Status" ELSE "Book"]
             typed  == [s EXCEPT !.status = <<>>, !.input = 0, !.offered = 0, !.light = 0]
             feed   == [s EXCEPT !.sentence = <<>>, !.restartable = FALSE]
             levels == [s EXCEPT !.levels = 1]
  <2>2. news \in Known
    BY <1>2 DEF Known, SnapshotType
  <2>3. help \in Known
    BY <1>2 DEF Known, SnapshotType
  <2>4. panel \in Known
    BY <1>2 DEF Known, SnapshotType
  <2>5. typed \in Known
    BY <1>2, <2>1 DEF Known, SnapshotType
  <2>6. feed \in Known
    BY <1>2, <2>1 DEF Known, SnapshotType
  <2>7. levels \in Known
    <3> DEFINE one == 1
    <3>1. one \in Nat \ {0} /\ levels = [s EXCEPT !.levels = one]
      OBVIOUS
    <3> HIDE DEF one, levels
    <3> QED BY <1>2, <3>1 DEF Known, SnapshotType
  <2>8. cmSnapshot' \in {news, help, panel, typed, feed, levels}
    OBVIOUS
  <2> HIDE DEF news, help, panel, typed, feed, levels
  <2> QED BY <2>2, <2>3, <2>4, <2>5, <2>6, <2>7, <2>8
<1>4. ScreenTypes'
  BY <1>1, <1>3 DEF ScreenInv, ScreenTypes
<1>5. InStep' = InStep
  BY <1>1 DEF InStep, Shown
<1>6. cmAt = "gather" /\ cmAt' = "gather"
  BY <1>1
<1> QED BY <1>1, <1>4, <1>5, <1>6 DEF ScreenInv

LEMMA ResizeKeeps ==
    ASSUME ScreenInv, NEW size \in NewSizes \cup {cmCache.size}, Resize(size)
    PROVE  ScreenInv'
<1> USE DEF Resize
<1>1. UNCHANGED <<cmSnapshot, cmSize, cmFrame, cmCache, cmAt, cmMissed, cmDraws>>
  OBVIOUS
<1>2. cmTerm' = size /\ cmScreen' = [i \in 1 .. size.rows |-> Garbled] /\ cmResized' = TRUE /\ cmDraws > 0
  OBVIOUS
<1>3. size \in SizeType
  <2>1. cmCache.size \in SizeType
    BY <1>2 DEF ScreenInv, ScreenTypes
  <2> QED BY <2>1, ComposeAssumption
<1>4. Garbled \in RowType
  BY BlankIsRow
<1>5. (cmScreen \in [1 .. cmTerm.rows -> RowType])'
  BY <1>2, <1>4
<1>6. ScreenTypes'
  BY <1>1, <1>2, <1>3, <1>5 DEF ScreenInv, ScreenTypes
<1> QED BY <1>1, <1>2, <1>6 DEF ScreenInv

LEMMA ScreenStays == ScreenInv /\ [ComposeNext]_composeVars => ScreenInv'
<1> SUFFICES ASSUME ScreenInv, [ComposeNext]_composeVars PROVE ScreenInv'
  OBVIOUS
<1>1. CASE Gather
  BY <1>1, GatherKeeps
<1>2. CASE Write
  BY <1>2, WriteKeeps
<1>3. CASE Turn
  BY <1>3, TurnKeeps
<1>4. ASSUME NEW size \in NewSizes \cup {cmCache.size}, Resize(size) PROVE ScreenInv'
  BY <1>4, ResizeKeeps
<1>5. CASE UNCHANGED composeVars
  BY <1>5 DEF composeVars, ScreenInv, ScreenTypes, InStep, Shown
<1> QED BY <1>1, <1>2, <1>3, <1>4, <1>5 DEF ComposeNext

\* Between frames the screen shows the last frame and nothing else.
LEMMA ScreenIsShown == ScreenInv => ScreenIsTheFrame
<1> SUFFICES ASSUME ScreenInv, cmAt = "gather", cmDraws > 0, ~cmResized, ~cmMissed,
                    NEW i \in DOMAIN cmScreen
             PROVE  cmScreen[i] = IF i <= Len(cmFrame.rows) THEN cmFrame.rows[i] ELSE Blank
  BY DEF ScreenIsTheFrame
<1>1. InStep /\ cmSize = cmTerm /\ cmCache.rows = AtMost(cmSize.rows, cmFrame.rows)
  BY DEF ScreenInv
<1>2. /\ cmTerm.rows \in Nat /\ cmScreen \in [1 .. cmTerm.rows -> RowType]
      /\ cmFrame.rows \in Seq(RowType)
  BY DEF ScreenInv, ScreenTypes, SizeType
<1>3. Len(cmScreen) = cmTerm.rows /\ i \in 1 .. cmTerm.rows
  <2>1. cmScreen \in Seq(RowType) /\ DOMAIN cmScreen = 1 .. cmTerm.rows
    BY <1>2
  <2> QED BY <1>2, <2>1, LenProperties
<1> DEFINE shown == AtMost(cmSize.rows, cmFrame.rows)
<1>4. Len(shown) = IF cmSize.rows <= Len(cmFrame.rows) THEN cmSize.rows ELSE Len(cmFrame.rows)
  BY <1>1, <1>2, AtMostOf
<1>5. \A j \in 1 .. Len(shown) : shown[j] = cmFrame.rows[j]
  BY <1>1, <1>2, AtMostOf
<1>6. cmScreen[i] = IF i <= Len(shown) THEN shown[i] ELSE Blank
  BY <1>1, <1>3 DEF InStep, Shown
<1>7. Len(cmFrame.rows) \in Nat
  BY <1>2, LenProperties
<1> HIDE DEF shown
<1>8. i <= Len(shown) <=> i <= Len(cmFrame.rows)
  BY <1>1, <1>2, <1>3, <1>4, <1>7
<1>9. i <= Len(shown) => shown[i] = cmFrame.rows[i]
  <2>1. ASSUME i <= Len(shown) PROVE i \in 1 .. Len(shown)
    BY <1>1, <1>2, <1>3, <1>4, <1>7, <2>1
  <2> QED BY <1>5, <2>1
<1> QED BY <1>6, <1>8, <1>9

\* A frame that is about to be written was composed for the size that was read.
LEMMA FrameIsFitting == ScreenInv => FrameFits
<1> SUFFICES ASSUME ScreenInv, cmAt = "write" PROVE StaysInside /\ NobodyIsSqueezedOut /\ CursorIsAtThePrompt
  BY DEF FrameFits
<1>1. cmSnapshot \in Known /\ cmSize \in SizeType /\ cmFrame = Composed(cmSnapshot, cmSize)
  BY DEF ScreenInv, ScreenTypes
<1> QED BY <1>1, ComposedFits

\* Every frame that is about to be written fits the window it was composed for,
\* whatever is shown and however it competes for the rows: nothing is squeezed out
\* or drawn past an edge, and the cursor is at the prompt (compose.rs: compose).
THEOREM FramesStayFitting == ComposeInit /\ [][ComposeNext]_composeVars => []FrameFits
<1>1. ComposeInit => ScreenInv
  BY ScreenStarts
<1>2. ScreenInv /\ [ComposeNext]_composeVars => ScreenInv'
  BY ScreenStays
<1>3. ScreenInv => FrameFits
  BY FrameIsFitting
<1> QED BY <1>1, <1>2, <1>3, PTL

\* After every write the screen shows the last frame and nothing of the ones before,
\* though only the rows that changed are written (line.rs: FrameCache::render), unless
\* the terminal was resized in the meantime.
THEOREM ScreenShowsTheFrame == ComposeInit /\ [][ComposeNext]_composeVars => []ScreenIsTheFrame
<1>1. ComposeInit => ScreenInv
  BY ScreenStarts
<1>2. ScreenInv /\ [ComposeNext]_composeVars => ScreenInv'
  BY ScreenStays
<1>3. ScreenInv => ScreenIsTheFrame
  BY ScreenIsShown
<1> QED BY <1>1, <1>2, <1>3, PTL

--------------------------------------------------------------------------------
(* The watch set: names, and what a file of them makes.                    *)

\* What is picked are the elements at the positions, each once if they differ.
LEMMA PickedElements ==
    ASSUME NEW T, NEW s \in Seq(T), NEW at
    PROVE  /\ ToSet(Picked(s, at)) \subseteq {s[i] : i \in at \cap (1 .. Len(s))}
           /\ (\A i, j \in at \cap (1 .. Len(s)) : s[i] = s[j] => i = j) => IsInjective(Picked(s, at))
<1> DEFINE N == Len(s)
           kept(n) == {s[i] : i \in at \cap (1 .. n)}
           differ == \A i, j \in at \cap (1 .. N) : s[i] = s[j] => i = j
<1>1. PICK f \in [0 .. N -> Seq(T)] : Keeps(f, s, at) /\ Picked(s, at) = f[N]
  BY PickedUnrolls
<1>2. N \in Nat
  OBVIOUS
<1> DEFINE S == {n \in 0 .. N : ToSet(f[n]) \subseteq kept(n) /\ (differ => IsInjective(f[n]))}
<1>3. 0 \in S
  <2>1. f[0] = <<>>
    BY <1>1 DEF Keeps
  <2>2. DOMAIN f[0] = {}
    BY <2>1
  <2>3. ToSet(f[0]) = {} /\ IsInjective(f[0])
    BY <2>2 DEF ToSet, IsInjective
  <2> QED BY <1>2, <2>3
<1>4. ASSUME NEW n \in 0 .. N - 1, n \in S PROVE n + 1 \in S
  <2> DEFINE was == f[n]
             e == s[n + 1]
  <2>1. was \in Seq(T) /\ n + 1 \in 0 .. N /\ n + 1 \in 1 .. N /\ (n + 1) - 1 = n
    BY <1>2
  <2>2. f[n + 1] = IF n + 1 \in at THEN Append(was, e) ELSE was
    BY <1>1, <2>1 DEF Keeps
  <2>3. ToSet(was) \subseteq kept(n) /\ (differ => IsInjective(was))
    BY <1>4
  <2>4. kept(n) \subseteq kept(n + 1)
    BY <1>2
  <2>5. CASE n + 1 \notin at
    BY <2>1, <2>2, <2>3, <2>4, <2>5
  <2>6. CASE n + 1 \in at
    <3>1. f[n + 1] = Append(was, e)
      BY <2>2, <2>6
    <3>2. e \in kept(n + 1)
      BY <2>1, <2>6
    <3> DEFINE k == Len(was)
    <3>3. e \in T
      BY <2>1
    <3> HIDE DEF was, e
    <3>4. /\ k \in Nat /\ DOMAIN was = 1 .. k /\ DOMAIN Append(was, e) = 1 .. k + 1
          /\ Append(was, e)[k + 1] = e /\ \A i \in 1 .. k : Append(was, e)[i] = was[i]
      BY <2>1, <3>3
    <3>5. ToSet(Append(was, e)) \subseteq kept(n + 1)
      <4> HIDE DEF kept
      <4> QED BY <2>3, <2>4, <3>2, <3>4 DEF ToSet
    <3>6. ASSUME differ PROVE IsInjective(Append(was, e))
      <4>1. ASSUME NEW i \in 1 .. k PROVE was[i] # e
        <5>1. was[i] \in ToSet(was)
          BY <3>4 DEF ToSet
        <5>2. PICK j \in at \cap (1 .. n) : was[i] = s[j]
          BY <2>3, <5>1
        <5>3. j \in at \cap (1 .. N) /\ n + 1 \in at \cap (1 .. N) /\ j # n + 1
          BY <1>2, <2>1, <2>6
        <5>4. s[j] # s[n + 1]
          BY <3>6, <5>3
        <5> QED BY <5>2, <5>4 DEF e
      <4>2. \A i, j \in 1 .. k : was[i] = was[j] => i = j
        BY <2>3, <3>4, <3>6 DEF IsInjective
      <4> HIDE DEF k
      <4>3. ASSUME NEW i \in 1 .. k + 1, NEW j \in 1 .. k + 1, Append(was, e)[i] = Append(was, e)[j]
            PROVE  i = j
        <5>1. CASE i \in 1 .. k /\ j \in 1 .. k
          BY <3>4, <4>2, <4>3, <5>1
        <5>2. CASE i \in 1 .. k /\ j = k + 1
          BY <3>4, <4>1, <4>3, <5>2
        <5>3. CASE i = k + 1 /\ j \in 1 .. k
          BY <3>4, <4>1, <4>3, <5>3
        <5>4. CASE i = k + 1 /\ j = k + 1
          BY <5>4
        <5> QED BY <3>4, <5>1, <5>2, <5>3, <5>4
      <4> QED BY <3>4, <4>3 DEF IsInjective
    <3> QED BY <2>1, <3>1, <3>5, <3>6
  <2> QED BY <2>5, <2>6
<1>5. N \in S
  <2>1. N \in 0 .. N
    BY <1>2
  <2> HIDE DEF S, N
  <2> QED BY <1>2, <1>3, <1>4, <2>1, Climb
<1> QED BY <1>1, <1>5

Name == Seq(Letters)

\* A file names each of its symbols once.
LEMMA SymbolsAre ==
    ASSUME NEW lines \in Seq(Name)
    PROVE  /\ SymbolsOf(lines) \in Seq(Name)
           /\ IsInjective(SymbolsOf(lines))
           /\ ToSet(SymbolsOf(lines)) \subseteq {s \in ToSet(lines) : IsTicker(s)}
<1> DEFINE at == {i \in DOMAIN lines : /\ IsTicker(lines[i]) /\ SymbolFits(lines[i])
                                       /\ \A j \in 1 .. i - 1 : lines[j] # lines[i]}
<1>1. SymbolsOf(lines) = Picked(lines, at)
  BY DEF SymbolsOf
<1>2. \A i \in at : i \in 1 .. Len(lines) /\ IsTicker(lines[i]) /\ \A j \in 1 .. i - 1 : lines[j] # lines[i]
  OBVIOUS
<1> HIDE DEF at
<1>3. \A i, j \in at \cap (1 .. Len(lines)) : lines[i] = lines[j] => i = j
  <2> SUFFICES ASSUME NEW i \in at, NEW j \in at, lines[i] = lines[j] PROVE i = j
    OBVIOUS
  <2>1. i \in Int /\ j \in Int /\ 1 <= i /\ 1 <= j
    BY <1>2
  <2>2. ~(i < j) /\ ~(j < i)
    BY <1>2, <2>1
  <2> QED BY <2>1, <2>2
<1>4. SymbolsOf(lines) \in Seq(Name)
  BY <1>1, PickedIsSeq
<1>5. ToSet(SymbolsOf(lines)) \subseteq {lines[i] : i \in at \cap (1 .. Len(lines))}
  BY <1>1, PickedElements
<1>6. \A i \in at \cap (1 .. Len(lines)) : lines[i] \in ToSet(lines) /\ IsTicker(lines[i])
  BY <1>2 DEF ToSet
<1>7. IsInjective(SymbolsOf(lines))
  BY <1>1, <1>3, PickedElements
<1> QED BY <1>4, <1>5, <1>6, <1>7

LEMMA ListedAre ==
    Listed \in Seq(Name) /\ ToSet(Listed) \subseteq {s \in ToSet(TickerLines) : IsTicker(s)}
  BY SymbolsAre, CatalogAssumption DEF Listed, Name

LEMMA SetOfSeq ==
    ASSUME NEW T, NEW s \in Seq(T)
    PROVE  ToSet(s) \subseteq T /\ \A e : e \in ToSet(s) <=> \E i \in 1 .. Len(s) : s[i] = e
<1>1. DOMAIN s = 1 .. Len(s) /\ \A i \in 1 .. Len(s) : s[i] \in T
  BY ElementOfSeq
<1> QED BY <1>1 DEF ToSet

\* A selection of the listed is of them.
LEMMA SiftIsOfIt ==
    ASSUME NEW T, NEW s \in Seq(T), NEW S
    PROVE  Sift(s, S) \in Seq(T) /\ ToSet(Sift(s, S)) \subseteq ToSet(s) \cap S
<1>1. Sift(s, S) \in Seq(T)
  BY SiftIsSeq
<1>2. ToSet(Sift(s, S)) \subseteq {s[i] : i \in {j \in DOMAIN s : s[j] \in S} \cap (1 .. Len(s))}
  BY PickedElements DEF Sift
<1> QED BY <1>1, <1>2 DEF ToSet

LEMMA FirstOfIt ==
    ASSUME NEW T, NEW n \in Nat, NEW s \in Seq(T)
    PROVE  AtMost(n, s) \in Seq(T) /\ ToSet(AtMost(n, s)) \subseteq ToSet(s)
<1>1. /\ AtMost(n, s) \in Seq(T)
      /\ Len(AtMost(n, s)) = IF n <= Len(s) THEN n ELSE Len(s)
      /\ \A i \in 1 .. Len(AtMost(n, s)) : AtMost(n, s)[i] = s[i]
  BY AtMostOf
<1> DEFINE a == AtMost(n, s)
<1>2. Len(a) \in Nat /\ Len(s) \in Nat /\ Len(a) <= Len(s)
  BY <1>1
<1>3. a \in Seq(T) /\ \A i \in 1 .. Len(a) : a[i] = s[i]
  BY <1>1
<1> HIDE DEF a
<1>4. \A e : e \in ToSet(a) => \E i \in 1 .. Len(a) : a[i] = e
  BY <1>3, SetOfSeq
<1>5. ASSUME NEW e \in ToSet(a) PROVE e \in ToSet(s)
  <2>1. PICK i \in 1 .. Len(a) : a[i] = e
    BY <1>4
  <2>2. i \in 1 .. Len(s) /\ s[i] = e
    BY <1>2, <1>3, <2>1
  <2> QED BY <2>2, SetOfSeq
<1> QED BY <1>3, <1>5 DEF a

\* What a name stands for is listed.
LEMMA ResolvedIsListed ==
    ASSUME NEW typed, Resolve(typed) # Refused
    PROVE  Resolve(typed) \in ToSet(Listed) /\ Resolve(typed) \in Name
<1> DEFINE begin == Prefixed(typed, Suggestions + 1)
<1>1. Listed \in Seq(Name) /\ ToSet(Listed) \subseteq Name
  BY ListedAre, SetOfSeq
<1>2. CASE Contains(Listed, typed)
  <2>1. Resolve(typed) = typed
    BY <1>2 DEF Resolve
  <2>2. typed \in ToSet(Listed)
    BY <1>1, <1>2, SetOfSeq DEF Contains
  <2> QED BY <1>1, <2>1, <2>2
<1>3. CASE ~Contains(Listed, typed)
  <2>1. Len(begin) = 1 /\ Resolve(typed) = begin[1]
    BY <1>3 DEF Resolve
  <2>2. begin \in Seq(Name) /\ ToSet(begin) \subseteq ToSet(Listed)
    <3> DEFINE of == Sift(Listed, {s \in ToSet(Listed) : IsPrefix(typed, s)})
    <3>1. of \in Seq(Name) /\ ToSet(of) \subseteq ToSet(Listed)
      <4>1. ToSet(of) \subseteq ToSet(Listed) \cap {s \in ToSet(Listed) : IsPrefix(typed, s)}
        BY <1>1, SiftIsOfIt
      <4>2. of \in Seq(Name)
        BY <1>1, SiftIsOfIt
      <4> QED BY <4>1, <4>2
    <3>2. begin = IF typed = <<>> THEN <<>> ELSE AtMost(Suggestions + 1, of)
      BY DEF Prefixed
    <3> HIDE DEF of, begin
    <3>3. Suggestions + 1 \in Nat
      BY CatalogAssumption
    <3>4. AtMost(Suggestions + 1, of) \in Seq(Name) /\ ToSet(AtMost(Suggestions + 1, of)) \subseteq ToSet(of)
      BY <3>1, <3>3, FirstOfIt
    <3>5. <<>> \in Seq(Name) /\ ToSet(<<>>) = {}
      BY DEF ToSet
    <3> QED BY <3>1, <3>2, <3>4, <3>5
  <2> HIDE DEF begin
  <2>3. begin[1] \in ToSet(begin)
    BY <2>1, <2>2, SetOfSeq
  <2> QED BY <1>1, <2>1, <2>2, <2>3
<1> QED BY <1>2, <1>3

--------------------------------------------------------------------------------
(* The watch set: what a command makes of it.                              *)

\* A set of names that may be watched, with a slot on display.
Usable(set, names) ==
    /\ set \in [symbols : Seq(Name), display : Nat]
    /\ set.display \in DOMAIN set.symbols
    /\ IsInjective(set.symbols)
    /\ ToSet(set.symbols) \subseteq names

LEMMA SingleIsUsable ==
    ASSUME NEW s \in Name, NEW names, s \in names
    PROVE  Usable(Single(s), names)
<1> DEFINE one == <<s>>
<1>1. Single(s) = [symbols |-> one, display |-> 1]
  BY DEF Single
<1>2. one \in Seq(Name) /\ DOMAIN one = {1} /\ one[1] = s
  OBVIOUS
<1> HIDE DEF one
<1>3. IsInjective(one) /\ ToSet(one) \subseteq names
  BY <1>2 DEF IsInjective, ToSet
<1> QED BY <1>1, <1>2, <1>3 DEF Usable

LEMMA PositionIs ==
    ASSUME NEW set, NEW s, set.symbols \in Seq(Name), s \in ToSet(set.symbols)
    PROVE  Position(set, s) \in DOMAIN set.symbols /\ set.symbols[Position(set, s)] = s
<1> DEFINE at == {i \in DOMAIN set.symbols : set.symbols[i] = s}
<1>1. at \subseteq Nat /\ at # {}
  <2>1. DOMAIN set.symbols \subseteq Nat
    OBVIOUS
  <2> QED BY <2>1 DEF ToSet
<1>2. Position(set, s) = Min(at)
  BY DEF Position
<1>3. \A i \in at : i \in DOMAIN set.symbols /\ set.symbols[i] = s
  OBVIOUS
<1> HIDE DEF at
<1>4. Min(at) \in at
  BY <1>1, MinOfNats
<1> QED BY <1>2, <1>3, <1>4

LEMMA SelectIsUsable ==
    ASSUME NEW set, NEW names, NEW s \in Name, s \in names, Usable(set, names)
    PROVE  Usable(Select(set, s), names)
<1> DEFINE was == set.symbols
           added == Added(set, s)
<1>1. /\ was \in Seq(Name) /\ IsInjective(was) /\ ToSet(was) \subseteq names
      /\ set.display \in DOMAIN was /\ set = [symbols |-> was, display |-> set.display]
  BY DEF Usable
<1>2. /\ added \in [symbols : Seq(Name), display : Nat]
      /\ IsInjective(added.symbols) /\ ToSet(added.symbols) \subseteq names
      /\ s \in ToSet(added.symbols)
  <2>1. CASE Contains(was, s)
    <3>1. added = set
      BY <2>1 DEF Added
    <3>2. s \in ToSet(was)
      BY <1>1, <2>1, SetOfSeq DEF Contains
    <3> QED BY <1>1, <3>1, <3>2 DEF Usable
  <2>2. CASE ~Contains(was, s)
    <3> DEFINE more == Append(was, s)
               k == Len(was)
    <3>1. added = [symbols |-> more, display |-> set.display]
      BY <1>1, <2>2 DEF Added
    <3>2. \A i \in 1 .. k : was[i] # s
      BY <2>2 DEF Contains
    <3>3. set.display \in Nat
      BY DEF Usable
    <3> HIDE DEF was
    <3>4. /\ more \in Seq(Name) /\ k \in Nat /\ DOMAIN more = 1 .. k + 1 /\ DOMAIN was = 1 .. k
          /\ more[k + 1] = s /\ \A i \in 1 .. k : more[i] = was[i]
      BY <1>1
    <3> HIDE DEF more, k
    <3>5. \A i, j \in 1 .. k : was[i] = was[j] => i = j
      BY <1>1, <3>4 DEF IsInjective
    <3>6. ASSUME NEW i \in 1 .. k + 1, NEW j \in 1 .. k + 1, more[i] = more[j] PROVE i = j
      <4>1. CASE i \in 1 .. k /\ j \in 1 .. k
        BY <3>4, <3>5, <3>6, <4>1
      <4>2. CASE i \in 1 .. k /\ j = k + 1
        BY <3>2, <3>4, <3>6, <4>2
      <4>3. CASE i = k + 1 /\ j \in 1 .. k
        BY <3>2, <3>4, <3>6, <4>3
      <4>4. CASE i = k + 1 /\ j = k + 1
        BY <4>4
      <4> QED BY <3>4, <4>1, <4>2, <4>3, <4>4
    <3>7. IsInjective(more)
      BY <3>4, <3>6 DEF IsInjective
    <3>8. ToSet(more) \subseteq names /\ s \in ToSet(more)
      BY <1>1, <3>4 DEF ToSet
    <3> QED BY <3>1, <3>3, <3>4, <3>7, <3>8
  <2> QED BY <2>1, <2>2
<1>3. Select(set, s) = [added EXCEPT !.display = Position(added, s)]
  BY DEF Select
<1> HIDE DEF added
<1>4. Position(added, s) \in DOMAIN added.symbols
  BY <1>2, PositionIs
<1>5. DOMAIN added.symbols \subseteq Nat
  BY <1>2
<1>6. Select(set, s) = [symbols |-> added.symbols, display |-> Position(added, s)]
  BY <1>2, <1>3
<1>7. Position(added, s) \in Nat
  BY <1>4, <1>5
<1>8. added.symbols \in Seq(Name)
  BY <1>2
<1>9. Select(set, s) \in [symbols : Seq(Name), display : Nat]
  BY <1>6, <1>7, <1>8
<1> QED BY <1>2, <1>4, <1>6, <1>9 DEF Usable

\* What is left of a sequence when one of its elements is removed.
LEMMA Removed ==
    ASSUME NEW T, NEW s \in Seq(T), NEW p \in 1 .. Len(s)
    PROVE  /\ RemoveAt(s, p) \in Seq(T)
           /\ Len(RemoveAt(s, p)) = Len(s) - 1
           /\ \A i \in 1 .. Len(s) - 1 : RemoveAt(s, p)[i] = IF i < p THEN s[i] ELSE s[i + 1]
<1> DEFINE a == SubSeq(s, 1, p - 1)
           b == SubSeq(s, p + 1, Len(s))
<1>1. Len(s) \in Nat /\ p \in Nat /\ p >= 1 /\ p <= Len(s)
  OBVIOUS
<1>2. /\ a \in Seq(T) /\ Len(a) = p - 1 /\ \A n \in 1 .. p - 1 : a[n] = s[n]
  <2>1. 1 \in 1 .. Len(s) + 1 /\ p - 1 \in 1 - 1 .. Len(s) /\ (p - 1) - 1 + 1 = p - 1
    BY <1>1
  <2>2. /\ a \in Seq(T) /\ Len(a) = (p - 1) - 1 + 1
        /\ \A n \in 1 .. (p - 1) - 1 + 1 : a[n] = s[1 - 1 + n]
    BY <2>1, Stretch
  <2> HIDE DEF a
  <2> QED BY <1>1, <2>2
<1>3. /\ b \in Seq(T) /\ Len(b) = Len(s) - p /\ \A n \in 1 .. Len(s) - p : b[n] = s[p + n]
  <2>1. p + 1 \in 1 .. Len(s) + 1
    BY <1>1
  <2>2. /\ b \in Seq(T) /\ Len(b) = Len(s) - (p + 1) + 1
        /\ \A n \in 1 .. Len(s) - (p + 1) + 1 : b[n] = s[(p + 1) - 1 + n]
    BY <2>1, StretchToEnd
  <2> HIDE DEF b
  <2> QED BY <1>1, <2>2
<1>4. RemoveAt(s, p) = a \o b
  BY DEF RemoveAt
<1> HIDE DEF a, b
<1>5. /\ a \o b \in Seq(T) /\ Len(a \o b) = Len(a) + Len(b)
      /\ \A i \in 1 .. Len(a) + Len(b) : (a \o b)[i] = IF i <= Len(a) THEN a[i] ELSE b[i - Len(a)]
  BY <1>2, <1>3, ConcatProperties
<1>6. ASSUME NEW i \in 1 .. Len(s) - 1 PROVE (a \o b)[i] = IF i < p THEN s[i] ELSE s[i + 1]
  <2>1. i \in 1 .. Len(a) + Len(b)
    BY <1>1, <1>2, <1>3
  <2>2. CASE i < p
    BY <1>1, <1>2, <1>5, <2>1, <2>2
  <2>3. CASE ~(i < p)
    <3>1. i - (p - 1) \in 1 .. Len(s) - p /\ p + (i - (p - 1)) = i + 1 /\ ~(i <= p - 1)
      BY <1>1, <2>3
    <3>2. (a \o b)[i] = b[i - (p - 1)]
      BY <1>2, <1>5, <2>1, <3>1
    <3> QED BY <1>3, <2>3, <3>1, <3>2
  <2> QED BY <2>2, <2>3
<1> QED BY <1>1, <1>2, <1>3, <1>4, <1>5, <1>6

LEMMA UnwatchedIsUsable ==
    ASSUME NEW set, NEW names, NEW s, Usable(set, names), s \in ToSet(set.symbols), Len(set.symbols) > 1
    PROVE  Usable(Unwatched(set, s), names)
<1> DEFINE was == set.symbols
           p == Position(set, s)
           left == RemoveAt(was, p)
           k == Len(was)
<1>1. was \in Seq(Name) /\ IsInjective(was) /\ ToSet(was) \subseteq names /\ set.display \in DOMAIN was
  BY DEF Usable
<1>2. p \in DOMAIN was
  BY <1>1, PositionIs
<1>3. Unwatched(set, s) = [symbols |-> left, display |-> Min({set.display, Len(left)})]
  BY DEF Unwatched
<1> HIDE DEF was, p
<1>4. k \in Nat /\ k > 1 /\ p \in 1 .. k /\ DOMAIN was = 1 .. k /\ set.display \in 1 .. k
  BY <1>1, <1>2 DEF was
<1>5. /\ left \in Seq(Name) /\ Len(left) = k - 1
      /\ \A i \in 1 .. k - 1 : left[i] = IF i < p THEN was[i] ELSE was[i + 1]
  BY <1>1, <1>4, Removed
<1> HIDE DEF left, k
<1>6. DOMAIN left = 1 .. k - 1
  BY <1>5
<1>7. \A i, j \in 1 .. k : was[i] = was[j] => i = j
  BY <1>1, <1>4 DEF IsInjective
<1>8. IsInjective(left)
  <2>1. ASSUME NEW i \in 1 .. k - 1, NEW j \in 1 .. k - 1, left[i] = left[j] PROVE i = j
    <3>1. i \in 1 .. k /\ i + 1 \in 1 .. k /\ j \in 1 .. k /\ j + 1 \in 1 .. k
      BY <1>4
    <3> QED BY <1>4, <1>5, <1>7, <2>1, <3>1
  <2> QED BY <1>6, <2>1 DEF IsInjective
<1>9. ToSet(left) \subseteq names
  <2>1. ASSUME NEW i \in 1 .. k - 1 PROVE left[i] \in names
    <3>1. i \in 1 .. k /\ i + 1 \in 1 .. k
      BY <1>4
    <3>2. was[i] \in names /\ was[i + 1] \in names
      BY <1>1, <1>4, <3>1 DEF ToSet
    <3> QED BY <1>5, <3>2
  <2> QED BY <1>6, <2>1 DEF ToSet
<1>10. Min({set.display, Len(left)}) \in 1 .. k - 1
  <2>1. set.display \in Int /\ Len(left) \in Int
    BY <1>4, <1>5
  <2>2. Min({set.display, Len(left)}) = IF set.display <= Len(left) THEN set.display ELSE Len(left)
    BY <2>1, MinOfTwo
  <2> QED BY <1>4, <1>5, <2>2
<1>11. Min({set.display, Len(left)}) \in Nat
  BY <1>4, <1>10
<1> QED BY <1>3, <1>5, <1>6, <1>8, <1>9, <1>10, <1>11 DEF Usable

LEMMA LoadIsUsable ==
    ASSUME NEW lines \in Seq(Name), NEW names, ToSet(lines) \subseteq names, Default \in names
    PROVE  Usable(Load(lines), names)
<1> DEFINE found == SymbolsOf(lines)
<1>1. found \in Seq(Name) /\ IsInjective(found) /\ ToSet(found) \subseteq names
  BY SymbolsAre
<1>2. Load(lines) = IF found = <<>> THEN Single(Default) ELSE [symbols |-> found, display |-> 1]
  BY DEF Load
<1> HIDE DEF found
<1>3. CASE found = <<>>
  BY <1>2, <1>3, SingleIsUsable, DeskAssumption DEF Name
<1>4. CASE found # <<>>
  <2>1. 1 \in DOMAIN found
    BY <1>1, <1>4
  <2> QED BY <1>1, <1>2, <1>4, <2>1 DEF Usable
<1> QED BY <1>3, <1>4

--------------------------------------------------------------------------------
(* The watch set: what keeps it usable, with any windows on the file.      *)

\* What may be watched.
Watchable == ToSet(Listed) \cup dkForced \cup {Default}

\* DeskInv.  Every set in memory is usable, and so is what can be loaded: no
\* inode, half written or written over, has a line that may not be watched.
DeskInv ==
    /\ dkForced \subseteq Name
    /\ dkInodes \in Seq(Seq(Name))
    /\ \A i \in 1 .. Len(dkInodes) : ToSet(dkInodes[i]) \subseteq Watchable
    /\ dkDir \in [watch : 0 .. Len(dkInodes), temp : 0 .. Len(dkInodes)]
    /\ dkSave \in [Windows -> [at : {"idle", "create", "write", "rename"},
                               inode : 0 .. Len(dkInodes), switches : BOOLEAN]]
    /\ dkSet \in [Windows -> [symbols : Seq(Name), display : Nat]]
    /\ \A w \in Windows : /\ Usable(dkSet[w], Watchable)
                          /\ dkSave[w].at = "write" => dkSave[w].inode # 0

LEMMA UsableMore ==
    ASSUME NEW set, NEW names, NEW more, names \subseteq more, Usable(set, names)
    PROVE  Usable(set, more)
  BY DEF Usable

\* The first n of a, over b.
Over(a, b, n) == SubSeq(a, 1, n) \o SubSeq(b, n + 1, Len(b))

LEMMA OverIs ==
    ASSUME NEW a \in Seq(Name), NEW b \in Seq(Name), NEW n \in 0 .. Len(a)
    PROVE  /\ Over(a, b, n) \in Seq(Name)
           /\ ToSet(Over(a, b, n)) \subseteq ToSet(a) \cup ToSet(b)
           /\ b = <<>> => Over(a, b, Len(a)) = a
<1> DEFINE c == SubSeq(a, 1, n)
           d == SubSeq(b, n + 1, Len(b))
<1>1. Len(a) \in Nat /\ Len(b) \in Nat /\ n \in Nat /\ n <= Len(a)
  OBVIOUS
<1>2. c \in Seq(Name) /\ Len(c) = n /\ \A i \in 1 .. n : c[i] = a[i]
  <2>1. 1 \in 1 .. Len(a) + 1 /\ n \in 1 - 1 .. Len(a)
    BY <1>1
  <2>2. c \in Seq(Name) /\ Len(c) = n - 1 + 1 /\ \A i \in 1 .. n - 1 + 1 : c[i] = a[1 - 1 + i]
    BY <2>1, Stretch
  <2> HIDE DEF c
  <2> QED BY <1>1, <2>2
<1>3. d \in Seq(Name) /\ \A i \in 1 .. Len(d) : n + i \in 1 .. Len(b) /\ d[i] = b[n + i]
  <2>1. CASE n < Len(b)
    <3>1. n + 1 \in 1 .. Len(b) + 1
      BY <1>1, <2>1
    <3>2. /\ d \in Seq(Name) /\ Len(d) = Len(b) - (n + 1) + 1
          /\ \A i \in 1 .. Len(b) - (n + 1) + 1 : d[i] = b[(n + 1) - 1 + i]
      BY <3>1, StretchToEnd
    <3> HIDE DEF d
    <3> QED BY <1>1, <2>1, <3>2
  <2>2. CASE ~(n < Len(b))
    <3>1. Len(b) < n + 1 /\ n + 1 \in Int /\ Len(b) \in Int
      BY <1>1, <2>2
    <3>2. d = <<>>
      BY <3>1, SubSeqEmpty
    <3> QED BY <3>2
  <2> QED BY <2>1, <2>2
<1>4. b = <<>> => SubSeq(b, Len(a) + 1, Len(b)) = <<>>
  <2> SUFFICES ASSUME b = <<>> PROVE SubSeq(b, Len(a) + 1, Len(b)) = <<>>
    OBVIOUS
  <2>1. Len(b) < Len(a) + 1 /\ Len(a) + 1 \in Int /\ Len(b) \in Int
    BY <1>1
  <2> QED BY <2>1, SubSeqEmpty
<1>5. SubSeq(a, 1, Len(a)) = a
  <2>1. /\ SubSeq(a, 1, Len(a)) \in Seq(Name) /\ Len(SubSeq(a, 1, Len(a))) = Len(a) - 1 + 1
        /\ \A i \in 1 .. Len(a) - 1 + 1 : SubSeq(a, 1, Len(a))[i] = a[1 - 1 + i]
    <3>1. 1 \in 1 .. Len(a) + 1
      BY <1>1
    <3> QED BY <3>1, StretchToEnd
  <2> QED BY <1>1, <2>1
<1>6. b = <<>> => Over(a, b, Len(a)) = a
  BY <1>4, <1>5, ConcatEmptySeq DEF Over
<1>7. Over(a, b, n) = c \o d
  BY DEF Over
<1> HIDE DEF c, d
<1>8. /\ c \o d \in Seq(Name) /\ Len(c \o d) = Len(c) + Len(d)
      /\ \A i \in 1 .. Len(c) + Len(d) : (c \o d)[i] = IF i <= Len(c) THEN c[i] ELSE d[i - Len(c)]
  BY <1>2, <1>3, ConcatProperties
<1>9. ASSUME NEW e \in ToSet(c \o d) PROVE e \in ToSet(a) \cup ToSet(b)
  <2>1. PICK i \in 1 .. Len(c) + Len(d) : (c \o d)[i] = e
    BY <1>8, SetOfSeq
  <2>2. Len(d) \in Nat
    BY <1>3
  <2>3. CASE i <= n
    <3>1. i \in 1 .. Len(a) /\ e = a[i]
      BY <1>1, <1>2, <1>8, <2>1, <2>3
    <3> QED BY <3>1, SetOfSeq
  <2>4. CASE ~(i <= n)
    <3>1. i - n \in 1 .. Len(d)
      BY <1>1, <1>2, <2>1, <2>2, <2>4
    <3>2. e = d[i - n]
      BY <1>2, <1>8, <2>1, <2>4
    <3>3. n + (i - n) \in 1 .. Len(b) /\ e = b[n + (i - n)]
      BY <1>3, <3>1, <3>2
    <3> QED BY <3>3, SetOfSeq
  <2> QED BY <2>3, <2>4
<1> QED BY <1>6, <1>7, <1>8, <1>9

\* A write of some of the lines changes the inode it writes and no other.
LEMMA WrittenIs ==
    ASSUME DeskInv, NEW w \in Windows, dkSave[w].at = "write", NEW n \in 0 .. Len(dkSet[w].symbols)
    PROVE  /\ Written(w, n) \in Seq(Seq(Name))
           /\ Len(Written(w, n)) = Len(dkInodes)
           /\ dkSave[w].inode \in 1 .. Len(dkInodes)
           /\ Written(w, n)[dkSave[w].inode] = Over(dkSet[w].symbols, dkInodes[dkSave[w].inode], n)
           /\ \A i \in 1 .. Len(dkInodes) :
                /\ ToSet(Written(w, n)[i]) \subseteq Watchable
                /\ i # dkSave[w].inode => Written(w, n)[i] = dkInodes[i]
<1> DEFINE at == dkSave[w].inode
           a == dkSet[w].symbols
           b == dkInodes[at]
           new == Over(a, b, n)
<1>1. dkInodes \in Seq(Seq(Name)) /\ Len(dkInodes) \in Nat
  BY DEF DeskInv
<1>2. at \in 1 .. Len(dkInodes)
  <2>1. at \in 0 .. Len(dkInodes) /\ at # 0
    BY DEF DeskInv
  <2> HIDE DEF at
  <2> QED BY <1>1, <2>1
<1>3. a \in Seq(Name) /\ ToSet(a) \subseteq Watchable
  BY DEF DeskInv, Usable
<1>4. Written(w, n) = [dkInodes EXCEPT ![at] = new]
  BY DEF Written, Over
<1>5. \A i \in 1 .. Len(dkInodes) : ToSet(dkInodes[i]) \subseteq Watchable
  BY DEF DeskInv
<1>6. n \in 0 .. Len(a)
  OBVIOUS
<1> HIDE DEF at, a
<1>7. b \in Seq(Name) /\ ToSet(b) \subseteq Watchable
  BY <1>1, <1>2, <1>5, ElementOfSeq
<1>8. new \in Seq(Name) /\ ToSet(new) \subseteq Watchable
  BY <1>3, <1>6, <1>7, OverIs
<1> HIDE DEF new
<1>9. /\ [dkInodes EXCEPT ![at] = new] \in Seq(Seq(Name))
      /\ Len([dkInodes EXCEPT ![at] = new]) = Len(dkInodes)
      /\ \A i \in 1 .. Len(dkInodes) :
            [dkInodes EXCEPT ![at] = new][i] = IF i = at THEN new ELSE dkInodes[i]
  BY <1>1, <1>2, <1>8
<1> QED BY <1>2, <1>4, <1>5, <1>8, <1>9 DEF at, a, new

\* A save cut short leaves the inodes usable, and those it does not write as
\* they are.
LEMMA CutShortIs ==
    ASSUME DeskInv, NEW w \in Windows, CutShort(w)
    PROVE  /\ dkInodes' \in Seq(Seq(Name))
           /\ Len(dkInodes') = Len(dkInodes)
           /\ \A i \in 1 .. Len(dkInodes) :
                /\ ToSet(dkInodes'[i]) \subseteq Watchable
                /\ dkSave[w].at # "write" \/ i # dkSave[w].inode => dkInodes'[i] = dkInodes[i]
<1>1. CASE dkSave[w].at = "write"
  <2>1. PICK n \in 0 .. Len(dkSet[w].symbols) : dkInodes' = Written(w, n)
    BY <1>1 DEF CutShort
  <2> QED BY <1>1, <2>1, WrittenIs
<1>2. CASE dkSave[w].at # "write"
  <2>1. dkInodes' = dkInodes
    BY <1>2 DEF CutShort
  <2> QED BY <2>1 DEF DeskInv
<1> QED BY <1>1, <1>2

LEMMA DeskStarts == DeskInit => DeskInv
<1> SUFFICES ASSUME DeskInit PROVE DeskInv
  OBVIOUS
<1>1. Default \in Name /\ Default \in Watchable
  BY DeskAssumption DEF Name, Watchable
<1>2. Usable(Single(Default), Watchable)
  BY <1>1, SingleIsUsable
<1>3. dkSet = [w \in Windows |-> Single(Default)] /\ dkInodes = <<>> /\ dkForced = {}
  BY DEF DeskInit
<1>4. dkDir = [watch |-> 0, temp |-> 0] /\ dkSave = [w \in Windows |-> Saving(FALSE)]
  BY DEF DeskInit
<1>5. Saving(FALSE) = [at |-> "create", inode |-> 0, switches |-> FALSE]
  BY DEF Saving
<1>6. Len(dkInodes) = 0 /\ dkInodes \in Seq(Seq(Name))
  BY <1>3
<1>7. \A w \in Windows : dkSet[w] = Single(Default)
  BY <1>3
<1>8. dkSet \in [Windows -> [symbols : Seq(Name), display : Nat]]
  <2>1. Single(Default) \in [symbols : Seq(Name), display : Nat]
    BY <1>2 DEF Usable
  <2> QED BY <1>3, <2>1
<1>9. dkSave \in [Windows -> [at : {"idle", "create", "write", "rename"},
                              inode : 0 .. Len(dkInodes), switches : BOOLEAN]]
  <2> DEFINE saves == [at : {"idle", "create", "write", "rename"},
                       inode : 0 .. Len(dkInodes), switches : BOOLEAN]
  <2>1. 0 \in 0 .. Len(dkInodes)
    BY <1>6
  <2>2. Saving(FALSE) \in saves
    BY <2>1 DEF Saving
  <2> HIDE DEF saves
  <2>3. dkSave \in [Windows -> saves]
    BY <1>4, <2>2
  <2> QED BY <2>3 DEF saves
<1>10. \A w \in Windows : dkSave[w].at # "write"
  <2>1. \A w \in Windows : dkSave[w] = Saving(FALSE)
    BY <1>4
  <2>2. Saving(FALSE).at = "create"
    BY DEF Saving
  <2> QED BY <2>1, <2>2
<1>11. dkDir \in [watch : 0 .. Len(dkInodes), temp : 0 .. Len(dkInodes)]
  BY <1>4, <1>6
<1> QED BY <1>2, <1>3, <1>6, <1>7, <1>8, <1>9, <1>10, <1>11 DEF DeskInv

\* A command leaves a usable set, to be saved.
LEMMA ChangesKeep ==
    ASSUME DeskInv, NEW w \in Windows, NEW set, NEW switches \in BOOLEAN, Changes(w, set, switches),
           dkForced \subseteq dkForced', dkForced' \subseteq Name, Usable(set, Watchable'),
           UNCHANGED <<dkInodes, dkDir>>
    PROVE  DeskInv'
<1>1. Watchable \subseteq Watchable'
  BY DEF Watchable
<1>2. dkSet' = [dkSet EXCEPT ![w] = set] /\ dkSave' = [dkSave EXCEPT ![w] = Saving(switches)]
  BY DEF Changes
<1>3. dkSet \in [Windows -> [symbols : Seq(Name), display : Nat]]
  BY DEF DeskInv
<1>4. \A v \in Windows : dkSet'[v] = IF v = w THEN set ELSE dkSet[v]
  BY <1>2, <1>3
<1>5. \A v \in Windows : Usable(dkSet'[v], Watchable')
  <2> SUFFICES ASSUME NEW v \in Windows PROVE Usable(dkSet'[v], Watchable')
    OBVIOUS
  <2>1. Usable(dkSet[v], Watchable)
    BY DEF DeskInv
  <2>2. Usable(dkSet[v], Watchable')
    BY <1>1, <2>1, UsableMore
  <2> QED BY <1>4, <2>2
<1>6. Saving(switches) \in [at : {"idle", "create", "write", "rename"}, inode : 0 .. Len(dkInodes), switches : BOOLEAN]
  <2>1. 0 \in 0 .. Len(dkInodes)
    BY DEF DeskInv
  <2> QED BY <2>1 DEF Saving
<1>7. dkSave' \in [Windows -> [at : {"idle", "create", "write", "rename"},
                               inode : 0 .. Len(dkInodes), switches : BOOLEAN]]
  BY <1>2, <1>6 DEF DeskInv
<1>8. \A v \in Windows : dkSave'[v] = IF v = w THEN Saving(switches) ELSE dkSave[v]
  BY <1>2 DEF DeskInv
<1>9. \A v \in Windows : dkSave'[v].at = "write" => dkSave'[v].inode # 0
  <2>1. Saving(switches).at = "create"
    BY DEF Saving
  <2>2. \A v \in Windows : dkSave[v].at = "write" => dkSave[v].inode # 0
    BY DEF DeskInv
  <2> QED BY <1>8, <2>1, <2>2
<1>10. dkInodes' = dkInodes /\ dkDir' = dkDir
  OBVIOUS
<1>11. dkSet' \in [Windows -> [symbols : Seq(Name), display : Nat]]
  <2>1. set \in [symbols : Seq(Name), display : Nat]
    BY DEF Usable
  <2> QED BY <1>2, <1>3, <2>1
<1>12. \A i \in 1 .. Len(dkInodes) : ToSet(dkInodes[i]) \subseteq Watchable'
  BY <1>1 DEF DeskInv
<1>13. dkInodes \in Seq(Seq(Name)) /\ dkDir \in [watch : 0 .. Len(dkInodes), temp : 0 .. Len(dkInodes)]
  BY DEF DeskInv
<1> QED BY <1>4, <1>5, <1>7, <1>9, <1>10, <1>11, <1>12, <1>13 DEF DeskInv

LEMMA CommandsKeep ==
    ASSUME DeskInv, NEW w \in Windows, NEW typed \in Typable,
           ActSelect(w, typed) \/ ActForce(w, typed) \/ ActOnly(w, typed) \/ ActUnwatch(w, typed)
    PROVE  DeskInv'
<1>1. Usable(dkSet[w], Watchable) /\ dkForced \subseteq Name
  BY DEF DeskInv
<1>2. typed \in Name
  BY DeskAssumption DEF Name
<1>3. ToSet(Listed) \subseteq Watchable
  BY DEF Watchable
<1>4. CASE ActSelect(w, typed)
  <2>1. Resolve(typed) \in Name /\ Resolve(typed) \in Watchable
    BY <1>3, <1>4, ResolvedIsListed DEF ActSelect
  <2>2. Usable(Select(dkSet[w], Resolve(typed)), Watchable)
    BY <1>1, <2>1, SelectIsUsable
  <2>3. Changes(w, Select(dkSet[w], Resolve(typed)), TRUE) /\ UNCHANGED <<dkInodes, dkDir, dkForced>>
    BY <1>4 DEF ActSelect
  <2>4. Watchable' = Watchable
    BY <2>3 DEF Watchable
  <2> QED BY <1>1, <2>2, <2>3, <2>4, ChangesKeep
<1>5. CASE ActForce(w, typed)
  <2>1. /\ Changes(w, Select(dkSet[w], typed), TRUE) /\ UNCHANGED <<dkInodes, dkDir>>
        /\ dkForced' = dkForced \cup {typed}
    BY <1>5 DEF ActForce
  <2>2. Watchable \subseteq Watchable' /\ typed \in Watchable'
    BY <2>1 DEF Watchable
  <2>3. Usable(dkSet[w], Watchable')
    BY <1>1, <2>2, UsableMore
  <2>4. Usable(Select(dkSet[w], typed), Watchable')
    BY <1>2, <2>2, <2>3, SelectIsUsable
  <2> QED BY <1>1, <1>2, <2>1, <2>4, ChangesKeep
<1>6. CASE ActOnly(w, typed)
  <2>1. Resolve(typed) \in Name /\ Resolve(typed) \in Watchable
    BY <1>3, <1>6, ResolvedIsListed DEF ActOnly
  <2>2. Usable(Single(Resolve(typed)), Watchable)
    BY <2>1, SingleIsUsable
  <2>3. Changes(w, Single(Resolve(typed)), TRUE) /\ UNCHANGED <<dkInodes, dkDir, dkForced>>
    BY <1>6 DEF ActOnly
  <2>4. Watchable' = Watchable
    BY <2>3 DEF Watchable
  <2> QED BY <1>1, <2>2, <2>3, <2>4, ChangesKeep
<1>7. CASE ActUnwatch(w, typed)
  <2>1. dkSet[w].symbols \in Seq(Name)
    BY <1>1 DEF Usable
  <2>2. Len(dkSet[w].symbols) > 1 /\ \E i \in 1 .. Len(dkSet[w].symbols) : dkSet[w].symbols[i] = typed
    BY <1>7 DEF ActUnwatch, Contains
  <2>3. typed \in ToSet(dkSet[w].symbols)
    BY <2>1, <2>2, SetOfSeq
  <2>4. Usable(Unwatched(dkSet[w], typed), Watchable)
    BY <1>1, <2>2, <2>3, UnwatchedIsUsable
  <2>5. Changes(w, Unwatched(dkSet[w], typed), FALSE) /\ UNCHANGED <<dkInodes, dkDir, dkForced>>
    BY <1>7 DEF ActUnwatch
  <2>6. Watchable' = Watchable
    BY <2>5 DEF Watchable
  <2> QED BY <1>1, <2>4, <2>5, <2>6, ChangesKeep
<1> QED BY <1>4, <1>5, <1>6, <1>7

\* A step of a save changes no set.
LEMMA SavesKeep ==
    ASSUME DeskInv, NEW w \in Windows,
           SaveCreate(w) \/ SaveWrite(w) \/ SaveRename(w) \/ SaveFails(w)
    PROVE  DeskInv'
<1> DEFINE saves(n) == [at : {"idle", "create", "write", "rename"}, inode : 0 .. n, switches : BOOLEAN]
           k == Len(dkInodes)
<1>1. dkSet' = dkSet /\ dkForced' = dkForced
  BY DEF SaveCreate, SaveWrite, SaveRename, SaveFails
<1>2. Watchable' = Watchable
  BY <1>1 DEF Watchable
<1>3. /\ dkForced' \subseteq Name /\ dkSet' \in [Windows -> [symbols : Seq(Name), display : Nat]]
      /\ \A v \in Windows : Usable(dkSet'[v], Watchable')
  BY <1>1, <1>2 DEF DeskInv
<1>4. dkInodes \in Seq(Seq(Name)) /\ k \in Nat /\ \A i \in 1 .. k : ToSet(dkInodes[i]) \subseteq Watchable
  BY DEF DeskInv
<1>5. dkDir \in [watch : 0 .. k, temp : 0 .. k] /\ dkSave \in [Windows -> saves(k)]
  BY DEF DeskInv
<1>6. \A v \in Windows : dkSave[v].at = "write" => dkSave[v].inode # 0
  BY DEF DeskInv
<1>7. SUFFICES /\ dkInodes' \in Seq(Seq(Name))
               /\ \A i \in 1 .. Len(dkInodes') : ToSet(dkInodes'[i]) \subseteq Watchable
               /\ dkDir' \in [watch : 0 .. Len(dkInodes'), temp : 0 .. Len(dkInodes')]
               /\ dkSave' \in [Windows -> saves(Len(dkInodes'))]
               /\ \A v \in Windows : dkSave'[v].at = "write" => dkSave'[v].inode # 0
  BY <1>2, <1>3 DEF DeskInv
<1>8. Idle \in saves(k) /\ Idle.at # "write"
  BY <1>4 DEF Idle
<1>9. ASSUME dkSave' = [dkSave EXCEPT ![w] = Idle]
      PROVE  dkSave' \in [Windows -> saves(k)] /\ \A v \in Windows : dkSave'[v].at = "write" => dkSave'[v].inode # 0
  <2> HIDE DEF saves
  <2>1. \A v \in Windows : dkSave'[v] = IF v = w THEN Idle ELSE dkSave[v]
    BY <1>5, <1>9
  <2> QED BY <1>5, <1>6, <1>8, <1>9, <2>1
<1>10. CASE SaveCreate(w)
  <2> DEFINE new == k + 1
             at == IF dkDir[Scratch] = 0 THEN new ELSE dkDir[Scratch]
  <2>1. Scratch = "temp"
    BY DEF Scratch
  <2>2. /\ dkInodes' = IF at = new THEN Append(dkInodes, <<>>) ELSE [dkInodes EXCEPT ![at] = <<>>]
        /\ dkDir' = [dkDir EXCEPT !.temp = at]
        /\ dkSave' = [dkSave EXCEPT ![w].at = "write", ![w].inode = at]
    BY <1>10, <2>1 DEF SaveCreate
  <2>3. at \in 1 .. k + 1 /\ (at # new => at \in 1 .. k)
    BY <1>4, <1>5, <2>1
  <2> HIDE DEF at, k
  <2>4. <<>> \in Seq(Name) /\ ToSet(<<>>) \subseteq Watchable
    BY DEF ToSet
  <2>5. /\ dkInodes' \in Seq(Seq(Name)) /\ Len(dkInodes') \in {k, k + 1} /\ at \in 1 .. Len(dkInodes')
        /\ \A i \in 1 .. Len(dkInodes') : dkInodes'[i] = <<>> \/ (i \in 1 .. k /\ dkInodes'[i] = dkInodes[i])
    <3>1. CASE at = new
      BY <1>4, <2>2, <2>3, <3>1 DEF k
    <3>2. CASE at # new
      BY <1>4, <2>2, <2>3, <3>2 DEF k
    <3> QED BY <3>1, <3>2
  <2>6. \A i \in 1 .. Len(dkInodes') : ToSet(dkInodes'[i]) \subseteq Watchable
    BY <1>4, <2>4, <2>5
  <2>7. 0 .. k \subseteq 0 .. Len(dkInodes') /\ at \in 0 .. Len(dkInodes') /\ at # 0
    BY <1>4, <2>5
  <2>8. dkDir' \in [watch : 0 .. Len(dkInodes'), temp : 0 .. Len(dkInodes')]
    BY <1>5, <2>2, <2>7
  <2>9. dkSave' = [dkSave EXCEPT ![w] = [dkSave[w] EXCEPT !.at = "write", !.inode = at]]
    BY <1>5, <2>2
  <2>10. [dkSave[w] EXCEPT !.at = "write", !.inode = at] \in saves(Len(dkInodes'))
    BY <1>5, <2>7
  <2>11. \A v \in Windows : dkSave[v] \in saves(Len(dkInodes'))
    BY <1>5, <2>7
  <2>12. [dkSave[w] EXCEPT !.at = "write", !.inode = at].inode = at
    BY <1>5
  <2> HIDE DEF saves
  <2>13. dkSave' \in [Windows -> saves(Len(dkInodes'))]
    BY <1>5, <2>9, <2>10, <2>11
  <2>14. \A v \in Windows : dkSave'[v].at = "write" => dkSave'[v].inode # 0
    BY <1>5, <1>6, <2>7, <2>9, <2>12
  <2> QED BY <2>5, <2>6, <2>8, <2>13, <2>14
<1>11. CASE SaveWrite(w)
  <2> DEFINE n == Len(dkSet[w].symbols)
  <2>1. n \in 0 .. n
    <3>1. dkSet[w].symbols \in Seq(Name)
      BY DEF DeskInv
    <3> QED BY <3>1
  <2>2. dkSave[w].at = "write" /\ dkInodes' = Written(w, n) /\ dkDir' = dkDir
    BY <1>11 DEF SaveWrite
  <2>3. dkSave' = [dkSave EXCEPT ![w].at = "rename"]
    BY <1>11 DEF SaveWrite
  <2>4. /\ dkInodes' \in Seq(Seq(Name)) /\ Len(dkInodes') = k
        /\ \A i \in 1 .. k : ToSet(dkInodes'[i]) \subseteq Watchable
    BY <2>1, <2>2, WrittenIs
  <2>5. dkSave' = [dkSave EXCEPT ![w] = [dkSave[w] EXCEPT !.at = "rename"]]
    BY <1>5, <2>3
  <2>6. [dkSave[w] EXCEPT !.at = "rename"] \in saves(k) /\ [dkSave[w] EXCEPT !.at = "rename"].at # "write"
    BY <1>5
  <2> HIDE DEF saves
  <2>7. dkSave' \in [Windows -> saves(k)]
    BY <1>5, <2>5, <2>6
  <2>8. \A v \in Windows : dkSave'[v].at = "write" => dkSave'[v].inode # 0
    BY <1>5, <1>6, <2>5, <2>6
  <2> QED BY <1>5, <2>2, <2>4, <2>7, <2>8
<1>12. CASE SaveRename(w)
  <2>1. dkSave' = [dkSave EXCEPT ![w] = Idle] /\ dkInodes' = dkInodes
    BY <1>12 DEF SaveRename
  <2>2. dkDir' = [dkDir EXCEPT !.watch = dkDir.temp, !.temp = 0]
    BY <1>12 DEF SaveRename, Scratch
  <2>3. dkDir' \in [watch : 0 .. k, temp : 0 .. k]
    <3>1. 0 \in 0 .. k /\ dkDir.temp \in 0 .. k
      BY <1>4, <1>5
    <3>2. dkDir' = [watch |-> dkDir.temp, temp |-> 0]
      BY <1>5, <2>2
    <3> QED BY <3>1, <3>2
  <2> QED BY <1>4, <1>9, <2>1, <2>3
<1>13. CASE SaveFails(w)
  <2>1. dkSave' = [dkSave EXCEPT ![w] = Idle] /\ dkDir' = dkDir /\ CutShort(w)
    BY <1>13 DEF SaveFails
  <2>2. /\ dkInodes' \in Seq(Seq(Name)) /\ Len(dkInodes') = k
        /\ \A i \in 1 .. k : ToSet(dkInodes'[i]) \subseteq Watchable
    BY <2>1, CutShortIs
  <2> QED BY <1>5, <1>9, <2>1, <2>2
<1> QED BY <1>10, <1>11, <1>12, <1>13

\* A window that opens again reads a file of names that may be watched.
LEMMA ReopenKeeps ==
    ASSUME DeskInv, NEW w \in Windows, Reopen(w)
    PROVE  DeskInv'
<1> DEFINE saves == [at : {"idle", "create", "write", "rename"}, inode : 0 .. Len(dkInodes), switches : BOOLEAN]
           k == Len(dkInodes)
<1>1. /\ dkDir' = dkDir /\ dkForced' = dkForced /\ CutShort(w)
      /\ dkSet' = [dkSet EXCEPT ![w] = Load(Lines')]
      /\ dkSave' = [dkSave EXCEPT ![w] = Saving(FALSE)]
  BY DEF Reopen
<1>2. Watchable' = Watchable
  BY <1>1 DEF Watchable
<1>3. /\ dkInodes' \in Seq(Seq(Name)) /\ Len(dkInodes') = k
      /\ \A i \in 1 .. k : ToSet(dkInodes'[i]) \subseteq Watchable
  BY <1>1, CutShortIs
<1>4. dkDir \in [watch : 0 .. k, temp : 0 .. k] /\ k \in Nat
  BY DEF DeskInv
<1>5. Lines' \in Seq(Name) /\ ToSet(Lines') \subseteq Watchable
  <2>1. CASE dkDir.watch = 0
    <3>1. Lines' = <<>>
      BY <1>1, <2>1 DEF Lines
    <3> QED BY <3>1 DEF ToSet
  <2>2. CASE dkDir.watch # 0
    <3>1. Lines' = dkInodes'[dkDir.watch]
      BY <1>1, <2>2 DEF Lines
    <3>2. dkDir.watch \in 1 .. k
      BY <1>4, <2>2
    <3> QED BY <1>3, <3>1, <3>2, ElementOfSeq
  <2> QED BY <2>1, <2>2
<1>6. Usable(Load(Lines'), Watchable)
  BY <1>5, LoadIsUsable DEF Watchable
<1>7. dkSet \in [Windows -> [symbols : Seq(Name), display : Nat]] /\ \A v \in Windows : Usable(dkSet[v], Watchable)
  BY DEF DeskInv
<1>8. Load(Lines') \in [symbols : Seq(Name), display : Nat]
  BY <1>6 DEF Usable
<1>9. /\ dkSet' \in [Windows -> [symbols : Seq(Name), display : Nat]]
      /\ \A v \in Windows : Usable(dkSet'[v], Watchable)
  BY <1>1, <1>6, <1>7, <1>8
<1>10. Saving(FALSE) \in saves /\ Saving(FALSE).at # "write"
  BY <1>4 DEF Saving
<1>11. dkSave \in [Windows -> saves] /\ \A v \in Windows : dkSave[v].at = "write" => dkSave[v].inode # 0
  BY DEF DeskInv
<1> HIDE DEF saves
<1>12. dkSave' \in [Windows -> saves] /\ \A v \in Windows : dkSave'[v].at = "write" => dkSave'[v].inode # 0
  BY <1>1, <1>10, <1>11
<1>13. dkForced \subseteq Name
  BY DEF DeskInv
<1> QED BY <1>1, <1>2, <1>3, <1>4, <1>9, <1>12, <1>13 DEF DeskInv, saves

LEMMA DeskStays == DeskInv /\ [DeskNext]_deskVars => DeskInv'
<1> SUFFICES ASSUME DeskInv, [DeskNext]_deskVars PROVE DeskInv'
  OBVIOUS
<1>1. CASE UNCHANGED deskVars
  BY <1>1 DEF deskVars, DeskInv, Watchable
<1>2. CASE DeskNext
  <2>1. PICK w \in Windows :
            \/ \E typed \in Typable :
                  ActSelect(w, typed) \/ ActForce(w, typed) \/ ActOnly(w, typed) \/ ActUnwatch(w, typed)
            \/ SaveCreate(w) \/ SaveWrite(w) \/ SaveRename(w) \/ SaveFails(w) \/ Reopen(w)
    BY <1>2 DEF DeskNext
  <2> QED BY <2>1, CommandsKeep, SavesKeep, ReopenKeeps
<1> QED BY <1>1, <1>2

\* SetsStayUsable.  With any number of windows that save to one file, over each
\* other's lines, and end where they will, no window's set is empty, has a
\* symbol twice, displays one it does not have or watches what is neither listed
\* nor forced (Watch::load, add, select and remove; actions.rs).
THEOREM SetsStayUsable == DeskInit /\ [][DeskNext]_deskVars => []SetsAreUsable
<1>1. DeskInv => SetsAreUsable
  BY DEF DeskInv, Usable, Watchable, SetsAreUsable
<1> QED BY <1>1, DeskStarts, DeskStays, PTL

--------------------------------------------------------------------------------
(* The watch file, with one window.                                        *)

\* OneFile.  The watch file is an inode of its own, which no save writes, with a
\* set that was saved; what a save writes is under the temporary name, empty
\* until it is written and then whole.
OneFile ==
    /\ dkDir.watch # 0 => dkDir.watch # dkDir.temp /\ dkInodes[dkDir.watch] \in dkSaved
    /\ \A w \in Windows :
        /\ dkSave[w].at \in {"write", "rename"} => dkDir.temp # 0 /\ dkSave[w].inode = dkDir.temp
        /\ dkSave[w].at = "write" => dkInodes[dkDir.temp] = <<>>
        /\ dkSave[w].at = "rename" => dkInodes[dkDir.temp] \in dkSaved

LEMMA FileStarts == DeskInit => OneFile
<1> SUFFICES ASSUME DeskInit PROVE OneFile
  OBVIOUS
<1>1. dkDir.watch = 0
  BY DEF DeskInit
<1>2. \A w \in Windows : dkSave[w] = Saving(FALSE)
  BY DEF DeskInit
<1>3. Saving(FALSE).at = "create"
  BY DEF Saving
<1> QED BY <1>1, <1>2, <1>3 DEF OneFile

\* With the save over, what is under the temporary name does not matter.
LEMMA SaveOver ==
    ASSUME NEW w, Windows = {w}, dkSave'[w].at \in {"idle", "create"},
           dkDir'.watch # 0 => dkDir'.watch # dkDir'.temp /\ dkInodes'[dkDir'.watch] \in dkSaved'
    PROVE  OneFile'
  BY DEF OneFile

\* A save cut short leaves the file as it is.
LEMMA CutShortSpares ==
    ASSUME DeskInv, OneFile, NEW w \in Windows, CutShort(w), dkDir.watch # 0
    PROVE  dkInodes'[dkDir.watch] = dkInodes[dkDir.watch]
<1>1. dkDir.watch \in 1 .. Len(dkInodes)
  <2>1. dkDir.watch \in 0 .. Len(dkInodes)
    BY DEF DeskInv
  <2> QED BY <2>1
<1>2. dkSave[w].at # "write" \/ dkDir.watch # dkSave[w].inode
  BY DEF OneFile
<1> QED BY <1>1, <1>2, CutShortIs

LEMMA FileStays ==
    ASSUME NEW w, Windows = {w}, DeskInv, OneFile, [DeskNext]_deskVars
    PROVE  OneFile'
<1> DEFINE k == Len(dkInodes)
<1>1. w \in Windows
  OBVIOUS
<1>2. dkDir \in [watch : 0 .. k, temp : 0 .. k] /\ k \in Nat /\ dkInodes \in Seq(Seq(Name))
  BY DEF DeskInv
<1>3. dkSave \in [Windows -> [at : {"idle", "create", "write", "rename"}, inode : 0 .. k, switches : BOOLEAN]]
  BY DEF DeskInv
<1>4. dkDir.watch # 0 => dkDir.watch # dkDir.temp /\ dkInodes[dkDir.watch] \in dkSaved
  BY DEF OneFile
<1>5. Saving(TRUE).at = "create" /\ Saving(FALSE).at = "create" /\ Idle.at = "idle"
  BY DEF Saving, Idle
<1>6. ASSUME NEW set, NEW switches \in BOOLEAN, Changes(w, set, switches),
             UNCHANGED <<dkInodes, dkDir, dkSaved>>
      PROVE  OneFile'
  <2>1. dkSave'[w] = Saving(switches)
    BY <1>3, <1>6 DEF Changes
  <2>2. Saving(switches).at = "create"
    BY DEF Saving
  <2> QED BY <1>4, <1>6, <2>1, <2>2, SaveOver
<1>7. ASSUME NEW typed \in Typable,
             ActSelect(w, typed) \/ ActForce(w, typed) \/ ActOnly(w, typed) \/ ActUnwatch(w, typed)
      PROVE  OneFile'
  <2>1. CASE ActSelect(w, typed)
    BY <1>6, <2>1 DEF ActSelect
  <2>2. CASE ActForce(w, typed)
    BY <1>6, <2>2 DEF ActForce
  <2>3. CASE ActOnly(w, typed)
    BY <1>6, <2>3 DEF ActOnly
  <2>4. CASE ActUnwatch(w, typed)
    BY <1>6, <2>4 DEF ActUnwatch
  <2> QED BY <1>7, <2>1, <2>2, <2>3, <2>4
<1>8. CASE SaveCreate(w)
  <2> DEFINE new == k + 1
             at == IF dkDir[Scratch] = 0 THEN new ELSE dkDir[Scratch]
  <2>1. Scratch = "temp"
    BY DEF Scratch
  <2>2. /\ dkInodes' = IF at = new THEN Append(dkInodes, <<>>) ELSE [dkInodes EXCEPT ![at] = <<>>]
        /\ dkDir' = [dkDir EXCEPT !.temp = at]
        /\ dkSave' = [dkSave EXCEPT ![w].at = "write", ![w].inode = at]
        /\ dkSaved' = dkSaved
    BY <1>8, <2>1 DEF SaveCreate
  <2>3. at \in 1 .. k + 1 /\ (at # new => at \in 1 .. k) /\ (dkDir.watch # 0 => dkDir.watch # at)
    BY <1>2, <1>4, <2>1
  <2> HIDE DEF at, k
  <2>4. /\ dkInodes'[at] = <<>>
        /\ \A i \in 1 .. k : i # at => dkInodes'[i] = dkInodes[i]
    <3>1. CASE at = new
      BY <1>2, <2>2, <2>3, <3>1 DEF k
    <3>2. CASE at # new
      BY <1>2, <2>2, <2>3, <3>2 DEF k
    <3> QED BY <3>1, <3>2
  <2>5. dkDir'.watch = dkDir.watch /\ dkDir'.temp = at
    BY <1>2, <2>2
  <2>6. dkDir.watch # 0 => dkDir.watch \in 1 .. k
    BY <1>2
  <2>7. dkSave'[w].at = "write" /\ dkSave'[w].inode = at
    BY <1>1, <1>3, <2>2
  <2>8. at # 0
    BY <1>2, <2>3
  <2>9. dkDir'.watch # 0 => dkDir'.watch # dkDir'.temp /\ dkInodes'[dkDir'.watch] \in dkSaved'
    <3>1. dkSaved' = dkSaved
      BY <2>2
    <3>2. ASSUME dkDir.watch # 0 PROVE dkDir.watch # at /\ dkInodes'[dkDir.watch] \in dkSaved
      <4>1. dkDir.watch # at /\ dkDir.watch \in 1 .. k
        BY <2>3, <2>6, <3>2
      <4> QED BY <1>4, <2>4, <3>2, <4>1
    <3> QED BY <2>5, <3>1, <3>2
  <2> QED BY <2>4, <2>5, <2>7, <2>8, <2>9 DEF OneFile
<1>9. CASE SaveWrite(w)
  <2> DEFINE a == dkSet[w].symbols
             n == Len(a)
  <2>1. /\ dkSave[w].at = "write" /\ dkInodes' = Written(w, n) /\ dkDir' = dkDir
        /\ dkSaved' = dkSaved \cup {a} /\ dkSave' = [dkSave EXCEPT ![w].at = "rename"]
    BY <1>9 DEF SaveWrite
  <2>2. a \in Seq(Name) /\ n \in 0 .. n
    <3>1. a \in Seq(Name)
      BY DEF DeskInv
    <3> QED BY <3>1
  <2>3. dkDir.temp # 0 /\ dkSave[w].inode = dkDir.temp /\ dkInodes[dkDir.temp] = <<>>
    BY <2>1 DEF OneFile
  <2>4. /\ Written(w, n)[dkDir.temp] = Over(a, dkInodes[dkDir.temp], n)
        /\ \A i \in 1 .. k : i # dkDir.temp => Written(w, n)[i] = dkInodes[i]
    BY <2>1, <2>2, <2>3, WrittenIs
  <2>5. Over(a, <<>>, n) = a
    <3>1. <<>> \in Seq(Name)
      OBVIOUS
    <3> HIDE DEF a
    <3> QED BY <2>2, <3>1, OverIs
  <2>6. dkInodes'[dkDir.temp] = a
    BY <2>1, <2>3, <2>4, <2>5
  <2>7. dkDir.watch # 0 => dkDir.watch \in 1 .. k
    BY <1>2
  <2>8. dkSave'[w].at = "rename" /\ dkSave'[w].inode = dkDir.temp
    BY <1>1, <1>3, <2>1, <2>3
  <2> HIDE DEF a, n, k
  <2>9. dkDir.watch # 0 => dkInodes'[dkDir.watch] \in dkSaved'
    BY <1>4, <2>1, <2>4, <2>7
  <2> QED BY <1>4, <2>1, <2>3, <2>6, <2>8, <2>9 DEF OneFile
<1>10. CASE SaveRename(w)
  <2>1. /\ dkSave[w].at = "rename" /\ dkInodes' = dkInodes /\ dkSaved' = dkSaved
        /\ dkSave' = [dkSave EXCEPT ![w] = Idle]
        /\ dkDir' = [dkDir EXCEPT !.watch = dkDir.temp, !.temp = 0]
    BY <1>10 DEF SaveRename, Scratch
  <2>2. dkInodes[dkDir.temp] \in dkSaved
    BY <2>1 DEF OneFile
  <2>3. dkDir'.watch = dkDir.temp /\ dkDir'.temp = 0
    BY <1>2, <2>1
  <2>4. dkSave'[w].at = "idle"
    BY <1>1, <1>3, <1>5, <2>1
  <2> QED BY <2>1, <2>2, <2>3, <2>4, SaveOver
<1>11. CASE SaveFails(w)
  <2>1. CutShort(w) /\ dkDir' = dkDir /\ dkSaved' = dkSaved /\ dkSave' = [dkSave EXCEPT ![w] = Idle]
    BY <1>11 DEF SaveFails
  <2>2. dkSave'[w].at = "idle"
    BY <1>1, <1>3, <1>5, <2>1
  <2>3. dkDir.watch # 0 => dkInodes'[dkDir.watch] = dkInodes[dkDir.watch]
    BY <1>1, <2>1, CutShortSpares
  <2> QED BY <1>4, <2>1, <2>2, <2>3, SaveOver
<1>12. CASE Reopen(w)
  <2>1. CutShort(w) /\ dkDir' = dkDir /\ dkSaved' = dkSaved /\ dkSave' = [dkSave EXCEPT ![w] = Saving(FALSE)]
    BY <1>12 DEF Reopen
  <2>2. dkSave'[w].at = "create"
    BY <1>1, <1>3, <1>5, <2>1
  <2>3. dkDir.watch # 0 => dkInodes'[dkDir.watch] = dkInodes[dkDir.watch]
    BY <1>1, <2>1, CutShortSpares
  <2> QED BY <1>4, <2>1, <2>2, <2>3, SaveOver
<1>13. CASE UNCHANGED deskVars
  BY <1>13 DEF deskVars, OneFile
<1>14. CASE DeskNext
  BY <1>7, <1>8, <1>9, <1>10, <1>11, <1>12, <1>14 DEF DeskNext
<1> QED BY <1>13, <1>14

--------------------------------------------------------------------------------
(* What is offered can be typed.                                           *)

Spaceless(s) == \A i \in DOMAIN s : s[i] # Separator

\* The line is split at its first space.
LEMMA GapIs ==
    ASSUME NEW a \in Name, Spaceless(a), NEW b \in Name
    PROVE  /\ Gap(a) = 0
           /\ Gap(a \o Space \o b) = Len(a) + 1
           /\ SubSeq(a \o Space \o b, Len(a) + 2, Len(a \o Space \o b)) = b
<1> DEFINE line == a \o Space \o b
           at == {i \in DOMAIN line : line[i] = Separator}
           m == Len(a)
<1>1. Space \in Name /\ Len(Space) = 1 /\ Space[1] = Separator
  BY CatalogAssumption DEF Space, Name
<1>2. a \in Seq(Letters) /\ b \in Seq(Letters) /\ Space \in Seq(Letters) /\ m \in Nat /\ Len(b) \in Nat
  BY <1>1 DEF Name
<1>3. Gap(a) = 0
  BY DEF Spaceless, Gap
<1> HIDE DEF m
<1>4. /\ a \o Space \in Seq(Letters) /\ Len(a \o Space) = m + 1
      /\ \A i \in 1 .. m + 1 : (a \o Space)[i] = IF i <= m THEN a[i] ELSE Space[i - m]
  <2>1. /\ a \o Space \in Seq(Letters) /\ Len(a \o Space) = Len(a) + Len(Space)
        /\ \A i \in 1 .. Len(a) + Len(Space) :
              (a \o Space)[i] = IF i <= Len(a) THEN a[i] ELSE Space[i - Len(a)]
    BY <1>2, ConcatProperties
  <2>2. Len(a) + Len(Space) = m + 1
    BY <1>1 DEF m
  <2> QED BY <2>1, <2>2 DEF m
<1>5. /\ line \in Seq(Letters) /\ Len(line) = m + 1 + Len(b)
      /\ \A i \in 1 .. m + 1 + Len(b) : line[i] = IF i <= m + 1 THEN (a \o Space)[i] ELSE b[i - (m + 1)]
  <2> DEFINE head == a \o Space
  <2>1. head \in Seq(Letters) /\ Len(head) = m + 1
    BY <1>4
  <2>2. line = head \o b
    BY DEF line
  <2> HIDE DEF head, line
  <2>3. /\ head \o b \in Seq(Letters) /\ Len(head \o b) = Len(head) + Len(b)
        /\ \A i \in 1 .. Len(head) + Len(b) :
              (head \o b)[i] = IF i <= Len(head) THEN head[i] ELSE b[i - Len(head)]
    BY <1>2, <2>1, ConcatProperties
  <2> QED BY <2>1, <2>2, <2>3 DEF head
<1> HIDE DEF line
<1>6. \A i \in 1 .. m : line[i] = a[i] /\ a[i] # Separator
  <2>1. \A i \in 1 .. m : a[i] # Separator
    BY <1>2 DEF Spaceless, m
  <2> SUFFICES ASSUME NEW i \in 1 .. m PROVE line[i] = a[i]
    BY <2>1
  <2>2. i \in 1 .. m + 1 /\ i \in 1 .. m + 1 + Len(b) /\ i <= m /\ i <= m + 1
    BY <1>2
  <2> QED BY <1>4, <1>5, <2>2
<1>7. m + 1 \in DOMAIN line /\ line[m + 1] = Separator /\ DOMAIN line = 1 .. m + 1 + Len(b)
  <2>1. m + 1 \in 1 .. m + 1 /\ m + 1 \in 1 .. m + 1 + Len(b) /\ m + 1 <= m + 1 /\ ~(m + 1 <= m) /\ (m + 1) - m = 1
    BY <1>2
  <2>2. line[m + 1] = (a \o Space)[m + 1]
    <3>1. \A i \in 1 .. m + 1 + Len(b) :
              line[i] = IF i <= m + 1 THEN (a \o Space)[i] ELSE b[i - (m + 1)]
      BY <1>5
    <3> QED BY <2>1, <3>1, Zenon
  <2>3. (a \o Space)[m + 1] = Space[1]
    BY <1>4, <2>1
  <2>4. DOMAIN line = 1 .. m + 1 + Len(b)
    BY <1>5
  <2> QED BY <1>1, <2>1, <2>2, <2>3, <2>4
<1>8. Gap(line) = m + 1
  <2>1. at \subseteq Nat /\ m + 1 \in at /\ \A y \in at : m + 1 <= y
    BY <1>2, <1>6, <1>7
  <2>2. Gap(line) = IF at = {} THEN 0 ELSE Min(at)
    BY DEF Gap
  <2> HIDE DEF at
  <2>3. Min(at) \in at /\ Min(at) <= m + 1
    BY <2>1, MinOfNats
  <2>4. Min(at) \in Nat /\ m + 1 <= Min(at)
    BY <2>1, <2>3
  <2> QED BY <1>2, <2>1, <2>2, <2>3, <2>4
<1>9. SubSeq(line, m + 2, Len(line)) = b
  <2>1. m + 2 \in 1 .. Len(line) + 1
    BY <1>2, <1>5
  <2>2. /\ SubSeq(line, m + 2, Len(line)) \in Seq(Letters)
        /\ Len(SubSeq(line, m + 2, Len(line))) = Len(line) - (m + 2) + 1
        /\ \A i \in 1 .. Len(line) - (m + 2) + 1 : SubSeq(line, m + 2, Len(line))[i] = line[(m + 2) - 1 + i]
    BY <1>5, <2>1, StretchToEnd
  <2> DEFINE rest == SubSeq(line, m + 2, Len(line))
  <2>3. Len(line) - (m + 2) + 1 = Len(b)
    BY <1>2, <1>5
  <2>4. rest \in Seq(Letters) /\ Len(rest) = Len(b)
    BY <2>2, <2>3
  <2>5. ASSUME NEW i \in 1 .. Len(b) PROVE rest[i] = b[i]
    <3>1. rest[i] = line[(m + 2) - 1 + i]
      BY <2>2, <2>3
    <3>2. (m + 2) - 1 + i = m + 1 + i /\ m + 1 + i \in 1 .. m + 1 + Len(b) /\ ~(m + 1 + i <= m + 1)
      BY <1>2
    <3>3. (m + 1 + i) - (m + 1) = i
      BY <1>2
    <3>4. line[m + 1 + i] = b[(m + 1 + i) - (m + 1)]
      BY <1>5, <3>2
    <3> QED BY <3>1, <3>2, <3>3, <3>4
  <2> HIDE DEF rest
  <2>6. rest = b
    BY <1>2, <2>4, <2>5
  <2> QED BY <2>6 DEF rest
<1> QED BY <1>3, <1>8, <1>9 DEF line, m

LEMMA MatchesAreListed ==
    ASSUME NEW query, NEW n \in Nat
    PROVE  MatchSymbols(query, n) \in Seq(Name) /\ ToSet(MatchSymbols(query, n)) \subseteq ToSet(Listed)
<1> DEFINE begin == {s \in ToSet(Listed) : IsPrefix(query, s)}
           hold  == {s \in ToSet(Listed) : Inside(query, s)}
           a == Sift(Listed, begin)
           b == Sift(Listed, hold \ begin)
<1>1. MatchSymbols(query, n) = AtMost(n, a \o b)
  BY DEF MatchSymbols
<1>2. Listed \in Seq(Name)
  BY ListedAre
<1> HIDE DEF begin, hold
<1>3. a \in Seq(Name) /\ b \in Seq(Name) /\ ToSet(a) \subseteq ToSet(Listed) /\ ToSet(b) \subseteq ToSet(Listed)
  BY <1>2, SiftIsOfIt
<1> HIDE DEF a, b
<1>4. /\ a \o b \in Seq(Name) /\ Len(a \o b) = Len(a) + Len(b)
      /\ \A i \in 1 .. Len(a) + Len(b) : (a \o b)[i] = IF i <= Len(a) THEN a[i] ELSE b[i - Len(a)]
  BY <1>3, ConcatProperties
<1>5. ASSUME NEW e \in ToSet(a \o b) PROVE e \in ToSet(Listed)
  <2>1. PICK i \in 1 .. Len(a) + Len(b) : (a \o b)[i] = e
    BY <1>4, SetOfSeq
  <2>2. Len(a) \in Nat /\ Len(b) \in Nat
    BY <1>3
  <2>3. CASE i <= Len(a)
    <3>1. i \in 1 .. Len(a) /\ a[i] = e
      BY <1>4, <2>1, <2>2, <2>3
    <3> QED BY <1>3, <3>1, SetOfSeq
  <2>4. CASE ~(i <= Len(a))
    <3>1. i - Len(a) \in 1 .. Len(b) /\ b[i - Len(a)] = e
      BY <1>4, <2>1, <2>2, <2>4
    <3> QED BY <1>3, <3>1, SetOfSeq
  <2> QED BY <2>3, <2>4
<1>6. AtMost(n, a \o b) \in Seq(Name) /\ ToSet(AtMost(n, a \o b)) \subseteq ToSet(a \o b)
  BY <1>4, FirstOfIt
<1> QED BY <1>1, <1>5, <1>6

\* A listed name stands for itself.
LEMMA ListedResolves ==
    ASSUME NEW s \in ToSet(Listed)
    PROVE  Resolve(s) = s /\ s \in Name
<1>1. Listed \in Seq(Name)
  BY ListedAre
<1>2. s \in Name /\ \E i \in 1 .. Len(Listed) : Listed[i] = s
  BY <1>1, SetOfSeq
<1> QED BY <1>2 DEF Resolve, Contains

\* No name has a space in it: those of the reference have none (command.rs), and
\* no exchange lists such a symbol.
NamesAreWords ==
    /\ \A s \in ToSet(Listed) : Spaceless(s)
    /\ \A i \in DOMAIN Reference : Spaceless(Reference[i].name)

LEMMA OffersAreAccepted ==
    ASSUME NamesAreWords
    PROVE  SuggestionsAreAccepted
<1> DEFINE last(insert) == SubSeq(insert, Gap(insert) + 1, Len(insert))
           accepted(word) == \/ word = <<>> \/ \E j \in DOMAIN Reference : Reference[j].name = word
                             \/ Resolve(word) = word
<1>1. SUFFICES ASSUME NEW line \in TypedLines, NEW i \in DOMAIN Complete(line)
               PROVE  accepted(last(Complete(line)[i]))
  BY DEF SuggestionsAreAccepted
<1>2. line \in Seq(Letters)
  BY DeskAssumption
<1>3. Suggestions \in Nat
  BY CatalogAssumption
<1>4. <<>> \in Name
  BY DEF Name
<1>5. ASSUME NEW s \in Name, Spaceless(s) PROVE last(s) = s
  <2>1. Gap(s) = 0
    BY <1>4, <1>5, GapIs
  <2>2. SubSeq(s, 1, Len(s)) = s
    <3>1. s \in Seq(Letters) /\ 1 \in 1 .. Len(s) + 1
      BY DEF Name
    <3>2. /\ SubSeq(s, 1, Len(s)) \in Seq(Letters) /\ Len(SubSeq(s, 1, Len(s))) = Len(s) - 1 + 1
          /\ \A j \in 1 .. Len(s) - 1 + 1 : SubSeq(s, 1, Len(s))[j] = s[1 - 1 + j]
      BY <3>1, StretchToEnd
    <3> QED BY <3>1, <3>2
  <2>3. 0 + 1 = 1
    OBVIOUS
  <2> QED BY <2>1, <2>2, <2>3
<1>6. ASSUME NEW a \in Name, Spaceless(a), NEW b \in Name PROVE last(a \o Space \o b) = b
  <2>1. /\ Gap(a \o Space \o b) = Len(a) + 1
        /\ SubSeq(a \o Space \o b, Len(a) + 2, Len(a \o Space \o b)) = b
    BY <1>6, GapIs
  <2>2. Len(a) + 1 + 1 = Len(a) + 2
    BY DEF Name
  <2> QED BY <2>1, <2>2
<1> HIDE DEF last, accepted
<1>7. ASSUME NEW s \in ToSet(Listed) PROVE accepted(s)
  BY ListedResolves DEF accepted
<1>8. CASE line = <<>>
  BY <1>1, <1>8 DEF Complete
<1>9. CASE line # <<>> /\ Gap(line) > 0
  <2> DEFINE word == SubSeq(line, 1, Gap(line) - 1)
             rest == SubSeq(line, Gap(line) + 1, Len(line))
             takes == \E j \in DOMAIN Reference : Reference[j].name = word /\ Reference[j].takes = "symbol"
             matches == IF takes THEN MatchSymbols(rest, Suggestions) ELSE <<>>
  <2>1. Complete(line) = [j \in DOMAIN matches |-> word \o Space \o matches[j]]
    BY <1>9 DEF Complete, CompleteArgument
  <2>2. matches \in Seq(Name) /\ ToSet(matches) \subseteq ToSet(Listed)
    <3>1. <<>> \in Seq(Name) /\ ToSet(<<>>) = {}
      BY DEF ToSet
    <3> QED BY <1>3, <3>1, MatchesAreListed
  <2>3. word \in Name /\ Spaceless(word)
    <3> DEFINE at == {j \in DOMAIN line : line[j] = Separator}
    <3>1. Gap(line) = IF at = {} THEN 0 ELSE Min(at)
      BY DEF Gap
    <3>2. at \subseteq Nat /\ at \subseteq 1 .. Len(line)
      BY <1>2
    <3>3. at # {} /\ Gap(line) = Min(at)
      BY <1>9, <3>1
    <3>4. \A j \in 1 .. Len(line) : line[j] = Separator => j \in at
      BY <1>2
    <3> HIDE DEF at
    <3>5. Gap(line) \in 1 .. Len(line) /\ \A j \in at : Gap(line) <= j
      BY <3>2, <3>3, MinOfNats
    <3>6. 1 \in 1 .. Len(line) + 1 /\ Gap(line) - 1 \in 1 - 1 .. Len(line) /\ Gap(line) - 1 - 1 + 1 = Gap(line) - 1
      BY <1>2, <3>5
    <3>7. /\ word \in Seq(Letters) /\ Len(word) = Gap(line) - 1 - 1 + 1
          /\ \A j \in 1 .. Gap(line) - 1 - 1 + 1 : word[j] = line[1 - 1 + j]
      BY <1>2, <3>6, Stretch
    <3> HIDE DEF word
    <3>8. \A j \in 1 .. Len(word) : j \in 1 .. Len(line) /\ j < Gap(line) /\ word[j] = line[j]
      BY <1>2, <3>5, <3>6, <3>7
    <3>9. \A j \in 1 .. Len(word) : word[j] # Separator
      BY <3>4, <3>5, <3>8
    <3> QED BY <3>7, <3>9 DEF Name, Spaceless
  <2> HIDE DEF word, matches
  <2>4. i \in DOMAIN matches /\ Complete(line)[i] = word \o Space \o matches[i]
    BY <1>1, <2>1
  <2>5. matches[i] \in ToSet(Listed) /\ matches[i] \in Name
    <3>1. matches[i] \in ToSet(matches)
      BY <2>4 DEF ToSet
    <3>2. Listed \in Seq(Name)
      BY ListedAre
    <3> QED BY <2>2, <3>1, ListedResolves
  <2>6. last(Complete(line)[i]) = matches[i]
    BY <1>6, <2>3, <2>4, <2>5
  <2> QED BY <1>7, <2>5, <2>6
<1>10. CASE line # <<>> /\ ~(Gap(line) > 0)
  <2> DEFINE T == [name : Seq(Letters), takes : {"nothing", "symbol", "number"}]
             of == Sift(Reference, {r \in ToSet(Reference) : IsPrefix(line, r.name)})
             words == AtMost(Suggestions, of)
             insert(r) == IF r.takes = "nothing" THEN r.name ELSE r.name \o Space
             inserts == [j \in DOMAIN words |-> insert(words[j])]
             more == MatchSymbols(line, Suggestions - Len(words))
  <2>1. Complete(line) = inserts \o more
    BY <1>10 DEF Complete, CompleteWord
  <2>2. Reference \in Seq(T)
    BY CatalogAssumption
  <2> HIDE DEF T
  <2>3. of \in Seq(T) /\ ToSet(of) \subseteq ToSet(Reference)
    <3> DEFINE S == {r \in ToSet(Reference) : IsPrefix(line, r.name)}
    <3>1. of = Sift(Reference, S)
      OBVIOUS
    <3> HIDE DEF S, of
    <3> QED BY <2>2, <3>1, SiftIsOfIt
  <2> HIDE DEF of
  <2>4. words \in Seq(T) /\ ToSet(words) \subseteq ToSet(Reference)
    BY <1>3, <2>3, FirstOfIt
  <2>5. Suggestions - Len(words) \in Nat
    <3>1. Len(words) = IF Suggestions <= Len(of) THEN Suggestions ELSE Len(of)
      BY <1>3, <2>3, AtMostOf
    <3>2. Len(of) \in Nat
      BY <2>3
    <3> QED BY <1>3, <3>1, <3>2
  <2> HIDE DEF words
  <2>6. more \in Seq(Name) /\ ToSet(more) \subseteq ToSet(Listed)
    BY <2>5, MatchesAreListed
  <2> HIDE DEF more
  <2>7. \A j \in 1 .. Len(words) : /\ words[j] \in T
                                   /\ \E l \in DOMAIN Reference : Reference[l] = words[j]
    <3> TAKE j \in 1 .. Len(words)
    <3>1. words[j] \in T /\ words[j] \in ToSet(words)
      BY <2>4, ElementOfSeq, SetOfSeq
    <3> QED BY <2>4, <3>1 DEF ToSet
  <2>8. \A r \in T : r.name \in Name /\ r.name \o Space \in Name /\ r.name \o Space = r.name \o Space \o <<>>
    <3> TAKE r \in T
    <3>1. r.name \in Seq(Letters) /\ Space \in Seq(Letters)
      BY CatalogAssumption DEF T, Space
    <3>2. r.name \o Space \in Seq(Letters)
      BY <3>1, ConcatProperties
    <3> QED BY <3>1, <3>2, ConcatEmptySeq DEF Name
  <2>9. \A r \in T : insert(r) \in Name
    BY <2>8
  <2> HIDE DEF insert
  <2>10. inserts \in Seq(Name) /\ Len(inserts) = Len(words) /\ \A j \in 1 .. Len(words) : inserts[j] = insert(words[j])
    <3>1. DOMAIN words = 1 .. Len(words) /\ Len(words) \in Nat
      BY <2>4
    <3>2. inserts = [j \in 1 .. Len(words) |-> insert(words[j])]
      BY <3>1
    <3>3. \A j \in 1 .. Len(words) : insert(words[j]) \in Name
      BY <2>7, <2>9
    <3> HIDE DEF inserts
    <3> QED BY <3>1, <3>2, <3>3
  <2> HIDE DEF inserts
  <2>11. /\ inserts \o more \in Seq(Name) /\ Len(inserts \o more) = Len(inserts) + Len(more)
         /\ \A j \in 1 .. Len(inserts) + Len(more) :
                (inserts \o more)[j] = IF j <= Len(inserts) THEN inserts[j] ELSE more[j - Len(inserts)]
    BY <2>6, <2>10, ConcatProperties
  <2>12. i \in 1 .. Len(inserts) + Len(more) /\ Len(inserts) \in Nat /\ Len(more) \in Nat
    <3>1. DOMAIN (inserts \o more) = 1 .. Len(inserts \o more)
      BY <2>11
    <3> QED BY <1>1, <2>1, <2>6, <2>10, <2>11, <3>1
  <2>13. CASE i <= Len(inserts)
    <3>1. i \in 1 .. Len(words) /\ Complete(line)[i] = insert(words[i])
      BY <2>1, <2>10, <2>11, <2>12, <2>13
    <3> DEFINE r == words[i]
    <3>2. r \in T /\ \E l \in DOMAIN Reference : Reference[l] = r
      BY <2>7, <3>1
    <3> HIDE DEF r
    <3>3. r.name \in Name /\ Spaceless(r.name) /\ \E l \in DOMAIN Reference : Reference[l].name = r.name
      BY <2>8, <3>2 DEF NamesAreWords
    <3>4. CASE r.takes = "nothing"
      <4>1. insert(r) = r.name
        BY <3>4 DEF insert
      <4>2. last(Complete(line)[i]) = r.name
        BY <1>5, <3>1, <3>3, <4>1 DEF r
      <4> QED BY <3>3, <4>2 DEF accepted
    <3>5. CASE r.takes # "nothing"
      <4>1. insert(r) = r.name \o Space \o <<>>
        BY <2>8, <3>2, <3>5 DEF insert
      <4>2. last(Complete(line)[i]) = <<>>
        BY <1>4, <1>6, <3>1, <3>3, <4>1 DEF r
      <4> QED BY <4>2 DEF accepted
    <3> QED BY <3>4, <3>5
  <2>14. CASE ~(i <= Len(inserts))
    <3>1. i - Len(inserts) \in 1 .. Len(more) /\ Complete(line)[i] = more[i - Len(inserts)]
      BY <2>1, <2>11, <2>12, <2>14
    <3>2. Complete(line)[i] \in ToSet(Listed)
      BY <2>6, <3>1, SetOfSeq
    <3>3. Complete(line)[i] \in Name /\ Spaceless(Complete(line)[i])
      BY <3>2, ListedResolves DEF NamesAreWords
    <3> QED BY <1>5, <1>7, <3>2, <3>3
  <2> QED BY <2>13, <2>14
<1> QED BY <1>8, <1>9, <1>10

\* WatchSetsStaySound.  With one window, which is what the launcher opens, the
\* sets stay usable, the file is always the whole of a set that was saved, at
\* whatever line a save fails or the window ends, and every suggestion, taken,
\* is a line that is accepted.  A second window can tear the file: both write
\* under one temporary name (watch.rs).
THEOREM WatchSetsStaySound ==
    ASSUME NEW w, Windows = {w}, NamesAreWords
    PROVE  DeskInit /\ [][DeskNext]_deskVars => []WatchSetsAreSound
<1>1. OneFile => FileIsAWholeSet
  BY DEF OneFile, FileIsAWholeSet, Lines
<1>2. SuggestionsAreAccepted
  BY OffersAreAccepted
<1>3. DeskInv => SetsAreUsable
  BY DEF DeskInv, Usable, Watchable, SetsAreUsable
<1>4. DeskInv /\ OneFile => WatchSetsAreSound
  BY <1>1, <1>2, <1>3 DEF WatchSetsAreSound
<1>5. DeskInv /\ OneFile /\ [DeskNext]_deskVars => (DeskInv /\ OneFile)'
  BY DeskStays, FileStays
<1> QED BY <1>4, <1>5, DeskStarts, FileStarts, PTL

--------------------------------------------------------------------------------
(* What is typed.                                                          *)

\* What is offered is a line.
LEMMA OffersAreNames ==
    ASSUME NEW line \in Name
    PROVE  Complete(line) \in Seq(Name)
<1>1. line \in Seq(Letters) /\ Suggestions \in Nat
  BY CatalogAssumption DEF Name
<1>2. CASE line = <<>>
  BY <1>2 DEF Complete
<1>3. CASE line # <<>> /\ Gap(line) > 0
  <2> DEFINE word == SubSeq(line, 1, Gap(line) - 1)
             rest == SubSeq(line, Gap(line) + 1, Len(line))
             takes == \E j \in DOMAIN Reference : Reference[j].name = word /\ Reference[j].takes = "symbol"
             matches == IF takes THEN MatchSymbols(rest, Suggestions) ELSE <<>>
  <2>1. Complete(line) = [j \in DOMAIN matches |-> word \o Space \o matches[j]]
    BY <1>3 DEF Complete, CompleteArgument
  <2>2. matches \in Seq(Name)
    <3>1. <<>> \in Seq(Name)
      OBVIOUS
    <3> QED BY <1>1, <3>1, MatchesAreListed
  <2>3. word \in Seq(Letters)
    <3> DEFINE at == {j \in DOMAIN line : line[j] = Separator}
    <3>1. Gap(line) = IF at = {} THEN 0 ELSE Min(at)
      BY DEF Gap
    <3>2. at \subseteq Nat /\ at \subseteq 1 .. Len(line)
      BY <1>1
    <3>3. at # {} /\ Gap(line) = Min(at)
      BY <1>3, <3>1
    <3> HIDE DEF at
    <3>4. Gap(line) \in 1 .. Len(line)
      BY <3>2, <3>3, MinOfNats
    <3>5. 1 \in 1 .. Len(line) + 1 /\ Gap(line) - 1 \in 1 - 1 .. Len(line)
      BY <1>1, <3>4
    <3> QED BY <1>1, <3>5, Stretch
  <2> HIDE DEF word, matches
  <2>4. Space \in Seq(Letters)
    BY CatalogAssumption DEF Space
  <2>5. ASSUME NEW j \in 1 .. Len(matches) PROVE word \o Space \o matches[j] \in Name
    <3>1. matches[j] \in Seq(Letters)
      BY <2>2 DEF Name
    <3>2. word \o Space \in Seq(Letters)
      BY <2>3, <2>4, ConcatProperties
    <3> QED BY <3>1, <3>2, ConcatProperties DEF Name
  <2>6. DOMAIN matches = 1 .. Len(matches) /\ Len(matches) \in Nat
    BY <2>2
  <2>7. [j \in 1 .. Len(matches) |-> word \o Space \o matches[j]] \in Seq(Name)
    BY <2>5, <2>6
  <2> QED BY <2>1, <2>6, <2>7
<1>4. CASE line # <<>> /\ ~(Gap(line) > 0)
  <2> DEFINE T == [name : Seq(Letters), takes : {"nothing", "symbol", "number"}]
             of == Sift(Reference, {r \in ToSet(Reference) : IsPrefix(line, r.name)})
             words == AtMost(Suggestions, of)
             insert(r) == IF r.takes = "nothing" THEN r.name ELSE r.name \o Space
             inserts == [j \in DOMAIN words |-> insert(words[j])]
             more == MatchSymbols(line, Suggestions - Len(words))
  <2>1. Complete(line) = inserts \o more
    BY <1>4 DEF Complete, CompleteWord
  <2>2. Reference \in Seq(T)
    BY CatalogAssumption
  <2> HIDE DEF T
  <2>3. of \in Seq(T)
    <3> DEFINE S == {r \in ToSet(Reference) : IsPrefix(line, r.name)}
    <3>1. of = Sift(Reference, S)
      OBVIOUS
    <3> HIDE DEF S, of
    <3> QED BY <2>2, <3>1, SiftIsOfIt
  <2> HIDE DEF of
  <2>4. words \in Seq(T)
    BY <1>1, <2>3, FirstOfIt
  <2>5. Suggestions - Len(words) \in Nat
    <3>1. Len(words) = IF Suggestions <= Len(of) THEN Suggestions ELSE Len(of)
      BY <1>1, <2>3, AtMostOf
    <3>2. Len(of) \in Nat
      BY <2>3
    <3> QED BY <1>1, <3>1, <3>2
  <2> HIDE DEF words
  <2>6. more \in Seq(Name)
    BY <2>5, MatchesAreListed
  <2> HIDE DEF more
  <2>7. \A r \in T : insert(r) \in Name
    <3> TAKE r \in T
    <3>1. r.name \in Seq(Letters) /\ Space \in Seq(Letters)
      BY CatalogAssumption DEF T, Space
    <3>2. r.name \o Space \in Seq(Letters)
      BY <3>1, ConcatProperties
    <3> QED BY <3>1, <3>2 DEF Name
  <2> HIDE DEF insert
  <2>8. inserts \in Seq(Name)
    <3>1. DOMAIN words = 1 .. Len(words) /\ Len(words) \in Nat
      BY <2>4
    <3>2. inserts = [j \in 1 .. Len(words) |-> insert(words[j])]
      BY <3>1
    <3>3. \A j \in 1 .. Len(words) : insert(words[j]) \in Name
      BY <2>4, <2>7, ElementOfSeq
    <3> HIDE DEF inserts
    <3> QED BY <3>1, <3>2, <3>3
  <2> HIDE DEF inserts
  <2> QED BY <2>1, <2>6, <2>8, ConcatProperties
<1> QED BY <1>2, <1>3, <1>4

EditorStates == [line : Name, light : Int, submitted : Seq(Name)]

KeyCommands == [does : {"Type"}, with : Letters] \cup [does : {"Move"}, with : {-1, 1}]
               \cup [does : {"Clear", "Back", "Tab", "Enter"}, with : {0}]

\* d is e with p submitted before it.
Follows(d, p, e) == d.line = e.line /\ d.light = e.light /\ d.submitted = p \o e.submitted

\* An editor with a line, a slot and the lines submitted.
Has(d, line, light, submitted) ==
    d \in EditorStates /\ d.line = line /\ d.light = light /\ d.submitted = submitted

LEMMA EditHas ==
    ASSUME NEW e \in EditorStates, NEW c \in KeyCommands
    PROVE  LET d == Edit(e, c) IN
           CASE c.does = "Type"  -> IF Len(e.line) < InputLimit
                                    THEN Has(d, Append(e.line, c.with), 0, e.submitted) ELSE d = e
             [] c.does = "Back"  -> Has(d, IF e.line = <<>> THEN e.line ELSE Front(e.line), 0, e.submitted)
             [] c.does = "Clear" -> Has(d, <<>>, 0, e.submitted)
             [] c.does = "Move"  -> IF Complete(e.line) = <<>> THEN d = e
                                    ELSE Has(d, e.line, (e.light + c.with) % Len(Complete(e.line)), e.submitted)
             [] c.does = "Tab"   -> IF Complete(e.line) = <<>> THEN d = e
                                    ELSE Has(d, Chosen(e), 0, e.submitted)
             [] c.does = "Enter" -> Has(d, <<>>, 0, Append(e.submitted, e.line))
<1>1. e.line \in Seq(Letters) /\ e.line \in Name /\ e.light \in Int /\ e.submitted \in Seq(Name)
  BY DEF EditorStates, Name
<1>2. <<>> \in Name
  BY DEF Name
<1> DEFINE offers == Complete(e.line)
<1>3. offers \in Seq(Name)
  BY <1>1, OffersAreNames
<1> HIDE DEF Name
<1>11. PICK z \in Int : z = 0
  OBVIOUS
<1>4. c.does \in {"Type", "Move", "Clear", "Back", "Tab", "Enter"}
  BY DEF KeyCommands
<1>5. CASE c.does = "Type"
  <2> DEFINE typed == Append(e.line, c.with)
  <2>1. c.with \in Letters
    BY <1>5 DEF KeyCommands
  <2>2. typed \in Name
    BY <1>1, <2>1 DEF Name
  <2>3. Edit(e, c) = IF Len(e.line) < InputLimit THEN [e EXCEPT !.line = typed, !.light = z] ELSE e
    BY <1>11, <1>5 DEF Edit
  <2> HIDE DEF typed
  <2>4. Has([e EXCEPT !.line = typed, !.light = z], typed, z, e.submitted)
    BY <1>1, <2>2 DEF Has, EditorStates
  <2>5. IF Len(e.line) < InputLimit THEN Has(Edit(e, c), typed, z, e.submitted) ELSE Edit(e, c) = e
    BY <2>3, <2>4
  <2> QED BY <1>11, <1>5, <2>5 DEF typed
<1>6. CASE c.does = "Back"
  <2> DEFINE left == IF e.line = <<>> THEN e.line ELSE Front(e.line)
  <2>1. left \in Name
    BY <1>1 DEF Name, Front
  <2>2. Edit(e, c) = [e EXCEPT !.line = left, !.light = z]
    BY <1>11, <1>6 DEF Edit
  <2> HIDE DEF left
  <2>3. Has(Edit(e, c), left, z, e.submitted)
    BY <1>1, <2>1, <2>2 DEF Has, EditorStates
  <2> QED BY <1>11, <1>6, <2>3 DEF left
<1>7. CASE c.does = "Clear"
  <2>1. Edit(e, c) = [e EXCEPT !.line = <<>>, !.light = z]
    BY <1>11, <1>7 DEF Edit
  <2>2. Has(Edit(e, c), <<>>, z, e.submitted)
    BY <1>1, <1>2, <2>1 DEF Has, EditorStates
  <2> QED BY <1>11, <1>7, <2>2
<1>8. CASE c.does = "Move"
  <2> DEFINE to == (e.light + c.with) % Len(offers)
  <2>1. CASE offers = <<>>
    BY <1>8, <2>1 DEF Edit
  <2>2. CASE offers # <<>>
    <3>1. Edit(e, c) = [e EXCEPT !.light = to]
      BY <1>8, <2>2 DEF Edit
    <3>2. c.with \in Int
      BY <1>8 DEF KeyCommands
    <3>3. Len(offers) \in Nat /\ Len(offers) > 0
      <4> HIDE DEF offers
      <4> QED BY <1>3, <2>2
    <3>4. to \in Int
      <4> HIDE DEF offers
      <4> QED BY <1>1, <3>2, <3>3
    <3> HIDE DEF to
    <3>5. Has(Edit(e, c), e.line, to, e.submitted)
      BY <1>1, <3>1, <3>4 DEF Has, EditorStates
    <3> QED BY <1>8, <2>2, <3>5 DEF to
  <2> QED BY <2>1, <2>2
<1>9. CASE c.does = "Tab"
  <2>1. CASE offers = <<>>
    BY <1>9, <2>1 DEF Edit
  <2>2. CASE offers # <<>>
    <3>1. Chosen(e) \in Name
      <4>1. Chosen(e) = IF e.light + 1 \in DOMAIN offers THEN offers[e.light + 1] ELSE offers[1]
        BY DEF Chosen
      <4> HIDE DEF offers
      <4>2. DOMAIN offers = 1 .. Len(offers) /\ Len(offers) >= 1
        BY <1>3, <2>2
      <4>3. \A i \in 1 .. Len(offers) : offers[i] \in Name
        BY <1>3, ElementOfSeq
      <4> QED BY <4>1, <4>2, <4>3
    <3>2. Edit(e, c) = [e EXCEPT !.line = Chosen(e), !.light = z]
      BY <1>11, <1>9, <2>2 DEF Edit
    <3>3. Has(Edit(e, c), Chosen(e), z, e.submitted)
      BY <1>1, <3>1, <3>2 DEF Has, EditorStates
    <3> QED BY <1>11, <1>9, <2>2, <3>3
  <2> QED BY <2>1, <2>2
<1>10. CASE c.does = "Enter"
  <2> DEFINE lines == Append(e.submitted, e.line)
  <2>1. Edit(e, c) = [e EXCEPT !.line = <<>>, !.light = z, !.submitted = lines]
    BY <1>11, <1>10 DEF Edit
  <2>2. lines \in Seq(Name)
    BY <1>1
  <2> HIDE DEF lines
  <2>3. Has(Edit(e, c), <<>>, z, lines)
    BY <1>1, <1>2, <2>1, <2>2 DEF Has, EditorStates
  <2> QED BY <1>11, <1>10, <2>3 DEF lines
<1> QED BY <1>4, <1>5, <1>6, <1>7, <1>8, <1>9, <1>10

LEMMA EditIs ==
    ASSUME NEW e \in EditorStates, NEW c \in KeyCommands
    PROVE  Edit(e, c) \in EditorStates
<1>1. c.does \in {"Type", "Move", "Clear", "Back", "Tab", "Enter"}
  BY DEF KeyCommands
<1>2. \A line, light, submitted : Has(Edit(e, c), line, light, submitted) => Edit(e, c) \in EditorStates
  BY DEF Has
<1> QED BY <1>1, <1>2, EditHas

\* What was submitted before changes nothing of what a command does.
LEMMA EditFollows ==
    ASSUME NEW d \in EditorStates, NEW e \in EditorStates, NEW p \in Seq(Name), NEW c \in KeyCommands,
           Follows(d, p, e)
    PROVE  Follows(Edit(d, c), p, Edit(e, c))
<1>1. d.line = e.line /\ d.light = e.light /\ d.submitted = p \o e.submitted
  BY DEF Follows
<1>2. c.does \in {"Type", "Move", "Clear", "Back", "Tab", "Enter"}
  BY DEF KeyCommands
<1>3. Chosen(d) = Chosen(e)
  BY <1>1 DEF Chosen
<1>4. ASSUME NEW line, NEW light, Has(Edit(d, c), line, light, d.submitted), Has(Edit(e, c), line, light, e.submitted)
      PROVE  Follows(Edit(d, c), p, Edit(e, c))
  BY <1>1, <1>4 DEF Has, Follows
<1>5. CASE c.does = "Type"
  <2>1. CASE Len(e.line) < InputLimit
    <3>1. /\ Has(Edit(d, c), Append(d.line, c.with), 0, d.submitted)
          /\ Has(Edit(e, c), Append(e.line, c.with), 0, e.submitted)
      BY <1>1, <1>5, <2>1, EditHas
    <3> QED BY <1>1, <1>4, <3>1
  <2>2. CASE ~(Len(e.line) < InputLimit)
    <3>1. Edit(d, c) = d /\ Edit(e, c) = e
      BY <1>1, <1>5, <2>2, EditHas
    <3> QED BY <3>1
  <2> QED BY <2>1, <2>2
<1>6. CASE c.does = "Back"
  <2> DEFINE left(l) == IF l = <<>> THEN l ELSE Front(l)
  <2>1. Has(Edit(d, c), left(d.line), 0, d.submitted) /\ Has(Edit(e, c), left(e.line), 0, e.submitted)
    BY <1>6, EditHas
  <2> HIDE DEF left
  <2> QED BY <1>1, <1>4, <2>1
<1>7. CASE c.does = "Clear"
  BY <1>4, <1>7, EditHas
<1>8. CASE c.does = "Move"
  <2> DEFINE to(l, g) == (g + c.with) % Len(Complete(l))
  <2>1. CASE Complete(e.line) = <<>>
    <3>1. Edit(d, c) = d /\ Edit(e, c) = e
      BY <1>1, <1>8, <2>1, EditHas
    <3> QED BY <3>1
  <2>2. CASE Complete(e.line) # <<>>
    <3>1. /\ Has(Edit(d, c), d.line, to(d.line, d.light), d.submitted)
          /\ Has(Edit(e, c), e.line, to(e.line, e.light), e.submitted)
      BY <1>1, <1>8, <2>2, EditHas
    <3> HIDE DEF to
    <3> QED BY <1>1, <1>4, <3>1
  <2> QED BY <2>1, <2>2
<1>9. CASE c.does = "Tab"
  <2>1. CASE Complete(e.line) = <<>>
    <3>1. Edit(d, c) = d /\ Edit(e, c) = e
      BY <1>1, <1>9, <2>1, EditHas
    <3> QED BY <3>1
  <2>2. CASE Complete(e.line) # <<>>
    <3>1. /\ Has(Edit(d, c), Chosen(d), 0, d.submitted)
          /\ Has(Edit(e, c), Chosen(e), 0, e.submitted)
      BY <1>1, <1>9, <2>2, EditHas
    <3> QED BY <1>3, <1>4, <3>1
  <2> QED BY <2>1, <2>2
<1>10. CASE c.does = "Enter"
  <2>1. Has(Edit(d, c), <<>>, 0, Append(d.submitted, d.line)) /\ Has(Edit(e, c), <<>>, 0, Append(e.submitted, e.line))
    BY <1>10, EditHas
  <2>2. e.submitted \in Seq(Name) /\ e.line \in Name
    BY DEF EditorStates
  <2>3. \A s \in Seq(Name), l \in Name : Append(p \o s, l) = p \o Append(s, l)
    OBVIOUS
  <2>4. Append(d.submitted, d.line) = p \o Append(e.submitted, e.line)
    BY <1>1, <2>2, <2>3
  <2> QED BY <2>1, <2>4 DEF Has, Follows
<1> QED BY <1>2, <1>5, <1>6, <1>7, <1>8, <1>9, <1>10

\* A burst is applied command by command.
LEMMA EditedUnrolls ==
    ASSUME NEW e \in EditorStates, NEW cs \in Seq(KeyCommands)
    PROVE  \E f \in [0 .. Len(cs) -> EditorStates] :
             /\ f[0] = e /\ Edited(e, cs) = f[Len(cs)]
             /\ \A n \in 1 .. Len(cs) : f[n] = Edit(f[n - 1], cs[n])
<1> DEFINE N == Len(cs)
           step == [p \in (1 .. N) \X EditorStates |-> Edit(p[2], cs[p[1]])]
<1>1. N \in Nat /\ \A n \in 1 .. N : cs[n] \in KeyCommands
  BY ElementOfSeq
<1>2. step \in [(1 .. N) \X EditorStates -> EditorStates]
  <2>1. \A p \in (1 .. N) \X EditorStates : Edit(p[2], cs[p[1]]) \in EditorStates
    <3> TAKE p \in (1 .. N) \X EditorStates
    <3>1. p[2] \in EditorStates /\ p[1] \in 1 .. N
      OBVIOUS
    <3> HIDE DEF N
    <3>2. cs[p[1]] \in KeyCommands
      BY <1>1, <3>1
    <3> QED BY <3>1, <3>2, EditIs
  <2> QED BY <2>1
<1>3. PICK f \in [0 .. N -> EditorStates] : Unrolled(f, N, e, step)
  <2> HIDE DEF step, N
  <2> QED BY <1>1, <1>2, Recursion
<1>4. f[0] = e
  BY <1>3 DEF Unrolled
<1>5. ASSUME NEW n \in 1 .. N PROVE f[n] = Edit(f[n - 1], cs[n])
  <2>1. f[n] = step[<<n, f[n - 1]>>]
    BY <1>3 DEF Unrolled
  <2>2. n - 1 \in 0 .. N
    BY <1>1
  <2>3. <<n, f[n - 1]>> \in (1 .. N) \X EditorStates
    BY <2>2
  <2> QED BY <2>1, <2>3
<1> DEFINE Steps(g) == [n \in 0 .. N |-> IF n = 0 THEN e ELSE Edit(g[n - 1], cs[n])]
           after == CHOOSE g : g = Steps(g)
<1>6. f = Steps(f)
  <2>1. ASSUME NEW n \in 0 .. N PROVE f[n] = IF n = 0 THEN e ELSE Edit(f[n - 1], cs[n])
    <3>1. CASE n = 0
      BY <1>4, <3>1
    <3>2. CASE n # 0
      <4>1. n \in 1 .. N
        BY <1>1, <3>2
      <4> HIDE DEF N
      <4> QED BY <1>5, <3>2, <4>1
    <3> QED BY <3>1, <3>2
  <2>2. Steps(f) = [n \in 0 .. N |-> f[n]]
    BY <2>1
  <2>3. f = [n \in 0 .. N |-> f[n]]
    OBVIOUS
  <2> QED BY <2>2, <2>3
<1>7. after = Steps(after)
  <2> HIDE DEF Steps
  <2> QED BY <1>6
<1>8. Edited(e, cs) = after[N]
  BY DEF Edited
<1>9. ASSUME NEW n \in 0 .. N PROVE after[n] = IF n = 0 THEN e ELSE Edit(after[n - 1], cs[n])
  <2> HIDE DEF after
  <2> QED BY <1>7
<1> HIDE DEF after, step, Steps
<1> DEFINE S == {n \in 0 .. N : after[n] = f[n]}
<1>10. 0 \in S
  BY <1>1, <1>4, <1>9
<1>11. ASSUME NEW n \in 0 .. N - 1, n \in S PROVE n + 1 \in S
  <2>1. n + 1 \in 1 .. N /\ (n + 1) - 1 = n /\ n + 1 \in 0 .. N /\ n + 1 # 0
    BY <1>1
  <2>2. after[n] = f[n]
    BY <1>11
  <2>3. after[n + 1] = Edit(after[n], cs[n + 1])
    BY <1>9, <2>1
  <2>4. f[n + 1] = Edit(f[n], cs[n + 1])
    BY <1>5, <2>1
  <2> QED BY <2>1, <2>2, <2>3, <2>4
<1>12. N \in S
  <2>1. N \in 0 .. N
    BY <1>1
  <2> HIDE DEF S, N
  <2> QED BY <1>1, <1>10, <1>11, <2>1, Climb
<1>13. Edited(e, cs) = f[N]
  BY <1>8, <1>12
<1> QED BY <1>4, <1>5, <1>13

LEMMA EditedIs ==
    ASSUME NEW e \in EditorStates, NEW cs \in Seq(KeyCommands)
    PROVE  Edited(e, cs) \in EditorStates
<1>1. Len(cs) \in 0 .. Len(cs)
  OBVIOUS
<1> QED BY <1>1, EditedUnrolls

LEMMA EditedOfNone ==
    ASSUME NEW e \in EditorStates
    PROVE  Edited(e, <<>>) = e
<1>1. <<>> \in Seq(KeyCommands) /\ Len(<<>>) = 0
  OBVIOUS
<1>2. \E f : f[0] = e /\ Edited(e, <<>>) = f[Len(<<>>)]
  <2> DEFINE cs == <<>>
  <2>1. cs \in Seq(KeyCommands)
    BY <1>1
  <2> HIDE DEF cs
  <2>2. \E f : f[0] = e /\ Edited(e, cs) = f[Len(cs)]
    BY <2>1, EditedUnrolls
  <2> QED BY <2>2 DEF cs
<1> QED BY <1>1, <1>2

LEMMA EditedOfOneMore ==
    ASSUME NEW e \in EditorStates, NEW cs \in Seq(KeyCommands), NEW c \in KeyCommands
    PROVE  Edited(e, Append(cs, c)) = Edit(Edited(e, cs), c)
<1> DEFINE more == Append(cs, c)
           N == Len(cs)
<1>1. N \in Nat /\ more \in Seq(KeyCommands) /\ Len(more) = N + 1 /\ more[N + 1] = c
      /\ \A i \in 1 .. N : more[i] = cs[i]
  OBVIOUS
<1>2. PICK f : /\ f[0] = e /\ Edited(e, cs) = f[N]
               /\ \A n \in 1 .. N : f[n] = Edit(f[n - 1], cs[n])
  BY EditedUnrolls
<1> HIDE DEF more
<1>3. PICK g : /\ g[0] = e /\ Edited(e, more) = g[N + 1]
               /\ \A n \in 1 .. N + 1 : g[n] = Edit(g[n - 1], more[n])
  <2>1. \E h \in [0 .. Len(more) -> EditorStates] :
             /\ h[0] = e /\ Edited(e, more) = h[Len(more)]
             /\ \A n \in 1 .. Len(more) : h[n] = Edit(h[n - 1], more[n])
    BY <1>1, EditedUnrolls
  <2> QED BY <1>1, <2>1
<1> DEFINE S == {n \in 0 .. N : f[n] = g[n]}
<1>4. 0 \in S
  BY <1>1, <1>2, <1>3
<1>5. ASSUME NEW n \in 0 .. N - 1, n \in S PROVE n + 1 \in S
  <2>1. n + 1 \in 1 .. N /\ n + 1 \in 1 .. N + 1 /\ (n + 1) - 1 = n /\ n + 1 \in 0 .. N
    BY <1>1
  <2>2. f[n] = g[n] /\ more[n + 1] = cs[n + 1]
    BY <1>1, <1>5, <2>1
  <2>3. f[n + 1] = Edit(f[n], cs[n + 1]) /\ g[n + 1] = Edit(g[n], more[n + 1])
    BY <1>2, <1>3, <2>1
  <2> QED BY <2>1, <2>2, <2>3
<1>6. N \in S
  <2>1. N \in 0 .. N
    BY <1>1
  <2> HIDE DEF S, N
  <2> QED BY <1>1, <1>4, <1>5, <2>1, Climb
<1>7. g[N + 1] = Edit(g[N], c)
  <2>1. N + 1 \in 1 .. N + 1 /\ (N + 1) - 1 = N
    BY <1>1
  <2> QED BY <1>1, <1>3, <2>1
<1> QED BY <1>2, <1>3, <1>6, <1>7 DEF more


--------------------------------------------------------------------------------
(* Keys and bytes.                                                         *)

Arrows == {"Up", "Down", "Right"}

Byte == Letters \cup {"esc", "[", "A", "O", "B", "C"}

\* No key is one whose sequence is longer than the reader takes.
KeysAreShort == "CtrlUp" \notin Pressed

\* A key is a byte that is no escape, an escape, or three bytes that begin with
\* one, and what the reader makes of them is what the key is for.
LEMMA KeyIs ==
    ASSUME KeysAreShort, NEW key \in Pressed
    PROVE  /\ Bytes(key) \in Seq(Byte)
           /\ key \in Letters /\ key # "esc"
           /\ key \in Arrows =>
                /\ Len(Bytes(key)) = 3 /\ Bytes(key)[1] = "esc" /\ Bytes(key)[2] \in {"[", "O"}
                /\ Bytes(key)[3] # "esc"
                /\ ClassifyEscape(<<Bytes(key)[2], Bytes(key)[3]>>) = Meaning(key)
           /\ key = "Escape" => Bytes(key) = <<"esc">> /\ ClassifyEscape(<<>>) = Meaning(key)
           /\ key \notin Arrows /\ key # "Escape" =>
                /\ Bytes(key) = <<key>>
                /\ Meaning(key) = IF key \in Control THEN <<[does |-> key, with |-> 0]>> ELSE <<TypeOf(key)>>
<1>1. key \in Letters /\ key # "esc" /\ key # "CtrlUp"
  BY KeysAssumption DEF KeysAreShort
<1>2. CASE key = "Up"
  <2>1. Meaning(key) = Moves(-1)
    BY <1>2 DEF Meaning, Control
  <2>3. Bytes(key) = <<"esc", "[", "A">>
    BY <1>2 DEF Bytes
  <2>2. ClassifyEscape(<<"[", "A">>) = Meaning(key)
    <3> DEFINE t == <<"[", "A">>
    <3>1. t # <<>> /\ Head(t) = "[" /\ Len(t) = 2 /\ t[2] = "A"
      OBVIOUS
    <3> HIDE DEF t
    <3>2. ClassifyEscape(t) = Meaning(key)
      BY <2>1, <3>1 DEF ClassifyEscape
    <3> QED BY <3>2 DEF t
  <2>4. Bytes(key) \in Seq(Byte)
    BY <2>3 DEF Byte
  <2>5. /\ Len(Bytes(key)) = 3 /\ Bytes(key)[1] = "esc" /\ Bytes(key)[2] \in {"[", "O"}
        /\ Bytes(key)[3] # "esc"
    BY <2>3
  <2>6. ClassifyEscape(<<Bytes(key)[2], Bytes(key)[3]>>) = Meaning(key)
    BY <2>2, <2>3
  <2> QED BY <1>1, <1>2, <2>4, <2>5, <2>6 DEF Arrows
<1>3. CASE key = "Down"
  <2>1. Meaning(key) = Moves(1)
    BY <1>3 DEF Meaning, Control
  <2>3. Bytes(key) = <<"esc", "O", "B">>
    BY <1>3 DEF Bytes
  <2>2. ClassifyEscape(<<"O", "B">>) = Meaning(key)
    <3> DEFINE t == <<"O", "B">>
    <3>1. t # <<>> /\ Head(t) = "O" /\ Len(t) = 2 /\ t[2] = "B"
      OBVIOUS
    <3> HIDE DEF t
    <3>2. ClassifyEscape(t) = Meaning(key)
      BY <2>1, <3>1 DEF ClassifyEscape
    <3> QED BY <3>2 DEF t
  <2>4. Bytes(key) \in Seq(Byte)
    BY <2>3 DEF Byte
  <2>5. /\ Len(Bytes(key)) = 3 /\ Bytes(key)[1] = "esc" /\ Bytes(key)[2] \in {"[", "O"}
        /\ Bytes(key)[3] # "esc"
    BY <2>3
  <2>6. ClassifyEscape(<<Bytes(key)[2], Bytes(key)[3]>>) = Meaning(key)
    BY <2>2, <2>3
  <2> QED BY <1>1, <1>3, <2>4, <2>5, <2>6 DEF Arrows
<1>4. CASE key = "Right"
  <2>1. Bytes(key) = <<"esc", "[", "C">> /\ Meaning(key) = <<>>
    BY <1>4 DEF Bytes, Meaning, Control
  <2>2. ClassifyEscape(<<"[", "C">>) = <<>>
    <3> DEFINE t == <<"[", "C">>
    <3>1. t # <<>> /\ Head(t) = "[" /\ Len(t) = 2 /\ t[2] = "C"
      OBVIOUS
    <3> HIDE DEF t
    <3>2. ClassifyEscape(t) = <<>>
      BY <3>1 DEF ClassifyEscape
    <3> QED BY <3>2 DEF t
  <2> QED BY <1>1, <1>4, <2>1, <2>2 DEF Arrows, Byte
<1>5. CASE key = "Escape"
  <2>1. Bytes(key) = <<"esc">> /\ Meaning(key) = <<[does |-> "Clear", with |-> 0]>>
    BY <1>5 DEF Bytes, Meaning, Control
  <2>2. ClassifyEscape(<<>>) = <<[does |-> "Clear", with |-> 0]>>
    BY DEF ClassifyEscape
  <2>3. <<"esc">> \in Seq(Byte)
    BY DEF Byte
  <2> QED BY <1>1, <1>5, <2>1, <2>2, <2>3 DEF Arrows
<1>6. CASE key \notin Arrows /\ key # "Escape"
  <2>1. Bytes(key) = <<key>>
    BY <1>1, <1>6 DEF Bytes, Arrows
  <2>2. Meaning(key) = IF key \in Control THEN <<[does |-> key, with |-> 0]>> ELSE <<TypeOf(key)>>
    BY <1>1, <1>6 DEF Meaning, Arrows, Control
  <2>3. <<key>> \in Seq(Byte)
    BY <1>1 DEF Byte
  <2> QED BY <1>1, <1>6, <2>1, <2>2, <2>3
<1> QED BY <1>2, <1>3, <1>4, <1>5, <1>6 DEF Arrows

LEMMA MeaningIs ==
    ASSUME KeysAreShort, NEW key \in Pressed
    PROVE  \/ Meaning(key) = <<>>
           \/ \E c \in KeyCommands : c.does # "Type" /\ Meaning(key) = <<c>>
           \/ key \notin Arrows /\ key # "Escape" /\ \E c \in KeyCommands : Meaning(key) = <<c>>
<1>1. key \in Letters /\ key # "esc" /\ key # "CtrlUp"
  BY KeysAssumption DEF KeysAreShort
<1>2. CASE key \in Arrows \cup {"Escape"}
  <2>1. Meaning(key) \in {<<>>, Moves(-1), Moves(1), <<[does |-> "Clear", with |-> 0]>>}
    BY <1>2 DEF Meaning, Arrows, Control
  <2>2. /\ [does |-> "Move", with |-> -1] \in KeyCommands /\ [does |-> "Move", with |-> 1] \in KeyCommands
        /\ [does |-> "Clear", with |-> 0] \in KeyCommands
    BY DEF KeyCommands
  <2> QED BY <2>1, <2>2 DEF Moves
<1>3. CASE key \notin Arrows \cup {"Escape"}
  <2>1. Meaning(key) = IF key \in Control THEN <<[does |-> key, with |-> 0]>> ELSE <<TypeOf(key)>>
    BY <1>3, KeyIs
  <2>2. key \in Control => [does |-> key, with |-> 0] \in KeyCommands
    BY <1>1 DEF KeyCommands, Control
  <2>3. TypeOf(key) \in KeyCommands
    BY <1>1 DEF KeyCommands, TypeOf
  <2> QED BY <1>3, <2>1, <2>2, <2>3
<1> QED BY <1>2, <1>3

\* What a key is for is applied as a command more, if it is for anything.
LEMMA EditedMeaning ==
    ASSUME KeysAreShort, NEW key \in Pressed, NEW e \in EditorStates, NEW cs \in Seq(KeyCommands)
    PROVE  /\ cs \o Meaning(key) \in Seq(KeyCommands)
           /\ Edited(e, cs \o Meaning(key)) = Edited(Edited(e, cs), Meaning(key))
           /\ Edited(e, Meaning(key)) \in EditorStates
           /\ \A d \in EditorStates, p \in Seq(Name) :
                Follows(d, p, e) => Follows(Edited(d, Meaning(key)), p, Edited(e, Meaning(key)))
<1>1. Edited(e, cs) \in EditorStates
  BY EditedIs
<1>2. \A d \in EditorStates : Edited(d, <<>>) = d
  BY EditedOfNone
<1>3. \A d \in EditorStates, c \in KeyCommands : Edited(d, <<c>>) = Edit(d, c)
  <2> TAKE d \in EditorStates, c \in KeyCommands
  <2>1. <<>> \in Seq(KeyCommands) /\ Append(<<>>, c) = <<c>>
    OBVIOUS
  <2>2. Edited(d, Append(<<>>, c)) = Edit(Edited(d, <<>>), c)
    BY <2>1, EditedOfOneMore
  <2> QED BY <1>2, <2>1, <2>2
<1>4. CASE Meaning(key) = <<>>
  <2>1. cs \o <<>> = cs
    OBVIOUS
  <2> QED BY <1>1, <1>2, <1>4, <2>1
<1>5. CASE \E c \in KeyCommands : Meaning(key) = <<c>>
  <2>1. PICK c \in KeyCommands : Meaning(key) = <<c>>
    BY <1>5
  <2>2. cs \o <<c>> = Append(cs, c) /\ Append(cs, c) \in Seq(KeyCommands)
    OBVIOUS
  <2>3. Edited(e, cs \o <<c>>) = Edited(Edited(e, cs), <<c>>)
    <3>1. Edited(e, Append(cs, c)) = Edit(Edited(e, cs), c)
      BY EditedOfOneMore
    <3>2. Edited(Edited(e, cs), <<c>>) = Edit(Edited(e, cs), c)
      BY <1>1, <1>3
    <3>3. cs \o <<c>> = Append(cs, c)
      BY <2>2
    <3> QED BY <3>1, <3>2, <3>3
  <2>4. Edited(e, <<c>>) \in EditorStates
    BY <1>3, EditIs
  <2>5. \A d \in EditorStates, p \in Seq(Name) :
            Follows(d, p, e) => Follows(Edited(d, <<c>>), p, Edited(e, <<c>>))
    BY <1>3, EditFollows
  <2> QED BY <2>1, <2>2, <2>3, <2>4, <2>5
<1> QED BY <1>4, <1>5, MeaningIs

\* The editor after each of these keys.
Typings(keys, st) ==
    /\ st \in [0 .. Len(keys) -> EditorStates]
    /\ st[0] = Editor(<<>>, 0)
    /\ \A n \in 1 .. Len(keys) : st[n] = Edited(st[n - 1], Meaning(keys[n]))

LEMMA NoneTyped ==
    ASSUME NEW line \in Name, NEW light \in Int
    PROVE  Editor(line, light) \in EditorStates
<1> HIDE DEF Name
<1>1. <<>> \in Seq(Name)
  OBVIOUS
<1> QED BY <1>1 DEF Editor, EditorStates

LEMMA TypingsGrow ==
    ASSUME KeysAreShort, NEW keys \in Seq(Pressed), NEW st, Typings(keys, st), NEW key \in Pressed
    PROVE  \E more : Typings(Append(keys, key), more) /\ \A n \in 0 .. Len(keys) : more[n] = st[n]
<1> DEFINE N == Len(keys)
           all == Append(keys, key)
           last == Edited(st[N], Meaning(key))
           more == [n \in 0 .. N + 1 |-> IF n = N + 1 THEN last ELSE st[n]]
<1>1. N \in Nat /\ Len(all) = N + 1 /\ all[N + 1] = key /\ \A n \in 1 .. N : all[n] = keys[n]
  OBVIOUS
<1>2. /\ st \in [0 .. N -> EditorStates] /\ st[0] = Editor(<<>>, 0)
      /\ \A n \in 1 .. N : st[n] = Edited(st[n - 1], Meaning(keys[n]))
  BY DEF Typings
<1> HIDE DEF N
<1>3. last \in EditorStates
  <2>1. st[N] \in EditorStates /\ <<>> \in Seq(KeyCommands)
    BY <1>1, <1>2
  <2> QED BY <2>1, EditedMeaning
<1> HIDE DEF all, last
<1>4. more \in [0 .. N + 1 -> EditorStates]
  BY <1>1, <1>2, <1>3
<1>5. \A n \in 0 .. N : more[n] = st[n]
  BY <1>1
<1>6. more[N + 1] = last
  BY <1>1
<1> HIDE DEF more
<1>7. ASSUME NEW n \in 1 .. N + 1 PROVE more[n] = Edited(more[n - 1], Meaning(all[n]))
  <2>1. CASE n = N + 1
    <3>1. n - 1 = N /\ N \in 0 .. N
      BY <1>1, <2>1
    <3> QED BY <1>1, <1>5, <1>6, <2>1, <3>1 DEF last
  <2>2. CASE n # N + 1
    <3>1. n \in 1 .. N /\ n \in 0 .. N /\ n - 1 \in 0 .. N
      BY <1>1, <2>2
    <3> QED BY <1>1, <1>2, <1>5, <3>1
  <2> QED BY <2>1, <2>2
<1>8. more[0] = Editor(<<>>, 0)
  BY <1>1, <1>2, <1>5
<1> QED BY <1>1, <1>4, <1>5, <1>7, <1>8 DEF Typings, all, N

LEMMA IdealIs ==
    ASSUME kyMeant \in Seq(Pressed), NEW st, Typings(kyMeant, st)
    PROVE  Ideal = st[Len(kyMeant)]
<1> DEFINE N == Len(kyMeant)
           Steps(g) == [n \in 0 .. N |-> IF n = 0 THEN Editor(<<>>, 0) ELSE Edited(g[n - 1], Meaning(kyMeant[n]))]
           after == CHOOSE g : g = Steps(g)
<1>1. N \in Nat
  OBVIOUS
<1>2. /\ st \in [0 .. N -> EditorStates] /\ st[0] = Editor(<<>>, 0)
      /\ \A n \in 1 .. N : st[n] = Edited(st[n - 1], Meaning(kyMeant[n]))
  BY DEF Typings
<1>3. st = Steps(st)
  <2>1. ASSUME NEW n \in 0 .. N
        PROVE  st[n] = IF n = 0 THEN Editor(<<>>, 0) ELSE Edited(st[n - 1], Meaning(kyMeant[n]))
    <3> HIDE DEF N
    <3>1. n = 0 \/ n \in 1 .. N
      BY <1>1
    <3>2. CASE n = 0
      BY <1>2, <3>2
    <3>3. CASE n # 0
      BY <1>2, <3>1, <3>3
    <3> QED BY <3>2, <3>3
  <2>2. Steps(st) = [n \in 0 .. N |-> st[n]]
    BY <2>1
  <2>3. st = [n \in 0 .. N |-> st[n]]
    BY <1>2
  <2> QED BY <2>2, <2>3
<1>4. after = Steps(after)
  <2> HIDE DEF Steps
  <2> QED BY <1>3
<1>5. Ideal = after[N]
  BY DEF Ideal
<1>6. ASSUME NEW n \in 0 .. N
      PROVE  after[n] = IF n = 0 THEN Editor(<<>>, 0) ELSE Edited(after[n - 1], Meaning(kyMeant[n]))
  <2> HIDE DEF after
  <2> QED BY <1>4
<1> HIDE DEF after, Steps
<1> DEFINE S == {n \in 0 .. N : after[n] = st[n]}
<1>7. 0 \in S
  BY <1>1, <1>2, <1>6
<1>8. ASSUME NEW n \in 0 .. N - 1, n \in S PROVE n + 1 \in S
  <2>1. n + 1 \in 1 .. N /\ (n + 1) - 1 = n /\ n + 1 \in 0 .. N /\ n + 1 # 0
    BY <1>1
  <2>2. after[n] = st[n]
    BY <1>8
  <2>3. after[n + 1] = Edited(after[n], Meaning(kyMeant[n + 1]))
    BY <1>6, <2>1
  <2>4. st[n + 1] = Edited(st[n], Meaning(kyMeant[n + 1]))
    BY <1>2, <2>1
  <2> QED BY <2>1, <2>2, <2>3, <2>4
<1>9. N \in S
  <2>1. N \in 0 .. N
    BY <1>1
  <2> HIDE DEF S, N
  <2> QED BY <1>1, <1>7, <1>8, <2>1, Climb
<1> QED BY <1>5, <1>9
--------------------------------------------------------------------------------
(* What is in flight: the bytes of the keys not read yet.                  *)

\* The bytes still to be read before a key are its own, then the ones still to be
\* read after it; and no key comes behind an Escape.
Link(keys, rest, i) ==
    /\ rest[i] = Bytes(keys[i + 1]) \o rest[i + 1]
    /\ rest[i] # <<>> /\ Last(rest[i]) = Last(Bytes(keys[Len(keys)]))
    /\ i + 1 < Len(keys) => keys[i + 1] # "Escape"

\* rest[i] is what is still to be read once i keys have been: the bytes of every
\* key after the m-th, in order; and no key comes behind an Escape.
Sent(keys, m, rest) ==
    /\ m \in 0 .. Len(keys)
    /\ rest \in [m .. Len(keys) -> Seq(Byte)] /\ rest[Len(keys)] = <<>>
    /\ \A i \in m .. Len(keys) - 1 : Link(keys, rest, i)

LEMMA LastOfBoth ==
    ASSUME NEW s \in Seq(Byte), NEW t \in Seq(Byte), t # <<>>
    PROVE  s \o t # <<>> /\ Last(s \o t) = Last(t)
<1>1. Len(s) \in Nat /\ Len(t) \in Nat /\ Len(t) > 0
  OBVIOUS
<1>2. Len(s \o t) = Len(s) + Len(t) /\ s \o t \in Seq(Byte)
  OBVIOUS
<1>3. (s \o t)[Len(s) + Len(t)] = t[Len(t)]
  BY <1>1
<1>4. s \o t # <<>>
  BY <1>1, <1>2
<1> QED BY <1>2, <1>3, <1>4 DEF Last

LEMMA BytesAre ==
    ASSUME KeysAreShort, NEW key \in Pressed
    PROVE  /\ Bytes(key) \in Seq(Byte) /\ Bytes(key) # <<>>
           /\ key = "Escape" <=> Last(Bytes(key)) = "esc"
<1>1. CASE key \in Arrows
  <2>1. Bytes(key) \in Seq(Byte) /\ Len(Bytes(key)) = 3 /\ Bytes(key)[3] # "esc" /\ key # "Escape"
    BY <1>1, KeyIs DEF Arrows
  <2> QED BY <2>1 DEF Last
<1>2. CASE key = "Escape"
  <2>1. Bytes(key) = <<"esc">> /\ Bytes(key) \in Seq(Byte)
    BY <1>2, KeyIs
  <2> QED BY <1>2, <2>1 DEF Last
<1>3. CASE key \notin Arrows /\ key # "Escape"
  <2>1. Bytes(key) = <<key>> /\ Bytes(key) \in Seq(Byte) /\ key # "esc"
    BY <1>3, KeyIs
  <2> QED BY <1>3, <2>1 DEF Last
<1> QED BY <1>1, <1>2, <1>3

LEMMA SentPops ==
    ASSUME NEW keys \in Seq(Pressed), NEW m, NEW rest, Sent(keys, m, rest), m < Len(keys)
    PROVE  /\ rest[m] = Bytes(keys[m + 1]) \o rest[m + 1] /\ rest[m + 1] \in Seq(Byte)
           /\ keys[m + 1] = "Escape" => rest[m + 1] = <<>>
           /\ keys[m + 1] \in Pressed /\ m + 1 \in 1 .. Len(keys)
           /\ \E less : Sent(keys, m + 1, less) /\ less[m + 1] = rest[m + 1]
<1> DEFINE N == Len(keys)
           less == [i \in m + 1 .. N |-> rest[i]]
<1>1. N \in Nat /\ m \in 0 .. N /\ m \in m .. N - 1 /\ m + 1 \in 1 .. N /\ m + 1 \in m + 1 .. N /\ m + 1 \in m .. N
  BY DEF Sent
<1>2. rest \in [m .. N -> Seq(Byte)] /\ rest[N] = <<>>
  BY DEF Sent
<1>3. \A i \in m .. N - 1 : Link(keys, rest, i)
  BY DEF Sent
<1>4. keys[m + 1] \in Pressed
  BY <1>1, ElementOfSeq
<1> HIDE DEF N
<1>5. less \in [m + 1 .. N -> Seq(Byte)] /\ \A i \in m + 1 .. N : less[i] = rest[i]
  BY <1>1, <1>2
<1> HIDE DEF less
<1>6. less[N] = <<>>
  BY <1>1, <1>2, <1>5
<1>7. ASSUME NEW i \in m + 1 .. N - 1
      PROVE  Link(keys, less, i)
  <2>1. i \in m .. N - 1 /\ i \in m + 1 .. N /\ i + 1 \in m + 1 .. N
    BY <1>1
  <2>2. less[i] = rest[i] /\ less[i + 1] = rest[i + 1]
    BY <1>5, <2>1
  <2>3. Link(keys, rest, i)
    BY <1>3, <2>1
  <2> QED BY <2>2, <2>3 DEF Link
<1>8. Sent(keys, m + 1, less) /\ less[m + 1] = rest[m + 1]
  <2>1. m + 1 \in 0 .. N
    BY <1>1
  <2> QED BY <1>1, <1>5, <1>6, <1>7, <2>1 DEF Sent, N
<1>11. /\ rest[m] = Bytes(keys[m + 1]) \o rest[m + 1]
       /\ m + 1 < Len(keys) => keys[m + 1] # "Escape"
  <2>1. Link(keys, rest, m)
    BY <1>1, <1>3
  <2> QED BY <2>1 DEF Link
<1>9. keys[m + 1] = "Escape" => rest[m + 1] = <<>>
  <2>1. ~(m + 1 < N) => m + 1 = N
    BY <1>1
  <2>2. m + 1 < N => keys[m + 1] # "Escape"
    BY <1>11 DEF N
  <2> QED BY <1>2, <2>1, <2>2
<1>10. rest[m + 1] \in Seq(Byte)
  <2>1. \A i \in m .. N : rest[i] \in Seq(Byte)
    BY <1>2
  <2> QED BY <1>1, <2>1
<1> QED BY <1>1, <1>4, <1>8, <1>9, <1>10, <1>11 DEF N

LEMMA SentGrows ==
    ASSUME KeysAreShort, NEW keys \in Seq(Pressed), NEW m, NEW rest, Sent(keys, m, rest),
           NEW key \in Pressed, m < Len(keys) => keys[Len(keys)] # "Escape"
    PROVE  \E more : Sent(Append(keys, key), m, more) /\ more[m] = rest[m] \o Bytes(key)
<1> DEFINE N == Len(keys)
           all == Append(keys, key)
           b == Bytes(key)
           more == [i \in m .. N + 1 |-> IF i = N + 1 THEN <<>> ELSE rest[i] \o b]
<1>1. N \in Nat /\ m \in 0 .. N /\ Len(all) = N + 1 /\ all[N + 1] = key /\ \A i \in 1 .. N : all[i] = keys[i]
  BY DEF Sent
<1>2. rest \in [m .. N -> Seq(Byte)] /\ rest[N] = <<>>
  BY DEF Sent
<1>3. \A i \in m .. N - 1 : Link(keys, rest, i)
  BY DEF Sent
<1>4. m < N => keys[N] # "Escape"
  OBVIOUS
<1>5. b \in Seq(Byte) /\ b # <<>>
  BY BytesAre
<1>6. \A i \in 1 .. N : Bytes(keys[i]) \in Seq(Byte)
  <2> TAKE i \in 1 .. N
  <2>1. keys[i] \in Pressed
    BY ElementOfSeq
  <2> QED BY <2>1, BytesAre
<1> HIDE DEF N, all, b
<1>7. \A i \in m .. N : rest[i] \o b \in Seq(Byte)
  <2> TAKE i \in m .. N
  <2>1. rest[i] \in Seq(Byte)
    BY <1>2
  <2> QED BY <1>5, <2>1
<1>8. more \in [m .. N + 1 -> Seq(Byte)]
  <2>1. ASSUME NEW i \in m .. N + 1 PROVE (IF i = N + 1 THEN <<>> ELSE rest[i] \o b) \in Seq(Byte)
    <3>1. CASE i = N + 1
      BY <3>1
    <3>2. CASE i # N + 1
      <4>1. i \in m .. N
        BY <1>1, <3>2
      <4> QED BY <1>7, <3>2, <4>1
    <3> QED BY <3>1, <3>2
  <2> QED BY <2>1
<1>9. more[N + 1] = <<>> /\ \A i \in m .. N : more[i] = rest[i] \o b
  <2>1. N + 1 \in m .. N + 1
    BY <1>1
  <2>2. \A i \in m .. N : i \in m .. N + 1 /\ i # N + 1
    BY <1>1
  <2> QED BY <2>1, <2>2
<1> HIDE DEF more
<1>10. ASSUME NEW i \in m .. N
       PROVE  Link(all, more, i)
  <2>1. rest[i] \in Seq(Byte) /\ more[i] = rest[i] \o b
    BY <1>2, <1>9
  <2>2. more[i] # <<>> /\ Last(more[i]) = Last(b)
    BY <1>5, <2>1, LastOfBoth
  <2>3. CASE i = N
    <3>1. <<>> \o b = b /\ b \o <<>> = b
      BY <1>5
    <3>2. more[i] = b \o more[i + 1] /\ all[i + 1] = key /\ ~(i + 1 < N + 1)
      BY <1>1, <1>2, <1>9, <2>1, <2>3, <3>1
    <3> QED BY <1>1, <2>2, <3>2 DEF b, Link
  <2>4. CASE i # N
    <3>1. i \in m .. N - 1 /\ i + 1 \in 1 .. N /\ i + 1 \in m .. N
      BY <1>1, <2>4
    <3>7. Link(keys, rest, i)
      BY <1>3, <3>1
    <3>6. rest[i] = Bytes(keys[i + 1]) \o rest[i + 1] /\ (i + 1 < N => keys[i + 1] # "Escape")
      BY <3>7 DEF Link, N
    <3>2. rest[i] = Bytes(keys[i + 1]) \o rest[i + 1] /\ all[i + 1] = keys[i + 1] /\ more[i + 1] = rest[i + 1] \o b
      BY <1>1, <1>9, <3>1, <3>6
    <3>3. Bytes(keys[i + 1]) \in Seq(Byte) /\ rest[i + 1] \in Seq(Byte)
      BY <1>2, <1>6, <3>1
    <3>4. (Bytes(keys[i + 1]) \o rest[i + 1]) \o b = Bytes(keys[i + 1]) \o (rest[i + 1] \o b)
      <4>1. \A x, y, w \in Seq(Byte) : (x \o y) \o w = x \o (y \o w)
        BY SMTT(60), ConcatAssociative
      <4> QED BY <1>5, <3>3, <4>1
    <3>5. all[i + 1] # "Escape"
      <4>1. i + 1 < N \/ (i + 1 = N /\ m < N)
        BY <1>1, <3>1
      <4>2. CASE i + 1 < N
        <5>1. keys[i + 1] # "Escape"
          BY <3>6, <4>2
        <5> QED BY <3>2, <5>1
      <4>3. CASE i + 1 = N /\ m < N
        BY <1>4, <3>2, <4>3
      <4> QED BY <4>1, <4>2, <4>3
    <3>8. more[i] = Bytes(all[i + 1]) \o more[i + 1]
      BY <2>1, <3>2, <3>4
    <3> QED BY <1>1, <2>2, <3>5, <3>8 DEF b, Link
  <2> QED BY <2>3, <2>4
<1>11. Sent(all, m, more)
  <2>1. m \in 0 .. N + 1 /\ (N + 1) - 1 = N
    BY <1>1
  <2> QED BY <1>1, <1>8, <1>9, <1>10, <2>1 DEF Sent
<1>12. more[m] = rest[m] \o b
  BY <1>1, <1>9
<1> QED BY <1>11, <1>12 DEF all, b
--------------------------------------------------------------------------------
(* The line.                                                               *)

\* The bytes still to be read, the escape's own first if the reader is in one.
Stream == IF kyInEscape THEN <<"esc">> \o (kyTail \o kyTty) ELSE kyTty

\* The editor the next burst is applied to.
Current == IF kyLoop = "take" THEN Editor(kyLine, kyLight) ELSE Editor(kyMine, kyMineLight)

\* m keys have been read, the bytes of the others are in flight, and what is
\* queued is all there is between the editor and what those m keys make of it.
InFlight(m, rest, st) ==
    /\ Sent(kyMeant, m, rest) /\ rest[m] = Stream
    /\ Typings(kyMeant, st) /\ Follows(st[m], kySubmitted, Edited(Current, kyPending))

Caught == \E m, rest, st : InFlight(m, rest, st)

KeysTypes ==
    /\ kyMeant \in Seq(Pressed) /\ kyLoop \in {"take", "write"}
    /\ kyTty \in Seq(Byte) /\ kyTail \in Seq(Byte) /\ kyInEscape \in BOOLEAN
    /\ Len(kyTail) <= 2
    /\ kyPending \in Seq(KeyCommands) /\ kySubmitted \in Seq(Name) /\ Current \in EditorStates

KeysInv == ~kyHurried /\ ~kyOverflowed => KeysTypes /\ Caught

\* An escape being read is the first key in flight.
LEMMA InEscape ==
    ASSUME KeysAreShort, KeysTypes, kyInEscape, NEW m, NEW rest, Sent(kyMeant, m, rest), rest[m] = Stream
    PROVE  /\ m < Len(kyMeant)
           /\ \/ /\ kyMeant[m + 1] = "Escape" /\ kyTail = <<>> /\ kyTty = <<>> /\ rest[m + 1] = kyTty
                 /\ Meaning(kyMeant[m + 1]) = ClassifyEscape(kyTail)
              \/ /\ kyMeant[m + 1] \in Arrows /\ kyTty # <<>> /\ Len(kyTail) < 2
              \/ /\ kyMeant[m + 1] \in Arrows /\ Len(kyTail) = 2 /\ Head(kyTail) \in {"[", "O"}
                 /\ rest[m + 1] = kyTty
                 /\ Meaning(kyMeant[m + 1]) = ClassifyEscape(kyTail)
<1> DEFINE N == Len(kyMeant)
           key == kyMeant[m + 1]
           r == rest[m + 1]
<1>1. kyTail \in Seq(Byte) /\ kyTty \in Seq(Byte) /\ Len(kyTail) <= 2 /\ kyMeant \in Seq(Pressed)
  BY DEF KeysTypes
<1>2. rest[m] = <<"esc">> \o (kyTail \o kyTty)
  BY DEF Stream
<1>3. m \in 0 .. N /\ N \in Nat /\ rest[N] = <<>>
  BY <1>1 DEF Sent
<1>e. "esc" \in Byte
  BY DEF Byte
<1>4. rest[m] # <<>> /\ Len(rest[m]) = 1 + Len(kyTail) + Len(kyTty) /\ rest[m][1] = "esc"
  <2> HIDE DEF Byte
  <2>1. Len(kyTail \o kyTty) = Len(kyTail) + Len(kyTty) /\ kyTail \o kyTty \in Seq(Byte)
    BY <1>1
  <2>2. \A s \in Seq(Byte) : Len(<<"esc">> \o s) = 1 + Len(s) /\ (<<"esc">> \o s)[1] = "esc" /\ <<"esc">> \o s # <<>>
    BY <1>e
  <2> QED BY <1>1, <1>2, <2>1, <2>2
<1>5. m < N
  BY <1>3, <1>4
<1>6. rest[m] = Bytes(key) \o r /\ r \in Seq(Byte) /\ (key = "Escape" => r = <<>>) /\ key \in Pressed
  BY <1>1, <1>5, SentPops
<1> HIDE DEF key, r
<1>7. CASE key = "Escape"
  <2>1. Bytes(key) = <<"esc">> /\ Meaning(key) = ClassifyEscape(<<>>) /\ r = <<>>
    BY <1>6, <1>7, KeyIs
  <2>2. Len(rest[m]) = 1
    BY <1>6, <2>1
  <2>3. Len(kyTail) \in Nat /\ Len(kyTty) \in Nat
    BY <1>1
  <2>4. Len(kyTail) = 0 /\ Len(kyTty) = 0
    <3>1. \A a, b \in Nat : 1 = 1 + a + b => a = 0 /\ b = 0
      OBVIOUS
    <3> QED BY <1>4, <2>2, <2>3, <3>1
  <2>5. kyTail = <<>> /\ kyTty = <<>>
    BY <1>1, <2>4
  <2> QED BY <1>5, <1>7, <2>1, <2>5 DEF key, r
<1>8. CASE key \in Arrows
  <2> DEFINE b == Bytes(key)
  <2>1. b \in Seq(Byte) /\ Len(b) = 3 /\ b[1] = "esc" /\ b[2] \in {"[", "O"} /\ ClassifyEscape(<<b[2], b[3]>>) = Meaning(key)
    BY <1>6, <1>8, KeyIs
  <2> HIDE DEF b, Byte
  <2>2. Len(rest[m]) = 3 + Len(r) /\ \A i \in 1 .. Len(rest[m]) : rest[m][i] = IF i <= 3 THEN b[i] ELSE r[i - 3]
    <3>1. \A s, t \in Seq(Byte) : Len(s) = 3 =>
             /\ Len(s \o t) = 3 + Len(t)
             /\ \A i \in 1 .. Len(s \o t) : (s \o t)[i] = IF i <= 3 THEN s[i] ELSE t[i - 3]
      <4> TAKE s, t \in Seq(Byte)
      <4> HAVE Len(s) = 3
      <4>3. Len(s \o t) = Len(s) + Len(t)
        BY ConcatProperties
      <4>4. Len(t) \in Nat
        BY LenProperties
      <4>1. Len(s \o t) = 3 + Len(t) /\ Len(t) \in Nat
        BY <4>3, <4>4
      <4>2. ASSUME NEW i \in 1 .. 3 + Len(t) PROVE (s \o t)[i] = IF i <= 3 THEN s[i] ELSE t[i - 3]
        BY <4>1
      <4> QED BY <4>1, <4>2
    <3>2. rest[m] = b \o r
      BY <1>6 DEF b
    <3> QED BY <1>6, <2>1, <3>1, <3>2
  <2>3. \A i \in 1 .. Len(rest[m]) :
            rest[m][i] = IF i = 1 THEN "esc" ELSE IF i - 1 <= Len(kyTail) THEN kyTail[i - 1] ELSE kyTty[i - 1 - Len(kyTail)]
    <3>1. \A s \in Seq(Byte) : Len(<<"esc">> \o s) = 1 + Len(s)
             /\ \A i \in 1 .. Len(s) + 1 : (<<"esc">> \o s)[i] = IF i = 1 THEN "esc" ELSE s[i - 1]
      BY <1>e
    <3>2. kyTail \o kyTty \in Seq(Byte) /\ Len(kyTail \o kyTty) = Len(kyTail) + Len(kyTty)
          /\ \A i \in 1 .. Len(kyTail) + Len(kyTty) :
                (kyTail \o kyTty)[i] = IF i <= Len(kyTail) THEN kyTail[i] ELSE kyTty[i - Len(kyTail)]
      BY <1>1
    <3>3. Len(kyTail) \in Nat /\ Len(kyTty) \in Nat
      BY <1>1
    <3> TAKE i \in 1 .. Len(rest[m])
    <3>4. i = 1 \/ i - 1 \in 1 .. Len(kyTail) + Len(kyTty)
      BY <1>4, <3>3
    <3>5. rest[m][i] = IF i = 1 THEN "esc" ELSE (kyTail \o kyTty)[i - 1]
      <4>1. i \in 1 .. Len(kyTail \o kyTty) + 1
        BY <1>4, <3>2, <3>3
      <4> QED BY <1>2, <3>1, <3>2, <4>1
    <3> QED BY <3>2, <3>4, <3>5
  <2>4. Len(kyTail) \in Nat /\ Len(kyTty) \in Nat /\ Len(r) \in Nat
    BY <1>1, <1>6
  <2>5. CASE Len(kyTail) < 2
    <3>1. Len(kyTty) > 0
      BY <1>4, <2>2, <2>4, <2>5
    <3>2. kyTty # <<>>
      BY <3>1
    <3> QED BY <1>5, <1>8, <2>5, <3>2 DEF key
  <2>6. CASE Len(kyTail) = 2
    <3>1. Len(r) = Len(kyTty) /\ Len(rest[m]) = 3 + Len(kyTty)
      BY <1>4, <2>2, <2>4, <2>6
    <3>2. kyTail[1] = b[2] /\ kyTail[2] = b[3]
      <4>1. 2 \in 1 .. Len(rest[m]) /\ 3 \in 1 .. Len(rest[m])
        BY <2>4, <3>1
      <4>2. rest[m][2] = b[2] /\ rest[m][3] = b[3]
        BY <2>2, <4>1
      <4>3. rest[m][2] = kyTail[1] /\ rest[m][3] = kyTail[2]
        BY <2>3, <2>6, <4>1
      <4> QED BY <4>2, <4>3
    <3>3. kyTail = <<b[2], b[3]>>
      BY <1>1, <2>6, <3>2
    <3>4. \A j \in 1 .. Len(kyTty) : r[j] = kyTty[j]
      <4> TAKE j \in 1 .. Len(kyTty)
      <4>1. j + 3 \in 1 .. Len(rest[m]) /\ ~(j + 3 <= 3) /\ (j + 3) - 3 = j /\ j + 3 # 1 /\ ~((j + 3) - 1 <= 2)
            /\ ((j + 3) - 1) - 2 = j
        BY <2>4, <3>1
      <4>2. rest[m][j + 3] = r[j]
        BY <2>2, <4>1
      <4>3. rest[m][j + 3] = kyTty[j]
        BY <2>3, <2>6, <4>1
      <4> QED BY <4>2, <4>3
    <3>5. r = kyTty
      BY <1>1, <1>6, <3>1, <3>4
    <3>6. Head(kyTail) \in {"[", "O"}
      BY <2>1, <3>3
    <3> QED BY <1>5, <1>8, <2>1, <2>6, <3>3, <3>5, <3>6 DEF key, r
  <2>7. Len(kyTail) < 2 \/ Len(kyTail) = 2
    <3>1. \A n \in Nat : n <= 2 => n < 2 \/ n = 2
      OBVIOUS
    <3> QED BY <1>1, <2>4, <3>1
  <2> QED BY <2>5, <2>6, <2>7
<1>9. CASE key \notin Arrows /\ key # "Escape"
  <2>1. Bytes(key) = <<key>> /\ key # "esc" /\ Bytes(key) \in Seq(Byte)
    BY <1>6, <1>9, KeyIs
  <2>2. \A s, t \in Seq(Byte) : Len(s) = 1 => (s \o t)[1] = s[1]
    <3> HIDE DEF Byte
    <3> QED BY SMTT(60)
  <2>3. Len(Bytes(key)) = 1 /\ Bytes(key)[1] = key
    BY <2>1
  <2>4. rest[m][1] = key
    BY <1>6, <2>1, <2>2, <2>3
  <2> QED BY <1>4, <2>1, <2>4
<1> QED BY <1>7, <1>8, <1>9

LEMMA KeysInvStarts ==
    ASSUME KeysAreShort, KeysInit
    PROVE  KeysInv
<1>1. /\ kyTty = <<>> /\ kyTail = <<>> /\ kyInEscape = FALSE /\ kyPending = <<>> /\ kyLine = <<>>
      /\ kyLight = 0 /\ kyLoop = "take" /\ kySubmitted = <<>> /\ kyMeant = <<>>
  BY DEF KeysInit
<1> DEFINE rest == [i \in 0 .. 0 |-> <<>>]
           st == [n \in 0 .. 0 |-> Editor(<<>>, 0)]
<1>2. Editor(<<>>, 0) \in EditorStates
  <2>1. <<>> \in Name
    BY DEF Name
  <2> QED BY <2>1, NoneTyped
<1>3. Current = Editor(<<>>, 0) /\ Stream = <<>>
  BY <1>1 DEF Current, Stream
<1>4. KeysTypes
  <2>1. \A S : <<>> \in Seq(S)
    OBVIOUS
  <2>2. Len(<<>>) <= 2
    OBVIOUS
  <2>3. Current \in EditorStates
    BY <1>2, <1>3
  <2> HIDE DEF Byte, KeyCommands, Name, EditorStates
  <2> QED BY <1>1, <2>1, <2>2, <2>3, Zenon DEF KeysTypes
<1>5. Sent(kyMeant, 0, rest) /\ rest[0] = Stream
  <2>1. Len(kyMeant) = 0
    BY <1>1
  <2> HIDE DEF Byte
  <2>2. rest \in [0 .. 0 -> Seq(Byte)] /\ rest[0] = <<>>
    OBVIOUS
  <2> HIDE DEF rest
  <2>3. \A i \in 0 .. 0 - 1 : FALSE
    OBVIOUS
  <2> QED BY <1>3, <2>1, <2>2, <2>3 DEF Sent
<1>6. Typings(kyMeant, st)
  <2>1. Len(kyMeant) = 0
    BY <1>1
  <2>2. st \in [0 .. 0 -> EditorStates] /\ st[0] = Editor(<<>>, 0)
    BY <1>2
  <2> HIDE DEF st
  <2>3. \A i \in 1 .. 0 : FALSE
    OBVIOUS
  <2> QED BY <2>1, <2>2, <2>3 DEF Typings
<1>7. Follows(st[0], kySubmitted, Edited(Current, kyPending))
  <2>1. Edited(Current, kyPending) = Editor(<<>>, 0) /\ st[0] = Editor(<<>>, 0)
    BY <1>1, <1>2, <1>3, EditedOfNone
  <2>2. Editor(<<>>, 0).submitted = <<>>
    BY DEF Editor
  <2> QED BY <1>1, <2>1, <2>2 DEF Follows
<1> QED BY <1>4, <1>5, <1>6, <1>7 DEF KeysInv, Caught, InFlight

\* A key is pressed: its bytes are in flight behind the others.
LEMMA PressKeepsKeys ==
    ASSUME KeysAreShort, KeysInv, NEW key \in Pressed, Press(key)
    PROVE  KeysInv'
<1> SUFFICES ASSUME ~kyHurried', ~kyOverflowed' PROVE KeysTypes' /\ Caught'
  BY DEF KeysInv
<1>1. /\ kyTty' = kyTty \o Bytes(key) /\ kyMeant' = Append(kyMeant, key)
      /\ ~kyHurried /\ ~kyInEscape /\ ~(kyTty # <<>> /\ Last(kyTty) = "esc") /\ ~kyOverflowed
      /\ kyInEscape' = kyInEscape /\ kyTail' = kyTail /\ kyPending' = kyPending
      /\ kySubmitted' = kySubmitted /\ kyLoop' = kyLoop /\ Current' = Current
  BY DEF Press, Current
<1>2. KeysTypes /\ Caught
  BY <1>1 DEF KeysInv
<1>3. PICK m, rest, st : InFlight(m, rest, st)
  BY <1>2 DEF Caught
<1>4. /\ Sent(kyMeant, m, rest) /\ rest[m] = Stream /\ Stream = kyTty
      /\ Typings(kyMeant, st) /\ Follows(st[m], kySubmitted, Edited(Current, kyPending))
      /\ kyMeant \in Seq(Pressed) /\ kyTty \in Seq(Byte)
  BY <1>1, <1>2, <1>3 DEF InFlight, Stream, KeysTypes
<1>5. m < Len(kyMeant) => kyMeant[Len(kyMeant)] # "Escape"
  <2> SUFFICES ASSUME m < Len(kyMeant) PROVE kyMeant[Len(kyMeant)] # "Escape"
    OBVIOUS
  <2>1. m \in 0 .. Len(kyMeant) /\ Len(kyMeant) \in Nat
    BY <1>4 DEF Sent
  <2>2. m \in m .. Len(kyMeant) - 1 /\ Len(kyMeant) \in 1 .. Len(kyMeant)
    BY <2>1
  <2>3. Link(kyMeant, rest, m)
    BY <1>4, <2>2 DEF Sent
  <2>4. rest[m] # <<>> /\ Last(rest[m]) = Last(Bytes(kyMeant[Len(kyMeant)]))
    BY <2>3 DEF Link
  <2>5. kyMeant[Len(kyMeant)] \in Pressed
    BY <1>4, <2>2, ElementOfSeq
  <2> QED BY <1>1, <1>4, <2>4, <2>5, BytesAre
<1>6. PICK more : Sent(kyMeant', m, more) /\ more[m] = rest[m] \o Bytes(key)
  BY <1>1, <1>4, <1>5, SentGrows
<1>7. PICK now : Typings(kyMeant', now) /\ \A n \in 0 .. Len(kyMeant) : now[n] = st[n]
  BY <1>1, <1>4, TypingsGrow
<1>8. now[m] = st[m]
  BY <1>4, <1>7 DEF Sent
<1>9. more[m] = Stream'
  BY <1>1, <1>4, <1>6 DEF Stream
<1>10. Caught'
  <2>1. Edited(Current, kyPending)' = Edited(Current, kyPending)
    BY <1>1 DEF Edited, Edit, Chosen
  <2>2. InFlight(m, more, now)'
    BY <1>1, <1>4, <1>6, <1>7, <1>8, <1>9, <2>1 DEF InFlight
  <2> QED BY <2>2 DEF Caught
<1>11. KeysTypes'
  <2>1. Bytes(key) \in Seq(Byte)
    BY BytesAre
  <2>2. \A s, t \in Seq(Byte) : s \o t \in Seq(Byte)
    OBVIOUS
  <2>3. kyTty' \in Seq(Byte) /\ kyMeant' \in Seq(Pressed)
    <3>1. \A s \in Seq(Pressed) : Append(s, key) \in Seq(Pressed)
      OBVIOUS
    <3> QED BY <1>1, <1>4, <2>1, <2>2, <3>1
  <2> QED BY <1>1, <1>2, <2>3 DEF KeysTypes
<1> QED BY <1>10, <1>11

\* The escape before a key that comes of it is what the next key is.
LEMMA AtTheHead ==
    ASSUME KeysAreShort, KeysTypes, ~kyInEscape, kyTty # <<>>,
           NEW m, NEW rest, Sent(kyMeant, m, rest), rest[m] = Stream
    PROVE  /\ m < Len(kyMeant) /\ m + 1 \in 1 .. Len(kyMeant) /\ kyMeant[m + 1] \in Pressed
           /\ Head(kyTty) # "esc" => /\ kyMeant[m + 1] = Head(kyTty) /\ rest[m + 1] = Tail(kyTty)
                                     /\ kyMeant[m + 1] \notin Arrows /\ kyMeant[m + 1] # "Escape"
<1> DEFINE key == kyMeant[m + 1]
           r == rest[m + 1]
<1>1. rest[m] = kyTty /\ kyTty \in Seq(Byte) /\ kyMeant \in Seq(Pressed)
  BY DEF Stream, KeysTypes
<1>2. m < Len(kyMeant)
  <2>1. m \in 0 .. Len(kyMeant) /\ rest[Len(kyMeant)] = <<>> /\ Len(kyMeant) \in Nat
    BY <1>1 DEF Sent
  <2>2. m # Len(kyMeant)
    BY <1>1, <2>1
  <2> QED BY <2>1, <2>2
<1>3. /\ rest[m] = Bytes(key) \o r /\ r \in Seq(Byte) /\ key \in Pressed
      /\ m + 1 \in 1 .. Len(kyMeant)
  BY <1>1, <1>2, SentPops
<1> HIDE DEF key, r
<1>4. \A s, t \in Seq(Byte) : s # <<>> => Head(s \o t) = s[1] /\ (Len(s) = 1 => Tail(s \o t) = t)
  <2> HIDE DEF Byte
  <2> TAKE s, t \in Seq(Byte)
  <2> HAVE s # <<>>
  <2>1. Len(s) \in Nat /\ Len(t) \in Nat /\ Len(s) > 0 /\ Len(s \o t) = Len(s) + Len(t)
    OBVIOUS
  <2>2. (s \o t)[1] = s[1] /\ s \o t \in Seq(Byte) /\ s \o t # <<>>
    BY <2>1
  <2>3. ASSUME Len(s) = 1 PROVE Tail(s \o t) = t
    <3>1. Len(Tail(s \o t)) = Len(t) /\ Tail(s \o t) \in Seq(Byte)
      BY <2>1, <2>2, <2>3
    <3>2. \A i \in 1 .. Len(t) : Tail(s \o t)[i] = t[i]
      BY <2>1, <2>2, <2>3
    <3> QED BY <3>1, <3>2
  <2> QED BY <2>2, <2>3
<1>5. ASSUME Head(kyTty) # "esc" PROVE key = Head(kyTty) /\ r = Tail(kyTty) /\ key \notin Arrows /\ key # "Escape"
  <2>1. Bytes(key) \in Seq(Byte) /\ Bytes(key) # <<>>
    BY <1>3, BytesAre
  <2>2. Bytes(key)[1] # "esc"
    BY <1>1, <1>3, <1>4, <1>5, <2>1
  <2>3. key \notin Arrows
    BY <1>3, <2>2, KeyIs
  <2>4. key # "Escape"
    <3>1. key = "Escape" => Bytes(key) = <<"esc">>
      BY <1>3, KeyIs
    <3>2. <<"esc">>[1] = "esc"
      OBVIOUS
    <3> QED BY <2>2, <3>1, <3>2
  <2>5. Bytes(key) = <<key>>
    BY <1>3, <2>3, <2>4, KeyIs
  <2>6. Len(Bytes(key)) = 1 /\ Bytes(key)[1] = key
    BY <2>5
  <2> QED BY <1>1, <1>3, <1>4, <2>1, <2>3, <2>4, <2>6
<1> QED BY <1>2, <1>3, <1>5 DEF key, r

\* A key has been read: what it is for is behind what was queued.
LEMMA OneMoreRead ==
    ASSUME KeysAreShort, KeysTypes, NEW m, NEW rest, NEW st, InFlight(m, rest, st), m < Len(kyMeant),
           kyMeant' = kyMeant, kySubmitted' = kySubmitted, Current' = Current,
           kyPending' = kyPending \o Meaning(kyMeant[m + 1]), Stream' = rest[m + 1]
    PROVE  Caught' /\ kyPending' \in Seq(KeyCommands)
<1> DEFINE key == kyMeant[m + 1]
<1>1. /\ Sent(kyMeant, m, rest) /\ rest[m] = Stream /\ Typings(kyMeant, st)
      /\ Follows(st[m], kySubmitted, Edited(Current, kyPending))
      /\ kyMeant \in Seq(Pressed) /\ kyPending \in Seq(KeyCommands) /\ kySubmitted \in Seq(Name)
      /\ Current \in EditorStates
  BY DEF InFlight, KeysTypes
<1>2. key \in Pressed /\ m + 1 \in 1 .. Len(kyMeant)
  BY <1>1, SentPops
<1>3. PICK less : Sent(kyMeant, m + 1, less) /\ less[m + 1] = rest[m + 1]
  BY <1>1, SentPops
<1> HIDE DEF key
<1>4. /\ kyPending \o Meaning(key) \in Seq(KeyCommands)
      /\ Edited(Current, kyPending \o Meaning(key)) = Edited(Edited(Current, kyPending), Meaning(key))
  BY <1>1, <1>2, EditedMeaning
<1>5. m \in 0 .. Len(kyMeant) /\ Len(kyMeant) \in Nat
  BY <1>1 DEF Sent
<1>6. st[m] \in EditorStates /\ st[m + 1] = Edited(st[m], Meaning(key))
  <2>1. (m + 1) - 1 = m
    BY <1>5
  <2> QED BY <1>1, <1>2, <1>5, <2>1 DEF Typings, key
<1>7. Edited(Current, kyPending) \in EditorStates
  BY <1>1, EditedIs
<1>8. Follows(st[m + 1], kySubmitted, Edited(Current, kyPending \o Meaning(key)))
  <2>1. Follows(Edited(st[m], Meaning(key)), kySubmitted, Edited(Edited(Current, kyPending), Meaning(key)))
    <3>1. <<>> \in Seq(KeyCommands)
      OBVIOUS
    <3>2. \A d \in EditorStates, p \in Seq(Name) :
            Follows(d, p, Edited(Current, kyPending)) =>
                Follows(Edited(d, Meaning(key)), p, Edited(Edited(Current, kyPending), Meaning(key)))
      BY <1>2, <1>7, <3>1, EditedMeaning
    <3> QED BY <1>1, <1>6, <3>2
  <2> QED BY <1>4, <1>6, <2>1
<1>9. Edited(Current, kyPending)' = Edited(Current, kyPending \o Meaning(key))
  BY DEF key, Edited, Edit, Chosen
<1>10. InFlight(m + 1, less, st)'
  BY <1>1, <1>3, <1>8, <1>9 DEF InFlight
<1>11. Caught'
  BY <1>10 DEF Caught
<1> QED BY <1>4, <1>11 DEF key

\* A byte that is no escape is a key's, whole.
LEMMA ReadByteKeepsKeys ==
    ASSUME KeysAreShort, KeysInv, ReadByte
    PROVE  KeysInv'
<1> SUFFICES ASSUME ~kyHurried', ~kyOverflowed' PROVE KeysTypes' /\ Caught'
  BY DEF KeysInv
<1> DEFINE byte == Head(kyTty)
           full == byte \notin Control /\ Len(kyLine) >= InputLimit
<1>1. /\ ~kyInEscape /\ kyTty # <<>> /\ byte # "esc" /\ ~kyHurried /\ ~kyOverflowed /\ ~full
      /\ kyTty' = Tail(kyTty) /\ kyInEscape' = kyInEscape /\ kyTail' = kyTail
      /\ kySubmitted' = kySubmitted /\ kyLoop' = kyLoop /\ Current' = Current /\ kyMeant' = kyMeant
  BY DEF ReadByte, Current
<1>2. kyPending' = kyPending \o (IF byte \in Control THEN <<[does |-> byte, with |-> 0]>> ELSE <<TypeOf(byte)>>)
  BY <1>1 DEF ReadByte, Queue
<1>3. KeysTypes /\ Caught
  BY <1>1 DEF KeysInv
<1>4. PICK m, rest, st : InFlight(m, rest, st)
  BY <1>3 DEF Caught
<1>5. Sent(kyMeant, m, rest) /\ rest[m] = Stream
  BY <1>4 DEF InFlight
<1>6. /\ m < Len(kyMeant) /\ kyMeant[m + 1] \in Pressed /\ kyMeant[m + 1] = byte /\ rest[m + 1] = Tail(kyTty)
      /\ kyMeant[m + 1] \notin Arrows /\ kyMeant[m + 1] # "Escape"
  BY <1>1, <1>3, <1>5, AtTheHead
<1>7. kyPending' = kyPending \o Meaning(kyMeant[m + 1])
  <2> HIDE DEF byte
  <2>1. Meaning(byte) = IF byte \in Control THEN <<[does |-> byte, with |-> 0]>> ELSE <<TypeOf(byte)>>
    BY <1>6, KeyIs
  <2> QED BY <1>2, <1>6, <2>1
<1>8. Stream' = rest[m + 1]
  BY <1>1, <1>6 DEF Stream
<1>9. Caught' /\ kyPending' \in Seq(KeyCommands)
  BY <1>1, <1>3, <1>4, <1>6, <1>7, <1>8, OneMoreRead
<1>10. KeysTypes'
  <2>1. kyTty' \in Seq(Byte)
    <3>1. \A s \in Seq(Byte) : s # <<>> => Tail(s) \in Seq(Byte)
      OBVIOUS
    <3> QED BY <1>1, <1>3, <3>1 DEF KeysTypes
  <2> QED BY <1>1, <1>3, <1>9, <2>1 DEF KeysTypes
<1> QED BY <1>9, <1>10

LEMMA BeginEscapeKeepsKeys ==
    ASSUME KeysAreShort, KeysInv, BeginEscape
    PROVE  KeysInv'
<1> SUFFICES ASSUME ~kyHurried', ~kyOverflowed' PROVE KeysTypes' /\ Caught'
  BY DEF KeysInv
<1>1. /\ ~kyInEscape /\ kyTty # <<>> /\ Head(kyTty) = "esc" /\ ~kyHurried /\ ~kyOverflowed
      /\ kyTty' = Tail(kyTty) /\ kyInEscape' = TRUE /\ kyTail' = <<>> /\ kyPending' = kyPending
      /\ kySubmitted' = kySubmitted /\ kyLoop' = kyLoop /\ Current' = Current /\ kyMeant' = kyMeant
  BY DEF BeginEscape, Current
<1>2. KeysTypes /\ Caught
  BY <1>1 DEF KeysInv
<1>3. kyTty \in Seq(Byte) /\ Tail(kyTty) \in Seq(Byte)
  <2>1. \A s \in Seq(Byte) : s # <<>> => Tail(s) \in Seq(Byte)
    OBVIOUS
  <2> QED BY <1>1, <1>2, <2>1 DEF KeysTypes
<1>4. Stream' = Stream
  <2>1. \A s \in Seq(Byte) : s # <<>> => s = <<Head(s)>> \o (<<>> \o Tail(s))
    <3> HIDE DEF Byte
    <3> TAKE s \in Seq(Byte)
    <3> HAVE s # <<>>
    <3>1. Tail(s) \in Seq(Byte) /\ Len(Tail(s)) = Len(s) - 1 /\ Len(s) \in Nat /\ Len(s) > 0 /\ s[1] = Head(s) /\ Head(s) \in Byte
      OBVIOUS
    <3>2. <<>> \o Tail(s) = Tail(s)
      BY <3>1
    <3>3. <<Head(s)>> \o Tail(s) \in Seq(Byte) /\ Len(<<Head(s)>> \o Tail(s)) = Len(s)
      BY <3>1
    <3>4. \A i \in 1 .. Len(s) : (<<Head(s)>> \o Tail(s))[i] = s[i]
      BY <3>1
    <3> QED BY <3>2, <3>3, <3>4
  <2>2. Stream = kyTty /\ Stream' = <<"esc">> \o (<<>> \o Tail(kyTty))
    BY <1>1 DEF Stream
  <2> QED BY <1>1, <1>3, <2>1, <2>2
<1>5. Edited(Current, kyPending)' = Edited(Current, kyPending)
  BY <1>1 DEF Edited, Edit, Chosen
<1>6. Caught'
  <2>1. PICK m, rest, st : InFlight(m, rest, st)
    BY <1>2 DEF Caught
  <2>2. InFlight(m, rest, st)'
    BY <1>1, <1>4, <1>5, <2>1 DEF InFlight
  <2> QED BY <2>2 DEF Caught
<1>7. KeysTypes'
  <2>1. <<>> \in Seq(Byte) /\ Len(<<>>) <= 2
    OBVIOUS
  <2> QED BY <1>1, <1>2, <1>3, <2>1 DEF KeysTypes
<1> QED BY <1>6, <1>7

LEMMA EscapeByteKeepsKeys ==
    ASSUME KeysAreShort, KeysInv, EscapeByte
    PROVE  KeysInv'
<1> SUFFICES ASSUME ~kyHurried', ~kyOverflowed' PROVE KeysTypes' /\ Caught'
  BY DEF KeysInv
<1>1. /\ kyInEscape /\ ~TailIsComplete(kyTail) /\ kyTty # <<>> /\ ~kyHurried /\ ~kyOverflowed
      /\ kyTail' = Append(kyTail, Head(kyTty)) /\ kyTty' = Tail(kyTty)
      /\ kyInEscape' = kyInEscape /\ kyPending' = kyPending
      /\ kySubmitted' = kySubmitted /\ kyLoop' = kyLoop /\ Current' = Current /\ kyMeant' = kyMeant
  BY DEF EscapeByte, Current
<1>2. KeysTypes /\ Caught
  BY <1>1 DEF KeysInv
<1>3. kyTail \in Seq(Byte) /\ kyTty \in Seq(Byte)
  BY <1>2 DEF KeysTypes
<1>4. PICK m, rest, st : InFlight(m, rest, st)
  BY <1>2 DEF Caught
<1>5. Sent(kyMeant, m, rest) /\ rest[m] = Stream
  BY <1>4 DEF InFlight
<1>6. Len(kyTail) < 2
  <2>1. ~(Len(kyTail) = 2 /\ Head(kyTail) \in {"[", "O"})
    BY <1>1 DEF TailIsComplete
  <2>2. kyTail = <<>> => Len(kyTail) = 0
    OBVIOUS
  <2> QED BY <1>1, <1>2, <1>5, <2>1, InEscape
<1> HIDE DEF Byte
<1>7. \A s, t \in Seq(Byte) : t # <<>> => /\ s \o t = Append(s, Head(t)) \o Tail(t)
                                        /\ Append(s, Head(t)) \in Seq(Byte) /\ Tail(t) \in Seq(Byte)
                                        /\ Len(Append(s, Head(t))) = Len(s) + 1
  <2> TAKE s, t \in Seq(Byte)
  <2> HAVE t # <<>>
  <2>1. /\ Tail(t) \in Seq(Byte) /\ Len(Tail(t)) = Len(t) - 1 /\ Len(t) \in Nat /\ Len(t) > 0
        /\ t[1] = Head(t) /\ Head(t) \in Byte /\ Len(s) \in Nat
    OBVIOUS
  <2>2. Append(s, Head(t)) \in Seq(Byte) /\ Len(Append(s, Head(t))) = Len(s) + 1
    BY <2>1
  <2>3. s \o t \in Seq(Byte) /\ Len(s \o t) = Len(s) + Len(t)
    BY ConcatProperties
  <2>4. Append(s, Head(t)) \o Tail(t) \in Seq(Byte) /\ Len(Append(s, Head(t)) \o Tail(t)) = Len(s) + Len(t)
    BY <2>1, <2>2
  <2>5. \A i \in 1 .. Len(s) + Len(t) : (s \o t)[i] = (Append(s, Head(t)) \o Tail(t))[i]
    <3> TAKE i \in 1 .. Len(s) + Len(t)
    <3>1. CASE i <= Len(s)
      BY <2>1, <2>2, <3>1
    <3>2. CASE i = Len(s) + 1
      BY <2>1, <2>2, <3>2
    <3>3. CASE i > Len(s) + 1
      BY <2>1, <2>2, <3>3
    <3> QED BY <2>1, <3>1, <3>2, <3>3
  <2>6. s \o t = Append(s, Head(t)) \o Tail(t)
    BY <2>3, <2>4, <2>5
  <2> QED BY <2>1, <2>2, <2>6
<1>8. Stream' = Stream
  BY <1>1, <1>3, <1>7 DEF Stream
<1>9. Edited(Current, kyPending)' = Edited(Current, kyPending)
  BY <1>1 DEF Edited, Edit, Chosen
<1>10. Caught'
  <2>1. InFlight(m, rest, st)'
    BY <1>1, <1>4, <1>8, <1>9 DEF InFlight
  <2> QED BY <2>1 DEF Caught
<1>11. KeysTypes'
  <2>1. kyTail' \in Seq(Byte) /\ kyTty' \in Seq(Byte) /\ Len(kyTail') = Len(kyTail) + 1 /\ Len(kyTail) \in Nat
    BY <1>1, <1>3, <1>7
  <2>2. Len(kyTail') <= 2
    <3>1. \A n \in Nat : n < 2 => n + 1 <= 2
      OBVIOUS
    <3> QED BY <1>6, <2>1, <3>1
  <2> QED BY <1>1, <1>2, <2>1, <2>2 DEF KeysTypes
<1> QED BY <1>10, <1>11

\* The sequence is the next key's, whole, and what it is for is not typed.
LEMMA EndEscapeKeepsKeys ==
    ASSUME KeysAreShort, KeysInv, EndEscape
    PROVE  KeysInv'
<1> SUFFICES ASSUME ~kyHurried', ~kyOverflowed' PROVE KeysTypes' /\ Caught'
  BY DEF KeysInv
<1> DEFINE found == ClassifyEscape(kyTail)
           room == IF Len(found) > 0 /\ found[1].does = "Type"
                   THEN Max({InputLimit - Len(kyLine) - Len(kyPending), 0}) ELSE Len(found)
<1>1. /\ kyInEscape /\ (TailIsComplete(kyTail) \/ kyTty = <<>>) /\ ~kyHurried /\ ~kyOverflowed
      /\ kyInEscape' = FALSE /\ kyTail' = <<>> /\ kyTty' = kyTty
      /\ kySubmitted' = kySubmitted /\ kyLoop' = kyLoop /\ Current' = Current /\ kyMeant' = kyMeant
  BY DEF EndEscape, Current
<1>2. kyPending' = kyPending \o AtMost(room, found)
  BY DEF EndEscape, Queue
<1>3. KeysTypes /\ Caught
  BY <1>1 DEF KeysInv
<1>4. PICK m, rest, st : InFlight(m, rest, st)
  BY <1>3 DEF Caught
<1>5. Sent(kyMeant, m, rest) /\ rest[m] = Stream /\ kyMeant \in Seq(Pressed)
  BY <1>3, <1>4 DEF InFlight, KeysTypes
<1>6. /\ m < Len(kyMeant) /\ rest[m + 1] = kyTty /\ found = Meaning(kyMeant[m + 1])
      /\ kyMeant[m + 1] \in Arrows \cup {"Escape"}
  <2>1. Len(kyTail) < 2 => ~TailIsComplete(kyTail)
    <3>1. \A n : n = 2 => ~(n < 2)
      OBVIOUS
    <3>2. \A n : n = 4 => ~(n < 2)
      OBVIOUS
    <3> QED BY <3>1, <3>2 DEF TailIsComplete, TailBytes
  <2> QED BY <1>1, <1>3, <1>5, <2>1, InEscape
<1>7. AtMost(room, found) = found
  <2>1. kyMeant[m + 1] \in Pressed
    BY <1>5, <1>6, SentPops
  <2>2. found = <<>> \/ \E c \in KeyCommands : c.does # "Type" /\ found = <<c>>
    BY <1>6, <2>1, MeaningIs
  <2> HIDE DEF found, KeyCommands
  <2>3. found \in Seq(KeyCommands) /\ (Len(found) > 0 => found[1].does # "Type")
    <3>1. <<>> \in Seq(KeyCommands) /\ Len(<<>>) = 0
      OBVIOUS
    <3>2. \A c \in KeyCommands : <<c>> \in Seq(KeyCommands) /\ <<c>>[1] = c
      OBVIOUS
    <3>3. CASE found = <<>>
      BY <3>1, <3>3
    <3>4. CASE \E c \in KeyCommands : c.does # "Type" /\ found = <<c>>
      BY <3>2, <3>4
    <3> QED BY <2>2, <3>3, <3>4
  <2>4. room = Len(found) /\ Len(found) \in Nat
    BY <2>3
  <2> HIDE DEF room
  <2>5. AtMost(Len(found), found) = found
    <3>1. \A n \in Nat : n <= n
      OBVIOUS
    <3> QED BY <2>3, <2>4, <3>1, AtMostOf
  <2> QED BY <2>4, <2>5
<1> HIDE DEF found, room
<1>8. kyPending' = kyPending \o Meaning(kyMeant[m + 1])
  BY <1>2, <1>6, <1>7
<1>9. Stream' = rest[m + 1]
  BY <1>1, <1>6 DEF Stream
<1>10. Caught' /\ kyPending' \in Seq(KeyCommands)
  BY <1>1, <1>3, <1>4, <1>6, <1>8, <1>9, OneMoreRead
<1>11. KeysTypes'
  <2>1. <<>> \in Seq(Byte) /\ Len(<<>>) <= 2
    OBVIOUS
  <2> QED BY <1>1, <1>3, <1>10, <2>1 DEF KeysTypes
<1> QED BY <1>10, <1>11

\* A burst makes of the line what its commands do, one by one.
LEMMA TakePendingKeepsKeys ==
    ASSUME KeysAreShort, KeysInv, TakePending
    PROVE  KeysInv'
<1> SUFFICES ASSUME ~kyHurried', ~kyOverflowed' PROVE KeysTypes' /\ Caught'
  BY DEF KeysInv
<1> DEFINE done == Edited(Editor(kyLine, kyLight), kyPending)
<1>1. /\ kyLoop = "take" /\ kyMine' = done.line /\ kyMineLight' = done.light
      /\ kySubmitted' = kySubmitted \o done.submitted /\ kyPending' = <<>> /\ kyLoop' = "write"
      /\ kyTty' = kyTty /\ kyTail' = kyTail /\ kyInEscape' = kyInEscape
      /\ kyMeant' = kyMeant /\ ~kyHurried /\ ~kyOverflowed
  BY DEF TakePending
<1>2. KeysTypes /\ Caught
  BY <1>1 DEF KeysInv
<1>3. PICK m, rest, st : InFlight(m, rest, st)
  BY <1>2 DEF Caught
<1>4. Current = Editor(kyLine, kyLight) /\ Current \in EditorStates
  BY <1>1, <1>2 DEF Current, KeysTypes
<1>5. done \in EditorStates
  BY <1>2, <1>4, EditedIs DEF KeysTypes
<1>6. Follows(st[m], kySubmitted, done)
  BY <1>3, <1>4 DEF InFlight
<1> HIDE DEF done
<1>7. Current' = Editor(done.line, done.light)
  BY <1>1 DEF Current
<1>8. done.line \in Name /\ done.light \in Int /\ done.submitted \in Seq(Name)
  BY <1>5 DEF EditorStates
<1>9. Current' \in EditorStates
  BY <1>7, <1>8, NoneTyped
<1>10. Edited(Current', <<>>) = Current'
  BY <1>9, EditedOfNone
<1>11. Edited(Current, kyPending)' = Current'
  <2>1. Edited(Current, kyPending)' = Edited(Current', kyPending')
    BY DEF Edited, Edit, Chosen
  <2> QED BY <1>1, <1>10, <2>1
<1>12. kySubmitted' \in Seq(Name) /\ kySubmitted' \o <<>> = kySubmitted'
  <2> HIDE DEF Name
  <2>1. \A s, t \in Seq(Name) : s \o t \in Seq(Name) /\ s \o <<>> = s
    OBVIOUS
  <2> QED BY <1>1, <1>2, <1>8, <2>1 DEF KeysTypes
<1>13. Follows(st[m], kySubmitted', Current')
  <2>1. /\ Editor(done.line, done.light).line = done.line /\ Editor(done.line, done.light).light = done.light
        /\ Editor(done.line, done.light).submitted = <<>>
    BY DEF Editor
  <2> QED BY <1>1, <1>6, <1>7, <1>12, <2>1 DEF Follows
<1>14. Stream' = Stream
  BY <1>1 DEF Stream
<1>15. Caught'
  <2>1. InFlight(m, rest, st)'
    BY <1>1, <1>3, <1>11, <1>13, <1>14 DEF InFlight
  <2> QED BY <2>1 DEF Caught
<1>16. KeysTypes'
  <2>1. <<>> \in Seq(KeyCommands)
    OBVIOUS
  <2> QED BY <1>1, <1>2, <1>9, <1>12, <2>1 DEF KeysTypes
<1> QED BY <1>15, <1>16

\* Nothing came between the loop's two locks but what is queued.
LEMMA WriteBackKeepsKeys ==
    ASSUME KeysInv, WriteBack
    PROVE  KeysInv'
<1> SUFFICES ASSUME ~kyHurried', ~kyOverflowed' PROVE KeysTypes' /\ Caught'
  BY DEF KeysInv
<1>1. /\ kyTty' = kyTty /\ kyTail' = kyTail /\ kyInEscape' = kyInEscape /\ kyPending' = kyPending
      /\ kySubmitted' = kySubmitted /\ kyMeant' = kyMeant /\ ~kyHurried /\ ~kyOverflowed
      /\ kyLoop' = "take" /\ Current' = Current
  BY DEF WriteBack, Current
<1>2. KeysTypes /\ Caught
  BY <1>1 DEF KeysInv
<1>3. Edited(Current, kyPending)' = Edited(Current, kyPending)
  BY <1>1 DEF Edited, Edit, Chosen
<1>4. Stream' = Stream
  BY <1>1 DEF Stream
<1>5. PICK m, rest, st : InFlight(m, rest, st)
  BY <1>2 DEF Caught
<1>6. InFlight(m, rest, st)'
  BY <1>1, <1>3, <1>4, <1>5 DEF InFlight
<1> QED BY <1>1, <1>2, <1>6 DEF KeysTypes, Caught

LEMMA KeysInvHolds ==
    ASSUME KeysAreShort
    PROVE  KeysInit /\ [][KeysNext]_keysVars => []KeysInv
<1>1. KeysInit => KeysInv
  BY KeysInvStarts
<1>2. KeysInv /\ [KeysNext]_keysVars => KeysInv'
  <2> SUFFICES ASSUME KeysInv, [KeysNext]_keysVars PROVE KeysInv'
    OBVIOUS
  <2>1. CASE ReadByte
    BY <2>1, ReadByteKeepsKeys
  <2>2. CASE BeginEscape
    BY <2>2, BeginEscapeKeepsKeys
  <2>3. CASE EscapeByte
    BY <2>3, EscapeByteKeepsKeys
  <2>4. CASE EndEscape
    BY <2>4, EndEscapeKeepsKeys
  <2>5. CASE TakePending
    BY <2>5, TakePendingKeepsKeys
  <2>6. CASE WriteBack
    BY <2>6, WriteBackKeepsKeys
  <2>7. CASE \E key \in Pressed : Press(key)
    BY <2>7, PressKeepsKeys
  <2>8. CASE UNCHANGED keysVars
    <3>1. /\ kyTty' = kyTty /\ kyTail' = kyTail /\ kyInEscape' = kyInEscape /\ kyPending' = kyPending
          /\ kySubmitted' = kySubmitted /\ kyMeant' = kyMeant /\ kyHurried' = kyHurried
          /\ kyOverflowed' = kyOverflowed /\ kyLoop' = kyLoop /\ Current' = Current
      BY <2>8 DEF keysVars, Current
    <3>2. Edited(Current, kyPending)' = Edited(Current, kyPending) /\ Stream' = Stream
      BY <3>1 DEF Edited, Edit, Chosen, Stream
    <3>3. \A m, rest, st : InFlight(m, rest, st) => InFlight(m, rest, st)'
      BY <3>1, <3>2 DEF InFlight
    <3>4. Caught => Caught'
      BY <3>3 DEF Caught
    <3> QED BY <3>1, <3>4 DEF KeysInv, KeysTypes
  <2> QED BY <2>1, <2>2, <2>3, <2>4, <2>5, <2>6, <2>7, <2>8 DEF KeysNext, Reader
<1> QED BY <1>1, <1>2, PTL

\* The line is what was typed, for every set of keys but the one whose sequence
\* is longer than the reader takes, every limit and every number of keys, however
\* the bytes and the frames interleave.
THEOREM LineStaysWhatWasTyped ==
    ASSUME KeysAreShort
    PROVE  KeysInit /\ [][KeysNext]_keysVars => []LineIsWhatWasTyped
<1>1. KeysInv => LineIsWhatWasTyped
  <2> SUFFICES ASSUME KeysInv, kyTty = <<>>, ~kyInEscape, kyPending = <<>>, kyLoop = "take",
                      ~kyHurried, ~kyOverflowed
               PROVE  kyLine = Ideal.line /\ kySubmitted = Ideal.submitted /\ kyLight = Ideal.light
    BY DEF LineIsWhatWasTyped
  <2>1. KeysTypes /\ Caught
    BY DEF KeysInv
  <2>2. PICK m, rest, st : InFlight(m, rest, st)
    BY <2>1 DEF Caught
  <2>3. /\ Sent(kyMeant, m, rest) /\ rest[m] = <<>> /\ Typings(kyMeant, st)
        /\ Follows(st[m], kySubmitted, Edited(Current, kyPending)) /\ kyMeant \in Seq(Pressed)
        /\ Current \in EditorStates /\ Current = Editor(kyLine, kyLight) /\ kySubmitted \in Seq(Name)
    BY <2>1, <2>2 DEF InFlight, Stream, KeysTypes, Current
  <2>4. m = Len(kyMeant)
    <3>1. m \in 0 .. Len(kyMeant) /\ Len(kyMeant) \in Nat
      BY <2>3 DEF Sent
    <3>2. ASSUME m < Len(kyMeant) PROVE FALSE
      <4>1. m \in m .. Len(kyMeant) - 1
        BY <3>1, <3>2
      <4>2. Link(kyMeant, rest, m)
        BY <2>3, <4>1 DEF Sent
      <4> QED BY <2>3, <4>2 DEF Link
    <3> QED BY <3>1, <3>2
  <2>5. Ideal = st[m]
    BY <2>3, <2>4, IdealIs
  <2>6. Edited(Current, kyPending) = Editor(kyLine, kyLight)
    BY <2>3, EditedOfNone
  <2>7. /\ Editor(kyLine, kyLight).line = kyLine /\ Editor(kyLine, kyLight).light = kyLight
        /\ Editor(kyLine, kyLight).submitted = <<>>
    BY DEF Editor
  <2>8. kySubmitted \o <<>> = kySubmitted
    BY <2>3
  <2> QED BY <2>3, <2>5, <2>6, <2>7, <2>8 DEF Follows
<1> QED BY <1>1, KeysInvHolds, PTL
================================================================================
