------------------------------- MODULE RingProofs -------------------------------
(***************************************************************************)
(* Theorems about Ring, for any number of readers, any capacity, any words *)
(* and any bound on the records published.                                 *)
(*                                                                         *)
(* The safety properties are not inductive as they stand.  RingInv adds    *)
(* what the writer has copied of the record in flight (InFlight), where a  *)
(* reader inside a call got its numbers from (InCall), and that no cursor  *)
(* is ahead of the writer (ReaderBehindWriter).                            *)
(***************************************************************************)
EXTENDS Ring, Lemmas

\* The words already copied of the record the writer is publishing.
InFlight ==
    writing => \A w \in Words \ wpending : slot[SlotOf(wseq)][w] = wseq

\* A call in progress: what it asks for had been published, and consume asks
\* for the record at the cursor, which is behind the wseq it loaded.
InCall ==
    \A r \in Readers :
        /\ rpc[r] = "detached" => cursor[r] = 0
        /\ Copying(r) => asked[r] < wseq
        /\ rpc[r] = "copy" =>
              /\ asked[r] = cursor[r]
              /\ asked[r] < written[r]
              /\ written[r] <= wseq

RingInv ==
    /\ TypeOK
    /\ InFlight
    /\ InCall
    /\ LastLapIntact
    /\ CopyIntactUntilComeRound
    /\ ReaderBehindWriter
    /\ SequenceNeverGoesBack

--------------------------------------------------------------------------------
LEMMA SlotOfRange == \A n \in Nat : SlotOf(n) \in 0 .. Capacity - 1
  BY SlotInRange, RingAssumption DEF SlotOf

LEMMA InitType == Init => TypeOK
<1> SUFFICES ASSUME Init PROVE TypeOK
  OBVIOUS
<1>1. Blank \in Copies
  BY DEF Blank, Copies
<1>2. delivered \in [Readers -> Seq(Records)]
  BY DEF Init
<1>3. stamp \in [Readers -> [seq : Nat \cup {NoRecord}, of : Nat \cup {NoRecord}]]
  BY DEF Init
<1>4. QED
  BY <1>1, <1>2, <1>3 DEF Init, TypeOK, PCs

\* Every step keeps every variable in its type.
LEMMA StepType == TypeOK /\ [Next]_vars => TypeOK'
<1> SUFFICES ASSUME TypeOK, [Next]_vars PROVE TypeOK'
  OBVIOUS
<1> USE RingAssumption
<1>1. CASE PublishBegin
  BY <1>1 DEF TypeOK, PublishBegin, readerVars
<1>2. CASE PublishWord
  <2>1. PICK w \in wpending :
            /\ slot' = [slot EXCEPT ![SlotOf(wseq)][w] = wseq]
            /\ wpending' = wpending \ {w}
    BY <1>2 DEF PublishWord
  <2>2. slot' \in [0 .. Capacity - 1 -> Copies]
    BY <2>1, SlotOfRange DEF TypeOK, Copies
  <2>3. QED
    BY <1>2, <2>1, <2>2 DEF TypeOK, PublishWord, readerVars
<1>3. CASE PublishRelease
  <2>1. wseq' \in Nat
    BY <1>3 DEF TypeOK, PublishRelease
  <2>2. QED
    BY <1>3, <2>1 DEF TypeOK, PublishRelease, readerVars
<1>4. ASSUME NEW r \in Readers, Attach(r) PROVE TypeOK'
  <2>1. cursor' \in [Readers -> Nat]
    BY <1>4 DEF TypeOK, Attach
  <2>2. QED
    BY <1>4, <2>1 DEF TypeOK, Attach, writerVars, PCs
<1>5. ASSUME NEW r \in Readers, BatchBegin(r) PROVE TypeOK'
  BY <1>5 DEF TypeOK, BatchBegin, writerVars, PCs
<1>6. ASSUME NEW r \in Readers, ConsumeEmpty(r) PROVE TypeOK'
  BY <1>6 DEF TypeOK, ConsumeEmpty, writerVars, PCs
<1>7. ASSUME NEW r \in Readers, ConsumeResync(r) PROVE TypeOK'
  <2>1. wseq - Capacity \in Nat
    BY <1>7 DEF TypeOK, ConsumeResync, Lapped
  <2>2. QED
    BY <1>7, <2>1 DEF TypeOK, ConsumeResync, writerVars
<1>8. ASSUME NEW r \in Readers, ConsumeBegin(r) PROVE TypeOK'
  BY <1>8 DEF TypeOK, ConsumeBegin, writerVars, PCs, Copies, Blank, NoRecord
<1>9. ASSUME NEW r \in Readers, CopyWord(r) PROVE TypeOK'
  <2>1. PICK w \in rpending[r] :
            /\ wire' = [wire EXCEPT ![r][w] = slot[SlotOf(asked[r])][w]]
            /\ rpending' = [rpending EXCEPT ![r] = @ \ {w}]
    BY <1>9 DEF CopyWord
  <2>2. slot[SlotOf(asked[r])][w] \in Nat \cup {NoRecord}
    <3>1. asked[r] \in Nat /\ w \in Words
      BY <2>1 DEF TypeOK
    <3>2. slot[SlotOf(asked[r])] \in Copies
      BY <3>1, SlotOfRange DEF TypeOK
    <3>3. QED
      BY <3>1, <3>2 DEF Copies
  <2>3. QED
    BY <1>9, <2>1, <2>2 DEF TypeOK, CopyWord, writerVars, Copies
<1>10. ASSUME NEW r \in Readers, ConsumeFresh(r) PROVE TypeOK'
  <2>1. cursor' \in [Readers -> Nat] /\ batch' \in [Readers -> Nat]
    BY SMTT(60), <1>10 DEF TypeOK, ConsumeFresh
  <2>2. [seq |-> asked[r], copy |-> wire[r]] \in Records
    BY DEF TypeOK, Records
  <2>3. delivered' \in [Readers -> Seq(Records)]
    BY <1>10, <2>2 DEF TypeOK, ConsumeFresh
  <2>4. rpc' \in [Readers -> PCs]
    BY <1>10 DEF TypeOK, ConsumeFresh, PCs
  <2>5. QED
    BY <1>10, <2>1, <2>3, <2>4 DEF TypeOK, ConsumeFresh, writerVars
<1>11. ASSUME NEW r \in Readers, ConsumeStale(r) PROVE TypeOK'
  BY <1>11 DEF TypeOK, ConsumeStale, writerVars, PCs
<1>12. ASSUME NEW r \in Readers, PeekBegin(r) PROVE TypeOK'
  <2>1. asked' \in [Readers -> Nat]
    <3>1. PICK n \in {cursor[r], wseq - 1} :
              n >= 0 /\ asked' = [asked EXCEPT ![r] = n]
      BY <1>12 DEF PeekBegin
    <3>2. n \in Nat
      BY <3>1 DEF TypeOK
    <3>3. QED
      BY <3>1, <3>2 DEF TypeOK
  <2>2. Blank \in Copies
    BY DEF Blank, Copies
  <2>3. QED
    BY <1>12, <2>1, <2>2 DEF TypeOK, PeekBegin, writerVars, PCs
<1>13. ASSUME NEW r \in Readers, PeekEnd(r) PROVE TypeOK'
  <2>1. wire[r][StampWord] \in Nat \cup {NoRecord}
    BY DEF TypeOK, Copies
  <2>2. QED
    BY <1>13, <2>1 DEF TypeOK, PeekEnd, writerVars, PCs
<1>14. CASE UNCHANGED vars
  BY <1>14 DEF TypeOK, vars, writerVars, readerVars
<1>15. QED
  BY <1>1, <1>2, <1>3, <1>4, <1>5, <1>6, <1>7, <1>8, <1>9, <1>10, <1>11, <1>12, <1>13, <1>14
     DEF Next, Writer, Reader, ConsumeStep

\* Every variable keeps its type in every reachable state.
THEOREM TypeCorrect == Spec => []TypeOK
<1>1. Init => TypeOK
  BY InitType
<1>2. TypeOK /\ [Next]_vars => TypeOK'
  BY StepType
<1>3. QED
  BY <1>1, <1>2, PTL DEF Spec
--------------------------------------------------------------------------------
LEMMA InitInv == Init => RingInv
<1> SUFFICES ASSUME Init PROVE RingInv
  OBVIOUS
<1>1. TypeOK
  BY InitType
<1>2. InFlight /\ InCall
  BY DEF Init, InFlight, InCall, Copying
<1>3. LastLapIntact
  BY DEF Init, LastLapIntact
<1>4. CopyIntactUntilComeRound
  BY DEF Init, CopyIntactUntilComeRound, Copying
<1>5. ReaderBehindWriter /\ SequenceNeverGoesBack
  BY DEF Init, ReaderBehindWriter, SequenceNeverGoesBack
<1>6. QED
  BY <1>1, <1>2, <1>3, <1>4, <1>5 DEF RingInv

\* A copy of a word of a slot whose record the writer has not come round to is
\* a word of that record: the step that reads what the writer wrote.
LEMMA SlotHoldsAsked ==
    ASSUME TypeOK, LastLapIntact, NEW n \in Nat, n < wseq, NEW w \in Words
    PROVE  slot[SlotOf(n)][w] = n \/ ComeRound(n)
<1>1. CASE wseq - n <= Capacity
  BY <1>1, RingAssumption DEF LastLapIntact, TypeOK, ComeRound
<1>2. CASE wseq - n > Capacity
  BY <1>2, RingAssumption DEF TypeOK, ComeRound
<1>3. QED
  BY <1>1, <1>2, RingAssumption DEF TypeOK

\* Writing a word of record wseq disturbs no record of the last lap but the
\* oldest, which shares its slot.
LEMMA PublishWordKeepsLap ==
    ASSUME RingInv, PublishWord
    PROVE  InFlight' /\ LastLapIntact'
<1> USE RingAssumption
<1>1. PICK w \in wpending :
          /\ slot' = [slot EXCEPT ![SlotOf(wseq)][w] = wseq]
          /\ wpending' = wpending \ {w}
  BY DEF PublishWord
<1>2. writing /\ wseq' = wseq /\ writing' = writing /\ w \in Words
  BY <1>1 DEF PublishWord, RingInv, TypeOK
<1>3. \A n \in Nat : slot[SlotOf(n)] \in Copies /\ SlotOf(n) \in 0 .. Capacity - 1
  BY SlotOfRange DEF RingInv, TypeOK
<1>4. wseq \in Nat
  BY DEF RingInv, TypeOK
<1>5. slot'[SlotOf(wseq)][w] = wseq
  BY <1>1, <1>2, <1>3, <1>4 DEF RingInv, TypeOK, Copies
<1>6. \A n \in Nat, v \in Words :
          (SlotOf(n) # SlotOf(wseq) \/ v # w) => slot'[SlotOf(n)][v] = slot[SlotOf(n)][v]
  BY <1>1, <1>2, <1>3, <1>4 DEF RingInv, TypeOK, Copies
<1>7. InFlight'
  BY <1>1, <1>2, <1>4, <1>5, <1>6 DEF RingInv, InFlight
<1>8. LastLapIntact'
  <2> SUFFICES ASSUME NEW n \in 0 .. wseq - 1, wseq - n <= Capacity, NEW v \in Words
               PROVE  \/ slot'[SlotOf(n)][v] = n
                      \/ n = wseq - Capacity /\ v \notin wpending'
    BY <1>2, <1>4 DEF LastLapIntact
  <2>1. n \in Nat
    BY <1>4
  <2>2. \/ slot[SlotOf(n)][v] = n
        \/ n = wseq - Capacity /\ v \notin wpending
    BY <1>4, <2>1 DEF RingInv, LastLapIntact
  <2>3. CASE SlotOf(n) # SlotOf(wseq) \/ v # w
    BY <1>1, <1>6, <2>1, <2>2, <2>3
  <2>4. CASE SlotOf(n) = SlotOf(wseq) /\ v = w
    <3>1. n \in Int /\ wseq \in Int /\ n < wseq /\ n % Capacity = wseq % Capacity
      BY <1>4, <2>1, <2>4 DEF SlotOf
    <3>2. wseq - n >= Capacity
      BY <3>1, SameSlot
    <3>3. n = wseq - Capacity
      BY <1>4, <2>1, <3>2
    <3>4. QED
      BY <1>1, <2>4, <3>3
  <2>5. QED
    BY <2>3, <2>4
<1>9. QED
  BY <1>7, <1>8

\* Releasing wseq makes the record just copied the newest of the last lap.
LEMMA PublishReleaseKeepsLap ==
    ASSUME RingInv, PublishRelease
    PROVE  InFlight' /\ LastLapIntact'
<1> USE RingAssumption
<1>1. /\ writing
      /\ wpending = {}
      /\ wseq' = wseq + 1
      /\ writing' = FALSE
      /\ slot' = slot
      /\ wseq \in Nat
  BY DEF PublishRelease, RingInv, TypeOK
<1>2. InFlight'
  BY <1>1 DEF InFlight
<1>3. LastLapIntact'
  <2> SUFFICES ASSUME NEW n \in 0 .. wseq, wseq + 1 - n <= Capacity, NEW v \in Words
               PROVE  slot[SlotOf(n)][v] = n
    BY <1>1 DEF LastLapIntact
  <2>1. CASE n = wseq
    BY <1>1, <2>1 DEF RingInv, InFlight
  <2>2. CASE n < wseq
    BY <1>1, <2>2 DEF RingInv, LastLapIntact
  <2>3. QED
    BY <1>1, <2>1, <2>2
<1>4. QED
  BY <1>2, <1>3

\* The steps of the writer.
LEMMA WriterInv == ASSUME RingInv, Writer PROVE RingInv'
<1> USE RingAssumption
<1>1. TypeOK /\ TypeOK'
  BY StepType DEF RingInv, Next
<1>2. /\ UNCHANGED readerVars
      /\ wseq' \in Nat
      /\ wseq' >= wseq
  BY <1>1 DEF Writer, PublishBegin, PublishWord, PublishRelease, TypeOK
<1>3. InFlight' /\ LastLapIntact'
  <2>1. CASE PublishBegin
    BY <2>1, <1>1 DEF PublishBegin, RingInv, InFlight, LastLapIntact
  <2>2. QED
    BY <2>1, PublishWordKeepsLap, PublishReleaseKeepsLap DEF Writer
<1>4. \A n \in Nat : ComeRound(n) => ComeRound(n)'
  BY <1>1, <1>2 DEF ComeRound, TypeOK
<1>5. InCall' /\ ReaderBehindWriter'
  BY <1>1, <1>2 DEF RingInv, InCall, ReaderBehindWriter, TypeOK, readerVars, Copying
<1>6. CopyIntactUntilComeRound'
  BY <1>1, <1>2, <1>4
     DEF RingInv, CopyIntactUntilComeRound, TypeOK, readerVars, Copying, WordsRead
<1>7. SequenceNeverGoesBack'
  BY <1>2 DEF RingInv, SequenceNeverGoesBack, readerVars
<1>8. QED
  BY <1>1, <1>3, <1>5, <1>6, <1>7 DEF RingInv

--------------------------------------------------------------------------------
(* The steps of a reader.  They leave the writer's variables alone, so      *)
(* InFlight and LastLapIntact hold after them as they did before.           *)

LEMMA ReaderKeepsLap ==
    ASSUME RingInv, UNCHANGED writerVars
    PROVE  InFlight' /\ LastLapIntact'
  BY DEF RingInv, InFlight, LastLapIntact, writerVars

\* A step that hands nothing over leaves the order of what was handed over.
LEMMA UndeliveredKeepsOrder ==
    ASSUME RingInv, delivered' = delivered
    PROVE  SequenceNeverGoesBack'
  BY DEF RingInv, SequenceNeverGoesBack

LEMMA DeliveredNumbers ==
    ASSUME TypeOK, NEW r \in Readers
    PROVE  \A i \in 1 .. Len(delivered[r]) : delivered[r][i].seq \in Nat
<1>1. delivered[r] \in Seq(Records)
  BY DEF TypeOK
<1>2. \A i \in 1 .. Len(delivered[r]) : delivered[r][i] \in Records
  BY <1>1
<1>3. \A m \in Records : m.seq \in Nat
  BY DEF Records
<1>4. QED
  BY <1>2, <1>3

\* The oldest record not yet read and the records between it and the live end
\* are the only places a reader's cursor moves to.
LEMMA CursorMovesForward ==
    ASSUME RingInv, NEW r \in Readers, delivered' = delivered, wseq' = wseq,
           NEW c \in Nat, cursor' = [cursor EXCEPT ![r] = c],
           cursor[r] <= c, c <= wseq
    PROVE  ReaderBehindWriter'
<1>1. /\ cursor \in [Readers -> Nat]
      /\ delivered \in [Readers -> Seq(Records)]
      /\ wseq \in Nat
      /\ ReaderBehindWriter
  BY DEF RingInv, TypeOK
<1>2. \A q \in Readers : cursor'[q] \in Nat /\ cursor[q] <= cursor'[q] /\ cursor'[q] <= wseq
  BY <1>1 DEF ReaderBehindWriter
<1>3. \A q \in Readers : \A i \in 1 .. Len(delivered[q]) : delivered[q][i].seq \in Nat
  BY DeliveredNumbers DEF RingInv
<1>4. QED
  BY <1>1, <1>2, <1>3 DEF ReaderBehindWriter

LEMMA CopyWordInv ==
    ASSUME RingInv, NEW r \in Readers, CopyWord(r)
    PROVE  CopyIntactUntilComeRound'
<1> USE RingAssumption
<1>1. PICK w \in rpending[r] :
          /\ wire' = [wire EXCEPT ![r][w] = slot[SlotOf(asked[r])][w]]
          /\ rpending' = [rpending EXCEPT ![r] = @ \ {w}]
  BY DEF CopyWord
<1>2. /\ TypeOK
      /\ w \in Words
      /\ asked[r] \in Nat
      /\ asked[r] < wseq
      /\ UNCHANGED <<wseq, rpc, asked>>
  BY <1>1 DEF RingInv, TypeOK, InCall, Copying, CopyWord, writerVars
<1>3. slot[SlotOf(asked[r])][w] = asked[r] \/ ComeRound(asked[r])
  BY <1>2, SlotHoldsAsked DEF RingInv
<1> SUFFICES ASSUME NEW q \in Readers, Copying(q), NEW v \in WordsRead(q) \ rpending'[q]
             PROVE  wire'[q][v] = asked[q] \/ ComeRound(asked[q])
  BY <1>2 DEF CopyIntactUntilComeRound, Copying, WordsRead, ComeRound
<1>4. v \in Words
  BY DEF WordsRead
<1>5. CASE q = r /\ v = w
  <2>1. wire'[r][w] = slot[SlotOf(asked[r])][w]
    BY <1>1, <1>2 DEF TypeOK, Copies
  <2>2. QED
    BY <1>3, <1>5, <2>1
<1>6. CASE q # r \/ v # w
  <2>1. v \notin rpending[q]
    BY <1>1, <1>2, <1>6 DEF TypeOK
  <2>2. wire'[q][v] = wire[q][v]
    BY <1>1, <1>2, <1>4, <1>6 DEF TypeOK, Copies
  <2>3. QED
    BY <2>1, <2>2 DEF RingInv, CopyIntactUntilComeRound
<1>7. QED
  BY <1>5, <1>6

\* A record is handed over with the number of the cursor, which is past every
\* number handed over before.
LEMMA FreshKeepsOrder ==
    ASSUME RingInv, NEW r \in Readers, ConsumeFresh(r)
    PROVE  ReaderBehindWriter' /\ SequenceNeverGoesBack'
<1> DEFINE m == [seq |-> asked[r], copy |-> wire[r]]
<1>1. /\ TypeOK
      /\ ReaderBehindWriter
      /\ SequenceNeverGoesBack
      /\ asked[r] = cursor[r]
      /\ cursor[r] < wseq
      /\ wseq' = wseq
      /\ delivered' = [delivered EXCEPT ![r] = Append(@, m)]
      /\ cursor' = [cursor EXCEPT ![r] = @ + 1]
  BY DEF RingInv, ConsumeFresh, InCall, Copying, writerVars
<1>2. \A q \in Readers : /\ cursor[q] \in Nat
                         /\ delivered[q] \in Seq(Records)
                         /\ q # r => cursor'[q] = cursor[q] /\ delivered'[q] = delivered[q]
  BY <1>1 DEF TypeOK
<1>3. cursor'[r] = cursor[r] + 1
  BY <1>1 DEF TypeOK
<1>4. m.seq = cursor[r]
  BY <1>1
<1>5. /\ Len(delivered'[r]) = Len(delivered[r]) + 1
      /\ delivered'[r][Len(delivered[r]) + 1] = m
      /\ \A i \in 1 .. Len(delivered[r]) : delivered'[r][i] = delivered[r][i]
  <2> HIDE DEF m
  <2>1. delivered'[r] = Append(delivered[r], m)
    BY <1>1 DEF TypeOK
  <2>2. QED
    BY <1>2, <2>1
<1>6. \A i \in 1 .. Len(delivered[r]) : delivered[r][i].seq \in Nat /\ delivered[r][i].seq < cursor[r]
  BY <1>1, DeliveredNumbers DEF ReaderBehindWriter
<1>7. Len(delivered[r]) \in Nat
  BY <1>2
<1> HIDE DEF m
<1>8. ReaderBehindWriter'
  <2> SUFFICES ASSUME NEW q \in Readers
               PROVE  /\ cursor'[q] <= wseq
                      /\ \A i \in 1 .. Len(delivered'[q]) : delivered'[q][i].seq < cursor'[q]
    BY <1>1 DEF ReaderBehindWriter
  <2>1. CASE q # r
    BY <1>1, <1>2, <2>1 DEF ReaderBehindWriter
  <2>2. CASE q = r
    BY <1>1, <1>2, <1>3, <1>4, <1>5, <1>6, <1>7, <2>2 DEF TypeOK
  <2>3. QED
    BY <2>1, <2>2
<1>9. SequenceNeverGoesBack'
  <2> SUFFICES ASSUME NEW q \in Readers,
                      NEW i \in 1 .. Len(delivered'[q]), NEW j \in 1 .. Len(delivered'[q]), i < j
               PROVE  delivered'[q][i].seq < delivered'[q][j].seq
    BY DEF SequenceNeverGoesBack
  <2>1. CASE q # r
    BY <1>1, <1>2, <2>1 DEF SequenceNeverGoesBack
  <2>2. CASE q = r /\ j <= Len(delivered[r])
    BY <1>1, <1>5, <1>7, <2>2 DEF SequenceNeverGoesBack
  <2>3. CASE q = r /\ j = Len(delivered[r]) + 1
    BY SMTT(60), <1>4, <1>5, <1>6, <1>7, <2>3
  <2>4. QED
    BY <1>5, <1>7, <2>1, <2>2, <2>3
<1>10. QED
  BY <1>8, <1>9

LEMMA ReaderInv == ASSUME RingInv, NEW r \in Readers, Reader(r) PROVE RingInv'
<1> USE RingAssumption
<1>1. TypeOK /\ TypeOK'
  BY StepType DEF RingInv, Next
<1>2. UNCHANGED writerVars
  BY DEF Reader, ConsumeStep, Attach, BatchBegin, ConsumeEmpty, ConsumeResync, ConsumeBegin,
         CopyWord, ConsumeFresh, ConsumeStale, PeekBegin, PeekEnd
<1>3. InFlight' /\ LastLapIntact'
  BY <1>2, ReaderKeepsLap
<1>4. wseq' = wseq /\ wseq \in Nat /\ \A n \in Nat : ComeRound(n)' <=> ComeRound(n)
  BY <1>1, <1>2 DEF writerVars, ComeRound, TypeOK
<1>5. cursor[r] \in Nat /\ cursor[r] <= wseq
  BY <1>1 DEF RingInv, TypeOK, ReaderBehindWriter
<1> SUFFICES /\ InCall'
             /\ CopyIntactUntilComeRound'
             /\ ReaderBehindWriter'
             /\ SequenceNeverGoesBack'
  BY <1>1, <1>3 DEF RingInv
<1>6. CASE Attach(r)
  <2>1. PICK c \in {0, wseq} : cursor' = [cursor EXCEPT ![r] = c]
    BY <1>6 DEF Attach
  <2>2. c \in Nat /\ cursor[r] <= c /\ c <= wseq /\ delivered' = delivered
    BY <1>4, <1>6, <2>1 DEF RingInv, InCall, Attach
  <2>3. ReaderBehindWriter' /\ SequenceNeverGoesBack'
    BY <1>4, <2>1, <2>2, CursorMovesForward, UndeliveredKeepsOrder
  <2>4. InCall'
    BY <1>1, <1>4, <1>6 DEF Attach, RingInv, InCall, TypeOK, Copying
  <2>5. CopyIntactUntilComeRound'
    BY <1>1, <1>4, <1>6
       DEF Attach, RingInv, CopyIntactUntilComeRound, TypeOK, Copying, WordsRead
  <2>6. QED
    BY <2>3, <2>4, <2>5
<1>7. CASE BatchBegin(r) \/ ConsumeEmpty(r)
  <2>1. UNCHANGED <<cursor, written, asked, rpending, wire, delivered>>
    BY <1>7 DEF BatchBegin, ConsumeEmpty
  <2>2. ReaderBehindWriter' /\ SequenceNeverGoesBack'
    BY <1>4, <2>1, UndeliveredKeepsOrder DEF RingInv, ReaderBehindWriter
  <2>3. InCall'
    BY <1>1, <1>4, <1>7, <2>1
       DEF BatchBegin, ConsumeEmpty, RingInv, InCall, TypeOK, Copying
  <2>4. CopyIntactUntilComeRound'
    BY <1>1, <1>4, <1>7, <2>1
       DEF BatchBegin, ConsumeEmpty, RingInv, CopyIntactUntilComeRound, TypeOK, Copying, WordsRead
  <2>5. QED
    BY <2>2, <2>3, <2>4
<1>8. CASE ConsumeResync(r)
  <2>1. /\ wseq - Capacity \in Nat
        /\ cursor[r] <= wseq - Capacity
        /\ wseq - Capacity <= wseq
        /\ cursor' = [cursor EXCEPT ![r] = wseq - Capacity]
        /\ rpc[r] = "load"
        /\ UNCHANGED <<rpc, written, asked, rpending, wire, delivered>>
    BY <1>4, <1>5, <1>8 DEF ConsumeResync, Lapped
  <2>2. ReaderBehindWriter' /\ SequenceNeverGoesBack'
    BY <1>4, <2>1, CursorMovesForward, UndeliveredKeepsOrder
  <2>3. InCall'
    BY <1>1, <1>4, <2>1 DEF RingInv, InCall, TypeOK, Copying
  <2>4. CopyIntactUntilComeRound'
    BY <1>1, <1>4, <2>1
       DEF RingInv, CopyIntactUntilComeRound, TypeOK, Copying, WordsRead
  <2>5. QED
    BY <2>2, <2>3, <2>4
<1>9. CASE ConsumeBegin(r)
  <2>1. UNCHANGED <<cursor, delivered>>
    BY <1>9 DEF ConsumeBegin
  <2>2. ReaderBehindWriter' /\ SequenceNeverGoesBack'
    BY <1>4, <2>1, UndeliveredKeepsOrder DEF RingInv, ReaderBehindWriter
  <2>3. InCall'
    BY <1>1, <1>4, <1>5, <1>9 DEF ConsumeBegin, RingInv, InCall, TypeOK, Copying
  <2>4. CopyIntactUntilComeRound'
    BY <1>1, <1>4, <1>9
       DEF ConsumeBegin, RingInv, CopyIntactUntilComeRound, TypeOK, Copying, WordsRead
  <2>5. QED
    BY <2>2, <2>3, <2>4
<1>10. CASE CopyWord(r)
  <2>1. UNCHANGED <<rpc, cursor, written, asked, delivered>>
    BY <1>10 DEF CopyWord
  <2>2. InCall' /\ ReaderBehindWriter' /\ SequenceNeverGoesBack'
    BY <1>4, <2>1, UndeliveredKeepsOrder
       DEF RingInv, InCall, ReaderBehindWriter, Copying
  <2>3. QED
    BY <1>10, <2>2, CopyWordInv
<1>11. CASE ConsumeFresh(r)
  <2>1. rpc' = [rpc EXCEPT ![r] = IF batch[r] + 1 < BatchLen THEN "load" ELSE "idle"]
    BY <1>11 DEF ConsumeFresh
  <2>2. /\ rpc'[r] \in {"load", "idle"}
        /\ \A q \in Readers \ {r} : rpc'[q] = rpc[q] /\ cursor'[q] = cursor[q]
        /\ UNCHANGED <<written, asked, rpending, wire>>
    BY <1>1, <1>11, <2>1 DEF ConsumeFresh, TypeOK
  <2>3. InCall'
    BY <1>1, <1>4, <2>2 DEF RingInv, InCall, TypeOK, Copying
  <2>4. CopyIntactUntilComeRound'
    BY <1>1, <1>4, <2>2
       DEF RingInv, CopyIntactUntilComeRound, TypeOK, Copying, WordsRead
  <2>5. QED
    BY <1>11, <2>3, <2>4, FreshKeepsOrder
<1>12. CASE ConsumeStale(r)
  <2>1. /\ written[r] \in Nat
        /\ cursor[r] <= written[r]
        /\ written[r] <= wseq
        /\ cursor' = [cursor EXCEPT ![r] = written[r]]
        /\ rpc' = [rpc EXCEPT ![r] = "idle"]
        /\ UNCHANGED <<written, asked, rpending, wire, delivered>>
    BY <1>1, <1>4, <1>5, <1>12 DEF ConsumeStale, RingInv, InCall, Copying, TypeOK
  <2>2. ReaderBehindWriter' /\ SequenceNeverGoesBack'
    BY <1>4, <2>1, CursorMovesForward, UndeliveredKeepsOrder
  <2>3. InCall'
    BY <1>1, <1>4, <2>1 DEF RingInv, InCall, TypeOK, Copying
  <2>4. CopyIntactUntilComeRound'
    BY <1>1, <1>4, <2>1
       DEF RingInv, CopyIntactUntilComeRound, TypeOK, Copying, WordsRead
  <2>5. QED
    BY <2>2, <2>3, <2>4
<1>13. CASE PeekBegin(r)
  <2>1. PICK n \in {cursor[r], wseq - 1} :
            n >= 0 /\ n < wseq /\ asked' = [asked EXCEPT ![r] = n]
    BY <1>13 DEF PeekBegin
  <2>2. UNCHANGED <<cursor, written, delivered>>
    BY <1>13 DEF PeekBegin
  <2>3. ReaderBehindWriter' /\ SequenceNeverGoesBack'
    BY <1>4, <2>2, UndeliveredKeepsOrder DEF RingInv, ReaderBehindWriter
  <2>4. InCall'
    BY <1>1, <1>4, <1>13, <2>1, <2>2 DEF PeekBegin, RingInv, InCall, TypeOK, Copying
  <2>5. CopyIntactUntilComeRound'
    BY <1>1, <1>4, <1>13
       DEF PeekBegin, RingInv, CopyIntactUntilComeRound, TypeOK, Copying, WordsRead
  <2>6. QED
    BY <2>3, <2>4, <2>5
<1>14. CASE PeekEnd(r)
  <2>1. UNCHANGED <<cursor, written, asked, rpending, wire, delivered>>
    BY <1>14 DEF PeekEnd
  <2>2. ReaderBehindWriter' /\ SequenceNeverGoesBack'
    BY <1>4, <2>1, UndeliveredKeepsOrder DEF RingInv, ReaderBehindWriter
  <2>3. InCall'
    BY <1>1, <1>4, <1>14, <2>1 DEF PeekEnd, RingInv, InCall, TypeOK, Copying
  <2>4. CopyIntactUntilComeRound'
    BY <1>1, <1>4, <1>14, <2>1
       DEF PeekEnd, RingInv, CopyIntactUntilComeRound, TypeOK, Copying, WordsRead
  <2>5. QED
    BY <2>2, <2>3, <2>4
<1>15. QED
  BY <1>6, <1>7, <1>8, <1>9, <1>10, <1>11, <1>12, <1>13, <1>14 DEF Reader, ConsumeStep

LEMMA StutterInv == RingInv /\ UNCHANGED vars => RingInv'
<1> SUFFICES ASSUME RingInv, UNCHANGED vars PROVE RingInv'
  OBVIOUS
<1>1. TypeOK'
  BY StepType DEF RingInv
<1>2. InFlight' /\ InCall' /\ LastLapIntact'
  BY DEF RingInv, vars, writerVars, readerVars, InFlight, InCall, LastLapIntact, Copying
<1>3. CopyIntactUntilComeRound' /\ ReaderBehindWriter' /\ SequenceNeverGoesBack'
  BY DEF RingInv, vars, writerVars, readerVars, CopyIntactUntilComeRound, ReaderBehindWriter,
         SequenceNeverGoesBack, Copying, WordsRead, ComeRound
<1>4. QED
  BY <1>1, <1>2, <1>3 DEF RingInv

\* RingInv is an inductive invariant of the ring.
THEOREM RingInvariant == Spec => []RingInv
<1>1. Init => RingInv
  BY InitInv
<1>2. RingInv /\ [Next]_vars => RingInv'
  BY WriterInv, ReaderInv, StutterInv DEF Next
<1>3. QED
  BY <1>1, <1>2, PTL DEF Spec

--------------------------------------------------------------------------------
\* The sequence numbers a reader is handed strictly increase.
THEOREM OrderOfDelivery == Spec => []SequenceNeverGoesBack
  BY RingInvariant, PTL DEF RingInv

\* Every slot of the last lap holds its own record, but for the oldest one
\* while the writer replaces it.
THEOREM LapIsIntact == Spec => []LastLapIntact
  BY RingInvariant, PTL DEF RingInv

\* A copy in progress holds words of another record only once the writer has
\* come round to that slot.
THEOREM CopyIsIntact == Spec => []CopyIntactUntilComeRound
  BY RingInvariant, PTL DEF RingInv

\* What consume hands over is one record's bytes, unless the writer came round
\* to the slot during the call.
THEOREM MixedOnlyWhenLapped == Spec => TornOnlyWhenComeRound
<1>1. RingInv /\ [Next]_vars => [WholeOrComeRound]_vars
  <2> SUFFICES ASSUME RingInv, Next, NEW r \in Readers
               PROVE  /\ delivered'[r] # delivered[r]
                            => Whole(wire[r], asked[r]) \/ ComeRound(asked[r])
                      /\ stamp'[r] # stamp[r]
                            => stamp'[r].of = asked[r] \/ ComeRound(asked[r])
    BY DEF WholeOrComeRound, vars, writerVars, readerVars
  <2>1. /\ delivered \in [Readers -> Seq(Records)]
        /\ stamp \in [Readers -> [seq : Nat \cup {NoRecord}, of : Nat \cup {NoRecord}]]
    BY DEF RingInv, TypeOK
  <2>2. ASSUME delivered'[r] # delivered[r]
        PROVE  Whole(wire[r], asked[r]) \/ ComeRound(asked[r])
    <3>1. ConsumeFresh(r)
      BY <2>1, <2>2 DEF Next, Writer, PublishBegin, PublishWord, PublishRelease, readerVars,
         Reader, ConsumeStep, Attach, BatchBegin, ConsumeEmpty, ConsumeResync, ConsumeBegin,
         CopyWord, ConsumeFresh, ConsumeStale, PeekBegin, PeekEnd
    <3>2. rpc[r] = "copy" /\ rpending[r] = {}
      BY <3>1 DEF ConsumeFresh
    <3>3. QED
      BY <3>2 DEF RingInv, CopyIntactUntilComeRound, Copying, WordsRead, Whole
  <2>3. ASSUME stamp'[r] # stamp[r]
        PROVE  stamp'[r].of = asked[r] \/ ComeRound(asked[r])
    <3>1. PeekEnd(r) /\ stamp' = [stamp EXCEPT ![r] = [seq |-> asked[r], of |-> wire[r][StampWord]]]
      BY <2>1, <2>3 DEF Next, Writer, PublishBegin, PublishWord, PublishRelease, readerVars,
         Reader, ConsumeStep, Attach, BatchBegin, ConsumeEmpty, ConsumeResync, ConsumeBegin,
         CopyWord, ConsumeFresh, ConsumeStale, PeekBegin, PeekEnd
    <3>2. stamp'[r].of = wire[r][StampWord]
      BY <2>1, <3>1
    <3>3. rpc[r] = "peek" /\ rpending[r] = {}
      BY <3>1 DEF PeekEnd
    <3>4. QED
      BY <3>2, <3>3 DEF RingInv, CopyIntactUntilComeRound, Copying, WordsRead
  <2>4. QED
    BY <2>2, <2>3
<1>2. QED
  BY <1>1, RingInvariant, PTL DEF Spec, TornOnlyWhenComeRound

\* A reader gives up a record only when the writer has come round to it.
THEOREM LossOnlyWhenLapped == Spec => LossNeedsAFullLap
<1>1. RingInv /\ [Next]_vars => [GivenUpOnlyComeRound]_vars
  <2> SUFFICES ASSUME RingInv, Next, NEW r \in Readers,
                      rpc[r] # "detached", cursor'[r] # cursor[r], delivered'[r] = delivered[r]
               PROVE  ComeRound(cursor[r])
    BY DEF GivenUpOnlyComeRound
  <2>1. /\ cursor \in [Readers -> Nat]
        /\ delivered \in [Readers -> Seq(Records)]
        /\ wseq \in Nat
    BY DEF RingInv, TypeOK
  <2>2. ConsumeResync(r) \/ ConsumeStale(r) \/ ConsumeFresh(r)
    <3>1. PICK q \in Readers : Reader(q)
      BY DEF Next, Writer, PublishBegin, PublishWord, PublishRelease, readerVars
    <3>2. ~(BatchBegin(q) \/ ConsumeEmpty(q) \/ ConsumeBegin(q) \/ CopyWord(q) \/ PeekBegin(q)
            \/ PeekEnd(q))
      BY DEF BatchBegin, ConsumeEmpty, ConsumeBegin, CopyWord, PeekBegin, PeekEnd
    <3>3. CASE Attach(q)
      BY <2>1, <3>3 DEF Attach
    <3>4. CASE ConsumeResync(q) \/ ConsumeStale(q) \/ ConsumeFresh(q)
      BY <2>1, <3>4 DEF ConsumeResync, ConsumeStale, ConsumeFresh
    <3>5. QED
      BY <3>1, <3>2, <3>3, <3>4 DEF Reader, ConsumeStep
  <2>3. CASE ConsumeResync(r)
    BY <2>1, <2>3, RingAssumption DEF ConsumeResync, Lapped, ComeRound
  <2>4. CASE ConsumeStale(r)
    <3>1. /\ rpc[r] = "copy"
          /\ rpending[r] = {}
          /\ wire[r][SeqWord] # asked[r]
          /\ asked[r] = cursor[r]
      BY <2>4 DEF ConsumeStale, RingInv, InCall
    <3>2. QED
      BY <3>1, RingAssumption DEF RingInv, CopyIntactUntilComeRound, Copying, WordsRead
  <2>5. CASE ConsumeFresh(r)
    <3> DEFINE m == [seq |-> asked[r], copy |-> wire[r]]
    <3>1. delivered'[r] = Append(delivered[r], m)
      BY <2>1, <2>5 DEF ConsumeFresh
    <3> HIDE DEF m
    <3>2. Len(delivered'[r]) = Len(delivered[r]) + 1 /\ Len(delivered[r]) \in Nat
      BY <2>1, <3>1
    <3>3. QED
      BY <3>2
  <2>6. QED
    BY <2>2, <2>3, <2>4, <2>5
<1>2. QED
  BY <1>1, RingInvariant, PTL DEF Spec, LossNeedsAFullLap

--------------------------------------------------------------------------------
(* The ring implements the bus.                                             *)

BusNext == [r \in Readers |-> IF rpc[r] = "detached" THEN 0 ELSE cursor[r]]
BusGot  == [r \in Readers |-> [i \in 1 .. Len(delivered[r]) |-> delivered[r][i].seq]]

LEMMA BusNextIsCursor == (RingInv => BusNext = cursor) /\ (RingInv' => BusNext' = cursor')
  BY DEF RingInv, TypeOK, InCall, BusNext

\* A step that hands nothing to reader r, and moves no cursor but r's, and that
\* one forward and not past the live end, is a Skip of r or a stutter.
LEMMA SkipStep ==
    ASSUME RingInv, RingInv', NEW r \in Readers, wseq' = wseq, delivered' = delivered,
           \A q \in Readers \ {r} : cursor'[q] = cursor[q],
           cursor'[r] >= cursor[r]
    PROVE  [B!Next]_(B!busVars)
<1>1. BusNext = cursor /\ BusNext' = cursor'
  BY BusNextIsCursor
<1>2. BusGot' = BusGot
  BY DEF BusGot
<1>3. cursor \in [Readers -> Nat] /\ cursor' \in [Readers -> Nat] /\ wseq \in Nat
  BY DEF RingInv, TypeOK
<1>4. cursor'[r] <= wseq
  BY DEF RingInv, ReaderBehindWriter
<1>5. cursor' = [cursor EXCEPT ![r] = cursor'[r]]
  BY <1>3
<1>6. CASE cursor'[r] = cursor[r]
  BY <1>1, <1>2, <1>3, <1>5, <1>6 DEF B!busVars, BusNext, BusGot
<1>7. CASE cursor'[r] # cursor[r]
  <2>1. cursor'[r] \in cursor[r] + 1 .. wseq
    BY <1>3, <1>4, <1>7
  <2>2. B!Skip(r)
    BY <1>1, <1>2, <1>5, <2>1 DEF B!Skip, BusNext, BusGot
  <2>3. QED
    BY <2>2 DEF B!Next
<1>8. QED
  BY <1>6, <1>7

\* Handing reader r the record at its cursor is a Deliver of r.
LEMMA DeliverStep ==
    ASSUME RingInv, RingInv', NEW r \in Readers, ConsumeFresh(r)
    PROVE  B!Deliver(r)
<1> DEFINE m == [seq |-> asked[r], copy |-> wire[r]]
<1>1. BusNext = cursor /\ BusNext' = cursor'
  BY BusNextIsCursor
<1>2. /\ cursor \in [Readers -> Nat]
      /\ delivered \in [Readers -> Seq(Records)]
      /\ wseq' = wseq
      /\ cursor[r] < wseq
      /\ asked[r] = cursor[r]
      /\ cursor' = [cursor EXCEPT ![r] = @ + 1]
      /\ delivered' = [delivered EXCEPT ![r] = Append(@, m)]
  BY DEF RingInv, TypeOK, InCall, Copying, ConsumeFresh, writerVars
<1>3. m.seq = cursor[r]
  BY <1>2
<1> HIDE DEF m
<1>4. BusGot' = [BusGot EXCEPT ![r] = Append(@, cursor[r])]
  <2>1. \A q \in Readers \ {r} : BusGot'[q] = BusGot[q]
    BY <1>2 DEF BusGot
  <2>2. delivered'[r] = Append(delivered[r], m) /\ delivered[r] \in Seq(Records)
    BY <1>2
  <2>3. /\ Len(delivered[r]) \in Nat
        /\ Len(delivered'[r]) = Len(delivered[r]) + 1
        /\ delivered'[r][Len(delivered[r]) + 1] = m
        /\ \A i \in 1 .. Len(delivered[r]) : delivered'[r][i] = delivered[r][i]
    BY <2>2
  <2>4. /\ BusGot[r] = [i \in 1 .. Len(delivered[r]) |-> delivered[r][i].seq]
        /\ BusGot'[r] = [i \in 1 .. Len(delivered'[r]) |-> delivered'[r][i].seq]
    BY DEF BusGot
  <2>5. BusGot[r] \in Seq(Nat) /\ Len(BusGot[r]) = Len(delivered[r])
    <3>1. \A i \in 1 .. Len(delivered[r]) : delivered[r][i].seq \in Nat
      BY DeliveredNumbers DEF RingInv
    <3>2. QED
      BY <2>3, <2>4, <3>1
  <2>6. BusGot'[r] = Append(BusGot[r], cursor[r])
    <3>1. Append(BusGot[r], cursor[r]) =
            [i \in 1 .. Len(delivered[r]) + 1 |->
                IF i = Len(delivered[r]) + 1 THEN cursor[r] ELSE BusGot[r][i]]
      BY SMTT(60), <2>5
    <3>2. \A i \in 1 .. Len(delivered[r]) + 1 :
            delivered'[r][i].seq = IF i = Len(delivered[r]) + 1 THEN cursor[r] ELSE BusGot[r][i]
      BY <1>3, <2>3, <2>4
    <3>3. QED
      BY <2>3, <2>4, <3>1, <3>2
  <2>7. /\ BusGot = [q \in Readers |-> BusGot[q]]
        /\ BusGot' = [q \in Readers |-> BusGot'[q]]
    BY DEF BusGot
  <2>8. QED
    BY <2>1, <2>6, <2>7
<1>5. QED
  BY <1>1, <1>2, <1>4 DEF B!Deliver, BusNext, BusGot

\* Every behaviour of the ring is a behaviour of the bus.
THEOREM RingImplementsBus == Spec => ImplementsBus
<1>1. Init => B!Init
  BY DEF Init, B!Init
<1>2. RingInv /\ RingInv' /\ [Next]_vars => [B!Next]_(B!busVars)
  <2> SUFFICES ASSUME RingInv, RingInv', [Next]_vars PROVE [B!Next]_(B!busVars)
    OBVIOUS
  <2>1. CASE UNCHANGED vars
    BY <2>1 DEF vars, writerVars, readerVars, B!busVars
  <2>2. CASE PublishBegin \/ PublishWord
    BY <2>2 DEF PublishBegin, PublishWord, readerVars, B!busVars
  <2>3. CASE PublishRelease
    <3>1. B!Publish
      BY <2>3 DEF PublishRelease, readerVars, B!Publish
    <3>2. QED
      BY <3>1 DEF B!Next
  <2>4. ASSUME NEW r \in Readers, ConsumeFresh(r) PROVE [B!Next]_(B!busVars)
    BY <2>4, DeliverStep DEF B!Next
  <2>5. ASSUME NEW r \in Readers, Reader(r), ~ConsumeFresh(r) PROVE [B!Next]_(B!busVars)
    <3>1. /\ cursor \in [Readers -> Nat]
          /\ wseq \in Nat
          /\ written \in [Readers -> Nat]
          /\ cursor[r] <= wseq
          /\ rpc[r] = "detached" => cursor[r] = 0
          /\ rpc[r] = "copy" => cursor[r] <= written[r]
      BY DEF RingInv, TypeOK, ReaderBehindWriter, InCall, Copying
    <3>2. /\ wseq' = wseq
          /\ delivered' = delivered
          /\ \A q \in Readers \ {r} : cursor'[q] = cursor[q]
      BY <2>5, <3>1
         DEF Reader, ConsumeStep, Attach, BatchBegin, ConsumeEmpty, ConsumeResync, ConsumeBegin,
             CopyWord, ConsumeStale, PeekBegin, PeekEnd, writerVars
    <3>3. cursor'[r] >= cursor[r]
      <4>1. CASE Attach(r)
        BY <3>1, <4>1 DEF Attach
      <4>2. CASE ConsumeResync(r)
        BY <3>1, <4>2, RingAssumption DEF ConsumeResync, Lapped
      <4>3. CASE ConsumeStale(r)
        BY <3>1, <4>3 DEF ConsumeStale
      <4>4. CASE cursor' = cursor
        BY <3>1, <4>4
      <4>5. QED
        BY <2>5, <4>1, <4>2, <4>3, <4>4
           DEF Reader, ConsumeStep, BatchBegin, ConsumeEmpty, ConsumeBegin, CopyWord, PeekBegin,
               PeekEnd
    <3>4. QED
      BY <3>2, <3>3, SkipStep
  <2>6. QED
    BY <2>1, <2>2, <2>3, <2>4, <2>5 DEF Next, Writer
<1>3. QED
  BY <1>1, <1>2, RingInvariant, PTL DEF Spec, ImplementsBus, B!Spec
================================================================================
