------------------------------- MODULE FlowProofs -------------------------------
(***************************************************************************)
(* Theorems about Flow, for every capacity, every drop policy and every    *)
(* bound; about Config, which gives a queue its capacity, for every file   *)
(* that can be written; about Decimal, the numbers records are made of;    *)
(* and about Latency, which measures how long they took.                   *)
(*                                                                         *)
(* The argument.  While position ctail is still the tail, the producer     *)
(* cannot be writing its slot: it writes the slot of head, and head is     *)
(* less than a lap ahead of tail whenever it writes.  So a copy that ends  *)
(* with a successful compare-and-exchange of tail is of that one record,   *)
(* whatever the two looks at the slot's sequence said.  FlowInv makes this *)
(* inductive: Indices bounds the positions each side has loaded, InFlight  *)
(* says what the producer has written of its record, CopyIsRecord what the *)
(* consumer has copied of its own.                                         *)
(*                                                                         *)
(* The argument for Config.  In the sequence of a file's tokens the key of *)
(* field j stands at 4 j - 2, its colon and its value behind it, and only  *)
(* marks stand between the fields.  So where no key stands twice and no    *)
(* text is a key, the first place a key is found is its field's, and what  *)
(* follows the next colon is the object's value.                           *)
(*                                                                         *)
(* The argument for Decimal.  A text is read and printed digit by digit;   *)
(* of two sequences of digits, one behind the other, the value is the      *)
(* first's times a power of ten plus the second's, which ties the number   *)
(* read to the text's two parts, and the text printed to its number.       *)
(*                                                                         *)
(* The argument for Latency.  A histogram told values one by one counts    *)
(* them by bucket, with their sum and extremes.  A larger value is in no   *)
(* lower bucket, so the first bucket up to which there are as many values  *)
(* as the rank asks for has the true percentile in it, and the bucket's    *)
(* bound is above that by the ratio at most.  LatInv says that the two     *)
(* trackers hold what they were told of the records, one of all of them    *)
(* and the other of those taken, and that what the correction for a stall  *)
(* adds is below the record it is made up for.                             *)
(***************************************************************************)
EXTENDS Flow, Config, Decimal, Latency, Lemmas

Writing == ppc \in {"write", "release"}

Indices ==
    /\ tail <= head
    /\ head <= tail + Capacity
    /\ ptail <= tail
    /\ ppc = "cas" => head = ptail + Capacity
    /\ Writing => head < tail + Capacity
    /\ Len(accepted) = head
    /\ ctail <= tail
    /\ cpc \in {"before", "copy", "claim"} => ctail < head

InFlight ==
    /\ Writing => \A w \in Words \ ppending : slots[IndexOf(head)][w] = offered
    /\ ppc = "release" => ppending = {} /\ seqs[IndexOf(head)] = head + 1

CopyIsRecord ==
    (cpc \in {"copy", "claim"} /\ tail = ctail) =>
        /\ \A w \in Words \ cpending : value[w] = accepted[ctail + 1]
        /\ cpc = "claim" => cpending = {}

FlowInv ==
    /\ TypeOK
    /\ Indices
    /\ InFlight
    /\ QueuedRecordsIntact
    /\ CopyIsRecord
    /\ PopReturnsTheRecord
    /\ PopsInOrder
    /\ EveryRecordLeavesOnce

--------------------------------------------------------------------------------
LEMMA IndexRange == \A n \in Nat : IndexOf(n) \in 0 .. Capacity - 1
  BY SlotInRange, FlowAssumption DEF IndexOf

LEMMA InitType == Init => TypeOK
<1> SUFFICES ASSUME Init PROVE TypeOK
  OBVIOUS
<1>1. Zero \in Payloads
  BY DEF Zero, Payloads
<1>2. accepted \in Seq(Nat) /\ popped \in Seq(Takings)
  BY DEF Init
<1>3. credit \in 0 .. CreditRange - 1
  BY FlowAssumption DEF Init
<1>4. QED
  BY <1>1, <1>2, <1>3 DEF Init, TypeOK, ProducerPCs, ConsumerPCs

\* Arithmetic modulo the range of the counter stays in it.
LEMMA CreditWraps == \A n \in Int : n % CreditRange \in 0 .. CreditRange - 1
  BY FlowAssumption, SlotInRange

LEMMA ProducerType == ASSUME TypeOK, Producer PROVE TypeOK'
<1> USE FlowAssumption DEF shared, counters, consumer, history
<1>1. CASE PushNoCredit
  BY <1>1 DEF TypeOK, PushNoCredit, producer
<1>2. CASE PushBegin
  BY <1>2 DEF TypeOK, PushBegin, ProducerPCs
<1>3. CASE PushRoom
  BY <1>3 DEF TypeOK, PushRoom, ProducerPCs
<1>4. CASE PushDropNewest
  BY <1>4 DEF TypeOK, PushDropNewest, ProducerPCs
<1>5. CASE PushRefuse
  BY <1>5 DEF TypeOK, PushRefuse, ProducerPCs
<1>6. CASE PushSpin
  BY <1>6 DEF TypeOK, PushSpin
<1>7. CASE PushEvict
  BY <1>7 DEF TypeOK, PushEvict, ProducerPCs
<1>8. CASE EvictClaim
  BY <1>8 DEF TypeOK, EvictClaim, ProducerPCs
<1>9. CASE EvictLost
  BY <1>9 DEF TypeOK, EvictLost, ProducerPCs
<1>10. CASE WriteWord
  <2>1. PICK w \in ppending : slots' = [slots EXCEPT ![IndexOf(head)][w] = offered]
                              /\ ppending' = ppending \ {w}
    BY <1>10 DEF WriteWord
  <2>2. slots' \in [0 .. Capacity - 1 -> Payloads]
    BY <2>1, IndexRange DEF TypeOK, Payloads
  <2>3. QED
    BY <1>10, <2>1, <2>2 DEF TypeOK, WriteWord
<1>11. CASE Seal
  <2>1. seqs' \in [0 .. Capacity - 1 -> Nat]
    <3>1. head + 1 \in Nat
      BY DEF TypeOK
    <3>2. QED
      BY <1>11, <3>1 DEF TypeOK, Seal
  <2>2. QED
    BY <1>11, <2>1 DEF TypeOK, Seal, ProducerPCs
<1>12. CASE Release
  <2>1. head' \in Nat /\ accepted' \in Seq(Nat)
    BY <1>12 DEF TypeOK, Release
  <2>2. ppc' \in ProducerPCs
    BY <1>12 DEF TypeOK, Release, ProducerPCs
  <2>3. QED
    BY <1>12, <2>1, <2>2 DEF TypeOK, Release
<1>13. CASE Water
  <2>1. highWater' \in Nat
    BY <1>13 DEF TypeOK, Water
  <2>2. QED
    BY <1>13, <2>1 DEF TypeOK, Water, ProducerPCs
<1>14. CASE Charge
  <2>1. credit' \in 0 .. CreditRange - 1
    <3>1. credit - 1 \in Int
      BY DEF TypeOK
    <3>2. QED
      BY <1>14, <3>1, CreditWraps DEF Charge
  <2>2. QED
    BY <1>14, <2>1 DEF TypeOK, Charge, ProducerPCs
<1>15. QED
  BY <1>1, <1>2, <1>3, <1>4, <1>5, <1>6, <1>7, <1>8, <1>9, <1>10, <1>11, <1>12, <1>13, <1>14
     DEF Producer, PushStep

LEMMA ConsumerType == ASSUME TypeOK, Consumer PROVE TypeOK'
<1> USE FlowAssumption DEF shared, counters, producer, history
<1>1. CASE PopTail
  BY <1>1 DEF TypeOK, PopTail, ConsumerPCs
<1>2. CASE PopEmpty
  BY <1>2 DEF TypeOK, PopEmpty, ConsumerPCs
<1>3. CASE PopHead
  BY <1>3 DEF TypeOK, PopHead, ConsumerPCs
<1>4. CASE PopBefore
  <2>1. cpc' \in ConsumerPCs /\ cpending' \in SUBSET Words
    BY <1>4 DEF TypeOK, PopBefore, ConsumerPCs
  <2>2. Zero \in Payloads
    BY DEF Zero, Payloads
  <2>3. value' \in Payloads
    BY <1>4, <2>2 DEF TypeOK, PopBefore
  <2>4. QED
    BY <1>4, <2>1, <2>3 DEF TypeOK, PopBefore
<1>5. CASE PopWord
  <2>1. PICK w \in cpending : value' = [value EXCEPT ![w] = slots[IndexOf(ctail)][w]]
                              /\ cpending' = cpending \ {w}
    BY <1>5 DEF PopWord
  <2>2. slots[IndexOf(ctail)] \in Payloads /\ w \in Words
    BY <2>1, IndexRange DEF TypeOK
  <2>3. value' \in Payloads
    BY <2>1, <2>2 DEF TypeOK, Payloads
  <2>4. QED
    BY <1>5, <2>1, <2>3 DEF TypeOK, PopWord
<1>6. CASE PopAfter
  BY <1>6 DEF TypeOK, PopAfter, ConsumerPCs
<1>7. CASE PopClaim
  <2>1. [pos |-> ctail, copy |-> value] \in Takings
    BY DEF TypeOK, Takings
  <2>2. popped' \in Seq(Takings)
    BY <1>7, <2>1 DEF TypeOK, PopClaim
  <2>3. tail' \in Nat
    BY <1>7 DEF TypeOK, PopClaim
  <2>4. QED
    BY <1>7, <2>2, <2>3 DEF TypeOK, PopClaim, ConsumerPCs
<1>8. CASE PopLost
  BY <1>8 DEF TypeOK, PopLost, ConsumerPCs
<1>9. CASE Grant
  <2>1. PICK n \in Grants : credit' = (credit + n) % CreditRange /\ granted' = granted + n
    BY <1>9 DEF Grant
  <2>2. credit' \in 0 .. CreditRange - 1 /\ granted' \in Nat
    <3>1. credit + n \in Int /\ granted + n \in Nat
      BY <2>1 DEF TypeOK
    <3>2. QED
      BY <2>1, <3>1, CreditWraps
  <2>3. QED
    BY <1>9, <2>2 DEF TypeOK, Grant, consumer
<1>10. QED
  BY <1>1, <1>2, <1>3, <1>4, <1>5, <1>6, <1>7, <1>8, <1>9 DEF Consumer, PopStep

LEMMA StepType == TypeOK /\ [Next]_vars => TypeOK'
<1>1. TypeOK /\ UNCHANGED vars => TypeOK'
  BY DEF TypeOK, vars, shared, counters, producer, consumer, history
<1>2. QED
  BY <1>1, ProducerType, ConsumerType DEF Next

\* Every variable keeps its type in every reachable state.
THEOREM FlowTypeCorrect == Spec => []TypeOK
<1>1. Init => TypeOK
  BY InitType
<1>2. TypeOK /\ [Next]_vars => TypeOK'
  BY StepType
<1>3. QED
  BY <1>1, <1>2, PTL DEF Spec
--------------------------------------------------------------------------------
\* What TypeOK says of the positions, on its own.
LEMMA Positions ==
    /\ TypeOK => /\ head \in Nat /\ tail \in Nat /\ ptail \in Nat /\ ctail \in Nat
                 /\ offered \in Nat /\ accepted \in Seq(Nat) /\ popped \in Seq(Takings)
    /\ TypeOK' => /\ head' \in Nat /\ tail' \in Nat /\ ptail' \in Nat /\ ctail' \in Nat
                  /\ offered' \in Nat /\ accepted' \in Seq(Nat) /\ popped' \in Seq(Takings)
  BY DEF TypeOK

LEMMA InitInv == Init => FlowInv
<1> SUFFICES ASSUME Init PROVE FlowInv
  OBVIOUS
<1>1. TypeOK
  BY InitType
<1>2. Indices
  BY FlowAssumption DEF Init, Indices, Writing
<1>3. InFlight /\ CopyIsRecord
  BY DEF Init, InFlight, CopyIsRecord, Writing
<1>4. QueuedRecordsIntact
  BY FlowAssumption DEF Init, QueuedRecordsIntact
<1>5. PopReturnsTheRecord /\ PopsInOrder
  BY DEF Init, PopReturnsTheRecord, PopsInOrder
<1>6. EveryRecordLeavesOnce
  BY DEF Init, EveryRecordLeavesOnce, PoppedAt
<1>7. QED
  BY <1>1, <1>2, <1>3, <1>4, <1>5, <1>6 DEF FlowInv

\* What was handed out stays right: accepted only grows, and so does head.
LEMMA LedgerUnchanged ==
    ASSUME FlowInv, UNCHANGED <<popped, evicted, tail, head, accepted>>
    PROVE  PopReturnsTheRecord' /\ PopsInOrder' /\ EveryRecordLeavesOnce'
  BY DEF FlowInv, PopReturnsTheRecord, PopsInOrder, EveryRecordLeavesOnce, PoppedAt

LEMMA QueueUnchanged ==
    ASSUME FlowInv, UNCHANGED <<tail, head, slots, seqs, accepted>>
    PROVE  QueuedRecordsIntact'
  BY DEF FlowInv, QueuedRecordsIntact, Holds

\* The producer's steps that touch neither the queue nor a slot.
ProducerAside ==
    \/ PushNoCredit \/ PushBegin \/ PushRoom \/ PushDropNewest \/ PushRefuse
    \/ PushSpin \/ PushEvict \/ EvictLost \/ Water \/ Charge

LEMMA ProducerAsideInv == ASSUME FlowInv, ProducerAside PROVE FlowInv'
<1> USE FlowAssumption
<1>1. TypeOK /\ TypeOK'
  BY ProducerType DEF FlowInv, ProducerAside, Producer, PushStep
<1>2. UNCHANGED <<tail, head, slots, seqs, accepted, popped, evicted, consumer>>
  BY DEF ProducerAside, PushNoCredit, PushBegin, PushRoom, PushDropNewest, PushRefuse, PushSpin,
         PushEvict, EvictLost, Water, Charge, shared, history
<1>3. QueuedRecordsIntact' /\ PopReturnsTheRecord' /\ PopsInOrder' /\ EveryRecordLeavesOnce'
  BY <1>2, LedgerUnchanged, QueueUnchanged
<1>4. CopyIsRecord'
  BY <1>2 DEF FlowInv, CopyIsRecord, consumer
<1>5. ptail' = ptail \/ ptail' = tail
  BY DEF ProducerAside, PushNoCredit, PushBegin, PushRoom, PushDropNewest, PushRefuse, PushSpin,
         PushEvict, EvictLost, Water, Charge, producer
<1>6. /\ ppc' # "release"
      /\ ppc' = "cas" => PushEvict
      /\ ppc' = "write" => PushRoom
  BY DEF ProducerAside, PushNoCredit, PushBegin, PushRoom, PushDropNewest, PushRefuse, PushSpin,
         PushEvict, EvictLost, Water, Charge, producer
<1>7. InFlight'
  BY <1>6 DEF InFlight, Writing, PushRoom
<1>8. Indices'
  <2>1. ppc' = "cas" => head = ptail' + Capacity
    BY <1>1, <1>6 DEF PushEvict, Full, FlowInv, Indices, TypeOK
  <2>2. ppc' = "write" => head < tail + Capacity
    BY <1>1, <1>6 DEF PushRoom, Full, TypeOK
  <2>3. QED
    <3>1. Indices /\ UNCHANGED <<ctail, cpc>>
      BY <1>2 DEF FlowInv, consumer
    <3>2. ptail' <= tail
      BY <1>1, <1>5, <3>1, Positions DEF Indices
    <3>3. QED
      BY <1>2, <1>6, <2>1, <2>2, <3>1, <3>2 DEF Indices, Writing
<1>9. QED
  BY <1>1, <1>3, <1>4, <1>7, <1>8 DEF FlowInv

\* The slot of head is not the slot of any queued record while there is room.
LEMMA HeadSlotIsFree ==
    ASSUME TypeOK, head < tail + Capacity, NEW n \in tail .. head - 1
    PROVE  IndexOf(n) # IndexOf(head)
<1>1. /\ n \in Int
      /\ head \in Int
      /\ n < head
      /\ head - n < Capacity
      /\ Capacity \in Nat \ {0}
  BY FlowAssumption DEF TypeOK
<1>2. ASSUME n % Capacity = head % Capacity PROVE FALSE
  <2>1. head - n >= Capacity
    BY <1>1, <1>2, SameSlot
  <2>2. QED
    BY <1>1, <2>1
<1>3. QED
  BY <1>2 DEF IndexOf

\* Passing position n with the tail, and giving n to exactly one of popped and
\* evicted, keeps the ledger.
LEMMA EvictClaimInv == ASSUME FlowInv, EvictClaim PROVE FlowInv'
<1> USE FlowAssumption
<1>1. TypeOK /\ TypeOK'
  BY ProducerType DEF FlowInv, Producer, PushStep
<1>2. /\ ppc = "cas" /\ ppc' = "write" /\ ppending' = Words
      /\ tail = ptail /\ tail' = tail + 1
      /\ evicted' = evicted \cup {tail}
      /\ UNCHANGED <<head, slots, seqs, ptail, offered, accepted, popped, consumer>>
  BY DEF EvictClaim
<1>3. head = tail + Capacity
  BY <1>2 DEF FlowInv, Indices
<1>4. Indices'
  BY <1>1, <1>2, <1>3 DEF FlowInv, Indices, Writing, consumer, TypeOK
<1>5. InFlight'
  BY <1>2 DEF InFlight, Writing
<1>6. QueuedRecordsIntact'
  <2>1. /\ tail' <= head' /\ head' <= tail' + Capacity
        /\ tail' .. head' - 1 \subseteq tail .. head - 1
    BY <1>1, <1>2, <1>3, Positions
  <2>2. QED
    BY <1>2, <2>1 DEF FlowInv, QueuedRecordsIntact, Holds
<1>7. CopyIsRecord'
  <2>1. tail' # ctail'
    BY <1>1, <1>2, Positions DEF FlowInv, Indices, consumer
  <2>2. QED
    BY <2>1 DEF CopyIsRecord
<1>8. PopReturnsTheRecord' /\ PopsInOrder'
  BY <1>2 DEF FlowInv, PopReturnsTheRecord, PopsInOrder
<1>9. EveryRecordLeavesOnce'
  <2>1. PoppedAt' = PoppedAt
    BY <1>2 DEF PoppedAt
  <2>2. PoppedAt \cap evicted = {} /\ PoppedAt \cup evicted = 0 .. tail - 1
    BY DEF FlowInv, EveryRecordLeavesOnce
  <2>3. 0 .. tail' - 1 = (0 .. tail - 1) \cup {tail}
    BY <1>1, <1>2, Positions
  <2>4. tail \notin PoppedAt
    BY <1>1, <2>2, Positions
  <2>5. QED
    BY <1>2, <2>1, <2>2, <2>3, <2>4 DEF EveryRecordLeavesOnce
<1>10. QED
  BY <1>1, <1>4, <1>5, <1>6, <1>7, <1>8, <1>9 DEF FlowInv

LEMMA WriteWordInv == ASSUME FlowInv, WriteWord PROVE FlowInv'
<1> USE FlowAssumption
<1>1. TypeOK /\ TypeOK'
  BY ProducerType DEF FlowInv, Producer, PushStep
<1>2. PICK w \in ppending : /\ slots' = [slots EXCEPT ![IndexOf(head)][w] = offered]
                            /\ ppending' = ppending \ {w}
  BY DEF WriteWord
<1>3. /\ ppc = "write" /\ ppc' = "write" /\ w \in Words
      /\ UNCHANGED <<head, tail, seqs, ptail, consumer, history>>
  BY <1>1, <1>2 DEF WriteWord, TypeOK
<1>4. head < tail + Capacity
  BY <1>3 DEF FlowInv, Indices, Writing
<1>5. \A n \in tail .. head - 1 : slots'[IndexOf(n)] = slots[IndexOf(n)]
  <2> SUFFICES ASSUME NEW n \in tail .. head - 1 PROVE slots'[IndexOf(n)] = slots[IndexOf(n)]
    OBVIOUS
  <2>1. IndexOf(n) # IndexOf(head)
    BY <1>1, <1>4, HeadSlotIsFree
  <2>2. n \in Nat
    BY <1>1 DEF TypeOK
  <2>3. QED
    BY <1>1, <1>2, <2>1, <2>2, IndexRange DEF TypeOK
<1>6. QueuedRecordsIntact'
  BY SMTT(60), <1>1, <1>3, <1>5 DEF FlowInv, QueuedRecordsIntact, Holds, history, TypeOK
<1>7. InFlight'
  <2> SUFFICES ASSUME NEW v \in Words \ ppending' PROVE slots'[IndexOf(head)][v] = offered
    BY <1>3 DEF InFlight, history
  <2>1. IndexOf(head) \in 0 .. Capacity - 1
    BY <1>1, IndexRange DEF TypeOK
  <2>2. CASE v = w
    BY <1>1, <1>2, <2>1, <2>2 DEF TypeOK, Payloads
  <2>3. CASE v # w
    BY <1>1, <1>2, <1>3, <2>1, <2>3 DEF TypeOK, Payloads, FlowInv, InFlight, Writing
  <2>4. QED
    BY <2>2, <2>3
<1>8. Indices'
  BY <1>3 DEF FlowInv, Indices, Writing, consumer, history
<1>9. CopyIsRecord'
  BY <1>3 DEF FlowInv, CopyIsRecord, consumer, history
<1>10. PopReturnsTheRecord' /\ PopsInOrder' /\ EveryRecordLeavesOnce'
  BY <1>3, LedgerUnchanged DEF history
<1>11. QED
  BY <1>1, <1>6, <1>7, <1>8, <1>9, <1>10 DEF FlowInv

LEMMA SealInv == ASSUME FlowInv, Seal PROVE FlowInv'
<1> USE FlowAssumption
<1>1. TypeOK /\ TypeOK'
  BY ProducerType DEF FlowInv, Producer, PushStep
<1>2. /\ ppc = "write" /\ ppc' = "release" /\ ppending = {} /\ ppending' = {}
      /\ seqs' = [seqs EXCEPT ![IndexOf(head)] = head + 1]
      /\ UNCHANGED <<head, tail, slots, ptail, consumer, history>>
  BY DEF Seal
<1>3. head < tail + Capacity
  BY <1>2 DEF FlowInv, Indices, Writing
<1>4. \A n \in tail .. head - 1 : seqs'[IndexOf(n)] = seqs[IndexOf(n)]
  <2> SUFFICES ASSUME NEW n \in tail .. head - 1 PROVE seqs'[IndexOf(n)] = seqs[IndexOf(n)]
    OBVIOUS
  <2>1. IndexOf(n) # IndexOf(head)
    BY <1>1, <1>3, HeadSlotIsFree
  <2>2. n \in Nat
    BY <1>1 DEF TypeOK
  <2>3. QED
    BY <1>1, <1>2, <2>1, <2>2, IndexRange DEF TypeOK
<1>5. QueuedRecordsIntact'
  BY <1>1, <1>2, <1>4 DEF FlowInv, QueuedRecordsIntact, Holds, history, TypeOK
<1>6. InFlight'
  <2>1. seqs'[IndexOf(head)] = head + 1
    BY <1>1, <1>2, IndexRange DEF TypeOK
  <2>2. QED
    BY <1>2, <2>1 DEF FlowInv, InFlight, Writing, history
<1>7. Indices'
  BY <1>2 DEF FlowInv, Indices, Writing, consumer, history
<1>8. CopyIsRecord'
  BY <1>2 DEF FlowInv, CopyIsRecord, consumer, history
<1>9. PopReturnsTheRecord' /\ PopsInOrder' /\ EveryRecordLeavesOnce'
  BY <1>2, LedgerUnchanged DEF history
<1>10. QED
  BY <1>1, <1>5, <1>6, <1>7, <1>8, <1>9 DEF FlowInv

LEMMA ReleaseInv == ASSUME FlowInv, Release PROVE FlowInv'
<1> USE FlowAssumption
<1>1. TypeOK /\ TypeOK'
  BY ProducerType DEF FlowInv, Producer, PushStep
<1>2. /\ ppc = "release" /\ ppc' \in {"water", "idle"}
      /\ head' = head + 1
      /\ accepted' = Append(accepted, offered)
      /\ UNCHANGED <<tail, slots, seqs, ptail, consumer, popped, evicted>>
  BY DEF Release
<1>3. /\ head < tail + Capacity
      /\ Len(accepted) = head
      /\ tail <= head
      /\ ctail <= tail
      /\ accepted \in Seq(Nat)
  BY <1>1, <1>2 DEF FlowInv, Indices, Writing, TypeOK
<1>4. /\ Len(accepted') = head + 1
      /\ accepted'[head + 1] = offered
      /\ \A n \in 1 .. head : accepted'[n] = accepted[n]
  BY <1>1, <1>2, <1>3, Positions
<1>5. Indices'
  <2>1. /\ Indices /\ UNCHANGED <<ctail, cpc>>
        /\ head \in Nat /\ tail \in Nat /\ ptail \in Nat /\ ctail \in Nat
    BY <1>1, <1>2, Positions DEF FlowInv, consumer
  <2>2. QED
    BY <1>2, <1>3, <1>4, <2>1 DEF Indices, Writing
<1>6. InFlight'
  BY <1>2 DEF InFlight, Writing
<1>7. QueuedRecordsIntact'
  <2>1. \A n \in tail .. head - 1 : n \in Nat /\ n + 1 \in 1 .. head
    BY <1>1 DEF TypeOK
  <2>2. seqs[IndexOf(head)] = head + 1 /\ \A w \in Words : slots[IndexOf(head)][w] = offered
    BY <1>2 DEF FlowInv, InFlight, Writing
  <2>3. \A n \in tail .. head : n = head \/ n \in tail .. head - 1
    BY <1>1 DEF TypeOK
  <2>4. ASSUME NEW n \in tail .. head
        PROVE  seqs[IndexOf(n)] = n + 1 /\ \A w \in Words : slots[IndexOf(n)][w] = accepted'[n + 1]
    <3>1. CASE n = head
      BY <1>4, <2>2, <3>1
    <3>2. CASE n \in tail .. head - 1
      BY <1>4, <2>1, <3>2 DEF FlowInv, QueuedRecordsIntact, Holds
    <3>3. QED
      BY <2>3, <3>1, <3>2
  <2>5. tail' <= head' /\ head' <= tail' + Capacity /\ head' - 1 = head
    BY <1>1, <1>2, <1>3 DEF TypeOK
  <2>6. QED
    BY <1>2, <2>4, <2>5 DEF QueuedRecordsIntact, Holds
<1>8. CopyIsRecord'
  <2>1. cpc \in {"copy", "claim"} => ctail + 1 \in 1 .. head
    BY <1>1 DEF FlowInv, Indices, TypeOK
  <2>2. QED
    BY <1>2, <1>4, <2>1 DEF FlowInv, CopyIsRecord, consumer
<1>9. PopReturnsTheRecord'
  <2> SUFFICES ASSUME NEW i \in 1 .. Len(popped)
               PROVE  /\ popped[i].pos < head + 1
                      /\ \A w \in Words : popped[i].copy[w] = accepted'[popped[i].pos + 1]
    BY <1>2 DEF PopReturnsTheRecord
  <2>1. popped[i] \in Takings
    BY <1>1, Positions
  <2>2. popped[i].pos \in Nat
    BY <2>1 DEF Takings
  <2>3. /\ popped[i].pos < head
        /\ \A w \in Words : popped[i].copy[w] = accepted[popped[i].pos + 1]
    BY DEF FlowInv, PopReturnsTheRecord
  <2>4. popped[i].pos + 1 \in 1 .. head /\ popped[i].pos < head + 1
    <3>1. head \in Nat
      BY <1>1, Positions
    <3>2. ASSUME NEW p \in Nat, p < head PROVE p + 1 \in 1 .. head /\ p < head + 1
      BY <3>1, <3>2
    <3>3. QED
      BY <2>2, <2>3, <3>2
  <2>5. QED
    BY <1>4, <2>3, <2>4
<1>10. PopsInOrder' /\ EveryRecordLeavesOnce'
  BY <1>2 DEF FlowInv, PopsInOrder, EveryRecordLeavesOnce, PoppedAt
<1>11. QED
  BY <1>1, <1>5, <1>6, <1>7, <1>8, <1>9, <1>10 DEF FlowInv

\* The consumer's steps that take nothing from the queue.
ConsumerAside ==
    PopTail \/ PopEmpty \/ PopHead \/ PopBefore \/ PopWord \/ PopAfter \/ PopLost \/ Grant

LEMMA ConsumerAsideInv == ASSUME FlowInv, ConsumerAside PROVE FlowInv'
<1> USE FlowAssumption
<1>1. TypeOK /\ TypeOK'
  BY ConsumerType DEF FlowInv, ConsumerAside, Consumer, PopStep
<1>2. UNCHANGED <<tail, head, slots, seqs, producer, offered, accepted, popped, evicted>>
  BY DEF ConsumerAside, PopTail, PopEmpty, PopHead, PopBefore, PopWord, PopAfter, PopLost, Grant,
         shared, history
<1>3. QueuedRecordsIntact' /\ PopReturnsTheRecord' /\ PopsInOrder' /\ EveryRecordLeavesOnce'
  BY <1>2, LedgerUnchanged, QueueUnchanged
<1>4. InFlight'
  BY <1>2 DEF FlowInv, InFlight, Writing, producer
<1>5. ctail' <= tail /\ (cpc' \in {"before", "copy", "claim"} => ctail' < head)
  <2>1. CASE PopTail
    BY <1>1, <2>1, Positions DEF PopTail
  <2>2. CASE PopHead
    <3>1. ctail <= tail /\ tail <= head /\ ctail # head /\ ctail' = ctail
      BY <2>2 DEF PopHead, FlowInv, Indices
    <3>2. QED
      BY <1>1, <3>1, Positions
  <2>3. CASE PopEmpty \/ PopLost \/ Grant
    BY <2>3 DEF PopEmpty, PopLost, Grant, consumer, FlowInv, Indices
  <2>4. CASE PopBefore \/ PopWord \/ PopAfter
    BY <2>4 DEF PopBefore, PopWord, PopAfter, FlowInv, Indices
  <2>5. QED
    BY <2>1, <2>2, <2>3, <2>4 DEF ConsumerAside
<1>6. Indices'
  BY <1>2, <1>5 DEF FlowInv, Indices, Writing, producer
<1>7. CopyIsRecord'
  <2>1. CASE PopTail \/ PopEmpty \/ PopHead \/ PopLost \/ Grant
    <3>1. cpc' \notin {"copy", "claim"}
      BY <2>1 DEF PopTail, PopEmpty, PopHead, PopLost, Grant, consumer
    <3>2. QED
      BY <3>1 DEF CopyIsRecord
  <2>2. CASE PopBefore
    BY <2>2 DEF PopBefore, CopyIsRecord
  <2>3. CASE PopAfter
    BY <1>2, <2>3 DEF PopAfter, FlowInv, CopyIsRecord
  <2>4. CASE PopWord
    <3>1. PICK w \in cpending : /\ value' = [value EXCEPT ![w] = slots[IndexOf(ctail)][w]]
                                /\ cpending' = cpending \ {w}
      BY <2>4 DEF PopWord
    <3>2. cpc = "copy" /\ cpc' = "copy" /\ ctail' = ctail
      BY <2>4 DEF PopWord
    <3>3. SUFFICES ASSUME tail = ctail, NEW v \in Words \ cpending'
                   PROVE  value'[v] = accepted[ctail + 1]
      BY <1>2, <3>2 DEF CopyIsRecord
    <3>4. CASE v = w
      <4>1. ctail \in tail .. head - 1
        BY <1>1, <3>2, <3>3, Positions DEF FlowInv, Indices
      <4>2. slots[IndexOf(ctail)][v] = accepted[ctail + 1]
        BY <4>1 DEF FlowInv, QueuedRecordsIntact
      <4>3. value \in Payloads
        BY <1>1 DEF TypeOK
      <4>4. QED
        BY <3>1, <3>4, <4>2, <4>3 DEF Payloads
    <3>5. CASE v # w
      <4>1. value[v] = accepted[ctail + 1]
        BY <3>1, <3>2, <3>3, <3>5 DEF FlowInv, CopyIsRecord
      <4>2. value \in Payloads
        BY <1>1 DEF TypeOK
      <4>3. QED
        BY <3>1, <3>5, <4>1, <4>2 DEF Payloads
    <3>6. QED
      BY <3>4, <3>5
  <2>5. QED
    BY <2>1, <2>2, <2>3, <2>4 DEF ConsumerAside
<1>8. QED
  BY <1>1, <1>3, <1>4, <1>6, <1>7 DEF FlowInv

\* Every position handed out is behind the tail.
LEMMA PoppedBehindTail ==
    ASSUME FlowInv, NEW i \in 1 .. Len(popped)
    PROVE  popped[i].pos \in 0 .. tail - 1
  BY DEF FlowInv, EveryRecordLeavesOnce, PoppedAt

LEMMA PopClaimInv == ASSUME FlowInv, PopClaim PROVE FlowInv'
<1> USE FlowAssumption
<1>1. TypeOK /\ TypeOK'
  BY ConsumerType DEF FlowInv, Consumer, PopStep
<1> DEFINE taking == [pos |-> ctail, copy |-> value]
<1>2. /\ cpc = "claim" /\ cpc' = "idle"
      /\ tail = ctail /\ tail' = tail + 1
      /\ popped' = Append(popped, taking)
      /\ UNCHANGED <<head, slots, seqs, producer, ctail, offered, accepted, evicted>>
  BY DEF PopClaim
<1>3. /\ head \in Nat /\ tail \in Nat /\ ptail \in Nat /\ ctail \in Nat
      /\ popped \in Seq(Takings)
  BY <1>1, Positions
<1>4. tail < head /\ Indices
  BY <1>2 DEF FlowInv, Indices
<1>5. taking.pos = tail /\ \A w \in Words : taking.copy[w] = accepted[tail + 1]
  BY <1>2 DEF FlowInv, CopyIsRecord
<1>6. taking \in Takings
  BY <1>1 DEF TypeOK, Takings
<1> HIDE DEF taking
<1>7. /\ Len(popped) \in Nat
      /\ Len(popped') = Len(popped) + 1
      /\ popped'[Len(popped) + 1] = taking
      /\ \A i \in 1 .. Len(popped) : popped'[i] = popped[i]
  BY <1>2, <1>3, <1>6
<1>8. \A i \in 1 .. Len(popped') : i = Len(popped) + 1 \/ i \in 1 .. Len(popped)
  BY <1>7
<1>9. Indices'
  BY <1>2, <1>3, <1>4 DEF Indices, Writing, producer
<1>10. InFlight'
  BY <1>2 DEF FlowInv, InFlight, Writing, producer
<1>11. QueuedRecordsIntact'
  <2>1. /\ tail' <= head' /\ head' <= tail' + Capacity
        /\ tail' .. head' - 1 \subseteq tail .. head - 1
    BY <1>2, <1>3, <1>4 DEF Indices
  <2>2. QED
    BY <1>2, <2>1 DEF FlowInv, QueuedRecordsIntact, Holds
<1>12. CopyIsRecord'
  BY <1>2 DEF CopyIsRecord
<1>13. PopReturnsTheRecord'
  <2> SUFFICES ASSUME NEW i \in 1 .. Len(popped')
               PROVE  /\ popped'[i].pos < head
                      /\ \A w \in Words : popped'[i].copy[w] = accepted[popped'[i].pos + 1]
    BY <1>2 DEF PopReturnsTheRecord
  <2>1. CASE i = Len(popped) + 1
    BY <1>4, <1>5, <1>7, <2>1
  <2>2. CASE i \in 1 .. Len(popped)
    BY <1>7, <2>2 DEF FlowInv, PopReturnsTheRecord
  <2>3. QED
    BY <1>8, <2>1, <2>2
<1>14. PopsInOrder'
  <2> SUFFICES ASSUME NEW i \in 1 .. Len(popped'), NEW j \in 1 .. Len(popped'), i < j
               PROVE  popped'[i].pos < popped'[j].pos
    BY DEF PopsInOrder
  <2>1. i \in 1 .. Len(popped)
    BY <1>7
  <2>2. CASE j = Len(popped) + 1
    <3>1. popped[i].pos \in 0 .. tail - 1
      BY <2>1, PoppedBehindTail
    <3>2. ASSUME NEW p \in 0 .. tail - 1 PROVE p < tail
      BY <1>3
    <3>3. QED
      BY <1>5, <1>7, <2>1, <2>2, <3>1, <3>2
  <2>3. CASE j \in 1 .. Len(popped)
    BY <1>7, <2>1, <2>3 DEF FlowInv, PopsInOrder
  <2>4. QED
    BY <1>8, <2>2, <2>3
<1>15. EveryRecordLeavesOnce'
  <2>1. PoppedAt' = PoppedAt \cup {tail}
    BY <1>5, <1>7, <1>8 DEF PoppedAt
  <2>2. PoppedAt \cap evicted = {} /\ PoppedAt \cup evicted = 0 .. tail - 1
    BY DEF FlowInv, EveryRecordLeavesOnce
  <2>3. 0 .. tail' - 1 = (0 .. tail - 1) \cup {tail}
    BY <1>2, <1>3
  <2>4. tail \notin evicted
    BY <1>3, <2>2
  <2>5. QED
    BY <1>2, <2>1, <2>2, <2>3, <2>4 DEF EveryRecordLeavesOnce
<1>16. QED
  BY <1>1, <1>9, <1>10, <1>11, <1>12, <1>13, <1>14, <1>15 DEF FlowInv

LEMMA FlowStutter == ASSUME FlowInv, UNCHANGED vars PROVE FlowInv'
<1>1. TypeOK'
  BY StepType DEF FlowInv
<1>2. QueuedRecordsIntact' /\ PopReturnsTheRecord' /\ PopsInOrder' /\ EveryRecordLeavesOnce'
  BY LedgerUnchanged, QueueUnchanged DEF vars, shared, history
<1>3. Indices' /\ InFlight' /\ CopyIsRecord'
  BY DEF FlowInv, Indices, InFlight, CopyIsRecord, Writing,
         vars, shared, producer, consumer, history
<1>4. QED
  BY <1>1, <1>2, <1>3 DEF FlowInv

\* The invariant is inductive: the one induction that the results below share.
THEOREM FlowInvariant == Spec => []FlowInv
<1>1. Init => FlowInv
  BY InitInv
<1>2. FlowInv /\ [Next]_vars => FlowInv'
  <2> SUFFICES ASSUME FlowInv, [Next]_vars PROVE FlowInv'
    OBVIOUS
  <2>1. CASE ProducerAside
    BY <2>1, ProducerAsideInv
  <2>2. CASE EvictClaim
    BY <2>2, EvictClaimInv
  <2>3. CASE WriteWord
    BY <2>3, WriteWordInv
  <2>4. CASE Seal
    BY <2>4, SealInv
  <2>5. CASE Release
    BY <2>5, ReleaseInv
  <2>6. CASE ConsumerAside
    BY <2>6, ConsumerAsideInv
  <2>7. CASE PopClaim
    BY <2>7, PopClaimInv
  <2>8. CASE UNCHANGED vars
    BY <2>8, FlowStutter
  <2>9. QED
    BY <2>1, <2>2, <2>3, <2>4, <2>5, <2>6, <2>7, <2>8
       DEF Next, Producer, Consumer, PushStep, PopStep, ProducerAside, ConsumerAside
<1>3. QED
  BY <1>1, <1>2, PTL DEF Spec

\* pop returns the record that push accepted at that position, whole, though
\* the producer may write the slot while it is copied.
THEOREM PopIsExact == Spec => []PopReturnsTheRecord
  BY FlowInvariant, PTL DEF FlowInv

\* Records come out in the order they went in, none of them twice.
THEOREM PopOrder == Spec => []PopsInOrder
  BY FlowInvariant, PTL DEF FlowInv

\* An eviction and a read never both claim one record, and none disappears
\* without one of them.
THEOREM LeavesOnce == Spec => []EveryRecordLeavesOnce
  BY FlowInvariant, PTL DEF FlowInv

\* A queued record is whole in its slot, and the queue is never over capacity.
THEOREM QueueIsIntact == Spec => []QueuedRecordsIntact
  BY FlowInvariant, PTL DEF FlowInv
--------------------------------------------------------------------------------
(***************************************************************************)
(* Theorems about the accounts of Flow, for every capacity, every drop     *)
(* policy and every bound: what the counters of a queue say of its pushes. *)
(*                                                                         *)
(* The argument.  Each of the three accounts is open while a push is under *)
(* way, so Accounts says where it stands at every step of one: a push that *)
(* began and is not decided is one more than the outcomes; a queue that is *)
(* full, or was when this push looked, has its high-water mark already at  *)
(* the capacity, except between the release of the record that filled it   *)
(* and the mark; and a push under the credit policy that passed the first  *)
(* look has a grant no record has used, whatever the consumer grants       *)
(* meanwhile.  The indices it needs are those of FlowInv.                  *)
(***************************************************************************)

Undecided == ppc \in {"load", "cas", "write", "release"}

Counted == offered = head + dropped + refused + (IF Undecided THEN 1 ELSE 0)

Marked ==
    /\ highWater <= Capacity
    /\ ppc = "water" => head - ptail <= Capacity
    /\ ppc # "water" /\ head - tail = Capacity => highWater = Capacity
    /\ ppc = "cas" => highWater = Capacity
    /\ Writing /\ head - ptail >= Capacity => highWater = Capacity
    /\ LossShowsInHighWater

Paid ==
    policy = "Credit" =>
        /\ head <= granted
        /\ Undecided => head < granted
        /\ ppc # "cas"
        /\ Writing => head - ptail < Capacity
        /\ credit = Unspent % CreditRange

Accounts == Counted /\ Marked /\ Paid

--------------------------------------------------------------------------------
\* The types the accounts are kept in.
LEMMA AccountTypes ==
    TypeOK => /\ head \in Nat /\ tail \in Nat /\ ptail \in Nat
              /\ offered \in Nat /\ dropped \in Nat /\ refused \in Nat /\ granted \in Nat
              /\ highWater \in Nat /\ reused \in Nat /\ credit \in Int
              /\ Capacity \in Nat \ {0} /\ CreditRange \in Nat \ {0}
  BY FlowAssumption DEF TypeOK

\* What is not spent, before and after the record that spends it is charged.
LEMMA UnspentWhen ==
    ASSUME TypeOK
    PROVE  /\ Unspent \in Int
           /\ ppc \in {"water", "charge"} => Unspent = granted - head + 1
           /\ ppc \notin {"water", "charge"} => Unspent = granted - head
<1>1. granted \in Nat /\ head \in Nat
  BY AccountTypes
<1>2. CASE ppc \in {"water", "charge"}
  <2>1. Unspent = granted - head - (-1)
    BY <1>2 DEF Unspent
  <2>2. QED
    BY <1>1, <1>2, <2>1
<1>3. CASE ppc \notin {"water", "charge"}
  <2>1. Unspent = granted - head - 0
    BY <1>3 DEF Unspent
  <2>2. QED
    BY <1>1, <1>3, <2>1
<1>4. QED
  BY <1>2, <1>3

LEMMA CreditMoves ==
    ASSUME NEW a \in Int, NEW n \in Int
    PROVE  ((a % CreditRange) + n) % CreditRange = (a + n) % CreditRange
<1>1. CreditRange \in Nat \ {0}
  BY FlowAssumption
<1>2. QED
  BY <1>1, RemainderOfSum

LEMMA AccountsInit == Init => Accounts
<1> SUFFICES ASSUME Init PROVE Accounts
  OBVIOUS
<1> USE FlowAssumption
<1>1. Counted
  BY DEF Init, Counted, Undecided
<1>2. Marked
  BY DEF Init, Marked, Writing, LossShowsInHighWater
<1>3. Paid
  <2>1. 0 % CreditRange = 0
    OBVIOUS
  <2>2. granted = 0 /\ head = 0 /\ ppc = "idle"
    BY DEF Init
  <2>3. Unspent = 0
    BY <2>2, InitType, UnspentWhen
  <2>4. QED
    BY <2>1, <2>3 DEF Init, Paid, Undecided, Writing
<1>4. QED
  BY <1>1, <1>2, <1>3 DEF Accounts

\* A push moves its account on, one outcome at a time.
LEMMA CountedStep == ASSUME TypeOK, Counted, [Next]_vars PROVE Counted'
<1> USE DEF Counted, Undecided, shared, counters, producer, consumer, history
<1>1. /\ offered \in Nat /\ head \in Nat /\ dropped \in Nat /\ refused \in Nat
  BY AccountTypes
<1>2. CASE PushNoCredit
  BY <1>1, <1>2 DEF PushNoCredit
<1>3. CASE PushBegin
  BY <1>1, <1>3 DEF PushBegin
<1>4. CASE PushRoom \/ PushSpin \/ PushEvict \/ EvictClaim \/ EvictLost \/ WriteWord \/ Seal
  BY <1>1, <1>4 DEF PushRoom, PushSpin, PushEvict, EvictClaim, EvictLost, WriteWord, Seal
<1>5. CASE PushDropNewest
  BY <1>1, <1>5 DEF PushDropNewest
<1>6. CASE PushRefuse
  BY <1>1, <1>6 DEF PushRefuse
<1>7. CASE Release
  BY <1>1, <1>7 DEF Release
<1>8. CASE Water \/ Charge
  BY <1>1, <1>8 DEF Water, Charge
<1>9. CASE Consumer
  BY <1>1, <1>9 DEF Consumer, PopStep, PopTail, PopEmpty, PopHead, PopBefore, PopWord, PopAfter,
                    PopClaim, PopLost, Grant
<1>10. CASE UNCHANGED vars
  BY <1>1, <1>10 DEF vars
<1>11. QED
  BY <1>2, <1>3, <1>4, <1>5, <1>6, <1>7, <1>8, <1>9, <1>10 DEF Next, Producer, PushStep

\* The mark is there before a full queue can cost a record.
LEMMA MarkedStep == ASSUME FlowInv, Marked, [Next]_vars PROVE Marked'
<1> USE DEF Marked, LossShowsInHighWater, Writing, shared, counters, producer, consumer, history
<1>1. /\ head \in Nat /\ tail \in Nat /\ ptail \in Nat
      /\ highWater \in Nat /\ dropped \in Nat /\ reused \in Nat /\ Capacity \in Nat \ {0}
  BY AccountTypes DEF FlowInv
<1>2. /\ head <= tail + Capacity /\ tail <= head /\ ptail <= tail
      /\ ppc = "cas" => head = ptail + Capacity
  BY DEF FlowInv, Indices
<1>3. CASE PushNoCredit \/ PushBegin
  BY <1>1, <1>3 DEF PushNoCredit, PushBegin
<1>4. CASE PushRoom
  BY <1>1, <1>2, <1>4 DEF PushRoom, Full
<1>5. CASE PushDropNewest
  BY <1>1, <1>2, <1>5 DEF PushDropNewest, Full
<1>6. CASE PushRefuse \/ PushSpin
  BY <1>1, <1>2, <1>6 DEF PushRefuse, PushSpin
<1>7. CASE PushEvict
  BY <1>1, <1>2, <1>7 DEF PushEvict, Full
<1>8. CASE EvictClaim
  BY <1>1, <1>2, <1>8 DEF EvictClaim
<1>9. CASE EvictLost \/ WriteWord \/ Seal
  BY <1>1, <1>2, <1>9 DEF EvictLost, WriteWord, Seal
<1>10. CASE Release
  BY <1>1, <1>2, <1>10 DEF Release
<1>11. CASE Water
  BY <1>1, <1>2, <1>11 DEF Water
<1>12. CASE Charge
  BY <1>1, <1>2, <1>12 DEF Charge
<1>13. CASE PopClaim
  BY <1>1, <1>2, <1>13 DEF PopClaim
<1>14. CASE Consumer /\ ~PopClaim
  BY <1>1, <1>14 DEF Consumer, PopStep, PopTail, PopEmpty, PopHead, PopBefore, PopWord, PopAfter,
                    PopLost, Grant
<1>15. CASE UNCHANGED vars
  BY <1>1, <1>15 DEF vars
<1>16. QED
  BY <1>3, <1>4, <1>5, <1>6, <1>7, <1>8, <1>9, <1>10, <1>11, <1>12, <1>13, <1>14, <1>15
     DEF Next, Producer, PushStep

\* No record is queued that was not paid for, while grants come in between.
LEMMA PaidStep == ASSUME FlowInv, FlowInv', Paid, [Next]_vars PROVE Paid'
<1> SUFFICES ASSUME policy' = "Credit"
             PROVE  /\ head' <= granted'
                    /\ Undecided' => head' < granted'
                    /\ ppc' # "cas"
                    /\ Writing' => head' - ptail' < Capacity
                    /\ credit' = Unspent' % CreditRange
  BY DEF Paid
<1> USE DEF Undecided, Writing, shared, counters, producer, consumer, history
<1>1. policy = "Credit"
  BY DEF Next, Producer, PushStep, PushNoCredit, PushBegin, PushRoom, PushDropNewest, PushRefuse,
         PushSpin, PushEvict, EvictClaim, EvictLost, WriteWord, Seal, Release, Water, Charge,
         Consumer, PopStep, PopTail, PopEmpty, PopHead, PopBefore, PopWord, PopAfter, PopClaim,
         PopLost, Grant, vars
<1>2. /\ head <= granted
      /\ Undecided => head < granted
      /\ ppc # "cas"
      /\ Writing => head - ptail < Capacity
      /\ credit = Unspent % CreditRange
  BY <1>1 DEF Paid
<1>3. /\ head \in Nat /\ tail \in Nat /\ ptail \in Nat /\ granted \in Nat
      /\ credit \in Int /\ Capacity \in Nat \ {0} /\ CreditRange \in Nat \ {0}
      /\ TypeOK /\ TypeOK'
  BY AccountTypes DEF FlowInv
<1>4. /\ Unspent \in Int
      /\ ppc \in {"water", "charge"} => Unspent = granted - head + 1
      /\ ppc \notin {"water", "charge"} => Unspent = granted - head
  BY <1>3, UnspentWhen
<1>5. /\ Unspent' \in Int
      /\ ppc' \in {"water", "charge"} => Unspent' = granted' - head' + 1
      /\ ppc' \notin {"water", "charge"} => Unspent' = granted' - head'
  <2>1. TypeOK'
    BY <1>3
  <2>2. /\ granted' \in Nat /\ head' \in Nat
    BY <2>1 DEF TypeOK
  <2>3. CASE ppc' \in {"water", "charge"}
    <3>1. Unspent' = granted' - head' - (-1)
      BY <2>3 DEF Unspent
    <3>2. QED
      BY <2>2, <2>3, <3>1
  <2>4. CASE ppc' \notin {"water", "charge"}
    <3>1. Unspent' = granted' - head' - 0
      BY <2>4 DEF Unspent
    <3>2. QED
      BY <2>2, <2>4, <3>1
  <2>5. QED
    BY <2>3, <2>4
<1>6. CASE PushNoCredit
  BY <1>2, <1>3, <1>4, <1>5, <1>6 DEF PushNoCredit
<1>7. CASE PushBegin
  <2>1. granted # head
    <3>1. SUFFICES ASSUME granted = head PROVE FALSE
      OBVIOUS
    <3>2. Unspent = 0 /\ credit > 0
      BY <1>1, <1>3, <1>4, <1>7, <3>1 DEF PushBegin
    <3>3. 0 % CreditRange = 0
      BY <1>3
    <3>4. QED
      BY <1>2, <3>2, <3>3
  <2>2. QED
    BY <1>2, <1>3, <1>4, <1>5, <1>7, <2>1 DEF PushBegin
<1>8. CASE PushRoom
  BY <1>2, <1>3, <1>4, <1>5, <1>8 DEF PushRoom, Full
<1>9. CASE PushDropNewest \/ PushRefuse \/ PushSpin
  BY <1>1, <1>2, <1>3, <1>4, <1>5, <1>9 DEF PushDropNewest, PushRefuse, PushSpin
<1>10. CASE PushEvict \/ EvictClaim \/ EvictLost
  BY <1>1, <1>2, <1>10 DEF PushEvict, EvictClaim, EvictLost
<1>11. CASE WriteWord \/ Seal
  BY <1>2, <1>3, <1>4, <1>5, <1>11 DEF WriteWord, Seal
<1>12. CASE Release
  BY <1>2, <1>3, <1>4, <1>5, <1>12 DEF Release
<1>13. CASE Water
  BY <1>1, <1>2, <1>3, <1>4, <1>5, <1>13 DEF Water
<1>14. CASE Charge
  <2>1. credit' = (credit - 1) % CreditRange /\ Unspent' = Unspent - 1
    BY <1>3, <1>4, <1>5, <1>14 DEF Charge
  <2>2. ((Unspent % CreditRange) + (-1)) % CreditRange = (Unspent + (-1)) % CreditRange
    <3>1. Unspent \in Int /\ -1 \in Int
      BY <1>4
    <3>2. QED
      BY <3>1, CreditMoves
  <2>3. credit' = Unspent' % CreditRange
    BY <1>2, <1>3, <1>4, <2>1, <2>2
  <2>4. QED
    BY <1>2, <1>3, <1>14, <2>3 DEF Charge
<1>15. CASE Grant
  <2>1. PICK n \in Grants : /\ credit' = (credit + n) % CreditRange
                            /\ granted' = granted + n
    BY <1>15 DEF Grant
  <2>2. n \in Nat
    BY FlowAssumption
  <2>3. Unspent' = Unspent + n
    BY <1>3, <1>4, <1>5, <1>15, <2>1, <2>2 DEF Grant
  <2>4. ((Unspent % CreditRange) + n) % CreditRange = (Unspent + n) % CreditRange
    <3>1. Unspent \in Int /\ n \in Int
      BY <1>4, <2>2
    <3>2. QED
      BY <3>1, CreditMoves
  <2>5. credit' = Unspent' % CreditRange
    BY <1>2, <2>1, <2>3, <2>4
  <2>6. QED
    BY <1>2, <1>3, <1>15, <2>1, <2>2, <2>5 DEF Grant
<1>16. CASE PopStep
  BY <1>2, <1>3, <1>4, <1>5, <1>16
     DEF PopStep, PopTail, PopEmpty, PopHead, PopBefore, PopWord, PopAfter, PopClaim, PopLost
<1>17. CASE UNCHANGED vars
  BY <1>2, <1>3, <1>4, <1>5, <1>17 DEF vars
<1>18. QED
  BY <1>6, <1>7, <1>8, <1>9, <1>10, <1>11, <1>12, <1>13, <1>14, <1>15, <1>16, <1>17
     DEF Next, Producer, Consumer, PushStep

\* The three accounts stand at every step: the induction the result rests on.
THEOREM AccountsStand == Spec => []Accounts
<1>1. Init => Accounts
  BY AccountsInit
<1>2. FlowInv /\ FlowInv' /\ Accounts /\ [Next]_vars => Accounts'
  BY CountedStep, MarkedStep, PaidStep DEF FlowInv, Accounts
<1>3. Spec => []FlowInv
  BY FlowInvariant
<1>4. QED
  BY <1>1, <1>2, <1>3, PTL DEF Spec

\* Every push ends in one counted outcome, a loss shows in the high-water mark,
\* and under the credit policy nothing is queued that was not granted.
THEOREM AccountsAreRight == Spec => []PushesAreAccounted
<1>1. TypeOK /\ Accounts => PushesAreAccounted
  BY DEF Accounts, Counted, Undecided, Marked, Paid,
         PushesAreAccounted, EveryPushCounted, LossShowsInHighWater, QueuedOnlyWhatWasPaid, TypeOK
<1>2. QED
  BY <1>1, AccountsStand, FlowTypeCorrect, PTL

--------------------------------------------------------------------------------
(* The tokens of a file.                                                   *)

Token == Values \cup [is : {"mark"}, says : {"{", ",", ":", "}"}]
Field == [key : Seq(STRING), value : Values]

FieldTokens(f) == <<Text(f.key), Mark(":"), f.value>>

Part(file, i) == (IF i = 1 THEN <<>> ELSE <<Mark(",")>>) \o FieldTokens(file[i])

\* What stands where in two sequences joined.
LEMMA Joined ==
    ASSUME NEW T, NEW a \in Seq(T), NEW b \in Seq(T)
    PROVE  /\ a \o b \in Seq(T) /\ Len(a \o b) = Len(a) + Len(b)
           /\ \A p \in 1 .. Len(a) : (a \o b)[p] = a[p]
           /\ \A p \in 1 .. Len(b) : (a \o b)[Len(a) + p] = b[p]
<1>1. Len(a) \in Nat /\ Len(b) \in Nat
  OBVIOUS
<1>2. a \o b \in Seq(T) /\ Len(a \o b) = Len(a) + Len(b)
  OBVIOUS
<1>3. \A p \in 1 .. Len(a) : (a \o b)[p] = a[p]
  OBVIOUS
<1>4. \A p \in 1 .. Len(b) : (a \o b)[Len(a) + p] = b[p]
  <2>1. ASSUME NEW p \in 1 .. Len(b) PROVE (a \o b)[Len(a) + p] = b[p]
    <3>1. Len(a) + p \in 1 .. Len(a) + Len(b) /\ ~(Len(a) + p <= Len(a)) /\ (Len(a) + p) - Len(a) = p
      BY <1>1
    <3> QED BY <3>1
  <2> QED BY <2>1
<1> QED BY <1>2, <1>3, <1>4

LEMMA TokenTypes ==
    ASSUME NEW f \in Field
    PROVE  /\ Text(f.key) \in Token /\ f.value \in Token
           /\ Mark(":") \in Token /\ Mark(",") \in Token
           /\ Text(f.key).is = "text" /\ Text(f.key).says = f.key /\ f.key \in Seq(STRING)
           /\ f.value \in Values /\ f.value.is \in {"text", "number", "word"}
           /\ \A m : Mark(m).is = "mark" /\ Mark(m).says = m
<1>1. f.key \in Seq(STRING) /\ f.value \in Values
  BY DEF Field
<1>2. Text(f.key) \in Values
  BY <1>1 DEF Text, Values
<1>3. Mark(":") \in Token /\ Mark(",") \in Token
  <2> DEFINE Marks == [is : {"mark"}, says : {"{", ",", ":", "}"}]
  <2>1. Mark(":") \in Marks /\ Mark(",") \in Marks
    BY DEF Mark
  <2> QED BY <2>1 DEF Token
<1>4. f.value.is \in {"text", "number", "word"}
  BY <1>1 DEF Values
<1>5. Text(f.key).is = "text" /\ Text(f.key).says = f.key
  BY DEF Text
<1>6. \A m : Mark(m).is = "mark" /\ Mark(m).says = m
  BY DEF Mark
<1> QED BY <1>1, <1>2, <1>3, <1>4, <1>5, <1>6 DEF Token

LEMMA PartIs ==
    ASSUME NEW file \in Seq(Field), NEW i \in 1 .. Len(file)
    PROVE  /\ FieldTokens(file[i]) \in Seq(Token) /\ Len(FieldTokens(file[i])) = 3
           /\ FieldTokens(file[i])[1] = Text(file[i].key) /\ FieldTokens(file[i])[2] = Mark(":")
           /\ FieldTokens(file[i])[3] = file[i].value
           /\ Part(file, i) \in Seq(Token)
           /\ i = 1 => Part(file, i) = FieldTokens(file[i])
           /\ i # 1 => Part(file, i) = <<Mark(",")>> \o FieldTokens(file[i])
<1> DEFINE f == file[i]
<1>1. f \in Field
  <2> HIDE DEF Field
  <2> QED OBVIOUS
<1> HIDE DEF f
<1>2. Text(f.key) \in Token /\ f.value \in Token /\ Mark(":") \in Token /\ Mark(",") \in Token
  BY <1>1, TokenTypes
<1>3. /\ FieldTokens(f) \in Seq(Token) /\ Len(FieldTokens(f)) = 3
      /\ FieldTokens(f)[1] = Text(f.key) /\ FieldTokens(f)[2] = Mark(":") /\ FieldTokens(f)[3] = f.value
  <2> DEFINE a == Text(f.key)
             b == Mark(":")
             v == f.value
  <2>1. a \in Token /\ b \in Token /\ v \in Token /\ FieldTokens(f) = <<a, b, v>>
    BY <1>2 DEF FieldTokens
  <2> HIDE DEF a, b, v, Token
  <2>2. <<a, b, v>> \in Seq(Token) /\ Len(<<a, b, v>>) = 3
    BY <2>1
  <2> QED BY <2>1, <2>2 DEF a, b, v
<1>4. i = 1 => Part(file, i) = FieldTokens(f)
  <2>1. <<>> \o FieldTokens(f) = FieldTokens(f)
    <3> HIDE DEF Token
    <3> QED BY <1>3
  <2> QED BY <2>1 DEF Part, f
<1>5. i # 1 => Part(file, i) = <<Mark(",")>> \o FieldTokens(f)
  BY DEF Part, f
<1>6. <<Mark(",")>> \o FieldTokens(f) \in Seq(Token)
  <2> DEFINE c == Mark(",")
             s == FieldTokens(f)
  <2>1. c \in Token /\ s \in Seq(Token)
    BY <1>2, <1>3
  <2> HIDE DEF c, s, Token
  <2>2. <<c>> \in Seq(Token)
    BY <2>1
  <2>3. <<c>> \o s \in Seq(Token)
    BY <2>1, <2>2
  <2> QED BY <2>3 DEF c, s
<1> HIDE DEF Token
<1> QED BY <1>3, <1>4, <1>5, <1>6 DEF f

\* The tokens of the first i fields stand where they should.
Placed(file, i, s) ==
    /\ s \in Seq(Token) /\ Len(s) = 4 * i - 1
    /\ \A j \in 1 .. i : /\ s[4 * j - 3] = Text(file[j].key) /\ s[4 * j - 2] = Mark(":")
                         /\ s[4 * j - 1] = file[j].value
                         /\ j < i => s[4 * j] = Mark(",")

LEMMA PlacedGrows ==
    ASSUME NEW file \in Seq(Field), NEW i \in 1 .. Len(file), i # 1, NEW s, Placed(file, i - 1, s)
    PROVE  Placed(file, i, s \o Part(file, i))
<1> DEFINE c == Mark(",")
           t == FieldTokens(file[i])
           more == s \o Part(file, i)
<1>1. /\ t \in Seq(Token) /\ Len(t) = 3 /\ t[1] = Text(file[i].key) /\ t[2] = Mark(":") /\ t[3] = file[i].value
      /\ Part(file, i) = <<c>> \o t /\ c \in Token
  <2>1. file[i] \in Field
    <3> HIDE DEF Field
    <3> QED OBVIOUS
  <2>2. c \in Token
    BY <2>1, TokenTypes
  <2>3. /\ t \in Seq(Token) /\ Len(t) = 3 /\ t[1] = Text(file[i].key) /\ t[2] = Mark(":") /\ t[3] = file[i].value
        /\ Part(file, i) = <<c>> \o t
    BY PartIs
  <2> QED BY <2>2, <2>3
<1>2. s \in Seq(Token) /\ Len(s) = 4 * i - 5 /\ i \in Nat /\ i >= 2
  <2>1. i \in Nat /\ i >= 2
    <3>1. Len(file) \in Nat
      <4> HIDE DEF Field
      <4> QED OBVIOUS
    <3> QED BY <3>1
  <2>2. s \in Seq(Token) /\ Len(s) = 4 * (i - 1) - 1
    BY DEF Placed
  <2> QED BY <2>1, <2>2
<1> HIDE DEF t, c, Token
<1>3. <<c>> \o t \in Seq(Token) /\ Len(<<c>> \o t) = 4
      /\ (<<c>> \o t)[1] = c /\ (<<c>> \o t)[2] = t[1] /\ (<<c>> \o t)[3] = t[2] /\ (<<c>> \o t)[4] = t[3]
  <2> DEFINE u == <<c>>
  <2>1. u \in Seq(Token) /\ Len(u) = 1 /\ u[1] = c
    BY <1>1
  <2> HIDE DEF u
  <2>2. /\ u \o t \in Seq(Token) /\ Len(u \o t) = 4
        /\ (u \o t)[1] = c /\ (u \o t)[2] = t[1] /\ (u \o t)[3] = t[2] /\ (u \o t)[4] = t[3]
    <3>1. t \in Seq(Token) /\ Len(t) = 3
      BY <1>1
    <3>2. /\ u \o t \in Seq(Token) /\ Len(u \o t) = Len(u) + Len(t)
          /\ \A p \in 1 .. Len(u) : (u \o t)[p] = u[p]
          /\ \A p \in 1 .. Len(t) : (u \o t)[Len(u) + p] = t[p]
      <4>1. u \in Seq(Token) /\ t \in Seq(Token)
        BY <2>1, <3>1
      <4> QED BY <4>1, Joined
    <3>3. /\ u \o t \in Seq(Token) /\ Len(u \o t) = 1 + 3
          /\ \A p \in 1 .. 1 : (u \o t)[p] = u[p]
          /\ \A p \in 1 .. 3 : (u \o t)[1 + p] = t[p]
      BY <2>1, <3>1, <3>2
    <3>4. (u \o t)[1 + 1] = t[1] /\ (u \o t)[1 + 2] = t[2] /\ (u \o t)[1 + 3] = t[3]
      BY <3>3
    <3> QED BY <2>1, <3>3, <3>4
  <2> QED BY <2>2 DEF u
<1> DEFINE u == <<c>> \o t
<1>4. u \in Seq(Token) /\ Len(u) = 4 /\ u[1] = c /\ u[2] = t[1] /\ u[3] = t[2] /\ u[4] = t[3]
      /\ more = s \o u
  BY <1>1, <1>3
<1> HIDE DEF u, more
<1>5. /\ more \in Seq(Token) /\ Len(more) = 4 * i - 1
      /\ \A p \in 1 .. Len(s) : more[p] = s[p]
      /\ \A p \in 1 .. 4 : more[Len(s) + p] = u[p]
  <2>1. /\ more \in Seq(Token) /\ Len(more) = Len(s) + 4
        /\ \A p \in 1 .. Len(s) : more[p] = s[p]
        /\ \A p \in 1 .. 4 : more[Len(s) + p] = u[p]
    <3>1. s \in Seq(Token) /\ u \in Seq(Token) /\ Len(u) = 4 /\ more = s \o u
      BY <1>2, <1>4
    <3>2. /\ s \o u \in Seq(Token) /\ Len(s \o u) = Len(s) + Len(u)
          /\ \A p \in 1 .. Len(s) : (s \o u)[p] = s[p]
          /\ \A p \in 1 .. Len(u) : (s \o u)[Len(s) + p] = u[p]
      <4>1. s \in Seq(Token) /\ u \in Seq(Token)
        BY <3>1
      <4> QED BY <4>1, Joined
    <3> QED BY <3>1, <3>2
  <2> QED BY <1>2, <2>1
<1>6. /\ more[4 * i - 4] = c /\ more[4 * i - 3] = t[1] /\ more[4 * i - 2] = t[2] /\ more[4 * i - 1] = t[3]
  <2>1. Len(s) + 1 = 4 * i - 4 /\ Len(s) + 2 = 4 * i - 3 /\ Len(s) + 3 = 4 * i - 2 /\ Len(s) + 4 = 4 * i - 1
    BY <1>2
  <2>2. /\ more[Len(s) + 1] = u[1] /\ more[Len(s) + 2] = u[2] /\ more[Len(s) + 3] = u[3]
        /\ more[Len(s) + 4] = u[4]
    <3>1. \A p \in 1 .. 4 : more[Len(s) + p] = u[p]
      BY <1>5
    <3> QED BY <3>1
  <2> QED BY <1>4, <2>1, <2>2
<1>7. ASSUME NEW j \in 1 .. i
      PROVE  /\ more[4 * j - 3] = Text(file[j].key) /\ more[4 * j - 2] = Mark(":")
             /\ more[4 * j - 1] = file[j].value /\ (j < i => more[4 * j] = c)
  <2>1. CASE j = i
    BY <1>1, <1>2, <1>6, <2>1
  <2>2. CASE j # i
    <3>1. j \in 1 .. i - 1 /\ j \in Nat
      BY <1>2, <2>2
    <3>2. 4 * j - 3 \in 1 .. Len(s) /\ 4 * j - 2 \in 1 .. Len(s) /\ 4 * j - 1 \in 1 .. Len(s)
      BY <1>2, <3>1
    <3>3. /\ s[4 * j - 3] = Text(file[j].key) /\ s[4 * j - 2] = Mark(":") /\ s[4 * j - 1] = file[j].value
          /\ j < i - 1 => s[4 * j] = c
      BY <3>1 DEF Placed, c
    <3>4. CASE j < i - 1
      <4>1. 4 * j \in 1 .. Len(s)
        BY <1>2, <3>1, <3>4
      <4> QED BY <1>5, <3>2, <3>3, <3>4, <4>1
    <3>5. CASE ~(j < i - 1)
      <4>1. 4 * j = 4 * i - 4
        BY <1>2, <3>1, <3>5
      <4> QED BY <1>5, <1>6, <3>2, <3>3, <4>1
    <3> QED BY <3>4, <3>5
  <2> QED BY <2>1, <2>2
<1>8. Placed(file, i, more)
  BY <1>5, <1>7 DEF Placed, c
<1> QED BY <1>8 DEF more

LEMMA FlatIs ==
    ASSUME NEW file \in Seq(Field), file # <<>>
    PROVE  Placed(file, Len(file), FlattenSeq([i \in DOMAIN file |-> Part(file, i)]))
<1> DEFINE n == Len(file)
           P == [i \in DOMAIN file |-> Part(file, i)]
           flatten == CHOOSE g : g = [i \in 1 .. Len(P) |-> IF i = 1 THEN P[i] ELSE g[i - 1] \o P[i]]
<1>1. n \in Nat /\ n # 0 /\ DOMAIN file = 1 .. n
  <2> HIDE DEF Field
  <2> QED OBVIOUS
<1>2. P \in Seq(Seq(Token)) /\ Len(P) = n /\ \A i \in 1 .. n : P[i] = Part(file, i) /\ P[i] \in Seq(Token)
  <2>1. \A i \in 1 .. n : Part(file, i) \in Seq(Token)
    BY PartIs
  <2>2. P \in [1 .. n -> Seq(Token)]
    <3> HIDE DEF Token
    <3> QED BY <1>1, <2>1
  <2> HIDE DEF Token, n
  <2> QED BY <1>1, <2>1, <2>2
<1>3. FlattenSeq(P) = flatten[n]
  <2> HIDE DEF P
  <2> QED BY <1>1, <1>2 DEF FlattenSeq
<1> HIDE DEF P, n, Token, Field
<1>4. PICK f \in [0 .. n -> Seq(Token)] :
            Unrolled(f, n, <<>>, [q \in (1 .. n) \X Seq(Token) |-> q[2] \o P[q[1]]])
  <2> DEFINE step == [q \in (1 .. n) \X Seq(Token) |-> q[2] \o P[q[1]]]
  <2>1. step \in [(1 .. n) \X Seq(Token) -> Seq(Token)]
    <3>1. \A q \in (1 .. n) \X Seq(Token) : q[2] \o P[q[1]] \in Seq(Token)
      BY <1>2
    <3> QED BY <3>1
  <2>2. <<>> \in Seq(Token)
    OBVIOUS
  <2> HIDE DEF step
  <2>3. \E h \in [0 .. n -> Seq(Token)] : Unrolled(h, n, <<>>, step)
    <3> HIDE DEF Token
    <3> DEFINE T == Seq(Token)
               e == <<>>
    <3>1. e \in T /\ step \in [(1 .. n) \X T -> T]
      BY <2>1, <2>2
    <3> HIDE DEF T, e
    <3>2. \E h \in [0 .. n -> T] : Unrolled(h, n, e, step)
      BY <1>1, <3>1, Recursion
    <3> QED BY <3>2 DEF T, e
  <2> QED BY <2>3 DEF step
<1>5. f[0] = <<>> /\ \A i \in 1 .. n : f[i] = f[i - 1] \o P[i]
  <2>1. \A i \in 1 .. n : <<i, f[i - 1]>> \in (1 .. n) \X Seq(Token)
    BY <1>1
  <2> QED BY <1>4, <2>1 DEF Unrolled
<1> DEFINE g == [i \in 1 .. n |-> f[i]]
<1>6. g = [i \in 1 .. n |-> IF i = 1 THEN P[i] ELSE g[i - 1] \o P[i]]
  <2>1. ASSUME NEW i \in 1 .. n PROVE f[i] = IF i = 1 THEN P[i] ELSE g[i - 1] \o P[i]
    <3>1. CASE i = 1
      <4>1. <<>> \o P[1] = P[1]
        <5>1. P[1] \in Seq(Token)
          BY <1>2, <3>1
        <5> QED BY <5>1
      <4>2. f[1] = f[0] \o P[1]
        <5>1. 1 \in 1 .. n /\ 1 - 1 = 0
          BY <3>1
        <5> QED BY <1>5, <5>1
      <4> QED BY <1>5, <3>1, <4>1, <4>2
    <3>2. CASE i # 1
      <4>1. i - 1 \in 1 .. n
        BY <1>1, <3>2
      <4>2. g[i - 1] = f[i - 1]
        BY <4>1
      <4> HIDE DEF g
      <4> QED BY <1>5, <3>2, <4>2
    <3> QED BY <3>1, <3>2
  <2> QED BY <2>1
<1>7. flatten = [i \in 1 .. n |-> IF i = 1 THEN P[i] ELSE flatten[i - 1] \o P[i]]
  <2> HIDE DEF g
  <2>1. \E h : h = [i \in 1 .. Len(P) |-> IF i = 1 THEN P[i] ELSE h[i - 1] \o P[i]]
    BY <1>2, <1>6
  <2>2. flatten = [i \in 1 .. Len(P) |-> IF i = 1 THEN P[i] ELSE flatten[i - 1] \o P[i]]
    BY <2>1
  <2> HIDE DEF flatten
  <2> QED BY <1>2, <2>2
<1> HIDE DEF flatten, g
<1> DEFINE S == {i \in 0 .. n : i # 0 => Placed(file, i, flatten[i])}
<1>8. 0 \in S
  BY <1>1
<1>9. ASSUME NEW i \in 0 .. n - 1, i \in S PROVE i + 1 \in S
  <2>1. i \in Nat /\ i + 1 \in 1 .. n /\ i + 1 \in 0 .. n
    BY <1>1
  <2>2. CASE i = 0
    <3>1. flatten[1] = Part(file, 1)
      BY <1>2, <1>7, <2>1, <2>2
    <3>2. Placed(file, 1, Part(file, 1))
      <4> DEFINE t == FieldTokens(file[1])
      <4>1. 1 \in 1 .. Len(file)
        BY <2>1, <2>2 DEF n
      <4>2. /\ t \in Seq(Token) /\ Len(t) = 3 /\ t[1] = Text(file[1].key) /\ t[2] = Mark(":")
            /\ t[3] = file[1].value /\ Part(file, 1) = t
        BY <4>1, PartIs
      <4> HIDE DEF t
      <4> QED BY <4>2 DEF Placed
    <3> QED BY <2>1, <2>2, <3>1, <3>2
  <2>3. CASE i # 0
    <3>1. Placed(file, i, flatten[i])
      BY <1>9, <2>3
    <3>2. flatten[i + 1] = flatten[i] \o Part(file, i + 1)
      <4>1. i + 1 # 1 /\ (i + 1) - 1 = i
        BY <2>1, <2>3
      <4> QED BY <1>2, <1>7, <2>1, <4>1
    <3>3. Placed(file, i + 1, flatten[i] \o Part(file, i + 1))
      <4>1. i + 1 # 1 /\ (i + 1) - 1 = i
        BY <2>1, <2>3
      <4> QED BY <2>1, <3>1, <4>1, PlacedGrows DEF n
    <3> QED BY <2>1, <3>2, <3>3
  <2> QED BY <2>2, <2>3
<1>10. n \in S
  <2> HIDE DEF S
  <2>1. n \in 0 .. n
    BY <1>1
  <2> QED BY <1>1, <1>8, <1>9, <2>1, Climb
<1> QED BY <1>1, <1>3, <1>10 DEF P, n

\* Where everything stands in a file: the key of field j at 4 j - 2, its colon and
\* its value behind it, and between them only marks.
Laid(file, s) ==
    /\ s \in Seq(Token) /\ Len(s) >= 4 * Len(file) + 1
    /\ \A j \in 1 .. Len(file) : /\ s[4 * j - 2] = Text(file[j].key) /\ s[4 * j - 1] = Mark(":")
                                 /\ s[4 * j] = file[j].value
    /\ \A p \in 1 .. Len(s) :
          \/ s[p].is = "mark"
          \/ \E j \in 1 .. Len(file) : p = 4 * j - 2 \/ p = 4 * j

\* What stands where in a sequence with one thing before and one behind it.
LEMMA Around ==
    ASSUME NEW T, NEW x \in T, NEW y \in T, NEW s \in Seq(T)
    PROVE  /\ (<<x>> \o s) \o <<y>> \in Seq(T) /\ Len((<<x>> \o s) \o <<y>>) = Len(s) + 2
           /\ ((<<x>> \o s) \o <<y>>)[1] = x /\ ((<<x>> \o s) \o <<y>>)[Len(s) + 2] = y
           /\ \A p \in 1 .. Len(s) : ((<<x>> \o s) \o <<y>>)[1 + p] = s[p]
<1> DEFINE a == <<x>>
           b == <<y>>
           front == a \o s
           whole == front \o b
<1>1. a \in Seq(T) /\ Len(a) = 1 /\ a[1] = x
  OBVIOUS
<1>2. b \in Seq(T) /\ Len(b) = 1 /\ b[1] = y
  OBVIOUS
<1>3. Len(s) \in Nat
  OBVIOUS
<1> HIDE DEF a, b
<1>4. /\ front \in Seq(T) /\ Len(front) = Len(a) + Len(s)
      /\ \A p \in 1 .. Len(a) : front[p] = a[p]
      /\ \A p \in 1 .. Len(s) : front[Len(a) + p] = s[p]
  BY <1>1, Joined
<1>5. /\ front \in Seq(T) /\ Len(front) = 1 + Len(s) /\ front[1] = x
      /\ \A p \in 1 .. Len(s) : front[1 + p] = s[p]
  BY <1>1, <1>3, <1>4
<1> HIDE DEF front
<1>6. /\ whole \in Seq(T) /\ Len(whole) = Len(front) + Len(b)
      /\ \A p \in 1 .. Len(front) : whole[p] = front[p]
      /\ \A p \in 1 .. Len(b) : whole[Len(front) + p] = b[p]
  <2>1. front \in Seq(T) /\ b \in Seq(T)
    BY <1>2, <1>5
  <2> QED BY <2>1, Joined
<1> HIDE DEF whole
<1>7. Len(whole) = Len(s) + 2 /\ whole[1] = x
  BY <1>2, <1>3, <1>5, <1>6
<1>8. whole[Len(s) + 2] = y
  <2>1. Len(front) + 1 = Len(s) + 2 /\ 1 \in 1 .. Len(b)
    BY <1>2, <1>3, <1>5
  <2>2. whole[Len(front) + 1] = b[1]
    BY <1>6, <2>1
  <2> QED BY <1>2, <2>1, <2>2
<1>9. \A p \in 1 .. Len(s) : whole[1 + p] = s[p]
  <2>1. ASSUME NEW p \in 1 .. Len(s) PROVE whole[1 + p] = s[p]
    <3>1. 1 + p \in 1 .. Len(front)
      BY <1>3, <1>5
    <3> QED BY <1>5, <1>6, <3>1
  <2> QED BY <2>1
<1> QED BY <1>6, <1>7, <1>8, <1>9 DEF whole, front, a, b

LEMMA TokensAreLaid ==
    ASSUME NEW file \in Seq(Field)
    PROVE  Laid(file, Tokens(file))
<1> DEFINE n == Len(file)
           F == FlattenSeq([i \in DOMAIN file |-> Part(file, i)])
           x == Mark("{")
           y == Mark("}")
           whole == (<<x>> \o F) \o <<y>>
<1>1. n \in Nat /\ DOMAIN file = 1 .. n
  <2> HIDE DEF Field
  <2> QED OBVIOUS
<1>2. Tokens(file) = whole
  BY DEF Tokens, Part, FieldTokens
<1>3. x \in Token /\ y \in Token
  <2> DEFINE Marks == [is : {"mark"}, says : {"{", ",", ":", "}"}]
  <2>1. x \in Marks /\ y \in Marks
    BY DEF Mark
  <2> QED BY <2>1 DEF Token
<1>4. \A m : Mark(m).is = "mark"
  BY DEF Mark
<1>5. CASE n = 0
  <2>1. F = <<>>
    <3> DEFINE P == [i \in DOMAIN file |-> Part(file, i)]
    <3>1. P = <<>> /\ Len(P) = 0
      BY <1>1, <1>5
    <3> HIDE DEF P
    <3>2. FlattenSeq(P) = P
      BY <3>1 DEF FlattenSeq
    <3> QED BY <3>1, <3>2 DEF P
  <2>2. F \in Seq(Token) /\ Len(F) = 0
    BY <2>1
  <2> HIDE DEF F, x, y
  <2>3. whole \in Seq(Token) /\ Len(whole) = Len(F) + 2 /\ whole[1] = x /\ whole[Len(F) + 2] = y
    <3>1. F \in Seq(Token)
      BY <2>2
    <3> QED BY <1>3, <3>1, Around
  <2> HIDE DEF whole
  <2>4. ASSUME NEW p \in 1 .. Len(whole) PROVE whole[p].is = "mark"
    <3>1. p = 1 \/ p = 2
      BY <2>2, <2>3
    <3>2. whole[1].is = "mark" /\ whole[2].is = "mark"
      <4>1. whole[1] = x /\ whole[2] = y
        BY <2>2, <2>3
      <4> QED BY <1>4, <4>1 DEF x, y
    <3> QED BY <3>1, <3>2
  <2>5. Laid(file, whole)
    <3>1. Len(whole) >= 4 * Len(file) + 1
      BY <1>5, <2>2, <2>3
    <3>2. 1 .. Len(file) = {}
      BY <1>5
    <3> QED BY <2>3, <2>4, <3>1, <3>2 DEF Laid
  <2> QED BY <1>2, <2>5
<1>6. CASE n # 0
  <2>1. Placed(file, n, F)
    <3>1. file # <<>>
      BY <1>6
    <3> QED BY <3>1, FlatIs
  <2>2. F \in Seq(Token) /\ Len(F) = 4 * n - 1
    BY <2>1 DEF Placed
  <2> HIDE DEF F, x, y
  <2>3. /\ whole \in Seq(Token) /\ Len(whole) = Len(F) + 2 /\ whole[1] = x /\ whole[Len(F) + 2] = y
        /\ \A p \in 1 .. Len(F) : whole[1 + p] = F[p]
    <3>1. F \in Seq(Token)
      BY <2>2
    <3> QED BY <1>3, <3>1, Around
  <2> HIDE DEF whole
  <2>6. /\ whole \in Seq(Token) /\ Len(whole) = 4 * n + 1
        /\ whole[1] = Mark("{") /\ whole[4 * n + 1] = Mark("}")
        /\ \A p \in 1 .. 4 * n - 1 : whole[1 + p] = F[p]
    <3>1. Len(F) + 2 = 4 * n + 1
      BY <1>1, <2>2
    <3> QED BY <2>2, <2>3, <3>1 DEF x, y
  <2>7. ASSUME NEW j \in 1 .. n
        PROVE  /\ whole[4 * j - 2] = Text(file[j].key) /\ whole[4 * j - 1] = Mark(":")
               /\ whole[4 * j] = file[j].value
               /\ j < n => whole[4 * j + 1] = Mark(",")
    <3>1. /\ F[4 * j - 3] = Text(file[j].key) /\ F[4 * j - 2] = Mark(":") /\ F[4 * j - 1] = file[j].value
          /\ j < n => F[4 * j] = Mark(",")
      BY <2>1 DEF Placed
    <3>2. j \in Nat /\ 4 * j - 3 \in 1 .. 4 * n - 1 /\ 4 * j - 2 \in 1 .. 4 * n - 1 /\ 4 * j - 1 \in 1 .. 4 * n - 1
          /\ (j < n => 4 * j \in 1 .. 4 * n - 1)
      BY <1>1
    <3>3. /\ whole[1 + (4 * j - 3)] = F[4 * j - 3] /\ whole[1 + (4 * j - 2)] = F[4 * j - 2]
          /\ whole[1 + (4 * j - 1)] = F[4 * j - 1] /\ (j < n => whole[1 + 4 * j] = F[4 * j])
      BY <2>6, <3>2
    <3>4. /\ 1 + (4 * j - 3) = 4 * j - 2 /\ 1 + (4 * j - 2) = 4 * j - 1 /\ 1 + (4 * j - 1) = 4 * j
          /\ 1 + 4 * j = 4 * j + 1
      BY <3>2
    <3> QED BY <3>1, <3>3, <3>4
  <2>8. ASSUME NEW p \in 1 .. Len(whole)
        PROVE  whole[p].is = "mark" \/ \E j \in 1 .. n : p = 4 * j - 2 \/ p = 4 * j
    <3>1. CASE p = 1
      BY <1>4, <2>6, <3>1
    <3>2. CASE p = 4 * n + 1
      BY <1>4, <2>6, <3>2
    <3>3. CASE p # 1 /\ p # 4 * n + 1
      <4>1. p \in Nat /\ p >= 2 /\ p <= 4 * n
        <5>1. Len(whole) = 4 * n + 1
          BY <2>6
        <5> QED BY <1>1, <3>3, <5>1
      <4> DEFINE j == (p + 2) \div 4
      <4>2. j \in Nat /\ (p + 2 = 4 * j \/ p + 2 = 4 * j + 1 \/ p + 2 = 4 * j + 2 \/ p + 2 = 4 * j + 3)
        BY <4>1
      <4> HIDE DEF j
      <4>3. j \in 1 .. n
        BY <1>1, <4>1, <4>2
      <4>4. CASE p = 4 * j - 2 \/ p = 4 * j
        BY <4>3, <4>4
      <4>5. CASE p = 4 * j - 1
        BY <1>4, <2>7, <4>3, <4>5
      <4>6. CASE p = 4 * j + 1
        <5>1. j < n
          BY <1>1, <4>1, <4>3, <4>6
        <5> QED BY <1>4, <2>7, <4>3, <4>6, <5>1
      <4> QED BY <4>1, <4>2, <4>4, <4>5, <4>6
    <3> QED BY <3>1, <3>2, <3>3
  <2>9. Laid(file, whole)
    <3>1. Len(whole) >= 4 * Len(file) + 1
      <4>1. Len(whole) = 4 * n + 1
        BY <2>6
      <4> HIDE DEF n
      <4>2. Len(whole) >= 4 * n + 1
        BY <1>1, <4>1
      <4> QED BY <4>2 DEF n
    <3> QED BY <2>6, <2>7, <2>8, <3>1 DEF Laid
  <2> QED BY <1>2, <2>9
<1> QED BY <1>5, <1>6

--------------------------------------------------------------------------------
(* What is read of a key.                                                  *)

\* No key stands twice, and no text is the name of a key.
Distinct(file) == \A i, j \in 1 .. Len(file) : file[i].key = file[j].key => i = j
Plain(file) ==
    \A i \in 1 .. Len(file) : ~(file[i].value.is = "text" /\ file[i].value.says \in KeysRead)

\* The field of a key, in the file and in the object it stands for.
LEMMA GetIs ==
    ASSUME NEW file \in Seq(Field), Distinct(file), NEW key
    PROVE  /\ (\A i \in 1 .. Len(file) : file[i].key # key) => \A d : Get(file, key, d) = d
           /\ \A i \in 1 .. Len(file) : file[i].key = key => \A d : Get(file, key, d) = file[i].value
<1> DEFINE at == SelectInSeq(file, LAMBDA f : f.key = key)
           I == {i \in 1 .. Len(file) : file[i].key = key}
<1>1. at = IF I # {} THEN Min(I) ELSE 0
  BY DEF SelectInSeq
<1>2. \A d : Get(file, key, d) = IF at = 0 THEN d ELSE file[at].value
  BY DEF Get
<1> HIDE DEF at
<1>3. ASSUME \A i \in 1 .. Len(file) : file[i].key # key PROVE \A d : Get(file, key, d) = d
  <2>1. I = {}
    BY <1>3
  <2> QED BY <1>1, <1>2, <2>1
<1>4. ASSUME NEW i \in 1 .. Len(file), file[i].key = key PROVE \A d : Get(file, key, d) = file[i].value
  <2>1. i \in I
    BY <1>4
  <2>2. I = {i}
    <3>1. ASSUME NEW j \in I PROVE j = i
      BY <1>4 DEF Distinct
    <3> QED BY <2>1, <3>1
  <2>3. I \subseteq Nat /\ I # {}
    BY <2>1
  <2> HIDE DEF I
  <2>4. Min(I) \in I
    BY <2>3, MinOfNats
  <2>5. at = i
    BY <1>1, <2>2, <2>3, <2>4
  <2>6. i # 0
    OBVIOUS
  <2> QED BY <1>2, <2>5, <2>6
<1> QED BY <1>3, <1>4

LEMMA FoundIs ==
    ASSUME NEW file \in Seq(Field), Distinct(file), Plain(file), NEW key \in KeysRead
    PROVE  /\ (\A i \in 1 .. Len(file) : file[i].key # key) => Found(Tokens(file), key) = <<>>
           /\ \A i \in 1 .. Len(file) :
                file[i].key = key => Found(Tokens(file), key) = <<file[i].value>>
<1> DEFINE s == Tokens(file)
           keys == {i \in DOMAIN s : s[i].is = "text" /\ s[i].says = key}
           colons == {j \in DOMAIN s : j > Min(keys) /\ s[j] = Mark(":")}
<1>1. Laid(file, s)
  BY TokensAreLaid
<1>2. Found(s, key) = IF keys = {} \/ colons = {} THEN <<>> ELSE <<s[Min(colons) + 1]>>
  BY DEF Found
<1> HIDE DEF s
<1>3. /\ DOMAIN s = 1 .. Len(s) /\ Len(s) \in Nat /\ Len(file) \in Nat /\ Len(s) >= 4 * Len(file) + 1
  <2>1. s \in Seq(Token) /\ Len(s) >= 4 * Len(file) + 1
    BY <1>1 DEF Laid
  <2>2. Len(file) \in Nat
    <3> HIDE DEF Field
    <3> QED OBVIOUS
  <2>3. DOMAIN s = 1 .. Len(s) /\ Len(s) \in Nat
    BY <2>1
  <2> QED BY <2>1, <2>2, <2>3
<1>4. ASSUME NEW p \in keys
      PROVE  \E j \in 1 .. Len(file) : file[j].key = key /\ p = 4 * j - 2
  <2>1. p \in 1 .. Len(s) /\ s[p].is = "text" /\ s[p].says = key
    BY <1>3
  <2>2. PICK j \in 1 .. Len(file) : p = 4 * j - 2 \/ p = 4 * j
    BY <1>1, <2>1 DEF Laid
  <2>3. s[4 * j - 2] = Text(file[j].key) /\ s[4 * j] = file[j].value
    BY <1>1 DEF Laid
  <2>4. CASE p = 4 * j
    <3>1. file[j].value.is = "text" /\ file[j].value.says = key
      BY <2>1, <2>3, <2>4
    <3> QED BY <3>1 DEF Plain
  <2>5. CASE p = 4 * j - 2
    <3>1. Text(file[j].key).says = file[j].key
      BY DEF Text
    <3> QED BY <2>1, <2>3, <2>5, <3>1
  <2> QED BY <2>2, <2>4, <2>5
<1>5. ASSUME \A i \in 1 .. Len(file) : file[i].key # key PROVE Found(s, key) = <<>>
  <2>1. keys = {}
    BY <1>4, <1>5
  <2> HIDE DEF keys
  <2> QED BY <1>2, <2>1
<1>6. ASSUME NEW i \in 1 .. Len(file), file[i].key = key PROVE Found(s, key) = <<file[i].value>>
  <2>1. /\ i \in Nat /\ 4 * i - 2 \in 1 .. Len(s) /\ 4 * i - 1 \in 1 .. Len(s)
    BY <1>3
  <2>2. s[4 * i - 2] = Text(file[i].key) /\ s[4 * i - 1] = Mark(":") /\ s[4 * i] = file[i].value
    BY <1>1 DEF Laid
  <2>3. keys = {4 * i - 2}
    <3>1. 4 * i - 2 \in keys
      <4>1. Text(file[i].key).says = key /\ Text(file[i].key).is = "text"
        BY <1>6 DEF Text
      <4> QED BY <1>3, <2>1, <2>2, <4>1
    <3>2. ASSUME NEW p \in keys PROVE p = 4 * i - 2
      <4>1. PICK j \in 1 .. Len(file) : file[j].key = key /\ p = 4 * j - 2
        BY <1>4
      <4>2. j = i
        BY <1>6, <4>1 DEF Distinct
      <4> QED BY <4>1, <4>2
    <3> HIDE DEF keys
    <3> QED BY <3>1, <3>2
  <2>4. Min(keys) = 4 * i - 2
    <3> HIDE DEF keys
    <3>1. keys \subseteq Nat /\ keys # {}
      BY <2>1, <2>3
    <3>2. Min(keys) \in keys
      BY <3>1, MinOfNats
    <3> QED BY <2>3, <3>2
  <2>5. 4 * i - 1 \in colons
    <3> HIDE DEF keys
    <3> QED BY <1>3, <2>1, <2>2, <2>4
  <2>6. \A q \in colons : q \in Nat /\ q >= 4 * i - 1
    <3> HIDE DEF keys
    <3> QED BY <1>3, <2>1, <2>4
  <2> HIDE DEF keys, colons
  <2>7. Min(colons) = 4 * i - 1
    <3>1. colons \subseteq Nat /\ colons # {}
      BY <2>5, <2>6
    <3>2. Min(colons) \in colons /\ \A q \in colons : Min(colons) <= q
      BY <3>1, MinOfNats
    <3>3. Min(colons) <= 4 * i - 1 /\ Min(colons) >= 4 * i - 1 /\ Min(colons) \in Nat
      BY <2>5, <2>6, <3>2
    <3> QED BY <2>1, <3>3
  <2>8. Min(colons) + 1 = 4 * i
    BY <2>1, <2>7
  <2>9. keys # {} /\ colons # {}
    BY <2>3, <2>5
  <2> QED BY <1>2, <2>2, <2>8, <2>9
<1> QED BY <1>5, <1>6 DEF s

\* What the flat reader finds of a key is what the object has of it, and of its kind.
LEMMA ReadIs ==
    ASSUME NEW file \in Seq(Fields), Distinct(file), Plain(file), NEW key \in KeysRead
    PROVE  \/ Found(Tokens(file), key) = <<>> /\ \A d : Get(file, key, d) = d
           \/ \E i \in 1 .. Len(file) :
                /\ Found(Tokens(file), key) = <<file[i].value>> /\ \A d : Get(file, key, d) = file[i].value
                /\ file[i] \in Fields /\ file[i].key = key
                /\ file[i].value \in Values /\ (file[i].value.is = "text" <=> key \in TextKeys)
<1>1. Fields \subseteq Field
  BY ConfigAssumption DEF Field
<1>2. file \in Seq(Field)
  <2> HIDE DEF Field
  <2> QED BY <1>1
<1>3. /\ (\A i \in 1 .. Len(file) : file[i].key # key) => \A d : Get(file, key, d) = d
      /\ \A i \in 1 .. Len(file) : file[i].key = key => \A d : Get(file, key, d) = file[i].value
  BY <1>2, GetIs
<1>4. /\ (\A i \in 1 .. Len(file) : file[i].key # key) => Found(Tokens(file), key) = <<>>
      /\ \A i \in 1 .. Len(file) :
           file[i].key = key => Found(Tokens(file), key) = <<file[i].value>>
  BY <1>2, FoundIs
<1>5. CASE \A i \in 1 .. Len(file) : file[i].key # key
  BY <1>3, <1>4, <1>5
<1>6. ASSUME NEW i \in 1 .. Len(file), file[i].key = key
      PROVE  /\ file[i] \in Fields /\ file[i].value \in Values
             /\ (file[i].value.is = "text" <=> key \in TextKeys)
  <2>1. file[i] \in Fields
    OBVIOUS
  <2>2. file[i].value \in Values
    BY <1>1, <2>1 DEF Field
  <2> QED BY <1>6, <2>1, <2>2, ConfigAssumption
<1>7. CASE \E i \in 1 .. Len(file) : file[i].key = key
  <2>1. PICK i \in 1 .. Len(file) : file[i].key = key
    BY <1>7
  <2>2. Found(Tokens(file), key) = <<file[i].value>> /\ \A d : Get(file, key, d) = file[i].value
    BY <1>3, <1>4, <2>1
  <2> QED BY <1>6, <2>1, <2>2
<1> QED BY <1>5, <1>7

LEMMA TextIs ==
    ASSUME NEW file \in Seq(Fields), Distinct(file), Plain(file), NEW key \in TextKeys, NEW d
    PROVE  /\ Get(file, key, Text(d)).is = "text"
           /\ Get(file, key, Text(d)).says = JsonStr(Tokens(file), key, d)
           /\ \/ JsonStr(Tokens(file), key, d) = d /\ \A e : Get(file, key, e) = e
              \/ /\ \A e : Get(file, key, e) = Text(JsonStr(Tokens(file), key, d))
                 /\ JsonStr(Tokens(file), key, d) \in Seq(STRING)
                 /\ \E i \in 1 .. Len(file) : file[i].value = Text(JsonStr(Tokens(file), key, d))
<1> DEFINE found == Found(Tokens(file), key)
           read == JsonStr(Tokens(file), key, d)
<1>1. key \in KeysRead
  BY DEF KeysRead
<1>2. read = IF found = <<>> THEN d ELSE found[1].says
  BY DEF JsonStr
<1>3. Text(d).is = "text" /\ Text(d).says = d
  BY DEF Text
<1> HIDE DEF read
<1>4. CASE found = <<>> /\ \A e : Get(file, key, e) = e
  BY <1>2, <1>3, <1>4 DEF read
<1>5. CASE \E i \in 1 .. Len(file) :
                /\ found = <<file[i].value>> /\ \A e : Get(file, key, e) = file[i].value
                /\ file[i].value \in Values /\ (file[i].value.is = "text" <=> key \in TextKeys)
  <2>1. PICK i \in 1 .. Len(file) :
                /\ found = <<file[i].value>> /\ \A e : Get(file, key, e) = file[i].value
                /\ file[i].value \in Values /\ (file[i].value.is = "text" <=> key \in TextKeys)
    BY <1>5
  <2> DEFINE v == file[i].value
  <2>2. v \in Values /\ v.is = "text"
    BY <2>1
  <2> HIDE DEF v
  <2>3. v \in [is : {"text"}, says : Seq(STRING)]
    BY <2>2 DEF Values
  <2>4. v = Text(v.says) /\ v.says \in Seq(STRING)
    BY <2>3 DEF Text
  <2>5. found = <<v>> /\ \A e : Get(file, key, e) = v
    BY <2>1 DEF v
  <2> HIDE DEF found
  <2>6. read = v.says
    <3>1. found # <<>> /\ found[1] = v
      BY <2>5
    <3> QED BY <1>2, <3>1
  <2>7. \A e : Get(file, key, e) = Text(read)
    BY <2>4, <2>5, <2>6
  <2>8. \E j \in 1 .. Len(file) : file[j].value = Text(read)
    BY <2>4, <2>6 DEF v
  <2>9. Get(file, key, Text(d)).is = "text" /\ Get(file, key, Text(d)).says = read
    BY <2>2, <2>5, <2>6
  <2>10. read \in Seq(STRING)
    BY <2>4, <2>6
  <2> QED BY <2>7, <2>8, <2>9, <2>10 DEF read
<1> QED BY <1>1, <1>4, <1>5, ReadIs

LEMMA NumberIs ==
    ASSUME NEW file \in Seq(Fields), Distinct(file), Plain(file), NEW key \in KeysRead, NEW d \in Nat
    PROVE  /\ JsonU64(Tokens(file), key, d) =
                LET asked == Get(file, key, Number(d)) IN IF asked.is = "number" THEN asked.says ELSE d
           /\ JsonU64(Tokens(file), key, d) \in Nat
           /\ \/ JsonU64(Tokens(file), key, d) = d
              \/ \E f \in Fields : /\ f.key = key /\ f.value.is = "number"
                                   /\ f.value.says = JsonU64(Tokens(file), key, d)
<1> DEFINE found == Found(Tokens(file), key)
           read == JsonU64(Tokens(file), key, d)
<1>1. read = IF found # <<>> /\ found[1].is = "number" THEN found[1].says ELSE d
  BY DEF JsonU64
<1>2. Number(d).is = "number" /\ Number(d).says = d
  BY DEF Number
<1> HIDE DEF read
<1>3. CASE found = <<>> /\ \A e : Get(file, key, e) = e
  BY <1>1, <1>2, <1>3 DEF read
<1>4. CASE \E i \in 1 .. Len(file) :
                /\ found = <<file[i].value>> /\ \A e : Get(file, key, e) = file[i].value
                /\ file[i] \in Fields /\ file[i].key = key /\ file[i].value \in Values
  <2>1. PICK i \in 1 .. Len(file) :
                /\ found = <<file[i].value>> /\ \A e : Get(file, key, e) = file[i].value
                /\ file[i] \in Fields /\ file[i].key = key /\ file[i].value \in Values
    BY <1>4
  <2> DEFINE v == file[i].value
  <2>2. v \in Values /\ found = <<v>> /\ Get(file, key, Number(d)) = v
    BY <2>1
  <2> HIDE DEF found, v
  <2>3. read = IF v.is = "number" THEN v.says ELSE d
    <3>1. found # <<>> /\ found[1] = v
      BY <2>2
    <3> QED BY <1>1, <3>1
  <2>4. v.is = "number" => v.says \in Nat
    BY <2>2 DEF Values
  <2>5. read \in Nat
    BY <2>3, <2>4
  <2>6. read = d \/ (v.is = "number" /\ v.says = read)
    BY <2>3
  <2>7. read = d \/ \E f \in Fields : f.key = key /\ f.value.is = "number" /\ f.value.says = read
    BY <2>1, <2>6 DEF v
  <2> QED BY <2>2, <2>3, <2>5, <2>7 DEF read
<1> QED BY <1>3, <1>4, ReadIs

LEMMA BoolIs ==
    ASSUME NEW file \in Seq(Fields), Distinct(file), Plain(file), NEW key \in KeysRead
    PROVE  JsonBool(Tokens(file), key, FALSE) <=> Get(file, key, Word("false")) = Word("true")
<1> DEFINE found == Found(Tokens(file), key)
           read == JsonBool(Tokens(file), key, FALSE)
<1>1. read <=> found # <<>> /\ found[1].is = "word" /\ found[1].says = "true"
  BY DEF JsonBool
<1>2. Word("false") # Word("true")
  <2>1. Word("false").says = "false" /\ Word("true").says = "true"
    BY DEF Word
  <2> QED BY <2>1
<1> HIDE DEF read
<1>3. CASE found = <<>> /\ \A e : Get(file, key, e) = e
  BY <1>1, <1>2, <1>3 DEF read
<1>4. CASE \E i \in 1 .. Len(file) :
                /\ found = <<file[i].value>> /\ \A e : Get(file, key, e) = file[i].value
                /\ file[i].value \in Values
  <2>1. PICK i \in 1 .. Len(file) :
                /\ found = <<file[i].value>> /\ \A e : Get(file, key, e) = file[i].value
                /\ file[i].value \in Values
    BY <1>4
  <2> DEFINE v == file[i].value
             given == Get(file, key, Word("false"))
  <2>2. v \in Values /\ found = <<v>> /\ given = v
    BY <2>1
  <2> HIDE DEF found, v, given
  <2>3. read <=> v.is = "word" /\ v.says = "true"
    <3>1. found # <<>> /\ found[1] = v
      BY <2>2
    <3> QED BY <1>1, <3>1
  <2>4. v.is = "word" /\ v.says = "true" <=> v = Word("true")
    <3>1. Word("true").is = "word" /\ Word("true").says = "true"
      BY DEF Word
    <3>2. ASSUME v.is = "word", v.says = "true" PROVE v = Word("true")
      <4>1. v \in [is : {"word"}, says : STRING]
        BY <2>2, <3>2 DEF Values
      <4> QED BY <3>2, <4>1 DEF Word
    <3> QED BY <3>1, <3>2
  <2> QED BY <2>2, <2>3, <2>4 DEF read, given
<1> QED BY ZenonT(60), <1>3, <1>4, ReadIs

--------------------------------------------------------------------------------
(* What is built of it.                                                    *)

LEMMA PowersAre ==
    /\ Powers \subseteq Nat \ {0}
    /\ 2 ^ (SizeBits - 1) \in Powers /\ 8 <= 2 ^ (SizeBits - 1)
<1>1. SizeBits \in Nat /\ SizeBits - 1 \in Nat /\ SizeBits - 1 >= 8
  BY ConfigAssumption
<1>2. ASSUME NEW i \in 0 .. SizeBits - 1 PROVE 2 ^ i \in Nat /\ 2 ^ i > i
  <2>1. i \in Nat
    BY <1>1
  <2> QED BY <2>1, PowerIsSubsets, PowerExceeds
<1>3. Powers \subseteq Nat \ {0}
  <2>1. ASSUME NEW p \in Powers PROVE p \in Nat \ {0}
    <3>1. PICK i \in 0 .. SizeBits - 1 : p = 2 ^ i
      BY DEF Powers
    <3>2. i >= 0 /\ p \in Nat /\ p > i
      BY <1>1, <1>2, <3>1
    <3> QED BY <3>2
  <2> QED BY <2>1
<1>4. SizeBits - 1 \in 0 .. SizeBits - 1
  BY <1>1
<1>5. 2 ^ (SizeBits - 1) \in Powers
  BY <1>4 DEF Powers
<1>6. 8 <= 2 ^ (SizeBits - 1)
  <2> DEFINE top == 2 ^ (SizeBits - 1)
  <2>1. top \in Nat /\ top > SizeBits - 1
    BY <1>2, <1>4
  <2> HIDE DEF top
  <2>2. 8 <= top
    BY <1>1, <2>1
  <2> QED BY <2>2 DEF top
<1> QED BY <1>3, <1>5, <1>6

LEMMA PowerForIs ==
    ASSUME NEW n \in Nat, n <= 2 ^ (SizeBits - 1)
    PROVE  PowerFor(n) \in Powers /\ PowerFor(n) >= n
<1> DEFINE S == {p \in Powers : p >= n}
           top == 2 ^ (SizeBits - 1)
<1>1. top \in Powers /\ Powers \subseteq Nat
  BY PowersAre
<1>2. n <= top
  OBVIOUS
<1> HIDE DEF top
<1>3. top \in S
  BY <1>1, <1>2
<1>4. S \subseteq Nat /\ S # {}
  BY <1>1, <1>3
<1> HIDE DEF S
<1>5. Min(S) \in S
  BY <1>4, MinOfNats
<1>6. PowerFor(n) = Min(S)
  BY DEF PowerFor, S
<1> QED BY <1>5, <1>6 DEF S

LEMMA MaxOfTwo ==
    ASSUME NEW a \in Nat, NEW b \in Nat
    PROVE  /\ Max({a, b}) \in Nat /\ Max({a, b}) >= a /\ Max({a, b}) >= b
           /\ Max({a, b}) = a \/ Max({a, b}) = b
<1>1. \E x \in {a, b} : \A y \in {a, b} : x >= y
  <2>1. CASE a >= b
    BY <2>1
  <2>2. CASE b >= a
    BY <2>2
  <2> QED BY <2>1, <2>2
<1>2. Max({a, b}) \in {a, b} /\ \A y \in {a, b} : Max({a, b}) >= y
  BY <1>1 DEF Max
<1> QED BY <1>2

\* The sizes that are rounded up to a power of two have one that a word holds.
SizesFit ==
    \A f \in Fields : f.key \in SizeKeys /\ f.value.is = "number" => f.value.says <= 2 ^ (SizeBits - 1)

LEMMA BuiltIs ==
    ASSUME SizesFit, NEW file \in Seq(Fields), Distinct(file), Plain(file)
    PROVE  LET b == Built(Loaded(file))
           IN  /\ b.slots \in Powers \ {1} /\ b.shards \in Powers
               /\ b.depth > 0 /\ b.symbols > 0
<1> DEFINE t == Tokens(file)
           queue == JsonU64(t, <<"cache_queue">>, 8)
           shards == JsonU64(t, <<"cache_shards">>, 4)
           depth == JsonU64(t, <<"cache_depth">>, 16)
           top == 2 ^ (SizeBits - 1)
<1>1. /\ <<"cache_queue">> \in KeysRead /\ <<"cache_shards">> \in KeysRead
      /\ <<"cache_depth">> \in KeysRead
      /\ <<"cache_queue">> \in SizeKeys /\ <<"cache_shards">> \in SizeKeys
  BY DEF KeysRead, SizeKeys
<1>2. queue \in Nat /\ shards \in Nat /\ depth \in Nat
  BY <1>1, NumberIs
<1>3. top \in Nat /\ top >= 8
  BY PowersAre
<1>4. queue <= top
  <2>1. \/ queue = 8
        \/ \E f \in Fields : f.key = <<"cache_queue">> /\ f.value.is = "number" /\ f.value.says = queue
    <3>1. <<"cache_queue">> \in KeysRead /\ 8 \in Nat
      BY <1>1
    <3> QED BY <3>1, NumberIs
  <2>2. ASSUME NEW f \in Fields, f.key = <<"cache_queue">>, f.value.is = "number", f.value.says = queue
        PROVE  queue <= top
    BY <1>1, <2>2 DEF SizesFit
  <2> HIDE DEF queue, top
  <2> QED BY <1>3, <2>1, <2>2
<1>5. shards <= top
  <2>1. \/ shards = 4
        \/ \E f \in Fields : f.key = <<"cache_shards">> /\ f.value.is = "number" /\ f.value.says = shards
    <3>1. <<"cache_shards">> \in KeysRead /\ 4 \in Nat
      BY <1>1
    <3> QED BY <3>1, NumberIs
  <2>2. ASSUME NEW f \in Fields, f.key = <<"cache_shards">>, f.value.is = "number", f.value.says = shards
        PROVE  shards <= top
    BY <1>1, <2>2 DEF SizesFit
  <2> HIDE DEF shards, top
  <2> QED BY <1>3, <2>1, <2>2
<1>6. /\ Built(Loaded(file)).slots = PowerFor(Max({queue, 2}))
      /\ Built(Loaded(file)).shards = PowerFor(Max({shards, 1}))
      /\ Built(Loaded(file)).depth = Max({depth, 1})
      /\ Built(Loaded(file)).symbols = Max({16, 1})
  <2>1. /\ Loaded(file).queue = queue /\ Loaded(file).shards = shards /\ Loaded(file).depth = depth
        /\ Loaded(file).symbols = 16
    BY DEF Loaded, Defaults
  <2> HIDE DEF queue, shards, depth
  <2> QED BY <2>1 DEF Built
<1> HIDE DEF queue, shards, depth, top
<1>7. PowerFor(Max({queue, 2})) \in Powers \ {1}
  <2> DEFINE m == Max({queue, 2})
  <2>1. m \in Nat /\ m >= 2 /\ m <= top
    BY <1>2, <1>3, <1>4, MaxOfTwo
  <2> HIDE DEF m
  <2>2. PowerFor(m) \in Powers /\ PowerFor(m) >= m
    BY <2>1, PowerForIs DEF top
  <2>3. PowerFor(m) # 1
    BY <2>1, <2>2, PowersAre
  <2> QED BY <2>2, <2>3 DEF m
<1>8. PowerFor(Max({shards, 1})) \in Powers
  <2> DEFINE m == Max({shards, 1})
  <2>1. m \in Nat /\ m <= top
    BY <1>2, <1>3, <1>5, MaxOfTwo
  <2> HIDE DEF m
  <2>2. PowerFor(m) \in Powers
    BY <2>1, PowerForIs DEF top
  <2> QED BY <2>2 DEF m
<1>9. Max({depth, 1}) > 0 /\ Max({16, 1}) > 0
  <2>1. /\ Max({depth, 1}) \in Nat /\ Max({depth, 1}) >= 1
        /\ Max({16, 1}) \in Nat /\ Max({16, 1}) >= 1
    BY <1>2, MaxOfTwo
  <2> QED BY <2>1
<1> QED BY <1>6, <1>7, <1>8, <1>9

--------------------------------------------------------------------------------
(* The file as it is written.                                              *)

Written == cfFile \in Seq(Fields) /\ Distinct(cfFile)

\* Reading one file, all of it: nothing else is needed of the run.
LEMMA WrittenIsRead ==
    ASSUME SizesFit, Written
    PROVE  ConfigIsWhatItSays
<1> DEFINE c == Loaded(cfFile)
           t == Tokens(cfFile)
           env == JsonStr(t, <<"env">>, <<"dev">>)
           bus == JsonStr(t, <<"bus_path">>, <<"var", "dev", "bus">>)
           watch == JsonStr(t, <<"watch_path">>, Beside(bus))
           symbol == JsonStr(t, <<"symbol">>, <<"B", "T">>)
           orders == JsonBool(t, <<"allow_orders">>, FALSE)
           queue == JsonU64(t, <<"cache_queue">>, 8)
           given == Get(cfFile, <<"allow_orders">>, Word("false")) = Word("true")
<1> SUFFICES ASSUME ~Decoy
             PROVE  /\ Says(<<"env">>, "text", c.env, Defaults.env)
                    /\ Says(<<"symbol">>, "text", c.symbol, Defaults.symbol)
                    /\ Says(<<"cache_queue">>, "number", c.queue, Defaults.queue)
                    /\ c.orders <=> given
                    /\ (\A i \in DOMAIN cfFile : cfFile[i].value # Text(<<>>)) => c.watch = AdapterWatch(cfFile)
                    /\ Guarded(cfFile, cfAllowed) => ~Validates(c, cfAllowed)
                    /\ Validates(c, cfAllowed) =>
                        /\ c.ring > 0 /\ Built(c).slots \in Powers \ {1}
                        /\ Built(c).shards \in Powers /\ Built(c).depth > 0 /\ Built(c).symbols > 0
                        /\ c.elevated < c.saturated
                        /\ Len(c.symbol) \in 1 .. SymbolLen
  BY DEF ConfigIsWhatItSays
<1>1. cfFile \in Seq(Fields) /\ Distinct(cfFile) /\ DOMAIN cfFile = 1 .. Len(cfFile)
  BY DEF Written
<1>2. Plain(cfFile)
  BY <1>1 DEF Decoy, Plain
<1>3. /\ <<"env">> \in TextKeys /\ <<"bus_path">> \in TextKeys /\ <<"watch_path">> \in TextKeys
      /\ <<"symbol">> \in TextKeys
      /\ <<"cache_queue">> \in KeysRead /\ <<"allow_orders">> \in KeysRead
  BY DEF TextKeys, SizeKeys, KeysRead
<1>4. /\ c.env = env /\ c.bus = bus /\ c.watch = watch /\ c.symbol = symbol /\ c.orders = orders
      /\ c.queue = queue /\ Defaults.env = <<"dev">> /\ Defaults.symbol = <<"B", "T">> /\ Defaults.queue = 8
  BY DEF Loaded, Defaults
<1>5. c.ring = JsonU64(t, <<"ring_capacity">>, 4) % WordSize
  BY DEF Loaded, Defaults
<1> HIDE DEF c
<1>6. Says(<<"env">>, "text", c.env, Defaults.env)
  <2>1. Get(cfFile, <<"env">>, Text(<<"dev">>)).is = "text" /\ Get(cfFile, <<"env">>, Text(<<"dev">>)).says = env
    BY <1>1, <1>2, <1>3, TextIs
  <2> HIDE DEF env
  <2> QED BY <1>4, <2>1 DEF Says, Text
<1>7. Says(<<"symbol">>, "text", c.symbol, Defaults.symbol)
  <2>1. /\ Get(cfFile, <<"symbol">>, Text(<<"B", "T">>)).is = "text"
        /\ Get(cfFile, <<"symbol">>, Text(<<"B", "T">>)).says = symbol
    BY <1>1, <1>2, <1>3, TextIs
  <2> HIDE DEF symbol
  <2> QED BY <1>4, <2>1 DEF Says, Text
<1>8. Says(<<"cache_queue">>, "number", c.queue, Defaults.queue)
  <2> DEFINE asked == Get(cfFile, <<"cache_queue">>, Number(8))
  <2>1. queue = IF asked.is = "number" THEN asked.says ELSE 8
    BY <1>1, <1>2, <1>3, NumberIs
  <2> HIDE DEF queue
  <2> QED BY <1>4, <2>1 DEF Says, Number
<1>9. orders <=> given
  BY <1>1, <1>2, <1>3, BoolIs
<1>10. ASSUME \A i \in DOMAIN cfFile : cfFile[i].value # Text(<<>>)
       PROVE  watch = AdapterWatch(cfFile)
  <2> DEFINE explicit == Get(cfFile, <<"watch_path">>, Text(<<>>)).says
             beside == Front(Get(cfFile, <<"bus_path">>, Text(<<"var", "dev", "bus">>)).says) \o <<"watch.txt">>
  <2>1. AdapterWatch(cfFile) = IF explicit # <<>> THEN explicit ELSE beside
    BY DEF AdapterWatch
  <2>2. beside = Beside(bus)
    <3>1. Get(cfFile, <<"bus_path">>, Text(<<"var", "dev", "bus">>)).says = bus
      BY <1>1, <1>2, <1>3, TextIs
    <3> HIDE DEF bus
    <3> QED BY <3>1 DEF Beside
  <2> HIDE DEF beside, bus
  <2>3. \/ watch = Beside(bus) /\ \A e : Get(cfFile, <<"watch_path">>, e) = e
        \/ /\ \A e : Get(cfFile, <<"watch_path">>, e) = Text(watch)
           /\ \E i \in 1 .. Len(cfFile) : cfFile[i].value = Text(watch)
    BY <1>1, <1>2, <1>3, TextIs
  <2> HIDE DEF watch
  <2>4. \A x : Text(x).says = x
    BY DEF Text
  <2>5. CASE watch = Beside(bus) /\ \A e : Get(cfFile, <<"watch_path">>, e) = e
    <3>1. explicit = <<>>
      BY <2>4, <2>5
    <3> HIDE DEF explicit
    <3> QED BY <2>1, <2>2, <2>5, <3>1
  <2>6. CASE /\ \A e : Get(cfFile, <<"watch_path">>, e) = Text(watch)
             /\ \E i \in 1 .. Len(cfFile) : cfFile[i].value = Text(watch)
    <3>1. explicit = watch
      BY <2>4, <2>6
    <3>2. watch # <<>>
      BY <1>1, <1>10, <2>6
    <3> HIDE DEF explicit
    <3> QED BY <2>1, <3>1, <3>2
  <2> QED BY <2>3, <2>5, <2>6
<1>11. ASSUME Guarded(cfFile, cfAllowed) PROVE ~Validates(c, cfAllowed)
  <2> DEFINE said == Get(cfFile, <<"env">>, Text(<<>>))
  <2>1. \/ said = Text(<<"prod">>) /\ ~cfAllowed
        \/ said = Text(<<"dev">>) /\ given
    BY <1>11 DEF Guarded
  <2>2. \/ env = <<"dev">> /\ said = Text(<<>>)
        \/ said = Text(env)
    <3>1. \/ env = <<"dev">> /\ \A e : Get(cfFile, <<"env">>, e) = e
          \/ \A e : Get(cfFile, <<"env">>, e) = Text(env)
      BY <1>1, <1>2, <1>3, TextIs
    <3> HIDE DEF env
    <3> QED BY <3>1
  <2> HIDE DEF env, said, given
  <2>3. \A x, y : Text(x) = Text(y) => x = y
    <3>1. \A x : Text(x).says = x
      BY DEF Text
    <3> QED BY <3>1
  <2>4. <<>> # <<"prod">> /\ <<>> # <<"dev">>
    OBVIOUS
  <2>5. \/ env = <<"prod">> /\ ~cfAllowed
        \/ env = <<"dev">> /\ given
    BY <2>1, <2>2, <2>3, <2>4
  <2>6. c.env = env /\ (c.orders <=> given)
    BY <1>4, <1>9
  <2> QED BY <2>5, <2>6 DEF Validates
<1>12. ASSUME Validates(c, cfAllowed)
       PROVE  /\ c.ring > 0 /\ c.elevated < c.saturated /\ Len(c.symbol) \in 1 .. SymbolLen
  <2>1. c.symbol # <<>> /\ Len(c.symbol) <= SymbolLen - 1 /\ c.ring \in Powers /\ c.elevated < c.saturated
    BY <1>12 DEF Validates
  <2>2. c.ring > 0
    <3>1. \A p \in Powers : p > 0
      BY PowersAre
    <3> QED BY <2>1, <3>1
  <2>4. Len(symbol) \in Nat /\ (symbol # <<>> => Len(symbol) # 0)
    <3>1. symbol = <<"B", "T">> \/ symbol \in Seq(STRING)
      BY <1>1, <1>2, <1>3, TextIs
    <3> HIDE DEF symbol
    <3>2. CASE symbol = <<"B", "T">>
      BY <3>2
    <3>3. CASE symbol \in Seq(STRING)
      BY <3>3
    <3> QED BY <3>1, <3>2, <3>3
  <2>5. Len(c.symbol) \in 1 .. SymbolLen
    <3>1. Len(symbol) <= SymbolLen - 1 /\ symbol # <<>>
      BY <1>4, <2>1
    <3> HIDE DEF symbol
    <3>2. Len(symbol) \in 1 .. SymbolLen
      BY <2>4, <3>1, ConfigAssumption
    <3> QED BY <1>4, <3>2 DEF symbol
  <2> QED BY <2>1, <2>2, <2>5
<1>13. /\ Built(c).slots \in Powers \ {1} /\ Built(c).shards \in Powers
       /\ Built(c).depth > 0 /\ Built(c).symbols > 0
  BY <1>1, <1>2, BuiltIs DEF c
<1> HIDE DEF orders, given, watch
<1>14. (c.orders <=> given) /\ c.watch = watch
  BY <1>4, <1>9
<1> QED BY <1>6, <1>7, <1>8, <1>10, <1>11, <1>12, <1>13, <1>14

\* However a configuration is written, field by field, while every text in it is
\* no key and every size fits a word: the flat reader reads it as the object it
\* stands for, the window and the adapter look for one watch file, what obctl
\* refuses no program loads, and what is accepted can be built.
THEOREM ConfigStaysWhatItSays ==
    ASSUME SizesFit
    PROVE  ConfigInit /\ [][ConfigNext]_configVars => []ConfigIsWhatItSays
<1>1. ConfigInit => Written
  <2>1. SUFFICES ASSUME cfFile = <<>> PROVE Written
    BY DEF ConfigInit
  <2>2. cfFile \in Seq(Fields) /\ 1 .. Len(cfFile) = {}
    BY <2>1
  <2> QED BY <2>2 DEF Written, Distinct
<1>2. Written /\ [ConfigNext]_configVars => Written'
  <2> SUFFICES ASSUME Written, [ConfigNext]_configVars PROVE Written'
    OBVIOUS
  <2>1. CASE UNCHANGED configVars
    BY <2>1 DEF configVars, Written, Distinct
  <2>2. ASSUME NEW f \in Fields, AddField(f) PROVE Written'
    <3>1. cfFile \in Seq(Fields) /\ Distinct(cfFile)
      BY DEF Written
    <3>2. cfFile' = Append(cfFile, f) /\ \A i \in DOMAIN cfFile : cfFile[i].key # f.key
      BY <2>2 DEF AddField
    <3>3. /\ cfFile' \in Seq(Fields) /\ Len(cfFile') = Len(cfFile) + 1 /\ Len(cfFile) \in Nat
          /\ DOMAIN cfFile = 1 .. Len(cfFile)
          /\ cfFile'[Len(cfFile) + 1] = f /\ \A i \in 1 .. Len(cfFile) : cfFile'[i] = cfFile[i]
      BY <3>1, <3>2
    <3>4. ASSUME NEW i \in 1 .. Len(cfFile'), NEW j \in 1 .. Len(cfFile'), cfFile'[i].key = cfFile'[j].key
          PROVE  i = j
      <4>1. /\ i \in 1 .. Len(cfFile) \/ i = Len(cfFile) + 1
            /\ j \in 1 .. Len(cfFile) \/ j = Len(cfFile) + 1
        BY <3>3
      <4> QED BY <3>1, <3>2, <3>3, <3>4, <4>1 DEF Distinct
    <3>5. Distinct(cfFile')
      BY <3>4 DEF Distinct
    <3> QED BY <3>3, <3>5 DEF Written
  <2> QED BY <2>1, <2>2 DEF ConfigNext
<1>3. Written => ConfigIsWhatItSays
  BY WrittenIsRead
<1> QED BY <1>1, <1>2, <1>3, PTL

--------------------------------------------------------------------------------
(* The powers of ten.                                                      *)

LEMMA TenIs == Ten[0] = 1 /\ \A k \in Nat : Ten[k] \in Nat \ {0} /\ Ten[k + 1] = 10 * Ten[k]
<1> DEFINE f == Ten
<1>1. f = CHOOSE g : g = [k \in Nat |-> IF k = 0 THEN 1 ELSE 10 * g[k - 1]]
  BY DEF Ten
<1>2. 10 \in Nat \ {0}
  OBVIOUS
<1> HIDE DEF f
<1>3. f[0] = 1 /\ \A k \in Nat : f[k] \in Nat \ {0} /\ f[k + 1] = 10 * f[k]
  BY <1>1, <1>2, PowersOf
<1> QED BY <1>3 DEF f

LEMMA TenSum ==
    ASSUME NEW a \in Nat, NEW b \in Nat
    PROVE  Ten[a + b] = Ten[a] * Ten[b]
<1> DEFINE S == {i \in 0 .. b : Ten[a + i] = Ten[a] * Ten[i]}
<1>1. Ten[a] \in Nat /\ Ten[0] = 1 /\ a + 0 = a
  BY TenIs
<1>2. 0 \in S
  BY <1>1
<1>3. ASSUME NEW i \in 0 .. b - 1, i \in S PROVE i + 1 \in S
  <2>1. i \in Nat /\ a + i \in Nat /\ a + (i + 1) = (a + i) + 1 /\ i + 1 \in 0 .. b
    OBVIOUS
  <2>2. Ten[i] \in Nat /\ Ten[i + 1] = 10 * Ten[i] /\ Ten[(a + i) + 1] = 10 * Ten[a + i]
    BY <2>1, TenIs
  <2>3. Ten[a + i] = Ten[a] * Ten[i]
    BY <1>3
  <2> DEFINE x == Ten[a]
             y == Ten[i]
  <2>4. x \in Nat /\ y \in Nat
    BY <1>1, <2>2
  <2>5. Ten[a + (i + 1)] = 10 * (x * y) /\ Ten[i + 1] = 10 * y
    BY <2>1, <2>2, <2>3
  <2> HIDE DEF x, y
  <2>6. 10 * (x * y) = x * (10 * y)
    BY <2>4
  <2>7. Ten[a + (i + 1)] = Ten[a] * Ten[i + 1]
    BY <2>5, <2>6 DEF x
  <2> QED BY <2>1, <2>7
<1>4. b \in S
  <2>1. b \in 0 .. b
    OBVIOUS
  <2> HIDE DEF S
  <2> QED BY <1>2, <1>3, <2>1, Climb
<1> QED BY <1>4

LEMMA TenGrows ==
    ASSUME NEW a \in Nat, NEW b \in Nat, a <= b
    PROVE  Ten[a] <= Ten[b] /\ (a < b => Ten[a] < Ten[b])
<1> DEFINE c == b - a
<1>1. c \in Nat /\ a + c = b
  OBVIOUS
<1> HIDE DEF c
<1>2. Ten[b] = Ten[a] * Ten[c]
  BY <1>1, TenSum
<1>3. Ten[a] \in Nat \ {0} /\ Ten[c] \in Nat \ {0}
  BY <1>1, TenIs
<1>4. c # 0 => Ten[c] >= 10
  <2>1. ASSUME c # 0 PROVE Ten[c] >= 10
    <3>1. c - 1 \in Nat /\ (c - 1) + 1 = c
      BY <1>1, <2>1
    <3>2. Ten[c - 1] \in Nat \ {0} /\ Ten[c] = 10 * Ten[c - 1]
      BY <3>1, TenIs
    <3> QED BY <3>2
  <2> QED BY <2>1
<1> DEFINE x == Ten[a]
           y == Ten[c]
<1>5. x \in Nat \ {0} /\ y \in Nat \ {0} /\ Ten[b] = x * y /\ (c # 0 => y >= 10)
  BY <1>2, <1>3, <1>4
<1> HIDE DEF x, y
<1>6. x * y >= x
  BY <1>5
<1>7. y >= 10 => x * y > x
  <2>1. ASSUME y >= 10 PROVE x * y > x
    <3> DEFINE z == y - 1
    <3>1. z \in Nat \ {0} /\ y = z + 1
      BY <1>5, <2>1
    <3> HIDE DEF z
    <3>2. x * y = x * z + x
      BY <1>5, <3>1
    <3>3. x * z \in Nat \ {0}
      BY <1>5, <3>1
    <3> QED BY <1>5, <3>2, <3>3
  <2> QED BY <2>1
<1> QED BY <1>1, <1>5, <1>6, <1>7 DEF x

LEMMA TenExceeds ==
    ASSUME NEW n \in Nat
    PROVE  n < Ten[n]
<1> DEFINE S == {i \in 0 .. n : i < Ten[i]}
<1>1. 0 \in S
  BY TenIs
<1>2. ASSUME NEW i \in 0 .. n - 1, i \in S PROVE i + 1 \in S
  <2>1. i \in Nat /\ i < Ten[i] /\ i + 1 \in 0 .. n
    BY <1>2
  <2>2. Ten[i] \in Nat /\ Ten[i + 1] = 10 * Ten[i]
    BY <2>1, TenIs
  <2>3. i + 1 < Ten[i + 1]
    BY <2>1, <2>2
  <2> QED BY <2>1, <2>3
<1>3. n \in S
  <2>1. n \in 0 .. n
    OBVIOUS
  <2> HIDE DEF S
  <2> QED BY <1>1, <1>2, <2>1, Climb
<1> QED BY <1>3

\* A quotient is the one number that leaves less than the divisor.
LEMMA QuotientIs ==
    ASSUME NEW a \in Nat \ {0}, NEW n \in Nat, NEW q \in Nat, NEW r \in Nat, n = q * a + r, r < a
    PROVE  n \div a = q /\ n % a = r
<1>1. n \div a \in Nat /\ n % a \in 0 .. a - 1 /\ n = a * (n \div a) + (n % a)
  OBVIOUS
<1> DEFINE p == n \div a
           s == n % a
<1>2. p \in Nat /\ s \in Nat /\ s < a /\ a * p + s = q * a + r
  BY <1>1
<1> HIDE DEF p, s
<1>3. p = q
  <2>1. CASE p < q
    <3> DEFINE d == q - p - 1
    <3>1. d \in Nat /\ q = p + 1 + d
      BY <1>2, <2>1
    <3> HIDE DEF d
    <3>2. q * a = a * p + a + d * a /\ d * a \in Nat /\ a * p \in Nat
      BY <1>2, <3>1
    <3> QED BY <1>2, <3>2
  <2>2. CASE q < p
    <3> DEFINE d == p - q - 1
    <3>1. d \in Nat /\ p = q + 1 + d
      BY <1>2, <2>2
    <3> HIDE DEF d
    <3>2. a * p = q * a + a + d * a /\ d * a \in Nat /\ q * a \in Nat
      BY <1>2, <3>1
    <3> QED BY <1>2, <3>2
  <2> QED BY <1>2, <2>1, <2>2
<1>4. s = r
  <2>1. a * p = q * a /\ a * p \in Nat
    BY <1>2, <1>3
  <2> QED BY <1>2, <2>1
<1> QED BY <1>3, <1>4 DEF p, s

LEMMA DivIs ==
    ASSUME NEW a \in Nat \ {0}, NEW n \in Nat
    PROVE  /\ n \div a \in Nat /\ n % a \in Nat /\ n % a < a
           /\ n = (n \div a) * a + (n % a)
  OBVIOUS

\* A digit more of a quotient.
LEMMA DivByTen ==
    ASSUME NEW a \in Nat \ {0}, NEW n \in Nat
    PROVE  n \div a = 10 * (n \div (10 * a)) + ((n \div a) % 10)
<1> DEFINE q == n \div a
           r == n % a
           p == q \div 10
           d == q % 10
<1>1. q \in Nat /\ r \in Nat /\ r < a /\ n = q * a + r
  BY DivIs
<1>2. p \in Nat /\ d \in Nat /\ d < 10 /\ q = p * 10 + d
  <2> HIDE DEF q
  <2> QED BY <1>1, DivIs
<1> HIDE DEF q, r, p, d
<1>3. 10 * a \in Nat \ {0}
  OBVIOUS
<1>4. n = p * (10 * a) + (d * a + r) /\ d * a + r \in Nat /\ d * a + r < 10 * a
  <2>1. n = (p * 10 + d) * a + r
    BY <1>1, <1>2
  <2>2. (p * 10 + d) * a = p * (10 * a) + d * a
    BY <1>2
  <2>3. d * a \in Nat /\ d * a <= 9 * a
    <3>1. d \in 0 .. 9
      BY <1>2
    <3> QED BY <3>1
  <2> QED BY <1>1, <1>2, <2>1, <2>2, <2>3
<1>5. n \div (10 * a) = p
  BY <1>2, <1>3, <1>4, QuotientIs
<1> QED BY <1>2, <1>5 DEF q, d

--------------------------------------------------------------------------------
(* The value of a sequence of digits.                                      *)

ReadTo(f, s) == f[0] = 0 /\ \A n \in 1 .. Len(s) : f[n] = 10 * f[n - 1] + s[n]

LEMMA ValueUnrolls ==
    ASSUME NEW s \in Seq(Nat)
    PROVE  \E f \in [0 .. Len(s) -> Nat] : ReadTo(f, s) /\ Value(s) = f[Len(s)]
<1> DEFINE N == Len(s)
           step == [p \in (1 .. N) \X Nat |-> 10 * p[2] + s[p[1]]]
<1>1. step \in [(1 .. N) \X Nat -> Nat]
  <2>1. ASSUME NEW p \in (1 .. N) \X Nat PROVE 10 * p[2] + s[p[1]] \in Nat
    <3>1. p[1] \in 1 .. N /\ p[2] \in Nat
      OBVIOUS
    <3>2. s[p[1]] \in Nat
      BY <3>1
    <3> QED BY <3>1, <3>2
  <2> QED BY <2>1
<1>2. N \in Nat /\ 0 \in Nat
  OBVIOUS
<1>3. PICK f \in [0 .. N -> Nat] : Unrolled(f, N, 0, step)
  <2> HIDE DEF step, N
  <2> QED BY <1>1, <1>2, Recursion
<1>4. f[0] = 0
  BY <1>3 DEF Unrolled
<1>5. ASSUME NEW n \in 1 .. N PROVE f[n] = 10 * f[n - 1] + s[n]
  <2>1. f[n] = step[<<n, f[n - 1]>>]
    BY <1>3 DEF Unrolled
  <2>2. n - 1 \in 0 .. N
    BY <1>2
  <2>3. f[n - 1] \in Nat
    BY <2>2
  <2>4. <<n, f[n - 1]>> \in (1 .. N) \X Nat
    BY <2>3
  <2> QED BY <2>1, <2>4
<1> DEFINE Body(g) == [n \in 0 .. N |-> IF n = 0 THEN 0 ELSE 10 * g[n - 1] + s[n]]
           read == CHOOSE g : g = Body(g)
<1>6. f = Body(f)
  <2>1. ASSUME NEW n \in 0 .. N PROVE f[n] = IF n = 0 THEN 0 ELSE 10 * f[n - 1] + s[n]
    <3>1. CASE n = 0
      BY <1>4, <3>1
    <3>2. CASE n # 0
      <4>1. n \in 1 .. N
        BY <1>2, <3>2
      <4> HIDE DEF N
      <4> QED BY <1>5, <3>2, <4>1
    <3> QED BY <3>1, <3>2
  <2>2. Body(f) = [n \in 0 .. N |-> f[n]]
    BY <2>1
  <2>3. f = [n \in 0 .. N |-> f[n]]
    OBVIOUS
  <2> QED BY <2>2, <2>3
<1>7. read = Body(read)
  <2> HIDE DEF Body
  <2> QED BY <1>6
<1>8. Value(s) = read[N]
  BY DEF Value
<1>9. read[0] = 0 /\ \A n \in 1 .. N : read[n] = 10 * read[n - 1] + s[n]
  <2>1. ASSUME NEW n \in 0 .. N PROVE read[n] = IF n = 0 THEN 0 ELSE 10 * read[n - 1] + s[n]
    <3> HIDE DEF read
    <3> QED BY <1>7
  <2> HIDE DEF read
  <2> QED BY <1>2, <2>1
<1> HIDE DEF read, step, Body
<1> DEFINE S == {n \in 0 .. N : read[n] = f[n]}
<1>10. 0 \in S
  BY <1>2, <1>4, <1>9
<1>11. ASSUME NEW n \in 0 .. N - 1, n \in S PROVE n + 1 \in S
  <2>1. n + 1 \in 1 .. N /\ (n + 1) - 1 = n /\ n + 1 \in 0 .. N
    BY <1>2
  <2>2. read[n] = f[n]
    BY <1>11
  <2>3. read[n + 1] = f[n + 1]
    BY <1>5, <1>9, <2>1, <2>2
  <2> QED BY <2>1, <2>3
<1>12. N \in S
  <2>1. N \in 0 .. N
    BY <1>2
  <2> HIDE DEF S, N
  <2> QED BY <1>2, <1>10, <1>11, <2>1, Climb
<1>13. read[N] = f[N]
  BY <1>12
<1> QED BY <1>4, <1>5, <1>8, <1>13 DEF ReadTo

\* Two read alike as far as they are the same.
LEMMA ReadAlike ==
    ASSUME NEW s \in Seq(Nat), NEW t \in Seq(Nat), NEW f, NEW g, ReadTo(f, s), ReadTo(g, t),
           NEW n \in Nat, n <= Len(s), n <= Len(t), \A i \in 1 .. n : s[i] = t[i]
    PROVE  f[n] = g[n]
<1> DEFINE S == {k \in 0 .. n : f[k] = g[k]}
<1>1. 0 \in S
  BY DEF ReadTo
<1>2. ASSUME NEW k \in 0 .. n - 1, k \in S PROVE k + 1 \in S
  <2>1. k + 1 \in 1 .. n /\ k + 1 \in 1 .. Len(s) /\ k + 1 \in 1 .. Len(t) /\ (k + 1) - 1 = k
    OBVIOUS
  <2>2. f[k] = g[k] /\ k + 1 \in 0 .. n /\ s[k + 1] = t[k + 1]
    BY <1>2, <2>1
  <2>3. f[k + 1] = 10 * f[k] + s[k + 1]
    BY <2>1 DEF ReadTo
  <2>4. g[k + 1] = 10 * g[k] + t[k + 1]
    BY <2>1 DEF ReadTo
  <2> QED BY <2>2, <2>3, <2>4
<1>3. n \in S
  <2>1. n \in 0 .. n
    OBVIOUS
  <2> HIDE DEF S
  <2> QED BY <1>1, <1>2, <2>1, Climb
<1> QED BY <1>3

LEMMA ValueIsNat ==
    ASSUME NEW s \in Seq(Nat)
    PROVE  Value(s) \in Nat
<1>1. PICK f \in [0 .. Len(s) -> Nat] : ReadTo(f, s) /\ Value(s) = f[Len(s)]
  BY ValueUnrolls
<1>2. Len(s) \in 0 .. Len(s)
  OBVIOUS
<1> QED BY <1>1, <1>2

LEMMA ValueOfNone == Value(<<>>) = 0
<1>1. <<>> \in Seq(Nat) /\ Len(<<>>) = 0
  OBVIOUS
<1>2. PICK f \in [0 .. Len(<<>>) -> Nat] : ReadTo(f, <<>>) /\ Value(<<>>) = f[Len(<<>>)]
  BY <1>1, ValueUnrolls
<1> QED BY <1>1, <1>2 DEF ReadTo

LEMMA ValueAppend ==
    ASSUME NEW s \in Seq(Nat), NEW d \in Nat
    PROVE  Value(Append(s, d)) = 10 * Value(s) + d
<1> DEFINE t == Append(s, d)
           n == Len(s)
<1>1. t \in Seq(Nat) /\ Len(t) = n + 1 /\ t[n + 1] = d /\ n \in Nat
  OBVIOUS
<1>2. \A i \in 1 .. n : s[i] = t[i]
  OBVIOUS
<1> HIDE DEF t
<1>3. PICK f \in [0 .. Len(s) -> Nat] : ReadTo(f, s) /\ Value(s) = f[Len(s)]
  BY ValueUnrolls
<1>4. PICK g \in [0 .. Len(t) -> Nat] : ReadTo(g, t) /\ Value(t) = g[Len(t)]
  BY <1>1, ValueUnrolls
<1>5. f[n] = g[n]
  <2>1. ReadTo(f, s) /\ ReadTo(g, t) /\ t \in Seq(Nat) /\ n \in Nat /\ n <= Len(s) /\ n <= Len(t)
    BY <1>1, <1>3, <1>4
  <2> HIDE DEF n
  <2> QED BY <1>2, <2>1, ReadAlike
<1>6. g[n + 1] = 10 * g[n] + d
  <2>1. n + 1 \in 1 .. Len(t) /\ (n + 1) - 1 = n
    BY <1>1
  <2> QED BY <1>1, <1>4, <2>1 DEF ReadTo
<1>7. Value(t) = 10 * Value(s) + d
  BY <1>1, <1>3, <1>4, <1>5, <1>6
<1> QED BY <1>7 DEF t

\* One behind another.
LEMMA ValueOfBoth ==
    ASSUME NEW s \in Seq(Nat), NEW t \in Seq(Nat)
    PROVE  Value(s \o t) = Value(s) * Ten[Len(t)] + Value(t)
<1> DEFINE P(k) == Value(s \o SubSeq(t, 1, k)) = Value(s) * Ten[k] + Value(SubSeq(t, 1, k))
           K == {k \in 0 .. Len(t) : P(k)}
<1>1. Value(s) \in Nat
  BY ValueIsNat
<1>2. 0 \in K
  <2>1. SubSeq(t, 1, 0) = <<>> /\ s \o <<>> = s
    OBVIOUS
  <2>2. Value(s) = Value(s) * Ten[0] + Value(<<>>)
    <3>1. Ten[0] = 1 /\ Value(<<>>) = 0
      BY TenIs, ValueOfNone
    <3> QED BY <1>1, <3>1
  <2>3. P(0)
    BY <2>1, <2>2
  <2>4. 0 \in 0 .. Len(t)
    OBVIOUS
  <2> QED BY <2>3, <2>4
<1>3. ASSUME NEW k \in 0 .. Len(t) - 1, k \in K PROVE k + 1 \in K
  <2> DEFINE u == SubSeq(t, 1, k)
             e == t[k + 1]
  <2>1. u \in Seq(Nat) /\ e \in Nat
    OBVIOUS
  <2>2. SubSeq(t, 1, k + 1) = Append(u, e)
    OBVIOUS
  <2>3. Value(s \o u) = Value(s) * Ten[k] + Value(u)
    BY <1>3
  <2>4. k \in Nat /\ k + 1 \in 0 .. Len(t)
    OBVIOUS
  <2> HIDE DEF u, e
  <2>5. s \o u \in Seq(Nat) /\ s \o Append(u, e) = Append(s \o u, e)
    BY SMTT(60), <2>1
  <2>6. Value(Append(s \o u, e)) = 10 * Value(s \o u) + e
    BY <2>1, <2>5, ValueAppend
  <2>7. Value(Append(u, e)) = 10 * Value(u) + e /\ Value(u) \in Nat
    BY <2>1, ValueAppend, ValueIsNat
  <2>8. Ten[k] \in Nat /\ Ten[k + 1] = 10 * Ten[k]
    BY <2>4, TenIs
  <2>9. 10 * (Value(s) * Ten[k] + Value(u)) + e = Value(s) * Ten[k + 1] + (10 * Value(u) + e)
    <3> DEFINE v == Value(s)
               x == Ten[k]
               w == Value(u)
    <3>1. v \in Nat /\ x \in Nat /\ w \in Nat /\ Ten[k + 1] = 10 * x
      BY <1>1, <2>7, <2>8
    <3> HIDE DEF v, x, w
    <3>2. 10 * (v * x + w) + e = v * (10 * x) + (10 * w + e)
      BY <2>1, <3>1
    <3> QED BY <3>1, <3>2 DEF v, x, w
  <2>10. P(k + 1)
    BY <2>2, <2>3, <2>5, <2>6, <2>7, <2>9
  <2> QED BY <2>4, <2>10
<1>4. Len(t) \in Nat /\ Len(t) \in 0 .. Len(t)
  OBVIOUS
<1>5. Len(t) \in K
  <2> HIDE DEF K
  <2> QED BY <1>2, <1>3, <1>4, Climb
<1>6. SubSeq(t, 1, Len(t)) = t
  OBVIOUS
<1> QED BY <1>5, <1>6

LEMMA ValueOfZeros ==
    ASSUME NEW s \in Seq(Nat), \A i \in 1 .. Len(s) : s[i] = 0
    PROVE  Value(s) = 0
<1>1. PICK f \in [0 .. Len(s) -> Nat] : ReadTo(f, s) /\ Value(s) = f[Len(s)]
  BY ValueUnrolls
<1> DEFINE S == {n \in 0 .. Len(s) : f[n] = 0}
<1>2. 0 \in S
  BY <1>1 DEF ReadTo
<1>3. ASSUME NEW n \in 0 .. Len(s) - 1, n \in S PROVE n + 1 \in S
  <2>1. n + 1 \in 1 .. Len(s) /\ (n + 1) - 1 = n /\ n + 1 \in 0 .. Len(s)
    OBVIOUS
  <2>2. f[n] = 0 /\ s[n + 1] = 0
    BY <1>3, <2>1
  <2>3. f[n + 1] = 10 * f[n] + s[n + 1]
    BY <1>1, <2>1 DEF ReadTo
  <2> QED BY <2>1, <2>2, <2>3
<1>4. Len(s) \in S
  <2>1. Len(s) \in Nat /\ Len(s) \in 0 .. Len(s)
    OBVIOUS
  <2> HIDE DEF S
  <2> QED BY <1>2, <1>3, <2>1, Climb
<1> QED BY <1>1, <1>4

--------------------------------------------------------------------------------
(* The digits of a number.                                                 *)

LEMMA LengthIs ==
    ASSUME NEW n \in Nat
    PROVE  LET length == CHOOSE c \in 1 .. n + 1 : n < Ten[c] /\ (c = 1 \/ Ten[c - 1] <= n)
           IN  length \in 1 .. n + 1 /\ n < Ten[length] /\ (length = 1 \/ Ten[length - 1] <= n)
<1> DEFINE S == {c \in 1 .. n + 1 : n < Ten[c]}
<1>1. n + 1 \in S
  <2>1. n + 1 \in Nat /\ n + 1 < Ten[n + 1] /\ Ten[n + 1] \in Nat
    BY TenExceeds, TenIs
  <2> QED BY <2>1
<1>2. S \subseteq Nat /\ S # {}
  BY <1>1
<1> HIDE DEF S
<1>3. PICK c \in S : \A d \in S : c <= d
  BY <1>2, LeastNat
<1>4. c \in 1 .. n + 1 /\ n < Ten[c]
  BY <1>3 DEF S
<1>5. ASSUME c # 1 PROVE Ten[c - 1] <= n
  <2>1. c - 1 \in 1 .. n + 1 /\ c - 1 \in Nat
    BY <1>4, <1>5
  <2>2. c - 1 \notin S
    BY <1>3, <1>4
  <2>3. Ten[c - 1] \in Nat
    BY <2>1, TenIs
  <2> QED BY <2>1, <2>2, <2>3 DEF S
<1> QED BY <1>4, <1>5

\* As many digits as are asked for, if they are enough; and they are the number.
LEMMA DigitsAre ==
    ASSUME NEW n \in Nat, NEW atLeast \in Nat
    PROVE  LET s == DigitsOf(n, atLeast)
           IN  /\ s \in Seq(Digits) /\ Len(s) >= 1 /\ Value(s) = n
               /\ n < Ten[atLeast] /\ atLeast >= 1 => Len(s) = atLeast
<1> DEFINE length == CHOOSE c \in 1 .. n + 1 : n < Ten[c] /\ (c = 1 \/ Ten[c - 1] <= n)
           count == Max({atLeast, length})
           s == [i \in 1 .. count |-> (n \div Ten[count - i]) % 10]
<1>1. DigitsOf(n, atLeast) = s
  BY DEF DigitsOf
<1>2. length \in 1 .. n + 1 /\ n < Ten[length] /\ (length = 1 \/ Ten[length - 1] <= n)
  BY LengthIs
<1> HIDE DEF length
<1>3. /\ count \in Nat /\ count >= atLeast /\ count >= length
      /\ count = atLeast \/ count = length
  <2>1. length \in Nat
    BY <1>2
  <2> QED BY <2>1, MaxOfTwo
<1> HIDE DEF count
<1>4. count >= 1 /\ n < Ten[count]
  <2>1. length \in Nat /\ Ten[length] <= Ten[count]
    BY <1>2, <1>3, TenGrows
  <2>2. Ten[length] \in Nat /\ Ten[count] \in Nat
    BY <1>3, <2>1, TenIs
  <2> QED BY <1>2, <1>3, <2>1, <2>2
<1>5. ASSUME n < Ten[atLeast], atLeast >= 1 PROVE count = atLeast
  <2>1. SUFFICES ASSUME count # atLeast PROVE FALSE
    OBVIOUS
  <2>2. count = length /\ length > atLeast /\ length # 1
    BY <1>2, <1>3, <1>5, <2>1
  <2>3. length - 1 \in Nat /\ atLeast <= length - 1
    BY <1>2, <2>2
  <2>4. Ten[atLeast] <= Ten[length - 1] /\ Ten[atLeast] \in Nat /\ Ten[length - 1] \in Nat
    BY <2>3, TenGrows, TenIs
  <2> QED BY <1>2, <1>5, <2>2, <2>4
<1>6. ASSUME NEW i \in 1 .. count
      PROVE  count - i \in Nat /\ Ten[count - i] \in Nat \ {0} /\ (n \div Ten[count - i]) % 10 \in Digits
  <2>1. count - i \in Nat
    BY <1>3
  <2>2. Ten[count - i] \in Nat \ {0}
    BY <2>1, TenIs
  <2>3. n \div Ten[count - i] \in Nat
    BY <2>2, DivIs
  <2> DEFINE q == n \div Ten[count - i]
  <2>4. q % 10 \in 0 .. 9
    <3>1. q \in Nat /\ 10 \in Nat \ {0}
      BY <2>3
    <3> HIDE DEF q
    <3>2. q % 10 \in Nat /\ q % 10 < 10
      BY <3>1, DivIs
    <3> QED BY <3>2
  <2> QED BY <2>1, <2>2, <2>4 DEF Digits
<1>7. s \in Seq(Digits) /\ Len(s) = count /\ \A i \in 1 .. count : s[i] = (n \div Ten[count - i]) % 10
  <2>1. s \in [1 .. count -> Digits]
    BY <1>6
  <2>2. \A i \in 1 .. count : s[i] = (n \div Ten[count - i]) % 10
    OBVIOUS
  <2> HIDE DEF s
  <2>3. s \in Seq(Digits) /\ Len(s) = count
    BY <1>3, <2>1
  <2> QED BY <2>2, <2>3
<1> HIDE DEF s
<1>8. s \in Seq(Nat)
  BY <1>7 DEF Digits
<1>9. PICK f \in [0 .. Len(s) -> Nat] : ReadTo(f, s) /\ Value(s) = f[Len(s)]
  BY <1>8, ValueUnrolls
<1> DEFINE S == {i \in 0 .. count : f[i] = n \div Ten[count - i]}
<1>10. 0 \in S
  <2>1. f[0] = 0
    BY <1>9 DEF ReadTo
  <2>2. n \div Ten[count] = 0
    <3> DEFINE a == Ten[count]
    <3>1. a \in Nat \ {0} /\ n < a
      BY <1>3, <1>4, TenIs
    <3> HIDE DEF a
    <3>2. n = 0 * a + n
      BY <3>1
    <3>3. n \div a = 0
      BY <3>1, <3>2, QuotientIs
    <3> QED BY <3>3 DEF a
  <2>3. count - 0 = count /\ 0 \in 0 .. count
    BY <1>3
  <2> QED BY <2>1, <2>2, <2>3
<1>11. ASSUME NEW i \in 0 .. count - 1, i \in S PROVE i + 1 \in S
  <2>1. i + 1 \in 1 .. count /\ (i + 1) - 1 = i /\ i + 1 \in 0 .. count
        /\ count - (i + 1) \in Nat /\ count - i = (count - (i + 1)) + 1
    BY <1>3
  <2> DEFINE a == Ten[count - (i + 1)]
  <2>2. a \in Nat \ {0} /\ Ten[count - i] = 10 * a
    BY <2>1, TenIs
  <2>3. f[i] = n \div (10 * a)
    BY <1>11, <2>2
  <2>4. f[i + 1] = 10 * f[i] + s[i + 1]
    BY <1>7, <1>9, <2>1 DEF ReadTo
  <2>5. s[i + 1] = (n \div a) % 10
    BY <1>7, <2>1
  <2> HIDE DEF a
  <2>6. n \div a = 10 * (n \div (10 * a)) + ((n \div a) % 10)
    BY <2>2, DivByTen
  <2>7. f[i + 1] = n \div a
    BY <2>3, <2>4, <2>5, <2>6
  <2> QED BY <2>1, <2>7 DEF a
<1>12. count \in S
  <2>1. count \in 0 .. count
    BY <1>3
  <2> HIDE DEF S
  <2> QED BY <1>3, <1>10, <1>11, <2>1, Climb
<1>13. Value(s) = n
  <2>1. count - count = 0 /\ Ten[0] = 1
    BY <1>3, TenIs
  <2>2. n \div 1 = n
    OBVIOUS
  <2> QED BY <1>7, <1>9, <1>12, <2>1, <2>2
<1> QED BY <1>1, <1>4, <1>5, <1>7, <1>13

--------------------------------------------------------------------------------
(* A text, before its point and behind it.                                 *)

\* What is kept of a sequence is as long as it just when all of it is kept.
LEMMA SiftLength ==
    ASSUME NEW s \in Seq(Nat), NEW S
    PROVE  LET kept == Sift(s, S)
           IN  /\ kept \in Seq(Nat) /\ Len(kept) <= Len(s)
               /\ Len(kept) = Len(s) <=> \A i \in 1 .. Len(s) : s[i] \in S
               /\ Len(kept) = Len(s) => kept = s
<1> DEFINE u(k) == SubSeq(s, 1, k)
           P(k) == /\ Len(Sift(u(k), S)) <= k
                   /\ Len(Sift(u(k), S)) = k <=> \A i \in 1 .. k : s[i] \in S
                   /\ Len(Sift(u(k), S)) = k => Sift(u(k), S) = u(k)
           K == {k \in 0 .. Len(s) : P(k)}
<1>1. 0 \in K
  <2>1. u(0) = <<>>
    OBVIOUS
  <2>2. Sift(<<>>, S) = <<>>
    BY SiftOfNone
  <2>3. Len(Sift(u(0), S)) = 0 /\ Sift(u(0), S) = u(0)
    <3> HIDE DEF u
    <3>1. Sift(u(0), S) = <<>>
      BY <2>1, <2>2, Zenon
    <3> QED BY <2>1, <3>1
  <2> HIDE DEF u
  <2>4. P(0)
    BY <2>3
  <2>5. 0 \in 0 .. Len(s)
    OBVIOUS
  <2> QED BY <2>4, <2>5
<1>2. ASSUME NEW k \in 0 .. Len(s) - 1, k \in K PROVE k + 1 \in K
  <2> DEFINE a == u(k)
             e == s[k + 1]
             f == Sift(a, S)
             g == Sift(u(k + 1), S)
  <2>1. a \in Seq(Nat) /\ e \in Nat /\ u(k + 1) = Append(a, e) /\ k \in Nat /\ k + 1 \in 0 .. Len(s)
    OBVIOUS
  <2>2. P(k)
    BY <1>2
  <2>3. g = IF e \in S THEN Append(f, e) ELSE f
    <3> HIDE DEF a, e
    <3>1. Sift(Append(a, e), S) = IF e \in S THEN Append(Sift(a, S), e) ELSE Sift(a, S)
      BY <2>1, SiftAppend
    <3> QED BY <2>1, <3>1
  <2>4. f \in Seq(Nat)
    <3> HIDE DEF a
    <3> QED BY <2>1, SiftIsSeq
  <2>5. Len(f) <= k /\ (Len(f) = k <=> \A i \in 1 .. k : s[i] \in S) /\ (Len(f) = k => f = a)
    BY <2>2
  <2>6. (\A i \in 1 .. k + 1 : s[i] \in S) <=> (e \in S /\ \A i \in 1 .. k : s[i] \in S)
    BY <2>1
  <2> HIDE DEF f, a, e
  <2>7. Len(f) \in Nat
    BY <2>4
  <2>8. CASE e \in S
    <3>1. g = Append(f, e) /\ Len(g) = Len(f) + 1
      BY <2>1, <2>3, <2>4, <2>8
    <3>2. Len(g) <= k + 1 /\ (Len(g) = k + 1 <=> Len(f) = k)
      BY SMTT(60), <2>1, <2>5, <2>7, <3>1
    <3>3. Len(g) = k + 1 => g = u(k + 1)
      BY <2>1, <2>5, <3>1, <3>2
    <3>4. P(k + 1)
      BY <2>5, <2>6, <2>8, <3>2, <3>3
    <3> QED BY <2>1, <3>4
  <2>9. CASE e \notin S
    <3>1. g = f /\ Len(g) <= k /\ Len(g) # k + 1
      BY <2>1, <2>3, <2>5, <2>7, <2>9
    <3>2. Len(g) <= k + 1
      BY <2>1, <2>7, <3>1
    <3>3. P(k + 1)
      BY <2>6, <2>9, <3>1, <3>2
    <3> QED BY <2>1, <3>3
  <2> QED BY <2>8, <2>9
<1>3. Len(s) \in Nat /\ Len(s) \in 0 .. Len(s) /\ u(Len(s)) = s
  OBVIOUS
<1>4. Len(s) \in K
  <2> HIDE DEF K
  <2> QED BY <1>1, <1>2, <1>3, Climb
<1>5. P(Len(s))
  BY <1>4
<1>6. Sift(s, S) \in Seq(Nat)
  BY SiftIsSeq
<1> QED BY <1>3, <1>5, <1>6

LEMMA PointIs ==
    ASSUME NEW text \in Seq(Nat)
    PROVE  /\ PointAt(text) \in 1 .. Len(text) + 1
           /\ PointAt(text) <= Len(text) => text[PointAt(text)] = Point
           /\ \A i \in 1 .. Len(text) : text[i] = Point => PointAt(text) <= i
           /\ Contains(text, Point) <=> PointAt(text) <= Len(text)
<1> DEFINE S == {i \in 1 .. Len(text) : text[i] = Point} \cup {Len(text) + 1}
           p == PointAt(text)
<1>1. S \subseteq Nat /\ S # {}
  OBVIOUS
<1>2. p = Min(S)
  BY DEF PointAt
<1>3. p \in S /\ \A y \in S : p <= y
  <2> HIDE DEF S, p
  <2> QED BY <1>1, <1>2, MinOfNats
<1> HIDE DEF p
<1>4. p \in 1 .. Len(text) + 1 /\ (p <= Len(text) => text[p] = Point)
  BY <1>3
<1>5. \A i \in 1 .. Len(text) : text[i] = Point => p <= i
  BY <1>3
<1>6. Contains(text, Point) <=> p <= Len(text)
  <2>1. ASSUME Contains(text, Point) PROVE p <= Len(text)
    <3>1. PICK i \in 1 .. Len(text) : text[i] = Point
      BY <2>1 DEF Contains
    <3> QED BY <1>4, <1>5, <3>1
  <2>2. ASSUME p <= Len(text) PROVE Contains(text, Point)
    <3>1. p \in 1 .. Len(text) /\ text[p] = Point
      BY <1>4, <2>2
    <3> QED BY <3>1 DEF Contains
  <2> QED BY <2>1, <2>2
<1> QED BY <1>4, <1>5, <1>6 DEF p

LEMMA SplitIs ==
    ASSUME NEW text \in Seq(Nat)
    PROVE  /\ Whole(text) \in Seq(Nat) /\ Fraction(text) \in Seq(Nat)
           /\ Contains(text, Point) => /\ text = (Whole(text) \o <<Point>>) \o Fraction(text)
                                       /\ Len(text) = Len(Whole(text)) + 1 + Len(Fraction(text))
                                       /\ Len(text) - PointAt(text) = Len(Fraction(text))
           /\ ~Contains(text, Point) => text = Whole(text) /\ Fraction(text) = <<>>
<1> DEFINE p == PointAt(text)
           n == Len(text)
           w == SubSeq(text, 1, p - 1)
           f == SubSeq(text, p + 1, n)
<1>1. /\ p \in 1 .. n + 1 /\ n \in Nat
      /\ p <= n => text[p] = Point
      /\ Contains(text, Point) <=> p <= n
  BY PointIs
<1>2. Whole(text) = w /\ Fraction(text) = f
  BY DEF Whole, Fraction
<1> HIDE DEF p
<1>3. /\ w \in Seq(Nat) /\ Len(w) = p - 1
      /\ \A i \in 1 .. p - 1 : w[i] = text[i]
  BY <1>1
<1>4. ASSUME p > n PROVE text = w /\ f = <<>>
  <2>1. p = n + 1 /\ p - 1 = n
    BY <1>1, <1>4
  <2>2. SubSeq(text, 1, n) = text
    OBVIOUS
  <2>3. SubSeq(text, n + 2, n) = <<>>
    OBVIOUS
  <2>4. p + 1 = n + 2
    BY <2>1
  <2> QED BY <2>1, <2>2, <2>3, <2>4
<1>5. ASSUME p <= n
      PROVE  /\ f \in Seq(Nat) /\ Len(f) = n - p
             /\ \A i \in 1 .. n - p : f[i] = text[p + i]
  <2>1. p \in Nat /\ p + 1 \in 1 .. n + 1 /\ n - (p + 1) + 1 = n - p
    BY <1>1, <1>5
  <2>2. f \in Seq(Nat) /\ Len(f) = n - p
    <3>1. CASE p = n
      <4>1. SubSeq(text, n + 1, n) = <<>> /\ <<>> \in Seq(Nat) /\ Len(<<>>) = 0
        OBVIOUS
      <4> QED BY <1>1, <3>1, <4>1
    <3>2. CASE p < n
      <4>1. p + 1 \in 1 .. n /\ n \in 1 .. n
        BY <1>1, <2>1, <3>2
      <4>2. \A a \in 1 .. Len(text) : \A b \in 1 .. Len(text) : a <= b =>
                SubSeq(text, a, b) \in Seq(Nat) /\ Len(SubSeq(text, a, b)) = b - a + 1
        OBVIOUS
      <4>3. f \in Seq(Nat) /\ Len(f) = n - (p + 1) + 1
        BY <4>1, <4>2
      <4> QED BY <2>1, <4>3
    <3> QED BY <1>1, <1>5, <3>1, <3>2
  <2>3. ASSUME NEW i \in 1 .. n - p PROVE f[i] = text[p + i]
    <3>1. (p + 1) + i - 1 = p + i
      BY <2>1
    <3>2. f[i] = text[(p + 1) + i - 1]
      BY <1>1, <2>1
    <3> QED BY <3>1, <3>2
  <2> QED BY <2>2, <2>3
<1>6. f \in Seq(Nat)
  <2>1. <<>> \in Seq(Nat)
    OBVIOUS
  <2> QED BY <1>1, <1>4, <1>5, <2>1
<1> HIDE DEF w, f
<1>7. ASSUME p <= n PROVE text = (w \o <<Point>>) \o f
  <2> DEFINE q == w \o <<Point>>
             t == q \o f
  <2>1. <<Point>> \in Seq(Nat) /\ Len(<<Point>>) = 1 /\ <<Point>>[1] = Point
    BY DEF Point
  <2>2. /\ q \in Seq(Nat) /\ Len(q) = Len(w) + 1
        /\ \A i \in 1 .. Len(w) : q[i] = w[i]
        /\ \A i \in 1 .. 1 : q[Len(w) + i] = <<Point>>[i]
    <3> DEFINE pt == <<Point>>
    <3>1. w \in Seq(Nat) /\ pt \in Seq(Nat) /\ Len(pt) = 1
      BY <1>3, <2>1
    <3> HIDE DEF pt
    <3>2. /\ w \o pt \in Seq(Nat) /\ Len(w \o pt) = Len(w) + Len(pt)
          /\ \A i \in 1 .. Len(w) : (w \o pt)[i] = w[i]
          /\ \A i \in 1 .. Len(pt) : (w \o pt)[Len(w) + i] = pt[i]
      <4>1. w \in Seq(Nat) /\ pt \in Seq(Nat)
        BY <3>1
      <4> QED BY <4>1, Joined
    <3> QED BY <3>1, <3>2 DEF pt
  <2>3. q[Len(w) + 1] = Point
    BY <2>1, <2>2
  <2> HIDE DEF q
  <2>4. /\ t \in Seq(Nat) /\ Len(t) = Len(q) + Len(f)
        /\ \A i \in 1 .. Len(q) : t[i] = q[i]
        /\ \A i \in 1 .. Len(f) : t[Len(q) + i] = f[i]
    <3>1. q \in Seq(Nat) /\ f \in Seq(Nat)
      BY <1>6, <2>2
    <3> QED BY <3>1, Joined
  <2> HIDE DEF t
  <2>5. Len(q) = p /\ Len(t) = n
    BY <1>1, <1>3, <1>5, <1>7, <2>2, <2>4
  <2>6. ASSUME NEW i \in 1 .. n PROVE t[i] = text[i]
    <3>1. CASE i < p
      <4>1. i \in 1 .. Len(w) /\ i \in 1 .. Len(q) /\ i \in 1 .. p - 1
        BY <1>1, <1>3, <2>5, <3>1
      <4> QED BY <1>3, <2>2, <2>4, <4>1
    <3>2. CASE i = p
      <4>1. i = Len(w) + 1 /\ i \in 1 .. Len(q)
        BY <1>1, <1>3, <2>5, <3>2
      <4> QED BY <1>1, <1>7, <2>3, <2>4, <3>2, <4>1
    <3>3. CASE i > p
      <4>1. i - p \in 1 .. Len(f) /\ i - p \in 1 .. n - p /\ Len(q) + (i - p) = i /\ p + (i - p) = i
        BY <1>1, <1>5, <1>7, <2>5, <3>3
      <4>2. t[Len(q) + (i - p)] = f[i - p]
        BY <2>4, <4>1
      <4>3. f[i - p] = text[p + (i - p)]
        BY <1>5, <1>7, <4>1
      <4> QED BY <4>1, <4>2, <4>3
    <3> QED BY <1>1, <3>1, <3>2, <3>3
  <2>7. t = text
    <3>1. t \in [1 .. n -> Nat] /\ text \in [1 .. n -> Nat]
      BY SMTT(60), <1>1, <2>4, <2>5
    <3> QED BY <2>6, <3>1
  <2> QED BY <2>7 DEF t, q
<1>8. Contains(text, Point) => Len(text) = Len(w) + 1 + Len(f) /\ Len(text) - p = Len(f)
  BY <1>1, <1>3, <1>5
<1>9. p > n \/ p <= n
  BY <1>1
<1>10. Contains(text, Point) => text = (w \o <<Point>>) \o f
  BY <1>1, <1>7
<1>11. ~Contains(text, Point) => text = w /\ f = <<>>
  BY <1>1, <1>4, <1>9
<1>12. w \in Seq(Nat) /\ f \in Seq(Nat)
  BY <1>3, <1>6
<1> QED BY <1>2, <1>8, <1>10, <1>11, <1>12 DEF p

\* What is before the point and what is behind it are all the characters there
\* are, the point apart.
LEMMA SplitSifts ==
    ASSUME NEW text \in Seq(Nat)
    PROVE  LET w == Whole(text)
               f == Fraction(text)
               kept == Sift(text, Digits)
           IN  /\ Len(text) - Len(kept) = (IF Contains(text, Point) THEN 1 ELSE 0)
                    <=> \A i \in 1 .. Len(w \o f) : (w \o f)[i] \in Digits
               /\ (\A i \in 1 .. Len(w \o f) : (w \o f)[i] \in Digits) => kept = w \o f
               /\ (IF Contains(text, Point) THEN Len(text) - PointAt(text) ELSE 0) = Len(f)
<1> DEFINE w == Whole(text)
           f == Fraction(text)
           both == w \o f
           kept == Sift(text, Digits)
<1>1. /\ w \in Seq(Nat) /\ f \in Seq(Nat)
      /\ Contains(text, Point) => /\ text = (w \o <<Point>>) \o f
                                  /\ Len(text) = Len(w) + 1 + Len(f)
                                  /\ Len(text) - PointAt(text) = Len(f)
      /\ ~Contains(text, Point) => text = w /\ f = <<>>
  BY SplitIs
<1> HIDE DEF w, f
<1>2. both \in Seq(Nat) /\ Len(both) = Len(w) + Len(f)
  BY <1>1
<1>3. kept = Sift(both, Digits)
  <2>1. CASE Contains(text, Point)
    <3> DEFINE pt == <<Point>>
    <3>1. pt \in Seq(Nat) /\ Point \in Nat /\ Point \notin Digits
      BY DEF Point, Digits
    <3>2. Sift(pt, Digits) = <<>>
      BY <3>1, SiftOfOne
    <3>3. text = (w \o pt) \o f
      BY <1>1, <2>1
    <3> HIDE DEF pt
    <3>4. w \o pt \in Seq(Nat)
      BY <1>1, <3>1
    <3>5. Sift(w \o pt, Digits) = Sift(w, Digits) \o Sift(pt, Digits)
      <4>1. w \in Seq(Nat) /\ pt \in Seq(Nat)
        BY <1>1, <3>1
      <4> QED BY <4>1, SiftConcat
    <3>6. Sift((w \o pt) \o f, Digits) = Sift(w \o pt, Digits) \o Sift(f, Digits)
      <4> DEFINE front == w \o pt
      <4>1. front \in Seq(Nat) /\ f \in Seq(Nat)
        BY <1>1, <3>4
      <4> HIDE DEF front
      <4>2. Sift(front \o f, Digits) = Sift(front, Digits) \o Sift(f, Digits)
        BY <4>1, SiftConcat
      <4> QED BY <4>2 DEF front
    <3>7. Sift(w \o f, Digits) = Sift(w, Digits) \o Sift(f, Digits)
      BY SMTT(60), <1>1, SiftConcat
    <3>8. Sift(w, Digits) \in Seq(Nat)
      BY <1>1, SiftIsSeq
    <3>9. Sift(w, Digits) \o <<>> = Sift(w, Digits)
      BY <3>8
    <3> QED BY <3>2, <3>3, <3>5, <3>6, <3>7, <3>9
  <2>2. CASE ~Contains(text, Point)
    <3>1. w \o <<>> = w
      BY <1>1
    <3> QED BY <1>1, <2>2, <3>1
  <2> QED BY <2>1, <2>2
<1>4. Len(text) = Len(both) + (IF Contains(text, Point) THEN 1 ELSE 0)
  <2>1. Len(<<>>) = 0
    OBVIOUS
  <2> QED BY <1>1, <1>2, <2>1
<1>5. (IF Contains(text, Point) THEN Len(text) - PointAt(text) ELSE 0) = Len(f)
  <2>1. Len(<<>>) = 0
    OBVIOUS
  <2> QED BY <1>1, <2>1
<1>6. /\ Sift(both, Digits) \in Seq(Nat) /\ Len(Sift(both, Digits)) <= Len(both)
      /\ Len(Sift(both, Digits)) = Len(both) <=> \A i \in 1 .. Len(both) : both[i] \in Digits
      /\ Len(Sift(both, Digits)) = Len(both) => Sift(both, Digits) = both
  <2> HIDE DEF both
  <2> QED BY <1>2, SiftLength
<1> HIDE DEF both, kept
<1>7. Len(kept) \in Nat /\ Len(both) \in Nat
  BY <1>2, <1>3, <1>6
<1>8. Len(text) - Len(kept) = (IF Contains(text, Point) THEN 1 ELSE 0) <=> Len(kept) = Len(both)
  BY <1>4, <1>7
<1> QED BY <1>3, <1>5, <1>6, <1>8 DEF both, kept, w, f

\* The value of the two parts, at the scale.
LEMMA ScaledIs ==
    ASSUME NEW w \in Seq(Nat), NEW f \in Seq(Nat), Len(f) <= E8Digits
    PROVE  LET m == Value(w) * E8 + Value(f) * Ten[E8Digits - Len(f)]
           IN  m \in Nat /\ m * Ten[Len(f)] = Value(w \o f) * E8 /\ Ten[Len(f)] \in Nat \ {0} /\ Value(w \o f) \in Nat
<1> DEFINE n == Len(f)
           a == Value(w)
           b == Value(f)
           x == Ten[n]
           y == Ten[E8Digits - n]
           v == Value(w \o f)
<1>1. n \in Nat /\ E8Digits - n \in Nat /\ n + (E8Digits - n) = E8Digits
  BY FixedAssumption
<1>2. a \in Nat /\ b \in Nat
  BY ValueIsNat
<1>3. v = a * x + b
  BY ValueOfBoth
<1>4. x \in Nat \ {0} /\ y \in Nat \ {0}
  BY <1>1, TenIs
<1>5. E8 = x * y
  BY <1>1, TenSum DEF E8
<1> HIDE DEF n, a, b, x, y, v
<1>6. a * (x * y) + b * y \in Nat /\ (a * (x * y) + b * y) * x = (a * x + b) * (x * y)
  <2>1. x * y \in Nat /\ a * (x * y) \in Nat /\ b * y \in Nat
    BY <1>2, <1>4
  <2> QED BY <1>2, <1>4, <2>1
<1>7. v \in Nat
  BY SMTT(60), <1>2, <1>3, <1>4
<1> QED BY <1>3, <1>4, <1>5, <1>6, <1>7 DEF n, a, b, x, y, v

--------------------------------------------------------------------------------
(* Reading.                                                                *)

LEMMA UnsignedIs ==
    ASSUME NEW text \in Seq(Nat)
    PROVE  Unsigned(text) \in Seq(Nat) /\ (text = <<>> => Unsigned(text) = <<>>)
<1>1. CASE Signed(text)
  <2>1. text # <<>> /\ Unsigned(text) = Tail(text)
    BY <1>1 DEF Signed, Unsigned
  <2>2. Tail(text) \in Seq(Nat)
    BY <2>1
  <2> QED BY <2>1, <2>2
<1>2. CASE ~Signed(text)
  BY <1>2 DEF Unsigned
<1> QED BY <1>1, <1>2

\* Behind no text there are no digits.
LEMMA SplitOfNone ==
    ASSUME NEW text \in Seq(Nat), text = <<>>
    PROVE  Whole(text) \o Fraction(text) = <<>>
<1>1. Len(text) = 0
  OBVIOUS
<1>2. Contains(text, Point) => Len(text) = Len(Whole(text)) + 1 + Len(Fraction(text))
  BY SplitIs
<1>3. Whole(text) \in Seq(Nat) /\ Fraction(text) \in Seq(Nat)
  BY SplitIs
<1>4. Len(Whole(text)) \in Nat /\ Len(Fraction(text)) \in Nat
  BY <1>3
<1>5. ~Contains(text, Point)
  BY <1>1, <1>2, <1>4
<1>6. text = Whole(text) /\ Fraction(text) = <<>>
  BY <1>5, SplitIs
<1>7. <<>> \o <<>> = <<>>
  OBVIOUS
<1> QED BY <1>6, <1>7

\* What a text that is accepted is read as.
LEMMA ParseIs ==
    ASSUME NEW text \in Seq(Nat)
    PROVE  LET w == Whole(Unsigned(text))
               f == Fraction(Unsigned(text))
               m == Value(w) * E8 + Value(f) * Ten[E8Digits - Len(f)]
           IN  /\ WellFormed(text) <=> /\ w \o f # <<>>
                                       /\ \A i \in 1 .. Len(w \o f) : (w \o f)[i] \in Digits
                                       /\ Len(f) <= E8Digits
               /\ Parse(text) = IF ~WellFormed(text) \/ m > MaxInt THEN {}
                                ELSE {IF Head(text) = Minus THEN -m ELSE m}
<1> DEFINE w == Whole(Unsigned(text))
           f == Fraction(Unsigned(text))
           m == Value(w) * E8 + Value(f) * Ten[E8Digits - Len(f)]
<1>1. WellFormed(text) <=> /\ w \o f # <<>>
                           /\ \A i \in 1 .. Len(w \o f) : (w \o f)[i] \in Digits
                           /\ Len(f) <= E8Digits
  BY DEF WellFormed
<1>2. Parse(text) = IF ~WellFormed(text) THEN {} ELSE IF m > MaxInt THEN {}
                    ELSE {IF Head(text) = Minus THEN -m ELSE m}
  BY DEF Parse
<1> HIDE DEF w, f, m
<1>3. Parse(text) = IF ~WellFormed(text) \/ m > MaxInt THEN {}
                    ELSE {IF Head(text) = Minus THEN -m ELSE m}
  BY <1>2
<1> QED BY <1>1, <1>3 DEF w, f, m

LEMMA TextIsReadExactly ==
    ASSUME decText \in Seq(Nat)
    PROVE  ParseIsExact
<1> DEFINE rest   == Unsigned(decText)
           w      == Whole(rest)
           f      == Fraction(rest)
           both   == w \o f
           m      == Value(w) * E8 + Value(f) * Ten[E8Digits - Len(f)]
           digits == Sift(rest, Digits)
           point  == IF Contains(rest, Point) THEN 1 ELSE 0
           behind == IF Contains(rest, Point) THEN Len(rest) - PointAt(rest) ELSE 0
           sign   == IF decText # <<>> /\ Head(decText) = Minus THEN -1 ELSE 1
           fits   == Value(digits) * E8 <= MaxInt * Ten[behind]
           all    == \A i \in 1 .. Len(both) : both[i] \in Digits
<1>1. rest \in Seq(Nat) /\ (decText = <<>> => rest = <<>>)
  BY UnsignedIs
<1>2. /\ Len(rest) - Len(digits) = point <=> all
      /\ all => digits = both
      /\ behind = Len(f)
  <2> HIDE DEF rest
  <2> QED BY <1>1, SplitSifts
<1>3. /\ WellFormed(decText) <=> both # <<>> /\ all /\ Len(f) <= E8Digits
      /\ Parse(decText) = IF ~WellFormed(decText) \/ m > MaxInt THEN {}
                          ELSE {IF Head(decText) = Minus THEN -m ELSE m}
  BY ParseIs
<1>4. both # <<>> => decText # <<>>
  <2> SUFFICES ASSUME decText = <<>> PROVE both = <<>>
    OBVIOUS
  <2>1. rest = <<>>
    BY <1>1
  <2> HIDE DEF rest
  <2> QED BY <1>1, <2>1, SplitOfNone
<1>5. w \in Seq(Nat) /\ f \in Seq(Nat)
  <2> HIDE DEF rest
  <2> QED BY <1>1, SplitIs
<1>6. both \in Seq(Nat)
  <2> HIDE DEF w, f
  <2> QED BY <1>5
<1> SUFFICES IF digits # <<>> /\ Len(rest) - Len(digits) = point /\ behind <= E8Digits /\ fits
             THEN \E v \in Parse(decText) : v * Ten[behind] = sign * Value(digits) * E8
             ELSE Parse(decText) = {}
  BY DEF ParseIsExact
<1>7. CASE WellFormed(decText)
  <2>1. both # <<>> /\ all /\ Len(f) <= E8Digits /\ digits = both /\ decText # <<>>
        /\ Len(rest) - Len(digits) = point
    <3> HIDE DEF rest, w, f, both, all, digits, point
    <3> QED BY <1>2, <1>3, <1>4, <1>7
  <2>2. m \in Nat /\ m * Ten[Len(f)] = Value(both) * E8 /\ Ten[Len(f)] \in Nat \ {0} /\ Value(both) \in Nat
    <3> HIDE DEF w, f
    <3> QED BY <1>5, <2>1, ScaledIs
  <2>3. sign = IF Head(decText) = Minus THEN -1 ELSE 1
    BY <2>1
  <2>4. E8 \in Nat
    BY FixedAssumption, TenIs DEF E8
  <2>5. MaxInt \in Nat
    BY FixedAssumption
  <2> DEFINE t == Ten[Len(f)]
             v == Value(both)
  <2>6. t \in Nat \ {0} /\ v \in Nat /\ m * t = v * E8
    BY <2>2
  <2>7. fits <=> v * E8 <= MaxInt * t
    BY <1>2, <2>1
  <2>8. Parse(decText) = IF m > MaxInt THEN {} ELSE {IF Head(decText) = Minus THEN -m ELSE m}
    <3> HIDE DEF m
    <3> QED BY <1>3, <1>7
  <2>9. Ten[behind] = t /\ Value(digits) = v
    BY <1>2, <2>1
  <2>10. digits # <<>> /\ behind <= E8Digits
    BY <1>2, <2>1
  <2> HIDE DEF m, t, v, fits, sign, digits, behind, rest, point, both, all, w, f
  <2>11. fits <=> ~(m > MaxInt)
    <3>1. m <= MaxInt => m * t <= MaxInt * t
      BY <2>2, <2>5, <2>6
    <3>2. m > MaxInt => m * t > MaxInt * t
      <4>1. ASSUME m > MaxInt PROVE m * t > MaxInt * t
        <5> DEFINE d == m - MaxInt
        <5>1. d \in Nat \ {0} /\ m = MaxInt + d
          BY <2>2, <2>5, <4>1
        <5> HIDE DEF d
        <5>2. m * t = MaxInt * t + d * t
          BY <2>5, <2>6, <5>1
        <5>3. d * t \in Nat \ {0} /\ MaxInt * t \in Nat
          BY <2>5, <2>6, <5>1
        <5> QED BY <5>2, <5>3
      <4> QED BY <4>1
    <3>3. m * t \in Int /\ MaxInt * t \in Int
      BY <2>2, <2>5, <2>6
    <3> DEFINE x == m * t
               y == MaxInt * t
    <3>4. fits <=> x <= y
      BY <2>6, <2>7
    <3>5. x \in Int /\ y \in Int /\ (m <= MaxInt => x <= y) /\ (m > MaxInt => x > y)
      BY <3>1, <3>2, <3>3
    <3> HIDE DEF x, y
    <3> QED BY <2>2, <2>5, <3>4, <3>5
  <2>12. ASSUME fits
         PROVE  \E x \in Parse(decText) : x * Ten[behind] = sign * Value(digits) * E8
    <3>1. Parse(decText) = {IF Head(decText) = Minus THEN -m ELSE m}
      BY <2>8, <2>11, <2>12
    <3>2. CASE Head(decText) = Minus
      <4>1. -m \in Parse(decText) /\ sign = -1
        BY <2>3, <3>1, <3>2
      <4>2. (-m) * t = ((-1) * v) * E8
        <5>1. (-m) * t = -(m * t)
          BY <2>2, <2>6
        <5>2. ((-1) * v) * E8 = -(v * E8)
          BY <2>4, <2>6
        <5> QED BY <2>6, <5>1, <5>2
      <4> QED BY <2>9, <4>1, <4>2
    <3>3. CASE Head(decText) # Minus
      <4>1. m \in Parse(decText) /\ sign = 1
        BY <2>3, <3>1, <3>3
      <4>2. m * t = (1 * v) * E8
        BY <2>6
      <4> QED BY <2>9, <4>1, <4>2
    <3> QED BY <3>2, <3>3
  <2>13. ~fits => Parse(decText) = {}
    BY <2>8, <2>11
  <2> QED BY <2>1, <2>10, <2>12, <2>13
<1>8. CASE ~WellFormed(decText)
  <2>1. Parse(decText) = {}
    <3> HIDE DEF m
    <3> QED BY <1>3, <1>8
  <2>2. ~(digits # <<>> /\ Len(rest) - Len(digits) = point /\ behind <= E8Digits)
    <3> HIDE DEF rest, w, f, both, all, digits, point, behind
    <3> QED BY <1>2, <1>3, <1>8
  <2> HIDE DEF rest, digits, point, behind, fits, sign
  <2> QED BY <2>1, <2>2
<1> QED BY <1>7, <1>8

--------------------------------------------------------------------------------
(* Printing.                                                               *)

\* A text made of a sign, digits, and perhaps a point and digits behind it.
Made(sign, w, f) == (sign \o w) \o (IF f = <<>> THEN <<>> ELSE <<Point>> \o f)

LEMMA DigitsAreNumbers == Digits \subseteq Nat /\ Point \in Nat /\ Minus \in Nat /\ Plus \in Nat
                          /\ Point \notin Digits /\ Minus \notin Digits /\ Plus \notin Digits
                          /\ Minus # Point /\ Plus # Point
  BY DEF Digits, Point, Minus, Plus

LEMMA Behind ==
    ASSUME NEW a \in Seq(Nat), NEW b \in Seq(Nat), NEW c \in Seq(Nat)
    PROVE  (a \o b) \o c = a \o (b \o c)
  BY SMTT(60), ConcatAssociative

LEMMA DigitsAreNat ==
    ASSUME NEW w \in Seq(Digits)
    PROVE  w \in Seq(Nat)
  BY DEF Digits

\* What stands before the point, if nothing there is one.
LEMMA SplitOfJoined ==
    ASSUME NEW w \in Seq(Digits), NEW f \in Seq(Nat)
    PROVE  LET text == w \o (<<Point>> \o f)
           IN  text \in Seq(Nat) /\ Whole(text) = w /\ Fraction(text) = f
<1> DEFINE pt == <<Point>>
           q == pt \o f
           text == w \o q
           p == PointAt(text)
           n == Len(text)
<1>0. w \in Seq(Nat)
  BY DigitsAreNat
<1>1. pt \in Seq(Nat) /\ Len(pt) = 1 /\ pt[1] = Point
  BY DigitsAreNumbers
<1> HIDE DEF pt
<1>2. /\ q \in Seq(Nat) /\ Len(q) = 1 + Len(f)
      /\ \A i \in 1 .. Len(pt) : q[i] = pt[i]
      /\ \A i \in 1 .. Len(f) : q[Len(pt) + i] = f[i]
  <2>1. pt \in Seq(Nat) /\ f \in Seq(Nat)
    BY <1>1
  <2>2. /\ pt \o f \in Seq(Nat) /\ Len(pt \o f) = Len(pt) + Len(f)
        /\ \A i \in 1 .. Len(pt) : (pt \o f)[i] = pt[i]
        /\ \A i \in 1 .. Len(f) : (pt \o f)[Len(pt) + i] = f[i]
    BY <2>1, Joined
  <2> QED BY <1>1, <2>2
<1>3. q[1] = Point /\ \A i \in 1 .. Len(f) : q[1 + i] = f[i]
  BY <1>1, <1>2
<1> HIDE DEF q
<1>4. /\ text \in Seq(Nat) /\ n = Len(w) + Len(q)
      /\ \A i \in 1 .. Len(w) : text[i] = w[i]
      /\ \A i \in 1 .. Len(q) : text[Len(w) + i] = q[i]
  <2>1. w \in Seq(Nat) /\ q \in Seq(Nat)
    BY <1>0, <1>2
  <2> QED BY <2>1, Joined
<1> HIDE DEF text
<1>5. /\ p \in 1 .. n + 1
      /\ p <= n => text[p] = Point
      /\ \A i \in 1 .. n : text[i] = Point => p <= i
  BY <1>4, PointIs
<1> HIDE DEF p
<1>6. Len(w) \in Nat /\ Len(f) \in Nat /\ n = Len(w) + 1 + Len(f)
  BY <1>2, <1>4
<1> HIDE DEF n
<1>7. p = Len(w) + 1
  <2>1. 1 \in 1 .. Len(q) /\ Len(w) + 1 \in 1 .. n
    BY <1>2, <1>6
  <2>2. text[Len(w) + 1] = Point
    BY <1>3, <1>4, <2>1
  <2>3. p <= Len(w) + 1
    BY <1>5, <2>1, <2>2
  <2>4. ~(p <= Len(w))
    <3> SUFFICES ASSUME p <= Len(w) PROVE FALSE
      OBVIOUS
    <3>1. p \in 1 .. Len(w) /\ p <= n
      BY <1>5, <1>6
    <3>2. text[p] = w[p] /\ text[p] = Point
      BY <1>4, <1>5, <3>1
    <3>3. w[p] \in Digits
      BY <3>1
    <3> QED BY <3>2, <3>3, DigitsAreNumbers
  <2> QED BY <1>5, <1>6, <2>3, <2>4
<1>8. Whole(text) = w
  <2> DEFINE s == SubSeq(text, 1, Len(w))
  <2>1. Len(w) <= n /\ n = Len(text)
    BY <1>6 DEF n
  <2>2. s \in Seq(Nat) /\ Len(s) = Len(w) /\ \A i \in 1 .. Len(w) : s[i] = text[i]
    BY <1>4, <1>6, <2>1
  <2>3. Whole(text) = s
    BY <1>6, <1>7 DEF Whole, p
  <2> HIDE DEF s
  <2>4. s \in [1 .. Len(w) -> Nat] /\ w \in [1 .. Len(w) -> Nat]
    BY <1>0, <2>2
  <2>5. \A i \in 1 .. Len(w) : s[i] = w[i]
    BY <1>4, <2>2
  <2>6. s = w
    BY <2>4, <2>5
  <2> QED BY <2>3, <2>6
<1>9. Fraction(text) = f
  <2> DEFINE s == SubSeq(text, Len(w) + 2, n)
  <2>1. n = Len(text) /\ n \in Nat
    BY <1>6 DEF n
  <2>2. Fraction(text) = s
    <3>1. PointAt(text) + 1 = Len(w) + 2 /\ Len(text) = n
      BY <1>6, <1>7, <2>1 DEF p
    <3> HIDE DEF n
    <3> QED BY <3>1 DEF Fraction
  <2>3. CASE Len(f) = 0
    <3>1. f = <<>>
      BY <2>3
    <3>2. n = Len(w) + 1
      BY <1>6, <2>3
    <3>3. SubSeq(text, Len(w) + 2, Len(w) + 1) = <<>>
      BY <1>4, <1>6
    <3> QED BY <2>2, <3>1, <3>2, <3>3
  <2>4. CASE Len(f) # 0
    <3>1. Len(w) + 2 \in 1 .. n /\ n \in 1 .. n /\ n - (Len(w) + 2) + 1 = Len(f)
      BY <1>6, <2>4
    <3>2. \A a \in 1 .. Len(text) : \A b \in 1 .. Len(text) : a <= b =>
              /\ SubSeq(text, a, b) \in Seq(Nat) /\ Len(SubSeq(text, a, b)) = b - a + 1
              /\ \A i \in 1 .. b - a + 1 : SubSeq(text, a, b)[i] = text[a + i - 1]
      BY SMTT(60), <1>4
    <3>3. s \in Seq(Nat) /\ Len(s) = Len(f) /\ \A i \in 1 .. Len(f) : s[i] = text[(Len(w) + 2) + i - 1]
      BY <2>1, <3>1, <3>2
    <3>4. ASSUME NEW i \in 1 .. Len(f) PROVE s[i] = f[i]
      <4>1. (Len(w) + 2) + i - 1 = Len(w) + (1 + i) /\ 1 + i \in 1 .. Len(q)
        BY <1>2, <1>6
      <4> QED BY <1>3, <1>4, <3>3, <4>1
    <3> HIDE DEF s
    <3>5. s \in [1 .. Len(f) -> Nat] /\ f \in [1 .. Len(f) -> Nat]
      BY <3>3
    <3> QED BY <2>2, <3>4, <3>5
  <2> QED BY <2>3, <2>4
<1> QED BY <1>4, <1>8, <1>9 DEF text, q, pt

\* The same without a point.
LEMMA SplitOfDigits ==
    ASSUME NEW w \in Seq(Digits)
    PROVE  w \in Seq(Nat) /\ Whole(w) = w /\ Fraction(w) = <<>>
<1>1. w \in Seq(Nat)
  BY DigitsAreNat
<1>2. ~Contains(w, Point)
  BY DigitsAreNumbers DEF Contains
<1> QED BY <1>1, <1>2, SplitIs

\* The first of two, of which the first is not empty.
LEMMA HeadOfJoined ==
    ASSUME NEW a \in Seq(Nat), NEW b \in Seq(Nat), a # <<>>
    PROVE  a \o b \in Seq(Nat) /\ a \o b # <<>> /\ Head(a \o b) = a[1] /\ (Len(a) = 1 => Tail(a \o b) = b)
<1> DEFINE t == a \o b
<1>1. /\ t \in Seq(Nat) /\ Len(t) = Len(a) + Len(b)
      /\ \A p \in 1 .. Len(a) : t[p] = a[p]
      /\ \A p \in 1 .. Len(b) : t[Len(a) + p] = b[p]
  BY Joined
<1> HIDE DEF t
<1>2. Len(a) \in Nat \ {0} /\ Len(b) \in Nat
  OBVIOUS
<1>3. Len(t) # 0 /\ 1 \in 1 .. Len(a)
  BY <1>1, <1>2
<1>4. t # <<>> /\ Head(t) = a[1]
  BY <1>1, <1>3
<1>5. ASSUME Len(a) = 1 PROVE Tail(t) = b
  <2>1. /\ Tail(t) \in Seq(Nat) /\ Len(Tail(t)) = Len(t) - 1
        /\ \A p \in 1 .. Len(t) - 1 : Tail(t)[p] = t[p + 1]
    BY <1>1, <1>4
  <2>2. ASSUME NEW p \in 1 .. Len(b) PROVE Tail(t)[p] = b[p]
    <3>1. p \in 1 .. Len(t) - 1 /\ p + 1 = Len(a) + p
      BY <1>1, <1>2, <1>5
    <3> QED BY <1>1, <2>1, <3>1
  <2> DEFINE u == Tail(t)
  <2>3. u \in Seq(Nat) /\ Len(u) = Len(b) /\ \A p \in 1 .. Len(b) : u[p] = b[p]
    BY <1>1, <1>2, <1>5, <2>1, <2>2
  <2> HIDE DEF u
  <2>4. u \in [1 .. Len(b) -> Nat] /\ b \in [1 .. Len(b) -> Nat]
    BY <2>3
  <2>5. u = b
    <3>1. \A p \in 1 .. Len(b) : u[p] = b[p]
      BY <2>3
    <3> QED BY <2>4, <3>1
  <2> QED BY <2>5 DEF u
<1> QED BY <1>1, <1>4, <1>5 DEF t

\* How such a text is read.
LEMMA MadeIsRead ==
    ASSUME NEW sign \in {<<>>, <<Minus>>}, NEW w \in Seq(Digits), NEW f \in Seq(Digits),
           w # <<>>, Len(f) <= E8Digits
    PROVE  LET m == Value(w) * E8 + Value(f) * Ten[E8Digits - Len(f)]
           IN  /\ Parse(Made(sign, w, f)) = IF m > MaxInt THEN {} ELSE {IF sign = <<Minus>> THEN -m ELSE m}
               /\ Head(Made(sign, w, f)) = Minus <=> sign = <<Minus>>
               /\ Made(sign, w, f) \in Seq(Nat)
<1> DEFINE behind == IF f = <<>> THEN <<>> ELSE <<Point>> \o f
           rest == w \o behind
           text == Made(sign, w, f)
           m == Value(w) * E8 + Value(f) * Ten[E8Digits - Len(f)]
<1>1. w \in Seq(Nat) /\ f \in Seq(Nat) /\ <<Point>> \in Seq(Nat) /\ sign \in Seq(Nat)
  <2>1. w \in Seq(Nat) /\ f \in Seq(Nat)
    BY DigitsAreNat
  <2>2. <<Point>> \in Seq(Nat) /\ <<Minus>> \in Seq(Nat) /\ <<>> \in Seq(Nat)
    BY DigitsAreNumbers
  <2> QED BY <2>1, <2>2
<1>2. behind \in Seq(Nat)
  BY <1>1
<1>3. rest \in Seq(Nat) /\ Whole(rest) = w /\ Fraction(rest) = f
  <2>1. CASE f = <<>>
    <3>1. rest = w
      BY <1>1, <2>1
    <3>2. w \in Seq(Nat) /\ Whole(w) = w /\ Fraction(w) = <<>>
      BY SplitOfDigits
    <3> QED BY <2>1, <3>1, <3>2
  <2>2. CASE f # <<>>
    <3>1. rest = w \o (<<Point>> \o f)
      BY <2>2
    <3> QED BY <1>1, <3>1, SplitOfJoined
  <2> QED BY <2>1, <2>2
<1> HIDE DEF behind
<1>4. rest # <<>> /\ Head(rest) = w[1] /\ w[1] \in Digits
  <2>1. rest # <<>> /\ Head(rest) = w[1]
    BY <1>1, <1>2, HeadOfJoined
  <2>2. w[1] \in Digits
    OBVIOUS
  <2> QED BY <2>1, <2>2
<1>5. text = sign \o rest
  <2>1. text = (sign \o w) \o behind
    BY DEF Made, behind
  <2>2. (sign \o w) \o behind = sign \o (w \o behind)
    <3>1. sign \in Seq(Nat) /\ w \in Seq(Nat) /\ behind \in Seq(Nat)
      BY <1>1, <1>2
    <3> QED BY <3>1, Behind
  <2> QED BY <2>1, <2>2
<1> HIDE DEF rest, text
<1>6. text \in Seq(Nat) /\ Unsigned(text) = rest /\ (Head(text) = Minus <=> sign = <<Minus>>)
  <2>1. CASE sign = <<>>
    <3>1. text = rest
      BY <1>3, <1>5, <2>1
    <3>2. ~Signed(text) /\ Head(text) # Minus
      BY <1>4, <3>1, DigitsAreNumbers DEF Signed
    <3>3. sign # <<Minus>>
      BY <2>1
    <3> QED BY <1>3, <3>1, <3>2, <3>3 DEF Unsigned
  <2>2. CASE sign = <<Minus>>
    <3>1. sign \in Seq(Nat) /\ sign # <<>> /\ Len(sign) = 1 /\ sign[1] = Minus
      BY <1>1, <2>2
    <3>2. text \in Seq(Nat) /\ text # <<>> /\ Head(text) = Minus /\ Tail(text) = rest
      BY <1>3, <1>5, <3>1, HeadOfJoined
    <3>3. Signed(text)
      BY <3>2 DEF Signed
    <3> QED BY <2>2, <3>2, <3>3 DEF Unsigned
  <2> QED BY <2>1, <2>2
<1>7. /\ WellFormed(text) <=> /\ w \o f # <<>>
                              /\ \A i \in 1 .. Len(w \o f) : (w \o f)[i] \in Digits
                              /\ Len(f) <= E8Digits
      /\ Parse(text) = IF ~WellFormed(text) \/ m > MaxInt THEN {}
                       ELSE {IF Head(text) = Minus THEN -m ELSE m}
  BY <1>3, <1>6, ParseIs
<1>8. w \o f # <<>> /\ w \o f \in Seq(Digits)
  <2>1. w \o f # <<>>
    BY <1>1, HeadOfJoined
  <2>2. w \o f \in Seq(Digits)
    OBVIOUS
  <2> QED BY <2>1, <2>2
<1>9. \A i \in 1 .. Len(w \o f) : (w \o f)[i] \in Digits
  <2> DEFINE both == w \o f
  <2>1. both \in Seq(Digits)
    BY <1>8
  <2> HIDE DEF both
  <2>2. \A i \in 1 .. Len(both) : both[i] \in Digits
    BY <2>1
  <2> QED BY <2>2 DEF both
<1>10. WellFormed(text)
  BY <1>7, <1>8, <1>9
<1> HIDE DEF m
<1>11. Parse(text) = IF m > MaxInt THEN {} ELSE {IF sign = <<Minus>> THEN -m ELSE m}
  BY <1>6, <1>7, <1>10
<1> QED BY <1>6, <1>11 DEF m, text

\* Rounding to a unit, with the carry: the parts put together again are half a
\* unit off at most, and the part behind the point stays below the scale.
LEMMA RoundedIs ==
    ASSUME NEW magnitude \in Nat, NEW scale \in Nat \ {0}, NEW unit \in Nat \ {0}
    PROVE  LET left     == magnitude % (scale * unit)
               rounded  == (left \div unit) + (IF 2 * (left % unit) >= unit THEN 1 ELSE 0)
               carry    == rounded >= scale
               whole    == (magnitude \div (scale * unit)) + (IF carry THEN 1 ELSE 0)
               fraction == IF carry THEN 0 ELSE rounded
           IN  /\ whole \in Nat /\ fraction \in Nat /\ fraction < scale
               /\ 2 * ((whole * scale + fraction) * unit - magnitude) \in -unit .. unit
<1> DEFINE all      == scale * unit
           left     == magnitude % all
           top      == magnitude \div all
           q        == left \div unit
           r        == left % unit
           up       == IF 2 * r >= unit THEN 1 ELSE 0
           rounded  == q + up
           carry    == rounded >= scale
           whole    == top + (IF carry THEN 1 ELSE 0)
           fraction == IF carry THEN 0 ELSE rounded
<1>1. all \in Nat \ {0}
  OBVIOUS
<1>2. top \in Nat /\ left \in Nat /\ left < all /\ magnitude = top * all + left
  <2> HIDE DEF all
  <2> QED BY <1>1, DivIs
<1>3. q \in Nat /\ r \in Nat /\ r < unit /\ left = q * unit + r
  <2> HIDE DEF left
  <2> QED BY <1>2, DivIs
<1> HIDE DEF top, left, q, r
<1>4. q < scale
  <2> SUFFICES ASSUME q >= scale PROVE FALSE
    BY <1>3
  <2> DEFINE d == q - scale
  <2>1. d \in Nat /\ q = scale + d
    BY <1>3
  <2> HIDE DEF d
  <2>2. q * unit = scale * unit + d * unit /\ d * unit \in Nat /\ scale * unit \in Nat
    BY <1>3, <2>1
  <2> QED BY <1>2, <1>3, <2>2
<1>5. up \in {0, 1}
  OBVIOUS
<1>6. rounded \in Nat /\ rounded <= scale
  BY <1>3, <1>4, <1>5
<1>7. whole \in Nat /\ fraction \in Nat /\ fraction < scale
  <2> HIDE DEF rounded
  <2> QED BY <1>2, <1>6
<1>8. whole * scale + fraction = top * scale + rounded
  <2>1. CASE carry
    <3>1. rounded = scale /\ whole = top + 1 /\ fraction = 0
      <4> HIDE DEF rounded
      <4> QED BY <1>6, <2>1
    <3> QED BY <1>2, <3>1
  <2>2. CASE ~carry
    <3>1. whole = top /\ fraction = rounded
      <4> HIDE DEF rounded
      <4> QED BY <1>2, <2>2
    <3> QED BY <3>1
  <2> QED BY <2>1, <2>2
<1> HIDE DEF whole, fraction, carry
<1>9. (top * scale + rounded) * unit = (top * all + q * unit) + up * unit
  <2>1. rounded = q + up
    OBVIOUS
  <2> HIDE DEF rounded, up
  <2>2. (top * scale + (q + up)) * unit = (top * (scale * unit) + q * unit) + up * unit
    BY <1>2, <1>3, <1>5
  <2> QED BY <2>1, <2>2
<1>10. (top * scale + rounded) * unit - magnitude = up * unit - r
  <2> DEFINE x == top * all
             y == q * unit
  <2>1. x \in Nat /\ y \in Nat
    BY <1>2, <1>3
  <2>2. magnitude = x + (y + r) /\ (top * scale + rounded) * unit = (x + y) + up * unit
    BY <1>2, <1>3, <1>9
  <2>3. up * unit \in Nat
    BY <1>5
  <2> HIDE DEF x, y, up, rounded
  <2> QED BY <1>3, <2>1, <2>2, <2>3
<1>11. 2 * (up * unit - r) \in -unit .. unit
  <2>1. CASE 2 * r >= unit
    <3>1. up * unit = unit
      BY <2>1
    <3> QED BY <1>3, <2>1, <3>1
  <2>2. CASE ~(2 * r >= unit)
    <3>1. up * unit = 0
      BY <2>2
    <3> QED BY <1>3, <2>2, <3>1
  <2> QED BY <2>1, <2>2
<1>12. 2 * ((whole * scale + fraction) * unit - magnitude) \in -unit .. unit
  <2> HIDE DEF rounded, up
  <2> QED BY <1>8, <1>10, <1>11
<1> QED BY <1>7, <1>12 DEF whole, fraction, carry, top, left, q, r

Magnitude(x) == IF x < 0 THEN -x ELSE x

LEMMA PrintedIs ==
    ASSUME NEW raw \in Int, NEW decimals \in 0 .. E8Digits
    PROVE  LET unit == Ten[E8Digits - decimals]
           IN  \E sign \in {<<>>, <<Minus>>}, w \in Seq(Digits), f \in Seq(Digits), n \in Nat :
                   /\ Format(raw, decimals) = Made(sign, w, f)
                   /\ w # <<>> /\ Len(f) = decimals
                   /\ Value(w) * E8 + Value(f) * unit = n * unit
                   /\ 2 * (n * unit - Magnitude(raw)) \in -unit .. unit
                   /\ sign = <<Minus>> <=> raw < 0 /\ n # 0
<1> DEFINE magnitude == Magnitude(raw)
           unit      == Ten[E8Digits - decimals]
           scale     == Ten[decimals]
           left      == magnitude % E8
           rounded   == (left \div unit) + (IF 2 * (left % unit) >= unit THEN 1 ELSE 0)
           carry     == rounded >= scale
           whole     == (magnitude \div E8) + (IF carry THEN 1 ELSE 0)
           fraction  == IF carry THEN 0 ELSE rounded
           negative  == raw < 0 /\ (whole # 0 \/ fraction # 0)
           sign      == IF negative THEN <<Minus>> ELSE <<>>
           w         == DigitsOf(whole, 1)
           f         == IF decimals > 0 THEN DigitsOf(fraction, decimals) ELSE <<>>
           n         == whole * scale + fraction
<1>1. decimals \in Nat /\ E8Digits - decimals \in Nat /\ decimals + (E8Digits - decimals) = E8Digits
  BY FixedAssumption
<1>2. unit \in Nat \ {0} /\ scale \in Nat \ {0}
  BY <1>1, TenIs
<1>3. E8 = scale * unit
  <2>1. Ten[decimals + (E8Digits - decimals)] = Ten[decimals] * Ten[E8Digits - decimals]
    BY <1>1, TenSum
  <2> QED BY <1>1, <2>1 DEF E8
<1>4. magnitude \in Nat
  BY DEF Magnitude
<1>5. Format(raw, decimals) =
          ((IF negative THEN <<Minus>> ELSE <<>>) \o w)
              \o (IF decimals > 0 THEN <<Point>> \o DigitsOf(fraction, decimals) ELSE <<>>)
  BY DEF Format, Magnitude
<1> HIDE DEF magnitude, unit, scale
<1>6. /\ whole \in Nat /\ fraction \in Nat /\ fraction < scale
      /\ 2 * (n * unit - magnitude) \in -unit .. unit
  BY <1>2, <1>3, <1>4, RoundedIs
<1> HIDE DEF whole, fraction
<1>7. w \in Seq(Digits) /\ w # <<>> /\ Value(w) = whole
  <2>1. w \in Seq(Digits) /\ Len(w) >= 1 /\ Value(w) = whole
    BY <1>6, DigitsAre
  <2> HIDE DEF w
  <2> QED BY <2>1
<1>8. f \in Seq(Digits) /\ Len(f) = decimals /\ Value(f) = fraction
  <2>1. CASE decimals > 0
    <3>1. f = DigitsOf(fraction, decimals) /\ decimals >= 1 /\ fraction < Ten[decimals]
      BY <1>1, <1>6, <2>1 DEF scale
    <3>2. f \in Seq(Digits) /\ Value(f) = fraction /\ Len(f) = decimals
      <4> DEFINE g == DigitsOf(fraction, decimals)
      <4>1. fraction \in Nat /\ decimals \in Nat /\ fraction < Ten[decimals] /\ decimals >= 1
        BY <1>1, <1>6, <3>1
      <4>2. g \in Seq(Digits) /\ Value(g) = fraction /\ Len(g) = decimals
        BY <4>1, DigitsAre
      <4> HIDE DEF g, f
      <4> QED BY <3>1, <4>2 DEF g
    <3> QED BY <3>2
  <2>2. CASE ~(decimals > 0)
    <3>1. f = <<>> /\ decimals = 0
      BY <1>1, <2>2
    <3>2. fraction = 0
      <4>1. scale = 1
        BY <3>1, TenIs DEF scale
      <4> QED BY <1>6, <4>1
    <3> QED BY <3>1, <3>2, ValueOfNone
  <2> QED BY <2>1, <2>2
<1>9. Format(raw, decimals) = Made(sign, w, f)
  <2>1. CASE decimals > 0
    <3>1. f # <<>>
      <4> HIDE DEF f
      <4>1. Len(<<>>) = 0
        OBVIOUS
      <4> QED BY <1>8, <2>1, <4>1
    <3>2. f = DigitsOf(fraction, decimals)
      BY <2>1
    <3> HIDE DEF w, f, negative
    <3> QED BY <1>5, <2>1, <3>1, <3>2 DEF Made
  <2>2. CASE ~(decimals > 0)
    <3>1. f = <<>>
      BY <2>2
    <3> HIDE DEF w, f, negative
    <3> QED BY <1>5, <2>2, <3>1 DEF Made
  <2> QED BY <2>1, <2>2
<1>10. n \in Nat /\ (n # 0 <=> (whole # 0 \/ fraction # 0))
  <2>1. whole * scale \in Nat /\ (whole * scale = 0 <=> whole = 0)
    BY <1>2, <1>6
  <2> DEFINE x == whole * scale
  <2>2. x \in Nat /\ (x = 0 <=> whole = 0) /\ n = x + fraction
    BY <2>1
  <2> HIDE DEF x, n
  <2> QED BY <1>6, <2>2
<1>11. Value(w) * E8 + Value(f) * unit = n * unit
  <2>1. whole * (scale * unit) + fraction * unit = (whole * scale + fraction) * unit
    BY <1>2, <1>6
  <2> HIDE DEF w, f
  <2> QED BY <1>3, <1>7, <1>8, <2>1
<1>12. sign \in {<<>>, <<Minus>>} /\ (sign = <<Minus>> <=> raw < 0 /\ n # 0)
  <2>1. <<Minus>> # <<>>
    OBVIOUS
  <2> HIDE DEF n
  <2> QED BY <1>10, <2>1
<1> HIDE DEF n, sign, w, f
<1> QED BY <1>6, <1>7, <1>8, <1>9, <1>10, <1>11, <1>12 DEF unit, magnitude

LEMMA PrintedOnes ==
    ASSUME decValue \in Int
    PROVE  PrintedIsNearest
<1> SUFFICES ASSUME NEW decimals \in 0 .. E8Digits, NEW v \in Parse(Format(decValue, decimals))
             PROVE  /\ 2 * (v - decValue) \in -Ten[E8Digits - decimals] .. Ten[E8Digits - decimals]
                    /\ v = 0 => Head(Format(decValue, decimals)) # Minus
  BY DEF PrintedIsNearest
<1> DEFINE unit == Ten[E8Digits - decimals]
           text == Format(decValue, decimals)
<1>1. unit \in Nat \ {0} /\ decimals \in Nat
  BY FixedAssumption, TenIs
<1>2. PICK sign \in {<<>>, <<Minus>>}, w \in Seq(Digits), f \in Seq(Digits), n \in Nat :
          /\ text = Made(sign, w, f)
          /\ w # <<>> /\ Len(f) = decimals
          /\ Value(w) * E8 + Value(f) * unit = n * unit
          /\ 2 * (n * unit - Magnitude(decValue)) \in -unit .. unit
          /\ sign = <<Minus>> <=> decValue < 0 /\ n # 0
  BY PrintedIs
<1> DEFINE m == Value(w) * E8 + Value(f) * Ten[E8Digits - Len(f)]
<1>3. m = n * unit
  BY <1>2
<1>4. /\ Parse(text) = IF m > MaxInt THEN {} ELSE {IF sign = <<Minus>> THEN -m ELSE m}
      /\ Head(text) = Minus <=> sign = <<Minus>>
  <2>1. Len(f) <= E8Digits
    BY <1>1, <1>2, FixedAssumption
  <2> HIDE DEF text
  <2> QED BY <1>2, <2>1, MadeIsRead
<1> HIDE DEF m
<1>5. v = IF sign = <<Minus>> THEN -m ELSE m
  <2> HIDE DEF text
  <2>1. v \in Parse(text)
    BY DEF text
  <2> QED BY <1>4, <2>1
<1>6. m \in Nat /\ (m = 0 <=> n = 0)
  BY <1>1, <1>3
<1>7. 2 * (m - Magnitude(decValue)) \in -unit .. unit
  BY <1>2, <1>3
<1>8. 2 * (v - decValue) \in -unit .. unit
  <2> HIDE DEF unit, text
  <2>1. CASE sign = <<Minus>>
    <3>1. decValue < 0 /\ v = -m /\ Magnitude(decValue) = -decValue
      BY <1>2, <1>5, <2>1 DEF Magnitude
    <3> QED BY <1>1, <1>6, <1>7, <3>1
  <2>2. CASE sign # <<Minus>> /\ decValue < 0
    <3>1. m = 0 /\ v = 0 /\ Magnitude(decValue) = -decValue
      BY <1>2, <1>5, <1>6, <2>2 DEF Magnitude
    <3> QED BY <1>1, <1>7, <3>1
  <2>3. CASE sign # <<Minus>> /\ ~(decValue < 0)
    <3>1. v = m /\ Magnitude(decValue) = decValue
      BY <1>5, <2>3 DEF Magnitude
    <3> QED BY <1>7, <3>1
  <2> QED BY <2>1, <2>2, <2>3
<1>9. v = 0 => Head(text) # Minus
  <2> HIDE DEF text
  <2> QED BY <1>2, <1>4, <1>5, <1>6
<1> QED BY <1>8, <1>9

LEMMA Alike ==
    ASSUME NEW n \in Nat, NEW a \in [1 .. n -> Nat], NEW b \in [1 .. n -> Nat], \A i \in 1 .. n : a[i] = b[i]
    PROVE  a = b
  OBVIOUS

\* Cutting the zeros off the end of a text with a point, and the point with
\* them when nothing is left behind it.
LEMMA TrimIs ==
    ASSUME NEW front \in Seq(Nat), NEW f \in Seq(Digits)
    PROVE  LET text == front \o (<<Point>> \o f)
           IN  \E j \in 0 .. Len(f) :
                   /\ \A i \in j + 1 .. Len(f) : f[i] = 0
                   /\ j # 0 => Trim(text) = front \o (<<Point>> \o SubSeq(f, 1, j))
                   /\ j = 0 => Trim(text) = front
<1> DEFINE pt == <<Point>>
           q == pt \o f
           text == front \o q
           c == Len(front)
           k == Len(f)
           Good(i) == /\ \A j \in i + 1 .. Len(text) : text[j] = 0
                      /\ i = 0 \/ text[i] # 0
           last == CHOOSE i \in 0 .. Len(text) : Good(i)
<1>1. pt \in Seq(Nat) /\ Len(pt) = 1 /\ pt[1] = Point /\ f \in Seq(Nat)
  BY DigitsAreNumbers, DigitsAreNat
<1> HIDE DEF pt
<1>2. /\ q \in Seq(Nat) /\ Len(q) = 1 + k
      /\ q[1] = Point /\ \A i \in 1 .. k : q[1 + i] = f[i]
  <2>1. pt \in Seq(Nat) /\ f \in Seq(Nat)
    BY <1>1
  <2>2. /\ pt \o f \in Seq(Nat) /\ Len(pt \o f) = Len(pt) + Len(f)
        /\ \A i \in 1 .. Len(pt) : (pt \o f)[i] = pt[i]
        /\ \A i \in 1 .. Len(f) : (pt \o f)[Len(pt) + i] = f[i]
    BY <2>1, Joined
  <2> QED BY <1>1, <2>2
<1> HIDE DEF q
<1>3. /\ text \in Seq(Nat) /\ Len(text) = c + Len(q)
      /\ \A i \in 1 .. c : text[i] = front[i]
      /\ \A i \in 1 .. Len(q) : text[c + i] = q[i]
  <2>1. front \in Seq(Nat) /\ q \in Seq(Nat)
    BY <1>2
  <2> QED BY <2>1, Joined
<1> HIDE DEF text
<1>4. c \in Nat /\ k \in Nat /\ Len(text) = c + 1 + k
  BY <1>2, <1>3
<1>5. text[c + 1] = Point
  <2>1. 1 \in 1 .. Len(q)
    BY <1>2, <1>4
  <2> QED BY <1>2, <1>3, <2>1
<1>6. \A i \in 1 .. k : text[c + 1 + i] = f[i]
  <2>1. ASSUME NEW i \in 1 .. k PROVE text[c + 1 + i] = f[i]
    <3>1. 1 + i \in 1 .. Len(q) /\ c + (1 + i) = c + 1 + i
      BY <1>2, <1>4
    <3> QED BY <1>2, <1>3, <3>1
  <2> QED BY <2>1
<1>7. \E i \in 0 .. Len(text) : Good(i)
  <2> DEFINE S == {i \in 0 .. Len(text) : \A j \in i + 1 .. Len(text) : text[j] = 0}
  <2>1. Len(text) \in S
    BY <1>4
  <2>2. S \subseteq Nat /\ S # {}
    BY SMTT(60), <1>4, <2>1
  <2> HIDE DEF S
  <2>3. PICK i \in S : \A x \in S : i <= x
    BY <2>2, LeastNat
  <2>4. i \in 0 .. Len(text) /\ \A j \in i + 1 .. Len(text) : text[j] = 0
    BY <2>3 DEF S
  <2>5. ASSUME i # 0, text[i] = 0 PROVE FALSE
    <3>1. i - 1 \in 0 .. Len(text) /\ ~(i <= i - 1)
      BY <1>4, <2>4, <2>5
    <3>2. ASSUME NEW j \in (i - 1) + 1 .. Len(text) PROVE text[j] = 0
      <4>1. j = i \/ j \in i + 1 .. Len(text)
        BY <1>4, <2>4, <2>5
      <4> QED BY <2>4, <2>5, <4>1
    <3>3. i - 1 \in S
      BY <3>1, <3>2 DEF S
    <3> QED BY <2>3, <3>1, <3>3
  <2>6. Good(i)
    BY <2>4, <2>5
  <2> HIDE DEF Good
  <2> QED BY <2>4, <2>6
<1>8. last \in 0 .. Len(text) /\ Good(last)
  <2> HIDE DEF Good
  <2> QED BY <1>7
<1>9. Trim(text) = SubSeq(text, 1, IF text[last] = Point THEN last - 1 ELSE last)
  <2>1. c + 1 \in 1 .. Len(text)
    BY <1>4
  <2>2. Contains(text, Point)
    BY <1>5, <2>1 DEF Contains
  <2> QED BY <2>2 DEF Trim
<1> HIDE DEF last
<1>10. last >= c + 1
  <2> SUFFICES ASSUME last < c + 1 PROVE FALSE
    BY <1>4, <1>8
  <2>1. c + 1 \in last + 1 .. Len(text)
    BY <1>4, <1>8
  <2>2. text[c + 1] = 0
    BY <1>8, <2>1
  <2> QED BY <1>5, <2>2 DEF Point
<1> DEFINE j == last - (c + 1)
<1>11. j \in 0 .. k /\ last = c + 1 + j
  BY <1>4, <1>8, <1>10
<1> HIDE DEF j
<1>12. ASSUME NEW i \in j + 1 .. k PROVE f[i] = 0
  <2>1. c + 1 + i \in last + 1 .. Len(text) /\ i \in 1 .. k
    BY <1>4, <1>11
  <2> QED BY <1>6, <1>8, <2>1
<1> HIDE DEF Good, c, k
<1>13. ASSUME j = 0 PROVE Trim(text) = front
  <2>1. last = c + 1 /\ last - 1 = c /\ text[last] = Point
    BY <1>4, <1>5, <1>11, <1>13
  <2>2. Trim(text) = SubSeq(text, 1, c)
    BY <1>9, <2>1
  <2> DEFINE s == SubSeq(text, 1, c)
  <2>3. s \in Seq(Nat) /\ Len(s) = c /\ \A i \in 1 .. c : s[i] = text[i]
    BY <1>3, <1>4
  <2> HIDE DEF s
  <2>4. s \in [1 .. c -> Nat] /\ front \in [1 .. c -> Nat]
    BY <2>3 DEF c
  <2>5. \A i \in 1 .. c : s[i] = front[i]
    BY <1>3, <2>3
  <2>6. s = front
    BY <1>4, <2>4, <2>5, Alike
  <2> QED BY <2>2, <2>6 DEF s
<1>14. ASSUME j # 0 PROVE Trim(text) = front \o (pt \o SubSeq(f, 1, j))
  <2>1. j \in 1 .. k
    BY <1>4, <1>11, <1>14
  <2>2. text[last] = f[j] /\ f[j] \in Digits
    <3>1. f[j] \in Digits
      BY <2>1 DEF k
    <3> QED BY <1>6, <1>11, <2>1, <3>1
  <2>3. text[last] # Point
    BY <2>2, DigitsAreNumbers
  <2>4. Trim(text) = SubSeq(text, 1, last)
    BY <1>9, <2>3
  <2> DEFINE g == SubSeq(f, 1, j)
             s == SubSeq(text, 1, last)
             t == front \o (pt \o g)
  <2>5. g \in Seq(Nat) /\ Len(g) = j /\ \A i \in 1 .. j : g[i] = f[i]
    BY <1>1, <1>4, <2>1 DEF k
  <2>6. s \in Seq(Nat) /\ Len(s) = last /\ \A i \in 1 .. last : s[i] = text[i]
    BY <1>3, <1>4, <1>8, <1>10
  <2> HIDE DEF g, s
  <2> DEFINE r == pt \o g
  <2>7. /\ r \in Seq(Nat) /\ Len(r) = 1 + j
        /\ r[1] = Point /\ \A i \in 1 .. j : r[1 + i] = g[i]
    <3>1. pt \in Seq(Nat) /\ g \in Seq(Nat)
      BY <1>1, <2>5
    <3>2. /\ pt \o g \in Seq(Nat) /\ Len(pt \o g) = Len(pt) + Len(g)
          /\ \A i \in 1 .. Len(pt) : (pt \o g)[i] = pt[i]
          /\ \A i \in 1 .. Len(g) : (pt \o g)[Len(pt) + i] = g[i]
      BY <3>1, Joined
    <3> QED BY <1>1, <2>5, <3>2
  <2> HIDE DEF r
  <2>8. /\ t \in Seq(Nat) /\ Len(t) = c + Len(r)
        /\ \A i \in 1 .. c : t[i] = front[i]
        /\ \A i \in 1 .. Len(r) : t[c + i] = r[i]
    <3>1. front \in Seq(Nat) /\ r \in Seq(Nat)
      BY <2>7
    <3>2. /\ front \o r \in Seq(Nat) /\ Len(front \o r) = Len(front) + Len(r)
          /\ \A i \in 1 .. Len(front) : (front \o r)[i] = front[i]
          /\ \A i \in 1 .. Len(r) : (front \o r)[Len(front) + i] = r[i]
      BY <3>1, Joined
    <3> QED BY <3>2 DEF c, r
  <2> HIDE DEF t
  <2>9. Len(t) = last
    BY <1>4, <1>11, <2>7, <2>8
  <2>10. ASSUME NEW i \in 1 .. last PROVE s[i] = t[i]
    <3>1. CASE i <= c
      <4>1. i \in 1 .. c
        BY <1>4, <3>1
      <4> QED BY <1>3, <2>6, <2>8, <4>1
    <3>2. CASE i = c + 1
      <4>1. 1 \in 1 .. Len(r)
        BY <2>1, <2>7, <1>4
      <4> QED BY <1>5, <2>6, <2>7, <2>8, <3>2, <4>1
    <3>3. CASE i > c + 1
      <4> DEFINE x == i - (c + 1)
      <4>1. x \in 1 .. j /\ x \in 1 .. k /\ c + 1 + x = i /\ 1 + x \in 1 .. Len(r) /\ c + (1 + x) = i
        BY <1>4, <1>11, <2>1, <2>7, <3>3
      <4> HIDE DEF x
      <4>2. text[i] = f[x] /\ t[i] = r[1 + x] /\ r[1 + x] = g[x] /\ g[x] = f[x]
        BY <1>6, <2>5, <2>7, <2>8, <4>1
      <4> QED BY <2>6, <4>2
    <3> QED BY <1>4, <3>1, <3>2, <3>3
  <2>11. s \in [1 .. last -> Nat] /\ t \in [1 .. last -> Nat]
    BY <2>6, <2>8, <2>9
  <2>12. s = t
    <3>1. last \in Nat /\ \A i \in 1 .. last : s[i] = t[i]
      BY <1>4, <1>8, <2>10
    <3> QED BY <2>11, <3>1, Alike
  <2> QED BY <2>4, <2>12 DEF s, t, g, r
<1> QED BY <1>11, <1>12, <1>13, <1>14 DEF text, q, pt, k

\* The digits that are cut off are worth nothing.
LEMMA TrimmedIsWorth ==
    ASSUME NEW f \in Seq(Digits), NEW j \in 0 .. Len(f), \A i \in j + 1 .. Len(f) : f[i] = 0,
           Len(f) <= E8Digits
    PROVE  LET g == SubSeq(f, 1, j)
           IN  /\ g \in Seq(Digits) /\ Len(g) = j
               /\ Value(g) * Ten[E8Digits - j] = Value(f) * Ten[E8Digits - Len(f)]
<1> DEFINE g == SubSeq(f, 1, j)
           k == Len(f)
           h == SubSeq(f, j + 1, k)
<1>0. k \in Nat /\ j \in Nat /\ k - j \in Nat /\ E8Digits - k \in Nat /\ E8Digits - j = (k - j) + (E8Digits - k)
  BY FixedAssumption
<1>1. g \in Seq(Digits) /\ Len(g) = j /\ \A i \in 1 .. j : g[i] = f[i]
  <2>1. j <= k
    OBVIOUS
  <2> QED BY <1>0, <2>1
<1>2. /\ h \in Seq(Digits) /\ Len(h) = k - j
      /\ \A i \in 1 .. k - j : h[i] = f[j + i]
  <2>1. CASE j = k
    <3>1. SubSeq(f, k + 1, k) = <<>> /\ <<>> \in Seq(Digits) /\ Len(<<>>) = 0
      OBVIOUS
    <3> QED BY <1>0, <2>1, <3>1
  <2>2. CASE j # k
    <3>1. j + 1 \in 1 .. k /\ k \in 1 .. k /\ k - (j + 1) + 1 = k - j
      BY <1>0, <2>2
    <3>2. \A a \in 1 .. Len(f) : \A b \in 1 .. Len(f) : a <= b =>
              /\ SubSeq(f, a, b) \in Seq(Digits) /\ Len(SubSeq(f, a, b)) = b - a + 1
              /\ \A i \in 1 .. b - a + 1 : SubSeq(f, a, b)[i] = f[a + i - 1]
      OBVIOUS
    <3>3. h \in Seq(Digits) /\ Len(h) = k - j /\ \A i \in 1 .. k - j : h[i] = f[(j + 1) + i - 1]
      BY <3>1, <3>2
    <3>4. \A i \in 1 .. k - j : (j + 1) + i - 1 = j + i
      BY <1>0
    <3> QED BY <3>3, <3>4
  <2> QED BY <2>1, <2>2
<1> HIDE DEF g, h
<1>3. \A i \in 1 .. Len(h) : h[i] = 0
  <2>1. ASSUME NEW i \in 1 .. k - j PROVE h[i] = 0
    <3>1. j + i \in j + 1 .. Len(f)
      BY <1>0
    <3> QED BY <1>2, <3>1
  <2> QED BY <1>2, <2>1
<1>4. g \in Seq(Nat) /\ h \in Seq(Nat) /\ f \in Seq(Nat)
  BY <1>1, <1>2, DigitsAreNat
<1>5. f = g \o h
  <2> DEFINE t == g \o h
  <2>1. /\ t \in Seq(Nat) /\ Len(t) = Len(g) + Len(h)
        /\ \A i \in 1 .. Len(g) : t[i] = g[i]
        /\ \A i \in 1 .. Len(h) : t[Len(g) + i] = h[i]
    <3>1. g \in Seq(Nat) /\ h \in Seq(Nat)
      BY <1>4
    <3> QED BY <3>1, Joined
  <2> HIDE DEF t
  <2>2. ASSUME NEW i \in 1 .. k PROVE t[i] = f[i]
    <3>1. CASE i <= j
      <4>1. i \in 1 .. j
        BY <1>0, <3>1
      <4> QED BY <1>1, <2>1, <4>1
    <3>2. CASE i > j
      <4>1. i - j \in 1 .. k - j /\ j + (i - j) = i
        BY <1>0, <3>2
      <4>2. t[Len(g) + (i - j)] = h[i - j]
        BY <1>2, <2>1, <4>1
      <4>3. h[i - j] = f[j + (i - j)]
        BY <1>2, <4>1
      <4> QED BY <1>1, <4>1, <4>2, <4>3
    <3> QED BY <1>0, <3>1, <3>2
  <2>3. t \in [1 .. k -> Nat] /\ f \in [1 .. k -> Nat]
    BY SMTT(60), <1>0, <1>1, <1>2, <1>4, <2>1
  <2>4. t = f
    BY <2>2, <2>3
  <2> QED BY <2>4 DEF t
<1>6. Value(h) = 0
  BY <1>3, <1>4, ValueOfZeros
<1>7. Value(g \o h) = Value(g) * Ten[Len(h)] + Value(h)
  BY <1>4, ValueOfBoth
<1>8. Value(f) = Value(g) * Ten[k - j] + 0
  BY <1>2, <1>5, <1>6, <1>7
<1>9. Value(g) \in Nat
  BY <1>4, ValueIsNat
<1>10. Ten[k - j] \in Nat /\ Ten[E8Digits - k] \in Nat
  BY <1>0, TenIs
<1>11. Ten[E8Digits - j] = Ten[k - j] * Ten[E8Digits - k]
  <2>1. Ten[(k - j) + (E8Digits - k)] = Ten[k - j] * Ten[E8Digits - k]
    BY <1>0, TenSum
  <2> QED BY <1>0, <2>1
<1>12. Value(g) * Ten[E8Digits - j] = Value(f) * Ten[E8Digits - k]
  <2> DEFINE a == Value(g)
             x == Ten[k - j]
             y == Ten[E8Digits - k]
  <2>1. a \in Nat /\ x \in Nat /\ y \in Nat /\ Value(f) = a * x + 0 /\ Ten[E8Digits - j] = x * y
    BY <1>8, <1>9, <1>10, <1>11
  <2> HIDE DEF a, x, y
  <2>2. a * (x * y) = (a * x + 0) * y
    BY <2>1
  <2> QED BY <2>1, <2>2 DEF a, y
<1> QED BY <1>1, <1>12 DEF g, k

LEMMA PrintedAndRead ==
    ASSUME decValue \in Int, Magnitude(decValue) <= MaxInt
    PROVE  PrintedIsReadBack
<1> DEFINE text == Format(decValue, E8Digits)
           mag == Magnitude(decValue)
<1>1. E8Digits \in Nat \ {0} /\ E8Digits \in 0 .. E8Digits /\ E8Digits - E8Digits = 0 /\ Ten[0] = 1 /\ MaxInt \in Nat
  BY FixedAssumption, TenIs
<1>2. PICK sign \in {<<>>, <<Minus>>}, w \in Seq(Digits), f \in Seq(Digits), n \in Nat :
          /\ text = Made(sign, w, f)
          /\ w # <<>> /\ Len(f) = E8Digits
          /\ Value(w) * E8 + Value(f) * 1 = n * 1
          /\ 2 * (n * 1 - mag) \in -1 .. 1
          /\ sign = <<Minus>> <=> decValue < 0 /\ n # 0
  <2>1. LET unit == Ten[E8Digits - E8Digits]
        IN  \E sign \in {<<>>, <<Minus>>}, w \in Seq(Digits), f \in Seq(Digits), n \in Nat :
                /\ text = Made(sign, w, f)
                /\ w # <<>> /\ Len(f) = E8Digits
                /\ Value(w) * E8 + Value(f) * unit = n * unit
                /\ 2 * (n * unit - mag) \in -unit .. unit
                /\ sign = <<Minus>> <=> decValue < 0 /\ n # 0
    BY <1>1, PrintedIs
  <2>2. Ten[E8Digits - E8Digits] = 1
    BY <1>1
  <2> HIDE DEF text, mag
  <2> QED BY <2>1, <2>2
<1>3. mag \in Nat
  BY DEF Magnitude
<1>4. n = mag
  <2> HIDE DEF mag
  <2> QED BY <1>2, <1>3
<1>5. f \in Seq(Nat) /\ w \in Seq(Nat)
  BY DigitsAreNat
<1>6. Value(f) \in Nat /\ Value(w) \in Nat /\ E8 \in Nat
  BY <1>1, <1>5, ValueIsNat, TenIs DEF E8
<1>7. Value(w) * E8 + Value(f) * Ten[E8Digits - Len(f)] = mag
  <2>1. Ten[E8Digits - Len(f)] = 1
    BY <1>1, <1>2
  <2> HIDE DEF mag
  <2> QED BY <1>2, <1>4, <2>1
<1>8. (IF sign = <<Minus>> THEN -mag ELSE mag) = decValue
  BY <1>2, <1>4 DEF Magnitude
<1> HIDE DEF text, mag
<1>9. Parse(text) = {decValue}
  <2>1. Parse(Made(sign, w, f)) = IF mag > MaxInt THEN {} ELSE {IF sign = <<Minus>> THEN -mag ELSE mag}
    <3>1. Len(f) <= E8Digits /\ w # <<>>
      BY <1>1, <1>2
    <3> QED BY <1>7, <3>1, MadeIsRead
  <2>2. ~(mag > MaxInt)
    BY <1>1, <1>3 DEF mag
  <2> QED BY <1>2, <1>8, <2>1, <2>2
<1>10. Parse(Trim(text)) = {decValue}
  <2> DEFINE front == sign \o w
  <2>1. front \in Seq(Nat)
    <3>1. sign \in Seq(Nat)
      <4>1. <<Minus>> \in Seq(Nat) /\ <<>> \in Seq(Nat)
        BY DigitsAreNumbers
      <4> QED BY <4>1
    <3> QED BY <1>5, <3>1
  <2>2. text = front \o (<<Point>> \o f)
    <3>1. f # <<>>
      <4>1. Len(<<>>) = 0
        OBVIOUS
      <4> QED BY <1>1, <1>2, <4>1
    <3> QED BY <1>2, <3>1 DEF Made
  <2> HIDE DEF front
  <2>3. PICK j \in 0 .. Len(f) :
            /\ \A i \in j + 1 .. Len(f) : f[i] = 0
            /\ j # 0 => Trim(text) = front \o (<<Point>> \o SubSeq(f, 1, j))
            /\ j = 0 => Trim(text) = front
    BY <2>1, <2>2, TrimIs
  <2> DEFINE g == SubSeq(f, 1, j)
  <2>4. g \in Seq(Digits) /\ Len(g) = j /\ Value(g) * Ten[E8Digits - j] = Value(f) * Ten[E8Digits - Len(f)]
    <3>1. Len(f) <= E8Digits
      BY <1>1, <1>2
    <3> QED BY <2>3, <3>1, TrimmedIsWorth
  <2>5. Trim(text) = Made(sign, w, g)
    <3> HIDE DEF g
    <3>1. CASE j = 0
      <4>1. g = <<>>
        BY <2>4, <3>1
      <4>2. front \o <<>> = front
        BY <2>1
      <4> QED BY <2>3, <3>1, <4>1, <4>2 DEF Made, front
    <3>2. CASE j # 0
      <4>1. g # <<>>
        <5>1. Len(<<>>) = 0
          OBVIOUS
        <5> QED BY <2>4, <3>2, <5>1
      <4>2. Trim(text) = front \o (<<Point>> \o g)
        BY <2>3, <3>2 DEF g
      <4> QED BY <4>1, <4>2 DEF Made, front
    <3> QED BY <3>1, <3>2
  <2> HIDE DEF g
  <2>6. Parse(Made(sign, w, g)) = IF mag > MaxInt THEN {} ELSE {IF sign = <<Minus>> THEN -mag ELSE mag}
    <3>1. Len(g) <= E8Digits /\ w # <<>> /\ Value(w) * E8 + Value(g) * Ten[E8Digits - Len(g)] = mag
      <4>1. Len(g) = j /\ j <= E8Digits
        BY <1>1, <1>2, <2>3, <2>4
      <4> QED BY <1>2, <1>7, <2>4, <4>1
    <3> QED BY <2>4, <3>1, MadeIsRead
  <2>7. ~(mag > MaxInt)
    BY <1>1, <1>3 DEF mag
  <2> QED BY <1>8, <2>5, <2>6, <2>7
<1> QED BY <1>9, <1>10 DEF PrintedIsReadBack, text

LEMMA MidsAreBetween ==
    ASSUME decValue \in Int
    PROVE  MidIsBetween
<1> SUFFICES ASSUME NEW other \in decValue - 3 .. decValue + 3
             PROVE  /\ Mid(decValue, other) = Mid(other, decValue)
                    /\ 2 * Mid(decValue, other) \in {decValue + other, decValue + other - 1}
  BY DEF MidIsBetween
<1>1. other \in Int
  OBVIOUS
<1>2. CASE decValue = other
  BY <1>1, <1>2 DEF Mid
<1>3. CASE decValue < other
  <2>1. ~(other <= decValue) /\ decValue <= other /\ (other - decValue) \in Nat
    BY <1>1, <1>3
  <2>2. Mid(decValue, other) = decValue + (other - decValue) \div 2 /\ Mid(other, decValue) = decValue + (other - decValue) \div 2
    BY <2>1 DEF Mid
  <2> DEFINE d == other - decValue
  <2>3. d \in Nat /\ other = decValue + d
    BY <1>1, <2>1
  <2> HIDE DEF d
  <2>4. 2 * (d \div 2) \in {d, d - 1} /\ d \div 2 \in Int
    BY <2>3
  <2> QED BY <2>2, <2>3, <2>4 DEF d
<1>4. CASE other < decValue
  <2>1. ~(decValue <= other) /\ other <= decValue /\ (decValue - other) \in Nat
    BY <1>1, <1>4
  <2>2. Mid(decValue, other) = other + (decValue - other) \div 2 /\ Mid(other, decValue) = other + (decValue - other) \div 2
    BY <2>1 DEF Mid
  <2> DEFINE d == decValue - other
  <2>3. d \in Nat /\ decValue = other + d
    BY <1>1, <2>1
  <2> HIDE DEF d
  <2>4. 2 * (d \div 2) \in {d, d - 1} /\ d \div 2 \in Int
    BY <2>3
  <2> QED BY <1>1, <2>2, <2>3, <2>4 DEF d
<1> QED BY <1>1, <1>2, <1>3, <1>4

\* A text of characters, and a value the type holds.
DecInv == decText \in Seq(Nat) /\ decValue \in -MaxValue .. MaxValue

\* What is parsed is the number that is written, to the digit, and refused when
\* it is not one, whatever the text, the scale and the largest number; what is
\* printed is read back as it was, or is the nearest there is; and a midpoint is
\* between its prices (fixed.rs, parse_scaled, format_scaled,
\* trim_trailing_zeros and Price::mid).
THEOREM NumbersStayExact == DecInit /\ [][DecNext]_decVars => []NumbersAreExact
<1>1. DecInit => DecInv
  <2>1. -MaxValue \in -MaxValue .. MaxValue
    BY DecimalAssumption
  <2> QED BY <2>1 DEF DecInit, DecInv
<1>2. DecInv /\ [DecNext]_decVars => DecInv'
  <2> SUFFICES ASSUME DecInv, [DecNext]_decVars PROVE DecInv'
    OBVIOUS
  <2>1. MaxValue \in Nat
    BY DecimalAssumption
  <2>2. ASSUME NEW c \in Characters, decText' = Append(decText, c), UNCHANGED decValue PROVE DecInv'
    <3>1. c \in Nat
      BY DecimalAssumption
    <3> QED BY <2>2, <3>1 DEF DecInv
  <2>3. ASSUME decValue < MaxValue, decValue' = decValue + 1, UNCHANGED decText PROVE DecInv'
    BY <2>1, <2>3 DEF DecInv
  <2>4. ASSUME UNCHANGED decVars PROVE DecInv'
    BY <2>4 DEF DecInv, decVars
  <2> QED BY <2>2, <2>3, <2>4 DEF DecNext
<1>3. DecInv => NumbersAreExact
  <2> SUFFICES ASSUME DecInv PROVE NumbersAreExact
    OBVIOUS
  <2>1. decText \in Seq(Nat) /\ decValue \in Int /\ Magnitude(decValue) <= MaxInt
    BY DecimalAssumption, FixedAssumption DEF DecInv, Magnitude
  <2>2. ParseIsExact
    BY <2>1, TextIsReadExactly
  <2>3. PrintedIsReadBack
    BY <2>1, PrintedAndRead
  <2>4. PrintedIsNearest
    BY <2>1, PrintedOnes
  <2>5. MidIsBetween
    BY <2>1, MidsAreBetween
  <2> QED BY <2>2, <2>3, <2>4, <2>5 DEF NumbersAreExact
<1> QED BY <1>1, <1>2, <1>3, PTL

--------------------------------------------------------------------------------
(* The buckets of a histogram.                                             *)

LEMMA RatioIs ==
    /\ OverTo[0] = 1 /\ \A k \in Nat : OverTo[k] \in Nat \ {0} /\ OverTo[k + 1] = RatioOver * OverTo[k]
    /\ UnderTo[0] = 1 /\ \A k \in Nat : UnderTo[k] \in Nat \ {0} /\ UnderTo[k + 1] = RatioUnder * UnderTo[k]
    /\ RatioOver \in Nat \ {0} /\ RatioUnder \in Nat \ {0} /\ RatioOver >= RatioUnder
<1> DEFINE f == OverTo
           g == UnderTo
<1>1. f = CHOOSE h : h = [k \in Nat |-> IF k = 0 THEN 1 ELSE RatioOver * h[k - 1]]
  BY DEF OverTo
<1>2. g = CHOOSE h : h = [k \in Nat |-> IF k = 0 THEN 1 ELSE RatioUnder * h[k - 1]]
  BY DEF UnderTo
<1>3. RatioOver \in Nat \ {0} /\ RatioUnder \in Nat \ {0} /\ RatioOver >= RatioUnder
  BY LatencyAssumption
<1> HIDE DEF f, g
<1>4. f[0] = 1 /\ \A k \in Nat : f[k] \in Nat \ {0} /\ f[k + 1] = RatioOver * f[k]
  BY <1>1, <1>3, PowersOf
<1>5. g[0] = 1 /\ \A k \in Nat : g[k] \in Nat \ {0} /\ g[k + 1] = RatioUnder * g[k]
  BY <1>2, <1>3, PowersOf
<1> QED BY <1>3, <1>4, <1>5 DEF f, g

LEMMA Cancel ==
    ASSUME NEW a \in Nat, NEW b \in Nat, NEW c \in Nat \ {0}, a * c <= b * c
    PROVE  a <= b
<1> SUFFICES ASSUME b < a PROVE FALSE
  OBVIOUS
<1> DEFINE d == a - b
<1>1. d \in Nat \ {0} /\ a = b + d
  OBVIOUS
<1> HIDE DEF d
<1>2. a * c = b * c + d * c /\ d * c \in Nat \ {0} /\ b * c \in Nat
  BY <1>1
<1> QED BY <1>2

LEMMA Scales ==
    ASSUME NEW a \in Nat, NEW b \in Nat, NEW c \in Nat, a <= b
    PROVE  a * c <= b * c /\ c * a <= c * b
<1> DEFINE d == b - a
<1>1. d \in Nat /\ b = a + d
  OBVIOUS
<1> HIDE DEF d
<1>2. b * c = a * c + d * c /\ c * b = c * a + c * d /\ d * c \in Nat /\ c * d \in Nat /\ a * c \in Nat /\ c * a \in Nat
  BY <1>1
<1> QED BY <1>2

\* What is below a power of the ratio is below every higher one.
LEMMA StaysBelow ==
    ASSUME NEW x \in Nat, NEW j \in Nat, NEW k \in Nat, j <= k, x * UnderTo[j] <= OverTo[j]
    PROVE  x * UnderTo[k] <= OverTo[k]
<1> DEFINE n == k - j
           S == {i \in 0 .. n : x * UnderTo[j + i] <= OverTo[j + i]}
<1>1. n \in Nat /\ j + n = k /\ j + 0 = j
  OBVIOUS
<1>2. 0 \in S
  BY <1>1
<1>3. ASSUME NEW i \in 0 .. n - 1, i \in S PROVE i + 1 \in S
  <2>1. j + i \in Nat /\ j + (i + 1) = (j + i) + 1 /\ i + 1 \in 0 .. n
    BY <1>1
  <2>2. x * UnderTo[j + i] <= OverTo[j + i]
    BY <1>3
  <2> DEFINE u == UnderTo[j + i]
             o == OverTo[j + i]
  <2>3. /\ u \in Nat /\ o \in Nat /\ UnderTo[j + (i + 1)] = RatioUnder * u /\ OverTo[j + (i + 1)] = RatioOver * o
        /\ RatioUnder \in Nat /\ RatioOver \in Nat /\ RatioUnder <= RatioOver
    BY <2>1, RatioIs
  <2>4. x * u <= o
    BY <2>2
  <2> HIDE DEF u, o
  <2>5. x * u \in Nat
    BY <2>3
  <2>6. RatioUnder * (x * u) <= RatioUnder * o
    BY <2>3, <2>4, <2>5, Scales
  <2>7. RatioUnder * o <= RatioOver * o
    BY <2>3, Scales
  <2>8. x * (RatioUnder * u) = RatioUnder * (x * u)
    BY <2>3
  <2>9. RatioUnder * (x * u) \in Nat /\ RatioUnder * o \in Nat /\ RatioOver * o \in Nat
    BY <2>3, <2>5
  <2>10. x * (RatioUnder * u) <= RatioOver * o
    BY <2>6, <2>7, <2>8, <2>9
  <2> QED BY <2>1, <2>3, <2>10
<1>4. n \in S
  <2>1. n \in 0 .. n
    BY <1>1
  <2> HIDE DEF S, n
  <2> QED BY <1>1, <1>2, <1>3, <2>1, Climb
<1> QED BY <1>1, <1>4

\* What Max returns, of a nonempty set of naturals up to a bound.
LEMMA MaxOfNats ==
    ASSUME NEW S, S \subseteq Nat, S # {}, NEW n \in Nat, \A x \in S : x <= n
    PROVE  Max(S) \in S /\ \A y \in S : y <= Max(S)
<1> DEFINE T == {n - x : x \in S}
<1>1. T \subseteq Nat /\ T # {}
  <2>1. \A x \in S : n - x \in Nat
    OBVIOUS
  <2>2. T \subseteq Nat
    BY <2>1
  <2>3. PICK x \in S : TRUE
    OBVIOUS
  <2>4. n - x \in T
    BY <2>3
  <2> QED BY <2>2, <2>4
<1>2. PICK t \in T : \A u \in T : t <= u
  <2> HIDE DEF T
  <2> QED BY <1>1, LeastNat
<1>3. PICK x \in S : t = n - x
  BY <1>2
<1>4. ASSUME NEW y \in S PROVE x >= y
  <2>1. n - y \in T
    OBVIOUS
  <2>2. t <= n - y
    BY <1>2, <2>1
  <2> QED BY <1>3, <2>2
<1>5. \E m \in S : \A y \in S : m >= y
  BY <1>4
<1>6. Max(S) \in S /\ \A y \in S : Max(S) >= y
  BY <1>5 DEF Max
<1> QED BY <1>6

LEMMA BucketIs ==
    ASSUME NEW v \in Nat
    PROVE  /\ BucketOf(v) \in 0 .. Buckets - 1
           /\ v = 0 => BucketOf(v) = 0
           /\ v # 0 /\ v >= MaxTracked => BucketOf(v) = Buckets - 1
           /\ v # 0 /\ v < MaxTracked =>
                /\ OverTo[BucketOf(v)] <= v * UnderTo[BucketOf(v)]
                /\ \A i \in 0 .. Buckets - 1 : OverTo[i] <= v * UnderTo[i] => i <= BucketOf(v)
<1>1. Buckets \in Nat \ {0} /\ MaxTracked \in Nat
  BY LatencyAssumption
<1>2. CASE v = 0
  BY <1>1, <1>2 DEF BucketOf
<1>3. CASE v # 0 /\ v >= MaxTracked
  BY <1>1, <1>3 DEF BucketOf
<1>4. CASE v # 0 /\ v < MaxTracked
  <2> DEFINE S == {i \in 0 .. Buckets - 1 : OverTo[i] <= v * UnderTo[i]}
             n == Buckets - 1
  <2>1. BucketOf(v) = Max(S)
    BY <1>1, <1>4 DEF BucketOf
  <2>2. n \in Nat /\ S \subseteq Nat /\ \A x \in S : x <= n
    BY <1>1
  <2>3. 0 \in S
    <3>1. OverTo[0] = 1 /\ UnderTo[0] = 1
      BY RatioIs
    <3>2. OverTo[0] <= v * UnderTo[0]
      BY <1>4, <3>1
    <3> QED BY <1>1, <3>2
  <2> HIDE DEF n
  <2>4. Max(S) \in S /\ \A y \in S : y <= Max(S)
    <3> HIDE DEF S
    <3> QED BY <2>2, <2>3, MaxOfNats
  <2> DEFINE b == Max(S)
  <2>5. b \in 0 .. Buckets - 1 /\ OverTo[b] <= v * UnderTo[b] /\ \A y \in S : y <= b
    BY <2>4
  <2> HIDE DEF b
  <2>6. \A i \in 0 .. Buckets - 1 : OverTo[i] <= v * UnderTo[i] => i <= b
    BY <2>5
  <2> HIDE DEF S
  <2> QED BY <1>1, <1>4, <2>1, <2>5, <2>6 DEF b
<1> QED BY <1>1, <1>2, <1>3, <1>4

\* A larger value is in no lower bucket.
LEMMA BucketsOrdered ==
    ASSUME NEW v \in Nat, NEW u \in Nat, v <= u
    PROVE  BucketOf(v) <= BucketOf(u)
<1>1. MaxTracked \in Nat /\ Buckets \in Nat \ {0}
  BY LatencyAssumption
<1>2. BucketOf(v) \in 0 .. Buckets - 1 /\ BucketOf(u) \in 0 .. Buckets - 1
  BY BucketIs
<1>3. CASE v = 0
  BY <1>1, <1>2, <1>3, BucketIs
<1>4. CASE v # 0 /\ u >= MaxTracked
  <2>1. BucketOf(u) = Buckets - 1
    BY <1>1, <1>4, BucketIs
  <2> QED BY <1>1, <1>2, <2>1
<1>5. CASE v # 0 /\ u < MaxTracked
  <2> DEFINE b == BucketOf(v)
  <2>1. v < MaxTracked /\ u # 0
    BY <1>1, <1>5
  <2>2. OverTo[b] <= v * UnderTo[b]
    BY <1>5, <2>1, BucketIs
  <2>3. \A i \in 0 .. Buckets - 1 : OverTo[i] <= u * UnderTo[i] => i <= BucketOf(u)
    BY <1>5, <2>1, BucketIs
  <2>4. b \in Nat /\ b \in 0 .. Buckets - 1
    BY <1>1, <1>2
  <2> HIDE DEF b
  <2>5. UnderTo[b] \in Nat /\ OverTo[b] \in Nat
    BY <2>4, RatioIs
  <2>6. v * UnderTo[b] <= u * UnderTo[b] /\ v * UnderTo[b] \in Nat /\ u * UnderTo[b] \in Nat
    BY <2>5, Scales
  <2>7. OverTo[b] <= u * UnderTo[b]
    BY <2>2, <2>5, <2>6
  <2>8. b <= BucketOf(u)
    BY <2>3, <2>4, <2>7
  <2> QED BY <2>8 DEF b
<1> QED BY <1>1, <1>3, <1>4, <1>5

\* What bucket_upper says, below its cap and at it.
LEMMA UpperIs ==
    ASSUME NEW i \in Nat
    PROVE  LET x == BucketUpper(i)
               q == OverTo[i + 1] \div UnderTo[i + 1]
           IN  /\ x \in Nat /\ x <= MaxTracked /\ x <= q /\ (x = MaxTracked \/ x = q)
               /\ x * UnderTo[i + 1] <= OverTo[i + 1]
               /\ q \in Nat /\ q * UnderTo[i + 1] <= OverTo[i + 1]
               /\ \A y \in Nat : y * UnderTo[i + 1] <= OverTo[i + 1] => y <= q
<1> DEFINE o == OverTo[i + 1]
           u == UnderTo[i + 1]
           q == o \div u
           x == BucketUpper(i)
<1>1. o \in Nat /\ u \in Nat \ {0} /\ MaxTracked \in Nat
  BY RatioIs, LatencyAssumption
<1> HIDE DEF o, u
<1>2. q \in Nat /\ o = u * q + (o % u) /\ o % u \in 0 .. u - 1
  BY <1>1
<1> DEFINE r == o % u
<1>3. r \in Nat /\ r < u /\ o = u * q + r
  BY <1>1, <1>2
<1>4. x = Min({MaxTracked, q})
  BY DEF BucketUpper, o, u
<1> HIDE DEF q, r, x
<1>5. x \in {MaxTracked, q} /\ x <= MaxTracked /\ x <= q
  <2>1. {MaxTracked, q} \subseteq Nat /\ {MaxTracked, q} # {}
    BY <1>1, <1>2
  <2> DEFINE S == {MaxTracked, q}
  <2>2. Min(S) \in S /\ \A y \in S : Min(S) <= y
    <3> HIDE DEF S
    <3>1. S \subseteq Nat /\ S # {}
      BY <2>1 DEF S
    <3> QED BY <3>1, MinOfNats
  <2> QED BY <1>4, <2>2
<1>6. x \in Nat
  BY <1>1, <1>2, <1>5
<1>7. q * u <= o
  <2>1. u * q = q * u /\ u * q \in Nat
    BY <1>1, <1>2
  <2> QED BY <1>1, <1>3, <2>1
<1>8. x * u <= o
  <2>1. x * u <= q * u
    BY <1>1, <1>2, <1>5, <1>6, Scales
  <2>2. x * u \in Nat /\ q * u \in Nat
    BY <1>1, <1>2, <1>6
  <2> QED BY <1>1, <1>7, <2>1, <2>2
<1>9. ASSUME NEW y \in Nat, y * u <= o PROVE y <= q
  <2> SUFFICES ASSUME q < y PROVE FALSE
    BY <1>2
  <2> DEFINE d == y - q - 1
  <2>1. d \in Nat /\ y = q + 1 + d
    BY <1>2
  <2> HIDE DEF d
  <2>2. y * u = u * q + u + d * u /\ d * u \in Nat /\ u * q \in Nat
    BY <1>1, <1>2, <2>1
  <2> QED BY <1>1, <1>3, <1>9, <2>2
<1> QED BY <1>2, <1>5, <1>6, <1>7, <1>8, <1>9 DEF o, u, q, x

\* A higher bucket has no lower bound.
LEMMA UpperGrows ==
    ASSUME NEW i \in Nat, NEW k \in Nat, i <= k
    PROVE  BucketUpper(i) <= BucketUpper(k)
<1> DEFINE x == BucketUpper(i)
           y == BucketUpper(k)
           q == OverTo[k + 1] \div UnderTo[k + 1]
<1>1. x \in Nat /\ x <= MaxTracked /\ x * UnderTo[i + 1] <= OverTo[i + 1]
  BY UpperIs
<1>2. y \in Nat /\ (y = MaxTracked \/ y = q) /\ \A z \in Nat : z * UnderTo[k + 1] <= OverTo[k + 1] => z <= q
  BY UpperIs
<1> HIDE DEF x, y, q
<1>3. i + 1 \in Nat /\ k + 1 \in Nat /\ i + 1 <= k + 1
  OBVIOUS
<1>4. x * UnderTo[k + 1] <= OverTo[k + 1]
  BY <1>1, <1>3, StaysBelow
<1>5. x <= y
  BY <1>1, <1>2, <1>4
<1> QED BY <1>5 DEF x, y

\* The bound of a bucket but the last is not below what is in it, and above it
\* by the ratio at most.
LEMMA UpperCovers ==
    ASSUME NEW v \in Nat, BucketOf(v) # Buckets - 1
    PROVE  /\ v <= BucketUpper(BucketOf(v))
           /\ BucketUpper(BucketOf(v)) * RatioUnder <= Max({v, 1}) * RatioOver
<1> DEFINE b == BucketOf(v)
           x == BucketUpper(b)
           q == OverTo[b + 1] \div UnderTo[b + 1]
<1>1. Buckets \in Nat \ {0} /\ MaxTracked \in Nat
  BY LatencyAssumption
<1>2. /\ b \in 0 .. Buckets - 1
      /\ v = 0 => b = 0
      /\ v # 0 /\ v >= MaxTracked => b = Buckets - 1
      /\ v # 0 /\ v < MaxTracked =>
           /\ OverTo[b] <= v * UnderTo[b]
           /\ \A i \in 0 .. Buckets - 1 : OverTo[i] <= v * UnderTo[i] => i <= b
  BY BucketIs
<1> HIDE DEF b
<1>3. b \in Nat /\ b + 1 \in 0 .. Buckets - 1 /\ b + 1 \in Nat
  <2>1. b # Buckets - 1
    BY DEF b
  <2> QED BY <1>1, <1>2, <2>1
<1>4. /\ x \in Nat /\ (x = MaxTracked \/ x = q) /\ x * UnderTo[b + 1] <= OverTo[b + 1]
      /\ q \in Nat /\ \A y \in Nat : y * UnderTo[b + 1] <= OverTo[b + 1] => y <= q
  BY <1>3, UpperIs
<1> HIDE DEF x, q
<1> DEFINE o == OverTo[b]
           u == UnderTo[b]
<1>5. /\ o \in Nat \ {0} /\ u \in Nat \ {0} /\ OverTo[b + 1] = RatioOver * o /\ UnderTo[b + 1] = RatioUnder * u
      /\ RatioOver \in Nat \ {0} /\ RatioUnder \in Nat \ {0}
      /\ OverTo[b + 1] \in Nat /\ UnderTo[b + 1] \in Nat
  BY <1>3, RatioIs
<1>6. CASE v = 0
  <2>1. b = 0 /\ o = 1 /\ u = 1
    BY <1>2, <1>6, RatioIs
  <2>2. Max({v, 1}) = 1
    <3>1. \A y \in {0, 1} : y <= 1
      OBVIOUS
    <3>2. Max({0, 1}) = 1
      <4>1. Max({0, 1}) \in {0, 1} /\ \A y \in {0, 1} : y <= Max({0, 1})
        <5> DEFINE S == {0, 1}
        <5>1. S \subseteq Nat /\ S # {} /\ \A y \in S : y <= 1
          OBVIOUS
        <5>2. Max(S) \in S /\ \A y \in S : y <= Max(S)
          <6> HIDE DEF S
          <6> QED BY <5>1, MaxOfNats
        <5> QED BY <5>2
      <4> QED BY <4>1
    <3> QED BY <1>6, <3>2
  <2>3. x * RatioUnder <= RatioOver
    <3>1. RatioUnder * u = RatioUnder /\ RatioOver * o = RatioOver
      BY <1>5, <2>1
    <3> QED BY <1>4, <1>5, <3>1
  <2>4. 1 * RatioOver = RatioOver
    BY <1>5
  <2> QED BY <1>4, <1>6, <2>2, <2>3, <2>4 DEF x, b
<1>7. CASE v # 0
  <2>0. v < MaxTracked
    BY <1>1, <1>2, <1>3, <1>7
  <2>1. o <= v * u /\ ~(OverTo[b + 1] <= v * UnderTo[b + 1])
    <3>1. ~(b + 1 <= b)
      BY <1>3
    <3> QED BY <1>2, <1>3, <1>7, <2>0, <3>1
  <2>2. v <= x
    <3>1. v * UnderTo[b + 1] <= OverTo[b + 1]
      <4>1. v * UnderTo[b + 1] \in Nat
        BY <1>5
      <4> QED BY <1>5, <2>1, <4>1
    <3>2. v <= q
      BY <1>4, <3>1
    <3> QED BY <1>1, <1>4, <2>0, <3>2
  <2>3. Max({v, 1}) = v
    <3> DEFINE S == {v, 1}
    <3>1. S \subseteq Nat /\ S # {} /\ \A y \in S : y <= v
      BY <1>7
    <3>2. Max(S) \in S /\ \A y \in S : y <= Max(S)
      <4> HIDE DEF S
      <4> QED BY <3>1, MaxOfNats
    <3> QED BY <1>7, <3>2
  <2>4. x * RatioUnder <= v * RatioOver
    <3> HIDE DEF o, u
    <3>1. x * (RatioUnder * u) <= RatioOver * o
      BY <1>4, <1>5
    <3>2. RatioOver * o <= RatioOver * (v * u)
      <4>1. v * u \in Nat
        BY <1>5
      <4> QED BY <1>5, <2>1, <4>1, Scales
    <3>3. x * (RatioUnder * u) = (x * RatioUnder) * u /\ RatioOver * (v * u) = (v * RatioOver) * u
      BY <1>4, <1>5
    <3>4. (x * RatioUnder) * u \in Nat /\ (v * RatioOver) * u \in Nat /\ RatioOver * o \in Nat
      BY <1>4, <1>5
    <3>5. (x * RatioUnder) * u <= (v * RatioOver) * u
      BY <3>1, <3>2, <3>3, <3>4
    <3>6. x * RatioUnder \in Nat /\ v * RatioOver \in Nat
      BY <1>4, <1>5
    <3> QED BY <1>5, <3>5, <3>6, Cancel
  <2> QED BY <2>2, <2>3, <2>4 DEF x, b
<1> QED BY <1>6, <1>7

\* What is in the last bucket is past every other bucket's bound.
LEMMA LastIsPast ==
    ASSUME NEW v \in Nat, BucketOf(v) = Buckets - 1, NEW i \in 0 .. Buckets - 2
    PROVE  BucketUpper(i) <= v
<1> DEFINE x == BucketUpper(i)
           n == Buckets - 1
<1>1. Buckets \in Nat \ {0} /\ MaxTracked \in Nat /\ i \in Nat /\ i + 1 \in Nat /\ n \in Nat /\ i + 1 <= n /\ n # 0
      /\ n \in 0 .. Buckets - 1
  BY LatencyAssumption
<1>2. x \in Nat /\ x <= MaxTracked /\ x * UnderTo[i + 1] <= OverTo[i + 1]
  BY <1>1, UpperIs
<1> HIDE DEF x
<1>3. x * UnderTo[n] <= OverTo[n]
  <2> HIDE DEF n
  <2> QED BY <1>1, <1>2, StaysBelow
<1>4. v # 0
  BY <1>1, BucketIs
<1>5. CASE v >= MaxTracked
  BY <1>1, <1>2, <1>5 DEF x
<1>6. CASE v < MaxTracked
  <2>1. OverTo[n] <= v * UnderTo[n]
    BY <1>4, <1>6, BucketIs
  <2>2. UnderTo[n] \in Nat \ {0} /\ OverTo[n] \in Nat
    <3> HIDE DEF n
    <3> QED BY <1>1, RatioIs
  <2> DEFINE u == UnderTo[n]
             o == OverTo[n]
  <2>3. x * u <= o /\ o <= v * u /\ u \in Nat \ {0} /\ o \in Nat
    BY <1>3, <2>1, <2>2
  <2> HIDE DEF u, o
  <2>4. x * u \in Nat /\ v * u \in Nat
    BY <1>2, <2>3
  <2>5. x * u <= v * u
    BY <2>3, <2>4
  <2> QED BY <1>2, <2>3, <2>5, Cancel DEF x
<1> QED BY <1>1, <1>5, <1>6


--------------------------------------------------------------------------------
(* Sums and histograms of sequences.                                       *)

\* f is the running sum of s.
SumTo(f, s) == f[0] = 0 /\ \A n \in 1 .. Len(s) : f[n] = f[n - 1] + s[n]

LEMMA TotalUnrolls ==
    ASSUME NEW s \in Seq(Nat)
    PROVE  \E f \in [0 .. Len(s) -> Nat] : SumTo(f, s) /\ Total(s) = f[Len(s)]
<1> DEFINE N == Len(s)
           step == [p \in (1 .. N) \X Nat |-> p[2] + s[p[1]]]
<1>1. step \in [(1 .. N) \X Nat -> Nat]
  <2>1. ASSUME NEW p \in (1 .. N) \X Nat PROVE p[2] + s[p[1]] \in Nat
    <3>1. p[1] \in 1 .. N /\ p[2] \in Nat
      OBVIOUS
    <3>2. s[p[1]] \in Nat
      BY <3>1
    <3> QED BY <3>1, <3>2
  <2> QED BY <2>1
<1>2. N \in Nat /\ 0 \in Nat
  OBVIOUS
<1>3. PICK f \in [0 .. N -> Nat] : Unrolled(f, N, 0, step)
  <2> HIDE DEF step, N
  <2> QED BY <1>1, <1>2, Recursion
<1>4. f[0] = 0
  BY <1>3 DEF Unrolled
<1>5. ASSUME NEW n \in 1 .. N PROVE f[n] = f[n - 1] + s[n]
  <2>1. f[n] = step[<<n, f[n - 1]>>]
    BY <1>3 DEF Unrolled
  <2>2. n - 1 \in 0 .. N
    BY <1>2
  <2>3. f[n - 1] \in Nat
    BY <2>2
  <2>4. <<n, f[n - 1]>> \in (1 .. N) \X Nat
    BY <2>3
  <2> QED BY <2>1, <2>4
<1> DEFINE Body(g) == [n \in 0 .. N |-> IF n = 0 THEN 0 ELSE g[n - 1] + s[n]]
           sum == CHOOSE g : g = Body(g)
<1>6. f = Body(f)
  <2>1. ASSUME NEW n \in 0 .. N PROVE f[n] = IF n = 0 THEN 0 ELSE f[n - 1] + s[n]
    <3>1. CASE n = 0
      BY <1>4, <3>1
    <3>2. CASE n # 0
      <4>1. n \in 1 .. N
        BY <1>2, <3>2
      <4> HIDE DEF N
      <4> QED BY <1>5, <3>2, <4>1
    <3> QED BY <3>1, <3>2
  <2>2. Body(f) = [n \in 0 .. N |-> f[n]]
    BY <2>1
  <2>3. f = [n \in 0 .. N |-> f[n]]
    OBVIOUS
  <2> QED BY <2>2, <2>3
<1>7. sum = Body(sum)
  <2> HIDE DEF Body
  <2> QED BY <1>6
<1>8. Total(s) = sum[N]
  BY DEF Total
<1>9. sum[0] = 0 /\ \A n \in 1 .. N : sum[n] = sum[n - 1] + s[n]
  <2>1. ASSUME NEW n \in 0 .. N PROVE sum[n] = IF n = 0 THEN 0 ELSE sum[n - 1] + s[n]
    <3> HIDE DEF sum
    <3> QED BY <1>7
  <2> HIDE DEF sum
  <2> QED BY <1>2, <2>1
<1> HIDE DEF sum, step, Body
<1> DEFINE S == {n \in 0 .. N : sum[n] = f[n]}
<1>10. 0 \in S
  BY <1>2, <1>4, <1>9
<1>11. ASSUME NEW n \in 0 .. N - 1, n \in S PROVE n + 1 \in S
  <2>1. n + 1 \in 1 .. N /\ (n + 1) - 1 = n /\ n + 1 \in 0 .. N
    BY <1>2
  <2>2. sum[n] = f[n]
    BY <1>11
  <2>3. sum[n + 1] = f[n + 1]
    BY <1>5, <1>9, <2>1, <2>2
  <2> QED BY <2>1, <2>3
<1>12. N \in S
  <2>1. N \in 0 .. N
    BY <1>2
  <2> HIDE DEF S, N
  <2> QED BY <1>2, <1>10, <1>11, <2>1, Climb
<1>13. sum[N] = f[N]
  BY <1>12
<1> QED BY <1>4, <1>5, <1>8, <1>13 DEF SumTo

LEMMA TotalIsNat ==
    ASSUME NEW s \in Seq(Nat)
    PROVE  Total(s) \in Nat /\ (Len(s) = 0 => Total(s) = 0)
<1>1. PICK f \in [0 .. Len(s) -> Nat] : SumTo(f, s) /\ Total(s) = f[Len(s)]
  BY TotalUnrolls
<1>2. Len(s) \in 0 .. Len(s)
  OBVIOUS
<1> QED BY <1>1, <1>2 DEF SumTo

\* One more number at the end.
LEMMA TotalGrows ==
    ASSUME NEW s \in Seq(Nat), NEW t \in Seq(Nat), Len(t) = Len(s) + 1, \A i \in 1 .. Len(s) : t[i] = s[i]
    PROVE  Total(t) = Total(s) + t[Len(t)]
<1> DEFINE n == Len(s)
<1>1. PICK f \in [0 .. Len(s) -> Nat] : SumTo(f, s) /\ Total(s) = f[Len(s)]
  BY TotalUnrolls
<1>2. PICK g \in [0 .. Len(t) -> Nat] : SumTo(g, t) /\ Total(t) = g[Len(t)]
  BY TotalUnrolls
<1> DEFINE S == {i \in 0 .. n : f[i] = g[i]}
<1>3. 0 \in S
  BY <1>1, <1>2 DEF SumTo
<1>4. ASSUME NEW i \in 0 .. n - 1, i \in S PROVE i + 1 \in S
  <2>1. i + 1 \in 1 .. Len(s) /\ i + 1 \in 1 .. Len(t) /\ (i + 1) - 1 = i /\ i + 1 \in 0 .. n
    OBVIOUS
  <2>2. f[i] = g[i] /\ s[i + 1] = t[i + 1]
    BY <1>4, <2>1
  <2>3. f[i + 1] = f[i] + s[i + 1]
    BY <1>1, <2>1 DEF SumTo
  <2>4. g[i + 1] = g[i] + t[i + 1]
    BY <1>2, <2>1 DEF SumTo
  <2> QED BY <2>1, <2>2, <2>3, <2>4
<1>5. f[n] = g[n]
  <2>1. n \in Nat /\ n \in 0 .. n
    OBVIOUS
  <2>2. n \in S
    <3> HIDE DEF S, n
    <3> QED BY <1>3, <1>4, <2>1, Climb
  <2> QED BY <2>2
<1>6. g[n + 1] = g[n] + t[n + 1]
  <2>1. n + 1 \in 1 .. Len(t) /\ (n + 1) - 1 = n
    OBVIOUS
  <2> QED BY <1>2, <2>1 DEF SumTo
<1> QED BY <1>1, <1>2, <1>5, <1>6

\* Sums add up.
LEMMA TotalsAdd ==
    ASSUME NEW s \in Seq(Nat), NEW t \in Seq(Nat), NEW u \in Seq(Nat),
           Len(s) = Len(u), Len(t) = Len(u), \A i \in 1 .. Len(u) : u[i] = s[i] + t[i]
    PROVE  Total(u) = Total(s) + Total(t)
<1> DEFINE n == Len(u)
<1>1. PICK f \in [0 .. Len(s) -> Nat] : SumTo(f, s) /\ Total(s) = f[Len(s)]
  BY TotalUnrolls
<1>2. PICK g \in [0 .. Len(t) -> Nat] : SumTo(g, t) /\ Total(t) = g[Len(t)]
  BY TotalUnrolls
<1>3. PICK h \in [0 .. Len(u) -> Nat] : SumTo(h, u) /\ Total(u) = h[Len(u)]
  BY TotalUnrolls
<1> DEFINE S == {i \in 0 .. n : h[i] = f[i] + g[i]}
<1>4. 0 \in S
  BY <1>1, <1>2, <1>3 DEF SumTo
<1>5. ASSUME NEW i \in 0 .. n - 1, i \in S PROVE i + 1 \in S
  <2>1. i + 1 \in 1 .. n /\ (i + 1) - 1 = i /\ i + 1 \in 0 .. n /\ i \in 0 .. n
    OBVIOUS
  <2>2. h[i] = f[i] + g[i] /\ u[i + 1] = s[i + 1] + t[i + 1]
    BY <1>5, <2>1
  <2>3. f[i + 1] = f[i] + s[i + 1]
    BY <1>1, <2>1 DEF SumTo
  <2>4. g[i + 1] = g[i] + t[i + 1]
    BY <1>2, <2>1 DEF SumTo
  <2>5. h[i + 1] = h[i] + u[i + 1]
    BY <1>3, <2>1 DEF SumTo
  <2>6. f[i] \in Nat /\ g[i] \in Nat /\ s[i + 1] \in Nat /\ t[i + 1] \in Nat
    <3>1. i \in 0 .. Len(s) /\ i \in 0 .. Len(t) /\ i + 1 \in 1 .. Len(s) /\ i + 1 \in 1 .. Len(t)
      BY <2>1
    <3>2. f \in [0 .. Len(s) -> Nat] /\ g \in [0 .. Len(t) -> Nat]
      BY <1>1, <1>2
    <3> QED BY <3>1, <3>2, ElementOfSeq
  <2>7. h[i + 1] = f[i + 1] + g[i + 1]
    <3> DEFINE A == f[i]
               B == g[i]
               C == s[i + 1]
               D == t[i + 1]
    <3>1. A \in Nat /\ B \in Nat /\ C \in Nat /\ D \in Nat
      BY <2>6
    <3>2. h[i + 1] = (A + B) + (C + D) /\ f[i + 1] = A + C /\ g[i + 1] = B + D
      BY <2>2, <2>3, <2>4, <2>5
    <3> HIDE DEF A, B, C, D
    <3>3. (A + B) + (C + D) = (A + C) + (B + D)
      BY <3>1
    <3> QED BY <3>2, <3>3
  <2> QED BY <2>1, <2>7
<1>6. n \in S
  <2>1. n \in Nat /\ n \in 0 .. n
    OBVIOUS
  <2> HIDE DEF S, n
  <2> QED BY <1>4, <1>5, <2>1, Climb
<1> QED BY <1>1, <1>2, <1>3, <1>6

Histograms == [counts : [0 .. Buckets - 1 -> Nat], count : Nat, sum : Nat, min : Nat, max : Nat]

LEMMA LeastAndMost ==
    ASSUME NEW a \in Nat, NEW b \in Nat
    PROVE  /\ Min({a, b}) \in {a, b} /\ Min({a, b}) <= a /\ Min({a, b}) <= b
           /\ Max({a, b}) \in {a, b} /\ Max({a, b}) >= a /\ Max({a, b}) >= b
           /\ Min({a, b}) = IF a <= b THEN a ELSE b
           /\ Max({a, b}) = IF a >= b THEN a ELSE b
<1> DEFINE S == {a, b}
<1>1. S \subseteq Nat /\ S # {} /\ \A x \in S : x <= a + b
  OBVIOUS
<1>2. Min(S) \in S /\ \A y \in S : Min(S) <= y
  <2> HIDE DEF S
  <2> QED BY <1>1, MinOfNats
<1>3. Max(S) \in S /\ \A y \in S : y <= Max(S)
  <2>1. a + b \in Nat
    OBVIOUS
  <2> HIDE DEF S
  <2> QED BY <1>1, <2>1, MaxOfNats
<1> QED BY <1>2, <1>3

LEMMA ObserveIs ==
    ASSUME NEW h \in Histograms, NEW v \in Nat
    PROVE  LET g == Observe(h, v)
           IN  /\ g \in Histograms
               /\ g.count = h.count + 1 /\ g.sum = h.sum + v
               /\ g.max = (IF h.max >= v THEN h.max ELSE v)
               /\ g.min = (IF h.count # 0 /\ h.min <= v THEN h.min ELSE v)
               /\ BucketOf(v) \in 0 .. Buckets - 1
               /\ \A i \in 0 .. Buckets - 1 :
                      g.counts[i] = h.counts[i] + (IF i = BucketOf(v) THEN 1 ELSE 0)
<1> DEFINE b == BucketOf(v)
           g == Observe(h, v)
           k == h.counts
           c == [k EXCEPT ![b] = @ + 1]
           lo == IF h.count = 0 THEN v ELSE Min({h.min, v})
           hi == Max({h.max, v})
<1>1. /\ h.counts \in [0 .. Buckets - 1 -> Nat] /\ h.count \in Nat /\ h.sum \in Nat
      /\ h.min \in Nat /\ h.max \in Nat
  BY DEF Histograms
<1>2. b \in 0 .. Buckets - 1
  BY BucketIs
<1>3. hi \in Nat /\ hi = IF h.max >= v THEN h.max ELSE v
  BY <1>1, LeastAndMost
<1>4. lo \in Nat /\ lo = IF h.count # 0 /\ h.min <= v THEN h.min ELSE v
  <2>1. Min({h.min, v}) = IF h.min <= v THEN h.min ELSE v
    BY <1>1, LeastAndMost
  <2> QED BY <1>1, <2>1
<1>5. g = [counts |-> c, count |-> h.count + 1, sum |-> h.sum + v, min |-> lo, max |-> hi]
  BY DEF Observe
<1> HIDE DEF b, lo, hi, g
<1>6. c \in [0 .. Buckets - 1 -> Nat]
      /\ \A i \in 0 .. Buckets - 1 : c[i] = h.counts[i] + (IF i = b THEN 1 ELSE 0)
  <2> DEFINE B == 0 .. Buckets - 1
  <2>1. k \in [B -> Nat] /\ b \in B
    BY <1>1, <1>2
  <2> HIDE DEF B, k
  <2>2. c \in [B -> Nat] /\ \A i \in B : c[i] = k[i] + (IF i = b THEN 1 ELSE 0)
    BY <2>1
  <2> QED BY <2>2 DEF B, k
<1> HIDE DEF c, k
<1>7. g \in Histograms
  BY <1>1, <1>3, <1>4, <1>5, <1>6 DEF Histograms
<1> QED BY <1>2, <1>3, <1>4, <1>5, <1>6, <1>7 DEF g, b

LEMMA EmptyIs ==
    /\ EmptyHistogram \in Histograms
    /\ EmptyHistogram.count = 0 /\ EmptyHistogram.sum = 0 /\ EmptyHistogram.min = 0 /\ EmptyHistogram.max = 0
    /\ \A i \in 0 .. Buckets - 1 : EmptyHistogram.counts[i] = 0
  BY DEF EmptyHistogram, Histograms

\* f is the histogram after each of the values of s.
ToldTo(f, s) == f[0] = EmptyHistogram /\ \A n \in 1 .. Len(s) : f[n] = Observe(f[n - 1], s[n])

LEMMA ToldUnrolls ==
    ASSUME NEW s \in Seq(Nat)
    PROVE  \E f \in [0 .. Len(s) -> Histograms] : ToldTo(f, s) /\ Told(s) = f[Len(s)]
<1> DEFINE N == Len(s)
           T == Histograms
           e == EmptyHistogram
           step == [p \in (1 .. N) \X T |-> Observe(p[2], s[p[1]])]
<1>1. step \in [(1 .. N) \X T -> T]
  <2>1. ASSUME NEW p \in (1 .. N) \X T PROVE Observe(p[2], s[p[1]]) \in T
    <3>1. p[1] \in 1 .. N /\ p[2] \in T
      OBVIOUS
    <3>2. s[p[1]] \in Nat
      BY <3>1
    <3> QED BY <3>1, <3>2, ObserveIs
  <2> QED BY <2>1
<1>2. N \in Nat /\ e \in T
  BY EmptyIs
<1> HIDE DEF T, e
<1>3. PICK f \in [0 .. N -> T] : Unrolled(f, N, e, step)
  <2> HIDE DEF step, N
  <2> QED BY <1>1, <1>2, Recursion
<1>4. f[0] = e
  BY <1>3 DEF Unrolled
<1>5. ASSUME NEW n \in 1 .. N PROVE f[n] = Observe(f[n - 1], s[n])
  <2>1. f[n] = step[<<n, f[n - 1]>>]
    BY <1>3 DEF Unrolled
  <2>2. n - 1 \in 0 .. N
    BY <1>2
  <2>3. f[n - 1] \in T
    BY <2>2
  <2>4. <<n, f[n - 1]>> \in (1 .. N) \X T
    BY <2>3
  <2> QED BY <2>1, <2>4
<1> DEFINE Body(g) == [n \in 0 .. N |-> IF n = 0 THEN e ELSE Observe(g[n - 1], s[n])]
           h == CHOOSE g : g = Body(g)
<1>6. f = Body(f)
  <2>1. ASSUME NEW n \in 0 .. N PROVE f[n] = IF n = 0 THEN e ELSE Observe(f[n - 1], s[n])
    <3>1. CASE n = 0
      BY <1>4, <3>1
    <3>2. CASE n # 0
      <4>1. n \in 1 .. N
        BY <1>2, <3>2
      <4> HIDE DEF N
      <4> QED BY <1>5, <3>2, <4>1
    <3> QED BY <3>1, <3>2
  <2>2. Body(f) = [n \in 0 .. N |-> f[n]]
    BY <2>1
  <2>3. f = [n \in 0 .. N |-> f[n]]
    OBVIOUS
  <2> QED BY <2>2, <2>3
<1>7. h = Body(h)
  <2> HIDE DEF Body
  <2> QED BY <1>6
<1>8. Told(s) = h[N]
  BY DEF Told, e
<1>9. h[0] = e /\ \A n \in 1 .. N : h[n] = Observe(h[n - 1], s[n])
  <2>1. ASSUME NEW n \in 0 .. N PROVE h[n] = IF n = 0 THEN e ELSE Observe(h[n - 1], s[n])
    <3> HIDE DEF h
    <3> QED BY <1>7
  <2> HIDE DEF h
  <2> QED BY <1>2, <2>1
<1> HIDE DEF h, step, Body
<1> DEFINE S == {n \in 0 .. N : h[n] = f[n]}
<1>10. 0 \in S
  BY <1>2, <1>4, <1>9
<1>11. ASSUME NEW n \in 0 .. N - 1, n \in S PROVE n + 1 \in S
  <2>1. n + 1 \in 1 .. N /\ (n + 1) - 1 = n /\ n + 1 \in 0 .. N
    BY <1>2
  <2>2. h[n] = f[n]
    BY <1>11
  <2>3. h[n + 1] = f[n + 1]
    BY <1>5, <1>9, <2>1, <2>2
  <2> QED BY <2>1, <2>3
<1>12. N \in S
  <2>1. N \in 0 .. N
    BY <1>2
  <2> HIDE DEF S, N
  <2> QED BY <1>2, <1>10, <1>11, <2>1, Climb
<1>13. h[N] = f[N]
  BY <1>12
<1> QED BY <1>4, <1>5, <1>8, <1>13 DEF ToldTo, T, e

LEMMA ToldType ==
    ASSUME NEW s \in Seq(Nat)
    PROVE  Told(s) \in Histograms /\ (Len(s) = 0 => Told(s) = EmptyHistogram)
<1>1. PICK f \in [0 .. Len(s) -> Histograms] : ToldTo(f, s) /\ Told(s) = f[Len(s)]
  BY ToldUnrolls
<1>2. Len(s) \in 0 .. Len(s)
  OBVIOUS
<1> QED BY <1>1, <1>2 DEF ToldTo

\* One more value at the end.
LEMMA ToldGrows ==
    ASSUME NEW s \in Seq(Nat), NEW t \in Seq(Nat), Len(t) = Len(s) + 1, \A i \in 1 .. Len(s) : t[i] = s[i]
    PROVE  Told(t) = Observe(Told(s), t[Len(t)])
<1> DEFINE n == Len(s)
<1>1. PICK f \in [0 .. Len(s) -> Histograms] : ToldTo(f, s) /\ Told(s) = f[Len(s)]
  BY ToldUnrolls
<1>2. PICK g \in [0 .. Len(t) -> Histograms] : ToldTo(g, t) /\ Told(t) = g[Len(t)]
  BY ToldUnrolls
<1> DEFINE S == {i \in 0 .. n : f[i] = g[i]}
<1>3. 0 \in S
  BY <1>1, <1>2 DEF ToldTo
<1>4. ASSUME NEW i \in 0 .. n - 1, i \in S PROVE i + 1 \in S
  <2>1. i + 1 \in 1 .. Len(s) /\ i + 1 \in 1 .. Len(t) /\ (i + 1) - 1 = i /\ i + 1 \in 0 .. n
    OBVIOUS
  <2>2. f[i] = g[i] /\ s[i + 1] = t[i + 1]
    BY <1>4, <2>1
  <2>3. f[i + 1] = Observe(f[i], s[i + 1])
    BY <1>1, <2>1 DEF ToldTo
  <2>4. g[i + 1] = Observe(g[i], t[i + 1])
    BY <1>2, <2>1 DEF ToldTo
  <2> QED BY <2>1, <2>2, <2>3, <2>4
<1>5. f[n] = g[n]
  <2>1. n \in Nat /\ n \in 0 .. n
    OBVIOUS
  <2>2. n \in S
    <3> HIDE DEF S, n
    <3> QED BY <1>3, <1>4, <2>1, Climb
  <2> QED BY <2>2
<1>6. g[n + 1] = Observe(g[n], t[n + 1])
  <2>1. n + 1 \in 1 .. Len(t) /\ (n + 1) - 1 = n
    OBVIOUS
  <2> QED BY <1>2, <2>1 DEF ToldTo
<1> QED BY <1>1, <1>2, <1>5, <1>6


\* One more position that is, or is not, among those counted.
LEMMA OneMoreCounted ==
    ASSUME NEW n \in Nat, NEW A, NEW B, A \subseteq 1 .. n, B \subseteq 1 .. n + 1,
           \A j \in 1 .. n : j \in B <=> j \in A
    PROVE  /\ Cardinality(A) \in Nat
           /\ Cardinality(B) = Cardinality(A) + (IF n + 1 \in B THEN 1 ELSE 0)
<1>1. IsFiniteSet(1 .. n)
  BY FS_Interval
<1>2. IsFiniteSet(A) /\ Cardinality(A) \in Nat
  BY <1>1, FS_Subset, FS_CardinalityType
<1>3. n + 1 \notin A
  OBVIOUS
<1>4. CASE n + 1 \in B
  <2>1. B = A \cup {n + 1}
    <3>1. ASSUME NEW j \in B, j # n + 1 PROVE j \in A
      <4>1. j \in 1 .. n
        BY <3>1
      <4> QED BY <4>1
    <3>2. ASSUME NEW j \in A PROVE j \in B
      OBVIOUS
    <3> QED BY <1>4, <3>1, <3>2
  <2>2. Cardinality(A \cup {n + 1}) = Cardinality(A) + 1
    BY <1>2, <1>3, FS_AddElement
  <2> QED BY <1>2, <1>4, <2>1, <2>2
<1>5. CASE n + 1 \notin B
  <2>1. B = A
    <3>1. ASSUME NEW j \in B PROVE j \in A
      <4>1. j \in 1 .. n
        BY <1>5
      <4> QED BY <4>1
    <3> QED BY <3>1
  <2> QED BY <1>2, <1>5, <2>1
<1> QED BY <1>4, <1>5

\* The positions of a sequence whose value is in bucket i, and up to it.
InBucket(s, i) == {j \in 1 .. Len(s) : BucketOf(s[j]) = i}
UpToBucket(s, i) == {j \in 1 .. Len(s) : BucketOf(s[j]) <= i}

\* What a histogram says of what it was told.
LEMMA ToldSays ==
    ASSUME NEW s \in Seq(Nat)
    PROVE  /\ Told(s) \in Histograms /\ Told(s).count = Len(s) /\ Told(s).sum = Total(s)
           /\ \A i \in 0 .. Buckets - 1 : Told(s).counts[i] = Cardinality(InBucket(s, i))
           /\ \A j \in 1 .. Len(s) : Told(s).min <= s[j] /\ s[j] <= Told(s).max
           /\ Len(s) # 0 => \E j \in 1 .. Len(s) : Told(s).max = s[j]
           /\ Len(s) * Told(s).min <= Total(s) /\ Total(s) <= Len(s) * Told(s).max
<1> DEFINE N == Len(s)
           Among(n, i) == {j \in 1 .. n : BucketOf(s[j]) = i}
<1>1. PICK f \in [0 .. N -> Histograms] : ToldTo(f, s) /\ Told(s) = f[N]
  BY ToldUnrolls
<1>2. PICK g \in [0 .. N -> Nat] : SumTo(g, s) /\ Total(s) = g[N]
  BY TotalUnrolls
<1> DEFINE Good(h, n) ==
               /\ h.count = n /\ h.sum = g[n]
               /\ \A i \in 0 .. Buckets - 1 : h.counts[i] = Cardinality(Among(n, i))
               /\ \A j \in 1 .. n : h.min <= s[j] /\ s[j] <= h.max
               /\ n # 0 => \E j \in 1 .. n : h.max = s[j]
               /\ n * h.min <= g[n] /\ g[n] <= n * h.max
           S == {n \in 0 .. N : Good(f[n], n)}
<1>3. N \in Nat /\ \A j \in 1 .. N : s[j] \in Nat
  OBVIOUS
<1>4. 0 \in S
  <2> DEFINE h == f[0]
  <2>1. h = EmptyHistogram /\ g[0] = 0
    BY <1>1, <1>2 DEF ToldTo, SumTo
  <2>2. \A i : Among(0, i) = {}
    OBVIOUS
  <2>3. Cardinality({}) = 0
    BY FS_EmptySet
  <2>4. h.count = 0 /\ h.sum = 0 /\ h.min = 0 /\ h.max = 0 /\ \A i \in 0 .. Buckets - 1 : h.counts[i] = 0
    BY <2>1, EmptyIs
  <2> HIDE DEF h, Among
  <2>5. Good(h, 0)
    BY SMTT(60), <2>1, <2>2, <2>3, <2>4
  <2> QED BY SMTT(60), <1>3, <2>5 DEF h
<1>5. ASSUME NEW n \in 0 .. N - 1, n \in S PROVE n + 1 \in S
  <2> DEFINE h == f[n]
             k == f[n + 1]
             v == s[n + 1]
             b == BucketOf(v)
  <2>1. n \in Nat /\ n + 1 \in 1 .. N /\ (n + 1) - 1 = n /\ n \in 0 .. N /\ n + 1 \in 0 .. N
    BY <1>3
  <2>2. h \in Histograms /\ v \in Nat /\ k = Observe(h, v)
    <3>1. k = Observe(f[(n + 1) - 1], v)
      BY <1>1, <2>1 DEF ToldTo
    <3> QED BY <1>1, <1>3, <2>1, <3>1
  <2>3. g[n] \in Nat /\ g[n + 1] = g[n] + v
    <3>1. g[n + 1] = g[(n + 1) - 1] + v
      BY <1>2, <2>1 DEF SumTo
    <3> QED BY <1>2, <2>1, <3>1
  <2>4. Good(h, n)
    BY <1>5
  <2>5. /\ k \in Histograms
        /\ k.count = h.count + 1 /\ k.sum = h.sum + v
        /\ k.max = (IF h.max >= v THEN h.max ELSE v)
        /\ k.min = (IF h.count # 0 /\ h.min <= v THEN h.min ELSE v)
        /\ b \in 0 .. Buckets - 1
        /\ \A i \in 0 .. Buckets - 1 : k.counts[i] = h.counts[i] + (IF i = b THEN 1 ELSE 0)
    <3> HIDE DEF h, k, v
    <3> QED BY ZenonT(60), <2>2, ObserveIs
  <2>6. h.min \in Nat /\ h.max \in Nat /\ k.min \in Nat /\ k.max \in Nat
    BY <2>2, <2>5 DEF Histograms
  <2> DEFINE lo == k.min
             hi == k.max
             m == h.min
             x == h.max
             y == g[n]
  <2>7. /\ m \in Nat /\ x \in Nat /\ lo \in Nat /\ hi \in Nat /\ y \in Nat
        /\ hi >= x /\ hi >= v /\ (hi = x \/ hi = v) /\ (n # 0 => lo <= m) /\ lo <= v
    <3>1. h.count = n
      BY <2>4
    <3> HIDE DEF h, k, v, Good
    <3>2. m \in Nat /\ x \in Nat /\ lo \in Nat /\ hi \in Nat /\ y \in Nat /\ v \in Nat
      BY <2>2, <2>3, <2>6
    <3>3. hi = (IF x >= v THEN x ELSE v) /\ lo = (IF n # 0 /\ m <= v THEN m ELSE v)
      BY <2>5, <3>1
    <3> HIDE DEF m, x, lo, hi, y
    <3> QED BY <3>2, <3>3
  <2>8. k.count = n + 1 /\ k.sum = g[n + 1]
    BY <2>3, <2>4, <2>5
  <2>9. ASSUME NEW i \in 0 .. Buckets - 1 PROVE k.counts[i] = Cardinality(Among(n + 1, i))
    <3> DEFINE A == Among(n, i)
               B == Among(n + 1, i)
    <3>1. A \subseteq 1 .. n /\ B \subseteq 1 .. n + 1 /\ \A j \in 1 .. n : j \in B <=> j \in A
      BY <2>1
    <3>2. n + 1 \in B <=> i = b
      BY <2>1
    <3>3. h.counts[i] = Cardinality(A)
      BY <2>4
    <3> HIDE DEF A, B
    <3>4. Cardinality(B) = Cardinality(A) + (IF n + 1 \in B THEN 1 ELSE 0)
      BY <2>1, <3>1, OneMoreCounted
    <3>5. k.counts[i] = h.counts[i] + (IF i = b THEN 1 ELSE 0)
      BY <2>5
    <3>6. k.counts[i] = Cardinality(B)
      BY <3>2, <3>3, <3>4, <3>5
    <3> QED BY <3>6 DEF B
  <2>10. ASSUME NEW j \in 1 .. n + 1 PROVE lo <= s[j] /\ s[j] <= hi
    <3>1. CASE j = n + 1
      BY <2>2, <2>7, <3>1
    <3>2. CASE j # n + 1
      <4>1. j \in 1 .. n /\ n # 0
        BY <2>1, <3>2
      <4>2. m <= s[j] /\ s[j] <= x
        BY <2>4, <4>1
      <4>3. s[j] \in Nat
        BY <1>3, <4>1
      <4> HIDE DEF lo, hi, m, x, v
      <4> QED BY <2>7, <4>1, <4>2, <4>3
    <3> QED BY <3>1, <3>2
  <2>11. \E j \in 1 .. n + 1 : hi = s[j]
    <3>1. CASE hi = v
      <4>1. n + 1 \in 1 .. n + 1
        BY <2>1
      <4> QED BY <3>1, <4>1
    <3>2. CASE hi # v
      <4>1. n # 0
        <5> SUFFICES ASSUME n = 0 PROVE FALSE
          OBVIOUS
        <5>1. h = EmptyHistogram
          BY <1>1 DEF ToldTo
        <5>2. x = 0
          BY <5>1, EmptyIs
        <5> QED BY <2>2, <2>7, <3>2, <5>2
      <4>2. PICK j \in 1 .. n : x = s[j]
        BY <2>4, <4>1
      <4>3. j \in 1 .. n + 1
        BY <2>1
      <4> QED BY <2>7, <3>2, <4>2, <4>3
    <3> QED BY <3>1, <3>2
  <2>12. (n + 1) * lo <= y + v /\ y + v <= (n + 1) * hi
    <3>1. n * m <= y /\ y <= n * x
      BY <2>4
    <3> HIDE DEF lo, hi, m, x, v, y
    <3>2. n * lo <= y
      <4>1. CASE n = 0
        BY <2>7, <4>1
      <4>2. CASE n # 0
        <5>1. n * lo <= n * m
          BY <2>1, <2>7, <4>2, Scales
        <5> DEFINE p == n * lo
                   q == n * m
        <5>2. p \in Nat /\ q \in Nat /\ p <= q /\ q <= y
          BY <2>1, <2>7, <3>1, <5>1
        <5> HIDE DEF p, q
        <5>3. p <= y
          BY <2>7, <5>2
        <5> QED BY <5>3 DEF p
      <4> QED BY <4>1, <4>2
    <3>3. y <= n * hi
      <4>1. n * x <= n * hi
        BY <2>1, <2>7, Scales
      <4>2. n * x \in Nat /\ n * hi \in Nat
        BY <2>1, <2>7
      <4> QED BY SMTT(60), <2>7, <3>1, <4>1, <4>2
    <3>4. (n + 1) * lo = n * lo + lo /\ (n + 1) * hi = n * hi + hi
      BY <2>1, <2>7
    <3>5. n * lo \in Nat /\ n * hi \in Nat
      BY <2>1, <2>7
    <3>6. v \in Nat
      BY <2>2 DEF v
    <3> QED BY <2>7, <3>2, <3>3, <3>4, <3>5, <3>6
  <2>13. Good(k, n + 1)
    <3>1. g[n + 1] = y + v
      BY <2>3
    <3> HIDE DEF Among, k, v, b, h
    <3> QED BY <2>8, <2>9, <2>10, <2>11, <2>12, <3>1
  <2> HIDE DEF Good
  <2> QED BY <2>1, <2>13
<1>6. Good(f[N], N)
  <2>1. N \in 0 .. N
    BY <1>3
  <2>2. N \in S
    <3> HIDE DEF S, N
    <3> QED BY <1>3, <1>4, <1>5, <2>1, Climb
  <2> HIDE DEF Good, N
  <2> QED BY <2>2
<1>7. Told(s) \in Histograms
  BY ToldType
<1>8. \A i : Among(N, i) = InBucket(s, i)
  BY DEF InBucket
<1> HIDE DEF Among
<1> QED BY <1>1, <1>2, <1>6, <1>7, <1>8


--------------------------------------------------------------------------------
(* Percentiles.                                                            *)

\* How many there are in the buckets up to i, as Quantile counts.
SeenBody(h, g) == [i \in 0 .. Buckets - 1 |-> h.counts[i] + (IF i = 0 THEN 0 ELSE g[i - 1])]
SeenOf(h) == CHOOSE g : g = SeenBody(h, g)

LEMMA SeenIs ==
    ASSUME NEW h \in Histograms
    PROVE  /\ SeenOf(h)[0] = h.counts[0]
           /\ \A i \in 1 .. Buckets - 1 : SeenOf(h)[i] = h.counts[i] + SeenOf(h)[i - 1]
<1> DEFINE N == Buckets - 1
           c == h.counts
           step == [p \in (1 .. N) \X Nat |-> c[p[1]] + p[2]]
<1>1. N \in Nat /\ c \in [0 .. N -> Nat]
  BY LatencyAssumption DEF Histograms
<1> HIDE DEF N, c
<1>2. step \in [(1 .. N) \X Nat -> Nat] /\ c[0] \in Nat
  <2>1. ASSUME NEW p \in (1 .. N) \X Nat PROVE c[p[1]] + p[2] \in Nat
    <3>1. p[1] \in 0 .. N /\ p[2] \in Nat
      BY <1>1
    <3>2. c[p[1]] \in Nat
      BY <1>1, <3>1
    <3> QED BY <3>1, <3>2
  <2> QED BY <1>1, <2>1
<1>3. PICK f \in [0 .. N -> Nat] : Unrolled(f, N, c[0], step)
  <2> HIDE DEF step
  <2> QED BY <1>1, <1>2, Recursion
<1>4. f[0] = c[0]
  BY <1>3 DEF Unrolled
<1>5. ASSUME NEW n \in 1 .. N PROVE f[n] = c[n] + f[n - 1]
  <2>1. f[n] = step[<<n, f[n - 1]>>]
    BY <1>3 DEF Unrolled
  <2>2. n - 1 \in 0 .. N
    BY <1>1
  <2>3. f[n - 1] \in Nat
    BY <2>2
  <2>4. <<n, f[n - 1]>> \in (1 .. N) \X Nat
    BY <2>3
  <2> QED BY <2>1, <2>4
<1> HIDE DEF step
<1>6. f = SeenBody(h, f)
  <2>1. ASSUME NEW n \in 0 .. N PROVE f[n] = c[n] + (IF n = 0 THEN 0 ELSE f[n - 1])
    <3>1. CASE n = 0
      BY <1>1, <1>4, <3>1
    <3>2. CASE n # 0
      <4>1. n \in 1 .. N
        BY <1>1, <3>2
      <4> QED BY <1>5, <3>2, <4>1
    <3> QED BY <3>1, <3>2
  <2>2. SeenBody(h, f) = [n \in 0 .. N |-> f[n]]
    BY <2>1 DEF SeenBody, N, c
  <2>3. f = [n \in 0 .. N |-> f[n]]
    OBVIOUS
  <2> QED BY <2>2, <2>3
<1>7. SeenOf(h) = SeenBody(h, SeenOf(h))
  BY <1>6 DEF SeenOf
<1> DEFINE g == SeenOf(h)
<1>8. g = SeenBody(h, g)
  BY <1>7
<1> HIDE DEF g
<1>9. \A i \in 0 .. N : g[i] = c[i] + (IF i = 0 THEN 0 ELSE g[i - 1])
  BY <1>8 DEF SeenBody, N, c
<1>10. g[0] = c[0] /\ \A i \in 1 .. N : g[i] = c[i] + g[i - 1]
  BY SMTT(60), <1>1, <1>9
<1> QED BY <1>10 DEF g, N, c

\* It is how many of the values are in the buckets up to i.
LEMMA SeenSays ==
    ASSUME NEW s \in Seq(Nat), NEW i \in 0 .. Buckets - 1
    PROVE  SeenOf(Told(s))[i] = Cardinality(UpToBucket(s, i)) /\ Cardinality(UpToBucket(s, i)) \in Nat
<1> DEFINE g == SeenOf(Told(s))
           c == Told(s).counts
           N == Buckets - 1
           S == {n \in 0 .. N : g[n] = Cardinality(UpToBucket(s, n))}
<1>1. N \in Nat /\ g[0] = c[0] /\ \A n \in 1 .. N : g[n] = c[n] + g[n - 1]
  BY LatencyAssumption, ToldType, SeenIs
<1>2. \A n \in 0 .. N : c[n] = Cardinality(InBucket(s, n))
  BY ToldSays
<1>3. \A j \in 1 .. Len(s) : s[j] \in Nat
  OBVIOUS
<1>4. \A j \in 1 .. Len(s) : BucketOf(s[j]) \in Nat
  <2>1. \A v \in Nat : BucketOf(v) \in Nat
    BY BucketIs
  <2> QED BY <1>3, <2>1
<1>5. \A n : IsFiniteSet(InBucket(s, n)) /\ IsFiniteSet(UpToBucket(s, n))
             /\ Cardinality(UpToBucket(s, n)) \in Nat /\ Cardinality(InBucket(s, n)) \in Nat
  <2>1. IsFiniteSet(1 .. Len(s))
    BY FS_Interval
  <2>2. \A n : InBucket(s, n) \in SUBSET (1 .. Len(s)) /\ UpToBucket(s, n) \in SUBSET (1 .. Len(s))
    BY DEF InBucket, UpToBucket
  <2> QED BY <2>1, <2>2, FS_Subset, FS_CardinalityType
<1> HIDE DEF g, c
<1>6. 0 \in S
  <2>1. UpToBucket(s, 0) = InBucket(s, 0)
    BY <1>4 DEF UpToBucket, InBucket
  <2> QED BY <1>1, <1>2, <2>1
<1>7. ASSUME NEW n \in 0 .. N - 1, n \in S PROVE n + 1 \in S
  <2>1. n + 1 \in 1 .. N /\ (n + 1) - 1 = n /\ n + 1 \in 0 .. N /\ n \in Nat
    BY <1>1
  <2> DEFINE A == UpToBucket(s, n)
             B == InBucket(s, n + 1)
             C == UpToBucket(s, n + 1)
  <2>2. C = A \cup B /\ A \cap B = {}
    BY <1>4, <2>1 DEF UpToBucket, InBucket
  <2>3. IsFiniteSet(A) /\ IsFiniteSet(B) /\ Cardinality(A) \in Nat /\ Cardinality(B) \in Nat
    BY <1>5
  <2>4. g[n] = Cardinality(A) /\ c[n + 1] = Cardinality(B)
    BY <1>2, <1>7, <2>1
  <2>5. g[n + 1] = c[n + 1] + g[n]
    BY <1>1, <2>1
  <2> HIDE DEF A, B, C
  <2>6. Cardinality(A \cup B) = Cardinality(A) + Cardinality(B)
    <3>1. Cardinality(A \cup B) = Cardinality(A) + Cardinality(B) - Cardinality(A \cap B)
      BY <2>3, FS_Union
    <3>2. Cardinality(A \cap B) = 0
      BY <2>2, FS_EmptySet
    <3> QED BY <2>3, <3>1, <3>2
  <2>7. g[n + 1] = Cardinality(C)
    BY <2>2, <2>3, <2>4, <2>5, <2>6
  <2> QED BY <2>1, <2>7 DEF C
<1>8. i \in S
  <2>1. i \in 0 .. N
    OBVIOUS
  <2> HIDE DEF S, N
  <2> QED BY <1>1, <1>6, <1>7, <2>1, Climb
<1> QED BY <1>5, <1>8 DEF g

\* The rank of a percentile is one of those there are, and a higher percentile's
\* is not lower.
LEMMA RankIs ==
    ASSUME NEW n \in Nat \ {0}
    PROVE  /\ \A p \in Percents : Rank(p, n) \in 1 .. n
           /\ Rank(50, n) <= Rank(90, n) /\ Rank(90, n) <= Rank(99, n)
<1> DEFINE R(p) == (p * n + 99) \div 100
<1>1. \A p \in Percents : R(p) \in Nat /\ Rank(p, n) = IF 1 >= R(p) THEN 1 ELSE R(p)
  <2>1. ASSUME NEW p \in Percents PROVE R(p) \in Nat
    <3>1. p \in Nat
      BY DEF Percents
    <3>2. p * n \in Nat
      BY <3>1
    <3> QED BY <3>2
  <2>2. ASSUME NEW p \in Percents PROVE Rank(p, n) = IF 1 >= R(p) THEN 1 ELSE R(p)
    <3>1. R(p) \in Nat
      BY <2>1
    <3>2. Rank(p, n) = Max({1, R(p)})
      BY DEF Rank
    <3> HIDE DEF R
    <3> QED BY <3>1, <3>2, LeastAndMost
  <2> QED BY <2>1, <2>2
<1>2. R(50) <= R(90) /\ R(90) <= R(99) /\ R(99) <= n
  OBVIOUS
<1>3. Percents = {50, 90, 99}
  BY DEF Percents
<1> HIDE DEF R
<1> QED BY <1>1, <1>2, <1>3

\* The bucket a quantile is taken from is the first with the rank up to it, and
\* is not empty.
QuantileAt(s, p, at) ==
    /\ at \in 0 .. Buckets - 1
    /\ Cardinality(UpToBucket(s, at)) >= Rank(p, Len(s))
    /\ \A i \in 0 .. Buckets - 1 : Cardinality(UpToBucket(s, i)) >= Rank(p, Len(s)) => at <= i
    /\ \E j \in 1 .. Len(s) : BucketOf(s[j]) = at
    /\ Quantile(Told(s), p) = IF at = Buckets - 1 THEN Told(s).max ELSE BucketUpper(at)

LEMMA QuantileIs ==
    ASSUME NEW s \in Seq(Nat), Len(s) # 0, NEW p \in Percents
    PROVE  \E at : QuantileAt(s, p, at)
<1> DEFINE h == Told(s)
           n == Len(s)
           g == SeenOf(h)
           r == Rank(p, n)
           N == Buckets - 1
           C(i) == Cardinality(UpToBucket(s, i))
           S == {i \in 0 .. N : g[i] >= r}
           at == Min(S)
<1>1. n \in Nat \ {0} /\ N \in Nat /\ r \in 1 .. n
  BY LatencyAssumption, RankIs
<1>2. \A j \in 1 .. n : s[j] \in Nat
  OBVIOUS
<1>3. \A j \in 1 .. n : BucketOf(s[j]) \in 0 .. N
  BY <1>2, BucketIs
<1>4. \A i \in 0 .. N : g[i] = C(i) /\ C(i) \in Nat
  BY SeenSays
<1>5. /\ h.count = n /\ \A i \in 0 .. N : h.counts[i] = Cardinality(InBucket(s, i))
  BY ToldSays
<1>6. Quantile(h, p) = IF h.count = 0 THEN 0
                       ELSE IF Min({i \in 0 .. N : g[i] >= Rank(p, h.count)}) = N /\ Overflow(h) > 0 THEN h.max
                       ELSE BucketUpper(Min({i \in 0 .. N : g[i] >= Rank(p, h.count)}))
  <2> HIDE DEF h
  <2> QED BY DEF Quantile, SeenOf, SeenBody
<1>7. Quantile(h, p) = IF at = N /\ h.counts[N] > 0 THEN h.max ELSE BucketUpper(at)
  <2> HIDE DEF g, h, n
  <2> QED BY <1>1, <1>5, <1>6 DEF Overflow
<1>8. IsFiniteSet(1 .. n) /\ Cardinality(1 .. n) = n
  BY FS_Interval
<1>9. C(N) = n
  <2>1. UpToBucket(s, N) = 1 .. n
    BY <1>1, <1>3 DEF UpToBucket
  <2> QED BY <1>8, <2>1
<1>10. N \in S /\ S \subseteq Nat
  <2>1. N \in 0 .. N
    BY <1>1
  <2>2. g[N] = n
    BY <1>4, <1>9, <2>1
  <2> HIDE DEF g, r, n
  <2> QED BY <1>1, <2>1, <2>2
<1>11. at \in S /\ \A i \in S : at <= i
  <2> HIDE DEF S
  <2> QED BY <1>10, MinOfNats
<1>12. at \in 0 .. N /\ C(at) >= r
  <2>1. at \in 0 .. N /\ g[at] >= r
    <3> HIDE DEF g, r, N
    <3> DEFINE a == at
    <3>1. a \in S
      BY <1>11
    <3> HIDE DEF a
    <3>2. a \in 0 .. N /\ g[a] >= r
      BY <3>1
    <3> QED BY <3>2 DEF a
  <2>2. g[at] = C(at)
    <3> HIDE DEF g, S, C, N
    <3> QED BY <1>4, <2>1
  <2> HIDE DEF g, C, r, S
  <2> QED BY <2>1, <2>2
<1>13. \A i \in 0 .. N : C(i) >= r => at <= i
  <2> HIDE DEF at, C, g, r
  <2> QED BY <1>4, <1>11
<1> HIDE DEF at, S
<1>14. \E j \in 1 .. n : BucketOf(s[j]) = at
  <2> SUFFICES ASSUME \A j \in 1 .. n : BucketOf(s[j]) # at PROVE FALSE
    OBVIOUS
  <2>1. CASE at = 0
    <3>1. UpToBucket(s, 0) = {}
      BY <1>3, <2>1 DEF UpToBucket
    <3>2. C(0) = 0
      BY <3>1, FS_EmptySet
    <3> HIDE DEF C, r
    <3> QED BY <1>1, <1>12, <2>1, <3>2
  <2>2. CASE at # 0
    <3>1. at - 1 \in 0 .. N
      BY <1>1, <1>12, <2>2
    <3>2. UpToBucket(s, at) = UpToBucket(s, at - 1)
      BY <1>3, <1>12 DEF UpToBucket
    <3>3. C(at - 1) >= r
      BY <1>12, <3>2
    <3>4. at <= at - 1
      <4> HIDE DEF C, r
      <4> QED BY <1>13, <3>1, <3>3
    <3> QED BY <1>12, <3>4
  <2> QED BY <2>1, <2>2
<1>15. at = N => h.counts[N] > 0
  <2> SUFFICES ASSUME at = N PROVE Cardinality(InBucket(s, N)) > 0
    BY <1>1, <1>5
  <2>1. InBucket(s, N) \in SUBSET (1 .. n) /\ InBucket(s, N) # {}
    BY <1>14 DEF InBucket
  <2>2. IsFiniteSet(InBucket(s, N))
    BY <1>8, <2>1, FS_Subset
  <2>3. Cardinality(InBucket(s, N)) \in Nat /\ Cardinality(InBucket(s, N)) # 0
    BY <2>1, <2>2, FS_CardinalityType, FS_EmptySet
  <2> QED BY <2>3
<1>16. Quantile(h, p) = IF at = N THEN h.max ELSE BucketUpper(at)
  <2> HIDE DEF h, N
  <2> QED BY <1>7, <1>15
<1>17. QuantileAt(s, p, at)
  BY <1>12, <1>13, <1>14, <1>16 DEF QuantileAt
<1> QED BY <1>17

\* What is reported is the percentile of the values, up to its bucket.
LEMMA QuantileBrackets ==
    ASSUME NEW s \in Seq(Nat), Len(s) # 0, NEW p \in Percents, NEW true,
           true = Min({v \in {s[i] : i \in 1 .. Len(s)} :
                          Cardinality({i \in 1 .. Len(s) : s[i] <= v}) >= Rank(p, Len(s))})
    PROVE  LET told == Quantile(Told(s), p)
           IN  /\ true <= told
               /\ \/ told * RatioUnder <= Max({true, 1}) * RatioOver
                  \/ BucketOf(true) = Buckets - 1 /\ told = Told(s).max
<1> DEFINE n == Len(s)
           r == Rank(p, n)
           V == {s[i] : i \in 1 .. n}
           upTo(v) == {i \in 1 .. n : s[i] <= v}
           W == {v \in V : Cardinality(upTo(v)) >= r}
           told == Quantile(Told(s), p)
<1>1. PICK at : QuantileAt(s, p, at)
  BY QuantileIs
<1>2. n \in Nat /\ r \in 1 .. n /\ n \in Nat \ {0}
  BY RankIs
<1>3. \A j \in 1 .. n : s[j] \in Nat
  OBVIOUS
<1>4. V \subseteq Nat
  BY <1>3
<1>5. IsFiniteSet(1 .. n)
  BY FS_Interval
\* Of a nonempty set of positions there is one with the greatest value.
<1>6. ASSUME NEW J \in SUBSET (1 .. n), Cardinality(J) >= r
      PROVE  \E v \in W : \E j \in J : s[j] = v
  <2>1. J # {}
    <3>1. Cardinality({}) = 0
      BY FS_EmptySet
    <3>2. r \in Nat /\ r >= 1
      BY <1>2
    <3> HIDE DEF r, n
    <3>3. J = {} => Cardinality(J) = 0
      BY <3>1
    <3>4. J = {} => 0 >= r
      BY <1>6, <3>3
    <3> QED BY <3>2, <3>4
  <2> DEFINE X == {s[j] : j \in J}
             top == Told(s).max
  <2>2. X \subseteq Nat /\ X # {}
    BY <1>3, <2>1
  <2>3. top \in Nat /\ \A x \in X : x <= top
    BY ToldSays DEF Histograms
  <2>4. Max(X) \in X /\ \A y \in X : y <= Max(X)
    <3> HIDE DEF X, top
    <3> QED BY <2>2, <2>3, MaxOfNats
  <2> DEFINE v == Max(X)
  <2>5. v \in X /\ \A y \in X : y <= v
    BY <2>4
  <2> HIDE DEF v
  <2>6. PICK j \in J : s[j] = v
    BY <2>5
  <2>7. v \in V
    BY <2>6
  <2>8. J \subseteq upTo(v) /\ upTo(v) \in SUBSET (1 .. n)
    BY <2>5
  <2>9. Cardinality(J) <= Cardinality(upTo(v)) /\ Cardinality(J) \in Nat /\ Cardinality(upTo(v)) \in Nat
    <3> HIDE DEF upTo, n
    <3> QED BY <1>5, <2>8, FS_Subset, FS_CardinalityType
  <2>10. Cardinality(upTo(v)) >= r
    <3> HIDE DEF upTo, r
    <3> QED BY <1>2, <1>6, <2>9
  <2> HIDE DEF V, upTo, X
  <2> QED BY <2>6, <2>7, <2>10
<1>7. true \in W /\ \A w \in W : true <= w
  <2>1. W # {} /\ W \subseteq Nat
    <3>1. Cardinality(1 .. n) = n
      <4> HIDE DEF n
      <4> QED BY <1>2, FS_Interval
    <3> DEFINE J == 1 .. n
    <3>2. J \in SUBSET (1 .. n) /\ Cardinality(J) >= r
      <4> HIDE DEF r, n
      <4> QED BY <1>2, <3>1
    <3> HIDE DEF J, W, V, n
    <3>3. \E v \in W : \E j \in J : s[j] = v
      BY <1>6, <3>2
    <3>4. W # {}
      BY <3>3
    <3> QED BY <1>4, <3>4 DEF W
  <2>2. true = Min(W)
    OBVIOUS
  <2> HIDE DEF W
  <2> QED BY <2>1, <2>2, MinOfNats
<1>8. true \in V /\ Cardinality(upTo(true)) >= r
  <2> HIDE DEF V, upTo, r
  <2> QED BY <1>7
<1>9. true \in Nat
  <2> HIDE DEF V
  <2> QED BY <1>4, <1>8
<1> DEFINE b == BucketOf(true)
<1>10. b \in 0 .. Buckets - 1 /\ at \in 0 .. Buckets - 1
  BY <1>1, <1>9, BucketIs DEF QuantileAt
<1>11. at <= b
  <2>1. upTo(true) \subseteq UpToBucket(s, b) /\ UpToBucket(s, b) \in SUBSET (1 .. n)
    <3>1. ASSUME NEW i \in 1 .. n, s[i] <= true PROVE BucketOf(s[i]) <= b
      BY <1>3, <1>9, <3>1, BucketsOrdered
    <3> QED BY <3>1 DEF UpToBucket
  <2>2. Cardinality(upTo(true)) <= Cardinality(UpToBucket(s, b))
        /\ Cardinality(upTo(true)) \in Nat /\ Cardinality(UpToBucket(s, b)) \in Nat
    <3>1. IsFiniteSet(UpToBucket(s, b))
      BY <1>5, <2>1, FS_Subset
    <3> HIDE DEF upTo, n
    <3> QED BY <2>1, <3>1, FS_Subset, FS_CardinalityType
  <2>3. Cardinality(UpToBucket(s, b)) >= r
    <3> HIDE DEF r, upTo
    <3> QED BY <1>2, <1>8, <2>2
  <2> HIDE DEF b
  <2> QED BY <1>1, <1>10, <2>3 DEF QuantileAt
<1>12. b <= at
  <2> DEFINE J == UpToBucket(s, at)
  <2>1. J \in SUBSET (1 .. n) /\ Cardinality(J) >= r
    BY <1>1 DEF QuantileAt, UpToBucket
  <2>2. PICK w \in W : \E j \in J : s[j] = w
    <3> HIDE DEF J, W, n, r
    <3> QED BY <1>6, <2>1
  <2>3. PICK j \in J : s[j] = w
    BY <2>2
  <2>4. w \in Nat /\ BucketOf(w) <= at
    BY <1>3, <2>3 DEF UpToBucket
  <2>5. true <= w
    <3> HIDE DEF W
    <3> QED BY <1>7, <2>2
  <2>6. BucketOf(true) <= BucketOf(w)
    BY <1>9, <2>4, <2>5, BucketsOrdered
  <2>7. BucketOf(w) \in Nat
    BY <2>4, LatencyAssumption, BucketIs
  <2> QED BY <1>10, <2>4, <2>6, <2>7
<1>13. b = at
  <2> HIDE DEF b
  <2> QED BY <1>10, <1>11, <1>12
<1>14. told = IF b = Buckets - 1 THEN Told(s).max ELSE BucketUpper(b)
  BY <1>1, <1>13 DEF QuantileAt
<1>15. CASE b = Buckets - 1
  <2>1. true <= Told(s).max
    <3>1. \A v \in V : v <= Told(s).max
      BY ToldSays
    <3> HIDE DEF V
    <3> QED BY <1>8, <3>1
  <2> QED BY <1>14, <1>15, <2>1
<1>16. CASE b # Buckets - 1
  <2>1. true <= BucketUpper(b) /\ BucketUpper(b) * RatioUnder <= Max({true, 1}) * RatioOver
    BY <1>9, <1>16, UpperCovers
  <2>2. told = BucketUpper(b)
    BY <1>14, <1>16
  <2> HIDE DEF told, b
  <2>3. true <= told /\ told * RatioUnder <= Max({true, 1}) * RatioOver
    BY <2>1, <2>2
  <2> QED BY <2>3 DEF told
<1> QED BY <1>15, <1>16


--------------------------------------------------------------------------------
(* Two histograms merged, and what is printed of one.                      *)

LEMMA SameHistogram ==
    ASSUME NEW x \in Histograms, NEW y \in Histograms,
           x.count = y.count, x.sum = y.sum, x.min = y.min, x.max = y.max,
           \A i \in 0 .. Buckets - 1 : x.counts[i] = y.counts[i]
    PROVE  x = y
<1> DEFINE a == x.counts
           b == y.counts
<1>1. a \in [0 .. Buckets - 1 -> Nat] /\ b \in [0 .. Buckets - 1 -> Nat]
  BY DEF Histograms
<1>2. a = b
  <2>1. \A i \in 0 .. Buckets - 1 : a[i] = b[i]
    OBVIOUS
  <2> HIDE DEF a, b
  <2>2. a = [i \in 0 .. Buckets - 1 |-> a[i]] /\ b = [i \in 0 .. Buckets - 1 |-> b[i]]
    BY <1>1
  <2>3. [i \in 0 .. Buckets - 1 |-> a[i]] = [i \in 0 .. Buckets - 1 |-> b[i]]
    BY <2>1
  <2> QED BY <2>2, <2>3
<1>3. x = [counts |-> x.counts, count |-> x.count, sum |-> x.sum, min |-> x.min, max |-> x.max]
  BY DEF Histograms
<1>4. y = [counts |-> y.counts, count |-> y.count, sum |-> y.sum, min |-> y.min, max |-> y.max]
  BY DEF Histograms
<1> QED BY <1>2, <1>3, <1>4

LEMMA MergeIs ==
    ASSUME NEW h \in Histograms, NEW g \in Histograms
    PROVE  LET m == Merge(h, g)
           IN  /\ m \in Histograms
               /\ m.count = h.count + g.count /\ m.sum = h.sum + g.sum
               /\ m.max = (IF h.max >= g.max THEN h.max ELSE g.max)
               /\ m.min = (IF h.count = 0 THEN g.min
                           ELSE IF g.count = 0 \/ h.min <= g.min THEN h.min ELSE g.min)
               /\ \A i \in 0 .. Buckets - 1 : m.counts[i] = h.counts[i] + g.counts[i]
<1> DEFINE c == [i \in 0 .. Buckets - 1 |-> h.counts[i] + g.counts[i]]
           lo == IF h.count = 0 THEN g.min ELSE IF g.count = 0 THEN h.min ELSE Min({h.min, g.min})
           hi == Max({h.max, g.max})
           m == Merge(h, g)
<1>1. /\ h.count \in Nat /\ h.sum \in Nat /\ h.min \in Nat /\ h.max \in Nat
      /\ g.count \in Nat /\ g.sum \in Nat /\ g.min \in Nat /\ g.max \in Nat
  BY DEF Histograms
<1>2. c \in [0 .. Buckets - 1 -> Nat] /\ \A i \in 0 .. Buckets - 1 : c[i] = h.counts[i] + g.counts[i]
  <2> DEFINE a == h.counts
             b == g.counts
             B == 0 .. Buckets - 1
  <2>1. a \in [B -> Nat] /\ b \in [B -> Nat]
    BY DEF Histograms
  <2> HIDE DEF a, b, B
  <2>2. [i \in B |-> a[i] + b[i]] \in [B -> Nat]
    BY <2>1
  <2> QED BY <2>2 DEF a, b, B
<1>3. hi \in Nat /\ hi = IF h.max >= g.max THEN h.max ELSE g.max
  BY <1>1, LeastAndMost
<1>4. lo \in Nat /\ lo = IF h.count = 0 THEN g.min
                         ELSE IF g.count = 0 \/ h.min <= g.min THEN h.min ELSE g.min
  <2>1. Min({h.min, g.min}) = IF h.min <= g.min THEN h.min ELSE g.min
    BY <1>1, LeastAndMost
  <2> QED BY <1>1, <2>1
<1>5. m = [counts |-> c, count |-> h.count + g.count, sum |-> h.sum + g.sum, min |-> lo, max |-> hi]
  BY DEF Merge
<1> HIDE DEF c, lo, hi, m
<1>6. m \in Histograms
  BY SMTT(60), <1>1, <1>2, <1>3, <1>4, <1>5 DEF Histograms
<1> QED BY <1>2, <1>3, <1>4, <1>5, <1>6 DEF m

\* What one is told before or after the merge is the same.
LEMMA MergeObserves ==
    ASSUME NEW h \in Histograms, NEW g \in Histograms, NEW v \in Nat
    PROVE  Merge(h, Observe(g, v)) = Observe(Merge(h, g), v)
<1> DEFINE o == Observe(g, v)
           x == Merge(h, o)
           m == Merge(h, g)
           y == Observe(m, v)
           b == BucketOf(v)
<1>1. /\ o \in Histograms /\ o.count = g.count + 1 /\ o.sum = g.sum + v
      /\ o.max = (IF g.max >= v THEN g.max ELSE v)
      /\ o.min = (IF g.count # 0 /\ g.min <= v THEN g.min ELSE v)
      /\ \A i \in 0 .. Buckets - 1 : o.counts[i] = g.counts[i] + (IF i = b THEN 1 ELSE 0)
  BY ObserveIs
<1>2. /\ m \in Histograms
      /\ m.count = h.count + g.count /\ m.sum = h.sum + g.sum
      /\ m.max = (IF h.max >= g.max THEN h.max ELSE g.max)
      /\ m.min = (IF h.count = 0 THEN g.min
                  ELSE IF g.count = 0 \/ h.min <= g.min THEN h.min ELSE g.min)
      /\ \A i \in 0 .. Buckets - 1 : m.counts[i] = h.counts[i] + g.counts[i]
  BY MergeIs
<1> HIDE DEF o, m, b
<1>3. /\ x \in Histograms
      /\ x.count = h.count + o.count /\ x.sum = h.sum + o.sum
      /\ x.max = (IF h.max >= o.max THEN h.max ELSE o.max)
      /\ x.min = (IF h.count = 0 THEN o.min
                  ELSE IF o.count = 0 \/ h.min <= o.min THEN h.min ELSE o.min)
      /\ \A i \in 0 .. Buckets - 1 : x.counts[i] = h.counts[i] + o.counts[i]
  BY <1>1, MergeIs
<1>4. /\ y \in Histograms /\ y.count = m.count + 1 /\ y.sum = m.sum + v
      /\ y.max = (IF m.max >= v THEN m.max ELSE v)
      /\ y.min = (IF m.count # 0 /\ m.min <= v THEN m.min ELSE v)
      /\ \A i \in 0 .. Buckets - 1 : y.counts[i] = m.counts[i] + (IF i = b THEN 1 ELSE 0)
  BY ZenonT(60), <1>2, ObserveIs DEF b
<1> HIDE DEF x, y
<1>5. /\ h.count \in Nat /\ h.sum \in Nat /\ h.min \in Nat /\ h.max \in Nat
      /\ g.count \in Nat /\ g.sum \in Nat /\ g.min \in Nat /\ g.max \in Nat
  BY DEF Histograms
<1>6. x.count = y.count /\ x.sum = y.sum
  BY <1>1, <1>2, <1>3, <1>4, <1>5
<1>7. x.max = y.max
  BY <1>1, <1>2, <1>3, <1>4, <1>5
<1>8. x.min = y.min
  BY <1>1, <1>2, <1>3, <1>4, <1>5
<1>9. ASSUME NEW i \in 0 .. Buckets - 1 PROVE x.counts[i] = y.counts[i]
  <2> DEFINE p == h.counts[i]
             q == g.counts[i]
             e == IF i = b THEN 1 ELSE 0
  <2>1. p \in Nat /\ q \in Nat
    BY DEF Histograms
  <2>2. x.counts[i] = p + (q + e) /\ y.counts[i] = (p + q) + e /\ e \in Nat
    BY <1>1, <1>2, <1>3, <1>4
  <2> HIDE DEF p, q, e
  <2> QED BY <2>1, <2>2
<1>10. x = y
  BY <1>3, <1>4, <1>6, <1>7, <1>8, <1>9, SameHistogram
<1> QED BY <1>10 DEF x, y, o, m

\* Two histograms merged are one that was told the values of both.
LEMMA MergeTold ==
    ASSUME NEW a \in Seq(Nat), NEW b \in Seq(Nat)
    PROVE  Merge(Told(a), Told(b)) = Told(a \o b)
<1> DEFINE up(k) == SubSeq(b, 1, k)
           S == {k \in 0 .. Len(b) : Merge(Told(a), Told(up(k))) = Told(a \o up(k))}
<1>1. Told(a) \in Histograms
  BY ToldType
<1>2. 0 \in S
  <2>1. up(0) = <<>> /\ a \o <<>> = a /\ <<>> \in Seq(Nat) /\ Len(<<>>) = 0 /\ 0 \in 0 .. Len(b)
    OBVIOUS
  <2>2. Told(<<>>) = EmptyHistogram
    BY <2>1, ToldType
  <2> DEFINE h == Told(a)
             e == EmptyHistogram
             m == Merge(h, e)
  <2>3. e \in Histograms /\ e.count = 0 /\ e.sum = 0 /\ e.min = 0 /\ e.max = 0
        /\ \A i \in 0 .. Buckets - 1 : e.counts[i] = 0
    BY EmptyIs
  <2>4. h.count = 0 => h.min = 0
    <3>1. h.count = Len(a)
      BY ToldSays
    <3>2. Len(a) = 0 => h = e
      BY ToldType
    <3> HIDE DEF h, e
    <3> QED BY <2>3, <3>1, <3>2
  <2>5. h \in Histograms
    BY <1>1
  <2> HIDE DEF h, e
  <2>6. /\ m \in Histograms
        /\ m.count = h.count + e.count /\ m.sum = h.sum + e.sum
        /\ m.max = (IF h.max >= e.max THEN h.max ELSE e.max)
        /\ m.min = (IF h.count = 0 THEN e.min
                    ELSE IF e.count = 0 \/ h.min <= e.min THEN h.min ELSE e.min)
        /\ \A i \in 0 .. Buckets - 1 : m.counts[i] = h.counts[i] + e.counts[i]
    BY <2>3, <2>5, MergeIs
  <2> HIDE DEF m
  <2>7. /\ h.count \in Nat /\ h.sum \in Nat /\ h.min \in Nat /\ h.max \in Nat
    BY <2>5 DEF Histograms
  <2>8. ASSUME NEW i \in 0 .. Buckets - 1 PROVE m.counts[i] = h.counts[i]
    <3> DEFINE p == h.counts[i]
    <3>1. p \in Nat
      BY <2>5 DEF Histograms
    <3>2. m.counts[i] = p + 0
      BY <2>3, <2>6
    <3> HIDE DEF p
    <3> QED BY <3>1, <3>2 DEF p
  <2>9. m.count = h.count /\ m.sum = h.sum /\ m.max = h.max /\ m.min = h.min
    BY <2>3, <2>4, <2>6, <2>7
  <2>10. m = h
    BY <2>5, <2>6, <2>8, <2>9, SameHistogram
  <2> QED BY <2>1, <2>2, <2>10 DEF h, e, m
<1>3. ASSUME NEW k \in 0 .. Len(b) - 1, k \in S PROVE k + 1 \in S
  <2> DEFINE u == up(k)
             e == b[k + 1]
  <2>1. u \in Seq(Nat) /\ e \in Nat
    OBVIOUS
  <2>2. up(k + 1) = Append(u, e)
    OBVIOUS
  <2>3. Merge(Told(a), Told(u)) = Told(a \o u)
    BY <1>3
  <2> HIDE DEF u, e
  <2>4. a \o u \in Seq(Nat) /\ a \o Append(u, e) = Append(a \o u, e)
    BY SMTT(60), <2>1
  <2>5. \A s \in Seq(Nat) : Told(Append(s, e)) = Observe(Told(s), e)
    <3>1. ASSUME NEW s \in Seq(Nat) PROVE Told(Append(s, e)) = Observe(Told(s), e)
      <4> DEFINE t == Append(s, e)
      <4>1. t \in Seq(Nat) /\ Len(t) = Len(s) + 1 /\ t[Len(t)] = e /\ \A i \in 1 .. Len(s) : t[i] = s[i]
        BY <2>1
      <4> HIDE DEF t
      <4>2. Told(t) = Observe(Told(s), t[Len(t)])
        BY <4>1, ToldGrows
      <4> QED BY <4>1, <4>2 DEF t
    <3> QED BY <3>1
  <2>6. Told(u) \in Histograms
    BY <2>1, ToldType
  <2>7. Merge(Told(a), Observe(Told(u), e)) = Observe(Merge(Told(a), Told(u)), e)
    BY <1>1, <2>1, <2>6, MergeObserves
  <2>8. Told(Append(u, e)) = Observe(Told(u), e) /\ Told(Append(a \o u, e)) = Observe(Told(a \o u), e)
    BY <2>1, <2>4, <2>5
  <2>9. Merge(Told(a), Told(up(k + 1))) = Told(a \o up(k + 1))
    BY <2>2, <2>3, <2>4, <2>7, <2>8
  <2>10. k + 1 \in 0 .. Len(b)
    OBVIOUS
  <2> QED BY <2>9, <2>10
<1>4. Len(b) \in Nat /\ Len(b) \in 0 .. Len(b)
  OBVIOUS
<1>5. Len(b) \in S
  <2> HIDE DEF S
  <2> QED BY <1>2, <1>3, <1>4, Climb
<1>6. SubSeq(b, 1, Len(b)) = b
  OBVIOUS
<1> QED BY <1>5, <1>6

\* What is printed of a histogram is in order.
LEMMA SummaryInOrder ==
    ASSUME NEW s \in Seq(Nat)
    PROVE  LET m == Summary(Told(s))
           IN  /\ m.min <= m.mean /\ m.mean <= m.max
               /\ m.p50 <= m.p90 /\ m.p90 <= m.p99
               /\ m.p99 <= Max({m.max, BucketUpper(BucketOf(m.max))})
               /\ m.overflow = Cardinality({i \in 1 .. Len(s) : BucketOf(s[i]) = Buckets - 1})
<1> DEFINE h == Told(s)
           m == Summary(h)
           q(p) == Quantile(h, p)
           n == Len(s)
           N == Buckets - 1
           top == h.max
           b == BucketOf(top)
<1>1. /\ m.min = h.min /\ m.mean = MeanOf(h) /\ m.max = top /\ m.overflow = h.counts[N]
      /\ m.p50 = q(50) /\ m.p90 = q(90) /\ m.p99 = q(99)
  BY DEF Summary, Overflow
<1>2. /\ h \in Histograms /\ h.count = n /\ h.sum = Total(s)
      /\ \A i \in 0 .. N : h.counts[i] = Cardinality(InBucket(s, i))
      /\ \A j \in 1 .. n : h.min <= s[j] /\ s[j] <= top
      /\ n * h.min <= Total(s) /\ Total(s) <= n * top
  BY ToldSays
<1>3. n \in Nat /\ N \in Nat /\ top \in Nat /\ h.min \in Nat /\ Total(s) \in Nat /\ \A j \in 1 .. n : s[j] \in Nat
  BY SMTT(60), <1>2, LatencyAssumption, TotalIsNat DEF Histograms
<1>4. b \in 0 .. N /\ BucketUpper(b) \in Nat
  <2>1. b \in 0 .. N
    BY <1>3, BucketIs
  <2>2. b \in Nat
    BY <1>3, <2>1
  <2> HIDE DEF b
  <2> QED BY <2>1, <2>2, UpperIs
<1>5. /\ Max({top, BucketUpper(b)}) >= top /\ Max({top, BucketUpper(b)}) >= BucketUpper(b)
      /\ Max({top, BucketUpper(b)}) \in Nat
  <2> HIDE DEF top, b
  <2> QED BY <1>3, <1>4, LeastAndMost
<1>6. m.overflow = Cardinality({i \in 1 .. n : BucketOf(s[i]) = N})
  <2>1. N \in 0 .. N
    BY <1>3
  <2> QED BY <1>1, <1>2, <2>1 DEF InBucket
<1>7. CASE n = 0
  <2>1. h = EmptyHistogram /\ h.count = 0
    BY <1>2, <1>7, ToldType
  <2>2. h.min = 0 /\ top = 0
    BY <2>1, EmptyIs
  <2>3. MeanOf(h) = 0 /\ \A p : q(p) = 0
    BY <2>1 DEF MeanOf, Quantile
  <2> HIDE DEF m, h, q
  <2>4. m.min = 0 /\ m.mean = 0 /\ m.max = 0 /\ m.p50 = 0 /\ m.p90 = 0 /\ m.p99 = 0
    BY <1>1, <2>2, <2>3
  <2>5. 0 <= Max({top, BucketUpper(b)}) /\ m.max = top
    <3> DEFINE z == Max({top, BucketUpper(b)})
    <3>1. z \in Nat
      BY <1>5
    <3> HIDE DEF z
    <3> QED BY <1>1, <3>1 DEF z
  <2>6. /\ m.min <= m.mean /\ m.mean <= m.max
        /\ m.p50 <= m.p90 /\ m.p90 <= m.p99
        /\ m.p99 <= Max({m.max, BucketUpper(BucketOf(m.max))})
        /\ m.overflow = Cardinality({i \in 1 .. n : BucketOf(s[i]) = N})
    <3>1. m.p99 <= Max({m.max, BucketUpper(BucketOf(m.max))})
      <4>1. Max({top, BucketUpper(b)}) = Max({m.max, BucketUpper(BucketOf(m.max))})
        BY <2>5
      <4> QED BY <2>4, <2>5, <4>1
    <3>2. m.min <= m.mean /\ m.mean <= m.max /\ m.p50 <= m.p90 /\ m.p90 <= m.p99
      BY <2>4
    <3> QED BY <1>6, <3>1, <3>2
  <2> QED BY <2>6 DEF m, h
<1>8. CASE n # 0
  <2>1. h.min <= MeanOf(h) /\ MeanOf(h) <= top
    <3> DEFINE t == Total(s)
               d == t \div n
               x == h.min
    <3>1. MeanOf(h) = d
      BY <1>2, <1>8 DEF MeanOf
    <3>2. n \in Nat \ {0} /\ t \in Nat /\ x \in Nat /\ top \in Nat /\ n * x <= t /\ t <= n * top
      BY <1>2, <1>3, <1>8
    <3> HIDE DEF n, t, x, top, m
    <3>3. d \in Int /\ t = n * d + (t % n) /\ t % n \in 0 .. n - 1
      BY <3>2
    <3> DEFINE e == t % n
    <3>4. d \in Int /\ t = n * d + e /\ e \in Nat /\ e < n
      BY <3>2, <3>3
    <3> HIDE DEF d, e
    <3>5. x <= d
      <4> SUFFICES ASSUME d < x PROVE FALSE
        BY <3>2, <3>4
      <4> DEFINE k == x - d - 1
      <4>1. k \in Nat /\ x = d + 1 + k
        BY <3>2, <3>4
      <4> HIDE DEF k
      <4>2. n * x = n * d + n + n * k /\ n * k \in Nat /\ n * d \in Int
        BY <3>2, <3>4, <4>1
      <4> QED BY <3>2, <3>4, <4>2
    <3>6. d <= top
      <4> SUFFICES ASSUME top < d PROVE FALSE
        BY <3>2, <3>4
      <4> DEFINE k == d - top - 1
      <4>1. k \in Nat /\ d = top + 1 + k
        BY <3>2, <3>4
      <4> HIDE DEF k
      <4>2. n * d = n * top + n + n * k /\ n * k \in Nat /\ n * top \in Nat
        BY <3>2, <3>4, <4>1
      <4> QED BY <3>2, <3>4, <4>2
    <3> QED BY <3>1, <3>5, <3>6 DEF x
  <2>2. PICK b50 : QuantileAt(s, 50, b50)
    BY <1>8, QuantileIs DEF Percents
  <2>3. PICK b90 : QuantileAt(s, 90, b90)
    BY <1>8, QuantileIs DEF Percents
  <2>4. PICK b99 : QuantileAt(s, 99, b99)
    BY <1>8, QuantileIs DEF Percents
  \* A bucket of a rank is below the bucket of a higher one, and what is
  \* reported of it too.
  <2>5. ASSUME NEW p \in Percents, NEW r \in Percents, NEW x, NEW y, QuantileAt(s, p, x), QuantileAt(s, r, y),
               Rank(p, n) <= Rank(r, n)
        PROVE  q(p) <= q(r)
    <3>1. x \in 0 .. N /\ y \in 0 .. N
      BY <2>5 DEF QuantileAt
    <3>2. x <= y
      <4>1. Rank(p, n) \in Nat /\ Rank(r, n) \in Nat
        <5>1. Rank(p, n) \in 1 .. n /\ Rank(r, n) \in 1 .. n
          <6>1. n \in Nat \ {0}
            BY <1>3, <1>8
          <6> HIDE DEF n
          <6> QED BY <6>1, RankIs
        <5> QED BY <5>1
      <4>2. Cardinality(UpToBucket(s, y)) \in Nat
        BY <3>1, SeenSays
      <4>3. Cardinality(UpToBucket(s, y)) >= Rank(r, n)
        BY <2>5 DEF QuantileAt
      <4>4. Cardinality(UpToBucket(s, y)) >= Rank(p, n)
        BY <2>5, <4>1, <4>2, <4>3
      <4> QED BY <2>5, <3>1, <4>4 DEF QuantileAt
    <3>3. q(p) = (IF x = N THEN top ELSE BucketUpper(x)) /\ q(r) = (IF y = N THEN top ELSE BucketUpper(y))
      BY <2>5 DEF QuantileAt
    <3> HIDE DEF q, top, h
    <3>4. CASE x = N
      <4>1. y = N
        BY <1>3, <3>1, <3>2, <3>4
      <4> QED BY <1>3, <3>3, <3>4, <4>1
    <3>5. CASE x # N /\ y = N
      <4>1. PICK e \in 1 .. n : BucketOf(s[e]) = N
        BY <2>5, <3>5 DEF QuantileAt
      <4>2. s[e] \in Nat /\ s[e] <= top
        BY <1>2, <1>3 DEF top, h
      <4>3. x \in 0 .. Buckets - 2
        BY <3>1, <3>5, LatencyAssumption
      <4>4. BucketUpper(x) <= s[e]
        BY <4>1, <4>2, <4>3, LastIsPast
      <4>5. BucketUpper(x) \in Nat
        BY <3>1, UpperIs
      <4> QED BY <1>3, <3>3, <3>5, <4>2, <4>4, <4>5
    <3>6. CASE x # N /\ y # N
      <4>1. x \in Nat /\ y \in Nat
        BY <3>1
      <4>2. BucketUpper(x) <= BucketUpper(y)
        BY <3>2, <4>1, UpperGrows
      <4> QED BY <3>3, <3>6, <4>2
    <3> QED BY <3>4, <3>5, <3>6
  <2>6. q(50) <= q(90) /\ q(90) <= q(99)
    <3>1. Rank(50, n) <= Rank(90, n) /\ Rank(90, n) <= Rank(99, n)
      BY <1>3, <1>8, RankIs
    <3>2. 50 \in Percents /\ 90 \in Percents /\ 99 \in Percents
      BY DEF Percents
    <3> HIDE DEF q
    <3> QED BY <2>2, <2>3, <2>4, <2>5, <3>1, <3>2
  <2>7. q(99) <= Max({top, BucketUpper(b)})
    <3>1. q(99) = (IF b99 = N THEN top ELSE BucketUpper(b99)) /\ b99 \in 0 .. N
      BY <2>4 DEF QuantileAt
    <3>2. PICK e \in 1 .. n : BucketOf(s[e]) = b99
      BY <2>4 DEF QuantileAt
    <3>3. b99 <= b
      <4>1. s[e] \in Nat /\ s[e] <= top
        BY <1>2, <1>3
      <4> HIDE DEF top
      <4> QED BY <1>3, <3>2, <4>1, BucketsOrdered
    <3>4. b99 \in Nat /\ b \in Nat
      BY <1>4, <3>1
    <3>5. BucketUpper(b99) <= BucketUpper(b) /\ BucketUpper(b99) \in Nat
      <4> HIDE DEF b
      <4> QED BY <3>3, <3>4, UpperGrows, UpperIs
    <3> DEFINE u == BucketUpper(b)
               w == BucketUpper(b99)
               z == Max({top, u})
    <3>6. z >= top /\ z >= u /\ z \in Nat /\ top \in Nat /\ u \in Nat /\ w \in Nat /\ w <= u
      BY <1>3, <1>4, <1>5, <3>5
    <3> HIDE DEF u, w, top, z, q
    <3>7. q(99) <= z
      BY <3>1, <3>6 DEF w
    <3> QED BY <3>7 DEF z, u
  <2> HIDE DEF m, h, q
  <2>8. /\ m.min <= m.mean /\ m.mean <= m.max
        /\ m.p50 <= m.p90 /\ m.p90 <= m.p99
        /\ m.p99 <= Max({m.max, BucketUpper(BucketOf(m.max))})
        /\ m.overflow = Cardinality({i \in 1 .. n : BucketOf(s[i]) = N})
    BY <1>1, <1>6, <2>1, <2>6, <2>7
  <2> QED BY <2>8 DEF m, h
<1> QED BY <1>7, <1>8


--------------------------------------------------------------------------------
(* What a tracker records.                                                 *)

Trackers ==
    [sendToRecv : Histograms, recvToPublish : Histograms, publishToSeen : Histograms, total : Histograms,
     stamped : Nat, unstamped : Nat, implausible : Nat, last : Nat, truncated : Nat]

\* 1 for a stamp that is judged so.
Is(stage1, judgment) == IF Usable(stage1) = judgment THEN 1 ELSE 0

LEMMA StageIs ==
    ASSUME NEW stage1 \in Stage1
    PROVE  /\ Usable(stage1) \in {"stamped", "unstamped", "implausible"}
           /\ StageOne(stage1) \in Nat
           /\ Usable(stage1) = "stamped" => stage1 \in Nat /\ StageOne(stage1) = stage1
           /\ Usable(stage1) # "stamped" => StageOne(stage1) = 0
<1>1. Stage1 \subseteq Nat \cup {NoStamp} /\ Implausible \in Nat
  BY LatencyAssumption
<1> QED BY <1>1 DEF Usable, StageOne, NoStamp

LEMMA ClassifiedIs ==
    ASSUME NEW t \in Trackers, NEW stage1 \in Stage1
    PROVE  LET u == Classified(t, stage1)
           IN  /\ u \in Trackers
               /\ u.sendToRecv = t.sendToRecv /\ u.recvToPublish = t.recvToPublish
               /\ u.publishToSeen = t.publishToSeen /\ u.total = t.total /\ u.last = t.last
               /\ u.stamped = t.stamped + Is(stage1, "stamped")
               /\ u.unstamped = t.unstamped + Is(stage1, "unstamped")
               /\ u.implausible = t.implausible + Is(stage1, "implausible")
<1> DEFINE j == Usable(stage1)
<1>1. j \in {"stamped", "unstamped", "implausible"}
  BY StageIs
<1>2. /\ Is(stage1, "stamped") = (IF j = "stamped" THEN 1 ELSE 0)
      /\ Is(stage1, "unstamped") = (IF j = "unstamped" THEN 1 ELSE 0)
      /\ Is(stage1, "implausible") = (IF j = "implausible" THEN 1 ELSE 0)
  BY DEF Is
<1>3. Classified(t, stage1) =
        CASE j = "stamped"   -> [t EXCEPT !.stamped = @ + 1]
          [] j = "unstamped" -> [t EXCEPT !.unstamped = @ + 1]
          [] OTHER           -> [t EXCEPT !.implausible = @ + 1]
  BY DEF Classified
<1> HIDE DEF j
<1>4. CASE j = "stamped"
  <2>1. Classified(t, stage1) = [t EXCEPT !.stamped = @ + 1]
    BY <1>3, <1>4
  <2> QED BY <1>2, <1>4, <2>1 DEF Trackers
<1>5. CASE j = "unstamped"
  <2>1. Classified(t, stage1) = [t EXCEPT !.unstamped = @ + 1]
    BY <1>3, <1>5
  <2> QED BY <1>2, <1>5, <2>1 DEF Trackers
<1>6. CASE j = "implausible"
  <2>1. Classified(t, stage1) = [t EXCEPT !.implausible = @ + 1]
    BY <1>3, <1>6
  <2> QED BY <1>2, <1>6, <2>1 DEF Trackers
<1> QED BY <1>1, <1>4, <1>5, <1>6

LEMMA SourceIs ==
    ASSUME NEW t \in Trackers, NEW stage1 \in Stage1, NEW ingress \in Nat
    PROVE  LET u   == RecordSource(t, stage1, ingress)
               own == StageOne(stage1) + ingress
           IN  /\ u \in Trackers /\ own \in Nat
               /\ u.recvToPublish = Observe(t.recvToPublish, ingress)
               /\ u.sendToRecv.sum = t.sendToRecv.sum + StageOne(stage1)
               /\ u.sendToRecv.count = t.sendToRecv.count + Is(stage1, "stamped")
               /\ u.total = Observe(t.total, own) /\ u.last = own
               /\ u.stamped = t.stamped + Is(stage1, "stamped")
               /\ u.unstamped = t.unstamped + Is(stage1, "unstamped")
               /\ u.implausible = t.implausible + Is(stage1, "implausible")
<1> DEFINE c == Classified(t, stage1)
           own == StageOne(stage1) + ingress
           a == Observe(t.recvToPublish, ingress)
           b == IF Usable(stage1) = "stamped" THEN Observe(t.sendToRecv, stage1) ELSE t.sendToRecv
           d == Observe(t.total, own)
           u == RecordSource(t, stage1, ingress)
<1>1. /\ c \in Trackers
      /\ c.sendToRecv = t.sendToRecv /\ c.recvToPublish = t.recvToPublish /\ c.total = t.total
      /\ c.stamped = t.stamped + Is(stage1, "stamped")
      /\ c.unstamped = t.unstamped + Is(stage1, "unstamped")
      /\ c.implausible = t.implausible + Is(stage1, "implausible")
  BY ClassifiedIs
<1>2. t.recvToPublish \in Histograms /\ t.sendToRecv \in Histograms /\ t.total \in Histograms
  BY DEF Trackers
<1>3. own \in Nat
  BY StageIs
<1>4. a \in Histograms /\ d \in Histograms
  <2> HIDE DEF own
  <2> QED BY <1>2, <1>3, ObserveIs
<1>5. b \in Histograms /\ b.sum = t.sendToRecv.sum + StageOne(stage1)
      /\ b.count = t.sendToRecv.count + Is(stage1, "stamped")
  <2> DEFINE h == t.sendToRecv
  <2>1. h \in Histograms /\ h.sum \in Nat /\ h.count \in Nat
    BY <1>2 DEF Histograms
  <2>2. CASE Usable(stage1) = "stamped"
    <3>1. stage1 \in Nat /\ StageOne(stage1) = stage1 /\ Is(stage1, "stamped") = 1
      BY <2>2, StageIs DEF Is
    <3> DEFINE o == Observe(h, stage1)
    <3> HIDE DEF h
    <3>2. o \in Histograms /\ o.sum = h.sum + stage1 /\ o.count = h.count + 1
      BY <2>1, <3>1, ObserveIs
    <3>3. b = o
      BY <2>2 DEF h
    <3> HIDE DEF o, b
    <3> QED BY <3>1, <3>2, <3>3 DEF h
  <2>3. CASE Usable(stage1) # "stamped"
    <3>1. StageOne(stage1) = 0 /\ Is(stage1, "stamped") = 0
      BY <2>3, StageIs DEF Is
    <3>2. b = h
      BY <2>3
    <3> HIDE DEF b, h
    <3> QED BY <2>1, <3>1, <3>2 DEF h
  <2> QED BY <2>2, <2>3
<1>6. u = [c EXCEPT !.recvToPublish = a, !.sendToRecv = b, !.total = d, !.last = own]
  <2>1. u = [c EXCEPT !.recvToPublish = Observe(c.recvToPublish, ingress),
                      !.sendToRecv = IF Usable(stage1) = "stamped"
                                     THEN Observe(c.sendToRecv, stage1) ELSE c.sendToRecv,
                      !.total = Observe(c.total, own), !.last = own]
    <3> HIDE DEF Trackers
    <3> QED BY DEF RecordSource
  <2> HIDE DEF c, own, u
  <2> QED BY <1>1, <2>1
<1> HIDE DEF a, b, c, d, own, u
<1>7. /\ u \in Trackers /\ u.recvToPublish = a /\ u.sendToRecv = b /\ u.total = d /\ u.last = own
      /\ u.stamped = c.stamped /\ u.unstamped = c.unstamped /\ u.implausible = c.implausible
  BY <1>1, <1>3, <1>4, <1>5, <1>6 DEF Trackers
<1>8. /\ u \in Trackers /\ own \in Nat
      /\ u.recvToPublish = a
      /\ u.sendToRecv.sum = t.sendToRecv.sum + StageOne(stage1)
      /\ u.sendToRecv.count = t.sendToRecv.count + Is(stage1, "stamped")
      /\ u.total = d /\ u.last = own
      /\ u.stamped = t.stamped + Is(stage1, "stamped")
      /\ u.unstamped = t.unstamped + Is(stage1, "unstamped")
      /\ u.implausible = t.implausible + Is(stage1, "implausible")
  BY <1>1, <1>3, <1>5, <1>7
<1> QED BY <1>8 DEF a, d, own, u

LEMMA SinkIs ==
    ASSUME NEW t \in Trackers, NEW stage1 \in Stage1, NEW ingress \in Nat, NEW waited \in Nat
    PROVE  LET u == RecordSink(t, stage1, ingress, waited)
               e == StageOne(stage1) + ingress + waited
           IN  /\ u \in Trackers /\ e \in Nat
               /\ u.publishToSeen = Observe(t.publishToSeen, waited)
               /\ u.total = Observe(t.total, e)
               /\ u.stamped = t.stamped + Is(stage1, "stamped")
               /\ u.unstamped = t.unstamped + Is(stage1, "unstamped")
               /\ u.implausible = t.implausible + Is(stage1, "implausible")
<1> DEFINE c == Classified(t, stage1)
           e == StageOne(stage1) + ingress + waited
           a == Observe(t.publishToSeen, waited)
           d == Observe(t.total, e)
           u == RecordSink(t, stage1, ingress, waited)
<1>1. /\ c \in Trackers /\ c.publishToSeen = t.publishToSeen /\ c.total = t.total
      /\ c.stamped = t.stamped + Is(stage1, "stamped")
      /\ c.unstamped = t.unstamped + Is(stage1, "unstamped")
      /\ c.implausible = t.implausible + Is(stage1, "implausible")
  BY ClassifiedIs
<1>2. t.publishToSeen \in Histograms /\ t.total \in Histograms
  BY DEF Trackers
<1>3. e \in Nat
  BY StageIs
<1>4. a \in Histograms /\ d \in Histograms
  <2> HIDE DEF e
  <2> QED BY <1>2, <1>3, ObserveIs
<1>5. u = [c EXCEPT !.publishToSeen = a, !.total = d]
  <2>1. u = [c EXCEPT !.publishToSeen = Observe(c.publishToSeen, waited), !.total = Observe(c.total, e)]
    BY DEF RecordSink
  <2> HIDE DEF c, e, u
  <2> QED BY <1>1, <2>1
<1> HIDE DEF a, c, d, e, u
<1>6. /\ u \in Trackers /\ u.publishToSeen = a /\ u.total = d
      /\ u.stamped = c.stamped /\ u.unstamped = c.unstamped /\ u.implausible = c.implausible
  BY <1>1, <1>4, <1>5 DEF Trackers
<1>7. /\ u \in Trackers /\ e \in Nat /\ u.publishToSeen = a /\ u.total = d
      /\ u.stamped = t.stamped + Is(stage1, "stamped")
      /\ u.unstamped = t.unstamped + Is(stage1, "unstamped")
      /\ u.implausible = t.implausible + Is(stage1, "implausible")
  BY <1>1, <1>3, <1>6
<1> QED BY <1>7 DEF a, d, e, u

--------------------------------------------------------------------------------
(* The correction for a stall.                                             *)

\* The samples made up are the first ones, as many as MadeUp says.
LEMMA MissedIs ==
    ASSUME NEW o \in Nat
    PROVE  /\ MadeUp(o) \in 0 .. MaxBackfill
           /\ Interval = 0 \/ o <= Interval => MadeUp(o) = 0
           /\ Interval # 0 => Missed(o) = 1 .. MadeUp(o)
<1> DEFINE q == o \div Interval
           m == MadeUp(o)
<1>1. Interval \in Nat /\ MaxBackfill \in Nat
  BY LatencyAssumption
<1>2. m = Min({MaxBackfill, IF Interval = 0 THEN 0 ELSE Max({1, q}) - 1})
  BY DEF MadeUp
<1> HIDE DEF m, q
<1>3. CASE Interval = 0
  <2>1. m = Min({MaxBackfill, 0})
    BY <1>2, <1>3
  <2>2. m = IF MaxBackfill <= 0 THEN MaxBackfill ELSE 0
    BY <1>1, <2>1, LeastAndMost
  <2> QED BY <1>1, <1>3, <2>2 DEF m
<1>4. CASE Interval # 0
  <2> DEFINE r == o % Interval
  <2>1. q \in Nat /\ o = Interval * q + r /\ r \in Nat /\ r < Interval
    <3>1. Interval \in Nat \ {0}
      BY <1>1, <1>4
    <3> QED BY <3>1 DEF q
  <2> HIDE DEF r
  <2>2. Max({1, q}) = IF 1 >= q THEN 1 ELSE q
    BY <2>1, LeastAndMost
  <2> DEFINE e == Max({1, q}) - 1
  <2>3. e \in Nat /\ e = IF q = 0 THEN 0 ELSE q - 1
    BY <2>1, <2>2
  <2>4. m = Min({MaxBackfill, e})
    BY <1>2, <1>4
  <2> HIDE DEF e
  <2>5. m = IF MaxBackfill <= e THEN MaxBackfill ELSE e
    BY <1>1, <2>3, <2>4, LeastAndMost
  <2>6. m \in 0 .. MaxBackfill
    BY <1>1, <2>3, <2>5
  <2>7. ASSUME o <= Interval PROVE m = 0
    <3>1. q <= 1
      <4> SUFFICES ASSUME q > 1 PROVE FALSE
        BY <2>1
      <4> DEFINE k == q - 2
      <4>1. k \in Nat /\ q = 2 + k
        BY <2>1
      <4> HIDE DEF k
      <4>2. Interval * q = Interval + Interval + Interval * k /\ Interval * k \in Nat
        BY <1>1, <4>1
      <4> QED BY <1>1, <1>4, <2>1, <2>7, <4>2
    <3> QED BY <1>1, <2>1, <2>3, <2>5, <3>1
  <2>8. ASSUME NEW k \in 1 .. MaxBackfill PROVE o - k * Interval >= Interval <=> k <= m
    <3>1. k \in Nat \ {0} /\ k * Interval \in Nat
      BY <1>1
    <3>2. CASE k + 1 <= q
      <4> DEFINE d == q - k - 1
      <4>1. d \in Nat /\ q = k + 1 + d
        BY <2>1, <3>1, <3>2
      <4> HIDE DEF d
      <4>2. Interval * q = k * Interval + Interval + Interval * d /\ Interval * d \in Nat
        BY <1>1, <3>1, <4>1
      <4>3. o - k * Interval >= Interval
        BY <1>1, <2>1, <3>1, <4>2
      <4>4. k <= m
        BY <1>1, <2>1, <2>3, <2>5, <3>1, <3>2
      <4> QED BY <4>3, <4>4
    <3>3. CASE ~(k + 1 <= q)
      <4> DEFINE d == k - q
      <4>1. d \in Nat /\ k = q + d
        BY <2>1, <3>1, <3>3
      <4> HIDE DEF d
      <4>2. k * Interval = Interval * q + Interval * d /\ Interval * d \in Nat /\ Interval * q \in Nat
        BY <1>1, <2>1, <4>1
      <4>3. ~(o - k * Interval >= Interval)
        BY <1>1, <2>1, <3>1, <4>2
      <4>4. ~(k <= m)
        BY <1>1, <2>1, <2>3, <2>5, <3>1, <3>3
      <4> QED BY <4>3, <4>4
    <3> QED BY <3>2, <3>3
  <2>9. Missed(o) = 1 .. m
    <3>1. Missed(o) = {k \in 1 .. MaxBackfill : k <= m}
      BY <2>8 DEF Missed
    <3>2. {k \in 1 .. MaxBackfill : k <= m} = 1 .. m
      BY <1>1, <2>6
    <3> QED BY <3>1, <3>2
  <2> QED BY <1>4, <2>6, <2>7, <2>9 DEF m
<1> QED BY <1>3, <1>4

FilledBody(t, g) ==
    [k \in 0 .. MaxBackfill |->
        IF k = 0 THEN t.total
        ELSE IF k \in Missed(t.last) THEN Observe(g[k - 1], t.last - k * Interval)
        ELSE g[k - 1]]
FilledOf(t) == CHOOSE g : g = FilledBody(t, g)

LEMMA ObserveGrows ==
    \A h \in Histograms, v \in Nat :
        /\ Observe(h, v) \in Histograms
        /\ Observe(h, v).count = h.count + 1 /\ Observe(h, v).sum = h.sum + v
        /\ Observe(h, v).max = IF h.max >= v THEN h.max ELSE v
<1> TAKE h \in Histograms, v \in Nat
<1> DEFINE g == Observe(h, v)
<1>1. /\ g \in Histograms
      /\ g.count = h.count + 1 /\ g.sum = h.sum + v
      /\ g.max = (IF h.max >= v THEN h.max ELSE v)
      /\ g.min = (IF h.count # 0 /\ h.min <= v THEN h.min ELSE v)
      /\ BucketOf(v) \in 0 .. Buckets - 1
      /\ \A i \in 0 .. Buckets - 1 : g.counts[i] = h.counts[i] + (IF i = BucketOf(v) THEN 1 ELSE 0)
  BY ObserveIs
<1> QED BY <1>1

LEMMA FilledIs ==
    ASSUME NEW t \in Trackers, t.last <= t.total.max, Interval # 0
    PROVE  LET h == FilledOf(t)[MaxBackfill]
           IN  /\ h \in Histograms
               /\ h.count = t.total.count + MadeUp(t.last)
               /\ h.sum >= t.total.sum /\ h.max = t.total.max
<1> DEFINE N == MaxBackfill
           T == Histograms
           o == t.last
           a == t.total
           M == Missed(o)
           m == MadeUp(o)
           step == [p \in (1 .. N) \X T |-> IF p[1] \in M THEN Observe(p[2], o - p[1] * Interval) ELSE p[2]]
<1>1. N \in Nat /\ Interval \in Nat /\ o \in Nat /\ a \in T /\ o <= a.max /\ a.max \in Nat /\ a.count \in Nat /\ a.sum \in Nat
  BY LatencyAssumption DEF Trackers, Histograms
<1>2. M = 1 .. m /\ m \in 0 .. N
  BY <1>1, MissedIs
<1>3. ASSUME NEW k \in M PROVE o - k * Interval \in Nat /\ o - k * Interval <= o
  <2>1. o - k * Interval >= Interval /\ k \in Nat
    BY <1>3 DEF Missed
  <2>2. k * Interval \in Nat
    BY <1>1, <2>1
  <2> HIDE DEF o
  <2> QED BY <1>1, <2>1, <2>2
<1> HIDE DEF M, m, o, a
<1>4. step \in [(1 .. N) \X T -> T]
  <2>1. ASSUME NEW p \in (1 .. N) \X T
        PROVE  (IF p[1] \in M THEN Observe(p[2], o - p[1] * Interval) ELSE p[2]) \in T
    <3>1. p[2] \in T
      OBVIOUS
    <3>2. CASE p[1] \in M
      <4>1. o - p[1] * Interval \in Nat
        BY <1>3, <3>2
      <4>2. Observe(p[2], o - p[1] * Interval) \in T
        BY <3>1, <4>1, ObserveIs
      <4> QED BY <3>2, <4>2
    <3> QED BY <3>1, <3>2
  <2> QED BY <2>1
<1> HIDE DEF T
<1>5. PICK f \in [0 .. N -> T] : Unrolled(f, N, a, step)
  <2> HIDE DEF step, N
  <2> QED BY <1>1, <1>4, Recursion
<1>6. f[0] = a
  BY <1>5 DEF Unrolled
<1>7. ASSUME NEW k \in 1 .. N
      PROVE  f[k] = IF k \in M THEN Observe(f[k - 1], o - k * Interval) ELSE f[k - 1]
  <2>1. f[k] = step[<<k, f[k - 1]>>]
    BY <1>5 DEF Unrolled
  <2>2. k - 1 \in 0 .. N
    BY <1>1
  <2>3. f[k - 1] \in T
    BY <2>2
  <2>4. <<k, f[k - 1]>> \in (1 .. N) \X T
    BY <2>3
  <2> QED BY <2>1, <2>4
<1> HIDE DEF step
<1>8. f = FilledBody(t, f)
  <2>1. ASSUME NEW k \in 0 .. N
        PROVE  f[k] = IF k = 0 THEN a ELSE IF k \in M THEN Observe(f[k - 1], o - k * Interval) ELSE f[k - 1]
    <3>1. CASE k = 0
      BY <1>6, <3>1
    <3>2. CASE k # 0
      <4>1. k \in 1 .. N
        BY <1>1, <3>2
      <4> HIDE DEF N
      <4> QED BY <1>7, <3>2, <4>1
    <3> QED BY <3>1, <3>2
  <2>2. FilledBody(t, f) = [k \in 0 .. N |-> f[k]]
    BY <2>1 DEF FilledBody, a, M, o
  <2>3. f = [k \in 0 .. N |-> f[k]]
    OBVIOUS
  <2> QED BY <2>2, <2>3
<1> DEFINE g == FilledOf(t)
<1>9. g = FilledBody(t, g)
  <2>1. FilledOf(t) = FilledBody(t, FilledOf(t))
    BY <1>8 DEF FilledOf
  <2> QED BY <2>1
<1> HIDE DEF g
<1>10. \A k \in 0 .. N : g[k] = IF k = 0 THEN a ELSE IF k \in M THEN Observe(g[k - 1], o - k * Interval) ELSE g[k - 1]
  BY <1>9 DEF FilledBody, a, M, o
<1> DEFINE Good(h, k) ==
               /\ h \in T /\ h.count = a.count + (IF k <= m THEN k ELSE m)
               /\ h.sum >= a.sum /\ h.max = a.max
           S == {k \in 0 .. N : Good(g[k], k)}
<1>11. 0 \in S
  <2>1. g[0] = a /\ 0 \in 0 .. N
    BY <1>1, <1>10
  <2>2. Good(a, 0)
    BY <1>1, <1>2
  <2> QED BY <2>1, <2>2
<1>12. ASSUME NEW k \in 0 .. N - 1, k \in S PROVE k + 1 \in S
  <2> DEFINE h == g[k]
             u == g[k + 1]
             v == o - (k + 1) * Interval
  <2>1. k + 1 \in 0 .. N /\ k + 1 # 0 /\ (k + 1) - 1 = k /\ k \in Nat
    BY <1>1
  <2>2. u = IF k + 1 \in M THEN Observe(h, v) ELSE h
    BY <1>10, <2>1
  <2>3. Good(h, k)
    BY <1>12
  <2> HIDE DEF h, u
  <2>4. h.sum \in Nat /\ h.max \in Nat /\ h.count \in Nat
    BY <2>3 DEF T, Histograms
  <2>5. CASE k + 1 \in M
    <3>1. v \in Nat /\ v <= o
      BY <1>3, <2>5
    <3>2. u = Observe(h, v)
      BY <2>2, <2>5
    <3> HIDE DEF v
    <3>3. /\ u \in Histograms /\ u.count = h.count + 1 /\ u.sum = h.sum + v
          /\ u.max = (IF h.max >= v THEN h.max ELSE v)
      <4>1. h \in Histograms
        BY <2>3 DEF T
      <4> QED BY <3>1, <3>2, <4>1, ObserveGrows
    <3>4. k + 1 <= m
      BY <1>2, <2>5
    <3>5. u.max = a.max /\ u.sum >= a.sum
      BY SMTT(60), <1>1, <2>3, <2>4, <3>1, <3>3
    <3>6. u.count = a.count + (k + 1)
      BY SMTT(60), <1>1, <1>2, <2>1, <2>3, <3>3, <3>4
    <3>7. Good(u, k + 1)
      BY <3>3, <3>4, <3>5, <3>6 DEF T
    <3> QED BY <2>1, <3>7 DEF u
  <2>6. CASE k + 1 \notin M
    <3>1. u = h
      BY <2>2, <2>6
    <3>2. ~(k + 1 <= m)
      BY <1>2, <2>1, <2>6
    <3>3. (IF k <= m THEN k ELSE m) = m
      BY <1>2, <2>1, <3>2
    <3>4. Good(u, k + 1)
      BY <2>3, <3>1, <3>2, <3>3
    <3> QED BY <2>1, <3>4 DEF u
  <2> QED BY <2>5, <2>6
<1>13. Good(g[N], N)
  <2>1. N \in 0 .. N
    BY <1>1
  <2>2. N \in S
    <3> HIDE DEF S, N
    <3> QED BY <1>1, <1>11, <1>12, <2>1, Climb
  <2> HIDE DEF Good, N
  <2> QED BY <2>2
<1>14. (IF N <= m THEN N ELSE m) = m
  BY <1>1, <1>2
<1> QED BY <1>13, <1>14 DEF T, a, g, m, o

LEMMA BackfillIs ==
    ASSUME NEW t \in Trackers, t.last <= t.total.max
    PROVE  LET u == Backfill(t)
           IN  /\ u \in Trackers
               /\ u.sendToRecv = t.sendToRecv /\ u.recvToPublish = t.recvToPublish
               /\ u.stamped = t.stamped /\ u.unstamped = t.unstamped /\ u.implausible = t.implausible
               /\ u.total.count = t.total.count + MadeUp(t.last)
               /\ u.total.sum >= t.total.sum /\ u.total.max = t.total.max
<1>1. t.last \in Nat /\ t.truncated \in Nat /\ t.total \in Histograms
  BY DEF Trackers
<1>2. t.total.count \in Nat /\ t.total.sum \in Nat /\ t.total.max \in Nat
  BY <1>1 DEF Histograms
<1>3. CASE Interval = 0 \/ t.last <= Interval
  <2>1. Backfill(t) = t
    BY <1>3 DEF Backfill
  <2>2. MadeUp(t.last) = 0
    BY <1>1, <1>3, MissedIs
  <2> QED BY <1>2, <2>1, <2>2
<1>4. CASE ~(Interval = 0 \/ t.last <= Interval)
  <2> DEFINE h == FilledOf(t)[MaxBackfill]
             w == t.truncated + (IF Missed(t.last) = 1 .. MaxBackfill THEN 1 ELSE 0)
             u == [t EXCEPT !.total = h, !.truncated = w]
  <2>1. Backfill(t) = u
    BY <1>4 DEF Backfill, FilledOf, FilledBody
  <2>2. /\ h \in Histograms /\ h.count = t.total.count + MadeUp(t.last)
        /\ h.sum >= t.total.sum /\ h.max = t.total.max
    BY <1>4, FilledIs
  <2>3. w \in Nat
    BY <1>1
  <2> HIDE DEF h, w
  <2>4. u \in Trackers /\ u.total = h
        /\ u.sendToRecv = t.sendToRecv /\ u.recvToPublish = t.recvToPublish
        /\ u.stamped = t.stamped /\ u.unstamped = t.unstamped /\ u.implausible = t.implausible
    BY <2>2, <2>3 DEF Trackers
  <2> HIDE DEF u
  <2> QED BY <2>1, <2>2, <2>4
<1> QED BY <1>3, <1>4


--------------------------------------------------------------------------------
(* The stages of the records, one by one.                                  *)

Flights == [stage1 : Stage1, ingress : Ingress]
Takens  == [stage1 : Stage1, ingress : Ingress, waited : Waits]
Ways    == Flights \cup Takens

\* What is measured of each record: the stages, the samples made up, the judgment.
Firsts(s)   == [i \in DOMAIN s |-> StageOne(s[i].stage1)]
Ins(s)      == [i \in DOMAIN s |-> s[i].ingress]
MadeUps(s)  == [i \in DOMAIN s |-> MadeUp(Own(s[i]))]
JudgedAs(s, judgment) == [i \in DOMAIN s |-> Is(s[i].stage1, judgment)]
Waited(s)   == [i \in DOMAIN s |-> s[i].waited]
Wholes(s)     == [i \in DOMAIN s |-> EndToEnd(s[i])]

LEMMA WayIs ==
    ASSUME NEW r \in Ways
    PROVE  /\ r.stage1 \in Stage1 /\ r.ingress \in Nat /\ StageOne(r.stage1) \in Nat
           /\ Own(r) \in Nat /\ Own(r) = StageOne(r.stage1) + r.ingress
           /\ MadeUp(Own(r)) \in Nat
<1>1. r.stage1 \in Stage1 /\ r.ingress \in Ingress
  BY DEF Ways, Flights, Takens
<1>2. Ingress \subseteq Nat /\ MaxBackfill \in Nat
  BY LatencyAssumption
<1>3. StageOne(r.stage1) \in Nat
  BY <1>1, StageIs
<1>4. Own(r) \in Nat /\ Own(r) = StageOne(r.stage1) + r.ingress
  <2> DEFINE a == StageOne(r.stage1)
             b == r.ingress
  <2>1. a \in Nat /\ b \in Nat
    BY <1>1, <1>2, <1>3
  <2>2. Own(r) = a + b
    BY DEF Own
  <2> HIDE DEF a, b
  <2>3. Own(r) \in Nat /\ Own(r) = a + b
    BY <2>1, <2>2
  <2> QED BY <2>3 DEF a, b
<1> DEFINE m == MadeUp(Own(r))
<1>5. m \in 0 .. MaxBackfill
  BY <1>4, MissedIs
<1> HIDE DEF m
<1>6. m \in Nat
  BY <1>2, <1>5
<1> QED BY <1>1, <1>2, <1>3, <1>4, <1>6 DEF m

LEMMA TakenIs ==
    ASSUME NEW r \in Takens
    PROVE  /\ r \in Ways /\ r.waited \in Nat
           /\ EndToEnd(r) \in Nat /\ EndToEnd(r) = StageOne(r.stage1) + r.ingress + r.waited
<1>1. r \in Ways /\ r.waited \in Nat
  BY LatencyAssumption DEF Ways, Takens
<1> QED BY <1>1, WayIs DEF EndToEnd

\* Numbers told of the elements of a sequence are a sequence as long.
LEMMA AsMany ==
    ASSUME NEW n \in Nat, NEW f, f \in [1 .. n -> Nat]
    PROVE  f \in Seq(Nat) /\ Len(f) = n /\ DOMAIN f = 1 .. n
<1>1. f \in Seq(Nat)
  BY SeqDef
<1>2. DOMAIN f = 1 .. n
  OBVIOUS
<1> DEFINE m == Len(f)
<1>3. m \in Nat /\ 1 .. m = 1 .. n
  BY <1>1, <1>2, LenProperties
<1> HIDE DEF m
<1>4. m = n
  <2>1. m # 0 => m \in 1 .. m
    BY <1>3
  <2>2. n # 0 => n \in 1 .. n
    OBVIOUS
  <2> QED BY <1>3, <2>1, <2>2
<1> QED BY <1>1, <1>2, <1>4 DEF m

LEMMA Measures ==
    ASSUME NEW s \in Seq(Ways), NEW judgment
    PROVE  /\ Firsts(s) \in Seq(Nat) /\ Len(Firsts(s)) = Len(s)
           /\ Ins(s) \in Seq(Nat) /\ Len(Ins(s)) = Len(s)
           /\ MadeUps(s) \in Seq(Nat) /\ Len(MadeUps(s)) = Len(s)
           /\ JudgedAs(s, judgment) \in Seq(Nat) /\ Len(JudgedAs(s, judgment)) = Len(s)
           /\ \A i \in 1 .. Len(s) :
                  /\ Firsts(s)[i] = StageOne(s[i].stage1) /\ Ins(s)[i] = s[i].ingress
                  /\ MadeUps(s)[i] = MadeUp(Own(s[i])) /\ JudgedAs(s, judgment)[i] = Is(s[i].stage1, judgment)
<1> DEFINE n == Len(s)
<1>1. n \in Nat /\ DOMAIN s = 1 .. n /\ \A i \in 1 .. n : s[i] \in Ways
  OBVIOUS
<1>2. \A i \in 1 .. n : StageOne(s[i].stage1) \in Nat /\ s[i].ingress \in Nat /\ MadeUp(Own(s[i])) \in Nat
                        /\ Is(s[i].stage1, judgment) \in Nat
  BY <1>1, WayIs DEF Is
<1> HIDE DEF n
<1>3. /\ Firsts(s) \in [1 .. n -> Nat] /\ Ins(s) \in [1 .. n -> Nat]
      /\ MadeUps(s) \in [1 .. n -> Nat] /\ JudgedAs(s, judgment) \in [1 .. n -> Nat]
  BY <1>1, <1>2 DEF Firsts, Ins, MadeUps, JudgedAs
<1>4. \A i \in 1 .. n :
          /\ Firsts(s)[i] = StageOne(s[i].stage1) /\ Ins(s)[i] = s[i].ingress
          /\ MadeUps(s)[i] = MadeUp(Own(s[i])) /\ JudgedAs(s, judgment)[i] = Is(s[i].stage1, judgment)
  BY <1>1 DEF Firsts, Ins, MadeUps, JudgedAs
<1>5. Firsts(s) \in Seq(Nat) /\ Len(Firsts(s)) = n
  BY <1>1, <1>3, AsMany
<1>6. Ins(s) \in Seq(Nat) /\ Len(Ins(s)) = n
  BY <1>1, <1>3, AsMany
<1>7. MadeUps(s) \in Seq(Nat) /\ Len(MadeUps(s)) = n
  BY <1>1, <1>3, AsMany
<1>8. JudgedAs(s, judgment) \in Seq(Nat) /\ Len(JudgedAs(s, judgment)) = n
  BY <1>1, <1>3, AsMany
<1> QED BY <1>4, <1>5, <1>6, <1>7, <1>8 DEF n

LEMMA TakenMeasures ==
    ASSUME NEW s \in Seq(Takens)
    PROVE  /\ s \in Seq(Ways)
           /\ Waited(s) \in Seq(Nat) /\ Len(Waited(s)) = Len(s)
           /\ Wholes(s) \in Seq(Nat) /\ Len(Wholes(s)) = Len(s)
           /\ \A i \in 1 .. Len(s) : Waited(s)[i] = s[i].waited /\ Wholes(s)[i] = EndToEnd(s[i])
<1> DEFINE n == Len(s)
<1>1. n \in Nat /\ DOMAIN s = 1 .. n /\ \A i \in 1 .. n : s[i] \in Takens
  OBVIOUS
<1>2. s \in Seq(Ways)
  <2>1. Takens \subseteq Ways
    BY DEF Ways
  <2> HIDE DEF n
  <2> QED BY <2>1
<1>3. \A i \in 1 .. n : s[i].waited \in Nat /\ EndToEnd(s[i]) \in Nat
  BY <1>1, TakenIs
<1> HIDE DEF n
<1>4. Waited(s) \in [1 .. n -> Nat] /\ Wholes(s) \in [1 .. n -> Nat]
  BY <1>1, <1>3 DEF Waited, Wholes
<1>5. \A i \in 1 .. n : Waited(s)[i] = s[i].waited /\ Wholes(s)[i] = EndToEnd(s[i])
  BY <1>1 DEF Waited, Wholes
<1>6. Waited(s) \in Seq(Nat) /\ Len(Waited(s)) = n
  BY <1>1, <1>4, AsMany
<1>7. Wholes(s) \in Seq(Nat) /\ Len(Wholes(s)) = n
  BY <1>1, <1>4, AsMany
<1> QED BY <1>2, <1>5, <1>6, <1>7 DEF n

\* One more record.
LEMMA MeasuresGrow ==
    ASSUME NEW s \in Seq(Ways), NEW r \in Ways, NEW judgment
    PROVE  LET t == Append(s, r)
           IN  /\ Total(Firsts(t)) = Total(Firsts(s)) + StageOne(r.stage1)
               /\ Told(Ins(t)) = Observe(Told(Ins(s)), r.ingress)
               /\ Total(MadeUps(t)) = Total(MadeUps(s)) + MadeUp(Own(r))
               /\ Total(JudgedAs(t, judgment)) = Total(JudgedAs(s, judgment)) + Is(r.stage1, judgment)
<1> DEFINE t == Append(s, r)
           n == Len(s)
<1>1. t \in Seq(Ways) /\ Len(t) = n + 1 /\ t[n + 1] = r /\ n \in Nat /\ \A i \in 1 .. n : t[i] = s[i]
  OBVIOUS
<1>2. \A i \in 1 .. n : i \in 1 .. n + 1
  BY <1>1
<1>3. n + 1 \in 1 .. n + 1
  BY <1>1
<1> HIDE DEF t
<1>4. /\ Firsts(s) \in Seq(Nat) /\ Len(Firsts(s)) = n
      /\ Ins(s) \in Seq(Nat) /\ Len(Ins(s)) = n
      /\ MadeUps(s) \in Seq(Nat) /\ Len(MadeUps(s)) = n
      /\ JudgedAs(s, judgment) \in Seq(Nat) /\ Len(JudgedAs(s, judgment)) = n
      /\ \A i \in 1 .. n :
             /\ Firsts(s)[i] = StageOne(s[i].stage1) /\ Ins(s)[i] = s[i].ingress
             /\ MadeUps(s)[i] = MadeUp(Own(s[i])) /\ JudgedAs(s, judgment)[i] = Is(s[i].stage1, judgment)
  BY Measures
<1>5. /\ Firsts(t) \in Seq(Nat) /\ Len(Firsts(t)) = n + 1
      /\ Ins(t) \in Seq(Nat) /\ Len(Ins(t)) = n + 1
      /\ MadeUps(t) \in Seq(Nat) /\ Len(MadeUps(t)) = n + 1
      /\ JudgedAs(t, judgment) \in Seq(Nat) /\ Len(JudgedAs(t, judgment)) = n + 1
      /\ \A i \in 1 .. n + 1 :
             /\ Firsts(t)[i] = StageOne(t[i].stage1) /\ Ins(t)[i] = t[i].ingress
             /\ MadeUps(t)[i] = MadeUp(Own(t[i])) /\ JudgedAs(t, judgment)[i] = Is(t[i].stage1, judgment)
  <2>1. Len(t) = n + 1
    BY <1>1
  <2> HIDE DEF n
  <2> QED BY ZenonT(60), <1>1, <2>1, Measures
<1> HIDE DEF n
<1>6. \A i \in 1 .. n :
          /\ Firsts(t)[i] = Firsts(s)[i] /\ Ins(t)[i] = Ins(s)[i]
          /\ MadeUps(t)[i] = MadeUps(s)[i] /\ JudgedAs(t, judgment)[i] = JudgedAs(s, judgment)[i]
  BY ZenonT(60), <1>1, <1>2, <1>4, <1>5
<1>7. Total(Firsts(t)) = Total(Firsts(s)) + StageOne(r.stage1)
  <2> DEFINE a == Firsts(s)
             b == Firsts(t)
  <2>1. a \in Seq(Nat) /\ b \in Seq(Nat) /\ Len(b) = Len(a) + 1 /\ \A i \in 1 .. Len(a) : b[i] = a[i]
    BY <1>4, <1>5, <1>6
  <2>2. b[Len(b)] = StageOne(r.stage1)
    BY <1>1, <1>3, <1>5
  <2> HIDE DEF a, b
  <2>3. Total(b) = Total(a) + b[Len(b)]
    BY <2>1, TotalGrows
  <2> QED BY <2>2, <2>3 DEF a, b
<1>8. Total(MadeUps(t)) = Total(MadeUps(s)) + MadeUp(Own(r))
  <2> DEFINE a == MadeUps(s)
             b == MadeUps(t)
  <2>1. a \in Seq(Nat) /\ b \in Seq(Nat) /\ Len(b) = Len(a) + 1 /\ \A i \in 1 .. Len(a) : b[i] = a[i]
    BY <1>4, <1>5, <1>6
  <2>2. b[Len(b)] = MadeUp(Own(r))
    BY <1>1, <1>3, <1>5
  <2> HIDE DEF a, b
  <2>3. Total(b) = Total(a) + b[Len(b)]
    BY <2>1, TotalGrows
  <2> QED BY <2>2, <2>3 DEF a, b
<1>9. Total(JudgedAs(t, judgment)) = Total(JudgedAs(s, judgment)) + Is(r.stage1, judgment)
  <2> DEFINE a == JudgedAs(s, judgment)
             b == JudgedAs(t, judgment)
  <2>1. a \in Seq(Nat) /\ b \in Seq(Nat) /\ Len(b) = Len(a) + 1 /\ \A i \in 1 .. Len(a) : b[i] = a[i]
    BY <1>4, <1>5, <1>6
  <2>2. b[Len(b)] = Is(r.stage1, judgment)
    BY <1>1, <1>3, <1>5
  <2> HIDE DEF a, b
  <2>3. Total(b) = Total(a) + b[Len(b)]
    BY <2>1, TotalGrows
  <2> QED BY <2>2, <2>3 DEF a, b
<1>10. Told(Ins(t)) = Observe(Told(Ins(s)), r.ingress)
  <2> DEFINE a == Ins(s)
             b == Ins(t)
  <2>1. a \in Seq(Nat) /\ b \in Seq(Nat) /\ Len(b) = Len(a) + 1 /\ \A i \in 1 .. Len(a) : b[i] = a[i]
    BY <1>4, <1>5, <1>6
  <2>2. b[Len(b)] = r.ingress
    BY <1>1, <1>3, <1>5
  <2> HIDE DEF a, b
  <2>3. Told(b) = Observe(Told(a), b[Len(b)])
    BY <2>1, ToldGrows
  <2> QED BY <2>2, <2>3 DEF a, b
<1> QED BY <1>7, <1>8, <1>9, <1>10 DEF t

LEMMA TakenGrow ==
    ASSUME NEW s \in Seq(Takens), NEW r \in Takens
    PROVE  LET t == Append(s, r)
           IN  /\ Told(Waited(t)) = Observe(Told(Waited(s)), r.waited)
               /\ Told(Wholes(t)) = Observe(Told(Wholes(s)), EndToEnd(r))
<1> DEFINE t == Append(s, r)
           n == Len(s)
<1>1. t \in Seq(Takens) /\ Len(t) = n + 1 /\ t[n + 1] = r /\ n \in Nat /\ \A i \in 1 .. n : t[i] = s[i]
  OBVIOUS
<1>2. \A i \in 1 .. n : i \in 1 .. n + 1
  BY <1>1
<1>3. n + 1 \in 1 .. n + 1
  BY <1>1
<1> HIDE DEF t
<1>4. /\ Waited(s) \in Seq(Nat) /\ Len(Waited(s)) = n
      /\ Wholes(s) \in Seq(Nat) /\ Len(Wholes(s)) = n
      /\ \A i \in 1 .. n : Waited(s)[i] = s[i].waited /\ Wholes(s)[i] = EndToEnd(s[i])
  BY TakenMeasures
<1>5. /\ Waited(t) \in Seq(Nat) /\ Len(Waited(t)) = n + 1
      /\ Wholes(t) \in Seq(Nat) /\ Len(Wholes(t)) = n + 1
      /\ \A i \in 1 .. n + 1 : Waited(t)[i] = t[i].waited /\ Wholes(t)[i] = EndToEnd(t[i])
  <2>1. Len(t) = n + 1
    BY <1>1
  <2> HIDE DEF n
  <2> QED BY <1>1, <2>1, TakenMeasures
<1> HIDE DEF n
<1>6. \A i \in 1 .. n : Waited(t)[i] = Waited(s)[i] /\ Wholes(t)[i] = Wholes(s)[i]
  BY <1>1, <1>2, <1>4, <1>5
<1>7. Told(Waited(t)) = Observe(Told(Waited(s)), r.waited)
  <2> DEFINE a == Waited(s)
             b == Waited(t)
  <2>1. a \in Seq(Nat) /\ b \in Seq(Nat) /\ Len(b) = Len(a) + 1 /\ \A i \in 1 .. Len(a) : b[i] = a[i]
    BY <1>4, <1>5, <1>6
  <2>2. b[Len(b)] = r.waited
    BY <1>1, <1>3, <1>5
  <2> HIDE DEF a, b
  <2>3. Told(b) = Observe(Told(a), b[Len(b)])
    BY <2>1, ToldGrows
  <2> QED BY <2>2, <2>3 DEF a, b
<1>8. Told(Wholes(t)) = Observe(Told(Wholes(s)), EndToEnd(r))
  <2> DEFINE a == Wholes(s)
             b == Wholes(t)
  <2>1. a \in Seq(Nat) /\ b \in Seq(Nat) /\ Len(b) = Len(a) + 1 /\ \A i \in 1 .. Len(a) : b[i] = a[i]
    BY <1>4, <1>5, <1>6
  <2>2. b[Len(b)] = EndToEnd(r)
    BY <1>1, <1>3, <1>5
  <2> HIDE DEF a, b
  <2>3. Told(b) = Observe(Told(a), b[Len(b)])
    BY <2>1, ToldGrows
  <2> QED BY <2>2, <2>3 DEF a, b
<1> QED BY <1>7, <1>8 DEF t

\* What is measured of a record's first stages does not change as it is taken.
LEMMA SameMeasures ==
    ASSUME NEW s \in Seq(Ways), NEW t \in Seq(Ways), Len(t) = Len(s), NEW judgment,
           \A i \in 1 .. Len(s) : t[i].stage1 = s[i].stage1 /\ t[i].ingress = s[i].ingress
    PROVE  /\ Firsts(t) = Firsts(s) /\ Ins(t) = Ins(s) /\ MadeUps(t) = MadeUps(s)
           /\ JudgedAs(t, judgment) = JudgedAs(s, judgment)
           /\ \A i \in 1 .. Len(s) : Own(t[i]) = Own(s[i])
<1>1. DOMAIN s = 1 .. Len(s) /\ DOMAIN t = 1 .. Len(s)
  OBVIOUS
<1>2. \A i \in 1 .. Len(s) : Own(t[i]) = Own(s[i])
  BY DEF Own
<1> QED BY <1>1, <1>2 DEF Firsts, Ins, MadeUps, JudgedAs


--------------------------------------------------------------------------------
(* The trackers of the publisher and the subscriber.                       *)

\* What the publisher's tracker holds after the records of s.
SourceSound(t, s) ==
    /\ t \in Trackers
    /\ t.recvToPublish = Told(Ins(s))
    /\ t.sendToRecv.sum = Total(Firsts(s)) /\ t.sendToRecv.count = t.stamped
    /\ t.stamped = Total(JudgedAs(s, "stamped"))
    /\ t.unstamped = Total(JudgedAs(s, "unstamped"))
    /\ t.implausible = Total(JudgedAs(s, "implausible"))
    /\ t.stamped + t.unstamped + t.implausible = Len(s)
    /\ t.total.count = Len(s) + Total(MadeUps(s))
    /\ t.total.sum >= t.sendToRecv.sum + t.recvToPublish.sum
    /\ \A i \in 1 .. Len(s) : Own(s[i]) <= t.total.max
    /\ t.total.max = 0 \/ \E i \in 1 .. Len(s) : t.total.max = Own(s[i])

\* What the subscriber's holds after those it took.
SinkSound(t, s) ==
    /\ t \in Trackers
    /\ t.publishToSeen = Told(Waited(s)) /\ t.total = Told(Wholes(s))
    /\ t.stamped = Total(JudgedAs(s, "stamped"))
    /\ t.unstamped = Total(JudgedAs(s, "unstamped"))
    /\ t.implausible = Total(JudgedAs(s, "implausible"))

\* The inductive invariant.
LatInv ==
    /\ latFlight \in Seq(Flights) /\ latTaken \in Seq(Takens)
    /\ SourceSound(latSource, Records)
    /\ SinkSound(latSink, latTaken)

\* The publisher's tracker is as sound of records with the same first stages.
LEMMA SourceKept ==
    ASSUME NEW u, NEW s \in Seq(Ways), NEW t \in Seq(Ways), Len(t) = Len(s), SourceSound(u, s),
           \A i \in 1 .. Len(s) : t[i].stage1 = s[i].stage1 /\ t[i].ingress = s[i].ingress
    PROVE  SourceSound(u, t)
<1>1. /\ Firsts(t) = Firsts(s) /\ Ins(t) = Ins(s) /\ MadeUps(t) = MadeUps(s)
      /\ \A i \in 1 .. Len(s) : Own(t[i]) = Own(s[i])
  BY SameMeasures
<1>2. /\ JudgedAs(t, "stamped") = JudgedAs(s, "stamped")
      /\ JudgedAs(t, "unstamped") = JudgedAs(s, "unstamped")
      /\ JudgedAs(t, "implausible") = JudgedAs(s, "implausible")
  BY SameMeasures
<1> QED BY <1>1, <1>2 DEF SourceSound

LEMMA SourceGrows ==
    ASSUME NEW t, NEW s \in Seq(Ways), SourceSound(t, s), NEW stage1 \in Stage1, NEW ingress \in Ingress
    PROVE  SourceSound(Backfill(RecordSource(t, stage1, ingress)),
                       Append(s, [stage1 |-> stage1, ingress |-> ingress]))
<1> DEFINE r == [stage1 |-> stage1, ingress |-> ingress]
           z == Append(s, r)
           n == Len(s)
           c == RecordSource(t, stage1, ingress)
           u == Backfill(c)
           own == StageOne(stage1) + ingress
<1>1. r \in Ways /\ r.stage1 = stage1 /\ r.ingress = ingress /\ Own(r) = own
  BY DEF Ways, Flights, Own
<1>2. z \in Seq(Ways) /\ Len(z) = n + 1 /\ z[n + 1] = r /\ n \in Nat /\ \A i \in 1 .. n : z[i] = s[i]
  BY <1>1
<1>3. ingress \in Nat /\ StageOne(stage1) \in Nat
  BY LatencyAssumption, StageIs
<1>4. /\ Total(Firsts(z)) = Total(Firsts(s)) + StageOne(stage1)
      /\ Told(Ins(z)) = Observe(Told(Ins(s)), ingress)
      /\ Total(MadeUps(z)) = Total(MadeUps(s)) + MadeUp(own)
      /\ Total(JudgedAs(z, "stamped")) = Total(JudgedAs(s, "stamped")) + Is(stage1, "stamped")
      /\ Total(JudgedAs(z, "unstamped")) = Total(JudgedAs(s, "unstamped")) + Is(stage1, "unstamped")
      /\ Total(JudgedAs(z, "implausible")) = Total(JudgedAs(s, "implausible")) + Is(stage1, "implausible")
  <2> HIDE DEF r, n, own
  <2> QED BY <1>1, MeasuresGrow
<1>5. /\ Total(Firsts(s)) \in Nat /\ Total(MadeUps(s)) \in Nat
      /\ Total(JudgedAs(s, "stamped")) \in Nat /\ Total(JudgedAs(s, "unstamped")) \in Nat
      /\ Total(JudgedAs(s, "implausible")) \in Nat
  <2>1. /\ Firsts(s) \in Seq(Nat) /\ MadeUps(s) \in Seq(Nat) /\ JudgedAs(s, "stamped") \in Seq(Nat)
        /\ JudgedAs(s, "unstamped") \in Seq(Nat) /\ JudgedAs(s, "implausible") \in Seq(Nat)
    BY Measures
  <2> QED BY <2>1, TotalIsNat
<1>6. SourceSound(t, s)
  OBVIOUS
<1> HIDE DEF r, z, n, c, u
<1>7. t \in Trackers
  BY <1>6 DEF SourceSound
<1>8. /\ c \in Trackers /\ own \in Nat
      /\ c.recvToPublish = Observe(t.recvToPublish, ingress)
      /\ c.sendToRecv.sum = t.sendToRecv.sum + StageOne(stage1)
      /\ c.sendToRecv.count = t.sendToRecv.count + Is(stage1, "stamped")
      /\ c.total = Observe(t.total, own) /\ c.last = own
      /\ c.stamped = t.stamped + Is(stage1, "stamped")
      /\ c.unstamped = t.unstamped + Is(stage1, "unstamped")
      /\ c.implausible = t.implausible + Is(stage1, "implausible")
  BY <1>3, <1>7, SourceIs DEF c
<1> HIDE DEF own
<1>9. t.total \in Histograms /\ t.recvToPublish \in Histograms /\ t.sendToRecv \in Histograms
      /\ t.stamped \in Nat /\ t.unstamped \in Nat /\ t.implausible \in Nat
  BY <1>7 DEF Trackers
<1>10. /\ c.total.count = t.total.count + 1 /\ c.total.sum = t.total.sum + own
       /\ c.total.max = IF t.total.max >= own THEN t.total.max ELSE own
  <2> DEFINE h == t.total
             o == Observe(h, own)
  <2>1. h \in Histograms /\ own \in Nat /\ c.total = o
    BY <1>8, <1>9
  <2> HIDE DEF h
  <2>2. o.count = h.count + 1 /\ o.sum = h.sum + own /\ o.max = IF h.max >= own THEN h.max ELSE own
    <3>1. h \in Histograms /\ own \in Nat
      BY <2>1
    <3> QED BY <3>1, ObserveGrows
  <2> HIDE DEF o
  <2> QED BY <2>1, <2>2 DEF h
<1>11. c.recvToPublish.sum = t.recvToPublish.sum + ingress
  <2> DEFINE h == t.recvToPublish
             o == Observe(h, ingress)
  <2>1. h \in Histograms /\ ingress \in Nat /\ c.recvToPublish = o
    BY <1>3, <1>8, <1>9
  <2> HIDE DEF h
  <2>2. o.sum = h.sum + ingress
    <3>1. h \in Histograms /\ ingress \in Nat
      BY <2>1
    <3> QED BY <3>1, ObserveGrows
  <2> HIDE DEF o
  <2> QED BY <2>1, <2>2 DEF h
<1>12. /\ t.total.max \in Nat /\ t.total.sum \in Nat /\ t.total.count \in Nat
       /\ t.recvToPublish.sum \in Nat /\ t.sendToRecv.sum \in Nat /\ t.sendToRecv.count \in Nat
  BY <1>9 DEF Histograms
<1>13. c.last <= c.total.max
  BY <1>8, <1>10, <1>12
<1>14. /\ u \in Trackers
       /\ u.sendToRecv = c.sendToRecv /\ u.recvToPublish = c.recvToPublish
       /\ u.stamped = c.stamped /\ u.unstamped = c.unstamped /\ u.implausible = c.implausible
       /\ u.total.count = c.total.count + MadeUp(own)
       /\ u.total.sum >= c.total.sum /\ u.total.max = c.total.max
  <2>1. /\ u \in Trackers
        /\ u.sendToRecv = c.sendToRecv /\ u.recvToPublish = c.recvToPublish
        /\ u.stamped = c.stamped /\ u.unstamped = c.unstamped /\ u.implausible = c.implausible
        /\ u.total.count = c.total.count + MadeUp(c.last)
        /\ u.total.sum >= c.total.sum /\ u.total.max = c.total.max
    BY <1>8, <1>13, BackfillIs DEF u
  <2> QED BY <1>8, <2>1
<1>15. u.recvToPublish = Told(Ins(z)) /\ u.sendToRecv.sum = Total(Firsts(z))
  BY <1>4, <1>6, <1>8, <1>14 DEF SourceSound
<1>16. /\ u.sendToRecv.count = u.stamped
       /\ u.stamped = Total(JudgedAs(z, "stamped")) /\ u.unstamped = Total(JudgedAs(z, "unstamped"))
       /\ u.implausible = Total(JudgedAs(z, "implausible"))
  BY <1>4, <1>6, <1>8, <1>14 DEF SourceSound
<1>17. u.stamped + u.unstamped + u.implausible = Len(z)
  <2>1. Is(stage1, "stamped") + Is(stage1, "unstamped") + Is(stage1, "implausible") = 1
        /\ Is(stage1, "stamped") \in Nat /\ Is(stage1, "unstamped") \in Nat /\ Is(stage1, "implausible") \in Nat
    <3>1. Usable(stage1) \in {"stamped", "unstamped", "implausible"}
      BY StageIs
    <3> QED BY <3>1 DEF Is
  <2> DEFINE a == Is(stage1, "stamped")
             b == Is(stage1, "unstamped")
             d == Is(stage1, "implausible")
             x == t.stamped
             y == t.unstamped
             w == t.implausible
  <2>2. x \in Nat /\ y \in Nat /\ w \in Nat /\ x + y + w = n
    BY <1>6, <1>9 DEF SourceSound, n
  <2>3. u.stamped = x + a /\ u.unstamped = y + b /\ u.implausible = w + d
    BY <1>8, <1>14
  <2>4. a + b + d = 1 /\ a \in Nat /\ b \in Nat /\ d \in Nat
    BY <2>1
  <2> HIDE DEF a, b, d, x, y, w
  <2>5. (x + a) + (y + b) + (w + d) = (x + y + w) + (a + b + d)
    BY <2>2, <2>4
  <2> QED BY <1>2, <2>2, <2>3, <2>4, <2>5
<1>18. MadeUp(own) \in Nat
  <2>1. MadeUp(own) \in 0 .. MaxBackfill /\ MaxBackfill \in Nat
    BY <1>8, MissedIs, LatencyAssumption
  <2> DEFINE m == MadeUp(own)
  <2>2. m \in 0 .. MaxBackfill
    BY <2>1
  <2> HIDE DEF m
  <2>3. m \in Nat
    BY <2>1, <2>2
  <2> QED BY <2>3 DEF m
<1>19. u.total.count = Len(z) + Total(MadeUps(z))
  <2> DEFINE m == MadeUp(own)
             a == Total(MadeUps(s))
             x == t.total.count
  <2>1. x = n + a /\ x \in Nat /\ a \in Nat /\ m \in Nat /\ n \in Nat
    BY <1>2, <1>5, <1>6, <1>12, <1>18 DEF SourceSound, n
  <2>2. u.total.count = (x + 1) + m /\ Total(MadeUps(z)) = a + m
    BY <1>4, <1>10, <1>14
  <2> HIDE DEF m, a, x
  <2>3. (x + 1) + m = (n + 1) + (a + m)
    BY <2>1
  <2> QED BY <1>2, <2>2, <2>3
<1>20. u.total.sum >= u.sendToRecv.sum + u.recvToPublish.sum
  <2> DEFINE a == t.sendToRecv.sum
             b == t.recvToPublish.sum
             d == t.total.sum
             x == StageOne(stage1)
             y == u.total.sum
  <2>1. a \in Nat /\ b \in Nat /\ d \in Nat /\ x \in Nat /\ ingress \in Nat /\ d >= a + b
    BY <1>3, <1>6, <1>12 DEF SourceSound
  <2>2. u.sendToRecv.sum = a + x /\ u.recvToPublish.sum = b + ingress
    BY <1>8, <1>11, <1>14
  <2>3. y >= d + (x + ingress) /\ y \in Nat
    <3>1. u.total.sum >= c.total.sum /\ c.total.sum = t.total.sum + own
      BY <1>10, <1>14
    <3>2. y \in Nat
      BY <1>14 DEF Trackers, Histograms
    <3>3. own = x + ingress
      BY DEF own
    <3> QED BY <3>1, <3>2, <3>3
  <2> HIDE DEF a, b, d, x, y
  <2>4. y >= (a + x) + (b + ingress)
    BY <2>1, <2>3
  <2> QED BY <2>2, <2>4 DEF y
<1> DEFINE top == u.total.max
           old == t.total.max
<1>21. top = (IF old >= own THEN old ELSE own) /\ old \in Nat /\ own \in Nat
  BY <1>8, <1>10, <1>12, <1>14
<1>22. /\ \A i \in 1 .. n : Own(s[i]) <= old /\ Own(s[i]) \in Nat
       /\ old = 0 \/ \E i \in 1 .. n : old = Own(s[i])
  <2>1. \A i \in 1 .. n : s[i] \in Ways
    BY DEF n
  <2>2. \A i \in 1 .. n : Own(s[i]) \in Nat
    BY <2>1, WayIs
  <2> QED BY <1>6, <2>2 DEF SourceSound, n
<1> HIDE DEF top, old
<1>23. \A i \in 1 .. n + 1 : Own(z[i]) <= top
  <2>1. ASSUME NEW i \in 1 .. n + 1 PROVE Own(z[i]) <= top
    <3>1. CASE i = n + 1
      <4>1. Own(z[i]) = own
        BY <1>1, <1>2, <3>1
      <4> QED BY <1>21, <4>1
    <3>2. CASE i # n + 1
      <4>1. i \in 1 .. n
        BY <1>2, <3>2
      <4>2. Own(z[i]) = Own(s[i])
        BY <1>2, <4>1
      <4>3. Own(s[i]) <= old /\ Own(s[i]) \in Nat
        BY <1>22, <4>1
      <4> QED BY <1>21, <4>2, <4>3
    <3> QED BY <3>1, <3>2
  <2> QED BY <2>1
<1>24. top = 0 \/ \E i \in 1 .. n + 1 : top = Own(z[i])
  <2>1. CASE top = own
    <3>1. n + 1 \in 1 .. n + 1 /\ Own(z[n + 1]) = own
      BY <1>1, <1>2
    <3> QED BY <2>1, <3>1
  <2>2. CASE top # own
    <3>1. top = old
      BY <1>21, <2>2
    <3>2. CASE old = 0
      BY <3>1, <3>2
    <3>3. CASE old # 0
      <4>1. PICK i \in 1 .. n : old = Own(s[i])
        BY <1>22, <3>3
      <4>2. i \in 1 .. n + 1 /\ z[i] = s[i]
        BY <1>2
      <4> QED BY <3>1, <4>1, <4>2
    <3> QED BY <3>2, <3>3
  <2> QED BY <2>1, <2>2
<1>25. SourceSound(u, z)
  <2>1. \A i \in 1 .. Len(z) : Own(z[i]) <= u.total.max
    BY <1>2, <1>23 DEF top
  <2>2. u.total.max = 0 \/ \E i \in 1 .. Len(z) : u.total.max = Own(z[i])
    BY <1>2, <1>24 DEF top
  <2> QED BY <1>14, <1>15, <1>16, <1>17, <1>19, <1>20, <2>1, <2>2 DEF SourceSound
<1> QED BY <1>25 DEF u, c, z, r

LEMMA SinkGrows ==
    ASSUME NEW t, NEW s \in Seq(Takens), SinkSound(t, s), NEW stage1 \in Stage1, NEW ingress \in Ingress,
           NEW waited \in Waits
    PROVE  SinkSound(RecordSink(t, stage1, ingress, waited),
                     Append(s, [stage1 |-> stage1, ingress |-> ingress, waited |-> waited]))
<1> DEFINE r == [stage1 |-> stage1, ingress |-> ingress, waited |-> waited]
           z == Append(s, r)
           u == RecordSink(t, stage1, ingress, waited)
           e == StageOne(stage1) + ingress + waited
<1>1. r \in Takens /\ r \in Ways /\ r.stage1 = stage1 /\ r.waited = waited /\ EndToEnd(r) = e
  BY DEF Ways, Takens, EndToEnd
<1>2. ingress \in Nat /\ waited \in Nat
  BY LatencyAssumption
<1>3. s \in Seq(Ways)
  BY TakenMeasures
<1>4. SinkSound(t, s)
  OBVIOUS
<1>5. t \in Trackers
  BY <1>4 DEF SinkSound
<1>6. /\ u \in Trackers
      /\ u.publishToSeen = Observe(t.publishToSeen, waited) /\ u.total = Observe(t.total, e)
      /\ u.stamped = t.stamped + Is(stage1, "stamped")
      /\ u.unstamped = t.unstamped + Is(stage1, "unstamped")
      /\ u.implausible = t.implausible + Is(stage1, "implausible")
  BY <1>2, <1>5, SinkIs
<1> HIDE DEF r, u, e
<1>7. Told(Waited(z)) = Observe(Told(Waited(s)), waited) /\ Told(Wholes(z)) = Observe(Told(Wholes(s)), e)
  BY <1>1, TakenGrow
<1>8. /\ Total(JudgedAs(z, "stamped")) = Total(JudgedAs(s, "stamped")) + Is(stage1, "stamped")
      /\ Total(JudgedAs(z, "unstamped")) = Total(JudgedAs(s, "unstamped")) + Is(stage1, "unstamped")
      /\ Total(JudgedAs(z, "implausible")) = Total(JudgedAs(s, "implausible")) + Is(stage1, "implausible")
  BY <1>1, <1>3, MeasuresGrow
<1> HIDE DEF z
<1>9. SinkSound(u, z)
  BY <1>4, <1>6, <1>7, <1>8 DEF SinkSound
<1> QED BY <1>9 DEF u, z, r

\* The records are those taken and those on their way, in order.
LEMMA AllRecords ==
    ASSUME NEW a \in Seq(Takens), NEW b \in Seq(Flights)
    PROVE  /\ a \o b \in Seq(Ways) /\ Len(a \o b) = Len(a) + Len(b)
           /\ \A i \in 1 .. Len(a) : (a \o b)[i] = a[i]
           /\ \A i \in 1 .. Len(b) : (a \o b)[Len(a) + i] = b[i]
<1> DEFINE T == Ways
<1>1. a \in Seq(T) /\ b \in Seq(T)
  <2>1. Takens \subseteq T /\ Flights \subseteq T
    BY DEF Ways
  <2> HIDE DEF T
  <2> QED BY <2>1
<1> HIDE DEF T
<1>2. Len(a) \in Nat /\ Len(b) \in Nat
  OBVIOUS
<1>3. a \o b \in Seq(T) /\ Len(a \o b) = Len(a) + Len(b)
  BY <1>1, ConcatProperties
<1>4. \A i \in 1 .. Len(a) + Len(b) : (a \o b)[i] = IF i <= Len(a) THEN a[i] ELSE b[i - Len(a)]
  BY <1>1, ConcatProperties
<1>5. \A i \in 1 .. Len(a) : (a \o b)[i] = a[i]
  <2>1. ASSUME NEW i \in 1 .. Len(a) PROVE (a \o b)[i] = a[i]
    <3>1. i \in 1 .. Len(a) + Len(b) /\ i <= Len(a)
      BY <1>2
    <3> QED BY <1>4, <3>1
  <2> QED BY <2>1
<1>6. \A i \in 1 .. Len(b) : (a \o b)[Len(a) + i] = b[i]
  <2>1. ASSUME NEW i \in 1 .. Len(b) PROVE (a \o b)[Len(a) + i] = b[i]
    <3> DEFINE k == Len(a) + i
    <3>1. k \in 1 .. Len(a) + Len(b) /\ ~(k <= Len(a)) /\ k - Len(a) = i
      BY <1>2
    <3> HIDE DEF k
    <3>2. (a \o b)[k] = b[i]
      BY <1>4, <3>1
    <3> QED BY <3>2 DEF k
  <2> QED BY <2>1
<1> QED BY <1>3, <1>5, <1>6 DEF T


LEMMA LatInitHolds == LatInit => LatInv
<1> SUFFICES ASSUME LatInit PROVE LatInv
  OBVIOUS
<1> DEFINE t == EmptyTracker
           h == EmptyHistogram
           e == <<>>
<1>1. latSource = t /\ latSink = t /\ latFlight = e /\ latTaken = e
  BY DEF LatInit
<1>2. e \in Seq(Flights) /\ e \in Seq(Takens) /\ e \in Seq(Ways) /\ Len(e) = 0 /\ e \o e = e
  OBVIOUS
<1>3. h \in Histograms /\ h.count = 0 /\ h.sum = 0 /\ h.max = 0
  BY EmptyIs
<1>4. /\ t = [sendToRecv |-> h, recvToPublish |-> h, publishToSeen |-> h, total |-> h,
              stamped |-> 0, unstamped |-> 0, implausible |-> 0, last |-> 0, truncated |-> 0]
  BY DEF EmptyTracker
<1> HIDE DEF t, h, e
<1>5. t \in Trackers
  BY <1>3, <1>4 DEF Trackers
<1>6. /\ t.recvToPublish = h /\ t.sendToRecv = h /\ t.publishToSeen = h /\ t.total = h
      /\ t.stamped = 0 /\ t.unstamped = 0 /\ t.implausible = 0
  BY <1>4
<1>7. /\ Firsts(e) \in Seq(Nat) /\ Len(Firsts(e)) = 0 /\ Ins(e) \in Seq(Nat) /\ Len(Ins(e)) = 0
      /\ MadeUps(e) \in Seq(Nat) /\ Len(MadeUps(e)) = 0
      /\ Waited(e) \in Seq(Nat) /\ Len(Waited(e)) = 0 /\ Wholes(e) \in Seq(Nat) /\ Len(Wholes(e)) = 0
  BY <1>2, Measures, TakenMeasures
<1>8. \A j : JudgedAs(e, j) \in Seq(Nat) /\ Len(JudgedAs(e, j)) = 0
  BY <1>2, Measures
<1>9. Total(Firsts(e)) = 0 /\ Total(MadeUps(e)) = 0 /\ \A j : Total(JudgedAs(e, j)) = 0
  BY <1>7, <1>8, TotalIsNat
<1>10. Told(Ins(e)) = h /\ Told(Waited(e)) = h /\ Told(Wholes(e)) = h
  BY <1>7, ToldType DEF h
<1>11. SourceSound(t, e)
  BY <1>2, <1>3, <1>5, <1>6, <1>9, <1>10 DEF SourceSound
<1>12. SinkSound(t, e)
  BY <1>5, <1>6, <1>9, <1>10 DEF SinkSound
<1>13. Records = e
  BY <1>1, <1>2 DEF Records
<1> QED BY <1>1, <1>2, <1>11, <1>12, <1>13 DEF LatInv

LEMMA LatPublishStep ==
    ASSUME LatInv, NEW stage1 \in Stage1, NEW ingress \in Ingress, LatPublish(stage1, ingress)
    PROVE  LatInv'
<1> DEFINE r == [stage1 |-> stage1, ingress |-> ingress]
           a == latTaken
           b == latFlight
           s == Records
<1>1. a \in Seq(Takens) /\ b \in Seq(Flights) /\ SourceSound(latSource, s) /\ SinkSound(latSink, a)
  BY DEF LatInv
<1>2. s = a \o b
  BY DEF Records
<1>3. /\ latSource' = Backfill(RecordSource(latSource, stage1, ingress))
      /\ latFlight' = Append(b, r) /\ latSink' = latSink /\ latTaken' = a
  BY DEF LatPublish
<1>4. r \in Flights
  BY DEF Flights
<1>5. s \in Seq(Ways)
  BY <1>1, <1>2, AllRecords
<1>6. Append(b, r) \in Seq(Flights)
  <2> HIDE DEF r
  <2> QED BY <1>1, <1>4
<1>7. Records' = Append(s, r)
  <2>1. Records' = a \o Append(b, r)
    BY <1>3 DEF Records
  <2>2. a \in Seq(Ways) /\ b \in Seq(Ways) /\ r \in Ways
    <3>1. Takens \subseteq Ways /\ Flights \subseteq Ways
      BY DEF Ways
    <3> DEFINE T == Ways
               A == Takens
               B == Flights
    <3>2. A \subseteq T /\ B \subseteq T /\ a \in Seq(A) /\ b \in Seq(B) /\ r \in B
      BY <1>1, <1>4, <3>1
    <3> HIDE DEF T, A, B, r
    <3>3. a \in Seq(T) /\ b \in Seq(T) /\ r \in T
      BY <3>2
    <3> QED BY <3>3 DEF T
  <2> DEFINE T == Ways
  <2>3. a \in Seq(T) /\ b \in Seq(T) /\ r \in T
    BY <2>2
  <2> HIDE DEF T, r, a, b
  <2>4. a \o Append(b, r) = Append(a \o b, r)
    BY <2>3
  <2> QED BY <1>2, <2>1, <2>4
<1>8. SourceSound(latSource', Records')
  <2>1. SourceSound(Backfill(RecordSource(latSource, stage1, ingress)), Append(s, r))
    <3> HIDE DEF s
    <3> QED BY <1>1, <1>5, SourceGrows
  <2> QED BY <1>3, <1>7, <2>1
<1>9. SinkSound(latSink', latTaken')
  BY <1>1, <1>3
<1> QED BY <1>1, <1>3, <1>6, <1>8, <1>9 DEF LatInv

LEMMA LatTakeStep ==
    ASSUME LatInv, NEW waited \in Waits, LatTake(waited)
    PROVE  LatInv'
<1> DEFINE f == Head(latFlight)
           r == [stage1 |-> f.stage1, ingress |-> f.ingress, waited |-> waited]
           a == latTaken
           b == latFlight
           c == Append(a, r)
           d == Tail(b)
           s == a \o b
           t == c \o d
           n == Len(a)
           k == Len(b)
<1>1. a \in Seq(Takens) /\ b \in Seq(Flights) /\ SourceSound(latSource, s) /\ SinkSound(latSink, a)
  BY DEF LatInv, Records
<1>2. /\ b # <<>>
      /\ latSink' = RecordSink(latSink, f.stage1, f.ingress, waited)
      /\ latTaken' = c /\ latFlight' = d /\ latSource' = latSource
  BY DEF LatTake
<1>3. f \in Flights /\ f = b[1] /\ d \in Seq(Flights) /\ k \in Nat /\ k # 0 /\ Len(d) = k - 1
      /\ \A i \in 1 .. k - 1 : d[i] = b[i + 1]
  <2> DEFINE T == Flights
  <2>1. b \in Seq(T) /\ b # <<>>
    BY <1>1, <1>2
  <2> HIDE DEF T
  <2>2. f \in T /\ f = b[1] /\ d \in Seq(T) /\ k \in Nat /\ k # 0 /\ Len(d) = k - 1
    BY <2>1
  <2>3. \A i \in 1 .. k - 1 : d[i] = b[i + 1]
    BY <2>1, HeadTailProperties
  <2> QED BY <2>2, <2>3 DEF T
<1>4. f.stage1 \in Stage1 /\ f.ingress \in Ingress
  BY <1>3 DEF Flights
<1>5. r \in Takens /\ r.stage1 = f.stage1 /\ r.ingress = f.ingress
  BY <1>4 DEF Takens
<1>6. c \in Seq(Takens) /\ Len(c) = n + 1 /\ c[n + 1] = r /\ n \in Nat /\ \A i \in 1 .. n : c[i] = a[i]
  <2> DEFINE T == Takens
  <2>1. a \in Seq(T) /\ r \in T
    BY <1>1, <1>5
  <2> HIDE DEF T, r, a
  <2>2. c \in Seq(T) /\ Len(c) = n + 1 /\ c[n + 1] = r /\ n \in Nat /\ \A i \in 1 .. n : c[i] = a[i]
    BY <2>1
  <2> QED BY <2>2 DEF T
<1>7. SinkSound(latSink', latTaken')
  <2>1. SinkSound(RecordSink(latSink, f.stage1, f.ingress, waited), c)
    <3> HIDE DEF f
    <3> QED BY <1>1, <1>4, SinkGrows
  <2> QED BY <1>2, <2>1
<1>8. /\ s \in Seq(Ways) /\ Len(s) = n + k
      /\ \A i \in 1 .. n : s[i] = a[i]
      /\ \A i \in 1 .. k : s[n + i] = b[i]
  BY <1>1, AllRecords
<1>9. /\ t \in Seq(Ways) /\ Len(t) = Len(c) + Len(d)
      /\ \A i \in 1 .. Len(c) : t[i] = c[i]
      /\ \A i \in 1 .. Len(d) : t[Len(c) + i] = d[i]
  <2> HIDE DEF c, d
  <2> QED BY <1>3, <1>6, AllRecords
<1> HIDE DEF f, r, c, d, s, t, n, k
<1>10. Len(t) = Len(s)
  BY <1>3, <1>6, <1>8, <1>9
<1>11. ASSUME NEW i \in 1 .. Len(s) PROVE t[i].stage1 = s[i].stage1 /\ t[i].ingress = s[i].ingress
  <2>1. i \in 1 .. n + k
    BY <1>8
  <2>2. CASE i <= n
    <3>1. i \in 1 .. n /\ i \in 1 .. Len(c)
      BY <1>6, <2>1, <2>2
    <3> QED BY <1>6, <1>8, <1>9, <3>1
  <2>3. CASE i = n + 1
    <3>1. i \in 1 .. Len(c) /\ 1 \in 1 .. k /\ i = n + 1
      BY <1>3, <1>6, <2>3
    <3>2. t[i] = r /\ s[i] = b[1]
      BY <1>6, <1>8, <1>9, <3>1
    <3> QED BY <1>3, <1>5, <3>2
  <2>4. CASE i > n + 1
    <3> DEFINE j == i - (n + 1)
    <3>1. j \in 1 .. k - 1 /\ j \in 1 .. Len(d) /\ i = Len(c) + j /\ j + 1 \in 1 .. k /\ i = n + (j + 1)
      BY <1>3, <1>6, <2>1, <2>4
    <3> HIDE DEF j
    <3>2. t[i] = d[j] /\ s[i] = b[j + 1] /\ d[j] = b[j + 1]
      BY <1>3, <1>8, <1>9, <3>1
    <3> QED BY <3>2
  <2> QED BY <1>6, <2>1, <2>2, <2>3, <2>4
<1>12. SourceSound(latSource, t)
  BY <1>1, <1>8, <1>9, <1>10, <1>11, SourceKept
<1>13. Records' = t
  BY <1>2 DEF Records, t
<1>14. SourceSound(latSource', Records')
  BY <1>2, <1>12, <1>13
<1> QED BY <1>2, <1>3, <1>6, <1>7, <1>14 DEF LatInv

LEMMA LatStep == LatInv /\ [LatNext]_latVars => LatInv'
<1> SUFFICES ASSUME LatInv, [LatNext]_latVars PROVE LatInv'
  OBVIOUS
<1>1. CASE \E stage1 \in Stage1, ingress \in Ingress : LatPublish(stage1, ingress)
  BY <1>1, LatPublishStep
<1>2. CASE \E waited \in Waits : LatTake(waited)
  BY <1>2, LatTakeStep
<1>3. CASE UNCHANGED latVars
  <2>1. Records' = Records
    BY <1>3 DEF latVars, Records
  <2>2. latSource' = latSource /\ latSink' = latSink /\ latFlight' = latFlight /\ latTaken' = latTaken
    BY <1>3 DEF latVars
  <2> QED BY <2>1, <2>2 DEF LatInv
<1> QED BY <1>1, <1>2, <1>3 DEF LatNext


\* The percentiles.
LEMMA QuantilesAreTrue == LatInv => QuantilesBracketTruth
<1> SUFFICES ASSUME LatInv, latTaken # <<>>, NEW percent \in Percents
             PROVE  LET true == TruePercentile(percent)
                        told == Quantile(latSink.total, percent)
                    IN  /\ true <= told
                        /\ \/ told * RatioUnder <= Max({true, 1}) * RatioOver
                           \/ BucketOf(true) = Buckets - 1 /\ told = latSink.total.max
  BY DEF QuantilesBracketTruth
<1> DEFINE a == latTaken
           s == Wholes(a)
           n == Len(a)
           p == percent
           true == TruePercentile(p)
<1>1. a \in Seq(Takens) /\ latSink.total = Told(s)
  BY DEF LatInv, SinkSound
<1>2. s \in Seq(Nat) /\ Len(s) = n /\ \A i \in 1 .. n : s[i] = EndToEnd(a[i])
  BY <1>1, TakenMeasures
<1>3. n \in Nat /\ n # 0 /\ DOMAIN a = 1 .. n
  BY <1>1
<1> DEFINE below(v) == {i \in 1 .. n : EndToEnd(a[i]) <= v}
           upTo(v) == {i \in 1 .. n : s[i] <= v}
<1>4. {EndToEnd(a[i]) : i \in 1 .. n} = {s[i] : i \in 1 .. n}
  BY <1>2
<1>5. \A v : below(v) = upTo(v)
  BY <1>2
<1>6. true = Min({v \in {EndToEnd(a[i]) : i \in 1 .. n} : Cardinality(below(v)) >= Rank(p, n)})
  BY <1>3 DEF TruePercentile
<1>7. {v \in {EndToEnd(a[i]) : i \in 1 .. n} : Cardinality(below(v)) >= Rank(p, n)}
        = {v \in {s[i] : i \in 1 .. n} : Cardinality(upTo(v)) >= Rank(p, n)}
  <2> DEFINE V == {EndToEnd(a[i]) : i \in 1 .. n}
             W == {s[i] : i \in 1 .. n}
  <2>1. V = W /\ \A v : below(v) = upTo(v)
    BY <1>4, <1>5
  <2> HIDE DEF V, W, below, upTo
  <2>2. {v \in V : Cardinality(below(v)) >= Rank(p, n)} = {v \in W : Cardinality(upTo(v)) >= Rank(p, n)}
    BY <2>1
  <2> QED BY <2>2 DEF V, W
<1>8. true = Min({v \in {s[i] : i \in 1 .. Len(s)} :
                     Cardinality({i \in 1 .. Len(s) : s[i] <= v}) >= Rank(p, Len(s))})
  BY <1>2, <1>6, <1>7
<1> HIDE DEF s, true
<1>9. LET told == Quantile(Told(s), p)
      IN  /\ true <= told
          /\ \/ told * RatioUnder <= Max({true, 1}) * RatioOver
             \/ BucketOf(true) = Buckets - 1 /\ told = Told(s).max
  <2>1. Len(s) # 0 /\ s \in Seq(Nat) /\ p \in Percents
    BY <1>2, <1>3
  <2> HIDE DEF p
  <2> QED BY <1>8, <2>1, QuantileBrackets
<1> QED BY <1>1, <1>9 DEF true

\* The stages.
LEMMA StagesAreAdded == LatInv => StagesAddUp
<1> SUFFICES ASSUME LatInv PROVE StagesAddUp
  OBVIOUS
<1> DEFINE a == latTaken
           s == Records
<1>1. /\ a \in Seq(Takens) /\ latFlight \in Seq(Flights)
      /\ SourceSound(latSource, s) /\ SinkSound(latSink, a)
  BY DEF LatInv
<1>2. s \in Seq(Ways)
  BY <1>1, AllRecords DEF Records
<1>3. latSource.recvToPublish.count = Len(s) /\ latSource.recvToPublish.sum = Total(Ins(s))
  <2>1. Ins(s) \in Seq(Nat) /\ Len(Ins(s)) = Len(s)
    <3> HIDE DEF s
    <3> QED BY <1>2, Measures
  <2>2. Told(Ins(s)).count = Len(Ins(s)) /\ Told(Ins(s)).sum = Total(Ins(s))
    BY <2>1, ToldSays
  <2>3. latSource.recvToPublish = Told(Ins(s))
    BY <1>1 DEF SourceSound
  <2> QED BY <2>1, <2>2, <2>3
<1>4. latSource.stamped + latSource.unstamped + latSource.implausible = latSource.recvToPublish.count
      /\ latSource.sendToRecv.count = latSource.stamped
  BY <1>1, <1>3 DEF SourceSound
<1>5. ASSUME latFlight = <<>>
      PROVE  /\ latSink.total.sum
                    = latSource.sendToRecv.sum + latSource.recvToPublish.sum + latSink.publishToSeen.sum
             /\ \A l \in {"stamped", "unstamped", "implausible"} : latSink[l] = latSource[l]
  <2>1. s = a
    BY <1>1, <1>5 DEF Records
  <2> DEFINE x == Firsts(a)
             y == Ins(a)
             z == Waited(a)
             e == Wholes(a)
             n == Len(a)
             g == [i \in 1 .. n |-> x[i] + y[i]]
  <2>2. /\ a \in Seq(Ways)
        /\ z \in Seq(Nat) /\ Len(z) = n /\ e \in Seq(Nat) /\ Len(e) = n
        /\ \A i \in 1 .. n : z[i] = a[i].waited /\ e[i] = EndToEnd(a[i])
    BY <1>1, TakenMeasures
  <2>3. /\ x \in Seq(Nat) /\ Len(x) = n /\ y \in Seq(Nat) /\ Len(y) = n
        /\ \A i \in 1 .. n : x[i] = StageOne(a[i].stage1) /\ y[i] = a[i].ingress
    BY <2>2, Measures
  <2>4. n \in Nat /\ \A i \in 1 .. n : x[i] \in Nat /\ y[i] \in Nat /\ z[i] \in Nat
    <3>1. n \in Nat
      BY <1>1
    <3> HIDE DEF x, y, z, n
    <3>2. \A i \in 1 .. Len(x) : x[i] \in Nat
      BY <2>3, ElementOfSeq
    <3>3. \A i \in 1 .. Len(y) : y[i] \in Nat
      BY <2>3, ElementOfSeq
    <3>4. \A i \in 1 .. Len(z) : z[i] \in Nat
      BY <2>2, ElementOfSeq
    <3> QED BY <2>2, <2>3, <3>1, <3>2, <3>3, <3>4
  <2>5. g \in Seq(Nat) /\ Len(g) = n /\ \A i \in 1 .. n : g[i] = x[i] + y[i]
    <3>1. g \in [1 .. n -> Nat] /\ \A i \in 1 .. n : g[i] = x[i] + y[i]
      <4> HIDE DEF x, y, n
      <4> QED BY <2>4
    <3> HIDE DEF g, n
    <3> QED BY <2>4, <3>1, AsMany
  <2>6. \A i \in 1 .. n : e[i] = g[i] + z[i]
    BY <2>2, <2>3, <2>5 DEF EndToEnd
  <2> HIDE DEF x, y, z, e, g, n
  <2>7. Total(g) = Total(x) + Total(y)
    <3>1. x \in Seq(Nat) /\ y \in Seq(Nat) /\ g \in Seq(Nat) /\ Len(x) = Len(g) /\ Len(y) = Len(g)
      BY <2>3, <2>5
    <3>2. \A i \in 1 .. Len(g) : g[i] = x[i] + y[i]
      BY <2>5
    <3> QED BY <3>1, <3>2, TotalsAdd
  <2>8. Total(e) = Total(g) + Total(z)
    <3>1. g \in Seq(Nat) /\ z \in Seq(Nat) /\ e \in Seq(Nat) /\ Len(g) = Len(e) /\ Len(z) = Len(e)
      BY <2>2, <2>5
    <3>2. \A i \in 1 .. Len(e) : e[i] = g[i] + z[i]
      BY <2>2, <2>6
    <3> QED BY <3>1, <3>2, TotalsAdd
  <2>9. latSink.total.sum = Total(e) /\ latSink.publishToSeen.sum = Total(z)
    <3>1. latSink.total = Told(e) /\ latSink.publishToSeen = Told(z)
      BY <1>1 DEF SinkSound, e, z
    <3> QED BY <2>2, <3>1, ToldSays
  <2>10. latSource.sendToRecv.sum = Total(x) /\ latSource.recvToPublish.sum = Total(y)
    BY <1>1, <1>3, <2>1 DEF SourceSound, x, y
  <2>11. latSink.total.sum
            = latSource.sendToRecv.sum + latSource.recvToPublish.sum + latSink.publishToSeen.sum
    BY <2>7, <2>8, <2>9, <2>10
  <2>12. /\ latSink.stamped = latSource.stamped /\ latSink.unstamped = latSource.unstamped
         /\ latSink.implausible = latSource.implausible
    BY <1>1, <2>1 DEF SourceSound, SinkSound
  <2>13. \A l \in {"stamped", "unstamped", "implausible"} : latSink[l] = latSource[l]
    BY <2>12
  <2> QED BY <2>11, <2>13
<1> QED BY <1>4, <1>5 DEF StagesAddUp

\* The correction.
LEMMA CorrectionIsNoWorse == LatInv => CorrectionInventsNothingWorse
<1> SUFFICES ASSUME LatInv, Records # <<>>
             PROVE  /\ latSource.total.max = Max({Own(Records[i]) : i \in DOMAIN Records})
                    /\ latSource.total.sum >= latSource.sendToRecv.sum + latSource.recvToPublish.sum
                    /\ latSource.total.count - Len(Records) =
                            Total([i \in DOMAIN Records |-> MadeUp(Own(Records[i]))])
  BY DEF CorrectionInventsNothingWorse
<1> DEFINE s == Records
           n == Len(s)
           t == latSource
           X == {Own(s[i]) : i \in DOMAIN s}
           top == t.total.max
<1>1. SourceSound(t, s) /\ s \in Seq(Ways)
  <2>1. latTaken \in Seq(Takens) /\ latFlight \in Seq(Flights) /\ SourceSound(t, s)
    BY DEF LatInv
  <2> QED BY <2>1, AllRecords DEF Records
<1>2. n \in Nat /\ n # 0 /\ DOMAIN s = 1 .. n /\ \A i \in 1 .. n : s[i] \in Ways
  BY <1>1
<1>3. \A i \in 1 .. n : Own(s[i]) \in Nat
  BY <1>2, WayIs
<1>4. \A i \in 1 .. n : Own(s[i]) <= top
  BY <1>1 DEF SourceSound
<1>5. top \in Nat
  BY <1>1 DEF SourceSound, Trackers, Histograms
<1>6. top \in X
  <2>1. CASE \E i \in 1 .. n : top = Own(s[i])
    BY <1>2, <2>1
  <2>2. CASE top = 0
    <3>1. 1 \in 1 .. n /\ Own(s[1]) <= top /\ Own(s[1]) \in Nat
      BY <1>2, <1>3, <1>4
    <3>2. Own(s[1]) = top
      BY <2>2, <3>1
    <3> QED BY <1>2, <3>1, <3>2
  <2> QED BY <1>1, <2>1, <2>2 DEF SourceSound
<1>7. X \subseteq Nat /\ \A x \in X : x <= top
  BY <1>2, <1>3, <1>4
<1>8. Max(X) = top
  <2> DEFINE y == Max(X)
  <2>1. y \in X /\ \A x \in X : x <= y
    <3> HIDE DEF X, top
    <3>1. X # {}
      BY <1>6
    <3> QED BY <1>5, <1>7, <3>1, MaxOfNats
  <2> HIDE DEF X, y, top
  <2>2. y = top
    BY <1>5, <1>6, <1>7, <2>1
  <2> QED BY <2>2 DEF y
<1>9. t.total.count - n = Total(MadeUps(s))
  <2>1. Total(MadeUps(s)) \in Nat
    <3>1. MadeUps(s) \in Seq(Nat)
      <4> HIDE DEF s
      <4> QED BY <1>1, Measures
    <3> QED BY <3>1, TotalIsNat
  <2>2. t.total.count = n + Total(MadeUps(s))
    BY <1>1 DEF SourceSound
  <2> DEFINE m == Total(MadeUps(s))
  <2> HIDE DEF m, n
  <2>3. m \in Nat /\ t.total.count = n + m
    BY <2>1, <2>2 DEF m
  <2>4. t.total.count - n = m
    BY <1>2, <2>3
  <2> QED BY <2>4 DEF m
<1>10. MadeUps(s) = [i \in DOMAIN s |-> MadeUp(Own(s[i]))]
  BY DEF MadeUps
<1>11. t.total.sum >= t.sendToRecv.sum + t.recvToPublish.sum
  BY <1>1 DEF SourceSound
<1> QED BY <1>8, <1>9, <1>10, <1>11

\* The summaries.
LEMMA SummariesAreAgreed == LatInv => SummariesAgree
<1> SUFFICES ASSUME LatInv PROVE SummariesAgree
  OBVIOUS
<1> DEFINE x == Ins(Records)
           y == Waited(latTaken)
           values == x \o y
           both == Merge(latSource.recvToPublish, latSink.publishToSeen)
           s == Summary(both)
<1>1. /\ latTaken \in Seq(Takens) /\ latFlight \in Seq(Flights)
      /\ latSource.recvToPublish = Told(x) /\ latSink.publishToSeen = Told(y)
  BY DEF LatInv, SourceSound, SinkSound
<1>2. Records \in Seq(Ways)
  BY <1>1, AllRecords DEF Records
<1>3. x \in Seq(Nat) /\ y \in Seq(Nat)
  BY <1>1, <1>2, Measures, TakenMeasures
<1>4. x = [i \in DOMAIN Records |-> Records[i].ingress] /\ y = [i \in DOMAIN latTaken |-> latTaken[i].waited]
  BY DEF Ins, Waited
<1>5. values \in Seq(Nat) /\ DOMAIN values = 1 .. Len(values)
  <2> HIDE DEF x, y
  <2> QED BY <1>3
<1>6. both = Told(values)
  <2> HIDE DEF x, y
  <2> QED BY <1>1, <1>3, MergeTold
<1> HIDE DEF x, y, values
<1>7. /\ s.min <= s.mean /\ s.mean <= s.max
      /\ s.p50 <= s.p90 /\ s.p90 <= s.p99
      /\ s.p99 <= Max({s.max, BucketUpper(BucketOf(s.max))})
      /\ s.overflow = Cardinality({i \in 1 .. Len(values) : BucketOf(values[i]) = Buckets - 1})
  <2>1. s = Summary(Told(values))
    BY <1>6
  <2> HIDE DEF s
  <2> QED BY <1>5, <2>1, SummaryInOrder
<1> HIDE DEF s, both
<1>8. /\ both = Told(values)
      /\ s.min <= s.mean /\ s.mean <= s.max
      /\ s.p50 <= s.p90 /\ s.p90 <= s.p99
      /\ s.p99 <= Max({s.max, BucketUpper(BucketOf(s.max))})
      /\ s.overflow = Cardinality({i \in DOMAIN values : BucketOf(values[i]) = Buckets - 1})
  BY <1>5, <1>6, <1>7
<1>9. values = [i \in DOMAIN Records |-> Records[i].ingress] \o [i \in DOMAIN latTaken |-> latTaken[i].waited]
  BY <1>4 DEF values
<1> QED BY <1>8, <1>9 DEF SummariesAgree, s, both

\* What the two trackers of a path report is what was measured, whatever came
\* in, waited and was made up for: a percentile brackets the true one, the
\* stages add up to the whole path, the correction for a stall invents nothing
\* worse than was observed, and two histograms merged are one that was told
\* everything, whose summary is in order.
THEOREM LatencyStaysTruthful == LatInit /\ [][LatNext]_latVars => []LatencyIsTruthful
<1>1. LatInit => LatInv
  BY LatInitHolds
<1>2. LatInv /\ [LatNext]_latVars => LatInv'
  BY LatStep
<1>3. LatInv => LatencyIsTruthful
  BY QuantilesAreTrue, StagesAreAdded, CorrectionIsNoWorse, SummariesAreAgreed DEF LatencyIsTruthful
<1> QED BY <1>1, <1>2, <1>3, PTL
================================================================================
