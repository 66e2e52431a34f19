---------------------------------- MODULE Flow ----------------------------------
(***************************************************************************)
(* The bounded queue of rust/ob/src/flow.rs between one producer and one   *)
(* consumer: push under each of the four drop policies, pop, grant.        *)
(*                                                                         *)
(* Atomic steps.  head, tail, credit and each slot's sequence are atomics, *)
(* so each access is one step.  A slot's payload is plain memory, copied   *)
(* one word at a time in any order.  The statistics (evicted, dropped,     *)
(* refused, reused) steer nothing, and are counted in the step that        *)
(* decides the outcome they count.  compare_exchange_weak may fail when    *)
(* the value is the expected one.                                          *)
(*                                                                         *)
(* The n-th push offers the value n; a payload word's value is the number  *)
(* of the offer it belongs to.                                             *)
(***************************************************************************)
EXTENDS Integers, Sequences

CONSTANTS
    Capacity,       \* slots in the queue
    Words,          \* the words a record is copied in
    Spins,          \* the spins of DropPolicy::Spin
    CreditRange,    \* 2^32 in the code: credit is an AtomicU32 and wraps
    Grants,         \* the amounts a consumer grants at a time
    MaxOffers,      \* bound on the calls of push
    MaxGranted,     \* bound on the credit granted in all
    MaxReused       \* where the model stops counting attempts to reuse a slot

Policies == {"DropOldest", "DropNewest", "Spin", "Credit"}

ASSUME FlowAssumption ==
    /\ Capacity \in Nat \ {0}
    /\ Spins \in Nat
    /\ CreditRange \in Nat \ {0}
    /\ Grants \subseteq Nat
    /\ MaxOffers \in Nat
    /\ MaxGranted \in Nat
    /\ MaxReused \in Nat \ {0}

VARIABLES
    policy,         \* the DropPolicy the queue was made with: chosen once, in Init
    head,           \* next position to write
    tail,           \* next position to read
    slots,          \* slots[i][w]: the offer that word w of slot i belongs to
    seqs,           \* seqs[i]: 1 + the position last written to slot i
    credit,         \* the consumer's grant not yet spent
    dropped, refused, reused, highWater,    \* the counters
    ppc,            \* where the producer is
    ptail,          \* the tail that push loaded
    spinsLeft,      \* the spins left to this push
    ppending,       \* words of the payload not yet written
    cpc,            \* where the consumer is
    ctail,          \* the tail that pop loaded
    cpending,       \* words of the payload not yet copied
    value,          \* the words pop has copied
    offered,        \* history: how many calls of push there were
    accepted,       \* history: accepted[p + 1] is the offer at position p
    popped,         \* history: what pop returned, with the position it was at
    evicted,        \* history: the positions evicted; the counter is its size
    granted         \* history: the credit granted

shared   == <<head, tail, slots, seqs, credit>>
counters == <<dropped, refused, reused, highWater>>
producer == <<ppc, ptail, spinsLeft, ppending>>
consumer == <<cpc, ctail, cpending, value>>
history  == <<offered, accepted, popped, evicted, granted>>
vars     == <<policy, shared, counters, producer, consumer, history>>

Payloads == [Words -> Nat]
Zero     == [w \in Words |-> 0]
Takings  == [pos : Nat, copy : Payloads]

IndexOf(position) == position % Capacity

ProducerPCs == {"idle", "load", "cas", "write", "release", "water", "charge"}
ConsumerPCs == {"idle", "retry", "head", "before", "copy", "after", "claim"}

TypeOK ==
    /\ policy \in Policies
    /\ head \in Nat /\ tail \in Nat
    /\ slots \in [0 .. Capacity - 1 -> Payloads]
    /\ seqs \in [0 .. Capacity - 1 -> Nat]
    /\ credit \in 0 .. CreditRange - 1
    /\ dropped \in Nat /\ refused \in Nat /\ reused \in Nat
    /\ highWater \in Nat
    /\ ppc \in ProducerPCs
    /\ ptail \in Nat
    /\ spinsLeft \in Nat
    /\ ppending \in SUBSET Words
    /\ cpc \in ConsumerPCs
    /\ ctail \in Nat
    /\ cpending \in SUBSET Words
    /\ value \in Payloads
    /\ offered \in Nat
    /\ accepted \in Seq(Nat)
    /\ popped \in Seq(Takings)
    /\ evicted \in SUBSET Nat
    /\ granted \in Nat

\* flow::ring: every slot uninitialised, every counter zero.
Init ==
    /\ policy \in Policies
    /\ head = 0 /\ tail = 0
    /\ slots = [i \in 0 .. Capacity - 1 |-> Zero]
    /\ seqs = [i \in 0 .. Capacity - 1 |-> 0]
    /\ credit = 0
    /\ dropped = 0 /\ refused = 0 /\ reused = 0 /\ highWater = 0
    /\ ppc = "idle" /\ ptail = 0 /\ spinsLeft = 0 /\ ppending = {}
    /\ cpc = "idle" /\ ctail = 0 /\ cpending = {} /\ value = Zero
    /\ offered = 0 /\ accepted = <<>> /\ popped = <<>> /\ evicted = {} /\ granted = 0

--------------------------------------------------------------------------------
(* Producer::push.                                                         *)

\* The credit policy refuses before it looks at the queue.
PushNoCredit ==
    /\ ppc = "idle"
    /\ offered < MaxOffers
    /\ policy = "Credit" /\ credit = 0
    /\ offered' = offered + 1
    /\ refused' = refused + 1
    /\ UNCHANGED <<policy, shared, dropped, reused, highWater, producer, consumer,
                   accepted, popped, evicted, granted>>

PushBegin ==
    /\ ppc = "idle"
    /\ offered < MaxOffers
    /\ policy = "Credit" => credit > 0
    /\ offered' = offered + 1
    /\ spinsLeft' = IF policy = "Spin" THEN Spins ELSE 0
    /\ ppc' = "load"
    /\ UNCHANGED <<policy, shared, counters, ptail, ppending, consumer,
                   accepted, popped, evicted, granted>>

\* A variant of the occupancy test that is off by one.
FullLate == head - tail > Capacity

\* The occupancy at the load of tail.  head is the producer's own.
Full == head - tail >= Capacity

\* There is room: write the slot of head.
PushRoom ==
    /\ ppc = "load"
    /\ ~Full
    /\ ptail' = tail
    /\ ppc' = "write"
    /\ ppending' = Words
    /\ UNCHANGED <<policy, shared, counters, spinsLeft, consumer, history>>

\* Full, and the policy refuses the new record.
PushDropNewest ==
    /\ ppc = "load"
    /\ Full
    /\ \/ policy = "DropNewest"
       \/ policy = "Spin" /\ spinsLeft = 0
    /\ ptail' = tail
    /\ dropped' = dropped + 1
    /\ ppc' = "idle"
    /\ UNCHANGED <<policy, shared, refused, reused, highWater, spinsLeft, ppending, consumer, history>>

PushRefuse ==
    /\ ppc = "load"
    /\ Full
    /\ policy = "Credit"
    /\ ptail' = tail
    /\ refused' = refused + 1
    /\ ppc' = "idle"
    /\ UNCHANGED <<policy, shared, dropped, reused, highWater, spinsLeft, ppending, consumer, history>>

PushSpin ==
    /\ ppc = "load"
    /\ Full
    /\ policy = "Spin" /\ spinsLeft > 0
    /\ ptail' = tail
    /\ spinsLeft' = spinsLeft - 1
    /\ UNCHANGED <<policy, shared, counters, ppc, ppending, consumer, history>>

\* Full under DropOldest: go and claim the oldest record.
PushEvict ==
    /\ ppc = "load"
    /\ Full
    /\ policy = "DropOldest"
    /\ ptail' = tail
    /\ reused' = IF reused < MaxReused THEN reused + 1 ELSE reused
    /\ ppc' = "cas"
    /\ UNCHANGED <<policy, shared, dropped, refused, highWater, spinsLeft, ppending, consumer, history>>

\* A variant that waits for a consumer that is in the middle of a copy.
EvictClaimWaits ==
    /\ ppc = "cas"
    /\ tail = ptail
    /\ cpc \notin {"copy", "claim"}
    /\ tail' = ptail + 1
    /\ evicted' = evicted \cup {ptail}
    /\ ppc' = "write"
    /\ ppending' = Words
    /\ UNCHANGED <<policy, head, slots, seqs, credit, counters, ptail, spinsLeft, consumer,
                   offered, accepted, popped, granted>>

\* The compare-and-exchange of tail succeeds: the oldest record is evicted.
EvictClaim ==
    /\ ppc = "cas"
    /\ tail = ptail
    /\ tail' = ptail + 1
    /\ evicted' = evicted \cup {ptail}
    /\ ppc' = "write"
    /\ ppending' = Words
    /\ UNCHANGED <<policy, head, slots, seqs, credit, counters, ptail, spinsLeft, consumer,
                   offered, accepted, popped, granted>>

\* It fails, because the consumer won or spuriously: look again.
EvictLost ==
    /\ ppc = "cas"
    /\ ppc' = "load"
    /\ UNCHANGED <<policy, shared, counters, ptail, spinsLeft, ppending, consumer, history>>

\* write_slot: the payload, then the slot's sequence.
WriteWord ==
    /\ ppc = "write"
    /\ \E w \in ppending :
        /\ slots' = [slots EXCEPT ![IndexOf(head)][w] = offered]
        /\ ppending' = ppending \ {w}
    /\ UNCHANGED <<policy, head, tail, seqs, credit, counters, ppc, ptail, spinsLeft, consumer, history>>

Seal ==
    /\ ppc = "write"
    /\ ppending = {}
    /\ seqs' = [seqs EXCEPT ![IndexOf(head)] = head + 1]
    /\ ppc' = "release"
    /\ UNCHANGED <<policy, head, tail, slots, credit, counters, ptail, spinsLeft, ppending, consumer, history>>

\* The release store of head.  A push that evicted returns here.
Release ==
    /\ ppc = "release"
    /\ head' = head + 1
    /\ accepted' = Append(accepted, offered)
    /\ ppc' = IF head - ptail < Capacity THEN "water" ELSE "idle"
    /\ UNCHANGED <<policy, tail, slots, seqs, credit, counters, ptail, spinsLeft, ppending, consumer,
                   offered, popped, evicted, granted>>

\* A variant that records the occupancy before the push.
WaterBefore ==
    /\ ppc = "water"
    /\ highWater' = IF head - 1 - ptail > highWater THEN head - 1 - ptail ELSE highWater
    /\ ppc' = IF policy = "Credit" THEN "charge" ELSE "idle"
    /\ UNCHANGED <<policy, shared, dropped, refused, reused, ptail, spinsLeft, ppending, consumer, history>>

\* fetch_max of the occupancy this push saw, itself included.
Water ==
    /\ ppc = "water"
    /\ highWater' = IF head - ptail > highWater THEN head - ptail ELSE highWater
    /\ ppc' = IF policy = "Credit" THEN "charge" ELSE "idle"
    /\ UNCHANGED <<policy, shared, dropped, refused, reused, ptail, spinsLeft, ppending, consumer, history>>

\* fetch_sub of one credit, after the record was queued.
Charge ==
    /\ ppc = "charge"
    /\ credit' = (credit - 1) % CreditRange
    /\ ppc' = "idle"
    /\ UNCHANGED <<policy, head, tail, slots, seqs, counters, ptail, spinsLeft, ppending, consumer, history>>

PushStep ==
    \/ PushRoom \/ PushDropNewest \/ PushRefuse \/ PushSpin \/ PushEvict
    \/ EvictClaim \/ EvictLost
    \/ WriteWord \/ Seal \/ Release \/ Water \/ Charge

Producer == PushNoCredit \/ PushBegin \/ PushStep

--------------------------------------------------------------------------------
(* Consumer::pop and Consumer::grant.                                      *)

PopTail ==
    /\ cpc \in {"idle", "retry"}
    /\ ctail' = tail
    /\ cpc' = "head"
    /\ UNCHANGED <<policy, shared, counters, producer, cpending, value, history>>

PopEmpty ==
    /\ cpc = "head"
    /\ ctail = head
    /\ cpc' = "idle"
    /\ UNCHANGED <<policy, shared, counters, producer, ctail, cpending, value, history>>

PopHead ==
    /\ cpc = "head"
    /\ ctail # head
    /\ cpc' = "before"
    /\ UNCHANGED <<policy, shared, counters, producer, ctail, cpending, value, history>>

\* A variant that looks for the position itself rather than one past it.
HoldsOffByOne(p) == seqs[IndexOf(p)] = p

\* The slot's sequence says that it holds the record of position p.
Holds(p) == seqs[IndexOf(p)] = p + 1

\* The first look at the slot's sequence.
PopBefore ==
    /\ cpc = "before"
    /\ IF Holds(ctail)
       THEN cpc' = "copy" /\ cpending' = Words /\ value' = Zero
       ELSE cpc' = "retry" /\ UNCHANGED <<cpending, value>>
    /\ UNCHANGED <<policy, shared, counters, producer, ctail, history>>

PopWord ==
    /\ cpc = "copy"
    /\ \E w \in cpending :
        /\ value' = [value EXCEPT ![w] = slots[IndexOf(ctail)][w]]
        /\ cpending' = cpending \ {w}
    /\ UNCHANGED <<policy, shared, counters, producer, cpc, ctail, history>>

\* The second look at the slot's sequence.
PopAfter ==
    /\ cpc = "copy"
    /\ cpending = {}
    /\ cpc' = IF Holds(ctail) THEN "claim" ELSE "retry"
    /\ UNCHANGED <<policy, shared, counters, producer, ctail, cpending, value, history>>

\* A variant that claims the record with a plain store of tail.
PopClaimStore ==
    /\ cpc = "claim"
    /\ tail' = ctail + 1
    /\ popped' = Append(popped, [pos |-> ctail, copy |-> value])
    /\ cpc' = "idle"
    /\ UNCHANGED <<policy, head, slots, seqs, credit, counters, producer, ctail, cpending, value,
                   offered, accepted, evicted, granted>>

\* The compare-and-exchange of tail succeeds: the copy is returned.
PopClaim ==
    /\ cpc = "claim"
    /\ tail = ctail
    /\ tail' = ctail + 1
    /\ popped' = Append(popped, [pos |-> ctail, copy |-> value])
    /\ cpc' = "idle"
    /\ UNCHANGED <<policy, head, slots, seqs, credit, counters, producer, ctail, cpending, value,
                   offered, accepted, evicted, granted>>

\* It fails, because the producer evicted the record or spuriously.
PopLost ==
    /\ cpc = "claim"
    /\ cpc' = "retry"
    /\ UNCHANGED <<policy, shared, counters, producer, ctail, cpending, value, history>>

PopStep ==
    \/ PopTail \/ PopEmpty \/ PopHead \/ PopBefore \/ PopWord \/ PopAfter
    \/ PopClaim \/ PopLost

\* grant: between two pops, an atomic add that wraps.
Grant ==
    /\ cpc = "idle"
    /\ \E n \in Grants :
        /\ granted + n <= MaxGranted
        /\ credit' = (credit + n) % CreditRange
        /\ granted' = granted + n
    /\ UNCHANGED <<policy, head, tail, slots, seqs, counters, producer, consumer,
                   offered, accepted, popped, evicted>>

Consumer == PopStep \/ Grant

Next == Producer \/ Consumer

Spec == Init /\ [][Next]_vars

\* A call of push that began goes on, the consumer's loop keeps popping, and a
\* compare-and-exchange that keeps being tried does not fail spuriously for
\* ever.  The producer need not push again and the consumer need not grant.
ProducerFairness == WF_vars(PushStep) /\ SF_vars(EvictClaim)
ConsumerFairness == WF_vars(PopStep) /\ SF_vars(PopClaim)

\* Only the producer is sure to go on: the consumer may stop anywhere.
ProducerSpec == Spec /\ ProducerFairness

--------------------------------------------------------------------------------
(* Properties.                                                             *)

\* What pop returns is the record that was accepted at that position, whole,
\* even when the producer was overwriting the slot during the copy.
PopReturnsTheRecord ==
    \A i \in 1 .. Len(popped) :
        /\ popped[i].pos < head
        /\ \A w \in Words : popped[i].copy[w] = accepted[popped[i].pos + 1]

\* Records leave in the order they were accepted, and none twice.
PopsInOrder ==
    \A i, j \in 1 .. Len(popped) : i < j => popped[i].pos < popped[j].pos

\* Every position the tail has passed was popped or evicted, never both: an
\* eviction and a read cannot both claim the same slot (flow.rs).
PoppedAt == {popped[i].pos : i \in 1 .. Len(popped)}

EveryRecordLeavesOnce ==
    /\ PoppedAt \cap evicted = {}
    /\ PoppedAt \cup evicted = 0 .. tail - 1

\* The queue never holds more than its capacity, and every queued record is
\* whole in its slot under its own sequence, whatever the producer is writing.
QueuedRecordsIntact ==
    /\ tail <= head
    /\ head <= tail + Capacity
    /\ \A n \in tail .. head - 1 :
        /\ Holds(n)
        /\ \A w \in Words : slots[IndexOf(n)][w] = accepted[n + 1]

\* Every call of push ended in exactly one of its outcomes.
EveryPushCounted == ppc = "idle" => offered = head + dropped + refused

\* A loss shows in the high-water mark: a record is evicted, or refused for
\* want of room, only once the queue has been seen full ("one that has hit its
\* capacity is losing records", flow.rs).
LossShowsInHighWater ==
    (dropped > 0 \/ evicted # {} \/ reused > 0) => highWater = Capacity

\* Under the credit policy no record is queued that was not paid for, and the
\* balance is exact up to the wrap of the counter.
Unspent == granted - head - (IF ppc \in {"water", "charge"} THEN -1 ELSE 0)

QueuedOnlyWhatWasPaid ==
    policy = "Credit" => head <= granted /\ credit = Unspent % CreditRange

\* Every push is accounted for: counted once under what became of it, a loss only
\* with the high-water mark at the capacity, and paid for where pushes are paid.
PushesAreAccounted == EveryPushCounted /\ LossShowsInHighWater /\ QueuedOnlyWhatWasPaid

\* When the producer stops, a consumer whose loop keeps running empties the
\* queue: neither a lost race nor a slot being rewritten holds a pop for ever.
QueueDrains == ConsumerFairness => <>[](head = tail)

\* A push returns, under every policy, even if the consumer has stopped in the
\* middle of a copy: "the producer must never be held up by a slow subscriber".
PushReturns == ppc # "idle" ~> ppc = "idle"
================================================================================
