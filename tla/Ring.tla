---------------------------------- MODULE Ring ----------------------------------
(***************************************************************************)
(* The shared-memory bus of rust/ob/src/ring.rs: one writer, any number of *)
(* readers, no lock.  A file holds `wseq` and `capacity` slots; record n   *)
(* lives in slot n & (capacity - 1).                                       *)
(*                                                                         *)
(* Atomic steps.  `wseq` is an AtomicU64, so each load and store of it is  *)
(* one step.  A slot is 72 plain bytes that the writer and the readers     *)
(* copy with no lock, so a copy is one step per word, in any order, and    *)
(* the two sides interleave: that is what the data race on a slot can      *)
(* produce.  A word's value is the number of the record it belongs to, so  *)
(* a copy is of one record exactly when all its words are equal.           *)
(*                                                                         *)
(* The slot index: the code masks with capacity - 1 and refuses a capacity *)
(* that is not a power of two, so the mask is the remainder.  Nothing here *)
(* needs the capacity to be a power of two, and the theorems do not assume *)
(* it.                                                                     *)
(***************************************************************************)
EXTENDS Integers, Sequences

CONSTANTS
    Readers,        \* the reading processes
    Capacity,       \* slots in the ring
    Words,          \* the words a record is copied in
    SeqWord,        \* the word that holds the record's own sequence number
    StampWord,      \* the word that holds the daemon's stamp
    BatchLen,       \* the length of the buffer a reader passes to consume_batch
    MaxPublished    \* bound on the records the writer publishes

ASSUME RingAssumption ==
    /\ Capacity \in Nat \ {0}
    /\ SeqWord \in Words
    /\ StampWord \in Words
    /\ BatchLen \in Nat \ {0}
    /\ MaxPublished \in Nat

VARIABLES
    wseq,           \* records published, the header field
    slot,           \* slot[i][w]: the record that word w of slot i belongs to
    writing,        \* the writer is inside publish
    wpending,       \* words of the record in flight not yet copied to its slot
    rpc,            \* rpc[r]: where reader r is
    cursor,         \* cursor[r]: the record r wants next (the caller's variable)
    written,        \* written[r]: the wseq that consume loaded
    asked,          \* asked[r]: the record whose slot r is copying
    rpending,       \* rpending[r]: words r has not yet copied
    wire,           \* wire[r]: the words copied so far
    batch,          \* batch[r]: records taken by the consume_batch in progress
    delivered,      \* delivered[r]: what consume returned as Fresh, in order
    stamp           \* stamp[r]: what the last successful timestamp_at returned

writerVars == <<wseq, slot, writing, wpending>>
readerVars == <<rpc, cursor, written, asked, rpending, wire, batch, delivered, stamp>>
vars == <<writerVars, readerVars>>

NoRecord == -1                      \* a word of a slot no record was written to
Copies   == [Words -> Nat \cup {NoRecord}]
Records  == [seq : Nat, copy : Copies]
Blank    == [w \in Words |-> NoRecord]
Whole(c, n) == \A w \in Words : c[w] = n

SlotOf(n) == n % Capacity

PCs == {"detached", "idle", "load", "copy", "peek"}

TypeOK ==
    /\ wseq \in Nat
    /\ slot \in [0 .. Capacity - 1 -> Copies]
    /\ writing \in BOOLEAN
    /\ wpending \in SUBSET Words
    /\ rpc \in [Readers -> PCs]
    /\ cursor \in [Readers -> Nat]
    /\ written \in [Readers -> Nat]
    /\ asked \in [Readers -> Nat]
    /\ rpending \in [Readers -> SUBSET Words]
    /\ wire \in [Readers -> Copies]
    /\ batch \in [Readers -> Nat]
    /\ delivered \in [Readers -> Seq(Records)]
    /\ stamp \in [Readers -> [seq : Nat \cup {NoRecord}, of : Nat \cup {NoRecord}]]

\* Ring::create: the file is truncated and sized, so every slot is zero bytes.
Init ==
    /\ wseq = 0
    /\ slot = [i \in 0 .. Capacity - 1 |-> Blank]
    /\ writing = FALSE
    /\ wpending = {}
    /\ rpc = [r \in Readers |-> "detached"]
    /\ cursor = [r \in Readers |-> 0]
    /\ written = [r \in Readers |-> 0]
    /\ asked = [r \in Readers |-> 0]
    /\ rpending = [r \in Readers |-> {}]
    /\ wire = [r \in Readers |-> Blank]
    /\ batch = [r \in Readers |-> 0]
    /\ delivered = [r \in Readers |-> <<>>]
    /\ stamp = [r \in Readers |-> [seq |-> NoRecord, of |-> NoRecord]]

--------------------------------------------------------------------------------
(* The writer: Ring::publish.                                              *)

\* Load wseq, set the record's seq, and begin to copy it into its slot.
PublishBegin ==
    /\ ~writing
    /\ wseq < MaxPublished
    /\ writing' = TRUE
    /\ wpending' = Words
    /\ UNCHANGED <<wseq, slot, readerVars>>

PublishWord ==
    /\ writing
    /\ \E w \in wpending :
        /\ slot' = [slot EXCEPT ![SlotOf(wseq)][w] = wseq]
        /\ wpending' = wpending \ {w}
    /\ UNCHANGED <<wseq, writing, readerVars>>

\* A variant that releases wseq while words of the record are still uncopied.
PublishReleaseEarly ==
    /\ writing
    /\ wseq' = wseq + 1
    /\ writing' = FALSE
    /\ wpending' = {}
    /\ UNCHANGED <<slot, readerVars>>

\* The release store of wseq + 1: this single store is the publish.
PublishRelease ==
    /\ writing
    /\ wpending = {}
    /\ wseq' = wseq + 1
    /\ writing' = FALSE
    /\ UNCHANGED <<slot, wpending, readerVars>>

Writer == PublishBegin \/ PublishWord \/ PublishRelease

--------------------------------------------------------------------------------
(* A reader: RingReader::open, consume in the loop of consume_batch, and   *)
(* timestamp_at.                                                           *)

\* Open the ring.  headless and the replaying view start at 0, the terminal
\* and a following view at the live end.
Attach(r) ==
    /\ rpc[r] = "detached"
    /\ rpc' = [rpc EXCEPT ![r] = "idle"]
    /\ \E c \in {0, wseq} : cursor' = [cursor EXCEPT ![r] = c]
    /\ UNCHANGED <<writerVars, written, asked, rpending, wire, batch, delivered, stamp>>

BatchBegin(r) ==
    /\ rpc[r] = "idle"
    /\ rpc' = [rpc EXCEPT ![r] = "load"]
    /\ batch' = [batch EXCEPT ![r] = 0]
    /\ UNCHANGED <<writerVars, cursor, written, asked, rpending, wire, delivered, stamp>>

\* The acquire load finds nothing new: Consume::Empty, and the batch ends.
ConsumeEmpty(r) ==
    /\ rpc[r] = "load"
    /\ cursor[r] >= wseq
    /\ rpc' = [rpc EXCEPT ![r] = "idle"]
    /\ UNCHANGED <<writerVars, cursor, written, asked, rpending, wire, batch, delivered, stamp>>

\* A variant of the lag guard that is off by one.
LappedEarly(n, w) == w - n >= Capacity

\* A variant that resynchronises whenever there is something to read.
LappedAlways(n, w) == w > n

\* The lag guard: the writer is more than a lap ahead of record n.
Lapped(n, w) == w - n > Capacity

\* Consume::Resynchronised: move to the oldest record still present.  The
\* batch goes round again.
ConsumeResync(r) ==
    /\ rpc[r] = "load"
    /\ cursor[r] < wseq
    /\ Lapped(cursor[r], wseq)
    /\ cursor' = [cursor EXCEPT ![r] = wseq - Capacity]
    /\ UNCHANGED <<writerVars, rpc, written, asked, rpending, wire, batch, delivered, stamp>>

\* Within the lag guard: begin to copy the slot of the record at the cursor.
ConsumeBegin(r) ==
    /\ rpc[r] = "load"
    /\ cursor[r] < wseq
    /\ ~Lapped(cursor[r], wseq)
    /\ rpc' = [rpc EXCEPT ![r] = "copy"]
    /\ written' = [written EXCEPT ![r] = wseq]
    /\ asked' = [asked EXCEPT ![r] = cursor[r]]
    /\ rpending' = [rpending EXCEPT ![r] = Words]
    /\ wire' = [wire EXCEPT ![r] = Blank]
    /\ UNCHANGED <<writerVars, cursor, batch, delivered, stamp>>

CopyWord(r) ==
    /\ rpc[r] \in {"copy", "peek"}
    /\ \E w \in rpending[r] :
        /\ wire' = [wire EXCEPT ![r][w] = slot[SlotOf(asked[r])][w]]
        /\ rpending' = [rpending EXCEPT ![r] = @ \ {w}]
    /\ UNCHANGED <<writerVars, rpc, cursor, written, asked, batch, delivered, stamp>>

\* The check of the record's own sequence number.  decode's other checks
\* (magic, length, known codes) pass for any mix of two records' words.
OwnSeqMatches(r) == wire[r][SeqWord] = asked[r]

\* A variant that takes the record and leaves the cursor on it.
FreshNoAdvance(r) ==
    /\ rpc[r] = "copy"
    /\ rpending[r] = {}
    /\ OwnSeqMatches(r)
    /\ delivered' = [delivered EXCEPT ![r] = Append(@, [seq |-> asked[r], copy |-> wire[r]])]
    /\ rpc' = [rpc EXCEPT ![r] = "idle"]
    /\ UNCHANGED <<writerVars, cursor, written, asked, rpending, wire, batch, stamp>>

\* Consume::Fresh: the record is returned and the cursor moves past it.  The
\* batch goes on while its buffer has room.
ConsumeFresh(r) ==
    /\ rpc[r] = "copy"
    /\ rpending[r] = {}
    /\ OwnSeqMatches(r)
    /\ delivered' = [delivered EXCEPT ![r] = Append(@, [seq |-> asked[r], copy |-> wire[r]])]
    /\ cursor' = [cursor EXCEPT ![r] = @ + 1]
    /\ batch' = [batch EXCEPT ![r] = @ + 1]
    /\ rpc' = [rpc EXCEPT ![r] = IF batch[r] + 1 < BatchLen THEN "load" ELSE "idle"]
    /\ UNCHANGED <<writerVars, written, asked, rpending, wire, stamp>>

\* Consume::Stale: the slot was reused under the copy.  Skip to the live end
\* as it was when consume began, and end the batch.
ConsumeStale(r) ==
    /\ rpc[r] = "copy"
    /\ rpending[r] = {}
    /\ wire[r][SeqWord] # asked[r]
    /\ cursor' = [cursor EXCEPT ![r] = written[r]]
    /\ rpc' = [rpc EXCEPT ![r] = "idle"]
    /\ UNCHANGED <<writerVars, written, asked, rpending, wire, batch, delivered, stamp>>

\* timestamp_at, as backlog_ns and staleness_ns call it: of the record at the
\* cursor and of the newest one.  A sequence not yet published gives None and
\* changes nothing.
PeekBegin(r) ==
    /\ rpc[r] = "idle"
    /\ \E n \in {cursor[r], wseq - 1} :
        /\ n >= 0
        /\ n < wseq
        /\ asked' = [asked EXCEPT ![r] = n]
    /\ rpc' = [rpc EXCEPT ![r] = "peek"]
    /\ rpending' = [rpending EXCEPT ![r] = {SeqWord, StampWord}]
    /\ wire' = [wire EXCEPT ![r] = Blank]
    /\ UNCHANGED <<writerVars, cursor, written, batch, delivered, stamp>>

\* Some(stamp) when the slot's own sequence is the one asked for, else None.
PeekEnd(r) ==
    /\ rpc[r] = "peek"
    /\ rpending[r] = {}
    /\ rpc' = [rpc EXCEPT ![r] = "idle"]
    /\ stamp' = IF OwnSeqMatches(r)
                THEN [stamp EXCEPT ![r] = [seq |-> asked[r], of |-> wire[r][StampWord]]]
                ELSE stamp
    /\ UNCHANGED <<writerVars, cursor, written, asked, rpending, wire, batch, delivered>>

\* The steps of one consume_batch.
ConsumeStep(r) ==
    \/ ConsumeEmpty(r)
    \/ ConsumeResync(r)
    \/ ConsumeBegin(r)
    \/ CopyWord(r)
    \/ ConsumeFresh(r)
    \/ ConsumeStale(r)

Reader(r) ==
    \/ Attach(r)
    \/ BatchBegin(r)
    \/ ConsumeStep(r)
    \/ PeekBegin(r)
    \/ PeekEnd(r)

Next == Writer \/ \E r \in Readers : Reader(r)

Spec == Init /\ [][Next]_vars

\* A publish that began ends, a reader that is inside a call returns from it,
\* and a reader's loop drains the ring on every turn: the calls to timestamp_at
\* between two drains do not put the next drain off for ever.
Fairness ==
    /\ WF_vars(PublishWord \/ PublishRelease)
    /\ \A r \in Readers :
        /\ WF_vars(ConsumeStep(r) \/ PeekEnd(r))
        /\ SF_vars(BatchBegin(r))

LiveSpec == Spec /\ Fairness

--------------------------------------------------------------------------------
(* Properties.                                                             *)

Copying(r) == rpc[r] \in {"copy", "peek"}

\* What the call in progress copies: a record, or its number and its stamp.
WordsRead(r) == IF rpc[r] = "copy" THEN Words ELSE {SeqWord, StampWord}

\* The writer has come round to the slot of record n: it has published, or is
\* copying, or is next to copy, the record one lap later.
ComeRound(n) == wseq >= n + Capacity

\* A reader is never ahead of the writer, and everything it was handed had
\* been published: consume never returns a record the writer had not released
\* (ring.rs, consume), and no skip overshoots the live end.
ReaderBehindWriter ==
    \A r \in Readers :
        /\ cursor[r] <= wseq
        /\ \A i \in 1 .. Len(delivered[r]) : delivered[r][i].seq < cursor[r]

\* The sequence numbers a reader is handed strictly increase, through laps,
\* resynchronisations and stale slots: no record twice, none out of order.
SequenceNeverGoesBack ==
    \A r \in Readers : \A i, j \in 1 .. Len(delivered[r]) :
        i < j => delivered[r][i].seq < delivered[r][j].seq

\* Every slot of the last lap holds its whole record, but for the words of the
\* oldest one that the writer is replacing: what makes the read of a slot
\* within the lag guard meaningful.
LastLapIntact ==
    \A n \in 0 .. wseq - 1 : wseq - n <= Capacity =>
        \A w \in Words :
            \/ slot[SlotOf(n)][w] = n
            \/ writing /\ n = wseq - Capacity /\ w \notin wpending

\* A copy in progress holds words of another record only once the writer has
\* come round to that slot.  The lag guard bounds the lag at the load of wseq;
\* this says what is left of that bound while the copy runs.
CopyIntactUntilComeRound ==
    \A r \in Readers : Copying(r) =>
        \A w \in WordsRead(r) \ rpending[r] :
            wire[r][w] = asked[r] \/ ComeRound(asked[r])

\* A record handed over is whole, and a stamp is of the record asked for, unless
\* the writer had come round to its slot while the reader copied it: a reader
\* that keeps its lag below the capacity for the whole of a call never sees a
\* mixed record, nor the stamp of a later lap.
WholeOrComeRound ==
    \A r \in Readers :
        /\ delivered'[r] # delivered[r] => Whole(wire[r], asked[r]) \/ ComeRound(asked[r])
        /\ stamp'[r] # stamp[r] => stamp'[r].of = asked[r] \/ ComeRound(asked[r])

TornOnlyWhenComeRound == [][WholeOrComeRound]_vars

\* A reader gives up a record only if the writer had come round to that
\* record's slot: no record is lost to a reader that keeps up.
GivenUpOnlyComeRound ==
    \A r \in Readers :
        (rpc[r] # "detached" /\ cursor'[r] # cursor[r] /\ delivered'[r] = delivered[r])
            => ComeRound(cursor[r])

LossNeedsAFullLap == [][GivenUpOnlyComeRound]_vars

\* When the writer stops, every attached reader reaches the live end, whatever
\* it was lapped by (the threaded test of ring.rs asserts it of one run).
ReadersCatchUp ==
    \A r \in Readers : <>[](rpc[r] = "detached" \/ cursor[r] = wseq)

\* The bus this ring implements: handed-over numbers only, not their bytes.
B == INSTANCE Bus WITH
        published <- wseq,
        next <- [r \in Readers |-> IF rpc[r] = "detached" THEN 0 ELSE cursor[r]],
        got <- [r \in Readers |-> [i \in 1 .. Len(delivered[r]) |-> delivered[r][i].seq]]

ImplementsBus == B!Spec

--------------------------------------------------------------------------------
(* What the documentation says and the protocol does not give.             *)

\* "... a reader that loses a race loses a record rather than reading a wrong
\* price" (ring.rs, module documentation).
NeverAMixedRecord ==
    \A r \in Readers : \A i \in 1 .. Len(delivered[r]) :
        Whole(delivered[r][i].copy, delivered[r][i].seq)
================================================================================
