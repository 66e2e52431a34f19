---------------------------------- MODULE Cache ---------------------------------
(***************************************************************************)
(* The cache of rust/ob/src/cache.rs: one publisher with a book for every  *)
(* symbol, sharded, a bounded queue to every subscriber, and subscribers   *)
(* that either read the top of book off the events or keep a book of their *)
(* own from them.                                                          *)
(*                                                                         *)
(* A publish is one step: the publisher's state is its own, and a queue is *)
(* taken for what Flow shows it to be, a bounded sequence under a policy.  *)
(* The two measurements made on the way, latency and pressure, are read by *)
(* no step here and have modules of their own.                             *)
(***************************************************************************)
EXTENDS Book, Symbols

CONSTANTS
    Records,        \* the records a feed may send, all but their sequence
    Registered,     \* the symbols that may be interned ahead of the wire
    Shards,         \* a power of two
    Subscribers,
    Appliers,       \* the subscribers that keep a book of their own
    QueueSize,
    PolicyChoices,  \* the drop policies a cache may be built with
    MaxPublished,   \* bound on the calls of publish, by policy
    MaxIdle,        \* bound on those of them that change no book
    GrantSize,      \* what a subscriber grants at a time
    MaxCredit       \* bound on the credit outstanding at a subscriber

ASSUME CacheAssumption ==
    /\ Records \subseteq [kind : STRING, side : STRING, sym : Names, px : Int, qty : Int]
    /\ Registered \subseteq Names
    /\ Shards \in Nat \ {0}
    /\ IsFiniteSet(Subscribers) /\ Appliers \subseteq Subscribers
    /\ QueueSize \in Nat \ {0, 1}
    /\ PolicyChoices \subseteq {"DropOldest", "DropNewest", "Spin", "Credit"}
    /\ MaxPublished \in [PolicyChoices -> Nat] /\ MaxIdle \in Nat /\ MaxCredit \in Nat /\ GrantSize \in Nat

\* Zero stands for no price in the lane, so no feed may send it for one.
ASSUME PriceAssumption == \A r \in Records : r.kind = "Depth" => r.px # 0

VARIABLES
    policy,         \* the DropPolicy, chosen when the cache is built
    symbols,        \* the interning table
    shards,         \* shards[n]: the books of shard n
    bestBid,        \* the snapshot lane: best prices by symbol, 0 if unpriced
    bestAsk,
    stats,          \* PublishStats
    queue,          \* queue[s]: the events waiting for s
    credit,         \* credit[s]: what s has granted and is not spent
    lost,           \* lost[s]: the queue's own counters of what s will not get
    delivered,      \* delivered[s]: events s took
    replica,        \* replica[s]: the book s keeps
    missed,         \* history: missed[s]: sides s has an unrepaired gap in
    gap             \* history: gap[s]: sides lost behind the last event queued

vars == <<policy, symbols, shards, bestBid, bestAsk, stats, queue, credit, lost, delivered,
          replica, missed, gap>>

Losses == {"evicted", "dropped", "refused"}

\* build.
Init ==
    /\ policy \in PolicyChoices
    /\ symbols = NewTable
    /\ shards = [n \in 0 .. Shards - 1 |-> <<>>]
    /\ bestBid = [i \in 1 .. Max({InitialSymbols, 1}) |-> 0]
    /\ bestAsk = bestBid
    /\ stats = [published |-> 0, applied |-> 0, ignored |-> 0, unknown |-> 0,
                wrongSide |-> 0, overflow |-> 0, crossed |-> 0,
                evicted |-> 0, dropped |-> 0, refused |-> 0]
    /\ queue = [s \in Subscribers |-> <<>>]
    /\ credit = [s \in Subscribers |-> 0]
    /\ lost = [s \in Subscribers |-> [l \in Losses |-> 0]]
    /\ delivered = [s \in Subscribers |-> 0]
    /\ replica = [s \in Subscribers |-> EmptyBook]
    /\ missed = [s \in Subscribers |-> {}]
    /\ gap = [s \in Subscribers |-> {}]

--------------------------------------------------------------------------------
(* Where a symbol's book is.                                               *)

ShardOf(id) == id % Shards
SlotOf(id)  == id \div Shards

\* Publisher::book, of a symbol that was published.
BookOf(id) == shards[ShardOf(id)][SlotOf(id) + 1]

HasBook(id) == SlotOf(id) < Len(shards[ShardOf(id)])

\* The lane, long enough for an id: a power of two, and never shorter.
Covering(lane, id) ==
    IF id < Len(lane) THEN lane
    ELSE [i \in 1 .. NextPowerOfTwo(id + 1) |-> IF i <= Len(lane) THEN lane[i] ELSE 0]

\* A shard's books, with an empty one in every slot up to the one asked for.
Reaching(books, slot) ==
    [i \in 1 .. Max({Len(books), slot + 1}) |-> IF i <= Len(books) THEN books[i] ELSE EmptyBook]

--------------------------------------------------------------------------------
(* The fan-out.                                                            *)

\* What a push to s does, by the policy and the room there is.
Pushed(s) ==
    IF policy = "Credit" /\ credit[s] = 0 THEN "refused"
    ELSE IF Len(queue[s]) < QueueSize THEN "queued"
    ELSE CASE policy = "DropOldest" -> "evicted"
           [] policy = "Credit"     -> "refused"
           [] OTHER                 -> "dropped"

\* A variant that counts a push once, however many queues lost the event.
CountPushedOnce(outcome) == IF \E s \in Subscribers : Pushed(s) = outcome THEN 1 ELSE 0

\* How many subscribers a push ended that way for.
CountPushed(outcome) == Cardinality({s \in Subscribers : Pushed(s) = outcome})

\* The gap an event carries: the sides lost between it and the one before it.
WithGap(event, sides) ==
    [symbol |-> event.symbol, msg |-> event.msg, top |-> event.top, gap |-> sides]

\* A queue that evicts hands the gap it makes to the event that is now first.
Evicted(q) == [Tail(q) EXCEPT ![1].gap = @ \cup Head(q).gap \cup {Head(q).msg.side}]

FanOut(event) ==
    /\ queue' = [s \in Subscribers |->
                    CASE Pushed(s) = "queued"  -> Append(queue[s], WithGap(event, gap[s]))
                      [] Pushed(s) = "evicted" -> Append(Evicted(queue[s]), WithGap(event, gap[s]))
                      [] OTHER                 -> queue[s]]
    /\ gap' = [s \in Subscribers |->
                    IF Pushed(s) \in {"queued", "evicted"} THEN {} ELSE gap[s] \cup {event.msg.side}]
    /\ lost' = [s \in Subscribers |->
                    IF Pushed(s) = "queued" THEN lost[s] ELSE [lost[s] EXCEPT ![Pushed(s)] = @ + 1]]
    /\ credit' = [s \in Subscribers |->
                    IF policy = "Credit" /\ Pushed(s) = "queued" THEN credit[s] - 1 ELSE credit[s]]

--------------------------------------------------------------------------------
(* Publisher::publish, by what becomes of the record.                      *)

Offered == stats.published < MaxPublished[policy]

Idle == Offered /\ stats.ignored + stats.unknown + stats.wrongSide < MaxIdle

PublishIgnored(m) ==
    /\ Idle
    /\ m.kind \notin BookKinds
    /\ stats' = [stats EXCEPT !.published = @ + 1, !.ignored = @ + 1]
    /\ UNCHANGED <<policy, symbols, shards, bestBid, bestAsk, queue, credit, lost, delivered,
                   replica, missed, gap>>

\* The table is at its ceiling and has never seen the symbol.
PublishUnknown(m) ==
    /\ Idle
    /\ m.kind \in BookKinds
    /\ Lookup(symbols, m.sym) = 0 /\ Exhausted(symbols)
    /\ stats' = [stats EXCEPT !.published = @ + 1, !.unknown = @ + 1]
    /\ UNCHANGED <<policy, symbols, shards, bestBid, bestAsk, queue, credit, lost, delivered,
                   replica, missed, gap>>

\* The symbol's id, which the table issues if it has not seen the symbol.
IdFor(m) == Lookup(Interned(symbols, m.sym), m.sym) - 1

\* What applying the record makes of the book of its symbol.
AppliedTo(id, m) == Apply(Reaching(shards[ShardOf(id)], SlotOf(id))[SlotOf(id) + 1], m)

\* The symbol is interned, its book is replaced, and the lane is refreshed from
\* the book.
KeepBook(m, id, book) ==
    /\ symbols' = Interned(symbols, m.sym)
    /\ shards' = [shards EXCEPT ![ShardOf(id)] =
                    [Reaching(@, SlotOf(id)) EXCEPT ![SlotOf(id) + 1] = book]]
    /\ bestBid' = [Covering(bestBid, id) EXCEPT ![id + 1] = Best(book.Bid).px]
    /\ bestAsk' = [Covering(bestAsk, id) EXCEPT ![id + 1] = Best(book.Ask).px]

\* The record names no side: nothing is fanned out.
PublishWrongSide(m) ==
    LET id      == IdFor(m)
        applied == AppliedTo(id, m)
    IN  /\ Idle
        /\ m.kind \in BookKinds /\ id >= 0
        /\ applied.outcome = "WrongSide"
        /\ KeepBook(m, id, applied.book)
        /\ stats' = [stats EXCEPT !.published = @ + 1, !.wrongSide = @ + 1]
        /\ UNCHANGED <<policy, queue, credit, lost, delivered, replica, missed, gap>>

\* The record changes a book, and every queue is offered the event.
PublishChange(m) ==
    LET id      == IdFor(m)
        applied == AppliedTo(id, m)
    IN  /\ Offered
        /\ m.kind \in BookKinds /\ id >= 0
        /\ applied.outcome \in {"Reset", "Changed", "Overflow"}
        /\ KeepBook(m, id, applied.book)
        /\ stats' = [stats EXCEPT
                !.published = @ + 1,
                !.applied   = @ + 1,
                !.overflow  = @ + (IF applied.outcome = "Overflow" THEN 1 ELSE 0),
                !.crossed   = @ + (IF Crossed(applied.book) THEN 1 ELSE 0),
                !.evicted   = @ + CountPushed("evicted"),
                !.dropped   = @ + CountPushed("dropped"),
                !.refused   = @ + CountPushed("refused")]
        /\ FanOut([symbol |-> id, msg |-> m, top |-> TopOf(applied.book)])
        /\ UNCHANGED <<policy, delivered, replica, missed>>

\* The record, with the sequence its feed gave it.
Numbered(r, seq) ==
    [kind |-> r.kind, side |-> r.side, sym |-> r.sym, px |-> r.px, qty |-> r.qty, seq |-> seq]

Publish == \E r \in Records :
    LET m == Numbered(r, stats.published + 1)
    IN  PublishIgnored(m) \/ PublishUnknown(m) \/ PublishWrongSide(m) \/ PublishChange(m)

\* Publisher::intern, of a symbol that is not on the wire yet.
Intern(name) ==
    /\ Lookup(symbols, name) = 0
    /\ ~Exhausted(symbols)
    /\ symbols' = Interned(symbols, name)
    /\ bestBid' = Covering(bestBid, Len(symbols.names))
    /\ bestAsk' = Covering(bestAsk, Len(symbols.names))
    /\ UNCHANGED <<policy, shards, stats, queue, credit, lost, delivered, replica, missed, gap>>

--------------------------------------------------------------------------------
(* Subscriber.                                                             *)

\* The gaps left in what s has taken, once it takes this event: a reset of a
\* side mends the side.
MissedWith(s, event) ==
    (missed[s] \cup event.gap) \ (IF event.msg.kind = "DepthReset" THEN {event.msg.side} ELSE {})

\* try_recv, as drain calls it.
Receive(s) ==
    /\ s \notin Appliers
    /\ queue[s] # <<>>
    /\ queue' = [queue EXCEPT ![s] = Tail(@)]
    /\ delivered' = [delivered EXCEPT ![s] = @ + 1]
    /\ missed' = [missed EXCEPT ![s] = MissedWith(s, Head(queue[s]))]
    /\ UNCHANGED <<policy, symbols, shards, bestBid, bestAsk, stats, credit, lost, replica,
                   gap>>

\* A variant of a subscriber that takes a reset for a record without prices.
KeptWithoutResets(s, m) == IF m.kind = "DepthReset" THEN replica[s] ELSE Apply(replica[s], m).book

\* The book a subscriber keeps, after a record.
Kept(s, m) == Apply(replica[s], m).book

\* One event of apply_to: taken by try_recv, and applied whatever its symbol.
ApplyNext(s) ==
    /\ s \in Appliers
    /\ queue[s] # <<>>
    /\ queue' = [queue EXCEPT ![s] = Tail(@)]
    /\ delivered' = [delivered EXCEPT ![s] = @ + 1]
    /\ replica' = [replica EXCEPT ![s] = Kept(s, Head(queue[s]).msg)]
    /\ missed' = [missed EXCEPT ![s] = MissedWith(s, Head(queue[s]))]
    /\ UNCHANGED <<policy, symbols, shards, bestBid, bestAsk, stats, credit, lost, gap>>

Grant(s) ==
    /\ policy = "Credit"
    /\ credit[s] + GrantSize <= MaxCredit
    /\ credit' = [credit EXCEPT ![s] = @ + GrantSize]
    /\ UNCHANGED <<policy, symbols, shards, bestBid, bestAsk, stats, queue, lost, delivered,
                   replica, missed, gap>>

Next ==
    \/ Publish
    \/ \E name \in Registered : Intern(name)
    \/ \E s \in Subscribers : Receive(s) \/ ApplyNext(s) \/ Grant(s)

Spec == Init /\ [][Next]_vars

--------------------------------------------------------------------------------
(* Properties.                                                             *)

Ids == 0 .. Len(symbols.names) - 1

\* Every variable keeps its type; a book is within its depth.
TypeOK ==
    /\ policy \in PolicyChoices
    /\ Len(symbols.names) <= symbols.capacity
    /\ \A n \in 0 .. Shards - 1 : \A i \in 1 .. Len(shards[n]) :
        \A side \in Sides : Len(shards[n][i][side]) <= Depth
    /\ \A s \in Subscribers :
        /\ Len(queue[s]) <= QueueSize
        /\ credit[s] \in 0 .. MaxCredit
        /\ \A side \in Sides : Len(replica[s][side]) <= Depth
        /\ missed[s] \subseteq Sides /\ gap[s] \subseteq Sides

\* mids_into and touch read the lane, mid_e8 the book: they never disagree,
\* and the lane is never shorter than the ids that index it.
LaneMid(id) ==
    IF bestBid[id + 1] # 0 /\ bestAsk[id + 1] # 0 THEN Mid(bestBid[id + 1], bestAsk[id + 1]) ELSE 0

LaneIsTheBooks ==
    /\ Len(symbols.names) <= Len(bestBid)
    /\ \A id \in Ids :
        LaneMid(id) = IF HasBook(id) /\ Priced(BookOf(id)) THEN BookMid(BookOf(id)) ELSE 0

\* Every record offered is counted under one outcome, every event fanned out is
\* accounted for at every subscriber, and the publisher's counts of what was
\* lost are the sums of the queues' own.
LossesBy(l) == UNION {{s} \X (1 .. lost[s][l]) : s \in Subscribers}

SumLost(l) == Cardinality(LossesBy(l))

EveryEventCounted ==
    /\ stats.published = stats.applied + stats.ignored + stats.unknown + stats.wrongSide
    /\ \A s \in Subscribers :
        stats.applied = delivered[s] + Len(queue[s])
                        + lost[s].evicted + lost[s].dropped + lost[s].refused
    /\ stats.evicted = SumLost("evicted")
    /\ stats.dropped = SumLost("dropped")
    /\ stats.refused = SumLost("refused")

\* A subscriber's own book, of a feed of one symbol: once it has taken all that
\* is queued, each of its sides is the publisher's, unless an event of that side
\* was lost and no reset of the side has come through since.
ReplicaInStep ==
    \A s \in Appliers :
        queue[s] = <<>> /\ Len(symbols.names) = 1 /\ HasBook(0) =>
            \A side \in Sides \ (missed[s] \cup gap[s]) :
                replica[s][side] = BookOf(0)[side]

\* A symbol is found under the id it was given and a name that was not given
\* one is not found, through collisions and growth; at most half of the buckets
\* are used, so every probe comes to an end.
LookupIsExact ==
    /\ 2 * Len(symbols.names) <= Cardinality(DOMAIN symbols.index)
    /\ \A name \in Names :
        LET id == Lookup(symbols, name)
        IN  IF id = 0 THEN ~Contains(symbols.names, name) ELSE symbols.names[id] = name

\* The symbol table and the lane beside the books, and that nothing outgrows the
\* room it has.
TablesAreExact == TypeOK /\ LookupIsExact /\ LaneIsTheBooks
================================================================================
