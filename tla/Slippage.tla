-------------------------------- MODULE Slippage --------------------------------
(***************************************************************************)
(* The slippage ledger of rust/ob/src/slippage.rs for one symbol: what an  *)
(* execution cost, split in two, and the markouts that wait for their      *)
(* horizons in a ring of slots and are settled by the publisher's timer.   *)
(*                                                                         *)
(* Saturation at 64 bits is left out: no value here is near it.            *)
(***************************************************************************)
EXTENDS Fixed

CONSTANTS
    Horizons,       \* times after the execution, as a sequence
    PendingSlots,   \* PENDING_PER_SYMBOL
    Executions,     \* executions a taker may report
    Mids,           \* mids a timer may find; 0 while the book is one-sided
    Ticks,          \* times between two calls
    MaxCalls        \* bound on the calls

ASSUME SlippageAssumption ==
    /\ Horizons \in Seq(Nat) \ {<<>>} /\ PendingSlots \in Nat \ {0}
    /\ Executions \subseteq [taker : {"Buy", "Sell"}, decision : Nat, action : Nat, px : Nat]
    /\ Mids \subseteq Nat /\ Ticks \subseteq Nat /\ MaxCalls \in Nat

VARIABLES
    slNow,          \* the clock
    slPending,      \* the slots: at, taker, px, the horizons settled, done
    slNext,         \* next_pending
    slMarkout,      \* by horizon: count, sum and worst
    slDropped,      \* dropped_pending
    slSums,         \* executions, latency, depth, shortfall, spread, worst, best
    slCalls         \* history: every call, with its time

slVars == <<slNow, slPending, slNext, slMarkout, slDropped, slSums, slCalls>>

NoPending == [at |-> 0, taker |-> "Buy", px |-> 0, settled |-> {}, done |-> TRUE]

Sign(taker) == IF taker = "Buy" THEN 1 ELSE -1

\* Nothing recorded: the extremes are past every cost.
NoSums == [executions |-> 0, latency |-> 0, depth |-> 0, shortfall |-> 0, spread |-> 0,
           worst |-> -MaxInt - 1, best |-> MaxInt]

SlInit ==
    /\ slNow = 0
    /\ slPending = [i \in 0 .. PendingSlots - 1 |-> NoPending]
    /\ slNext = 0
    /\ slMarkout = [h \in DOMAIN Horizons |-> [count |-> 0, sum |-> 0, worst |-> 0]]
    /\ slDropped = 0
    /\ slSums = NoSums
    /\ slCalls = <<>>

\* decompose: nothing can be said against a decision mid of zero.
Decompose(e) ==
    LET cost(from, to) == DeltaBps(Sign(e.taker) * (to - from), e.decision)
        half == IF e.px >= e.action THEN e.px - e.action ELSE e.action - e.px
    IN  IF e.decision = 0 THEN [latency |-> 0, depth |-> 0, shortfall |-> 0, spread |-> 0]
        ELSE [latency   |-> cost(e.decision, e.action),
              depth     |-> cost(e.action, e.px),
              shortfall |-> cost(e.decision, e.px),
              spread    |-> DeltaBps(2 * half, e.decision)]

\* record: the costs are added up, and an observation is queued in the next
\* slot, in place of one that may still be waiting.
SlRecord(e) ==
    LET cost == Decompose(e)
    IN  /\ Len(slCalls) < MaxCalls
        /\ slSums' = [slSums EXCEPT
                        !.executions = @ + 1, !.latency = @ + cost.latency, !.depth = @ + cost.depth,
                        !.shortfall = @ + cost.shortfall, !.spread = @ + cost.spread,
                        !.worst = Max({@, cost.shortfall}), !.best = Min({@, cost.shortfall})]
        /\ slDropped' = slDropped + (IF slPending[slNext].done THEN 0 ELSE 1)
        /\ slPending' = [slPending EXCEPT ![slNext] =
                [at |-> slNow, taker |-> e.taker, px |-> e.px, settled |-> {}, done |-> FALSE]]
        /\ slNext' = (slNext + 1) % PendingSlots
        /\ slCalls' = Append(slCalls, [call |-> "record", at |-> slNow, made |-> e])
        /\ UNCHANGED <<slNow, slMarkout>>

\* A variant that settles a horizon again each time.
DueAgain(p, now) == {h \in DOMAIN Horizons : ~p.done /\ now - p.at >= Horizons[h]}

\* The horizons of an observation that are to be settled.
Due(p, now) == {h \in DOMAIN Horizons : ~p.done /\ now - p.at >= Horizons[h]} \ p.settled

\* How far the mid has moved in the position's favour.
Moved(p, mid) == DeltaBps(Sign(p.taker) * (mid - p.px), p.px)

\* resolve_in: every horizon that has passed is settled against one mid.
Settled(p, now) ==
    [p EXCEPT !.settled = @ \cup Due(p, now),
              !.done = @ \/ p.settled \cup Due(p, now) = DOMAIN Horizons]

Resolved(h, now, mid) ==
    LET due   == {i \in DOMAIN slPending : h \in Due(slPending[i], now)}
        moves == [i \in due |-> Moved(slPending[i], mid)]
    IN  [count |-> slMarkout[h].count + Cardinality(due),
         sum   |-> slMarkout[h].sum + SumFunction(moves),
         worst |-> Min({slMarkout[h].worst} \cup {moves[i] : i \in due})]

\* resolve_all on the timer: nothing is settled while there is no mid.
SlResolve(tick, mid) ==
    /\ Len(slCalls) < MaxCalls
    /\ slNow' = slNow + tick
    /\ IF mid = 0 THEN UNCHANGED <<slPending, slMarkout>>
       ELSE /\ slPending' = [i \in DOMAIN slPending |-> Settled(slPending[i], slNow')]
            /\ slMarkout' = [h \in DOMAIN Horizons |-> Resolved(h, slNow', mid)]
    /\ slCalls' = Append(slCalls, [call |-> "resolve", at |-> slNow', mid |-> mid])
    /\ UNCHANGED <<slNext, slDropped, slSums>>

\* What is reported of a sum: its mean, truncated, or zero.
MeanOfSum(sum, count) == IF count = 0 THEN 0 ELSE Quotient(sum, count)

\* mean_shortfall, worst_shortfall, best_shortfall and the others of an execution,
\* and a horizon's mean.
Reported ==
    [latency   |-> MeanOfSum(slSums.latency, slSums.executions),
     depth     |-> MeanOfSum(slSums.depth, slSums.executions),
     shortfall |-> MeanOfSum(slSums.shortfall, slSums.executions),
     spread    |-> MeanOfSum(slSums.spread, slSums.executions),
     worst     |-> IF slSums.executions = 0 THEN 0 ELSE slSums.worst,
     best      |-> IF slSums.executions = 0 THEN 0 ELSE slSums.best]

MeanMarkout(h) == MeanOfSum(slMarkout[h].sum, slMarkout[h].count)

SlNext ==
    \/ \E e \in Executions : SlRecord(e)
    \/ \E tick \in Ticks, mid \in Mids : SlResolve(tick, mid)

--------------------------------------------------------------------------------
(* Properties.                                                             *)

Made(calls) == {i \in DOMAIN calls : calls[i].call = "record"}

\* The executions behind call i, up to call j.
MadeSince(calls, i, j) == {k \in Made(calls) : i < k /\ k <= j}

\* The calls that find a horizon of the execution of call i passed, before as many
\* more have come as there are slots.
Settling(calls, i, h) == {j \in DOMAIN calls \ Made(calls) :
    /\ i < j /\ Cardinality(MadeSince(calls, i, j)) < PendingSlots
    /\ calls[j].mid # 0
    /\ calls[j].at - calls[i].at >= Horizons[h]}

Observed(calls, h) == {i \in Made(calls) : Settling(calls, i, h) # {}}

\* The moves up to the first of these calls.
Markouts(calls, h) ==
    [i \in Observed(calls, h) |-> Moved(calls[i].made, calls[Min(Settling(calls, i, h))].mid)]

\* The executions that lost their slot before the last of their horizons.
Lost(calls) ==
    {i \in Made(calls) : /\ Cardinality(MadeSince(calls, i, Len(calls))) >= PendingSlots
                         /\ \E h \in DOMAIN Horizons : Settling(calls, i, h) = {}}

\* The markouts told by the history alone.  At each horizon one is counted for
\* every execution that a timer call found past it before its slot was taken
\* again, and it is the move up to the first such call; an execution that lost
\* its slot before the last of its horizons is counted as dropped.
MarkoutsAreTheFirstPast ==
    /\ \A h \in DOMAIN Horizons :
        LET moves == Markouts(slCalls, h)
        IN  /\ slMarkout[h].count = Cardinality(DOMAIN moves)
            /\ slMarkout[h].sum = SumFunction(moves)
    /\ slDropped = Cardinality(Lost(slCalls))

\* The costs of the executions made.
Costs == {Decompose(slCalls[i].made).shortfall : i \in Made(slCalls)}

\* The two parts add up to the shortfall ("they add up", slippage.rs), but for
\* one hundredth of a basis point an execution that their truncation takes, and
\* a position's cost is the other side's gain.
SplitAddsUp ==
    LET off == slSums.latency + slSums.depth - slSums.shortfall
        other(e) == [e EXCEPT !.taker = IF @ = "Buy" THEN "Sell" ELSE "Buy"]
    IN  /\ off \in -slSums.executions .. slSums.executions
        /\ \A i \in Made(slCalls) :
            Decompose(slCalls[i].made).shortfall = -Decompose(other(slCalls[i].made)).shortfall

\* The mean that is reported lies between the best and the worst execution, both
\* of which were made, and no horizon's mean is below its worst markout.
MeansAreBetween ==
    /\ Reported.best <= Reported.shortfall /\ Reported.shortfall <= Reported.worst
    /\ Costs # {} => Reported.worst = Max(Costs) /\ Reported.best = Min(Costs)
    /\ \A h \in DOMAIN Horizons :
        slMarkout[h].count # 0 => slMarkout[h].worst <= MeanMarkout(h)

\* Every part of what is reported goes back to an execution and the mids after it.
CostsAreTraced == MarkoutsAreTheFirstPast /\ SplitAddsUp /\ MeansAreBetween
================================================================================
