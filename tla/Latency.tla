--------------------------------- MODULE Latency --------------------------------
(***************************************************************************)
(* The latency histograms of rust/ob/src/latency.rs and the two trackers a *)
(* record goes through: the publisher's, which sees it come in, and the    *)
(* subscriber's, which sees it taken.  Times are durations; what the clock *)
(* reads is nobody's business here.                                        *)
(*                                                                         *)
(* A histogram has Buckets buckets, each spanning a ratio of               *)
(* RatioOver / RatioUnder, computed in integers where the code has floats. *)
(* Sums do not saturate: no value here is near 64 bits.                    *)
(***************************************************************************)
EXTENDS Integers, Sequences, SequencesExt

CONSTANTS
    RatioOver, RatioUnder,  \* BUCKET_RATIO, as a fraction
    Buckets,                \* BUCKETS
    MaxTracked,             \* MAX_TRACKED_NS, the ratio to the power of Buckets
    Implausible,            \* IMPLAUSIBLE_STAGE_NS
    MaxBackfill,            \* MAX_BACKFILL_SAMPLES
    Interval,               \* expected_interval_ns, 0 for none
    Stage1,                 \* send-to-receive times; NoStamp if not stamped
    Ingress, Waits,         \* times from receive to publish, and in the queue
    MaxRecords              \* bound on the records published

NoStamp == -1

ASSUME LatencyAssumption ==
    /\ RatioOver \in Nat /\ RatioUnder \in Nat \ {0} /\ RatioOver > RatioUnder
    /\ Buckets \in Nat \ {0} /\ MaxTracked \in Nat \ {0}
    /\ Implausible \in Nat /\ MaxBackfill \in Nat /\ Interval \in Nat /\ MaxRecords \in Nat
    /\ Stage1 \subseteq Nat \cup {NoStamp} /\ Ingress \subseteq Nat /\ Waits \subseteq Nat

VARIABLES
    latSource,      \* the publisher's tracker
    latSink,        \* the subscriber's
    latFlight,      \* published and not taken: the stages the event carries
    latTaken        \* history: every record taken, with its three stages

latVars == <<latSource, latSink, latFlight, latTaken>>

--------------------------------------------------------------------------------
(* Histogram.                                                              *)

\* The ratio to the power of i is OverTo[i] / UnderTo[i].
OverTo[i \in Nat]  == IF i = 0 THEN 1 ELSE RatioOver * OverTo[i - 1]
UnderTo[i \in Nat] == IF i = 0 THEN 1 ELSE RatioUnder * UnderTo[i - 1]

\* bucket_upper: never below a value of the bucket, which is below the ratio to
\* the power of i + 1.
BucketUpper(i) == Min({MaxTracked, OverTo[i + 1] \div UnderTo[i + 1]})

\* bucket_of: the exponent of the value, rounded down.
BucketOf(value) ==
    IF value = 0 THEN 0
    ELSE IF value >= MaxTracked THEN Buckets - 1
    ELSE Max({i \in 0 .. Buckets - 1 : OverTo[i] <= value * UnderTo[i]})

EmptyHistogram ==
    [counts |-> [i \in 0 .. Buckets - 1 |-> 0], count |-> 0, sum |-> 0, min |-> 0, max |-> 0]

Observe(h, value) ==
    [counts |-> [h.counts EXCEPT ![BucketOf(value)] = @ + 1],
     count  |-> h.count + 1,
     sum    |-> h.sum + value,
     min    |-> IF h.count = 0 THEN value ELSE Min({h.min, value}),
     max    |-> Max({h.max, value})]

Overflow(h) == h.counts[Buckets - 1]

\* The rank of a percentile among count observations, from one.
Rank(percent, count) == Max({1, (percent * count + 99) \div 100})

\* merge: what was observed by both.
Merge(h, g) ==
    [counts |-> [i \in 0 .. Buckets - 1 |-> h.counts[i] + g.counts[i]],
     count  |-> h.count + g.count,
     sum    |-> h.sum + g.sum,
     min    |-> IF h.count = 0 THEN g.min ELSE IF g.count = 0 THEN h.min ELSE Min({h.min, g.min}),
     max    |-> Max({h.max, g.max})]

\* Histogram::quantile.
Quantile(h, percent) ==
    LET seen[i \in 0 .. Buckets - 1] ==
            h.counts[i] + (IF i = 0 THEN 0 ELSE seen[i - 1])
        at == Min({i \in 0 .. Buckets - 1 : seen[i] >= Rank(percent, h.count)})
    IN  IF h.count = 0 THEN 0
        ELSE IF at = Buckets - 1 /\ Overflow(h) > 0 THEN h.max ELSE BucketUpper(at)

\* mean.
MeanOf(h) == IF h.count = 0 THEN 0 ELSE h.sum \div h.count

\* summary.
Summary(h) ==
    [min |-> h.min, mean |-> MeanOf(h), p50 |-> Quantile(h, 50), p90 |-> Quantile(h, 90),
     p99 |-> Quantile(h, 99), max |-> h.max, overflow |-> Overflow(h)]

--------------------------------------------------------------------------------
(* LatencyTracker.                                                         *)

EmptyTracker ==
    [sendToRecv |-> EmptyHistogram, recvToPublish |-> EmptyHistogram,
     publishToSeen |-> EmptyHistogram, total |-> EmptyHistogram,
     stamped |-> 0, unstamped |-> 0, implausible |-> 0, last |-> 0, truncated |-> 0]

\* classify_stamp.
Usable(stage1) ==
    IF stage1 = NoStamp THEN "unstamped"
    ELSE IF stage1 < Implausible THEN "stamped" ELSE "implausible"

\* Stage 1 as a total counts it: nothing unless it is usable.
StageOne(stage1) == IF Usable(stage1) = "stamped" THEN stage1 ELSE 0

Classified(t, stage1) ==
    CASE Usable(stage1) = "stamped"   -> [t EXCEPT !.stamped = @ + 1]
      [] Usable(stage1) = "unstamped" -> [t EXCEPT !.unstamped = @ + 1]
      [] OTHER                        -> [t EXCEPT !.implausible = @ + 1]

\* record_source: stages 1 and 2, whose total is kept for the correction.
RecordSource(t, stage1, ingress) ==
    LET total == StageOne(stage1) + ingress
    IN  [Classified(t, stage1) EXCEPT
            !.recvToPublish = Observe(@, ingress),
            !.sendToRecv = IF Usable(stage1) = "stamped" THEN Observe(@, stage1) ELSE @,
            !.total = Observe(@, total),
            !.last = total]

\* A variant that counts the time the record took to come in twice.
RecordSinkTwice(t, stage1, ingress, waited) ==
    [Classified(t, stage1) EXCEPT
        !.publishToSeen = Observe(@, waited),
        !.total = Observe(@, StageOne(stage1) + StageOne(stage1) + ingress + waited)]

\* record_sink: stage 3, and the whole path.
RecordSink(t, stage1, ingress, waited) ==
    [Classified(t, stage1) EXCEPT
        !.publishToSeen = Observe(@, waited),
        !.total = Observe(@, StageOne(stage1) + ingress + waited)]

\* The samples a stall swallowed: one for each interval that still fits into
\* what is left of the total, and no more than MaxBackfill of them.
Missed(observed) ==
    {k \in 1 .. MaxBackfill : observed - k * Interval >= Interval}

\* backfill.
Backfill(t) ==
    IF Interval = 0 \/ t.last <= Interval THEN t
    ELSE LET filled[k \in 0 .. MaxBackfill] ==
                 IF k = 0 THEN t.total
                 ELSE IF k \in Missed(t.last) THEN Observe(filled[k - 1], t.last - k * Interval)
                 ELSE filled[k - 1]
         IN  [t EXCEPT
                 !.total = filled[MaxBackfill],
                 !.truncated = @ + (IF Missed(t.last) = 1 .. MaxBackfill THEN 1 ELSE 0)]

--------------------------------------------------------------------------------
(* A record on its way: the publisher and the subscriber each record once. *)

LatInit ==
    /\ latSource = EmptyTracker /\ latSink = EmptyTracker
    /\ latFlight = <<>> /\ latTaken = <<>>

\* The end of Publisher::publish, and the two durations the event carries.
LatPublish(stage1, ingress) ==
    /\ Len(latFlight) + Len(latTaken) < MaxRecords
    /\ latSource' = Backfill(RecordSource(latSource, stage1, ingress))
    /\ latFlight' = Append(latFlight, [stage1 |-> stage1, ingress |-> ingress])
    /\ UNCHANGED <<latSink, latTaken>>

\* Subscriber::try_recv.
LatTake(waited) ==
    /\ latFlight # <<>>
    /\ latSink' = RecordSink(latSink, Head(latFlight).stage1, Head(latFlight).ingress, waited)
    /\ latTaken' = Append(latTaken, [stage1  |-> Head(latFlight).stage1,
                                    ingress |-> Head(latFlight).ingress, waited |-> waited])
    /\ latFlight' = Tail(latFlight)
    /\ UNCHANGED latSource

LatNext ==
    \/ \E stage1 \in Stage1, ingress \in Ingress : LatPublish(stage1, ingress)
    \/ \E waited \in Waits : LatTake(waited)

--------------------------------------------------------------------------------
(* Properties.                                                             *)

\* How long a record took from its stamp, or from its read if that cannot be
\* told, to being published, and to the subscriber.
Own(r)      == StageOne(r.stage1) + r.ingress
EndToEnd(r) == StageOne(r.stage1) + r.ingress + r.waited

\* All that were published.
Records == latTaken \o latFlight

Total(numbers) ==
    LET sum[n \in 0 .. Len(numbers)] == IF n = 0 THEN 0 ELSE sum[n - 1] + numbers[n]
    IN  sum[Len(numbers)]

\* A histogram that is told the values in order.
Told(values) ==
    LET h[n \in 0 .. Len(values)] == IF n = 0 THEN EmptyHistogram ELSE Observe(h[n - 1], values[n])
    IN  h[Len(values)]

\* How many samples are made up for a record of this length, no more than the bound.
MadeUp(observed) ==
    Min({MaxBackfill, IF Interval = 0 THEN 0 ELSE Max({1, observed \div Interval}) - 1})

\* The true percentile of the records taken.
TruePercentile(percent) ==
    LET values == {EndToEnd(latTaken[i]) : i \in DOMAIN latTaken}
        below(v) == Cardinality({i \in DOMAIN latTaken : EndToEnd(latTaken[i]) <= v})
    IN  Min({v \in values : below(v) >= Rank(percent, Len(latTaken))})

Percents == {50, 90, 99}

\* A percentile reported by the subscriber is never below the true end-to-end
\* one, and is above it by no more than a bucket's ratio, up to the last bucket.
QuantilesBracketTruth ==
    latTaken # <<>> =>
        \A percent \in Percents :
            LET true == TruePercentile(percent)
                told == Quantile(latSink.total, percent)
            IN  /\ true <= told
                /\ \/ told * RatioUnder <= Max({true, 1}) * RatioOver
                   \/ BucketOf(true) = Buckets - 1 /\ told = latSink.total.max

\* What the subscriber's totals add up to is what the two trackers measured of
\* the stages one by one, once nothing is on its way: no stage is counted twice
\* or left out between the two of them, and both judge a stamp alike.
StagesAddUp ==
    /\ latSource.stamped + latSource.unstamped + latSource.implausible
            = latSource.recvToPublish.count
    /\ latSource.sendToRecv.count = latSource.stamped
    /\ latFlight = <<>> =>
        /\ latSink.total.sum
                = latSource.sendToRecv.sum + latSource.recvToPublish.sum + latSink.publishToSeen.sum
        /\ \A l \in {"stamped", "unstamped", "implausible"} : latSink[l] = latSource[l]

\* "The correction never invents a sample worse than the one observed"
\* (latency.rs): the publisher's total has every record's own time, no larger
\* one, and for each record no more samples made up than the bound.
CorrectionInventsNothingWorse ==
    Records # <<>> =>
        /\ latSource.total.max = Max({Own(Records[i]) : i \in DOMAIN Records})
        /\ latSource.total.sum >= latSource.sendToRecv.sum + latSource.recvToPublish.sum
        /\ latSource.total.count - Len(Records) =
                Total([i \in DOMAIN Records |-> MadeUp(Own(Records[i]))])

\* Two histograms merged are one that was told everything both were, and what a
\* summary prints is in order: the mean lies between the extremes, percentiles
\* do not fall, and none is past the bucket of the maximum, whose own value
\* stands for it in the last one.
SummariesAgree ==
    LET values == [i \in DOMAIN Records |-> Records[i].ingress]
                  \o [i \in DOMAIN latTaken |-> latTaken[i].waited]
        both   == Merge(latSource.recvToPublish, latSink.publishToSeen)
        s      == Summary(both)
    IN  /\ both = Told(values)
        /\ s.min <= s.mean /\ s.mean <= s.max
        /\ s.p50 <= s.p90 /\ s.p90 <= s.p99
        /\ s.p99 <= Max({s.max, BucketUpper(BucketOf(s.max))})
        /\ s.overflow = Cardinality({i \in DOMAIN values : BucketOf(values[i]) = Buckets - 1})

\* What a tracker reports is what it was told: quantiles, stages, correction,
\* summaries.
LatencyIsTruthful ==
    QuantilesBracketTruth /\ StagesAddUp /\ CorrectionInventsNothingWorse /\ SummariesAgree
================================================================================
