--------------------------------- MODULE Pressure -------------------------------
(***************************************************************************)
(* A subscriber's pressure state (rust/ob/src/pressure.rs): its lag is     *)
(* sampled, a state is entered at its threshold and left at half of it,    *)
(* and the time in a state is charged to it when it is left.               *)
(*                                                                         *)
(* The distribution of the lag is a histogram of Latency, left out here.   *)
(***************************************************************************)
EXTENDS Integers, Sequences, SequencesExt

CONSTANTS
    ElevatedAt,     \* elevated_ns
    SaturatedAt,    \* saturated_ns
    Lags,           \* lags a sample may see
    Uptimes,        \* what the clock may read when the subscriber is built
    Delays,         \* times between two samples
    MaxSamples      \* bound on the samples taken

ASSUME PressureAssumption ==
    /\ ElevatedAt \in Nat \ {0} /\ SaturatedAt \in Nat /\ ElevatedAt <= SaturatedAt
    /\ Lags \subseteq Nat /\ Uptimes \subseteq Nat /\ Delays \subseteq Nat

VARIABLES
    prState,        \* the state as of the last sample
    prSince,        \* state_since_ns
    prSpent,        \* time charged to each state
    prTransitions,
    prSaturations,
    prPeak,         \* the largest lag sampled
    prNow,          \* what the clock reads
    prUptime,       \* history: what it read at the start
    prLags,         \* history: the lags sampled
    prHeld          \* history: time that passed in each state

prVars == <<prState, prSince, prSpent, prTransitions, prSaturations, prPeak, prNow,
            prUptime, prLags, prHeld>>

PressureStates == {"Nominal", "Elevated", "Saturated"}

\* PressureTracker::new, at any time the clock may read.
PrInit ==
    /\ prUptime \in Uptimes
    /\ prState = "Nominal" /\ prSince = 0
    /\ prSpent = [s \in PressureStates |-> 0]
    /\ prTransitions = 0 /\ prSaturations = 0 /\ prPeak = 0
    /\ prNow = prUptime
    /\ prLags = <<>>
    /\ prHeld = [s \in PressureStates |-> 0]

\* A variant without hysteresis.
ClassifyPlain(lag) ==
    IF lag >= SaturatedAt THEN "Saturated" ELSE IF lag >= ElevatedAt THEN "Elevated" ELSE "Nominal"

\* classify: a threshold is crossed upwards at its value, downwards at half.
Classify(lag) ==
    LET saturated == IF prState = "Saturated" THEN SaturatedAt \div 2 ELSE SaturatedAt
        elevated  == IF prState = "Nominal" THEN ElevatedAt ELSE ElevatedAt \div 2
    IN  IF lag >= saturated THEN "Saturated" ELSE IF lag >= elevated THEN "Elevated" ELSE "Nominal"

\* A sample that enters Saturated.
Enters(lag) == Classify(lag) = "Saturated" /\ prState # "Saturated"

\* The time since the last change is charged to the state being left.
Charge(next) ==
    IF next = prState THEN UNCHANGED <<prSpent, prSince>>
    ELSE /\ prSpent' = [prSpent EXCEPT ![prState] = @ + (prNow' - prSince)]
         /\ prSince' = prNow'

\* sample.
PrSample(lag, delay) ==
    /\ Len(prLags) < MaxSamples
    /\ prNow' = prNow + delay
    /\ prPeak' = Max({prPeak, lag})
    /\ prState' = Classify(lag)
    /\ Charge(Classify(lag))
    /\ prTransitions' = prTransitions + (IF Classify(lag) = prState THEN 0 ELSE 1)
    /\ prSaturations' = prSaturations + (IF Enters(lag) THEN 1 ELSE 0)
    /\ prLags' = Append(prLags, lag)
    /\ prHeld' = [prHeld EXCEPT ![prState] = @ + delay]
    /\ UNCHANGED prUptime

\* close: what the last state is owed.
PrClose(delay) ==
    /\ prNow # prSince
    /\ prNow' = prNow + delay
    /\ prSpent' = [prSpent EXCEPT ![prState] = @ + (prNow' - prSince)]
    /\ prSince' = prNow'
    /\ prHeld' = [prHeld EXCEPT ![prState] = @ + delay]
    /\ UNCHANGED <<prState, prTransitions, prSaturations, prPeak, prUptime, prLags>>

\* report: what was charged to each state, all of it, and the hundredths of a
\* percent of it spent in Saturated.
Report ==
    LET total == prSpent["Nominal"] + prSpent["Elevated"] + prSpent["Saturated"]
    IN  [spent        |-> prSpent,
         total        |-> total,
         saturatedPct |-> IF total = 0 THEN 0 ELSE (prSpent["Saturated"] * 10000) \div total]

PrNext ==
    \/ \E lag \in Lags, delay \in Delays : PrSample(lag, delay)
    \/ PrClose(0)

PressureSpec == PrInit /\ [][PrNext]_prVars

--------------------------------------------------------------------------------
(* Properties.                                                             *)

\* The state is what the lags say: a state holds from a lag at its threshold to
\* the first lag below half of it, whatever came in between ("leaving a state
\* needs the lag to fall to half the threshold", pressure.rs).
Holds(threshold) ==
    \E i \in DOMAIN prLags :
        prLags[i] >= threshold /\ \A j \in i .. Len(prLags) : prLags[j] >= threshold \div 2

StateIsWhatTheLagsSay ==
    prState = IF Holds(SaturatedAt) THEN "Saturated"
              ELSE IF Holds(ElevatedAt) THEN "Elevated" ELSE "Nominal"

\* An incident is a lag at the threshold of Saturated with none before it, or
\* one below half of it since the last such lag.  Each is counted once, however
\* long it lasts and however often the threshold is met ("a measure of jitter
\* rather than of incidents", pressure.rs, is what it must not be).
IncidentsAreCounted ==
    prSaturations = Cardinality({i \in DOMAIN prLags :
        /\ prLags[i] >= SaturatedAt
        /\ \A k \in 1 .. i - 1 :
            prLags[k] >= SaturatedAt => \E j \in k .. i : prLags[j] < SaturatedAt \div 2})

\* Once closed, Elevated and Saturated have been charged the time that passed in
\* them, and Nominal its own with what the clock read when the subscriber was
\* built, which the first charge takes in: the tracker starts from zero.
TimeIsCharged ==
    prNow = prSince /\ prSince # 0 =>
        \A s \in PressureStates :
            prSpent[s] = prHeld[s] + (IF s = "Nominal" THEN prUptime ELSE 0)

\* Once closed, what a report accounts for is all the time the clock has run,
\* and the part of it in Saturated is a part.
ReportAddsUp ==
    /\ prNow = prSince => Report.total = prNow
    /\ Report.saturatedPct \in 0 .. 10000
    /\ Report.saturatedPct > 0 => prSaturations > 0

\* The state, the incidents and the time in each state follow from the samples.
PressureIsAccounted ==
    StateIsWhatTheLagsSay /\ IncidentsAreCounted /\ TimeIsCharged /\ ReportAddsUp
================================================================================
