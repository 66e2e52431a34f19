------------------------------- MODULE PartProofs --------------------------------
(***************************************************************************)
(* Theorems about Adapter, Pressure, Window, Control, Tail and Ticks,      *)
(* parts that share no state, for any watch files, thresholds, lags,       *)
(* losses, files, runs, shells, pids, tail sizes, subscribers, symbols and *)
(* times between folds.                                                    *)
(*                                                                         *)
(* The argument.  What remains to be sent of a picture is all of it, or a  *)
(* level whose reset arrived unless the connection broke in between, and   *)
(* what is sent on a broken connection arrives nowhere.                    *)
(* A pressure state holds after one more lag when that lag reaches its     *)
(* threshold, or when it held and the lag stays at half of it or above:    *)
(* the step of classify.  An incident is then begun by a lag that finds    *)
(* Saturated not holding, and by no other.  The time charged to a state    *)
(* and what it is still owed are together the time it held.                *)
(* While runs of obctl do not overlap, one shell is at work and a child is *)
(* lost, in its pid file or about to be: a start writes a file only when   *)
(* it has found no child in it, and a stop removes one only when its       *)
(* process is no child.  A stop then has behind it the lost and the stuck, *)
(* and the ready line a start sees is its own child's.                     *)
(* In a log, with what is still to be written to it, a latency line stands *)
(* behind its report line and a subscriber's behind its latency line or    *)
(* the subscriber before it, and only of a block written at a stop: so is  *)
(* every tail of it, but for the line it begins in, and what parse_report  *)
(* reads from the last start on is one block.                              *)
(* The rows of the tick table are told by its log, and stay so as the log  *)
(* grows: whether a symbol has a row is settled when it first comes; a     *)
(* record lies behind the last fold, and a fold leaves none behind itself  *)
(* and moves every rate one place further from the end.                    *)
(***************************************************************************)
EXTENDS Window, Adapter, Pressure, Control, Tail, Ticks, Lemmas

--------------------------------------------------------------------------------
(* The adapter.                                                            *)

ResetOf(s) == [symbol |-> s, kind |-> "reset"]
LevelOf(s) == [symbol |-> s, kind |-> "level"]

SideType == [reset : Nat, level : Nat]

\* What of a picture is still to go: all of it, or a level whose reset arrived if
\* the connection holds.
Remains ==
    \/ adQueue = <<>>
    \/ \E s \in Traded : adQueue = <<ResetOf(s), LevelOf(s)>>
    \/ \E s \in Traded : /\ adQueue = <<LevelOf(s)>>
                         /\ adSock = "open" => adBook[s].reset = adPicture

AdapterInv ==
    /\ adBook \in [Traded -> SideType] /\ adPicture \in Nat
    /\ adAt # "send" => adQueue = <<>>
    /\ Remains
    /\ LevelsFollowTheirReset

LEMMA AdapterInitInv == AdapterInit => AdapterInv
<1> SUFFICES ASSUME AdapterInit PROVE AdapterInv
  OBVIOUS
<1>1. adBook \in [Traded -> SideType] /\ adPicture \in Nat
  BY DEF AdapterInit, Empty, SideType
<1>2. LevelsFollowTheirReset
  BY DEF AdapterInit, Empty, LevelsFollowTheirReset
<1>3. QED
  BY <1>1, <1>2 DEF AdapterInit, AdapterInv, Remains

LEMMA SendInv == ASSUME AdapterInv, Send PROVE AdapterInv'
<1> USE DEF AdapterInv
<1>1. adPicture' = adPicture /\ adQueue # <<>> /\ adAt = "send"
  BY DEF Send
<1>2. CASE adSock = "open" /\ Arrives /\ adQueue' = Tail(adQueue) /\ UNCHANGED <<adSock, adAt, adWaited>>
  <2>1. CASE \E s \in Traded : adQueue = <<ResetOf(s), LevelOf(s)>>
    <3>1. PICK s \in Traded : adQueue = <<ResetOf(s), LevelOf(s)>>
      BY <2>1
    <3>2. adQueue' = <<LevelOf(s)>> /\ Head(adQueue) = ResetOf(s)
      BY <1>2, <3>1
    <3>3. adBook' = [adBook EXCEPT ![s] = [reset |-> adPicture, level |-> 0]]
      <4>1. Head(adQueue).symbol = s /\ Head(adQueue).kind = "reset"
        BY <3>2 DEF ResetOf
      <4>2. QED
        BY <1>2, <4>1 DEF Arrives
    <3>4. adBook' \in [Traded -> SideType]
      BY <3>3 DEF SideType
    <3>5. adBook'[s] = [reset |-> adPicture, level |-> 0]
      BY <3>3
    <3>6. LevelsFollowTheirReset'
      BY <3>3 DEF LevelsFollowTheirReset
    <3>7. Remains'
      BY <1>1, <3>2, <3>5 DEF Remains
    <3>8. QED
      BY <1>1, <1>2, <3>4, <3>6, <3>7
  <2>2. CASE \E s \in Traded : adQueue = <<LevelOf(s)>> /\ adBook[s].reset = adPicture
    <3>1. PICK s \in Traded : adQueue = <<LevelOf(s)>> /\ adBook[s].reset = adPicture
      BY <2>2
    <3>2. adQueue' = <<>> /\ Head(adQueue) = LevelOf(s)
      BY <1>2, <3>1
    <3>3. adBook' = [adBook EXCEPT ![s] = [adBook[s] EXCEPT !.level = adPicture]]
      <4>1. Head(adQueue).symbol = s /\ Head(adQueue).kind = "level"
        BY <3>2 DEF LevelOf
      <4>2. QED
        BY <1>2, <4>1 DEF Arrives
    <3>4. [adBook[s] EXCEPT !.level = adPicture] \in SideType
      BY DEF SideType
    <3>5. adBook' \in [Traded -> SideType]
      BY <3>3, <3>4
    <3>6. adBook'[s].level = adPicture /\ adBook'[s].reset = adPicture
      BY <3>1, <3>3 DEF SideType
    <3>7. LevelsFollowTheirReset'
      BY <3>3, <3>6 DEF LevelsFollowTheirReset
    <3>8. QED
      BY <1>1, <1>2, <3>2, <3>5, <3>7 DEF Remains
  <2>3. QED
    BY <1>1, <1>2, <2>1, <2>2 DEF Remains
<1>3. CASE adSock = "broken" /\ adQueue' = Tail(adQueue) /\ UNCHANGED <<adBook, adSock, adAt, adWaited>>
  <2>1. adQueue' = <<>> \/ \E s \in Traded : adQueue' = <<LevelOf(s)>>
    <3>1. CASE \E s \in Traded : adQueue = <<ResetOf(s), LevelOf(s)>>
      BY <1>3, <3>1
    <3>2. CASE \E s \in Traded : adQueue = <<LevelOf(s)>>
      BY <1>3, <3>2
    <3>3. QED
      BY <1>1, <3>1, <3>2 DEF Remains
  <2>2. QED
    BY <1>1, <1>3, <2>1 DEF Remains, LevelsFollowTheirReset
<1>4. CASE adSock = "broken" /\ adSock' = "none" /\ Sleeps /\ UNCHANGED adBook
  BY <1>1, <1>4 DEF Sleeps, Remains, LevelsFollowTheirReset
<1>5. QED
  BY <1>2, <1>3, <1>4 DEF Send

LEMMA RunLiveInv == ASSUME AdapterInv, RunLive PROVE AdapterInv'
<1> USE DEF AdapterInv
<1>1. CASE Dial \/ Subscribe \/ Between \/ Closes \/ Wakes
  <2>1. UNCHANGED <<adBook, adPicture>> /\ adQueue = <<>> /\ adQueue' = <<>>
    BY <1>1 DEF Dial, Subscribe, Between, Closes, Wakes, Sleeps
  <2>2. QED
    BY <2>1 DEF Remains, LevelsFollowTheirReset
<1>2. CASE Frame
  <2>1. adBook' = adBook /\ adAt' = "send" /\ adPicture' = (adPicture % Pictures) + 1
    BY <1>2 DEF Frame
  <2>2. adPicture' \in Nat
    BY <2>1, AdapterAssumption
  <2>3. \E s \in Traded : adQueue' = <<ResetOf(s), LevelOf(s)>>
    BY <1>2 DEF Frame, ResetOf, LevelOf
  <2>4. QED
    BY <2>1, <2>2, <2>3 DEF Remains, LevelsFollowTheirReset
<1>3. QED
  BY <1>1, <1>2, SendInv DEF RunLive

LEMMA AroundInv ==
    ASSUME AdapterInv, Tick \/ Drops \/ Returns \/ Exits \/ \E lines \in WatchFiles : Rewrite(lines)
    PROVE  AdapterInv'
<1> USE DEF AdapterInv
<1>1. CASE Drops
  <2>1. /\ UNCHANGED <<adAt, adQueue, adPicture>> /\ adSock' = "broken"
        /\ adBook' = adBook \/ adBook' = Empty
    BY <1>1 DEF Drops
  <2>2. Empty \in [Traded -> SideType] /\ \A s \in Traded : Empty[s].level = 0
    BY DEF Empty, SideType
  <2>3. LevelsFollowTheirReset'
    BY <2>1, <2>2 DEF LevelsFollowTheirReset
  <2>4. Remains'
    BY <2>1 DEF Remains
  <2>5. QED
    BY <2>1, <2>2, <2>3, <2>4
<1>2. CASE Exits
  BY <1>2 DEF Exits, Remains, LevelsFollowTheirReset
<1>3. CASE Tick \/ Returns \/ \E lines \in WatchFiles : Rewrite(lines)
  <2>1. UNCHANGED <<adAt, adQueue, adPicture, adSock, adBook>>
    BY <1>3 DEF Tick, Returns, Rewrite
  <2>2. QED
    BY <2>1 DEF Remains, LevelsFollowTheirReset
<1>4. QED
  BY <1>1, <1>2, <1>3

\* Whatever connection the adapter loses, and wherever in a picture, a level it
\* sent is of the picture whose reset cleared its side (feed_adapter.py, run_live).
THEOREM LevelsAreOfTheirPicture == AdapterSpec => []LevelsFollowTheirReset
<1>1. AdapterInv /\ [AdapterNext]_adapterVars => AdapterInv'
  <2>1. AdapterInv /\ UNCHANGED adapterVars => AdapterInv'
    BY DEF AdapterInv, Remains, LevelsFollowTheirReset, adapterVars
  <2>2. QED
    BY <2>1, RunLiveInv, AroundInv DEF AdapterNext
<1>2. AdapterInv => LevelsFollowTheirReset
  BY DEF AdapterInv
<1>3. QED
  BY <1>1, <1>2, AdapterInitInv, PTL DEF AdapterSpec

--------------------------------------------------------------------------------
(* The pressure state.                                                     *)

\* The time charged to a state, and what it is owed for the time it has been in,
\* are the time it held; the clock's first reading is in Nominal's.
Owed ==
    \A s \in PressureStates :
        prSpent[s] + (IF s = prState THEN prNow - prSince ELSE 0)
            = prHeld[s] + (IF s = "Nominal" THEN prUptime ELSE 0)

PressureTypes ==
    /\ prState \in PressureStates /\ prLags \in Seq(Nat) /\ prSaturations \in Nat
    /\ prNow \in Nat /\ prSince \in Nat /\ prUptime \in Nat
    /\ prSpent \in [PressureStates -> Nat] /\ prHeld \in [PressureStates -> Nat]

\* The time held is the time that passed, and Saturated has held no time before it
\* was entered.
Elapsed ==
    /\ prSince <= prNow
    /\ prHeld["Nominal"] + prHeld["Elevated"] + prHeld["Saturated"] + prUptime = prNow
    /\ prState = "Saturated" \/ prHeld["Saturated"] # 0 => prSaturations # 0

PressureInv == PressureTypes /\ StateIsWhatTheLagsSay /\ IncidentsAreCounted /\ Owed /\ Elapsed

\* A state holds after one more lag when that lag reaches its threshold, or when
\* it held and the lag stays at half of it or above.
LEMMA HoldsAfter ==
    ASSUME prLags \in Seq(Nat), NEW lag \in Nat, prLags' = Append(prLags, lag), NEW t \in Nat
    PROVE  Holds(t)' <=> lag >= t \/ (Holds(t) /\ lag >= t \div 2)
<1> DEFINE n == Len(prLags)
           half == t \div 2
<1>1. /\ n \in Nat /\ half \in Nat /\ half <= t
      /\ DOMAIN prLags = 1 .. n /\ DOMAIN prLags' = 1 .. n + 1 /\ Len(prLags') = n + 1
      /\ \A i \in 1 .. n : prLags[i] \in Nat /\ prLags'[i] = prLags[i]
      /\ prLags'[n + 1] = lag
  OBVIOUS
<1>2. Holds(t) <=> \E i \in 1 .. n : prLags[i] >= t /\ \A j \in i .. n : prLags[j] >= half
  BY <1>1 DEF Holds
<1>3. Holds(t)' <=>
        \E i \in 1 .. n + 1 : prLags'[i] >= t /\ \A j \in i .. n + 1 : prLags'[j] >= half
  BY <1>1 DEF Holds
<1> HIDE DEF n, half
<1>4. ASSUME lag >= t PROVE Holds(t)'
  BY <1>1, <1>3, <1>4
<1>5. ASSUME Holds(t), lag >= half PROVE Holds(t)'
  <2>1. PICK i \in 1 .. n : prLags[i] >= t /\ \A j \in i .. n : prLags[j] >= half
    BY <1>2, <1>5
  <2>2. ASSUME NEW j \in i .. n + 1 PROVE prLags'[j] >= half
    <3>1. CASE j = n + 1
      BY <1>1, <1>5, <3>1
    <3>2. CASE j # n + 1
      <4>1. j \in i .. n /\ j \in 1 .. n
        BY <1>1, <3>2
      <4>2. prLags'[j] = prLags[j] /\ prLags[j] >= half
        BY <1>1, <2>1, <4>1
      <4>3. QED
        BY <4>2
    <3>3. QED
      BY <3>1, <3>2
  <2>3. i \in 1 .. n + 1 /\ prLags'[i] >= t
    <3>1. i \in 1 .. n + 1
      BY <1>1
    <3>2. prLags'[i] = prLags[i]
      BY <1>1
    <3>3. QED
      BY <2>1, <3>1, <3>2
  <2>4. QED
    BY <1>3, <2>2, <2>3
<1>6. ASSUME Holds(t)', ~(lag >= t) PROVE Holds(t) /\ lag >= half
  <2>1. PICK i \in 1 .. n + 1 : prLags'[i] >= t /\ \A j \in i .. n + 1 : prLags'[j] >= half
    BY <1>3, <1>6
  <2>2. i \in 1 .. n
    BY <1>1, <1>6, <2>1
  <2>3. \A j \in i .. n : prLags[j] >= half
    BY <1>1, <2>1, <2>2
  <2>4. lag >= half
    BY <1>1, <2>1, <2>2
  <2>5. QED
    BY <1>1, <1>2, <2>1, <2>2, <2>3, <2>4
<1>7. QED
  BY <1>4, <1>5, <1>6 DEF half

\* What holds Saturated holds Elevated.
LEMMA HoldsDown ==
    ASSUME prLags \in Seq(Nat), PressureAssumption, Holds(SaturatedAt) PROVE Holds(ElevatedAt)
<1>1. /\ ElevatedAt \in Nat /\ SaturatedAt \in Nat
      /\ ElevatedAt <= SaturatedAt /\ ElevatedAt \div 2 <= SaturatedAt \div 2
      /\ ElevatedAt \div 2 \in Nat /\ SaturatedAt \div 2 \in Nat
  BY DEF PressureAssumption
<1>2. PICK i \in DOMAIN prLags :
        prLags[i] >= SaturatedAt /\ \A j \in i .. Len(prLags) : prLags[j] >= SaturatedAt \div 2
  BY DEF Holds
<1>3. prLags[i] >= ElevatedAt /\ \A j \in i .. Len(prLags) : prLags[j] >= ElevatedAt \div 2
  BY <1>1, <1>2
<1>4. QED
  BY <1>3 DEF Holds

LEMMA StateStep ==
    ASSUME PressureTypes, PressureAssumption, StateIsWhatTheLagsSay,
           NEW lag \in Nat, prLags' = Append(prLags, lag), prState' = Classify(lag)
    PROVE  StateIsWhatTheLagsSay'
<1>1. /\ ElevatedAt \in Nat /\ SaturatedAt \in Nat /\ ElevatedAt <= SaturatedAt
      /\ ElevatedAt \div 2 \in Nat /\ SaturatedAt \div 2 \in Nat
      /\ SaturatedAt \div 2 <= SaturatedAt /\ ElevatedAt \div 2 <= ElevatedAt
  BY DEF PressureAssumption
<1>2. /\ Holds(SaturatedAt)' <=> lag >= SaturatedAt \/ (Holds(SaturatedAt) /\ lag >= SaturatedAt \div 2)
      /\ Holds(ElevatedAt)' <=> lag >= ElevatedAt \/ (Holds(ElevatedAt) /\ lag >= ElevatedAt \div 2)
      /\ Holds(SaturatedAt) => Holds(ElevatedAt)
  BY <1>1, HoldsAfter, HoldsDown DEF PressureTypes
<1> DEFINE S == SaturatedAt
           E == ElevatedAt
           hS == S \div 2
           hE == E \div 2
<1>3. prState' = IF lag >= (IF prState = "Saturated" THEN hS ELSE S) THEN "Saturated"
                 ELSE IF lag >= (IF prState = "Nominal" THEN E ELSE hE) THEN "Elevated"
                 ELSE "Nominal"
  BY DEF Classify
<1>4. prState = IF Holds(S) THEN "Saturated" ELSE IF Holds(E) THEN "Elevated" ELSE "Nominal"
  BY DEF StateIsWhatTheLagsSay
<1>5. prState' = IF Holds(S)' THEN "Saturated" ELSE IF Holds(E)' THEN "Elevated" ELSE "Nominal"
  <2> HIDE DEF S, E, hS, hE
  <2>1. /\ S \in Nat /\ E \in Nat /\ E <= S /\ hE \in Nat /\ hS \in Nat /\ hS <= S /\ hE <= E
        /\ Holds(S)' <=> lag >= S \/ (Holds(S) /\ lag >= hS)
        /\ Holds(E)' <=> lag >= E \/ (Holds(E) /\ lag >= hE)
        /\ Holds(S) => Holds(E)
    BY <1>1, <1>2 DEF S, E, hS, hE
  <2>2. CASE Holds(S)
    BY <1>3, <1>4, <2>1, <2>2
  <2>3. CASE ~Holds(S) /\ Holds(E)
    BY <1>3, <1>4, <2>1, <2>3
  <2>4. CASE ~Holds(S) /\ ~Holds(E)
    BY <1>3, <1>4, <2>1, <2>4
  <2>5. QED
    BY <2>2, <2>3, <2>4
<1>6. QED
  BY <1>5 DEF StateIsWhatTheLagsSay

\* The lags that begin an incident.
Crossings == {i \in DOMAIN prLags :
            /\ prLags[i] >= SaturatedAt
            /\ \A k \in 1 .. i - 1 :
                prLags[k] >= SaturatedAt => \E j \in k .. i : prLags[j] < SaturatedAt \div 2}

LEMMA IncidentStep ==
    ASSUME PressureTypes, PressureAssumption, StateIsWhatTheLagsSay, IncidentsAreCounted,
           NEW lag \in Nat, prLags' = Append(prLags, lag),
           prSaturations' = prSaturations + (IF Enters(lag) THEN 1 ELSE 0)
    PROVE  IncidentsAreCounted'
<1> DEFINE n == Len(prLags)
           half == SaturatedAt \div 2
<1>1. /\ n \in Nat /\ half \in Nat /\ SaturatedAt \in Nat /\ half <= SaturatedAt
      /\ DOMAIN prLags = 1 .. n /\ DOMAIN prLags' = 1 .. n + 1
      /\ \A i \in 1 .. n : prLags[i] \in Nat /\ prLags'[i] = prLags[i]
      /\ prLags'[n + 1] = lag /\ Len(prLags) = n
  BY DEF PressureTypes, PressureAssumption
<1>2. Enters(lag) <=> lag >= SaturatedAt /\ ~Holds(SaturatedAt)
  BY <1>1 DEF Enters, Classify, StateIsWhatTheLagsSay
<1>3. Holds(SaturatedAt) <=>
        \E i \in 1 .. n : prLags[i] >= SaturatedAt /\ \A j \in i .. n : prLags[j] >= half
  BY <1>1 DEF Holds
<1> HIDE DEF n, half
<1>4. Crossings = {i \in 1 .. n :
                 /\ prLags[i] >= SaturatedAt
                 /\ \A k \in 1 .. i - 1 :
                     prLags[k] >= SaturatedAt => \E j \in k .. i : prLags[j] < half}
  BY <1>1 DEF Crossings, half
<1>5. Crossings' = {i \in 1 .. n + 1 :
                  /\ prLags'[i] >= SaturatedAt
                  /\ \A k \in 1 .. i - 1 :
                      prLags'[k] >= SaturatedAt => \E j \in k .. i : prLags'[j] < half}
  BY <1>1 DEF Crossings, half
<1>6. \A i \in 1 .. n : i \in Crossings' <=> i \in Crossings
  <2> SUFFICES ASSUME NEW i \in 1 .. n PROVE i \in Crossings' <=> i \in Crossings
    OBVIOUS
  <2>1. \A j \in 1 .. i : prLags'[j] = prLags[j] /\ j \in 1 .. n
    BY <1>1
  <2>2. i \in Crossings <=> /\ prLags[i] >= SaturatedAt
                         /\ \A k \in 1 .. i - 1 :
                             prLags[k] >= SaturatedAt => \E j \in k .. i : prLags[j] < half
    BY <1>4
  <2>3. i \in Crossings' <=> /\ prLags'[i] >= SaturatedAt
                          /\ \A k \in 1 .. i - 1 :
                              prLags'[k] >= SaturatedAt => \E j \in k .. i : prLags'[j] < half
    <3>1. i \in 1 .. n + 1
      BY <1>1
    <3>2. QED
      BY <1>5, <3>1
  <2>4. ASSUME NEW k \in 1 .. i - 1
        PROVE  /\ prLags'[k] = prLags[k]
               /\ (\E j \in k .. i : prLags'[j] < half) <=> (\E j \in k .. i : prLags[j] < half)
    <3>1. k \in 1 .. i /\ k .. i \subseteq 1 .. i
      BY <1>1
    <3>2. QED
      BY <2>1, <3>1
  <2>5. prLags'[i] = prLags[i]
    BY <1>1
  <2>6. QED
    BY <2>2, <2>3, <2>4, <2>5
<1>7. n + 1 \in Crossings' <=> Enters(lag)
  <2>1. ASSUME lag >= SaturatedAt
        PROVE  (\A k \in 1 .. n : prLags'[k] >= SaturatedAt => \E j \in k .. n + 1 : prLags'[j] < half)
                 <=> ~Holds(SaturatedAt)
    <3>1. ~(lag < half)
      BY <1>1, <2>1
    <3>2. \A k \in 1 .. n : (\E j \in k .. n + 1 : prLags'[j] < half)
                                <=> ~(\A j \in k .. n : prLags[j] >= half)
      BY <1>1, <3>1
    <3>3. QED
      BY <1>1, <1>3, <3>2
  <2>2. (n + 1) - 1 = n /\ n + 1 \in 1 .. n + 1
    BY <1>1
  <2>3. n + 1 \in Crossings' <=>
          /\ lag >= SaturatedAt
          /\ \A k \in 1 .. n :
              prLags'[k] >= SaturatedAt => \E j \in k .. n + 1 : prLags'[j] < half
    <3>1. n + 1 \in Crossings' <=>
            /\ prLags'[n + 1] >= SaturatedAt
            /\ \A k \in 1 .. (n + 1) - 1 :
                prLags'[k] >= SaturatedAt => \E j \in k .. n + 1 : prLags'[j] < half
      BY <1>5, <2>2, Zenon
    <3>2. prLags'[n + 1] = lag
      BY <1>1
    <3>3. QED
      BY <2>2, <3>1, <3>2, Zenon
  <2>4. QED
    BY <1>2, <2>1, <2>3
<1>8. Crossings' = IF Enters(lag) THEN Crossings \cup {n + 1} ELSE Crossings
  <2>1. Crossings' \subseteq 1 .. n + 1 /\ Crossings \subseteq 1 .. n
    BY <1>4, <1>5
  <2>2. 1 .. n + 1 = (1 .. n) \cup {n + 1}
    BY <1>1
  <2>3. \A i : i \in Crossings' <=> i \in Crossings \/ (i = n + 1 /\ Enters(lag))
    <3>1. n + 1 \notin 1 .. n
      BY <1>1
    <3>2. QED
      BY <1>6, <1>7, <2>1, <2>2, <3>1, Zenon
  <2>4. CASE Enters(lag)
    <3>1. Crossings' = Crossings \cup {n + 1}
      BY <2>3, <2>4, Zenon
    <3>2. QED
      BY <2>4, <3>1
  <2>5. CASE ~Enters(lag)
    <3>1. Crossings' = Crossings
      BY <2>3, <2>5, Zenon
    <3>2. QED
      BY <2>5, <3>1
  <2>6. QED
    BY <2>4, <2>5
<1>9. IsFiniteSet(Crossings) /\ n + 1 \notin Crossings
  <2>1. IsFiniteSet(1 .. n)
    BY <1>1, FS_Interval
  <2>2. QED
    BY <1>1, <1>4, <2>1, FS_Subset
<1>10. Cardinality(Crossings') = Cardinality(Crossings) + (IF Enters(lag) THEN 1 ELSE 0)
  <2>1. Cardinality(Crossings) \in Nat
    BY <1>9, FS_CardinalityType
  <2>2. Cardinality(Crossings \cup {n + 1}) = Cardinality(Crossings) + 1
    BY <1>9, FS_AddElement
  <2>3. QED
    BY <1>8, <2>1, <2>2
<1>11. QED
  BY <1>10 DEF IncidentsAreCounted, Crossings

LEMMA SampleInv ==
    ASSUME PressureInv, PressureAssumption, NEW lag \in Lags, NEW delay \in Delays,
           PrSample(lag, delay)
    PROVE  PressureInv'
<1> USE DEF PressureInv
<1>1. lag \in Nat /\ delay \in Nat
  BY DEF PressureAssumption
<1>2. /\ prLags' = Append(prLags, lag) /\ prState' = Classify(lag) /\ prUptime' = prUptime
      /\ prSaturations' = prSaturations + (IF Enters(lag) THEN 1 ELSE 0)
      /\ prNow' = prNow + delay /\ Charge(Classify(lag))
      /\ prHeld' = [prHeld EXCEPT ![prState] = prHeld[prState] + delay]
  BY DEF PrSample
<1>3. StateIsWhatTheLagsSay' /\ IncidentsAreCounted'
  BY <1>1, <1>2, StateStep, IncidentStep
<1>4. PressureTypes'
  <2>1. Classify(lag) \in PressureStates
    BY DEF Classify, PressureStates
  <2>2. prNow' \in Nat /\ prSince' \in Nat /\ prSpent' \in [PressureStates -> Nat]
    <3>1. /\ prNow \in Nat /\ prSince \in Nat /\ prSince <= prNow
          /\ prNow' \in Nat /\ prNow' - prSince \in Nat
      BY <1>1, <1>2 DEF PressureTypes, Elapsed
    <3>2. prSpent[prState] + (prNow' - prSince) \in Nat
      <4>1. prSpent[prState] \in Nat
        BY DEF PressureTypes
      <4> DEFINE m == prSpent[prState]
                 d == prNow' - prSince
      <4>2. m \in Nat /\ d \in Nat
        BY <3>1, <4>1
      <4> HIDE DEF m, d
      <4>3. m + d \in Nat
        BY <4>2
      <4>4. QED
        BY <4>3 DEF m, d
    <3>3. QED
      BY <1>2, <3>1, <3>2 DEF PressureTypes, Charge
  <2>3. prHeld' \in [PressureStates -> Nat] /\ prSaturations' \in Nat /\ prLags' \in Seq(Nat)
    BY <1>1, <1>2 DEF PressureTypes
  <2>4. QED
    BY <1>2, <2>1, <2>2, <2>3 DEF PressureTypes
<1>5. Owed'
  <2> SUFFICES ASSUME NEW s \in PressureStates
               PROVE  prSpent'[s] + (IF s = prState' THEN prNow' - prSince' ELSE 0)
                        = prHeld'[s] + (IF s = "Nominal" THEN prUptime' ELSE 0)
    BY DEF Owed
  <2>1. prSpent[s] + (IF s = prState THEN prNow - prSince ELSE 0)
          = prHeld[s] + (IF s = "Nominal" THEN prUptime ELSE 0)
    BY DEF Owed
  <2>2. /\ prSpent[s] \in Int /\ prHeld[s] \in Int /\ prNow \in Nat /\ prSince \in Nat /\ prUptime \in Nat
        /\ prHeld'[s] = IF s = prState THEN prHeld[s] + delay ELSE prHeld[s]
    BY <1>2 DEF PressureTypes
  <2>3. CASE prState' = prState
    <3>1. prSpent'[s] = prSpent[s] /\ prSince' = prSince
      BY <1>2, <2>3 DEF Charge
    <3>2. prNow' = prNow + delay /\ prUptime' = prUptime
      BY <1>2
    <3>3. CASE s = prState
      <4>1. /\ prSpent[s] + (prNow - prSince) = prHeld[s] + (IF s = "Nominal" THEN prUptime ELSE 0)
            /\ prHeld'[s] = prHeld[s] + delay
        BY <2>1, <2>2, <3>3
      <4>2. QED
        BY <1>1, <2>2, <2>3, <3>1, <3>2, <3>3, <4>1
    <3>4. CASE s # prState
      BY <2>1, <2>2, <2>3, <3>1, <3>2, <3>4
    <3>5. QED
      BY <3>3, <3>4
  <2>4. CASE prState' # prState
    <3>1. prSince' = prNow' /\ prSpent' = [prSpent EXCEPT ![prState] = prSpent[prState] + (prNow' - prSince)]
      BY <1>2, <2>4 DEF Charge
    <3>2. prSpent'[s] = IF s = prState THEN prSpent[s] + (prNow' - prSince) ELSE prSpent[s]
      BY <3>1 DEF PressureTypes
    <3>3. prNow' \in Int /\ prNow' - prSince' = 0 /\ prNow' = prNow + delay
      BY <1>1, <1>2, <2>2, <3>1
    <3>4. prSpent'[s] = prHeld'[s] + (IF s = "Nominal" THEN prUptime ELSE 0)
      <4>1. CASE s = prState
        <5>1. /\ prSpent'[s] = prSpent[s] + (prNow' - prSince) /\ prHeld'[s] = prHeld[s] + delay
              /\ prSpent[s] + (prNow - prSince)
                   = prHeld[s] + (IF s = "Nominal" THEN prUptime ELSE 0)
          BY <2>1, <2>2, <3>2, <4>1
        <5>2. QED
          BY <1>1, <2>2, <3>3, <5>1
      <4>2. CASE s # prState
        <5>1. prSpent'[s] = prSpent[s] /\ prHeld'[s] = prHeld[s] /\ prSpent[s] + 0
                = prHeld[s] + (IF s = "Nominal" THEN prUptime ELSE 0)
          BY <2>1, <2>2, <3>2, <4>2
        <5>2. QED
          BY <2>2, <5>1
      <4>3. QED
        BY <4>1, <4>2
    <3>5. prSpent'[s] \in Int
      BY <2>2, <3>2, <3>3
    <3>6. QED
      BY <1>2, <3>3, <3>4, <3>5
  <2>5. QED
    BY <2>3, <2>4
<1>6. Elapsed'
  <2>1. /\ prHeld["Nominal"] \in Nat /\ prHeld["Elevated"] \in Nat /\ prHeld["Saturated"] \in Nat
        /\ prUptime \in Nat /\ prNow \in Nat /\ prSaturations \in Nat /\ prSince \in Nat
        /\ prState \in {"Nominal", "Elevated", "Saturated"}
        /\ \A s \in {"Nominal", "Elevated", "Saturated"} :
            prHeld'[s] = IF s = prState THEN prHeld[s] + delay ELSE prHeld[s]
    BY <1>2 DEF PressureTypes, PressureStates
  <2>2. prSince' <= prNow'
    BY <1>1, <1>2, <2>1 DEF Charge, Elapsed
  <2>3. prHeld'["Nominal"] + prHeld'["Elevated"] + prHeld'["Saturated"] + prUptime' = prNow'
    <3>1. /\ prHeld["Nominal"] + prHeld["Elevated"] + prHeld["Saturated"] + prUptime = prNow
          /\ prUptime' = prUptime /\ prNow' = prNow + delay
      BY <1>2 DEF Elapsed
    <3>2. CASE prState = "Nominal"
      BY <1>1, <2>1, <3>1, <3>2
    <3>3. CASE prState = "Elevated"
      BY <1>1, <2>1, <3>1, <3>3
    <3>4. CASE prState = "Saturated"
      BY <1>1, <2>1, <3>1, <3>4
    <3>5. QED
      BY <2>1, <3>2, <3>3, <3>4
  <2>4. prState' = "Saturated" \/ prHeld'["Saturated"] # 0 => prSaturations' # 0
    BY <1>1, <1>2, <2>1 DEF Elapsed, Enters
  <2>5. QED
    BY <2>2, <2>3, <2>4 DEF Elapsed
<1>7. QED
  BY <1>3, <1>4, <1>5, <1>6

LEMMA CloseInv == ASSUME PressureInv, PrClose(0) PROVE PressureInv'
<1> USE DEF PressureInv, PressureTypes
<1>1. /\ UNCHANGED <<prState, prLags, prSaturations, prUptime>> /\ prNow' = prNow /\ prSince' = prNow
      /\ prSpent' = [prSpent EXCEPT ![prState] = prSpent[prState] + (prNow - prSince)]
      /\ prHeld' = [prHeld EXCEPT ![prState] = prHeld[prState] + 0]
  BY DEF PrClose
<1>2. StateIsWhatTheLagsSay' /\ IncidentsAreCounted'
  BY <1>1 DEF StateIsWhatTheLagsSay, IncidentsAreCounted, Holds
<1>3. \A s \in PressureStates :
        /\ prSpent'[s] = IF s = prState THEN prSpent[s] + (prNow - prSince) ELSE prSpent[s]
        /\ prHeld'[s] = prHeld[s]
  BY <1>1
<1>4. Owed'
  BY <1>1, <1>3 DEF Owed
<1>5. Elapsed'
  BY <1>1, <1>3 DEF Elapsed, PressureStates
<1>6. prSpent' \in [PressureStates -> Nat] /\ prHeld' \in [PressureStates -> Nat]
  <2>1. prNow - prSince \in Nat
    BY DEF Elapsed
  <2>2. prSpent[prState] + (prNow - prSince) \in Nat /\ prHeld[prState] + 0 \in Nat
    BY <2>1
  <2>3. QED
    BY <1>1, <2>2
<1>7. QED
  BY <1>1, <1>2, <1>4, <1>5, <1>6

LEMMA PressureInitInv == ASSUME PressureAssumption, PrInit PROVE PressureInv
<1>1. PressureTypes
  BY DEF PrInit, PressureTypes, PressureStates, PressureAssumption
<1>2. DOMAIN prLags = {}
  BY DEF PrInit
<1>3. StateIsWhatTheLagsSay
  BY <1>2 DEF PrInit, StateIsWhatTheLagsSay, Holds
<1>4. IncidentsAreCounted
  <2>1. Crossings = {}
    BY <1>2 DEF Crossings
  <2>2. Cardinality(Crossings) = 0
    BY <2>1, FS_EmptySet
  <2>3. QED
    BY <2>2 DEF PrInit, IncidentsAreCounted, Crossings
<1>5. Owed
  BY <1>1 DEF PrInit, Owed, PressureTypes, PressureStates
<1>6. Elapsed
  BY <1>1 DEF PrInit, Elapsed, PressureTypes, PressureStates
<1>7. QED
  BY <1>1, <1>3, <1>4, <1>5, <1>6 DEF PressureInv

\* What a report accounts for is the clock, and no part of it is more than all.
LEMMA ReportHolds == ASSUME PressureInv PROVE ReportAddsUp
<1> DEFINE n == prSpent["Nominal"]
           e == prSpent["Elevated"]
           s == prSpent["Saturated"]
           total == n + e + s
           pct == (s * 10000) \div total
<1>1. n \in Nat /\ e \in Nat /\ s \in Nat /\ prNow \in Nat /\ prSince \in Nat /\ prUptime \in Nat
  BY DEF PressureInv, PressureTypes, PressureStates
<1>2. prNow = prSince => total = prNow
  BY SMTT(60), <1>1 DEF PressureInv, PressureTypes, PressureStates, Owed, Elapsed
<1>3. s # 0 => prSaturations \in Nat \ {0}
  <2>1. /\ s + (IF "Saturated" = prState THEN prNow - prSince ELSE 0) = prHeld["Saturated"]
        /\ prHeld["Saturated"] \in Nat /\ prSaturations \in Nat
    BY DEF PressureInv, PressureTypes, PressureStates, Owed
  <2>2. QED
    BY <1>1, <2>1 DEF PressureInv, Elapsed
<1>4. /\ Report.total = total
      /\ Report.saturatedPct = IF total = 0 THEN 0 ELSE pct
  BY DEF Report
<1>5. ASSUME total # 0 PROVE pct \in 0 .. 10000 /\ (s = 0 => pct = 0)
  <2> DEFINE c == total
             a == s * 10000
  <2>1. c \in Nat \ {0} /\ a \in Nat /\ s <= c /\ (s = 0 => a = 0)
    BY <1>1, <1>5
  <2>2. a <= c * 10000
    BY <1>1, <2>1
  <2>3. a \div c \in Int /\ a = c * (a \div c) + (a % c) /\ a % c \in 0 .. c - 1
    <3>1. a \in Int
      BY <2>1
    <3> HIDE DEF a, c
    <3>2. QED
      BY <2>1, <3>1, Division, SlotInRange
  <2> DEFINE q == a \div c
             r == a % c
  <2>4. pct = q
    OBVIOUS
  <2> HIDE DEF c, a, q, r, pct, total, s, n, e
  <2>5. q \in Int /\ r \in 0 .. c - 1 /\ a = c * q + r
    BY <2>3 DEF q, r
  <2>6. q >= 0
    <3>1. SUFFICES ASSUME -q >= 1 PROVE FALSE
      BY <2>5
    <3>2. c * (-q) >= c /\ c * (-q) = -(c * q)
      BY <2>1, <2>5, <3>1, MulBound
    <3>3. QED
      BY <2>1, <2>5, <3>2
  <2>7. q <= 10000
    <3>1. SUFFICES ASSUME q - 10000 >= 1 PROVE FALSE
      BY <2>5
    <3>2. c * (q - 10000) >= c /\ c * (q - 10000) = c * q - c * 10000
      BY <2>1, <2>5, <3>1, MulBound
    <3>3. QED
      BY <2>1, <2>2, <2>5, <3>2
  <2>8. ASSUME a = 0 PROVE q = 0
    <3>1. SUFFICES ASSUME q >= 1 PROVE FALSE
      BY <2>5, <2>6
    <3>2. c * q >= c
      BY <2>1, <2>5, <3>1, MulBound
    <3>3. QED
      BY <2>1, <2>5, <2>8, <3>2
  <2>9. QED
    BY SMTT(60), <2>1, <2>4, <2>5, <2>6, <2>7, <2>8
<1> HIDE DEF n, e, s, total, pct
<1>6. Report.saturatedPct \in 0 .. 10000 /\ (Report.saturatedPct > 0 => s # 0)
  BY <1>4, <1>5
<1>7. QED
  BY <1>2, <1>3, <1>4, <1>6 DEF ReportAddsUp

\* The state, the incidents counted and the time charged to each state are what
\* the samples give, by their definitions over all of them (pressure.rs, sample).
THEOREM PressureFollowsTheLags == PressureSpec => []PressureIsAccounted
<1>1. PrInit => PressureInv
  BY PressureInitInv, PressureAssumption
<1>2. PressureInv /\ [PrNext]_prVars => PressureInv'
  <2>1. ASSUME PressureInv, UNCHANGED prVars PROVE PressureInv'
    BY <2>1 DEF prVars, PressureInv, PressureTypes, StateIsWhatTheLagsSay, Holds, IncidentsAreCounted, Owed,
              Elapsed
  <2>2. QED
    BY <2>1, SampleInv, CloseInv, PressureAssumption DEF PrNext
<1>3. PressureInv => PressureIsAccounted
  <2> SUFFICES ASSUME PressureInv PROVE TimeIsCharged
    BY ReportHolds DEF PressureInv, PressureIsAccounted
  <2>1. QED
    BY DEF PressureInv, PressureTypes, Owed, TimeIsCharged, PressureStates
<1>4. QED
  BY <1>1, <1>2, <1>3, PTL DEF PressureSpec
--------------------------------------------------------------------------------
(* Process control.                                                        *)

USE ControlAssumption

Asking == {"ask", "signal", "wait", "forget"}
Stages == Ended \cup Asking \cup {"check", "port", "spawn", "record", "await"}

ProcType ==
    [kind : Names \cup {"none", "other"}, runs : BOOLEAN, told : BOOLEAN, term : BOOLEAN,
     link : Pids \cup {0}, by : Ctls \cup {"init"}]

RunType ==
    [at : Stages, name : Names, pid : Pids \cup {0}, heard : BOOLEAN, rollback : BOOLEAN,
     mine : SUBSET Pids, stuck : SUBSET Pids]

ControlType ==
    /\ coProc \in [Pids -> ProcType] /\ coFile \in [Names -> Pids \cup {0}]
    /\ coCtl \in [Ctls -> RunType]
    /\ coLost \subseteq Pids /\ coEverLost \in BOOLEAN /\ coOverlap \in BOOLEAN
    /\ coLost # {} => coEverLost
    /\ \A c \in Ctls : coCtl[c].at \in {"record", "await", "signal", "wait"} => coCtl[c].pid \in Pids

\* An adapter is what has a connection, what runs has a kind, and what is about
\* to be sent SIGTERM belongs to the lab.
LinkOfAdapter == \A p \in Pids : coProc[p].link # 0 => coProc[p].kind = "adapter"
RunsHaveKind == \A p \in Pids : Running(p) => Alive(p)
SignalIsSafe == \A c \in Ctls : coCtl[c].at = "signal" => coProc[coCtl[c].pid].kind # "other"

\* While no two runs overlapped, one shell at most has a run to show.
OneAtWork == \A c, d \in Ctls : coCtl[c].at # "idle" /\ coCtl[d].at # "idle" => c = d

\* The pid file of the name that a run waits for or stops names the pid it has,
\* and a file that is about to be removed names no child of the name.
Filed(c) ==
    /\ coCtl[c].at \in {"await", "signal", "wait"} => coFile[coCtl[c].name] = coCtl[c].pid
    /\ coCtl[c].at = "forget" /\ coFile[coCtl[c].name] # 0 => ~Owns(coFile[coCtl[c].name], coCtl[c].name)

\* A run that has a child p and has not written its pid file yet.
Recording(c, p, n) == coCtl[c].at = "record" /\ coCtl[c].pid = p /\ coCtl[c].name = n

\* No child is in n's pid file but the one whose file is about to be written.
Clear(c, n) == coFile[n] # 0 /\ Owns(coFile[n], n) => Recording(c, coFile[n], n)

\* How far a start has come with its refusals: past the daemon's pid file, past
\* the adapter's, and with nothing started yet.
NoDaemon(c) ==
    \/ coCtl[c].at = "check" /\ coCtl[c].name = "adapter"
    \/ coCtl[c].at = "port"
    \/ coCtl[c].at \in {"spawn", "record"} /\ coCtl[c].name = "feedd"

NoAdapter(c) ==
    \/ coCtl[c].at \in {"port", "spawn", "record"}
    \/ coCtl[c].at = "await" /\ coCtl[c].name = "feedd"

Fresh(c) ==
    \/ coCtl[c].at \in {"check", "port"}
    \/ coCtl[c].at = "spawn" /\ coCtl[c].name = "feedd"

Checked(c) ==
    /\ NoDaemon(c) => Clear(c, "feedd")
    /\ NoAdapter(c) => Clear(c, "adapter")
    /\ Fresh(c) => coCtl[c].mine = {}

\* Every child is lost, or in its pid file, or about to be.
Found ==
    \A p \in Pids, n \in Names : Owns(p, n) =>
        p \in coLost \/ coFile[n] = p \/ \E c \in Ctls : Recording(c, p, n)

\* What a start waits for is of the kind it is waiting for.
OfItsKind(c) ==
    coCtl[c].at \in {"record", "await"} =>
        \A n \in Names : Owns(coCtl[c].pid, n) => n = coCtl[c].name

\* What a run that stops the lab has behind it of name n: the lost, and the stuck.
Leaves(c, n) == \A p \in Pids : Owns(p, n) => p \in coLost \cup coCtl[c].stuck

Over(c) ==
    \/ coCtl[c].at \in {"stopped", "stuck"}
    \/ coCtl[c].at = "refused" /\ coCtl[c].mine # {}

Stopping(c) ==
    /\ coCtl[c].at \in Asking /\ coCtl[c].name = "feedd" => Leaves(c, "adapter")
    /\ Over(c) => \A n \in Names : Leaves(c, n)
    /\ coCtl[c].at = "stopped" => coCtl[c].stuck = {}

\* While none was ever lost, what a start has started has said that it is ready,
\* but for the child it is waiting for and has not heard.
Answered(c) ==
    ~coEverLost /\ coCtl[c].at \in {"spawn", "record", "await", "started"} =>
        \A p \in coCtl[c].mine, n \in Names : Owns(p, n) =>
            \/ coProc[p].told
            \/ coCtl[c].at \in {"record", "await"} /\ p = coCtl[c].pid /\ ~coCtl[c].heard

Well(c) == Filed(c) /\ Checked(c) /\ OfItsKind(c) /\ Stopping(c) /\ Answered(c)

Orderly == OneAtWork /\ Found /\ \A c \in Ctls : Well(c)

Decent == LinkOfAdapter /\ RunsHaveKind /\ SignalIsSafe /\ StrangersAreLeftAlone

Accounts == ControlType /\ Decent /\ (~coOverlap => Orderly)

\* The run of c is now run, and no other run has changed.
Moved(c, now) ==
    /\ coCtl' \in [Ctls -> RunType] /\ coCtl'[c] = now
    /\ \A d \in Ctls : d # c => coCtl'[d] = coCtl[d]

LEMMA MovesOne ==
    ASSUME coCtl \in [Ctls -> RunType], NEW c \in Ctls, NEW now \in RunType, Moves(c, now)
    PROVE  Moved(c, now)
BY DEF Moves, Moved

LEMMA StagesAre ==
    /\ {"idle", "started", "refused", "stopped", "stuck", "check", "port", "spawn", "record", "await"}
            \subseteq Stages
    /\ Asking \subseteq Stages /\ {"ask", "signal", "wait", "forget"} \subseteq Stages
    /\ {"feedd", "adapter"} = Names
BY DEF Stages, Ended, Asking, Names

\* A run stays one whatever a step writes into it.
LEMMA RunsChange ==
    ASSUME NEW r \in RunType, NEW at \in Stages, NEW name \in Names, NEW stuck \in SUBSET Pids
    PROVE  /\ [r EXCEPT !.name = name] \in RunType
           /\ [r EXCEPT !.at = at, !.name = name] \in RunType
           /\ [r EXCEPT !.at = at, !.name = name, !.rollback = TRUE] \in RunType
           /\ [r EXCEPT !.at = at, !.name = name, !.stuck = stuck] \in RunType
           /\ [r EXCEPT !.stuck = stuck, !.at = at] \in RunType
           /\ \A p \in Pids : /\ [r EXCEPT !.pid = p, !.at = at] \in RunType
                              /\ [r EXCEPT !.at = at, !.pid = p, !.heard = FALSE, !.mine = @ \cup {p}]
                                    \in RunType
BY DEF RunType

\* And so does a process.
LEMMA ProcessesChange ==
    ASSUME NEW proc \in ProcType
    PROVE  /\ [proc EXCEPT !.term = TRUE] \in ProcType /\ [proc EXCEPT !.told = TRUE] \in ProcType
           /\ [proc EXCEPT !.runs = FALSE, !.told = FALSE, !.link = 0] \in ProcType
BY DEF ProcType

LEMMA GoesTo ==
    ASSUME coCtl \in [Ctls -> RunType], NEW c \in Ctls, NEW at \in Stages, Goes(c, at)
    PROVE  Moved(c, [coCtl[c] EXCEPT !.at = at])
<1>1. [coCtl[c] EXCEPT !.at = at] \in RunType
  BY DEF RunType
<1> QED BY <1>1, MovesOne DEF Goes

LEMMA GoesOnward ==
    ASSUME coCtl \in [Ctls -> RunType], NEW c \in Ctls, NEW stuck \in SUBSET Pids, Onward(c, stuck)
    PROVE  /\ coCtl[c].name = "adapter" =>
                Moved(c, [coCtl[c] EXCEPT !.at = "ask", !.name = "feedd", !.stuck = stuck])
           /\ coCtl[c].name # "adapter" =>
                Moved(c, [coCtl[c] EXCEPT !.stuck = stuck,
                                          !.at = IF coCtl[c].rollback THEN "refused"
                                                 ELSE IF stuck = {} THEN "stopped" ELSE "stuck"])
<1> DEFINE next == [coCtl[c] EXCEPT !.at = "ask", !.name = "feedd", !.stuck = stuck]
           last == [coCtl[c] EXCEPT !.stuck = stuck,
                                    !.at = IF coCtl[c].rollback THEN "refused"
                                           ELSE IF stuck = {} THEN "stopped" ELSE "stuck"]
<1>1. next \in RunType /\ last \in RunType
  <2>1. (IF coCtl[c].rollback THEN "refused" ELSE IF stuck = {} THEN "stopped" ELSE "stuck") \in Stages
    BY StagesAre
  <2> QED BY <2>1, StagesAre, RunsChange
<1> QED BY <1>1, MovesOne DEF Onward

\* What each step makes of the run that takes it.
LEMMA CheckPidMoves ==
    ASSUME ControlType, NEW c \in Ctls, CheckPid(c)
    PROVE  \/ Tracked(coCtl[c].name) /\ Moved(c, [coCtl[c] EXCEPT !.at = "refused"])
           \/ /\ ~Tracked(coCtl[c].name) /\ coCtl[c].name = "feedd"
              /\ Moved(c, [coCtl[c] EXCEPT !.name = "adapter"])
           \/ /\ ~Tracked(coCtl[c].name) /\ coCtl[c].name = "adapter"
              /\ Moved(c, [coCtl[c] EXCEPT !.at = "port"])
<1> USE DEF CheckPid
<1>1. coCtl \in [Ctls -> RunType] /\ coCtl[c] \in RunType /\ coCtl[c].name \in Names
  BY DEF ControlType, RunType
<1>2. CASE Tracked(coCtl[c].name)
  BY <1>1, <1>2, GoesTo DEF Stages, Ended
<1>3. CASE ~Tracked(coCtl[c].name) /\ coCtl[c].name = "feedd"
  <2>1. [coCtl[c] EXCEPT !.name = "adapter"] \in RunType
    BY <1>1 DEF RunType, Names
  <2> QED BY <1>1, <1>3, <2>1, MovesOne
<1>4. CASE ~Tracked(coCtl[c].name) /\ coCtl[c].name # "feedd"
  <2>1. Goes(c, "port") /\ coCtl[c].name = "adapter"
    BY <1>1, <1>4 DEF Names
  <2> QED BY <1>1, <1>4, <2>1, GoesTo DEF Stages
<1> QED BY <1>2, <1>3, <1>4

LEMMA CheckPortMoves ==
    ASSUME ControlType, NEW c \in Ctls, CheckPort(c)
    PROVE  IF PortFree THEN Moved(c, [coCtl[c] EXCEPT !.at = "spawn", !.name = "feedd"])
                       ELSE Moved(c, [coCtl[c] EXCEPT !.at = "refused", !.name = "feedd"])
<1>1. /\ [coCtl[c] EXCEPT !.at = "spawn", !.name = "feedd"] \in RunType
      /\ [coCtl[c] EXCEPT !.at = "refused", !.name = "feedd"] \in RunType
  BY StagesAre, RunsChange DEF ControlType
<1> QED BY <1>1, MovesOne DEF CheckPort, ControlType

LEMMA SpawnMoves ==
    ASSUME ControlType, NEW c \in Ctls, Spawn(c)
    PROVE  \E p \in Pids :
               /\ ~Alive(p) /\ coLost' = coLost \ {p}
               /\ coProc' = [coProc EXCEPT ![p] = [Vacant EXCEPT !.kind = coCtl[c].name, !.runs = TRUE, !.by = c]]
               /\ Moved(c, [coCtl[c] EXCEPT !.at = "record", !.pid = p, !.heard = FALSE, !.mine = @ \cup {p}])
<1>1. PICK p \in Pids :
        /\ ~Alive(p) /\ coLost' = coLost \ {p}
        /\ coProc' = [coProc EXCEPT ![p] = [Vacant EXCEPT !.kind = coCtl[c].name, !.runs = TRUE, !.by = c]]
        /\ Moves(c, [coCtl[c] EXCEPT !.at = "record", !.pid = p, !.heard = FALSE, !.mine = @ \cup {p}])
  BY DEF Spawn
<1>2. [coCtl[c] EXCEPT !.at = "record", !.pid = p, !.heard = FALSE, !.mine = @ \cup {p}] \in RunType
  BY StagesAre, RunsChange DEF ControlType
<1> QED BY <1>1, <1>2, MovesOne DEF ControlType

LEMMA ReadyMoves ==
    ASSUME ControlType, NEW c \in Ctls, Ready(c)
    PROVE  IF coCtl[c].name = "feedd" THEN Moved(c, [coCtl[c] EXCEPT !.at = "spawn", !.name = "adapter"])
                                      ELSE Moved(c, [coCtl[c] EXCEPT !.at = "started", !.name = "adapter"])
<1>1. /\ [coCtl[c] EXCEPT !.at = "spawn", !.name = "adapter"] \in RunType
      /\ [coCtl[c] EXCEPT !.at = "started", !.name = "adapter"] \in RunType
  BY StagesAre, RunsChange DEF ControlType
<1> QED BY <1>1, MovesOne DEF Ready, ControlType

LEMMA GiveUpMoves ==
    ASSUME ControlType, NEW c \in Ctls, GiveUp(c)
    PROVE  Moved(c, [coCtl[c] EXCEPT !.at = "ask", !.name = "adapter", !.rollback = TRUE])
<1>1. [coCtl[c] EXCEPT !.at = "ask", !.name = "adapter", !.rollback = TRUE] \in RunType
  BY StagesAre, RunsChange DEF ControlType
<1> QED BY <1>1, MovesOne DEF GiveUp, ControlType

LEMMA AskMoves ==
    ASSUME ControlType, NEW c \in Ctls, Ask(c)
    PROVE  \/ coFile[coCtl[c].name] = 0 /\ Onward(c, coCtl[c].stuck)
           \/ LET p == coFile[coCtl[c].name]
              IN  /\ p \in Pids
                  /\ Moved(c, [coCtl[c] EXCEPT !.pid = p,
                                               !.at = IF Owns(p, coCtl[c].name) THEN "signal" ELSE "forget"])
<1> DEFINE p == coFile[coCtl[c].name]
           now == [coCtl[c] EXCEPT !.pid = p,
                                   !.at = IF Owns(p, coCtl[c].name) THEN "signal" ELSE "forget"]
<1>1. p \in Pids \cup {0}
  BY DEF ControlType, RunType
<1>2. p \in Pids => now \in RunType
  <2>1. (IF Owns(p, coCtl[c].name) THEN "signal" ELSE "forget") \in Stages
    BY StagesAre
  <2> QED BY <2>1, StagesAre, RunsChange DEF ControlType
<1> QED BY <1>1, <1>2, MovesOne DEF Ask, ControlType

\* A step of obctl that leaves the processes alone.
LEMMA RunTyped ==
    ASSUME ControlType, NEW c \in Ctls, NEW now \in RunType, Moved(c, now),
           coProc' \in [Pids -> ProcType], coFile' \in [Names -> Pids \cup {0}],
           coLost' \subseteq Pids, coEverLost' \in BOOLEAN, coLost' # {} => coEverLost',
           coOverlap' \in BOOLEAN,
           now.at \in {"record", "await", "signal", "wait"} => now.pid \in Pids
    PROVE  ControlType'
BY DEF ControlType, Moved

LEMMA OnwardType ==
    ASSUME ControlType, NEW c \in Ctls, NEW stuck \in SUBSET Pids, Onward(c, stuck),
           coProc' \in [Pids -> ProcType], coFile' \in [Names -> Pids \cup {0}],
           UNCHANGED <<coLost, coEverLost, coOverlap>>
    PROVE  ControlType'
<1> DEFINE next == [coCtl[c] EXCEPT !.at = "ask", !.name = "feedd", !.stuck = stuck]
           last == [coCtl[c] EXCEPT !.stuck = stuck,
                                    !.at = IF coCtl[c].rollback THEN "refused"
                                           ELSE IF stuck = {} THEN "stopped" ELSE "stuck"]
<1>1. next \in RunType /\ last \in RunType /\ coCtl \in [Ctls -> RunType]
  <2>1. (IF coCtl[c].rollback THEN "refused" ELSE IF stuck = {} THEN "stopped" ELSE "stuck") \in Stages
    BY StagesAre
  <2> QED BY <2>1, StagesAre, RunsChange DEF ControlType
<1>2. next.at \notin {"record", "await", "signal", "wait"} /\ last.at \notin {"record", "await", "signal", "wait"}
  BY DEF ControlType, RunType
<1>3. Moved(c, next) \/ Moved(c, last)
  BY <1>1, GoesOnward
<1> HIDE DEF next, last
<1> QED BY <1>1, <1>2, <1>3, RunTyped DEF ControlType

LEMMA ControlTypeStep == ASSUME ControlType, ControlNext PROVE ControlType'
<1>0. /\ coCtl \in [Ctls -> RunType] /\ coProc \in [Pids -> ProcType]
      /\ coFile \in [Names -> Pids \cup {0}]
      /\ \A c \in Ctls : coCtl[c] \in RunType /\ coCtl[c].name \in Names /\ coCtl[c].stuck \in SUBSET Pids
  BY DEF ControlType, RunType
<1>1. ASSUME NEW c \in Ctls, Begins(c, "check") \/ Begins(c, "ask") PROVE ControlType'
  <2>1. PICK at \in {"check", "ask"} : Begins(c, at)
    BY <1>1
  <2>2. NewRun(at) \in RunType /\ NewRun("idle") \in RunType
    BY DEF NewRun, RunType, Stages, Ended, Asking, Names
  <2>3. [NewRun(at) EXCEPT !.name = IF at = "ask" THEN "adapter" ELSE "feedd"] \in RunType
    BY <2>2 DEF RunType, Names
  <2>4. coCtl' \in [Ctls -> RunType]
    BY <1>0, <2>1, <2>2, <2>3 DEF Begins
  <2>5. \A d \in Ctls : coCtl'[d] = coCtl[d] \/ coCtl'[d].at \in {"check", "ask", "idle"}
    BY <2>1 DEF Begins, NewRun
  <2>6. coProc' \in [Pids -> ProcType]
    <3>1. \A p \in Pids : [coProc[p] EXCEPT !.by = "init"] \in ProcType /\ Vacant \in ProcType
      BY <1>0 DEF ProcType, Vacant
    <3> QED BY <1>0, <2>1, <3>1 DEF Begins
  <2> QED BY <2>1, <2>4, <2>5, <2>6 DEF Begins, ControlType
<1>2. ASSUME NEW c \in Ctls, CheckPid(c) PROVE ControlType'
  <2>1. Moved(c, coCtl'[c]) /\ coCtl'[c] \in RunType /\ coCtl'[c].at \in {"refused", "check", "port"}
    BY ZenonT(60), <1>2, <1>0, CheckPidMoves DEF Moved, RunType, CheckPid
  <2> QED BY <1>0, <1>2, <2>1, RunTyped DEF CheckPid, ControlType
<1>3. ASSUME NEW c \in Ctls, CheckPort(c) PROVE ControlType'
  <2>1. Moved(c, coCtl'[c]) /\ coCtl'[c] \in RunType
    BY <1>3, CheckPortMoves DEF Moved
  <2>2. coCtl'[c].at \in {"refused", "spawn"}
    <3>1. coCtl[c] \in RunType
      BY <1>0
    <3>2. \/ coCtl'[c] = [coCtl[c] EXCEPT !.at = "spawn", !.name = "feedd"]
          \/ coCtl'[c] = [coCtl[c] EXCEPT !.at = "refused", !.name = "feedd"]
      BY <1>3, CheckPortMoves DEF Moved
    <3> QED BY <3>1, <3>2 DEF RunType
  <2> QED BY <1>0, <1>3, <2>1, <2>2, RunTyped DEF CheckPort, ControlType
<1>4. ASSUME NEW c \in Ctls, Spawn(c) PROVE ControlType'
  <2> DEFINE ran(p) == [coCtl[c] EXCEPT !.at = "record", !.pid = p, !.heard = FALSE, !.mine = @ \cup {p}]
  <2>1. PICK p \in Pids :
            /\ ~Alive(p) /\ coLost' = coLost \ {p}
            /\ coProc' = [coProc EXCEPT ![p] = [Vacant EXCEPT !.kind = coCtl[c].name, !.runs = TRUE, !.by = c]]
            /\ Moved(c, ran(p))
    BY <1>4, SpawnMoves
  <2>2. ran(p) \in RunType /\ ran(p).pid \in Pids
    BY <1>0 DEF RunType, Stages
  <2>3. [Vacant EXCEPT !.kind = coCtl[c].name, !.runs = TRUE, !.by = c] \in ProcType
    BY <1>0 DEF ProcType, Vacant
  <2>4. coProc' \in [Pids -> ProcType]
    BY <1>0, <2>1, <2>3
  <2> HIDE DEF ran
  <2> QED BY <1>0, <1>4, <2>1, <2>2, <2>4, RunTyped DEF Spawn, ControlType
<1>5. ASSUME NEW c \in Ctls, Record(c) PROVE ControlType'
  <2> DEFINE now == [coCtl[c] EXCEPT !.at = "await"]
  <2>1. Moved(c, now) /\ now \in RunType /\ now.pid = coCtl[c].pid /\ now.pid \in Pids
    BY <1>0, <1>5, GoesTo DEF Record, Stages, RunType, ControlType
  <2>2. coFile' \in [Names -> Pids \cup {0}]
    BY <1>0, <1>5, <2>1 DEF Record
  <2> HIDE DEF now
  <2> QED BY <1>0, <1>5, <2>1, <2>2, RunTyped DEF Record, ControlType
<1>6. ASSUME NEW c \in Ctls, Ready(c) PROVE ControlType'
  <2>1. Moved(c, coCtl'[c]) /\ coCtl'[c] \in RunType
    BY <1>6, ReadyMoves DEF Moved
  <2>2. coCtl'[c].at \in {"spawn", "started"}
    <3>1. coCtl[c] \in RunType
      BY <1>0
    <3>2. \/ coCtl'[c] = [coCtl[c] EXCEPT !.at = "spawn", !.name = "adapter"]
          \/ coCtl'[c] = [coCtl[c] EXCEPT !.at = "started", !.name = "adapter"]
      BY <1>6, ReadyMoves DEF Moved
    <3> QED BY <3>1, <3>2 DEF RunType
  <2> QED BY <1>0, <1>6, <2>1, <2>2, RunTyped DEF Ready, ControlType
<1>7. ASSUME NEW c \in Ctls, GiveUp(c) PROVE ControlType'
  <2>1. Moved(c, coCtl'[c]) /\ coCtl'[c] \in RunType
    BY <1>7, GiveUpMoves DEF Moved
  <2>0. coCtl'[c].at = "ask"
    <3>1. coCtl[c] \in RunType
      BY <1>0
    <3>2. coCtl'[c] = [coCtl[c] EXCEPT !.at = "ask", !.name = "adapter", !.rollback = TRUE]
      BY <1>7, GiveUpMoves DEF Moved
    <3> QED BY <3>1, <3>2 DEF RunType
  <2>2. coFile' \in [Names -> Pids \cup {0}]
    BY <1>0, <1>7 DEF GiveUp
  <2>3. coCtl[c].pid \in Pids
    BY <1>7 DEF GiveUp, ControlType
  <2>4. /\ coLost' \subseteq Pids /\ coEverLost' \in BOOLEAN
        /\ coLost' # {} => coEverLost'
        /\ coOverlap' \in BOOLEAN
    BY <1>0, <1>7, <2>3 DEF GiveUp, Loses, ControlType
  <2>5. Vacant \in ProcType
    BY DEF Vacant, ProcType
  <2>6. coProc' \in [Pids -> ProcType]
    BY <1>0, <1>7, <2>5 DEF GiveUp
  <2> QED BY <1>0, <2>0, <2>1, <2>2, <2>4, <2>6, RunTyped
<1>8. ASSUME NEW c \in Ctls, Ask(c) PROVE ControlType'
  <2>1. CASE coFile[coCtl[c].name] = 0 /\ Onward(c, coCtl[c].stuck)
    BY <1>0, <1>8, <2>1, OnwardType DEF Ask
  <2>2. CASE \E now \in RunType : Moved(c, now) /\ now.pid \in Pids
    <3>1. PICK now \in RunType : Moved(c, now) /\ now.pid \in Pids
      BY <2>2
    <3> QED BY <1>0, <1>8, <3>1, RunTyped DEF Ask, ControlType
  <2> DEFINE p == coFile[coCtl[c].name]
             now == [coCtl[c] EXCEPT !.pid = p,
                                     !.at = IF Owns(p, coCtl[c].name) THEN "signal" ELSE "forget"]
  <2>3. ASSUME p \in Pids, Moved(c, now) PROVE now \in RunType /\ now.pid \in Pids
    BY <1>0, <2>3 DEF Moved, RunType
  <2> QED BY <1>8, <2>1, <2>2, <2>3, AskMoves
<1>9. ASSUME NEW c \in Ctls, CannotTell(c) PROVE ControlType'
  <2>1. IF coCtl[c].at = "ask" THEN coFile[coCtl[c].name] \in Pids ELSE coCtl[c].pid \in Pids
    BY <1>0, <1>9 DEF CannotTell, ControlType
  <2> QED BY <1>0, <1>9, <2>1, OnwardType DEF CannotTell
<1>10. ASSUME NEW c \in Ctls, Signal(c) PROVE ControlType'
  <2>0. coCtl[c].pid \in Pids
    BY <1>10 DEF Signal, ControlType
  <2>1. CASE Alive(coCtl[c].pid)
    <3> DEFINE now == [coCtl[c] EXCEPT !.at = "wait"]
    <3>1. Moved(c, now) /\ now \in RunType /\ now.pid = coCtl[c].pid
      BY <1>0, <1>10, <2>1, GoesTo DEF Signal, Stages, Asking, RunType
    <3>2. coProc' \in [Pids -> ProcType]
      <4> DEFINE told == [coProc[coCtl[c].pid] EXCEPT !.term = TRUE]
      <4>1. told \in ProcType /\ coProc' = [coProc EXCEPT ![coCtl[c].pid] = told]
        BY <1>0, <1>10, <2>0, <2>1, ProcessesChange DEF Signal
      <4> HIDE DEF told
      <4> QED BY <1>0, <4>1
    <3> HIDE DEF now
    <3> QED BY <1>0, <1>10, <2>0, <3>1, <3>2, RunTyped DEF Signal, ControlType
  <2>2. CASE ~Alive(coCtl[c].pid)
    BY <1>0, <1>10, <2>0, <2>2, OnwardType DEF Signal
  <2> QED BY <2>1, <2>2
<1>11. ASSUME NEW c \in Ctls, WaitEnds(c) PROVE ControlType'
  <2>0. coCtl[c].pid \in Pids
    BY <1>11 DEF WaitEnds, ControlType
  <2>1. CASE Running(coCtl[c].pid)
    BY <1>0, <1>11, <2>0, <2>1, OnwardType DEF WaitEnds
  <2>2. CASE ~Running(coCtl[c].pid)
    <3> DEFINE now == [coCtl[c] EXCEPT !.at = "forget"]
    <3>1. Moved(c, now) /\ now \in RunType /\ now.pid = coCtl[c].pid
      BY <1>0, <1>11, <2>2, GoesTo DEF WaitEnds, Stages, Asking, RunType
    <3> HIDE DEF now
    <3> QED BY <1>0, <1>11, <2>0, <3>1, RunTyped DEF WaitEnds, ControlType
  <2> QED BY <2>1, <2>2
<1>12. ASSUME NEW c \in Ctls, Forget(c) PROVE ControlType'
  <2>1. coFile' \in [Names -> Pids \cup {0}]
    BY <1>0, <1>12 DEF Forget
  <2> QED BY <1>0, <1>12, <2>1, OnwardType DEF Forget
<1>13. ASSUME NEW c \in Ctls, Interrupt(c) PROVE ControlType'
  <2> DEFINE now == [coCtl[c] EXCEPT !.at = "idle"]
  <2>1. Moved(c, now) /\ now \in RunType /\ now.at = "idle"
    BY <1>0, <1>13, GoesTo DEF Interrupt, Stages, Ended, RunType
  <2>2. coLost' \subseteq Pids /\ coEverLost' \in BOOLEAN /\ (coLost' # {} => coEverLost')
    BY <1>13 DEF Interrupt, Loses, ControlType
  <2> HIDE DEF now
  <2> QED BY <1>0, <1>13, <2>1, <2>2, RunTyped DEF Interrupt, ControlType
<1>14. ASSUME NEW p \in Pids, Listen(p) \/ Connect(p) \/ Ends(p) \/ Stranger(p) PROVE ControlType'
  <2>1. Exited(p) \in ProcType
    <3>1. Vacant \in ProcType
      BY DEF Vacant, ProcType
    <3> QED BY <1>0, <3>1, ProcessesChange DEF Exited
  <2>2. coProc' \in [Pids -> ProcType]
    <3>1. CASE Listen(p)
      <4>1. [coProc[p] EXCEPT !.told = TRUE] \in ProcType
        BY <1>0, ProcessesChange
      <4> QED BY <1>0, <2>1, <3>1, <4>1 DEF Listen
    <3>2. CASE Connect(p)
      BY <1>0, <3>2 DEF Connect, ProcType
    <3>3. CASE Ends(p)
      BY <1>0, <2>1, <3>3 DEF Ends, ProcType
    <3>4. CASE Stranger(p)
      BY <1>0, <3>4 DEF Stranger, ProcType, Vacant
    <3> QED BY <1>14, <3>1, <3>2, <3>3, <3>4
  <2>3. coCtl' \in [Ctls -> RunType] /\ \A d \in Ctls : coCtl'[d].at = coCtl[d].at /\ coCtl'[d].pid = coCtl[d].pid
    <3>1. \A d \in Ctls : [coCtl[d] EXCEPT !.heard = TRUE] \in RunType
      BY <1>0 DEF RunType
    <3>2. \A d \in Ctls : /\ [coCtl[d] EXCEPT !.heard = TRUE].at = coCtl[d].at
                          /\ [coCtl[d] EXCEPT !.heard = TRUE].pid = coCtl[d].pid
      BY <1>0 DEF RunType
    <3>3. \A kind : Heard(kind) => /\ coCtl' \in [Ctls -> RunType]
                                   /\ \A d \in Ctls : /\ coCtl'[d].at = coCtl[d].at
                                                      /\ coCtl'[d].pid = coCtl[d].pid
      BY <1>0, <3>1, <3>2 DEF Heard
    <3> QED BY <1>0, <1>14, <3>3 DEF Listen, Connect, Ends, Stranger
  <2> QED BY <1>14, <2>2, <2>3 DEF Listen, Connect, Ends, Stranger, ControlType
<1> QED
  BY <1>1, <1>2, <1>3, <1>4, <1>5, <1>6, <1>7, <1>8, <1>9, <1>10, <1>11, <1>12, <1>13, <1>14
  DEF ControlNext

\* The same children run, and have said what they had said.
SameChildren ==
    \A p \in Pids :
        /\ coProc'[p].runs <=> coProc[p].runs
        /\ coProc[p].runs => coProc'[p].kind = coProc[p].kind /\ (coProc'[p].told <=> coProc[p].told)

LEMMA SameProcesses == ASSUME UNCHANGED coProc PROVE SameChildren
BY DEF SameChildren

\* A step of the one run that is at work concerns no other run.
LEMMA OneSteps ==
    ASSUME ControlType, Orderly, NEW c \in Ctls, coCtl[c].at # "idle", NEW now, Moved(c, now),
           Well(c)', Found'
    PROVE  Orderly'
<1>1. \A d \in Ctls : d # c => coCtl'[d].at = "idle"
  BY DEF Orderly, OneAtWork, Moved
<1>2. OneAtWork'
  BY <1>1 DEF OneAtWork
<1>3. \A d \in Ctls : d # c => Well(d)'
  BY <1>1 DEF Well, Filed, Checked, NoDaemon, NoAdapter, Fresh, OfItsKind, Stopping, Over, Answered, Asking
<1> QED BY <1>2, <1>3 DEF Orderly

LEMMA RecordKeeps ==
    ASSUME ControlType, Orderly, NEW c \in Ctls, Record(c)
    PROVE  Found' /\ Well(c)'
<1> DEFINE r == coCtl[c]
           n0 == r.name
           p0 == r.pid
<1>0. r \in RunType /\ n0 \in Names /\ p0 \in Pids /\ r.at = "record"
  BY DEF ControlType, RunType, Record
<1>1. /\ coCtl'[c].at = "await" /\ coCtl'[c].name = n0 /\ coCtl'[c].pid = p0
      /\ coCtl'[c].heard = r.heard /\ coCtl'[c].mine = r.mine /\ coCtl'[c].stuck = r.stuck
      /\ \A d \in Ctls : d # c => coCtl'[d] = coCtl[d] /\ coCtl[d].at = "idle"
  <2>1. Moved(c, [coCtl[c] EXCEPT !.at = "await"])
    BY <1>0, GoesTo DEF Record, Stages, ControlType
  <2> QED BY <1>0, <2>1 DEF Moved, RunType, Orderly, OneAtWork
<1>2. coFile'[n0] = p0 /\ \A n \in Names : n # n0 => coFile'[n] = coFile[n]
  BY <1>0 DEF Record, ControlType
<1>3. coProc' = coProc /\ coLost' = coLost /\ coEverLost' = coEverLost
  BY DEF Record
<1>4. Well(c) /\ Found
  BY DEF Orderly
<1> HIDE DEF r, n0, p0
<1>5. Clear(c, n0)
  BY <1>0, <1>4 DEF Well, Checked, NoDaemon, NoAdapter, Names, r, n0
<1>6. Found'
  <2> SUFFICES ASSUME NEW p \in Pids, NEW n \in Names, Owns(p, n)'
               PROVE  (p \in coLost \/ coFile[n] = p)'
    BY DEF Found
  <2>1. Owns(p, n)
    BY <1>3 DEF Owns, Running
  <2>2. p \in coLost \/ coFile[n] = p \/ Recording(c, p, n)
    BY <1>1, <1>4, <2>1 DEF Found, Recording
  <2>3. coFile[n] = p /\ n = n0 => p = p0
    BY <1>5, <2>1 DEF Clear, Recording, p0, r
  <2>4. Recording(c, p, n) => p = p0 /\ n = n0
    BY DEF Recording, p0, n0, r
  <2> QED BY <1>2, <1>3, <2>2, <2>3, <2>4
<1>7. Well(c)'
  <2>1. Filed(c)'
    BY <1>1, <1>2 DEF Filed
  <2>2. Checked(c)'
    BY <1>0, <1>1, <1>2, <1>3, <1>4 DEF Well, Checked, NoDaemon, NoAdapter, Fresh, Clear, Owns, Running, Recording, Names, r, n0, p0
  <2>3. OfItsKind(c)'
    BY <1>0, <1>1, <1>2, <1>3, <1>4 DEF Well, OfItsKind, Owns, Running, r, n0, p0
  <2>4. Stopping(c)'
    BY <1>1 DEF Stopping, Over, Asking
  <2>5. Answered(c)'
    BY <1>0, <1>1, <1>2, <1>3, <1>4 DEF Well, Answered, Owns, Running, r, n0, p0
  <2> QED BY <2>1, <2>2, <2>3, <2>4, <2>5 DEF Well
<1> QED BY <1>6, <1>7

LEMMA SameProcessesWhen ==
    ASSUME ControlType, NEW c \in Ctls, Begins(c, "check") \/ Begins(c, "ask") \/ GiveUp(c) \/ Signal(c)
    PROVE  SameChildren
<1>0. coProc \in [Pids -> ProcType] /\ (coCtl[c].at \in {"await", "signal"} => coCtl[c].pid \in Pids)
  BY DEF ControlType
<1>1. CASE Begins(c, "check") \/ Begins(c, "ask")
  <2>1. \A p \in Pids : IF coProc[p].runs THEN coProc'[p] \in {coProc[p], [coProc[p] EXCEPT !.by = "init"]}
                                          ELSE coProc'[p] \in {coProc[p], Vacant}
    BY <1>0, <1>1 DEF Begins, Running
  <2>2. \A proc \in ProcType : LET left == [proc EXCEPT !.by = "init"]
                               IN  (left.runs <=> proc.runs) /\ left.kind = proc.kind /\ (left.told <=> proc.told)
    BY DEF ProcType
  <2>3. ~Vacant.runs /\ \A p \in Pids : coProc[p] \in ProcType
    BY <1>0 DEF Vacant
  <2>4. ASSUME NEW p \in Pids
        PROVE  /\ coProc'[p].runs <=> coProc[p].runs
               /\ coProc[p].runs => coProc'[p].kind = coProc[p].kind /\ (coProc'[p].told <=> coProc[p].told)
    <3>1. CASE coProc'[p] = coProc[p]
      BY <3>1
    <3>2. CASE ~coProc[p].runs /\ coProc'[p] = Vacant
      BY <2>3, <3>2
    <3>3. CASE coProc[p].runs /\ coProc'[p] = [coProc[p] EXCEPT !.by = "init"]
      BY <2>2, <2>3, <3>3
    <3> QED BY <2>1, <3>1, <3>2, <3>3
  <2> QED BY <2>4 DEF SameChildren
<1>2. CASE GiveUp(c)
  <2>1. \A p \in Pids : coProc'[p] = coProc[p] \/ (~coProc[p].runs /\ coProc'[p] = Vacant)
    <3>1. CASE Running(coCtl[c].pid)
      BY <1>2, <3>1 DEF GiveUp, Loses, Trouble
    <3>2. CASE ~Running(coCtl[c].pid)
      BY <1>0, <1>2, <3>2 DEF GiveUp, Running, Loses, Trouble
    <3> QED BY <3>1, <3>2
  <2>2. ~Vacant.runs
    BY DEF Vacant
  <2> QED BY <2>1, <2>2 DEF SameChildren
<1>3. CASE Signal(c)
  BY <1>0, <1>3 DEF Signal, SameChildren, ProcType
<1> QED BY <1>1, <1>2, <1>3

LEMMA FoundStays ==
    ASSUME ControlType, Orderly, SameChildren, NEW c \in Ctls, coCtl[c].at \notin {"idle", "record"},
           coFile' = coFile, coLost' = coLost
    PROVE  Found'
<1> SUFFICES ASSUME NEW p \in Pids, NEW n \in Names, Owns(p, n)'
             PROVE  (p \in coLost \/ coFile[n] = p)'
  BY DEF Found
<1>1. Owns(p, n)
  BY DEF Owns, Running, SameChildren
<1>2. ~\E d \in Ctls : Recording(d, p, n)
  BY DEF Orderly, OneAtWork, Recording
<1> QED BY <1>1, <1>2 DEF Orderly, Found

\* A name is left for the next when its children are lost or stuck.
LEMMA OnwardIsWell ==
    ASSUME ControlType, Orderly, SameChildren, NEW c \in Ctls, coCtl[c].at \in Asking,
           NEW stuck \in SUBSET Pids, coCtl[c].stuck \subseteq stuck, Onward(c, stuck),
           coLost' = coLost, coEverLost' = coEverLost,
           \A p \in Pids : Owns(p, coCtl[c].name) => p \in coLost \cup stuck
    PROVE  Well(c)'
<1>0. coCtl[c] \in RunType /\ coCtl[c].name \in Names /\ coCtl \in [Ctls -> RunType]
  BY DEF ControlType, RunType
<1>1. /\ coCtl'[c].stuck = stuck
      /\ coCtl[c].name = "adapter" => coCtl'[c].at = "ask" /\ coCtl'[c].name = "feedd"
      /\ coCtl[c].name # "adapter" =>
            /\ coCtl'[c].at \in {"refused", "stopped", "stuck"}
            /\ coCtl'[c].at = "stopped" => stuck = {}
  <2>1. CASE coCtl[c].name = "adapter"
    <3>1. coCtl'[c] = [coCtl[c] EXCEPT !.at = "ask", !.name = "feedd", !.stuck = stuck]
      BY <1>0, <2>1, GoesOnward DEF Moved
    <3> QED BY <1>0, <2>1, <3>1 DEF RunType
  <2>2. CASE coCtl[c].name # "adapter"
    <3>1. /\ [coCtl[c] EXCEPT !.stuck = stuck, !.at = "refused"].stuck = stuck
          /\ [coCtl[c] EXCEPT !.stuck = stuck, !.at = "refused"].at = "refused"
          /\ [coCtl[c] EXCEPT !.stuck = stuck, !.at = "stopped"].stuck = stuck
          /\ [coCtl[c] EXCEPT !.stuck = stuck, !.at = "stopped"].at = "stopped"
          /\ [coCtl[c] EXCEPT !.stuck = stuck, !.at = "stuck"].stuck = stuck
          /\ [coCtl[c] EXCEPT !.stuck = stuck, !.at = "stuck"].at = "stuck"
      BY <1>0 DEF RunType
    <3>2. CASE coCtl[c].rollback
      BY ZenonT(60), <1>0, <2>2, <3>1, <3>2, GoesOnward DEF Moved
    <3>3. CASE ~coCtl[c].rollback /\ stuck = {}
      BY <1>0, <2>2, <3>1, <3>3, GoesOnward DEF Moved
    <3>4. CASE ~coCtl[c].rollback /\ stuck # {}
      BY <1>0, <2>2, <3>1, <3>4, GoesOnward DEF Moved
    <3> QED BY <3>2, <3>3, <3>4
  <2> QED BY <2>1, <2>2
<1>2. coCtl[c].name = "feedd" => Leaves(c, "adapter")
  BY DEF Orderly, Well, Stopping
<1>3. \A p \in Pids, n \in Names : Owns(p, n)' => Owns(p, n)
  BY DEF Owns, Running, SameChildren
<1>4. \A n \in Names : n = coCtl[c].name => Leaves(c, n)'
  BY <1>1, <1>3 DEF Leaves
<1>5. coCtl[c].name # "adapter" => \A n \in Names : Leaves(c, n)'
  BY <1>0, <1>1, <1>2, <1>3, <1>4 DEF Leaves, Names
<1>6. Stopping(c)'
  BY <1>0, <1>1, <1>4, <1>5 DEF Stopping, Over, Asking, Names
<1>7. Filed(c)' /\ Checked(c)' /\ OfItsKind(c)' /\ Answered(c)'
  BY <1>1 DEF Filed, Checked, NoDaemon, NoAdapter, Fresh, OfItsKind, Answered
<1> QED BY <1>6, <1>7 DEF Well

LEMMA CheckPidKeeps ==
    ASSUME ControlType, Orderly, NEW c \in Ctls, CheckPid(c)
    PROVE  Found' /\ Well(c)'
<1>0. /\ coCtl[c] \in RunType /\ coCtl[c].at = "check" /\ coCtl[c].name \in Names
      /\ UNCHANGED <<coProc, coFile, coLost, coEverLost>> /\ Well(c)
  BY DEF CheckPid, ControlType, RunType, Orderly
<1>1. SameChildren /\ Found'
  BY <1>0, SameProcesses, FoundStays
<1>2. CASE Moved(c, [coCtl[c] EXCEPT !.at = "refused"])
  <2>1. coCtl'[c].at = "refused" /\ coCtl'[c].mine = {}
    BY <1>0, <1>2 DEF Moved, RunType, Well, Checked, Fresh
  <2> QED
    BY <1>1, <2>1 DEF Well, Filed, Checked, NoDaemon, NoAdapter, Fresh, OfItsKind, Stopping, Over, Asking, Answered
<1>3. CASE /\ ~Tracked("feedd") /\ coCtl[c].name = "feedd" 
           /\ Moved(c, [coCtl[c] EXCEPT !.name = "adapter"])
  <2>1. coCtl'[c].at = "check" /\ coCtl'[c].name = "adapter" /\ coCtl'[c].mine = {}
    BY <1>0, <1>3 DEF Moved, RunType, Well, Checked, Fresh
  <2>2. Clear(c, "feedd")'
    BY <1>0, <1>3, <2>1 DEF Clear, Tracked, Alive, Owns, Running, Recording
  <2> QED
    BY <1>1, <2>1, <2>2 DEF Well, Filed, Checked, NoDaemon, NoAdapter, Fresh, OfItsKind, Stopping, Over, Asking, Answered
<1>4. CASE /\ ~Tracked("adapter") /\ coCtl[c].name = "adapter" 
           /\ Moved(c, [coCtl[c] EXCEPT !.at = "port"])
  <2>1. coCtl'[c].at = "port" /\ coCtl'[c].name = "adapter" /\ coCtl'[c].mine = {}
    BY <1>0, <1>4 DEF Moved, RunType, Well, Checked, Fresh
  <2>2. Clear(c, "feedd")' /\ Clear(c, "adapter")'
    BY <1>0, <1>4, <2>1 DEF Clear, Tracked, Alive, Owns, Running, Recording, Well, Checked, NoDaemon
  <2> QED
    BY <1>1, <2>1, <2>2 DEF Well, Filed, Checked, NoDaemon, NoAdapter, Fresh, OfItsKind, Stopping, Over, Asking, Answered
<1> QED BY <1>0, <1>1, <1>2, <1>3, <1>4, CheckPidMoves

LEMMA CheckPortKeeps ==
    ASSUME ControlType, Orderly, NEW c \in Ctls, CheckPort(c)
    PROVE  Found' /\ Well(c)'
<1>0. /\ coCtl[c] \in RunType /\ coCtl[c].at = "port" /\ coCtl[c].mine = {}
      /\ UNCHANGED <<coProc, coFile, coLost, coEverLost>> /\ Clear(c, "feedd") /\ Clear(c, "adapter")
  BY DEF CheckPort, ControlType, Orderly, Well, Checked, NoDaemon, NoAdapter, Fresh
<1>1. SameChildren /\ Found'
  BY <1>0, SameProcesses, FoundStays
<1>2. coCtl'[c].at \in {"spawn", "refused"} /\ coCtl'[c].name = "feedd" /\ coCtl'[c].mine = {}
  <2>1. CASE PortFree
    <3>1. coCtl'[c] = [coCtl[c] EXCEPT !.at = "spawn", !.name = "feedd"]
      BY <2>1, CheckPortMoves DEF Moved
    <3> QED BY <1>0, <3>1 DEF RunType
  <2>2. CASE ~PortFree
    <3>1. coCtl'[c] = [coCtl[c] EXCEPT !.at = "refused", !.name = "feedd"]
      BY <2>2, CheckPortMoves DEF Moved
    <3> QED BY <1>0, <3>1 DEF RunType
  <2> QED BY <2>1, <2>2
<1>3. Clear(c, "feedd")' /\ Clear(c, "adapter")'
  BY <1>0, <1>2 DEF Clear, Owns, Running, Recording
<1> QED
  BY <1>1, <1>2, <1>3 DEF Well, Filed, Checked, NoDaemon, NoAdapter, Fresh, OfItsKind, Stopping, Over, Asking, Answered

LEMMA SpawnKeeps ==
    ASSUME ControlType, RunsHaveKind, Orderly, NEW c \in Ctls, Spawn(c)
    PROVE  Found' /\ Well(c)'
<1>0. /\ coCtl[c] \in RunType /\ coCtl[c].at = "spawn" /\ coCtl[c].name \in Names
      /\ coFile' = coFile /\ coEverLost' = coEverLost /\ Well(c) /\ Found
      /\ coProc \in [Pids -> ProcType] /\ coCtl[c].mine \in SUBSET Pids
      /\ \A n \in Names : coFile[n] \in Pids \cup {0}
  BY DEF Spawn, ControlType, RunType, Orderly
<1>1. PICK p \in Pids :
        /\ ~Alive(p) /\ coLost' = coLost \ {p}
        /\ coProc' = [coProc EXCEPT ![p] = [Vacant EXCEPT !.kind = coCtl[c].name, !.runs = TRUE, !.by = c]]
        /\ Moved(c, [coCtl[c] EXCEPT !.at = "record", !.pid = p, !.heard = FALSE, !.mine = @ \cup {p}])
  BY SpawnMoves
<1>2. /\ coCtl'[c].at = "record" /\ coCtl'[c].pid = p /\ ~coCtl'[c].heard
      /\ coCtl'[c].mine = coCtl[c].mine \cup {p} /\ coCtl'[c].name = coCtl[c].name
  BY <1>0, <1>1 DEF Moved, RunType
<1>3. /\ \A q \in Pids : q # p => coProc'[q] = coProc[q]
      /\ coProc'[p].kind = coCtl[c].name /\ coProc'[p].runs
  BY <1>0, <1>1 DEF Vacant
<1>4. ~coProc[p].runs
  BY <1>1 DEF RunsHaveKind, Running
<1>5. Found'
  <2> SUFFICES ASSUME NEW q \in Pids, NEW n \in Names, Owns(q, n)', q # p
               PROVE  (q \in coLost \/ coFile[n] = q)'
    BY <1>2, <1>3 DEF Found, Owns, Recording
  <2>1. Owns(q, n)
    BY <1>3 DEF Owns, Running
  <2>2. ~\E d \in Ctls : Recording(d, q, n)
    BY <1>0 DEF Orderly, OneAtWork, Recording
  <2> QED BY <1>0, <1>1, <2>1, <2>2 DEF Found
<1>6. ASSUME NEW n \in Names, Clear(c, n) PROVE Clear(c, n)'
  BY <1>0, <1>2, <1>3, <1>6 DEF Clear, Owns, Running, Recording
<1>7. Checked(c)'
  BY <1>0, <1>2, <1>6 DEF Well, Checked, NoDaemon, NoAdapter, Fresh, Names
<1>8. OfItsKind(c)'
  BY <1>2, <1>3 DEF OfItsKind, Owns
<1>9. Answered(c)'
  <2> SUFFICES ASSUME ~coEverLost, NEW q \in coCtl[c].mine, q # p, NEW n \in Names, Owns(q, n)'
               PROVE  coProc'[q].told
    BY <1>0, <1>2 DEF Answered
  <2>1. q \in Pids /\ Owns(q, n)
    BY <1>0, <1>3 DEF Owns, Running
  <2> QED BY <1>0, <1>3, <2>1 DEF Well, Answered

<1> QED
  BY <1>2, <1>5, <1>7, <1>8, <1>9 DEF Well, Filed, Stopping, Over, Asking

LEMMA ReadyKeeps ==
    ASSUME ControlType, Orderly, NEW c \in Ctls, Ready(c)
    PROVE  Found' /\ Well(c)'
<1>0. /\ coCtl[c] \in RunType /\ coCtl[c].at = "await" /\ coCtl[c].name \in Names /\ coCtl[c].heard
      /\ UNCHANGED <<coProc, coFile, coLost, coEverLost>> /\ Well(c)
  BY DEF Ready, ControlType, RunType, Orderly
<1>1. SameChildren /\ Found'
  BY <1>0, SameProcesses, FoundStays
<1>2. /\ coCtl[c].name = "feedd" => coCtl'[c].at = "spawn" /\ coCtl'[c].name = "adapter"
      /\ coCtl[c].name # "feedd" => coCtl'[c].at = "started"
      /\ coCtl'[c].mine = coCtl[c].mine
  <2>1. CASE coCtl[c].name = "feedd"
    <3>1. coCtl'[c] = [coCtl[c] EXCEPT !.at = "spawn", !.name = "adapter"]
      BY <2>1, ReadyMoves DEF Moved
    <3> QED BY <1>0, <2>1, <3>1 DEF RunType
  <2>2. CASE coCtl[c].name # "feedd"
    <3>1. coCtl'[c] = [coCtl[c] EXCEPT !.at = "started", !.name = "adapter"]
      BY <2>2, ReadyMoves DEF Moved
    <3> QED BY <1>0, <2>2, <3>1 DEF RunType
  <2> QED BY <2>1, <2>2
<1>3. coCtl[c].name = "feedd" => Clear(c, "adapter")'
  BY <1>0, <1>2 DEF Well, Checked, NoAdapter, Clear, Owns, Running, Recording
<1>4. Answered(c)'
  BY <1>0, <1>2 DEF Well, Answered, Owns, Running
<1> QED
  BY <1>0, <1>1, <1>2, <1>3, <1>4 DEF Well, Filed, Checked, NoDaemon, NoAdapter, Fresh, OfItsKind, Stopping, Over, Asking

LEMMA GiveUpKeeps ==
    ASSUME ControlType, Orderly, NEW c \in Ctls, GiveUp(c)
    PROVE  Found' /\ Well(c)'
<1> DEFINE n0 == coCtl[c].name
           p0 == coCtl[c].pid
<1>0. /\ coCtl[c] \in RunType /\ coCtl[c].at = "await" /\ n0 \in Names /\ p0 \in Pids
      /\ coFile[n0] = p0 /\ Found
  BY DEF GiveUp, ControlType, RunType, Orderly, Well, Filed
<1>1. /\ coFile'[n0] = 0 /\ \A n \in Names : n # n0 => coFile'[n] = coFile[n]
  BY <1>0 DEF GiveUp, ControlType
<1>2. SameChildren /\ coLost \subseteq coLost' /\ (coProc[p0].runs => p0 \in coLost')
  BY SameProcessesWhen DEF GiveUp, Loses, Running
<1>3. coCtl'[c].at = "ask" /\ coCtl'[c].name = "adapter"
  <2>1. coCtl'[c] = [coCtl[c] EXCEPT !.at = "ask", !.name = "adapter", !.rollback = TRUE]
    BY GiveUpMoves DEF Moved
  <2> QED BY <1>0, <2>1 DEF RunType
<1> HIDE DEF n0, p0
<1>4. Found'
  <2> SUFFICES ASSUME NEW p \in Pids, NEW n \in Names, Owns(p, n)'
               PROVE  (p \in coLost \/ coFile[n] = p)'
    BY DEF Found
  <2>1. Owns(p, n)
    BY <1>2 DEF Owns, Running, SameChildren
  <2>2. ~\E d \in Ctls : Recording(d, p, n)
    BY <1>0 DEF Orderly, OneAtWork, Recording
  <2>3. p \in coLost \/ coFile[n] = p
    BY <1>0, <2>1, <2>2 DEF Found
  <2> QED BY <1>0, <1>1, <1>2, <2>1, <2>3 DEF Owns, Running
<1> QED
  BY <1>3, <1>4 DEF Well, Filed, Checked, NoDaemon, NoAdapter, Fresh, OfItsKind, Stopping, Over, Asking, Answered

LEMMA AskKeeps ==
    ASSUME ControlType, Orderly, NEW c \in Ctls, Ask(c)
    PROVE  Found' /\ Well(c)'
<1> DEFINE n0 == coCtl[c].name
           p0 == coFile[n0]
<1>0. /\ coCtl[c] \in RunType /\ coCtl[c].at = "ask" /\ n0 \in Names /\ coCtl[c].stuck \in SUBSET Pids
      /\ UNCHANGED <<coProc, coFile, coLost, coEverLost>> /\ Well(c)
  BY DEF Ask, ControlType, RunType, Orderly
<1>1. SameChildren /\ Found'
  BY <1>0, SameProcesses, FoundStays
<1>2. CASE p0 = 0 /\ Onward(c, coCtl[c].stuck)
  <2>1. \A p \in Pids : Owns(p, n0) => p \in coLost
    BY <1>0, <1>2 DEF Orderly, OneAtWork, Recording, Found
  <2>2. coCtl[c].at \in Asking
    BY <1>0 DEF Asking
  <2> QED BY <1>0, <1>1, <1>2, <2>1, <2>2, OnwardIsWell
<1>3. CASE /\ p0 \in Pids
           /\ Moved(c, [coCtl[c] EXCEPT !.pid = p0, !.at = IF Owns(p0, n0) THEN "signal" ELSE "forget"])
  <2>1. /\ coCtl'[c].at \in {"signal", "forget"} /\ coCtl'[c].pid = p0 /\ coCtl'[c].name = n0
        /\ coCtl'[c].stuck = coCtl[c].stuck
        /\ coCtl'[c].at = "forget" => ~Owns(p0, n0)
    <3>1. CASE Owns(p0, n0)
      BY <1>0, <1>3, <3>1 DEF Moved, RunType
    <3>2. CASE ~Owns(p0, n0)
      BY <1>0, <1>3, <3>2 DEF Moved, RunType
    <3> QED BY <3>1, <3>2
  <2> HIDE DEF n0, p0
  <2>2. Filed(c)'
    BY <1>0, <2>1 DEF Filed, Owns, Running, n0, p0
  <2>3. Stopping(c)'
    BY <1>0, <2>1 DEF Well, Stopping, Over, Asking, Leaves, Owns, Running, n0
  <2> QED
    BY <1>1, <2>1, <2>2, <2>3 DEF Well, Checked, NoDaemon, NoAdapter, Fresh, OfItsKind, Answered
<1> QED BY <1>2, <1>3, AskMoves

LEMMA CannotTellKeeps ==
    ASSUME ControlType, Orderly, NEW c \in Ctls, CannotTell(c)
    PROVE  Found' /\ Well(c)'
<1> DEFINE p0 == IF coCtl[c].at = "ask" THEN coFile[coCtl[c].name] ELSE coCtl[c].pid
<1>0. /\ coCtl[c].at \in {"ask", "wait"} /\ coCtl[c].name \in Names /\ coCtl[c].stuck \in SUBSET Pids
      /\ p0 \in Pids /\ coFile[coCtl[c].name] = p0 /\ Onward(c, coCtl[c].stuck \cup {p0})
      /\ UNCHANGED <<coProc, coFile, coLost, coEverLost>> /\ Well(c)
  BY DEF CannotTell, ControlType, RunType, Orderly, Well, Filed
<1> HIDE DEF p0
<1>1. SameChildren /\ Found'
  BY <1>0, SameProcesses, FoundStays
<1>2. \A p \in Pids : Owns(p, coCtl[c].name) => p \in coLost \cup (coCtl[c].stuck \cup {p0})
  BY <1>0 DEF Orderly, OneAtWork, Recording, Found
<1> QED BY <1>0, <1>1, <1>2, OnwardIsWell DEF Asking

LEMMA SignalKeeps ==
    ASSUME ControlType, Orderly, NEW c \in Ctls, Signal(c)
    PROVE  Found' /\ Well(c)'
<1> DEFINE p0 == coCtl[c].pid
           n0 == coCtl[c].name
<1>0. /\ coCtl[c] \in RunType /\ coCtl[c].at = "signal" /\ n0 \in Names
      /\ coCtl[c].stuck \in SUBSET Pids /\ p0 \in Pids /\ coFile[n0] = p0
      /\ UNCHANGED <<coFile, coLost, coEverLost>> /\ Well(c)
  BY DEF Signal, ControlType, RunType, Orderly, Well, Filed
<1>1. SameChildren /\ Found'
  BY <1>0, SameProcessesWhen, FoundStays
<1>2. CASE ~Alive(p0)
  <2>1. Onward(c, coCtl[c].stuck \cup {p0})
    BY <1>2 DEF Signal
  <2>2. \A p \in Pids : Owns(p, n0) => p \in coLost \cup (coCtl[c].stuck \cup {p0})
    BY <1>0 DEF Orderly, OneAtWork, Recording, Found
  <2> QED BY <1>0, <1>1, <2>1, <2>2, OnwardIsWell DEF Asking
<1>3. CASE Alive(p0)
  <2>1. /\ coCtl'[c].at = "wait" /\ coCtl'[c].pid = p0 /\ coCtl'[c].name = n0
        /\ coCtl'[c].stuck = coCtl[c].stuck
    <3>1. Goes(c, "wait")
      BY <1>3 DEF Signal
    <3>2. coCtl'[c] = [coCtl[c] EXCEPT !.at = "wait"]
      BY <3>1, GoesTo DEF Moved, Stages, Asking, ControlType
    <3> QED BY <1>0, <3>2 DEF RunType
  <2> HIDE DEF n0, p0
  <2>2. Filed(c)'
    BY <1>0, <2>1 DEF Filed
  <2>3. Stopping(c)'
    BY <1>0, <1>1, <2>1 DEF Well, Stopping, Over, Asking, Leaves, Owns, Running, SameChildren, n0
  <2> QED
    BY <1>1, <2>1, <2>2, <2>3 DEF Well, Checked, NoDaemon, NoAdapter, Fresh, OfItsKind, Answered
<1> QED BY <1>1, <1>2, <1>3

LEMMA WaitEndsKeeps ==
    ASSUME ControlType, Orderly, NEW c \in Ctls, WaitEnds(c)
    PROVE  Found' /\ Well(c)'
<1> DEFINE p0 == coCtl[c].pid
           n0 == coCtl[c].name
<1>0. /\ coCtl[c] \in RunType /\ coCtl[c].at = "wait" /\ n0 \in Names
      /\ coCtl[c].stuck \in SUBSET Pids /\ p0 \in Pids /\ coFile[n0] = p0
      /\ UNCHANGED <<coProc, coFile, coLost, coEverLost>> /\ Well(c)
  BY DEF WaitEnds, ControlType, RunType, Orderly, Well, Filed
<1>1. SameChildren /\ Found'
  BY <1>0, SameProcesses, FoundStays
<1>2. CASE Running(p0)
  <2>1. Onward(c, coCtl[c].stuck \cup {p0})
    BY <1>2 DEF WaitEnds
  <2>2. \A p \in Pids : Owns(p, n0) => p \in coLost \cup (coCtl[c].stuck \cup {p0})
    BY <1>0 DEF Orderly, OneAtWork, Recording, Found
  <2> QED BY <1>0, <1>1, <2>1, <2>2, OnwardIsWell DEF Asking
<1>3. CASE ~Running(p0)
  <2>1. /\ coCtl'[c].at = "forget" /\ coCtl'[c].name = n0 /\ coCtl'[c].stuck = coCtl[c].stuck
    <3>1. Goes(c, "forget")
      BY <1>3 DEF WaitEnds
    <3>2. coCtl'[c] = [coCtl[c] EXCEPT !.at = "forget"]
      BY <3>1, GoesTo DEF Moved, Stages, Asking, ControlType
    <3> QED BY <1>0, <3>2 DEF RunType
  <2>2. Filed(c)'
    BY <1>0, <1>3, <2>1 DEF Filed, Owns, Running
  <2> HIDE DEF n0, p0
  <2>3. Stopping(c)'
    BY <1>0, <1>1, <2>1 DEF Well, Stopping, Over, Asking, Leaves, Owns, Running, n0
  <2> QED
    BY <1>1, <2>1, <2>2, <2>3 DEF Well, Checked, NoDaemon, NoAdapter, Fresh, OfItsKind, Answered
<1> QED BY <1>1, <1>2, <1>3

LEMMA ForgetKeeps ==
    ASSUME ControlType, Orderly, NEW c \in Ctls, Forget(c)
    PROVE  Found' /\ Well(c)'
<1> DEFINE n0 == coCtl[c].name
<1>0. /\ coCtl[c].at = "forget" /\ n0 \in Names /\ coCtl[c].stuck \in SUBSET Pids
      /\ coFile'[n0] = 0 /\ \A n \in Names : n # n0 => coFile'[n] = coFile[n]
      /\ UNCHANGED <<coProc, coLost, coEverLost>> /\ Onward(c, coCtl[c].stuck)
      /\ coFile[n0] # 0 => ~Owns(coFile[n0], n0)
  BY DEF Forget, ControlType, RunType, Orderly, Well, Filed
<1>1. SameChildren
  BY <1>0, SameProcesses
<1> HIDE DEF n0
<1>2. ASSUME NEW p \in Pids, NEW n \in Names, Owns(p, n)
      PROVE  p \in coLost \/ (coFile[n] = p /\ n # n0)
  BY <1>0, <1>2 DEF Orderly, OneAtWork, Recording, Found
<1>3. Found'
  BY <1>0, <1>2 DEF Found, Owns, Running
<1>4. \A p \in Pids : Owns(p, coCtl[c].name) => p \in coLost \cup coCtl[c].stuck
  BY <1>0, <1>2 DEF n0
<1> QED BY <1>0, <1>1, <1>3, <1>4, OnwardIsWell DEF Asking

LEMMA InterruptKeeps ==
    ASSUME ControlType, Orderly, NEW c \in Ctls, Interrupt(c)
    PROVE  Found' /\ Well(c)'
<1>1. coCtl'[c].at = "idle"
  <2>1. Moved(c, [coCtl[c] EXCEPT !.at = "idle"]) /\ coCtl[c] \in RunType
    BY GoesTo DEF Interrupt, Stages, Ended, ControlType
  <2> QED BY <2>1 DEF Moved, RunType
<1>2. Well(c)'
  BY <1>1 DEF Well, Filed, Checked, NoDaemon, NoAdapter, Fresh, OfItsKind, Stopping, Over, Asking, Answered
<1>3. Found'
  <2>1. \A p \in Pids, n \in Names : Recording(c, p, n) => p \in coLost'
    BY DEF Recording, Interrupt, Loses
  <2>2. coLost \subseteq coLost' /\ UNCHANGED <<coProc, coFile>>
    BY DEF Interrupt, Loses
  <2>3. coCtl[c].at # "idle"
    BY DEF Interrupt, Busy, Ended
  <2>4. \A d \in Ctls, p \in Pids, n \in Names : Recording(d, p, n) => p \in coLost'
    BY <2>1, <2>3 DEF Orderly, OneAtWork, Recording
  <2> QED BY <2>2, <2>4 DEF Orderly, Found, Owns, Running
<1> QED BY <1>2, <1>3

\* The shells whose runs are over show nothing of them once another begins.
LEMMA BeginsIsOrderly ==
    ASSUME ControlType, Orderly, NEW c \in Ctls, Begins(c, "check") \/ Begins(c, "ask"), ~coOverlap'
    PROVE  Orderly'
<1>0. PICK at \in {"check", "ask"} : Begins(c, at)
  OBVIOUS
<1>1. \A d \in Ctls : ~Busy(d)
  BY <1>0 DEF Begins
<1>2. /\ \A d \in Ctls : d # c => coCtl'[d].at = "idle"
      /\ coCtl'[c].at = at /\ coCtl'[c].mine = {} 
      /\ coCtl'[c].name = IF at = "ask" THEN "adapter" ELSE "feedd"
  BY <1>0, <1>1 DEF Begins, NewRun
<1>3. Found'
  <2> SUFFICES ASSUME NEW p \in Pids, NEW n \in Names, Owns(p, n)'
               PROVE  (p \in coLost \/ coFile[n] = p)'
    BY DEF Found
  <2>1. Owns(p, n) /\ UNCHANGED <<coFile, coLost>>
    BY <1>0, SameProcessesWhen DEF Owns, Running, SameChildren, Begins
  <2>2. ~\E d \in Ctls : Recording(d, p, n)
    BY <1>1 DEF Recording, Busy, Ended
  <2> QED BY <2>1, <2>2 DEF Orderly, Found
<1>4. \A d \in Ctls : Well(d)'
  BY <1>2 DEF Well, Filed, Checked, NoDaemon, NoAdapter, Fresh, OfItsKind, Stopping, Over, Asking, Answered
<1>5. OneAtWork'
  BY <1>2 DEF OneAtWork
<1> QED BY <1>3, <1>4, <1>5 DEF Orderly

\* What a process does takes children away and adds none, and those of the lab
\* that go on running have said what they said.
Dwindles ==
    /\ \A p \in Pids, n \in Names :
        coProc'[p].runs /\ coProc'[p].kind = n =>
            /\ coProc[p].runs /\ coProc[p].kind = n /\ (p \in coLost => p \in coLost')
            /\ coProc[p].told => coProc'[p].told
    /\ UNCHANGED <<coFile, coEverLost, coOverlap>>

\* A start is told that its child is ready by that child only.
HeardFromItsOwn ==
    \A c \in Ctls :
        coCtl[c].at \in {"record", "await"} /\ ~coCtl[c].heard /\ coCtl'[c].heard =>
            (~coEverLost /\ Owns(coCtl[c].pid, coCtl[c].name) /\ coProc'[coCtl[c].pid].runs
                => coProc'[coCtl[c].pid].told)

OnlyHears ==
    \A c \in Ctls :
        /\ coCtl'[c].at = coCtl[c].at /\ coCtl'[c].name = coCtl[c].name /\ coCtl'[c].pid = coCtl[c].pid
        /\ coCtl'[c].mine = coCtl[c].mine /\ coCtl'[c].stuck = coCtl[c].stuck

\* The child of the kind that a start is waiting for is the one that it started.
LEMMA ItsOwnChild ==
    ASSUME ControlType, Orderly, ~coEverLost, NEW c \in Ctls, coCtl[c].at \in {"record", "await"},
           NEW p \in Pids, Owns(p, coCtl[c].name)
    PROVE  p = coCtl[c].pid
<1>1. coCtl[c].name \in Names /\ coLost = {} /\ Well(c) /\ Found /\ OneAtWork
  BY DEF ControlType, RunType, Orderly
<1>2. \/ coFile[coCtl[c].name] = p
      \/ Recording(c, p, coCtl[c].name)
  BY <1>1 DEF Found, OneAtWork, Recording
<1>3. CASE coCtl[c].at = "record"
  <2>1. Clear(c, coCtl[c].name)
    BY <1>1, <1>3 DEF Well, Checked, NoDaemon, NoAdapter, Names
  <2> QED BY <1>2, <2>1 DEF Clear, Recording
<1>4. CASE coCtl[c].at = "await"
  BY <1>1, <1>2, <1>4 DEF Well, Filed, Recording
<1> QED BY <1>3, <1>4

LEMMA DwindlingIsOrderly ==
    ASSUME ControlType, ControlType', Orderly, Dwindles, OnlyHears, HeardFromItsOwn
    PROVE  Orderly'
<1>0. /\ \A p \in Pids, n \in Names : Owns(p, n)' => Owns(p, n) /\ (p \in coLost => p \in coLost')
      /\ coFile' = coFile /\ coEverLost' = coEverLost
  BY DEF Dwindles, Owns, Running
<1>1. OneAtWork'
  BY DEF Orderly, OneAtWork, OnlyHears
<1>2. Found'
  BY <1>0 DEF Orderly, Found, OnlyHears, Recording
<1>3. ASSUME NEW c \in Ctls PROVE Well(c)'
  <2>0. /\ Well(c) /\ coCtl[c].name \in Names
        /\ coCtl'[c].at = coCtl[c].at /\ coCtl'[c].name = coCtl[c].name /\ coCtl'[c].pid = coCtl[c].pid
        /\ coCtl'[c].mine = coCtl[c].mine /\ coCtl'[c].stuck = coCtl[c].stuck
        /\ \A n \in Names : coFile[n] \in Pids \cup {0}
        /\ coCtl[c].mine \in SUBSET Pids
        /\ (coCtl[c].at \in {"record", "await"} => coCtl[c].pid \in Pids)
    BY DEF Orderly, OnlyHears, ControlType, RunType
  <2>1. Filed(c)'
    BY <1>0, <2>0 DEF Well, Filed, Owns, Running
  <2>2. \A n \in Names : Clear(c, n) => Clear(c, n)'
    BY <1>0, <2>0 DEF Clear, Owns, Running, Recording
  <2>3. Checked(c)'
    BY <2>0, <2>2 DEF Well, Checked, NoDaemon, NoAdapter, Fresh, Names
  <2>4. OfItsKind(c)'
    BY <1>0, <2>0 DEF Well, OfItsKind, Owns, Running
  <2>5. \A n \in Names : Leaves(c, n) => Leaves(c, n)'
    BY <1>0, <2>0 DEF Leaves
  <2>6. Stopping(c)'
    BY <2>0, <2>5 DEF Well, Stopping, Over, Names
  <2>7. Answered(c)'
    <3> SUFFICES ASSUME ~coEverLost, coCtl[c].at \in {"spawn", "record", "await", "started"},
                        NEW p \in coCtl[c].mine, NEW n \in Names, Owns(p, n)'
                 PROVE  \/ coProc'[p].told
                        \/ coCtl[c].at \in {"record", "await"} /\ p = coCtl[c].pid /\ ~coCtl'[c].heard
      BY <1>0, <2>0 DEF Answered
    <3>1. p \in Pids /\ Owns(p, n) /\ coProc'[p].runs /\ (coProc[p].told => coProc'[p].told)
      BY <1>0, <2>0 DEF Owns, Running, Dwindles
    <3>2. CASE coProc[p].told
      BY <3>1, <3>2
    <3>3. CASE coCtl[c].at \in {"record", "await"} /\ p = coCtl[c].pid /\ ~coCtl[c].heard
      <4>1. n = coCtl[c].name
        BY <2>0, <3>1, <3>3 DEF Well, OfItsKind
      <4> QED BY <3>1, <3>3, <4>1 DEF HeardFromItsOwn
    <3> QED BY <2>0, <3>1, <3>2, <3>3 DEF Well, Answered
  <2> QED BY <2>1, <2>3, <2>4, <2>6, <2>7 DEF Well
<1> QED BY <1>1, <1>2, <1>3 DEF Orderly

LEMMA NoneHeard == ASSUME UNCHANGED coCtl PROVE OnlyHears /\ HeardFromItsOwn
BY DEF OnlyHears, HeardFromItsOwn

LEMMA HeardIsHeard ==
    ASSUME ControlType, Orderly, NEW p \in Pids, NEW kind \in Names, Heard(kind),
           Owns(p, kind), coProc'[p].told
    PROVE  OnlyHears /\ HeardFromItsOwn
<1>0. \A c \in Ctls : coCtl[c] \in RunType
  BY DEF ControlType
<1>1. \A c \in Ctls : \/ coCtl'[c] = coCtl[c]
                      \/ /\ coCtl[c].at \in {"record", "await"} /\ coCtl[c].name = kind
                         /\ coCtl'[c] = [coCtl[c] EXCEPT !.heard = TRUE]
  BY DEF Heard
<1>2. OnlyHears
  <2>1. \A now \in RunType :
            LET heard == [now EXCEPT !.heard = TRUE]
            IN  /\ heard.at = now.at /\ heard.name = now.name /\ heard.pid = now.pid
                /\ heard.mine = now.mine /\ heard.stuck = now.stuck
    BY DEF RunType
  <2> QED BY <1>0, <1>1, <2>1 DEF OnlyHears
<1>3. HeardFromItsOwn
  <2> SUFFICES ASSUME NEW c \in Ctls, coCtl[c].at \in {"record", "await"}, ~coCtl[c].heard,
                      coCtl'[c].heard, ~coEverLost
               PROVE  coProc'[coCtl[c].pid].told
    BY DEF HeardFromItsOwn
  <2>1. coCtl[c].name = kind
    BY <1>1
  <2> QED BY <2>1, ItsOwnChild
<1> QED BY <1>2, <1>3

LEMMA ProcessesStayOrderly ==
    ASSUME ControlType, ControlType', Orderly, NEW p \in Pids,
           Listen(p) \/ Connect(p) \/ Ends(p) \/ Stranger(p)
    PROVE  Orderly'
<1>0. coProc \in [Pids -> ProcType]
  BY DEF ControlType
<1>e. /\ ~Exited(p).runs
      /\ \A proc \in ProcType : [proc EXCEPT !.link = 0].runs = proc.runs
                             /\ [proc EXCEPT !.link = 0].kind = proc.kind
                             /\ [proc EXCEPT !.link = 0].told = proc.told
  BY <1>0 DEF Exited, Vacant, ProcType
<1>1. CASE Listen(p) /\ PortFree
  <2>1. Dwindles
    BY <1>0, <1>1 DEF Listen, Dwindles, ProcType, Running
  <2>2. Owns(p, "feedd") /\ coProc'[p].told /\ Heard("feedd")
    BY <1>0, <1>1 DEF Listen, Owns, ProcType
  <2> QED BY <2>1, <2>2, HeardIsHeard, DwindlingIsOrderly DEF Names
<1>2. CASE Listen(p) /\ ~PortFree
  <2>1. Dwindles /\ UNCHANGED coCtl
    BY <1>0, <1>2, <1>e DEF Listen, Dwindles, Running
  <2> QED BY <2>1, NoneHeard, DwindlingIsOrderly
<1>3. CASE Connect(p)
  <2>0. PICK d \in Pids : coProc' = [coProc EXCEPT ![p].told = TRUE, ![p].link = d]
    BY <1>3 DEF Connect
  <2>1. coProc'[p].told /\ \A q \in Pids : /\ coProc'[q].runs = coProc[q].runs
                                           /\ coProc'[q].kind = coProc[q].kind
                                           /\ q # p => coProc'[q].told = coProc[q].told
    BY <1>0, <2>0 DEF ProcType
  <2>2. Dwindles
    BY <1>3, <2>1 DEF Connect, Dwindles
  <2>3. Owns(p, "adapter") /\ Heard("adapter")
    BY <1>3 DEF Connect, Owns
  <2> QED BY <2>1, <2>2, <2>3, HeardIsHeard, DwindlingIsOrderly DEF Names
<1>4. CASE Ends(p)
  <2>1. Dwindles /\ UNCHANGED coCtl
    BY <1>0, <1>4, <1>e DEF Ends, Dwindles
  <2> QED BY <2>1, NoneHeard, DwindlingIsOrderly
<1>5. CASE Stranger(p)
  <2>1. \A q \in Pids : q # p => coProc'[q] = coProc[q]
    BY <1>0, <1>5 DEF Stranger
  <2>2. coProc'[p].kind = "other"
    BY <1>0, <1>5 DEF Stranger, Vacant
  <2>3. Dwindles /\ UNCHANGED coCtl
    BY <1>5, <2>1, <2>2 DEF Stranger, Dwindles, Names
  <2> QED BY <2>3, NoneHeard, DwindlingIsOrderly
<1> QED BY <1>1, <1>2, <1>3, <1>4, <1>5

LEMMA LinksStep == ASSUME ControlType, Decent, ControlNext PROVE LinkOfAdapter' /\ RunsHaveKind' /\ StrangersAreLeftAlone'
<1> DEFINE Fine(proc) == /\ proc.link # 0 => proc.kind = "adapter"
                         /\ proc.runs => proc.kind # "none"
                         /\ proc.kind = "other" => ~proc.term
<1>0. /\ coProc \in [Pids -> ProcType] /\ \A p \in Pids : Fine(coProc[p])
      /\ Fine(Vacant)
      /\ \A c \in Ctls : coCtl[c].at \in {"signal", "await"} => coCtl[c].pid \in Pids
      /\ \A c \in Ctls : coCtl[c].name \in Names
  BY DEF ControlType, RunType, Decent, LinkOfAdapter, RunsHaveKind, StrangersAreLeftAlone, Running, Alive, Vacant
<1> SUFFICES \A p \in Pids : Fine(coProc'[p])
  BY DEF LinkOfAdapter, RunsHaveKind, StrangersAreLeftAlone, Running, Alive
<1>e. \A proc \in ProcType : Fine(proc) =>
          /\ Fine([proc EXCEPT !.link = 0]) /\ Fine([proc EXCEPT !.by = "init"])
          /\ Fine([proc EXCEPT !.told = TRUE])
          /\ Fine([proc EXCEPT !.runs = FALSE, !.told = FALSE, !.link = 0])
  BY DEF ProcType
<1>1. CASE UNCHANGED coProc
  BY <1>0, <1>1
<1>2. ASSUME NEW c \in Ctls, Begins(c, "check") \/ Begins(c, "ask") PROVE \A p \in Pids : Fine(coProc'[p])
  <2>1. \A p \in Pids : coProc'[p] \in {coProc[p], [coProc[p] EXCEPT !.by = "init"], Vacant}
    BY <1>0, <1>2 DEF Begins
  <2> HIDE DEF Fine
  <2> QED BY <1>0, <1>e, <2>1
<1>3. ASSUME NEW c \in Ctls, Spawn(c) PROVE \A p \in Pids : Fine(coProc'[p])
  <2> DEFINE born == [Vacant EXCEPT !.kind = coCtl[c].name, !.runs = TRUE, !.by = c]
  <2>1. PICK p \in Pids : coProc' = [coProc EXCEPT ![p] = born]
    BY <1>3 DEF Spawn
  <2>2. Fine(born)
    BY <1>0 DEF Vacant, Names
  <2> HIDE DEF Fine, born
  <2> QED BY <1>0, <2>1, <2>2
<1>4. ASSUME NEW c \in Ctls, GiveUp(c) PROVE \A p \in Pids : Fine(coProc'[p])
  <2>1. \A p \in Pids : coProc'[p] \in {coProc[p], Vacant}
    <3>1. CASE Running(coCtl[c].pid)
      BY <1>4, <3>1 DEF GiveUp
    <3>2. CASE ~Running(coCtl[c].pid)
      BY <1>0, <1>4, <3>2 DEF GiveUp
    <3> QED BY <3>1, <3>2
  <2> HIDE DEF Fine
  <2> QED BY <1>0, <2>1
<1>5. ASSUME NEW c \in Ctls, Signal(c) PROVE \A p \in Pids : Fine(coProc'[p])
  <2> DEFINE p0 == coCtl[c].pid
  <2>1. p0 \in Pids /\ coProc[p0].kind # "other" /\ coProc[p0] \in ProcType
    BY <1>0, <1>5 DEF Signal, Decent, SignalIsSafe
  <2>2. Fine([coProc[p0] EXCEPT !.term = TRUE])
    BY <1>0, <2>1 DEF ProcType
  <2>3. CASE coProc' = [coProc EXCEPT ![p0] = [coProc[p0] EXCEPT !.term = TRUE]]
    <3> HIDE DEF Fine, p0
    <3> QED BY <1>0, <2>1, <2>2, <2>3
  <2> QED BY <1>1, <1>5, <2>3 DEF Signal
<1>6. ASSUME NEW p \in Pids, Listen(p) \/ Connect(p) \/ Ends(p) \/ Stranger(p)
      PROVE  \A q \in Pids : Fine(coProc'[q])
  <2>0. Fine(Exited(p))
    BY <1>0, <1>e, <1>6 DEF Exited
  <2>1. CASE Listen(p)
    <3>1. \A q \in Pids : coProc'[q] \in {coProc[q], [coProc[q] EXCEPT !.told = TRUE], Exited(p)}
      <4>1. CASE PortFree
        BY <1>0, <2>1, <4>1 DEF Listen
      <4>2. CASE ~PortFree
        BY <1>0, <2>1, <4>2 DEF Listen
      <4> QED BY <4>1, <4>2
    <3> HIDE DEF Fine
    <3> QED BY <1>0, <1>e, <2>0, <3>1
  <2>2. CASE Connect(p)
    <3>0. PICK d \in Pids : coProc' = [coProc EXCEPT ![p].told = TRUE, ![p].link = d]
      BY <2>2 DEF Connect
    <3>1. coProc[p].kind = "adapter"
      BY <2>2 DEF Connect
    <3> QED BY <1>0, <3>0, <3>1 DEF ProcType
  <2>3. CASE Ends(p)
    <3>1. \A q \in Pids : coProc'[q] \in {coProc[q], [coProc[q] EXCEPT !.link = 0], Exited(p)}
      BY <1>0, <2>3 DEF Ends
    <3> HIDE DEF Fine
    <3> QED BY <1>0, <1>e, <2>0, <3>1
  <2>4. CASE Stranger(p)
    <3> DEFINE other == [Vacant EXCEPT !.kind = "other", !.runs = TRUE]
    <3>1. Fine(other)
      BY DEF Vacant
    <3>2. coProc' = [coProc EXCEPT ![p] = other]
      BY <2>4 DEF Stranger
    <3> HIDE DEF Fine, other
    <3> QED BY <1>0, <3>1, <3>2
  <2> QED BY <1>6, <2>1, <2>2, <2>3, <2>4
<1> QED
  BY <1>1, <1>2, <1>3, <1>4, <1>5, <1>6
  DEF ControlNext, CheckPid, CheckPort, Record, Ready, Ask, CannotTell, WaitEnds, Forget, Interrupt

\* What is to be signalled is no stranger: the pid was asked about, and pids are
\* not used again between the question and the signal.
LEMMA SignalStaysSafe == ASSUME ControlType, Decent, ControlNext PROVE SignalIsSafe'
<1>0. /\ coProc \in [Pids -> ProcType] /\ SignalIsSafe /\ coCtl \in [Ctls -> RunType]
      /\ \A c \in Ctls : coCtl[c].at \in {"signal", "await", "wait"} => coCtl[c].pid \in Pids
      /\ \A c \in Ctls : coCtl[c] \in RunType /\ coCtl[c].name \in Names /\ coCtl[c].stuck \in SUBSET Pids
      /\ \A n \in Names : coFile[n] \in Pids \cup {0}
  BY DEF ControlType, RunType, Decent
<1> DEFINE SameKinds == \A p \in Pids : coProc'[p].kind = "other" => coProc[p].kind = "other"
           NoneAsks == \A d \in Ctls : coCtl'[d].at = "signal" => /\ coCtl[d].at = "signal"
                                                                  /\ coCtl'[d].pid = coCtl[d].pid
<1>1. SameKinds /\ NoneAsks => SignalIsSafe'
  BY <1>0 DEF SignalIsSafe
<1>2. \A c \in Ctls : \A now : Moved(c, now) /\ now.at # "signal" => NoneAsks
  BY DEF Moved
<1>3. \A c \in Ctls : Moved(c, coCtl'[c]) /\ coCtl'[c].at # "signal" => NoneAsks
  BY <1>2
<1>4. ASSUME NEW c \in Ctls, NEW stuck \in SUBSET Pids, Onward(c, stuck) PROVE NoneAsks
  <2>1. CASE coCtl[c].name = "adapter"
    <3>1. Moved(c, [coCtl[c] EXCEPT !.at = "ask", !.name = "feedd", !.stuck = stuck])
      BY <1>0, <1>4, <2>1, GoesOnward
    <3>2. [coCtl[c] EXCEPT !.at = "ask", !.name = "feedd", !.stuck = stuck].at # "signal"
      BY <1>0 DEF RunType
    <3> QED BY <1>2, <3>1, <3>2
  <2>2. CASE coCtl[c].name # "adapter"
    <3> DEFINE last(at) == [coCtl[c] EXCEPT !.stuck = stuck, !.at = at]
    <3>1. Moved(c, last("refused")) \/ Moved(c, last("stopped")) \/ Moved(c, last("stuck"))
      BY <1>0, <1>4, <2>2, GoesOnward
    <3>2. last("refused").at # "signal" /\ last("stopped").at # "signal" /\ last("stuck").at # "signal"
      BY <1>0 DEF RunType
    <3> HIDE DEF last
    <3> QED BY <1>2, <3>1, <3>2
  <2> QED BY <2>1, <2>2
<1>5. ASSUME NEW c \in Ctls, NEW at \in Stages \ {"signal"}, Goes(c, at) PROVE NoneAsks
  <2>1. Moved(c, [coCtl[c] EXCEPT !.at = at]) /\ [coCtl[c] EXCEPT !.at = at].at = at
    BY <1>0, <1>5, GoesTo DEF RunType
  <2> QED BY <1>2, <2>1
<1>6. UNCHANGED coProc => SameKinds
  OBVIOUS
<1> HIDE DEF NoneAsks
<1>11. ASSUME NEW c \in Ctls, Begins(c, "check") \/ Begins(c, "ask") PROVE SignalIsSafe'
  <2>1. SameKinds
    <3>1. \A p \in Pids : coProc'[p] \in {coProc[p], [coProc[p] EXCEPT !.by = "init"], Vacant}
      BY <1>0, <1>11 DEF Begins
    <3>2. \A p \in Pids : [coProc[p] EXCEPT !.by = "init"].kind = coProc[p].kind
      BY <1>0 DEF ProcType
    <3>3. Vacant.kind = "none"
      BY DEF Vacant
    <3> QED BY <3>1, <3>2, <3>3
  <2>2. NoneAsks
    BY <1>11 DEF Begins, NewRun, NoneAsks
  <2> QED BY <1>1, <2>1, <2>2
<1>12. ASSUME NEW c \in Ctls, CheckPid(c) PROVE SignalIsSafe'
  <2>1. Moved(c, coCtl'[c]) /\ coCtl'[c].at # "signal"
    <3>1. coCtl[c] \in RunType /\ coCtl[c].at = "check"
      BY <1>0, <1>12 DEF CheckPid
    <3> QED BY <3>1, <1>12, CheckPidMoves DEF Moved, RunType
  <2> QED BY <1>1, <1>3, <1>6, <1>12, <2>1 DEF CheckPid
<1>13. ASSUME NEW c \in Ctls, CheckPort(c) PROVE SignalIsSafe'
  <2>1. Moved(c, coCtl'[c])
    BY <1>13, CheckPortMoves DEF Moved
  <2> DEFINE ran(at) == [coCtl[c] EXCEPT !.at = at, !.name = "feedd"]
  <2>2. ran("spawn").at # "signal" /\ ran("refused").at # "signal"
    BY <1>0 DEF RunType
  <2>3. coCtl'[c].at # "signal"
    <3>1. coCtl'[c] = ran("spawn") \/ coCtl'[c] = ran("refused")
      BY <1>13, CheckPortMoves DEF Moved
    <3> HIDE DEF ran
    <3> QED BY <2>2, <3>1
  <2> QED BY <1>1, <1>3, <1>6, <1>13, <2>1, <2>3 DEF CheckPort
<1>14. ASSUME NEW c \in Ctls, Spawn(c) PROVE SignalIsSafe'
  <2> DEFINE ran(p) == [coCtl[c] EXCEPT !.at = "record", !.pid = p, !.heard = FALSE, !.mine = @ \cup {p}]
  <2>1. PICK p \in Pids :
            /\ coProc' = [coProc EXCEPT ![p] = [Vacant EXCEPT !.kind = coCtl[c].name, !.runs = TRUE, !.by = c]]
            /\ Moved(c, ran(p))
    BY <1>14, SpawnMoves
  <2>2. ran(p).at # "signal"
    BY <1>0 DEF RunType
  <2>3. SameKinds
    BY <1>0, <2>1 DEF Vacant, Names
  <2> HIDE DEF ran
  <2> QED BY <1>1, <1>2, <2>1, <2>2, <2>3
<1>15. ASSUME NEW c \in Ctls, Record(c) PROVE SignalIsSafe'
  BY <1>1, <1>5, <1>6, <1>15 DEF Record, Stages
<1>16. ASSUME NEW c \in Ctls, Ready(c) PROVE SignalIsSafe'
  <2>1. Moved(c, coCtl'[c])
    BY <1>16, ReadyMoves DEF Moved
  <2> DEFINE ran(at) == [coCtl[c] EXCEPT !.at = at, !.name = "adapter"]
  <2>2. ran("spawn").at # "signal" /\ ran("started").at # "signal"
    BY <1>0 DEF RunType
  <2>3. coCtl'[c].at # "signal"
    <3>1. coCtl'[c] = ran("spawn") \/ coCtl'[c] = ran("started")
      BY <1>16, ReadyMoves DEF Moved
    <3> HIDE DEF ran
    <3> QED BY <2>2, <3>1
  <2> QED BY <1>1, <1>3, <1>6, <1>16, <2>1, <2>3 DEF Ready
<1>17. ASSUME NEW c \in Ctls, GiveUp(c) PROVE SignalIsSafe'
  <2>1. [coCtl[c] EXCEPT !.at = "ask", !.name = "adapter", !.rollback = TRUE].at # "signal"
    BY <1>0 DEF RunType
  <2>2. NoneAsks
    BY <1>2, <1>17, <2>1, GiveUpMoves
  <2>3. SameKinds
    <3>1. CASE Running(coCtl[c].pid)
      BY <1>17, <3>1 DEF GiveUp
    <3>2. CASE ~Running(coCtl[c].pid)
      BY <1>0, <1>17, <3>2 DEF GiveUp, Vacant
    <3> QED BY <3>1, <3>2
  <2> QED BY <1>1, <2>2, <2>3
<1>18. ASSUME NEW c \in Ctls, Ask(c) PROVE SignalIsSafe'
  <2>1. CASE Onward(c, coCtl[c].stuck)
    BY <1>0, <1>1, <1>4, <1>6, <1>18, <2>1 DEF Ask
  <2> DEFINE n0 == coCtl[c].name
             p0 == coFile[n0]
             now(at) == [coCtl[c] EXCEPT !.pid = p0, !.at = at]
  <2>2. CASE p0 \in Pids /\ Moved(c, now(IF Owns(p0, n0) THEN "signal" ELSE "forget"))
    <3>1. now("signal").pid = p0 /\ now("forget").at # "signal"
      BY <1>0 DEF RunType
    <3> HIDE DEF now
    <3>2. CASE Owns(p0, n0)
      <4>1. Moved(c, now("signal")) /\ coProc[p0].kind # "other"
        BY <1>0, <2>2, <3>2 DEF Owns, Names
      <4> QED BY <1>0, <1>18, <3>1, <4>1 DEF Ask, SignalIsSafe, Moved
    <3>3. CASE ~Owns(p0, n0)
      BY <1>1, <1>2, <1>6, <1>18, <2>2, <3>1, <3>3 DEF Ask
    <3> QED BY <3>2, <3>3
  <2> QED BY <1>18, <2>1, <2>2, AskMoves
<1>19. ASSUME NEW c \in Ctls, CannotTell(c) PROVE SignalIsSafe'
  <2> DEFINE stuck == coCtl[c].stuck \cup {IF coCtl[c].at = "ask" THEN coFile[coCtl[c].name]
                                           ELSE coCtl[c].pid}
  <2>1. stuck \in SUBSET Pids /\ Onward(c, stuck)
    BY <1>0, <1>19 DEF CannotTell
  <2> HIDE DEF stuck
  <2> QED BY <1>1, <1>4, <1>6, <1>19, <2>1 DEF CannotTell
<1>20. ASSUME NEW c \in Ctls, Signal(c) PROVE SignalIsSafe'
  <2>0. coCtl[c].pid \in Pids /\ coCtl[c].stuck \cup {coCtl[c].pid} \in SUBSET Pids
    BY <1>0, <1>20 DEF Signal
  <2>1. SameKinds
    BY <1>0, <1>20 DEF Signal, ProcType
  <2>2. NoneAsks
    BY <1>4, <1>5, <1>20, <2>0 DEF Signal, Stages, Asking
  <2> QED BY <1>1, <2>1, <2>2
<1>21. ASSUME NEW c \in Ctls, WaitEnds(c) PROVE SignalIsSafe'
  <2>0. coCtl[c].stuck \cup {coCtl[c].pid} \in SUBSET Pids
    BY <1>0, <1>21 DEF WaitEnds
  <2> QED BY <1>1, <1>4, <1>5, <1>6, <1>21, <2>0 DEF WaitEnds, Stages, Asking
<1>22. ASSUME NEW c \in Ctls, Forget(c) PROVE SignalIsSafe'
  BY <1>0, <1>1, <1>4, <1>6, <1>22 DEF Forget
<1>23. ASSUME NEW c \in Ctls, Interrupt(c) PROVE SignalIsSafe'
  BY <1>1, <1>5, <1>6, <1>23 DEF Interrupt, Stages, Ended
<1>24. ASSUME NEW p \in Pids, Listen(p) \/ Connect(p) \/ Ends(p) PROVE SignalIsSafe'
  <2>1. SameKinds
    <3>1. Exited(p).kind \in {coProc[p].kind, "none"}
      BY <1>0 DEF Exited, ProcType, Vacant
    <3>2. CASE Listen(p)
      BY <1>0, <3>1, <3>2 DEF Listen, ProcType
    <3>3. CASE Connect(p)
      BY <1>0, <3>3 DEF Connect, ProcType
    <3>4. CASE Ends(p)
      <4>1. \A proc \in ProcType : [proc EXCEPT !.link = 0].kind = proc.kind
        BY DEF ProcType
      <4> QED BY <1>0, <3>1, <3>4, <4>1 DEF Ends
    <3> QED BY <1>24, <3>2, <3>3, <3>4
  <2>2. NoneAsks
    <3>1. \A d \in Ctls : /\ [coCtl[d] EXCEPT !.heard = TRUE].at = coCtl[d].at
                          /\ [coCtl[d] EXCEPT !.heard = TRUE].pid = coCtl[d].pid
      BY <1>0 DEF RunType
    <3>2. \A kind : Heard(kind) => \A d \in Ctls : coCtl'[d] \in {coCtl[d], [coCtl[d] EXCEPT !.heard = TRUE]}
      BY DEF Heard
    <3>3. \A d \in Ctls : coCtl'[d] \in {coCtl[d], [coCtl[d] EXCEPT !.heard = TRUE]}
      BY <1>24, <3>2 DEF Listen, Connect, Ends
    <3> QED BY <3>1, <3>3 DEF NoneAsks
  <2> QED BY <1>1, <2>1, <2>2
<1>25. ASSUME NEW p \in Pids, Stranger(p) PROVE SignalIsSafe'
  BY <1>0, <1>25 DEF Stranger, SignalIsSafe
<1> QED
  BY <1>11, <1>12, <1>13, <1>14, <1>15, <1>16, <1>17, <1>18, <1>19, <1>20, <1>21, <1>22, <1>23,
     <1>24, <1>25 DEF ControlNext

LEMMA OrderlyStep ==
    ASSUME ControlType, ControlType', Decent, Orderly, ControlNext, ~coOverlap'
    PROVE  Orderly'
<1> USE DEF Decent
<1>1. ASSUME NEW c \in Ctls, Begins(c, "check") \/ Begins(c, "ask") PROVE Orderly'
  BY <1>1, BeginsIsOrderly
<1>2. ASSUME NEW c \in Ctls,
             \/ CheckPid(c) \/ CheckPort(c) \/ Spawn(c) \/ Record(c) \/ Ready(c) \/ GiveUp(c)
             \/ Ask(c) \/ CannotTell(c) \/ Signal(c) \/ WaitEnds(c) \/ Forget(c) \/ Interrupt(c)
      PROVE  Orderly'
  <2>1. coCtl[c].at # "idle"
    BY <1>2 DEF CheckPid, CheckPort, Spawn, Record, Ready, GiveUp, Ask, CannotTell, Signal,
                WaitEnds, Forget, Interrupt, Busy, Ended
  <2>2. Found' /\ Well(c)'
    BY <1>2, CheckPidKeeps, CheckPortKeeps, SpawnKeeps, RecordKeeps, ReadyKeeps, GiveUpKeeps,
       AskKeeps, CannotTellKeeps, SignalKeeps, WaitEndsKeeps, ForgetKeeps, InterruptKeeps
  <2>3. \A d \in Ctls : d # c => coCtl'[d] = coCtl[d]
    BY <1>2 DEF CheckPid, CheckPort, Spawn, Record, Ready, GiveUp, Ask, CannotTell, Signal,
                WaitEnds, Forget, Interrupt, Onward, Goes, Moves, ControlType
  <2>4. Moved(c, coCtl'[c])
    BY <2>3 DEF Moved, ControlType
  <2> QED BY <2>1, <2>2, <2>4, OneSteps
<1>3. ASSUME NEW p \in Pids, Listen(p) \/ Connect(p) \/ Ends(p) \/ Stranger(p) PROVE Orderly'
  BY <1>3, ProcessesStayOrderly
<1> QED BY <1>1, <1>2, <1>3 DEF ControlNext

LEMMA AccountsStep == ASSUME Accounts, [ControlNext]_controlVars PROVE Accounts'
<1>1. CASE ControlNext
  <2>1. ControlType' /\ Decent'
    BY <1>1, ControlTypeStep, LinksStep, SignalStaysSafe DEF Accounts, Decent
  <2>2. ~coOverlap' => ~coOverlap
    BY <1>1 DEF ControlNext, Begins, CheckPid, CheckPort, Spawn, Record, Ready, GiveUp, Ask,
        CannotTell, Signal, WaitEnds, Forget, Interrupt, Listen, Connect, Ends, Stranger
  <2> QED BY <1>1, <2>1, <2>2, OrderlyStep DEF Accounts
<1>2. CASE UNCHANGED controlVars
  <2> USE <1>2 DEF controlVars
  <2>1. ControlType'
    BY DEF Accounts, ControlType
  <2>2. Decent'
    BY DEF Accounts, Decent, LinkOfAdapter, RunsHaveKind, SignalIsSafe, StrangersAreLeftAlone, Running, Alive
  <2>3. ASSUME Orderly PROVE Orderly'
    BY <2>3 DEF Orderly, OneAtWork, Found, Well, Filed, Checked, NoDaemon, NoAdapter, Fresh, Clear,
        OfItsKind, Stopping, Over, Leaves, Answered, Owns, Running, Recording
  <2> QED BY <2>1, <2>2, <2>3 DEF Accounts
<1> QED BY <1>1, <1>2

LEMMA AccountsBegin == ControlInit => Accounts
<1> SUFFICES ASSUME ControlInit PROVE Accounts
  OBVIOUS
<1>1. NewRun("idle") \in RunType /\ NewRun("idle").at = "idle" /\ Vacant \in ProcType
  BY DEF NewRun, RunType, Vacant, ProcType, Stages, Ended, Names
<1>2. /\ \A p \in Pids : ~coProc[p].runs /\ coProc[p].link = 0 /\ coProc[p].kind = "none"
      /\ \A c \in Ctls : coCtl[c].at = "idle"
  BY <1>1 DEF ControlInit, Vacant
<1>3. ControlType
  BY <1>1, <1>2 DEF ControlInit, ControlType
<1>4. Decent
  BY <1>2 DEF Decent, LinkOfAdapter, RunsHaveKind, SignalIsSafe, StrangersAreLeftAlone, Running, Alive
<1>5. Orderly
  BY <1>2 DEF Orderly, OneAtWork, Found, Well, Filed, Checked, NoDaemon, NoAdapter, Fresh,
      OfItsKind, Stopping, Over, Asking, Answered, Owns, Running
<1> QED BY <1>3, <1>4, <1>5 DEF Accounts

LEMMA AccountsTell == Accounts => ProcessesAreAccounted
<1> SUFFICES ASSUME Accounts PROVE ProcessesAreAccounted
  OBVIOUS
<1>1. \A p \in Children : p \in Pids /\ coProc[p].kind \in Names /\ Owns(p, coProc[p].kind)
  BY DEF Children, Owns
<1>2. NothingRunsUnfound
  BY <1>1 DEF NothingRunsUnfound, Accounts, Orderly, Found, Recording, Busy, Ended
<1>3. ReportsAreTrue
  <2> SUFFICES ASSUME NEW c \in Ctls, ~coOverlap
               PROVE  /\ coCtl[c].at = "stopped" => Children \subseteq coLost
                      /\ coCtl[c].at = "refused" =>
                            coCtl[c].mine \cap Children \subseteq coLost \cup coCtl[c].stuck
                      /\ coCtl[c].at = "started" /\ ~coEverLost =>
                            \A p \in coCtl[c].mine \cap Children : coProc[p].told
    BY DEF ReportsAreTrue
  <2>1. Well(c)
    BY DEF Accounts, Orderly
  <2>2. Over(c) => Children \subseteq coLost \cup coCtl[c].stuck
    BY <1>1, <2>1 DEF Well, Stopping, Leaves
  <2>3. coCtl[c].at = "stopped" => Over(c) /\ coCtl[c].stuck = {}
    BY <2>1 DEF Well, Stopping, Over
  <2>4. coCtl[c].at = "refused" => Over(c) \/ coCtl[c].mine = {}
    BY DEF Over
  <2>5. coCtl[c].at = "started" /\ ~coEverLost => \A p \in coCtl[c].mine \cap Children : coProc[p].told
    BY <1>1, <2>1 DEF Well, Answered
  <2> QED BY <2>2, <2>3, <2>4, <2>5
<1>4. OneAdapterFeeds
  <2> SUFFICES ASSUME ~coOverlap, ~coEverLost, NEW p \in Children, NEW q \in Children,
                      coProc[p].link # 0, coProc[q].link # 0
               PROVE  p = q
    BY DEF OneAdapterFeeds
  <2>1. p \in Pids /\ q \in Pids /\ Owns(p, "adapter") /\ Owns(q, "adapter") /\ coLost = {}
    BY <1>1 DEF Accounts, Decent, LinkOfAdapter, ControlType
  <2>2. /\ coFile["adapter"] = p \/ \E c \in Ctls : Recording(c, p, "adapter")
        /\ coFile["adapter"] = q \/ \E c \in Ctls : Recording(c, q, "adapter")
    BY <2>1 DEF Accounts, Orderly, Found, Names
  <2>3. \A c \in Ctls : coCtl[c].at = "record" => Clear(c, "adapter")
    BY DEF Accounts, Orderly, Well, Checked, NoAdapter
  <2>4. \A c, d \in Ctls : Recording(c, p, "adapter") /\ Recording(d, q, "adapter") => p = q
    BY DEF Accounts, Orderly, OneAtWork, Recording
  <2>5. \A c \in Ctls : Recording(c, p, "adapter") /\ coFile["adapter"] = q => p = q
    BY <2>1, <2>3 DEF Clear, Recording
  <2>6. \A c \in Ctls : Recording(c, q, "adapter") /\ coFile["adapter"] = p => p = q
    BY <2>1, <2>3 DEF Clear, Recording
  <2> QED BY <2>2, <2>4, <2>5, <2>6
<1> QED BY <1>2, <1>3, <1>4 DEF Accounts, Decent, ProcessesAreAccounted

\* However the runs of obctl, the crashes, the interrupts and the pids that are
\* used again are ordered: no stranger is signalled, no child is out of its pid
\* file unless it was lost, and what start and stop report is so.
THEOREM ProcessesStayAccounted == ControlSpec => []ProcessesAreAccounted
<1>1. ControlInit => Accounts
  BY AccountsBegin
<1>2. Accounts /\ [ControlNext]_controlVars => Accounts'
  BY AccountsStep
<1>3. Accounts => ProcessesAreAccounted
  BY AccountsTell
<1> QED BY <1>1, <1>2, <1>3, PTL DEF ControlSpec

HIDE ControlAssumption

--------------------------------------------------------------------------------
(***************************************************************************)
(* Theorems about Window, for any number of files and runs, any ring and   *)
(* any buffer.                                                             *)
(*                                                                         *)
(* The argument.  A book holds one run as long as its records are of the   *)
(* run the cursor counts in; the one step that could add another's, Drain, *)
(* marks the window as overtaken when it does.  What has to be shown is    *)
(* that no step that clears the mark leaves the records behind, and that   *)
(* is where the loop's replacement of its book is needed.                  *)
(***************************************************************************)

USE WindowAssumption

BookOfOneRun == ~overtaken => book \subseteq {since}

LEMMA WindowInitType == Init => TypeOK
<1> SUFFICES ASSUME Init PROVE TypeOK
  OBVIOUS
<1>1. PICK f \in Files :
        /\ path = f /\ writer = f /\ mapped = f
        /\ run = [g \in Files |-> IF g = f THEN 1 ELSE 0]
        /\ phase = [g \in Files |-> IF g = f THEN "ready" ELSE "empty"]
  BY DEF Init
<1>2. run \in [Files -> 0 .. MaxRuns] /\ phase \in [Files -> {"empty", "sized", "ready"}]
  BY <1>1
<1>3. runs \in Runs /\ since \in Runs /\ cursor \in Nat /\ wseq \in [Files -> Nat]
  BY DEF Init, Runs
<1>4. book \in SUBSET Runs /\ alive \in BOOLEAN /\ overtaken \in BOOLEAN /\ pc \in {"check", "drain"}
  BY DEF Init
<1>5. QED
  BY <1>1, <1>2, <1>3, <1>4 DEF TypeOK

LEMMA FeedType == ASSUME TypeOK, Feed PROVE TypeOK'
<1> USE DEF TypeOK, Runs, windowVars
<1>1. CASE Publish
  BY <1>1 DEF Publish
<1>2. CASE Stop
  BY <1>2 DEF Stop
<1>3. CASE Unlink
  BY <1>3 DEF Unlink
<1>4. CASE CreateTruncate
  BY <1>4 DEF CreateTruncate
<1>5. CASE CreateSize
  BY <1>5 DEF CreateSize
<1>6. CASE CreateHeader
  BY <1>6 DEF CreateHeader
<1>7. QED
  BY <1>1, <1>2, <1>3, <1>4, <1>5, <1>6 DEF Feed

\* A file that is mapped was the ring of some run.
RunOfMapped == run[mapped] \in Runs /\ (path # NoFile => run[path] \in Runs)

LEMMA RunsStep == ASSUME TypeOK, RunOfMapped, [Next]_vars PROVE RunOfMapped'
<1> USE DEF TypeOK, Runs, RunOfMapped
<1>1. CASE Feed
  BY <1>1 DEF Feed, Publish, Stop, Unlink, CreateTruncate, CreateSize, CreateHeader, windowVars
<1>2. CASE Loop
  BY <1>2 DEF Loop, Check, CheckReplaced, CheckBackwards, CheckFailed, CheckCurrent, CheckNotDue,
              Drain, Switch, Fault, Restart, Opens, feedVars
<1>3. CASE UNCHANGED vars
  BY <1>3 DEF vars, feedVars, windowVars
<1>4. QED
  BY <1>1, <1>2, <1>3 DEF Next

LEMMA LoopType == ASSUME TypeOK, RunOfMapped, Loop PROVE TypeOK'
<1> USE DEF TypeOK, Runs, feedVars, RunOfMapped
<1>1. CASE CheckReplaced
  BY <1>1 DEF CheckReplaced, Restart, Opens, StartOfRun, BookAfterRestart
<1>2. CASE CheckBackwards
  BY <1>2 DEF CheckBackwards, Restart, StartOfRun, BookAfterRestart
<1>3. CASE CheckFailed \/ CheckNotDue \/ Fault
  BY <1>3 DEF CheckFailed, CheckNotDue, Fault
<1>4. CASE CheckCurrent
  BY <1>4 DEF CheckCurrent
<1>5. CASE Drain
  <2>1. cursor' \in Nat
    BY <1>5 DEF Drain
  <2>2. book' \in SUBSET Runs
    BY <1>5 DEF Drain
  <2>3. overtaken' \in BOOLEAN
    BY <1>5 DEF Drain
  <2>4. since' \in Runs /\ pc' = "check"
    BY <1>5 DEF Drain
  <2>5. QED
    BY <1>5, <2>1, <2>2, <2>3, <2>4 DEF Drain
<1>6. CASE Switch
  BY <1>6 DEF Switch
<1>7. QED
  BY <1>1, <1>2, <1>3, <1>4, <1>5, <1>6 DEF Loop, Check

LEMMA BookStep == ASSUME RebuildsBook, BookOfOneRun, [Next]_vars PROVE BookOfOneRun'
<1> USE DEF BookOfOneRun
<1>1. CASE Feed
  BY <1>1 DEF Feed, Publish, Stop, Unlink, CreateTruncate, CreateSize, CreateHeader, windowVars
<1>2. CASE CheckReplaced \/ CheckBackwards \/ Switch
  BY <1>2 DEF CheckReplaced, CheckBackwards, Switch, Restart, BookAfterRestart
<1>3. CASE CheckFailed \/ CheckNotDue \/ Fault
  BY <1>3 DEF CheckFailed, CheckNotDue, Fault
<1>4. CASE CheckCurrent
  BY <1>4 DEF CheckCurrent
<1>5. CASE Drain
  BY <1>5 DEF Drain
<1>6. CASE UNCHANGED vars
  BY <1>6 DEF vars, windowVars
<1>7. QED
  BY <1>1, <1>2, <1>3, <1>4, <1>5, <1>6 DEF Next, Loop, Check

--------------------------------------------------------------------------------
\* Every variable keeps its type, whatever the daemon does to the files.
THEOREM WindowTypeCorrect == Spec => [](TypeOK /\ RunOfMapped)
<1>1. Init => TypeOK /\ RunOfMapped
  <2>1. Init => RunOfMapped
    BY DEF Init, RunOfMapped, Runs
  <2>2. QED
    BY <2>1, WindowInitType
<1>2. TypeOK /\ RunOfMapped /\ [Next]_vars => (TypeOK /\ RunOfMapped)'
  <2>1. TypeOK /\ UNCHANGED vars => TypeOK'
    BY DEF TypeOK, Runs, vars, feedVars, windowVars
  <2>2. QED
    BY <2>1, FeedType, LoopType, RunsStep DEF Next
<1>3. QED
  BY <1>1, <1>2, PTL DEF Spec

\* A window that replaces its book when it re-attaches never shows two runs in
\* one book, except after a run that had reached its cursor before it looked.
THEOREM OneRunUnlessOvertaken == RebuildsBook => (Spec => []MixedOnlyWhenOvertaken)
<1> SUFFICES ASSUME RebuildsBook PROVE Spec => []MixedOnlyWhenOvertaken
  OBVIOUS
<1>1. Init => BookOfOneRun
  BY DEF Init, BookOfOneRun
<1>2. BookOfOneRun /\ [Next]_vars => BookOfOneRun'
  BY BookStep
<1>3. BookOfOneRun => MixedOnlyWhenOvertaken
  <2> SUFFICES ASSUME BookOfOneRun, ~overtaken PROVE ~(Cardinality(book) > 1)
    BY DEF MixedOnlyWhenOvertaken
  <2>1. IsFiniteSet({since}) /\ Cardinality({since}) = 1
    BY FS_Singleton
  <2>2. IsFiniteSet(book) /\ Cardinality(book) <= 1
    BY <2>1, FS_Subset DEF BookOfOneRun
  <2>3. Cardinality(book) \in Nat
    BY <2>2, FS_CardinalityType
  <2>4. QED
    BY <2>2, <2>3
<1>4. QED
  BY <1>1, <1>2, <1>3, PTL DEF Spec
--------------------------------------------------------------------------------
(* The tail of the daemon's log: Tail.                                     *)

\* The largest of the first numbers that are in a set.
LEMMA MaxOfSome ==
    ASSUME NEW n \in Nat, NEW S, S \subseteq 1 .. n, S # {}
    PROVE  Max(S) \in S /\ \A x \in S : Max(S) >= x
<1> DEFINE R == {n - x : x \in S}
<1>1. R \subseteq Nat /\ R # {}
  OBVIOUS
<1>2. PICK r \in R : \A y \in R : r <= y
  <2> HIDE DEF R
  <2> QED BY <1>1, LeastNat
<1>3. PICK x \in S : r = n - x
  OBVIOUS
<1>4. ASSUME NEW y \in S PROVE x >= y
  <2>1. n - y \in R
    OBVIOUS
  <2>2. n - x <= n - y
    BY <1>2, <1>3, <2>1
  <2> QED BY <2>2
<1>5. \E m \in S : \A y \in S : m >= y
  BY <1>4
<1> QED BY <1>5 DEF Max

LineType == [kind : {"other", "report", "latency", "consumer"}, block : Nat, index : Nat]

\* What stands in a log: a block's lines follow each other.
Chained(log, stops) ==
    \A i \in 1 .. Len(log) :
        /\ log[i].kind = "report" => log[i].block > 0
        /\ log[i].kind = "latency" =>
              i > 1 /\ log[i - 1].kind = "report" /\ log[i - 1].block = log[i].block
        /\ log[i].kind = "consumer" =>
              /\ log[i].block \in stops
              /\ i > 1 /\ log[i - 1].block = log[i].block
              /\ \/ log[i].index = 1 /\ log[i - 1].kind = "latency"
                 \/ log[i - 1].kind = "consumer" /\ log[i - 1].index + 1 = log[i].index

\* A report of one block.
OneBlock(r, newest, stops) ==
    /\ r.counters \in {0, newest} /\ r.latency \in {0, newest}
    /\ newest \in {r.counters, r.latency} /\ newest > 0
    /\ \A i \in 1 .. Len(r.consumers) : r.consumers[i].block = newest /\ r.consumers[i].index = i
    /\ r.consumers # <<>> => newest \in stops

ReportType == [counters : Nat, latency : Nat, consumers : Seq(LineType)]

LEMMA LineParsedIsReport ==
    ASSUME NEW r \in ReportType, NEW l \in LineType
    PROVE  LineParsed(r, l) \in ReportType
<1>1. Append(r.consumers, l) \in Seq(LineType)
  BY AppendProperties DEF ReportType
<1>2. CASE l.kind = "report"
  BY <1>2 DEF LineParsed, ReportType, LineType
<1>3. CASE l.kind = "latency"
  BY <1>3 DEF LineParsed, ReportType, LineType
<1>4. CASE l.kind = "consumer"
  BY <1>1, <1>4 DEF LineParsed, ReportType, LineType
<1>5. CASE l.kind \notin {"report", "latency", "consumer"}
  BY <1>5 DEF LineParsed
<1> QED BY <1>2, <1>3, <1>4, <1>5

\* The lines are parsed one after another from the start.
LEMMA ParseReportUnrolls ==
    ASSUME NEW tail \in Seq(LineType), Start(tail) \in 1 .. Len(tail)
    PROVE  \E parsed \in [0 .. Len(tail) -> ReportType] :
              /\ \A n \in 0 .. Start(tail) - 1 : parsed[n] = NoReport
              /\ \A n \in Start(tail) .. Len(tail) : parsed[n] = LineParsed(parsed[n - 1], tail[n])
              /\ ParseReport(tail) = parsed[Len(tail)]
<1> DEFINE N == Len(tail)
           s == Start(tail)
           step == [p \in (1 .. N) \X ReportType |->
                       IF p[1] < s THEN NoReport ELSE LineParsed(p[2], tail[p[1]])]
           Body(g) == [n \in 0 .. N |-> IF n < s THEN NoReport ELSE LineParsed(g[n - 1], tail[n])]
           parsed == CHOOSE g : g = Body(g)
<1>1. N \in Nat /\ s \in 1 .. N /\ \A i \in 1 .. N : tail[i] \in LineType
  BY ElementOfSeq
<1>2. ParseReport(tail) = parsed[N]
  BY <1>1 DEF ParseReport
<1>3. NoReport \in ReportType
  BY EmptySeq DEF NoReport, ReportType
<1> HIDE DEF s
<1>4. step \in [(1 .. N) \X ReportType -> ReportType]
  <2> SUFFICES ASSUME NEW p \in (1 .. N) \X ReportType
               PROVE  (IF p[1] < s THEN NoReport ELSE LineParsed(p[2], tail[p[1]])) \in ReportType
    OBVIOUS
  <2>1. p[2] \in ReportType /\ tail[p[1]] \in LineType
    BY <1>1
  <2> QED BY <1>3, <2>1, LineParsedIsReport
<1>5. PICK f \in [0 .. N -> ReportType] : Unrolled(f, N, NoReport, step)
  <2> HIDE DEF step, N
  <2> QED BY <1>1, <1>3, <1>4, Recursion
<1>6. ASSUME NEW n \in 0 .. N
      PROVE  f[n] = IF n < s THEN NoReport ELSE LineParsed(f[n - 1], tail[n])
  <2>1. CASE n = 0
    BY <1>1, <1>5, <2>1 DEF Unrolled
  <2>2. CASE n # 0
    <3>1. n \in 1 .. N /\ n - 1 \in 0 .. N
      BY <1>1, <2>2
    <3>2. f[n] = step[<<n, f[n - 1]>>]
      BY <1>5, <3>1 DEF Unrolled
    <3>3. <<n, f[n - 1]>> \in (1 .. N) \X ReportType
      BY <3>1
    <3> QED BY <3>2, <3>3
  <2> QED BY <2>1, <2>2
<1>7. f = Body(f)
  BY <1>6
<1>8. parsed = Body(parsed)
  <2> HIDE DEF Body
  <2> QED BY <1>7
<1>9. ASSUME NEW n \in 0 .. N
      PROVE  parsed[n] = IF n < s THEN NoReport ELSE LineParsed(parsed[n - 1], tail[n])
  <2> HIDE DEF step, parsed
  <2> QED BY <1>8
<1> HIDE DEF step, parsed, Body
<1> DEFINE S == {n \in 0 .. N : parsed[n] = f[n]}
<1>10. 0 \in S
  BY <1>1, <1>6, <1>9
<1>11. ASSUME NEW n \in 0 .. N - 1, n \in S PROVE n + 1 \in S
  <2>1. n + 1 \in 0 .. N /\ (n + 1) - 1 = n
    BY <1>1
  <2>2. parsed[n] = f[n]
    BY <1>11
  <2> QED BY <1>6, <1>9, <2>1, <2>2
<1>12. N \in S
  <2>1. N \in 0 .. N
    BY <1>1
  <2> HIDE DEF S, N
  <2> QED BY <1>1, <1>10, <1>11, <2>1, Climb
<1>13. ParseReport(tail) = f[N]
  BY <1>2, <1>12
<1>14. /\ \A n \in 0 .. s - 1 : f[n] = NoReport
       /\ \A n \in s .. N : f[n] = LineParsed(f[n - 1], tail[n])
  BY <1>1, <1>6
<1> QED BY <1>5, <1>13, <1>14 DEF s

\* Where a tail begins to be read.
LEMMA StartOfTail ==
    ASSUME NEW tail \in Seq(LineType)
    PROVE  \/ /\ Starts(tail, "report") = {} /\ Starts(tail, "latency") = {} /\ Start(tail) = 0
           \/ /\ Starts(tail, "report") # {} /\ Start(tail) \in 1 .. Len(tail)
              /\ tail[Start(tail)].kind = "report"
              /\ \A i \in 1 .. Len(tail) : tail[i].kind = "report" => i <= Start(tail)
           \/ /\ Starts(tail, "report") = {} /\ Start(tail) \in 1 .. Len(tail)
              /\ tail[Start(tail)].kind = "latency"
              /\ \A i \in 1 .. Len(tail) : tail[i].kind # "report"
              /\ \A i \in 1 .. Len(tail) : tail[i].kind = "latency" => i <= Start(tail)
<1>1. Len(tail) \in Nat /\ DOMAIN tail = 1 .. Len(tail)
  OBVIOUS
<1>2. ASSUME NEW kind, Starts(tail, kind) # {}
      PROVE  /\ Max(Starts(tail, kind)) \in 1 .. Len(tail)
             /\ tail[Max(Starts(tail, kind))].kind = kind
             /\ \A i \in 1 .. Len(tail) : tail[i].kind = kind => i <= Max(Starts(tail, kind))
  <2>1. Starts(tail, kind) \subseteq 1 .. Len(tail)
    BY <1>1 DEF Starts
  <2>2. Max(Starts(tail, kind)) \in Starts(tail, kind)
        /\ \A x \in Starts(tail, kind) : Max(Starts(tail, kind)) >= x
    BY <1>1, <1>2, <2>1, MaxOfSome
  <2> DEFINE m == Max(Starts(tail, kind))
  <2> HIDE DEF m
  <2>3. m \in 1 .. Len(tail) /\ tail[m].kind = kind
    BY <1>1, <2>2 DEF Starts, m
  <2>4. ASSUME NEW i \in 1 .. Len(tail), tail[i].kind = kind PROVE i <= m
    <3>1. i \in Starts(tail, kind)
      BY <1>1, <2>4 DEF Starts
    <3> QED BY <2>2, <2>3, <3>1 DEF m
  <2> QED BY <2>3, <2>4 DEF m
<1>3. \A i \in 1 .. Len(tail) : Starts(tail, "report") = {} => tail[i].kind # "report"
  BY <1>1 DEF Starts
<1> QED BY <1>2, <1>3 DEF Start

\* What has been parsed of a block up to a line.
ParsedTo(r, line, b, stops) ==
    /\ OneBlock(r, b, stops)
    /\ line.kind \in {"report", "latency", "consumer"} => line.block = b
    /\ line.kind \in {"report", "latency"} => r.consumers = <<>>
    /\ line.kind = "consumer" => Len(r.consumers) = line.index

\* A line more of the block.
LEMMA ParsedOneMore ==
    ASSUME NEW r \in ReportType, NEW prev \in LineType, NEW l \in LineType, NEW b \in Nat, NEW stops,
           ParsedTo(r, prev, b, stops), l.kind # "report",
           l.kind = "latency" => prev.kind = "report" /\ prev.block = l.block,
           l.kind = "consumer" =>
               /\ l.block \in stops /\ prev.block = l.block
               /\ \/ l.index = 1 /\ prev.kind = "latency"
                  \/ prev.kind = "consumer" /\ prev.index + 1 = l.index
    PROVE  ParsedTo(LineParsed(r, l), l, b, stops)
<1>1. r.consumers \in Seq(LineType) /\ Len(r.consumers) \in Nat
  BY DEF ReportType
<1>2. CASE l.kind = "latency"
  <2>1. LineParsed(r, l) = [r EXCEPT !.latency = l.block]
    BY <1>2 DEF LineParsed
  <2>2. l.block = b /\ r.consumers = <<>>
    BY <1>2 DEF ParsedTo
  <2>3. /\ LineParsed(r, l).counters = r.counters /\ LineParsed(r, l).latency = b
        /\ LineParsed(r, l).consumers = <<>>
    BY <2>1, <2>2 DEF ReportType
  <2> QED BY <1>2, <2>2, <2>3 DEF ParsedTo, OneBlock
<1>3. CASE l.kind = "consumer"
  <2> DEFINE more == Append(r.consumers, l)
  <2>1. LineParsed(r, l) = [r EXCEPT !.consumers = more]
    BY <1>3 DEF LineParsed
  <2>2. l.block = b /\ b \in stops
    BY <1>3 DEF ParsedTo
  <2>3. Len(r.consumers) + 1 = l.index
    <3>1. CASE l.index = 1 /\ prev.kind = "latency"
      <4>1. r.consumers = <<>>
        BY <3>1 DEF ParsedTo
      <4> QED BY <3>1, <4>1
    <3>2. CASE prev.kind = "consumer" /\ prev.index + 1 = l.index
      BY <3>2 DEF ParsedTo
    <3> QED BY <1>3, <3>1, <3>2
  <2>4. /\ Len(more) = Len(r.consumers) + 1
        /\ \A i \in 1 .. Len(r.consumers) : more[i] = r.consumers[i]
        /\ more[Len(r.consumers) + 1] = l
    BY <1>1, AppendProperties
  <2>5. /\ LineParsed(r, l).counters = r.counters /\ LineParsed(r, l).latency = r.latency
        /\ LineParsed(r, l).consumers = more
    BY <2>1 DEF ReportType
  <2> HIDE DEF more
  <2>6. ASSUME NEW i \in 1 .. Len(more) PROVE more[i].block = b /\ more[i].index = i
    <3>1. CASE i = Len(r.consumers) + 1
      BY <2>2, <2>3, <2>4, <3>1
    <3>2. CASE i # Len(r.consumers) + 1
      <4>1. i \in 1 .. Len(r.consumers)
        BY <1>1, <2>4, <3>2
      <4>2. r.consumers[i].block = b /\ r.consumers[i].index = i
        BY <4>1 DEF ParsedTo, OneBlock
      <4> QED BY <2>4, <4>1, <4>2
    <3> QED BY <3>1, <3>2
  <2>7. OneBlock(LineParsed(r, l), b, stops)
    BY <2>2, <2>5, <2>6 DEF ParsedTo, OneBlock
  <2>8. Len(LineParsed(r, l).consumers) = l.index
    BY <2>3, <2>4, <2>5
  <2> QED BY <1>3, <2>2, <2>7, <2>8 DEF ParsedTo
<1>4. CASE l.kind \notin {"latency", "consumer"}
  <2>1. LineParsed(r, l) = r
    BY <1>4 DEF LineParsed
  <2> QED BY <1>4, <2>1 DEF ParsedTo
<1> QED BY <1>2, <1>3, <1>4

\* A tail of a chained log is read as one block, the newest.
LEMMA ParsedIsOneBlock ==
    ASSUME NEW log \in Seq(LineType), NEW stops, Chained(log, stops), NEW o \in 0 .. Len(log),
           NEW tail \in Seq(LineType), Len(tail) = Len(log) - o,
           \A i \in 1 .. Len(tail) : tail[i] = log[o + i]
    PROVE  ParseReport(tail) = NoReport \/ OneBlock(ParseReport(tail), Newest(log), stops)
<1> DEFINE N == Len(tail)
           s == Start(tail)
           b == tail[s].block
<1>1. N \in Nat /\ Len(log) \in Nat /\ DOMAIN log = 1 .. Len(log) /\ Len(log) = o + N
      /\ \A i \in 1 .. N : tail[i] \in LineType /\ o + i \in 1 .. Len(log)
  <2>1. N \in Nat /\ Len(log) \in Nat /\ DOMAIN log = 1 .. Len(log) /\ Len(log) = o + N
    OBVIOUS
  <2>2. \A i \in 1 .. N : tail[i] \in LineType
    BY ElementOfSeq
  <2> QED BY <2>1, <2>2
<1>2. CASE s = 0
  BY <1>2 DEF ParseReport
<1>3. CASE s # 0
  <2>1. s \in 1 .. N
    BY <1>3, StartOfTail
  <2>2. /\ \A i \in 1 .. N : i > s => tail[i].kind # "report"
        /\ tail[s].kind \in {"report", "latency"}
        /\ tail[s].kind = "latency" => \A i \in 1 .. N : tail[i].kind # "report"
    <3>1. CASE tail[s].kind = "report"
      <4>1. Starts(tail, "report") # {}
        BY <1>1, <2>1, <3>1 DEF Starts
      <4>2. \A i \in 1 .. N : tail[i].kind = "report" => i <= s
        BY <2>1, <4>1, StartOfTail
      <4> QED BY <2>1, <3>1, <4>2
    <3>2. CASE tail[s].kind # "report"
      BY <1>3, <3>2, StartOfTail
    <3> QED BY <3>1, <3>2
  <2> HIDE DEF s
  <2>3. \E m \in 1 .. Len(log) : /\ log[m].kind = "report" /\ log[m].block = b
                                 /\ \A i \in 1 .. Len(log) : i > m => log[i].kind # "report"
    <3>1. tail[s] = log[o + s] /\ o + s \in 1 .. Len(log)
      BY <1>1, <2>1
    <3>2. ASSUME NEW i \in 1 .. Len(log), i > o + s PROVE log[i].kind # "report"
      <4>1. i - o \in 1 .. N /\ i - o > s /\ o + (i - o) = i
        BY <1>1, <2>1, <3>2
      <4>2. tail[i - o] = log[i]
        BY <4>1
      <4> QED BY <2>2, <4>1, <4>2
    <3>3. CASE tail[s].kind = "report"
      BY <3>1, <3>2, <3>3
    <3>4. CASE tail[s].kind = "latency"
      <4>1. o + s > 1 /\ log[(o + s) - 1].kind = "report" /\ log[(o + s) - 1].block = b
        BY <3>1, <3>4 DEF Chained
      <4>2. (o + s) - 1 \in 1 .. Len(log)
        BY <1>1, <2>1, <4>1
      <4>3. ASSUME NEW i \in 1 .. Len(log), i > (o + s) - 1 PROVE log[i].kind # "report"
        <5>1. i = o + s \/ i > o + s
          BY <1>1, <2>1, <4>3
        <5> QED BY <3>1, <3>2, <3>4, <5>1
      <4> QED BY <4>1, <4>2, <4>3
    <3> QED BY <2>2, <3>3, <3>4
  <2>4. Newest(log) = b /\ b > 0 /\ b \in Nat
    <3>1. PICK m \in 1 .. Len(log) : /\ log[m].kind = "report" /\ log[m].block = b
                                     /\ \A i \in 1 .. Len(log) : i > m => log[i].kind # "report"
      BY <2>3
    <3> DEFINE at == Starts(log, "report")
    <3>2. at \subseteq 1 .. Len(log) /\ m \in at
      BY <1>1, <3>1 DEF Starts
    <3>3. Max(at) \in at /\ \A x \in at : Max(at) >= x
      <4> HIDE DEF at
      <4> QED BY <1>1, <3>2, MaxOfSome
    <3>4. Max(at) \in 1 .. Len(log) /\ log[Max(at)].kind = "report" /\ Max(at) >= m
      BY <1>1, <3>2, <3>3 DEF Starts
    <3>5. Max(at) = m
      <4> DEFINE x == Max(at)
      <4>1. x \in 1 .. Len(log) /\ x >= m /\ ~(x > m)
        BY <3>1, <3>4
      <4> HIDE DEF x
      <4>2. x = m
        BY <4>1
      <4> QED BY <4>2 DEF x
    <3>6. Newest(log) = log[m].block
      BY <3>2, <3>5 DEF Newest
    <3>7. log[m].block > 0 /\ log[m] \in LineType
      BY <3>1, ElementOfSeq DEF Chained
    <3> QED BY <3>1, <3>6, <3>7 DEF LineType
  <2>5. PICK parsed \in [0 .. N -> ReportType] :
              /\ \A n \in 0 .. s - 1 : parsed[n] = NoReport
              /\ \A n \in s .. N : parsed[n] = LineParsed(parsed[n - 1], tail[n])
              /\ ParseReport(tail) = parsed[N]
    BY <2>1, ParseReportUnrolls DEF s
  <2> HIDE DEF N, b
  <2> DEFINE S == {n \in 0 .. N - s : ParsedTo(parsed[s + n], tail[s + n], b, stops)}
  <2>6. 0 \in S
    <3>1. parsed[s] = LineParsed(NoReport, tail[s])
      <4>1. s \in s .. N /\ s - 1 \in 0 .. s - 1
        BY <1>1, <2>1
      <4> QED BY <2>5, <4>1
    <3>2. tail[s].block = b /\ 0 \in 0 .. N - s /\ s + 0 = s
      BY <1>1, <2>1 DEF b
    <3>3. ParsedTo(parsed[s], tail[s], b, stops)
      <4>1. CASE tail[s].kind = "report"
        <5>1. parsed[s] = [counters |-> b, latency |-> 0, consumers |-> <<>>]
          BY <3>1, <3>2, <4>1 DEF LineParsed, NoReport
        <5> QED BY <2>4, <3>2, <4>1, <5>1 DEF ParsedTo, OneBlock
      <4>2. CASE tail[s].kind = "latency"
        <5>1. parsed[s] = [counters |-> 0, latency |-> b, consumers |-> <<>>]
          BY <3>1, <3>2, <4>2 DEF LineParsed, NoReport
        <5> QED BY <2>4, <3>2, <4>2, <5>1 DEF ParsedTo, OneBlock
      <4> QED BY <2>2, <4>1, <4>2
    <3> QED BY <3>2, <3>3
  <2>7. ASSUME NEW n \in 0 .. (N - s) - 1, n \in S PROVE n + 1 \in S
    <3> DEFINE k == s + n
    <3>1. k \in 1 .. N /\ k + 1 \in 1 .. N /\ k + 1 > s /\ k + 1 \in s .. N /\ (k + 1) - 1 = k
          /\ s + (n + 1) = k + 1 /\ n + 1 \in 0 .. N - s /\ k \in 0 .. N
      BY <1>1, <2>1
    <3>2. ParsedTo(parsed[k], tail[k], b, stops)
      BY <2>7
    <3> HIDE DEF k, S
    <3>3. parsed[k + 1] = LineParsed(parsed[k], tail[k + 1])
      BY <2>5, <3>1
    <3>4. parsed[k] \in ReportType /\ tail[k] \in LineType /\ tail[k + 1] \in LineType
      BY <1>1, <2>5, <3>1
    <3>5. tail[k] = log[o + k] /\ tail[k + 1] = log[o + k + 1] /\ (o + k + 1) - 1 = o + k
          /\ o + k + 1 \in 1 .. Len(log)
      BY SMTT(60), <1>1, <3>1 DEF N
    <3>6. /\ tail[k + 1].kind = "latency" => tail[k].kind = "report" /\ tail[k].block = tail[k + 1].block
          /\ tail[k + 1].kind = "consumer" =>
               /\ tail[k + 1].block \in stops /\ tail[k].block = tail[k + 1].block
               /\ \/ tail[k + 1].index = 1 /\ tail[k].kind = "latency"
                  \/ tail[k].kind = "consumer" /\ tail[k].index + 1 = tail[k + 1].index
      BY <3>5 DEF Chained
    <3>7. tail[k + 1].kind # "report"
      BY <2>2, <3>1
    <3>8. ParsedTo(parsed[k + 1], tail[k + 1], b, stops)
      BY <2>4, <3>2, <3>3, <3>4, <3>6, <3>7, ParsedOneMore
    <3> QED BY <3>1, <3>8 DEF S
  <2>8. N - s \in S
    <3>1. N - s \in Nat /\ N - s \in 0 .. N - s
      BY <1>1, <2>1
    <3> HIDE DEF S
    <3> QED BY <2>6, <2>7, <3>1, Climb
  <2>9. s + (N - s) = N
    BY <1>1, <2>1
  <2>10. ParsedTo(parsed[N], tail[N], b, stops)
    BY <2>8, <2>9
  <2> QED BY <2>4, <2>5, <2>10 DEF ParsedTo
<1> QED BY <1>2, <1>3


LEMMA ChainedOfNone == ASSUME NEW stops PROVE Chained(<<>>, stops)
  BY DEF Chained

\* What is chained is so as far as it goes.
LEMMA ChainedPart ==
    ASSUME NEW log \in Seq(LineType), NEW more \in Seq(LineType), NEW stops, Chained(log \o more, stops)
    PROVE  Chained(log, stops)
<1> DEFINE whole == log \o more
<1>1. Len(whole) = Len(log) + Len(more) /\ \A i \in 1 .. Len(log) : whole[i] = log[i]
  <2>1. Len(log) \in Nat /\ Len(more) \in Nat
    OBVIOUS
  <2> QED BY <2>1, ConcatProperties
<1>2. Chained(whole, stops)
  OBVIOUS
<1> HIDE DEF whole
<1>3. Len(log) \in Nat /\ Len(more) \in Nat
  OBVIOUS
<1>4. ASSUME NEW i \in 1 .. Len(log)
      PROVE  i \in 1 .. Len(whole) /\ whole[i] = log[i] /\ (i > 1 => whole[i - 1] = log[i - 1])
  <2>1. i > 1 => i - 1 \in 1 .. Len(log)
    BY <1>3
  <2> QED BY <1>1, <1>3, <2>1
<1> QED BY <1>2, <1>4 DEF Chained

\* What begins with neither may stand behind anything.
LEMMA ChainedTogether ==
    ASSUME NEW log \in Seq(LineType), NEW more \in Seq(LineType), NEW stops,
           Chained(log, stops), Chained(more, stops)
    PROVE  Chained(log \o more, stops)
<1> DEFINE whole == log \o more
           n == Len(log)
<1>1. n \in Nat /\ Len(more) \in Nat
  OBVIOUS
<1>2. /\ Len(whole) = n + Len(more)
      /\ \A i \in 1 .. n + Len(more) : whole[i] = IF i <= n THEN log[i] ELSE more[i - n]
  BY ConcatProperties
<1> HIDE DEF whole
<1>3. ASSUME NEW i \in 1 .. Len(whole), i <= n
      PROVE  i \in 1 .. Len(log) /\ whole[i] = log[i] /\ (i > 1 => whole[i - 1] = log[i - 1])
  BY <1>1, <1>2, <1>3
<1>4. ASSUME NEW i \in 1 .. Len(whole), i > n
      PROVE  i - n \in 1 .. Len(more) /\ whole[i] = more[i - n]
             /\ (i - n > 1 => whole[i - 1] = more[(i - n) - 1] /\ i > 1)
  <2>1. i - n \in 1 .. Len(more) /\ whole[i] = more[i - n]
    BY <1>1, <1>2, <1>4
  <2>2. ASSUME i - n > 1 PROVE whole[i - 1] = more[(i - n) - 1] /\ i > 1
    <3>1. i - 1 \in 1 .. n + Len(more) /\ ~(i - 1 <= n) /\ (i - 1) - n = (i - n) - 1
      BY <1>1, <1>2, <1>4, <2>2
    <3> QED BY SMTT(60), <1>1, <1>2, <2>2, <3>1
  <2> QED BY <2>1, <2>2
<1>5. ASSUME NEW i \in 1 .. Len(whole)
      PROVE  /\ whole[i].kind = "report" => whole[i].block > 0
             /\ whole[i].kind = "latency" =>
                   i > 1 /\ whole[i - 1].kind = "report" /\ whole[i - 1].block = whole[i].block
             /\ whole[i].kind = "consumer" =>
                   /\ whole[i].block \in stops
                   /\ i > 1 /\ whole[i - 1].block = whole[i].block
                   /\ \/ whole[i].index = 1 /\ whole[i - 1].kind = "latency"
                      \/ whole[i - 1].kind = "consumer" /\ whole[i - 1].index + 1 = whole[i].index
  <2>1. CASE i <= n
    <3> HIDE DEF n
    <3> QED BY <1>3, <2>1 DEF Chained
  <2>2. CASE i > n
    <3> DEFINE j == i - n
    <3>1. j \in 1 .. Len(more) /\ whole[i] = more[j] /\ (j > 1 => whole[i - 1] = more[j - 1] /\ i > 1)
      BY <1>4, <2>2
    <3> HIDE DEF j, n
    <3> QED BY <3>1 DEF Chained
  <2> QED BY <1>1, <2>1, <2>2
<1> QED BY <1>5 DEF Chained, whole

LEMMA ChainedMore ==
    ASSUME NEW log, NEW stops, NEW more, stops \subseteq more, Chained(log, stops)
    PROVE  Chained(log, more)
  BY DEF Chained

LEMMA BlockIsChained ==
    ASSUME NEW n \in Nat \ {0}, NEW stops
    PROVE  Block(n) \in Seq(LineType) /\ Chained(Block(n), stops) /\ Len(Block(n)) = 2
<1>1. Line("report", n, 0) \in LineType /\ Line("latency", n, 0) \in LineType
  BY DEF Line, LineType
<1>2. Block(n) \in Seq(LineType) /\ Len(Block(n)) = 2
  BY <1>1 DEF Block
<1>3. Block(n)[1] = Line("report", n, 0) /\ Block(n)[2] = Line("latency", n, 0)
  BY DEF Block
<1>4. /\ Line("report", n, 0).kind = "report" /\ Line("report", n, 0).block = n
      /\ Line("latency", n, 0).kind = "latency" /\ Line("latency", n, 0).block = n
  BY DEF Line
<1> DEFINE b == Block(n)
<1> HIDE DEF b
<1>5. ASSUME NEW i \in 1 .. 2
      PROVE  /\ b[i].kind = "report" => b[i].block > 0
             /\ b[i].kind = "latency" => i > 1 /\ b[i - 1].kind = "report" /\ b[i - 1].block = b[i].block
             /\ b[i].kind # "consumer"
  <2>1. CASE i = 1
    BY <1>3, <1>4, <2>1 DEF b
  <2>2. CASE i = 2
    <3>1. b[i - 1] = Line("report", n, 0)
      BY <1>3, <2>2 DEF b
    <3> QED BY <1>3, <1>4, <2>2, <3>1 DEF b
  <2> QED BY <2>1, <2>2
<1>6. Chained(b, stops)
  BY <1>2, <1>5 DEF Chained, b
<1> QED BY <1>2, <1>6 DEF b

LEMMA OtherIsChained ==
    ASSUME NEW stops
    PROVE  <<Line("other", 0, 0)>> \in Seq(LineType) /\ Chained(<<Line("other", 0, 0)>>, stops)
<1>1. Line("other", 0, 0) \in LineType /\ Line("other", 0, 0).kind = "other"
  BY DEF Line, LineType
<1> DEFINE l == Line("other", 0, 0)
<1> HIDE DEF l
<1>2. <<l>> \in Seq(LineType) /\ Len(<<l>>) = 1 /\ <<l>>[1] = l
  BY <1>1 DEF l
<1> QED BY <1>1, <1>2 DEF Chained, l

\* The last block, with a line for each subscriber behind it.
LEMMA EndIsChained ==
    ASSUME NEW n \in Nat \ {0}, NEW stops, n \in stops, NEW c \in Nat,
           NEW ends, ends = [i \in 1 .. c |-> Line("consumer", n, i)]
    PROVE  Block(n) \o ends \in Seq(LineType) /\ Chained(Block(n) \o ends, stops)
<1>1. ends \in Seq(LineType) /\ Len(ends) = c
  <2>1. \A i \in 1 .. c : Line("consumer", n, i) \in LineType
    BY DEF Line, LineType
  <2> QED BY <2>1
<1>2. \A i \in 1 .. c : ends[i].kind = "consumer" /\ ends[i].block = n /\ ends[i].index = i
  BY DEF Line
<1>3. Block(n) \in Seq(LineType) /\ Chained(Block(n), stops) /\ Len(Block(n)) = 2
  BY BlockIsChained
<1>4. Block(n)[2].kind = "latency" /\ Block(n)[2].block = n
  BY DEF Block, Line
<1> DEFINE b == Block(n)
           whole == b \o ends
<1> HIDE DEF b
<1>5. /\ whole \in Seq(LineType) /\ Len(whole) = 2 + c
      /\ \A i \in 1 .. 2 + c : whole[i] = IF i <= 2 THEN b[i] ELSE ends[i - 2]
  <2>1. b \in Seq(LineType) /\ Len(b) = 2
    BY <1>3 DEF b
  <2> HIDE DEF whole
  <2>2. /\ whole \in Seq(LineType) /\ Len(whole) = Len(b) + Len(ends)
        /\ \A i \in 1 .. Len(b) + Len(ends) : whole[i] = IF i <= Len(b) THEN b[i] ELSE ends[i - Len(b)]
    BY ZenonT(60), <1>1, <2>1, ConcatProperties DEF whole
  <2> QED BY <1>1, <2>1, <2>2
<1> HIDE DEF whole
<1>6. ASSUME NEW i \in 1 .. 2 + c
      PROVE  /\ whole[i].kind = "report" => whole[i].block > 0
             /\ whole[i].kind = "latency" =>
                   i > 1 /\ whole[i - 1].kind = "report" /\ whole[i - 1].block = whole[i].block
             /\ whole[i].kind = "consumer" =>
                   /\ whole[i].block \in stops
                   /\ i > 1 /\ whole[i - 1].block = whole[i].block
                   /\ \/ whole[i].index = 1 /\ whole[i - 1].kind = "latency"
                      \/ whole[i - 1].kind = "consumer" /\ whole[i - 1].index + 1 = whole[i].index
  <2>1. CASE i <= 2
    <3>1. i \in 1 .. Len(b) /\ whole[i] = b[i] /\ (i > 1 => whole[i - 1] = b[i - 1])
      BY <1>3, <1>5, <2>1 DEF b
    <3> QED BY <1>3, <3>1 DEF Chained, b
  <2>2. CASE i > 2
    <3>1. i - 2 \in 1 .. c /\ i - 1 \in 1 .. 2 + c /\ ~(i <= 2)
      BY <2>2
    <3>5. whole[i] = ends[i - 2]
      BY <1>5, <3>1
    <3>2. whole[i].kind = "consumer" /\ whole[i].block = n /\ whole[i].index = i - 2
      BY <1>2, <3>1, <3>5
    <3>3. CASE i = 3
      <4>1. i - 1 = 2 /\ 2 \in 1 .. 2 + c /\ 2 <= 2
        BY <3>3
      <4>2. whole[2] = b[2]
        BY <1>5, <4>1
      <4>3. whole[i - 1] = b[2]
        BY <4>1, <4>2
      <4> QED BY <1>4, <3>2, <3>3, <4>3 DEF b
    <3>4. CASE i # 3
      <4>1. (i - 1) - 2 \in 1 .. c /\ ~(i - 1 <= 2)
        BY <2>2, <3>1, <3>4
      <4>2. whole[i - 1] = ends[(i - 1) - 2]
        BY <1>5, <3>1, <4>1
      <4>3. whole[i - 1].kind = "consumer" /\ whole[i - 1].block = n /\ whole[i - 1].index = (i - 1) - 2
        BY <1>2, <4>1, <4>2
      <4>4. ((i - 1) - 2) + 1 = i - 2 /\ i > 1
        BY <2>2
      <4> QED BY <3>2, <4>3, <4>4
    <3> QED BY <3>3, <3>4
  <2> QED BY <2>1, <2>2
<1> QED BY <1>5, <1>6 DEF Chained, whole, b

--------------------------------------------------------------------------------
\* The log as it will be once what is being written has been.
Coming == IF taTo THEN taLog \o taWrites ELSE taLog

TailInv ==
    /\ taLog \in Seq(LineType) /\ taWrites \in Seq(LineType)
    /\ taTo \in BOOLEAN /\ taBlock \in Nat /\ taFrom \in Int
    /\ Chained(Coming, taStops)
    /\ taReport # NoReport => OneBlock(taReport, taSeen, taStops)

LEMMA TailInvInitially == TailInit => TailInv
<1> SUFFICES ASSUME TailInit PROVE TailInv
  OBVIOUS
<1>1. taLog = <<>> /\ taWrites = <<>> /\ taTo = FALSE /\ taBlock = 0 /\ taFrom = -1 /\ taReport = NoReport
  BY DEF TailInit
<1>2. <<>> \in Seq(LineType)
  BY EmptySeq
<1>3. Coming = <<>>
  BY <1>1 DEF Coming
<1>4. Chained(Coming, taStops)
  BY <1>3, ChainedOfNone
<1>5. -1 \in Int /\ 0 \in Nat
  OBVIOUS
<1> QED BY <1>1, <1>2, <1>4, <1>5 DEF TailInv

LEMMA TailInvKept == TailInv /\ [TailNext]_tailVars => TailInv'
<1> SUFFICES ASSUME TailInv, [TailNext]_tailVars PROVE TailInv'
  OBVIOUS
<1>1. /\ taLog \in Seq(LineType) /\ taWrites \in Seq(LineType) /\ Len(taLog) \in Nat
      /\ taTo \in BOOLEAN /\ taBlock \in Nat /\ taFrom \in Int
      /\ Chained(Coming, taStops)
      /\ taReport # NoReport => OneBlock(taReport, taSeen, taStops)
  BY DEF TailInv
<1>2. Chained(taLog, taStops)
  BY <1>1, ChainedPart DEF Coming
\* Lines to write where there were none.
<1>3. ASSUME taWrites = <<>>, NEW lines \in Seq(LineType), taWrites' = lines, taLog' = taLog,
             taStops \subseteq taStops', Chained(lines, taStops'), taTo' \in BOOLEAN,
             taBlock' \in Nat, UNCHANGED <<taFrom, taReport, taSeen>>
      PROVE  TailInv'
  <2>1. Chained(taLog, taStops')
    BY <1>2, <1>3, ChainedMore
  <2>2. Chained(taLog \o lines, taStops')
    BY <1>1, <1>3, <2>1, ChainedTogether
  <2>3. Chained(Coming', taStops')
    BY <1>3, <2>1, <2>2 DEF Coming
  <2>4. taReport' # NoReport => OneBlock(taReport', taSeen', taStops')
    BY <1>1, <1>3 DEF OneBlock
  <2> QED BY <1>1, <1>3, <2>3, <2>4 DEF TailInv
<1>4. ASSUME Up PROVE TailInv'
  BY <1>3, <1>4, <1>1, OtherIsChained DEF Up
<1>5. ASSUME Reports PROVE TailInv'
  <2>1. taBlock + 1 \in Nat \ {0}
    BY <1>1
  <2> QED BY <1>1, <1>3, <1>5, <2>1, BlockIsChained DEF Reports
<1>6. ASSUME Ending PROVE TailInv'
  <2> DEFINE n == taBlock + 1
             ends == [i \in 1 .. Consumers |-> Line("consumer", n, i)]
             other == <<Line("other", 0, 0)>>
             stops == taStops \cup {n}
  <2>1. n \in Nat \ {0} /\ Consumers \in Nat /\ n \in stops
    BY <1>1, TailAssumption
  <2>2. /\ taWrites = <<>> /\ taWrites' = other \o Block(n) \o ends /\ taLog' = taLog
        /\ taStops' = stops /\ taTo' = taTo /\ taBlock' = n /\ UNCHANGED <<taFrom, taReport, taSeen>>
    BY <1>6 DEF Ending
  <2> HIDE DEF n, stops
  <2>3. Block(n) \o ends \in Seq(LineType) /\ Chained(Block(n) \o ends, stops)
    BY <2>1, EndIsChained
  <2>4. other \in Seq(LineType) /\ Chained(other, stops)
    BY OtherIsChained
  <2>5. Block(n) \in Seq(LineType)
    BY <2>1, BlockIsChained
  <2>6. ends \in Seq(LineType)
    <3>1. \A i \in 1 .. Consumers : Line("consumer", n, i) \in LineType
      BY <2>1 DEF Line, LineType
    <3> QED BY <2>1, <3>1
  <2> HIDE DEF ends, other
  <2> DEFINE last == Block(n) \o ends
  <2>7. other \o Block(n) \o ends = other \o last
    BY SMTT(60), <2>4, <2>5, <2>6, ConcatAssociative
  <2> HIDE DEF last
  <2>8. other \o last \in Seq(LineType) /\ Chained(other \o last, stops)
    BY <2>3, <2>4, ChainedTogether, ConcatProperties DEF last
  <2>9. taStops \subseteq taStops' /\ taTo' \in BOOLEAN /\ taBlock' \in Nat
    BY <1>1, <2>1, <2>2 DEF stops
  <2> QED BY <1>3, <2>2, <2>7, <2>8, <2>9
<1>7. ASSUME WriteLine PROVE TailInv'
  <2>1. taWrites # <<>> /\ taWrites' = Tail(taWrites) /\ taTo' = taTo /\ taStops' = taStops
        /\ taLog' = (IF taTo THEN Append(taLog, Head(taWrites)) ELSE taLog)
        /\ UNCHANGED <<taBlock, taFrom, taReport, taSeen>>
    BY <1>7 DEF WriteLine
  <2>2. Head(taWrites) \in LineType /\ Tail(taWrites) \in Seq(LineType)
    BY <1>1, <2>1, HeadTailProperties
  <2>3. CASE taTo
    <3> DEFINE h == Head(taWrites)
               t == Tail(taWrites)
    <3>1. <<h>> \o t = taWrites
      BY <1>1, <2>1
    <3>2. Append(taLog, h) = taLog \o <<h>> /\ <<h>> \in Seq(LineType) /\ Append(taLog, h) \in Seq(LineType)
      BY <1>1, <2>2, AppendProperties
    <3> HIDE DEF h, t
    <3>3. (taLog \o <<h>>) \o t = taLog \o (<<h>> \o t)
      BY <1>1, <2>2, <3>2, ConcatAssociative DEF t
    <3>4. Coming' = taLog' \o taWrites' /\ Coming = taLog \o taWrites
      BY <2>1, <2>3 DEF Coming
    <3>5. Coming' = Coming
      BY <2>1, <2>3, <3>1, <3>2, <3>3, <3>4 DEF h, t
    <3> QED BY <1>1, <2>1, <2>2, <2>3, <3>2, <3>5 DEF TailInv, h
  <2>4. CASE ~taTo
    <3>1. Coming' = Coming
      BY <2>1, <2>4 DEF Coming
    <3> QED BY <1>1, <2>1, <2>2, <2>4, <3>1 DEF TailInv
  <2> QED BY <1>1, <2>3, <2>4
<1>8. ASSUME Killed PROVE TailInv'
  <2>1. taWrites' = <<>> /\ UNCHANGED <<taLog, taTo, taBlock, taFrom, taReport, taSeen, taStops>>
    BY <1>8 DEF Killed
  <2>2. Chained(taLog \o <<>>, taStops)
    <3>1. taLog \o <<>> = taLog
      BY <1>1
    <3> QED BY <1>2, <3>1
  <2>3. Chained(Coming', taStops')
    BY <1>2, <2>1, <2>2 DEF Coming
  <2> QED BY <1>1, <2>1, <2>3, EmptySeq DEF TailInv
<1>9. ASSUME RemovedLog PROVE TailInv'
  <2>1. taLog' = <<>> /\ taTo' = FALSE /\ UNCHANGED <<taWrites, taBlock, taFrom, taReport, taSeen, taStops>>
    BY <1>9 DEF RemovedLog
  <2>2. Chained(Coming', taStops')
    BY <2>1, ChainedOfNone DEF Coming
  <2> QED BY <1>1, <2>1, <2>2, EmptySeq DEF TailInv
<1>10. ASSUME PollSize PROVE TailInv'
  <2>1. UNCHANGED <<taLog, taTo, taWrites, taBlock, taStops>>
    BY <1>10 DEF PollSize
  <2>2. Coming' = Coming
    BY <2>1 DEF Coming
  <2>3. CASE taThere
    <3>1. taFrom' = Max({Len(taLog) - TailLines, 0}) /\ UNCHANGED <<taReport, taSeen>>
      BY <1>10, <2>3 DEF PollSize
    <3>2. taFrom' \in Int
      <4> DEFINE d == Len(taLog) - TailLines
      <4>1. d \in Int
        BY <1>1, TailAssumption
      <4> HIDE DEF d
      <4>2. \E x \in {d, 0} : \A y \in {d, 0} : x >= y
        <5>1. CASE d >= 0
          BY <4>1, <5>1
        <5>2. CASE d < 0
          BY <4>1, <5>2
        <5> QED BY <4>1, <5>1, <5>2
      <4>3. Max({d, 0}) \in {d, 0}
        BY <4>2 DEF Max
      <4> QED BY <3>1, <4>1, <4>3 DEF d
    <3> QED BY <1>1, <2>1, <2>2, <3>1, <3>2 DEF TailInv
  <2>4. CASE ~taThere
    <3>1. taReport' = NoReport /\ UNCHANGED taFrom
      BY <1>10, <2>4 DEF PollSize
    <3> QED BY <1>1, <2>1, <2>2, <3>1 DEF TailInv
  <2> QED BY <2>3, <2>4
<1>11. ASSUME PollRead PROVE TailInv'
  <2>1. UNCHANGED <<taLog, taTo, taWrites, taBlock, taStops>> /\ taFrom' = -1 /\ taFrom >= 0
    BY <1>11 DEF PollRead
  <2>2. Coming' = Coming
    BY <2>1 DEF Coming
  <2>3. CASE ~taThere
    <3>1. UNCHANGED <<taReport, taSeen>>
      BY <1>11, <2>3 DEF PollRead
    <3> QED BY <1>1, <2>1, <2>2, <3>1 DEF TailInv
  <2>4. CASE taThere
    <3>1. PICK cut \in {0, 1} : taReport' = ParseReport(SubSeq(taLog, taFrom + 1 + cut, Len(taLog)))
      BY <1>11, <2>4 DEF PollRead
    <3>2. taSeen' = Newest(taLog)
      BY <1>11, <2>4 DEF PollRead
    <3> DEFINE from == taFrom + 1 + cut
               tail == SubSeq(taLog, from, Len(taLog))
    <3>3. from \in Nat \ {0}
      BY <1>1, <2>1
    <3>4. \A i \in from .. Len(taLog) : taLog[i] \in LineType
      BY <1>1, <3>3, ElementOfSeq
    <3> HIDE DEF from
    <3>5. /\ tail \in Seq(LineType)
          /\ Len(tail) = IF from <= Len(taLog) THEN (Len(taLog) - from) + 1 ELSE 0
          /\ \A i \in 1 .. (Len(taLog) - from) + 1 : tail[i] = taLog[from + i - 1]
      BY <1>1, <3>3, <3>4, SubSeqProperties
    <3> DEFINE o == IF from <= Len(taLog) THEN from - 1 ELSE Len(taLog)
    <3>6. o \in 0 .. Len(taLog) /\ Len(tail) = Len(taLog) - o
      BY <1>1, <3>3, <3>5
    <3>7. ASSUME NEW i \in 1 .. Len(tail) PROVE tail[i] = taLog[o + i]
      <4>1. CASE from <= Len(taLog)
        <5>1. o + i = from + i - 1 /\ i \in 1 .. (Len(taLog) - from) + 1
          BY <1>1, <3>3, <3>5, <4>1
        <5> QED BY <3>5, <5>1
      <4>2. CASE ~(from <= Len(taLog))
        BY <3>5, <4>2
      <4> QED BY <4>1, <4>2
    <3> HIDE DEF o, tail
    <3>8. ParseReport(tail) = NoReport \/ OneBlock(ParseReport(tail), Newest(taLog), taStops)
      BY <1>1, <1>2, <3>5, <3>6, <3>7, ParsedIsOneBlock
    <3>9. taReport' # NoReport => OneBlock(taReport', taSeen', taStops')
      BY <2>1, <3>1, <3>2, <3>8 DEF tail, from
    <3> QED BY <1>1, <2>1, <2>2, <3>9 DEF TailInv
  <2> QED BY <2>3, <2>4
<1>12. ASSUME UNCHANGED tailVars PROVE TailInv'
  <2>1. UNCHANGED <<taLog, taTo, taWrites, taBlock, taFrom, taReport, taSeen, taStops>>
    BY <1>12 DEF tailVars
  <2>2. Coming' = Coming
    BY <2>1 DEF Coming
  <2> QED BY <1>1, <2>1, <2>2 DEF TailInv
<1> QED BY <1>4, <1>5, <1>6, <1>7, <1>8, <1>9, <1>10, <1>11, <1>12 DEF TailNext

LEMMA TailInvIsOneBlock == TailInv => ReportIsOneBlock
<1> SUFFICES ASSUME TailInv, taReport # NoReport
             PROVE  /\ Cardinality(Shown) = 1
                    /\ Shown = {taSeen}
                    /\ \A i \in DOMAIN taReport.consumers : taReport.consumers[i].index = i
                    /\ taReport.consumers # <<>> => Shown \subseteq taStops
  BY DEF ReportIsOneBlock
<1>1. OneBlock(taReport, taSeen, taStops)
  BY DEF TailInv
<1>2. DOMAIN taReport.consumers = 1 .. Len(taReport.consumers)
  OBVIOUS
<1>3. Shown = {taSeen}
  BY <1>1, <1>2 DEF OneBlock, Shown
<1>4. Cardinality(Shown) = 1
  BY <1>3, FS_Singleton
<1> QED BY <1>1, <1>2, <1>3, <1>4 DEF OneBlock

\* However a poll falls into the writing of a block, a kill, a restart or the
\* removal of the log, a window shows the numbers of one block, the newest
\* (DaemonLog::poll, parse_report).
THEOREM ReportStaysOneBlock == TailInit /\ [][TailNext]_tailVars => []ReportIsOneBlock
<1>1. TailInit => TailInv
  BY TailInvInitially
<1>2. TailInv /\ [TailNext]_tailVars => TailInv'
  BY TailInvKept
<1>3. TailInv => ReportIsOneBlock
  BY TailInvIsOneBlock
<1> QED BY <1>1, <1>2, <1>3, PTL

--------------------------------------------------------------------------------
(* The tick table.                                                         *)

Entries == [what : {"record", "switch"}, symbol : Tickers] \cup [what : {"fold"}, time : Nat]

Rates == [count : Nat, time : Nat]

LEMMA LogGrows ==
    ASSUME NEW log \in Seq(Entries), NEW e \in Entries
    PROVE  /\ Len(log) \in Nat /\ DOMAIN log = 1 .. Len(log) /\ Len(Append(log, e)) = Len(log) + 1
           /\ DOMAIN Append(log, e) = (1 .. Len(log)) \cup {Len(log) + 1}
           /\ Append(log, e)[Len(log) + 1] = e
           /\ \A i \in 1 .. Len(log) : Append(log, e)[i] = log[i] /\ i \in Nat /\ i < Len(log) + 1
           /\ Append(log, e) \in Seq(Entries)
<1> HIDE DEF Entries
<1>1. Len(Append(log, e)) = Len(log) + 1 /\ Append(log, e) \in Seq(Entries) /\ Len(log) \in Nat
  OBVIOUS
<1>2. DOMAIN Append(log, e) = 1 .. Len(log) + 1 /\ DOMAIN log = 1 .. Len(log)
  BY <1>1
<1>3. 1 .. Len(log) + 1 = (1 .. Len(log)) \cup {Len(log) + 1}
  BY <1>1
<1> QED BY <1>1, <1>2, <1>3

\* What an entry adds.
LEMMA AtGrows ==
    ASSUME NEW log \in Seq(Entries), NEW e \in Entries, NEW what
    PROVE  /\ At(log, what) \subseteq 1 .. Len(log)
           /\ At(Append(log, e), what) = IF e.what = what THEN At(log, what) \cup {Len(log) + 1} ELSE At(log, what)
<1> DEFINE more == Append(log, e)
           k == Len(log) + 1
<1>1. /\ Len(log) \in Nat /\ DOMAIN log = 1 .. Len(log) /\ DOMAIN more = (1 .. Len(log)) \cup {k}
      /\ more[k] = e /\ \A i \in 1 .. Len(log) : more[i] = log[i]
  BY LogGrows
<1> HIDE DEF more, k
<1>2. At(more, what) = {i \in 1 .. Len(log) : log[i].what = what} \cup {i \in {k} : e.what = what}
  BY <1>1 DEF At
<1>3. At(log, what) = {i \in 1 .. Len(log) : log[i].what = what}
  BY <1>1 DEF At
<1> QED BY <1>2, <1>3 DEF more, k

LEMMA OfGrows ==
    ASSUME NEW log \in Seq(Entries), NEW e \in Entries, NEW s
    PROVE  /\ Of(log, s) \subseteq At(log, "record") /\ Of(log, s) \subseteq 1 .. Len(log)
           /\ Of(Append(log, e), s) = IF e.what = "record" /\ e.symbol = s
                                      THEN Of(log, s) \cup {Len(log) + 1} ELSE Of(log, s)
<1> DEFINE more == Append(log, e)
           k == Len(log) + 1
<1>1. /\ At(log, "record") \subseteq 1 .. Len(log)
      /\ At(more, "record") = IF e.what = "record" THEN At(log, "record") \cup {k} ELSE At(log, "record")
  BY AtGrows
<1>2. more[k] = e /\ \A i \in 1 .. Len(log) : more[i] = log[i]
  BY LogGrows
<1> HIDE DEF more, k
<1>3. Of(more, s) = {i \in At(log, "record") : log[i].symbol = s}
                     \cup {i \in {k} : e.what = "record" /\ e.symbol = s}
  BY <1>1, <1>2 DEF Of
<1>4. Of(log, s) = {i \in At(log, "record") : log[i].symbol = s}
  BY DEF Of
<1> QED BY <1>1, <1>3, <1>4 DEF more, k

\* These entries and perhaps the new one.
Grown(entries, more, log) == entries \subseteq 1 .. Len(log) /\ more \in {entries, entries \cup {Len(log) + 1}}

\* What lay before an entry lies there still.
LEMMA SinceBefore ==
    ASSUME NEW log \in Seq(Entries), NEW e \in Entries, NEW entries, NEW more, Grown(entries, more, log),
           NEW i \in 1 .. Len(log) + 1
    PROVE  SinceFold(Append(log, e), more, i) = SinceFold(log, entries, i)
<1> DEFINE after == Append(log, e)
           n == Len(log)
           F == At(log, "fold")
           G == At(after, "fold")
<1>1. /\ n \in Nat /\ F \subseteq 1 .. n /\ G = IF e.what = "fold" THEN F \cup {n + 1} ELSE F
      /\ entries \subseteq 1 .. n /\ more \in {entries, entries \cup {n + 1}}
  BY LogGrows, AtGrows DEF Grown
<1>2. SinceFold(log, entries, i) = {j \in entries : j < i /\ \A f \in F : f < i => f < j}
  BY DEF SinceFold
<1>3. SinceFold(after, more, i) = {j \in more : j < i /\ \A f \in G : f < i => f < j}
  BY DEF SinceFold
<1>4. i \in 1 .. n + 1
  OBVIOUS
<1> HIDE DEF after, n, F, G
<1>5. \A j : j \in more /\ j < i <=> j \in entries /\ j < i
  BY <1>1, <1>4
<1>6. \A j : (\A f \in G : f < i => f < j) <=> (\A f \in F : f < i => f < j)
  BY <1>1, <1>4
<1> QED BY <1>2, <1>3, <1>5, <1>6 DEF after

\* Behind a fold lies nothing yet.
LEMMA SinceAFold ==
    ASSUME NEW log \in Seq(Entries), NEW e \in Entries, NEW entries, NEW more, Grown(entries, more, log),
           e.what = "fold", more = entries
    PROVE  SinceFold(Append(log, e), more, Len(log) + 2) = {}
<1> DEFINE after == Append(log, e)
           n == Len(log)
           F == At(log, "fold")
           G == At(after, "fold")
<1>1. /\ n \in Nat /\ F \subseteq 1 .. n /\ G = IF e.what = "fold" THEN F \cup {n + 1} ELSE F
      /\ entries \subseteq 1 .. n /\ more \in {entries, entries \cup {n + 1}}
  BY LogGrows, AtGrows DEF Grown
<1>2. SinceFold(after, more, n + 2) = {j \in more : j < n + 2 /\ \A f \in G : f < n + 2 => f < j}
  BY DEF SinceFold
<1> HIDE DEF after, n, F, G
<1>3. n + 1 \in G /\ n + 1 < n + 2
  BY <1>1
<1>4. \A j \in more : ~(n + 1 < j)
  BY <1>1
<1>5. SinceFold(after, more, n + 2) = {}
  BY <1>2, <1>3, <1>4
<1> QED BY <1>5 DEF after, n

\* Behind anything else lies one more.
LEMMA SinceNow ==
    ASSUME NEW log \in Seq(Entries), NEW e \in Entries, NEW entries, NEW more, Grown(entries, more, log),
           e.what # "fold"
    PROVE  SinceFold(Append(log, e), more, Len(log) + 2) =
                IF more = entries THEN SinceFold(log, entries, Len(log) + 1)
                ELSE SinceFold(log, entries, Len(log) + 1) \cup {Len(log) + 1}
<1> DEFINE after == Append(log, e)
           n == Len(log)
           F == At(log, "fold")
           G == At(after, "fold")
<1>1. /\ n \in Nat /\ F \subseteq 1 .. n /\ G = IF e.what = "fold" THEN F \cup {n + 1} ELSE F
      /\ entries \subseteq 1 .. n /\ more \in {entries, entries \cup {n + 1}}
  BY LogGrows, AtGrows DEF Grown
<1>2. SinceFold(log, entries, n + 1) = {j \in entries : j < n + 1 /\ \A f \in F : f < n + 1 => f < j}
  BY DEF SinceFold
<1>3. SinceFold(after, more, n + 2) = {j \in more : j < n + 2 /\ \A f \in G : f < n + 2 => f < j}
  BY DEF SinceFold
<1> HIDE DEF after, n, F, G
<1>4. G = F /\ \A f \in F : f < n + 1 /\ f < n + 2
  BY <1>1
<1>5. \A j \in entries : j < n + 1 /\ j < n + 2
  BY <1>1
<1>6. SinceFold(log, entries, n + 1) = {j \in entries : \A f \in F : f < j}
  BY <1>2, <1>4, <1>5
<1>7. \A j \in more : j < n + 2
  BY <1>1, <1>5
<1>8. SinceFold(after, more, n + 2) = {j \in more : \A f \in F : f < j}
  BY <1>3, <1>4, <1>7
<1>9. SinceFold(after, more, n + 2) = IF more = entries THEN SinceFold(log, entries, n + 1)
                                      ELSE SinceFold(log, entries, n + 1) \cup {n + 1}
  BY <1>1, <1>4, <1>6, <1>8
<1> QED BY <1>9 DEF after, n

LEMMA RateGrows ==
    ASSUME NEW log \in Seq(Entries), NEW e \in Entries, NEW entries, NEW more, Grown(entries, more, log)
    PROVE  /\ \A f \in 1 .. Len(log) : RateAt(Append(log, e), more, f) = RateAt(log, entries, f)
           /\ RateAt(Append(log, e), more, Len(log) + 1)
                = Rate(Cardinality(SinceFold(log, entries, Len(log) + 1)), e.time)
<1>1. /\ Len(log) \in Nat /\ Append(log, e)[Len(log) + 1] = e
      /\ \A i \in 1 .. Len(log) : Append(log, e)[i] = log[i] /\ i \in 1 .. Len(log) + 1
  BY LogGrows
<1>2. Len(log) + 1 \in 1 .. Len(log) + 1
  BY <1>1
<1>3. ASSUME NEW i \in 1 .. Len(log) + 1
      PROVE  SinceFold(Append(log, e), more, i) = SinceFold(log, entries, i)
  BY SinceBefore
<1> QED BY <1>1, <1>2, <1>3 DEF RateAt

LEMMA FoldsGrow ==
    ASSUME NEW log \in Seq(Entries), NEW e \in Entries, NEW s
    PROVE  /\ FoldsOf(log, s) \subseteq 1 .. Len(log)
           /\ FoldsOf(Append(log, e), s) = IF e.what = "fold" /\ Of(log, s) # {}
                                           THEN FoldsOf(log, s) \cup {Len(log) + 1} ELSE FoldsOf(log, s)
<1> DEFINE after == Append(log, e)
           n == Len(log)
           F == At(log, "fold")
           G == At(after, "fold")
           R == Of(log, s)
           Q == Of(after, s)
<1>1. n \in Nat
  BY LogGrows
<1>2. F \subseteq 1 .. n /\ G = IF e.what = "fold" THEN F \cup {n + 1} ELSE F
  BY AtGrows
<1>3. R \subseteq 1 .. n /\ Q = IF e.what = "record" /\ e.symbol = s THEN R \cup {n + 1} ELSE R
  BY OfGrows
<1> HIDE DEF after, n, F, G, R, Q
<1>4. FoldsOf(log, s) = {f \in F : \E i \in R : i < f} /\ FoldsOf(after, s) = {f \in G : \E i \in Q : i < f}
  BY DEF FoldsOf, F, G, R, Q
<1>5. \A f \in F : (\E i \in Q : i < f) <=> (\E i \in R : i < f)
  BY <1>1, <1>2, <1>3
<1>6. CASE e.what = "fold"
  <2>1. Q = R /\ G = F \cup {n + 1}
    BY <1>2, <1>3, <1>6
  <2>4. \A i \in R : i < n + 1
    BY <1>1, <1>3
  <2>2. (\E i \in R : i < n + 1) <=> R # {}
    BY <2>4
  <2>3. FoldsOf(after, s) = IF R # {} THEN FoldsOf(log, s) \cup {n + 1} ELSE FoldsOf(log, s)
    BY <1>4, <2>1, <2>2
  <2> QED BY <1>2, <1>4, <1>6, <2>3 DEF n, after, R
<1>7. CASE e.what # "fold"
  <2>1. FoldsOf(after, s) = FoldsOf(log, s)
    BY <1>2, <1>4, <1>5, <1>7
  <2> QED BY <1>2, <1>4, <1>7, <2>1 DEF n, after
<1> QED BY <1>6, <1>7

LEMMA PartOfLog ==
    ASSUME NEW n \in Nat, NEW S, S \subseteq 1 .. n
    PROVE  /\ IsFiniteSet(S) /\ Cardinality(S) \in Nat
           /\ IsFiniteSet(S \cup {n + 1}) /\ Cardinality(S \cup {n + 1}) = Cardinality(S) + 1
<1>1. IsFiniteSet(1 .. n)
  BY FS_Interval
<1>2. IsFiniteSet(S) /\ Cardinality(S) \in Nat
  BY <1>1, FS_Subset, FS_CardinalityType
<1>3. n + 1 \notin S
  OBVIOUS
<1> QED BY <1>2, <1>3, FS_AddElement

\* The folds after one of a symbol are fewer than its folds.
LEMMA LaterIsLess ==
    ASSUME NEW log \in Seq(Entries), NEW s, NEW f \in FoldsOf(log, s)
    PROVE  LaterFolds(log, s, f) \in Nat /\ Cardinality(FoldsOf(log, s)) \in Nat
           /\ LaterFolds(log, s, f) < Cardinality(FoldsOf(log, s))
<1>1. Len(log) \in Nat /\ FoldsOf(log, s) \subseteq 1 .. Len(log)
  <2>1. FoldsOf(log, s) \subseteq DOMAIN log
    BY DEF FoldsOf, At
  <2> HIDE DEF Entries
  <2>2. DOMAIN log = 1 .. Len(log) /\ Len(log) \in Nat
    OBVIOUS
  <2> QED BY <2>1, <2>2
<1> DEFINE later == {g \in FoldsOf(log, s) : f < g}
<1>2. later \subseteq FoldsOf(log, s) /\ f \notin later
  BY <1>1
<1>3. IsFiniteSet(FoldsOf(log, s)) /\ Cardinality(FoldsOf(log, s)) \in Nat
  BY <1>1, PartOfLog
<1>4. IsFiniteSet(later) /\ Cardinality(later) \in Nat
  BY <1>2, <1>3, FS_Subset, FS_CardinalityType
<1>5. later # FoldsOf(log, s)
  BY <1>2
<1>6. Cardinality(later) < Cardinality(FoldsOf(log, s))
  <2>1. Cardinality(later) <= Cardinality(FoldsOf(log, s))
    BY <1>2, <1>3, FS_Subset
  <2>2. Cardinality(later) # Cardinality(FoldsOf(log, s))
    BY <1>2, <1>3, <1>5, FS_Subset
  <2> QED BY <1>3, <1>4, <2>1, <2>2
<1> QED BY <1>3, <1>4, <1>6 DEF LaterFolds

LEMMA LeastOfKept ==
    ASSUME NEW c \in Nat
    PROVE  Min({Kept, c}) = IF Kept <= c THEN Kept ELSE c
<1>1. Kept \in Nat
  BY TicksAssumption
<1>2. Min({Kept, c}) \in {Kept, c} /\ \A y \in {Kept, c} : Min({Kept, c}) <= y
  BY <1>1, MinOfNats
<1> QED BY <1>1, <1>2

\* An entry that is no fold changes no rate.
LEMMA RatesStay ==
    ASSUME NEW log \in Seq(Entries), NEW e \in Entries, e.what # "fold", NEW s, NEW history,
           RatesAre(log, history, s)
    PROVE  RatesAre(Append(log, e), history, s)
<1> DEFINE after == Append(log, e)
<1>1. FoldsOf(after, s) = FoldsOf(log, s) /\ FoldsOf(log, s) \subseteq 1 .. Len(log)
  BY FoldsGrow
<1>2. Grown(Of(log, s), Of(after, s), log)
  BY OfGrows DEF Grown
<1>3. \A f \in 1 .. Len(log) : RateAt(after, Of(after, s), f) = RateAt(log, Of(log, s), f)
  BY <1>2, RateGrows
<1> HIDE DEF after
<1>4. \A f \in FoldsOf(log, s) : LaterFolds(after, s, f) = LaterFolds(log, s, f)
  BY <1>1 DEF LaterFolds
<1>5. \A f \in FoldsOf(log, s) : f \in 1 .. Len(log)
  BY <1>1
<1>6. RatesAre(after, history, s)
  BY <1>1, <1>3, <1>4, <1>5 DEF RatesAre
<1> QED BY <1>6 DEF after

\* A symbol that came now has no rate.
LEMMA NoRates ==
    ASSUME NEW log \in Seq(Entries), NEW e \in Entries, e.what # "fold", NEW s, Of(log, s) = {}
    PROVE  RatesAre(Append(log, e), <<>>, s)
<1>1. FoldsOf(Append(log, e), s) = FoldsOf(log, s)
  BY FoldsGrow
<1>2. FoldsOf(log, s) = {}
  BY DEF FoldsOf
<1>3. Cardinality({}) = 0 /\ Len(<<>>) = 0
  BY FS_EmptySet
<1>4. Min({Kept, 0}) = 0
  <2>1. Kept \in Nat /\ 0 \in Nat
    BY TicksAssumption
  <2> QED BY <2>1, LeastOfKept
<1> QED BY <1>1, <1>2, <1>3, <1>4 DEF RatesAre

\* A fold puts the rate of the time that passed behind those that are kept.
LEMMA RatesFold ==
    ASSUME NEW log \in Seq(Entries), NEW e \in Entries, e.what = "fold", NEW s, Of(log, s) # {},
           NEW history \in Seq(Rates), RatesAre(log, history, s), NEW rate \in Rates,
           rate = Rate(Cardinality(SinceFold(log, Of(log, s), Len(log) + 1)), e.time)
    PROVE  LET kept == IF Len(history) = Kept THEN Tail(history) ELSE history
           IN  RatesAre(Append(log, e), Append(kept, rate), s)
<1> DEFINE after == Append(log, e)
           kept  == IF Len(history) = Kept THEN Tail(history) ELSE history
           told  == Append(kept, rate)
           n     == Len(log)
           c     == Cardinality(FoldsOf(log, s))
           F     == FoldsOf(log, s)
<1>1. n \in Nat /\ F \subseteq 1 .. n /\ FoldsOf(after, s) = F \cup {n + 1}
  BY LogGrows, FoldsGrow
<1>2. Of(after, s) = Of(log, s) /\ Grown(Of(log, s), Of(after, s), log)
  BY OfGrows DEF Grown
<1>3. /\ \A f \in 1 .. n : RateAt(after, Of(after, s), f) = RateAt(log, Of(log, s), f)
      /\ RateAt(after, Of(after, s), n + 1) = rate
  BY <1>2, RateGrows
<1> HIDE DEF after, n
<1>4. c \in Nat /\ Cardinality(FoldsOf(after, s)) = c + 1
  BY <1>1, PartOfLog
<1>5. Kept \in Nat \ {0}
  BY TicksAssumption
<1>6. /\ Len(history) = IF Kept <= c THEN Kept ELSE c
      /\ \A f \in F : LaterFolds(log, s, f) < Kept =>
            history[Len(history) - LaterFolds(log, s, f)] = RateAt(log, Of(log, s), f)
  BY <1>4, LeastOfKept DEF RatesAre
<1>7. /\ LaterFolds(after, s, n + 1) = 0
      /\ \A f \in F : LaterFolds(after, s, f) = LaterFolds(log, s, f) + 1
  <2>1. {g \in F \cup {n + 1} : n + 1 < g} = {}
    BY <1>1
  <2>2. LaterFolds(after, s, n + 1) = 0
    BY <1>1, <2>1, FS_EmptySet DEF LaterFolds
  <2>3. ASSUME NEW f \in F PROVE LaterFolds(after, s, f) = LaterFolds(log, s, f) + 1
    <3> DEFINE later == {g \in F : f < g}
    <3>1. {g \in F \cup {n + 1} : f < g} = later \cup {n + 1}
      BY <1>1
    <3>2. later \subseteq 1 .. n
      BY <1>1
    <3> HIDE DEF later
    <3>3. Cardinality(later \cup {n + 1}) = Cardinality(later) + 1
      BY <1>1, <3>2, PartOfLog
    <3> QED BY <1>1, <3>1, <3>3 DEF LaterFolds, later
  <2> QED BY <2>2, <2>3
<1>8. /\ kept \in Seq(Rates) /\ Len(kept) = IF Kept <= c + 1 THEN Kept - 1 ELSE c
      /\ \A i \in 1 .. Len(kept) : kept[i] = history[Len(history) - (Len(kept) - i)]
  <2> HIDE DEF Rates, c
  <2>1. Len(history) \in Nat
    OBVIOUS
  <2>2. CASE Len(history) = Kept
    <3>1. kept = Tail(history) /\ history # <<>>
      BY <1>5, <2>2
    <3>2. kept \in Seq(Rates) /\ Len(kept) = Len(history) - 1 /\ \A i \in 1 .. Len(history) - 1 : kept[i] = history[i + 1]
      BY <3>1
    <3> HIDE DEF kept
    <3>3. Kept <= c
      BY <1>4, <1>5, <1>6, <2>2
    <3>4. \A i \in 1 .. Len(kept) : Len(history) - (Len(kept) - i) = i + 1
      BY <2>1, <3>2
    <3> QED BY <1>4, <1>5, <2>1, <2>2, <3>2, <3>3, <3>4
  <2>3. CASE Len(history) # Kept
    <3>1. kept = history
      BY <2>3
    <3>2. ~(Kept <= c) /\ Len(history) = c
      BY <1>6, <2>3
    <3>3. \A i \in 1 .. c : c - (c - i) = i
      BY <1>4
    <3>4. Kept <= c + 1 => Kept - 1 = c
      BY <1>4, <1>5, <3>2
    <3> QED BY <1>4, <3>1, <3>2, <3>3, <3>4
  <2> QED BY <2>2, <2>3
<1> HIDE DEF kept, Rates
<1>9. /\ Len(told) = Len(kept) + 1 /\ told[Len(kept) + 1] = rate
      /\ \A i \in 1 .. Len(kept) : told[i] = kept[i]
  BY <1>8
<1> HIDE DEF told
<1>10. Len(told) = Min({Kept, c + 1})
  <2> HIDE DEF c
  <2>1. Min({Kept, c + 1}) = IF Kept <= c + 1 THEN Kept ELSE c + 1
    BY <1>4, LeastOfKept
  <2> QED BY <1>4, <1>5, <1>8, <1>9, <2>1
<1>11. ASSUME NEW f \in FoldsOf(after, s), LaterFolds(after, s, f) < Kept
       PROVE  told[Len(told) - LaterFolds(after, s, f)] = RateAt(after, Of(after, s), f)
  <2>1. CASE f = n + 1
    <3>1. Len(told) - 0 = Len(kept) + 1
      BY <1>4, <1>5, <1>8, <1>9
    <3> QED BY <1>3, <1>7, <1>9, <2>1, <3>1
  <2>2. CASE f \in F
    <3> DEFINE l == LaterFolds(log, s, f)
    <3>1. l \in Nat /\ l < c /\ LaterFolds(after, s, f) = l + 1 /\ l + 1 < Kept
      BY <1>7, <1>11, <2>2, LaterIsLess
    <3> HIDE DEF l, c
    <3>2. /\ Len(kept) - l \in 1 .. Len(kept) /\ Len(told) - (l + 1) = Len(kept) - l
          /\ Len(history) - (Len(kept) - (Len(kept) - l)) = Len(history) - l
      BY <1>4, <1>5, <1>6, <1>8, <1>9, <3>1
    <3>3. told[Len(told) - (l + 1)] = history[Len(history) - l]
      BY <1>8, <1>9, <3>2
    <3>4. l < Kept
      BY <1>5, <3>1
    <3>5. history[Len(history) - l] = RateAt(log, Of(log, s), f)
      BY <1>6, <2>2, <3>4 DEF l
    <3>6. f \in 1 .. n
      BY <1>1, <2>2
    <3> QED BY <1>3, <3>1, <3>3, <3>5, <3>6
  <2> QED BY <1>1, <1>11, <2>1, <2>2
<1>12. RatesAre(after, told, s)
  <2> HIDE DEF F
  <2> QED BY <1>4, <1>10, <1>11 DEF RatesAre
<1> QED BY <1>12 DEF after, told, kept

\* Whether a symbol that came before has a row was settled then.
LEMMA RowsSettled ==
    ASSUME NEW log \in Seq(Entries), NEW e \in Entries, NEW s,
           Of(log, s) # {} \/ e.what # "record" \/ e.symbol # s
    PROVE  HasRow(Append(log, e), s) <=> HasRow(log, s)
<1> DEFINE after == Append(log, e)
           n == Len(log)
<1>1. n \in Nat
  BY LogGrows
<1>2. \A t : Of(log, t) \subseteq 1 .. n /\ (Of(after, t) = Of(log, t) \/ Of(after, t) = Of(log, t) \cup {n + 1})
  BY OfGrows
<1>3. Of(after, s) = Of(log, s) \/ Of(log, s) # {}
  BY OfGrows
<1> HIDE DEF after, n
<1>4. CASE Of(log, s) = {}
  BY <1>3, <1>4 DEF HasRow, after
<1>5. CASE Of(log, s) # {}
  <2>1. ASSUME NEW t PROVE CameFirst(after, t, s) <=> CameFirst(log, t, s)
    <3>1. PICK j \in Of(log, s) : TRUE
      BY <1>5
    <3>2. j \in Of(after, s) /\ j \in 1 .. n
      BY <1>2, <3>1
    <3>3. ASSUME CameFirst(log, t, s) PROVE CameFirst(after, t, s)
      <4>1. PICK i \in Of(log, t) : \A x \in Of(log, s) : i < x
        BY <3>3 DEF CameFirst
      <4>2. i \in Of(after, t) /\ i \in 1 .. n
        BY <1>2, <4>1
      <4>3. \A x \in Of(after, s) : i < x
        BY <1>1, <1>2, <4>1, <4>2
      <4> QED BY <4>2, <4>3 DEF CameFirst
    <3>4. ASSUME CameFirst(after, t, s) PROVE CameFirst(log, t, s)
      <4>1. PICK i \in Of(after, t) : \A x \in Of(after, s) : i < x
        BY <3>4 DEF CameFirst
      <4>2. i # n + 1
        BY <1>1, <3>2, <4>1
      <4>3. i \in Of(log, t)
        BY <1>2, <4>2
      <4>4. \A x \in Of(log, s) : i < x
        BY <1>2, <4>1
      <4> QED BY <4>3, <4>4 DEF CameFirst
    <3> QED BY <3>3, <3>4
  <2>2. {t \in Tickers : CameFirst(after, t, s)} = {t \in Tickers : CameFirst(log, t, s)}
    BY <2>1
  <2>3. Of(after, s) # {}
    BY <1>2, <1>5
  <2> QED BY <1>5, <2>2, <2>3 DEF HasRow, after
<1> QED BY <1>4, <1>5

Recorded(log) == {t \in Tickers : Of(log, t) # {}}

\* A symbol that comes now has a row if the others leave one.
LEMMA RowOfNew ==
    ASSUME NEW log \in Seq(Entries), NEW e \in Entries, e.what = "record", Of(log, e.symbol) = {}
    PROVE  HasRow(Append(log, e), e.symbol) <=> Cardinality(Recorded(log)) < TickRows
<1> DEFINE after == Append(log, e)
           n == Len(log)
           s == e.symbol
<1>1. n \in Nat
  BY LogGrows
<1>2. \A t : /\ Of(log, t) \subseteq 1 .. n
             /\ Of(after, t) = IF s = t THEN Of(log, t) \cup {n + 1} ELSE Of(log, t)
  BY OfGrows
<1>3. Of(after, s) = {n + 1}
  BY <1>2
<1> HIDE DEF after, n, s
<1>4. ASSUME NEW t PROVE CameFirst(after, t, s) <=> Of(log, t) # {}
  <2>1. CameFirst(after, t, s) <=> \E i \in Of(after, t) : i < n + 1
    BY <1>3 DEF CameFirst
  <2>2. \A i \in Of(log, t) : i < n + 1
    BY <1>1, <1>2
  <2>3. CASE s = t
    <3>1. Of(after, t) = {n + 1} /\ Of(log, t) = {}
      BY <1>3, <2>3 DEF s
    <3>2. ~(n + 1 < n + 1)
      BY <1>1
    <3> QED BY <2>1, <3>1, <3>2
  <2>4. CASE s # t
    <3>1. Of(after, t) = Of(log, t)
      BY <1>2, <2>4
    <3> QED BY <2>1, <2>2, <3>1
  <2> QED BY <2>3, <2>4
<1>5. {t \in Tickers : CameFirst(after, t, s)} = Recorded(log)
  BY <1>4 DEF Recorded
<1>6. Of(after, s) # {}
  BY <1>3
<1> QED BY <1>5, <1>6 DEF HasRow, after, s

--------------------------------------------------------------------------------
RowType == [symbol : Tickers, count : Nat, history : Seq(Rates)]

\* The rows, each of its own symbol; and no symbol that came is without one
\* while there is room.
Table(log, rows) ==
    /\ rows \in Seq(RowType) /\ Len(rows) <= TickRows
    /\ \A i, j \in 1 .. Len(rows) : rows[i].symbol = rows[j].symbol => i = j
    /\ Len(rows) < TickRows => \A s \in Tickers : Of(log, s) # {} => HasRow(log, s)
    /\ RowsTell(log, rows)

\* As many symbols as rows.
LEMMA TableHolds ==
    ASSUME NEW log \in Seq(Entries), NEW rows, Table(log, rows)
    PROVE  /\ IsFiniteSet(Recorded(log)) /\ Cardinality(Recorded(log)) \in Nat /\ Len(rows) \in Nat
           /\ Len(rows) <= Cardinality(Recorded(log))
           /\ Len(rows) < TickRows => Cardinality(Recorded(log)) = Len(rows)
<1> DEFINE seen == {rows[i].symbol : i \in 1 .. Len(rows)}
           f == [i \in 1 .. Len(rows) |-> rows[i].symbol]
<1>1. rows \in Seq(RowType) /\ Len(rows) \in Nat /\ DOMAIN rows = 1 .. Len(rows)
  BY DEF Table
<1>2. seen = {s \in Tickers : HasRow(log, s)}
  BY <1>1 DEF Table, RowsTell
<1>3. IsFiniteSet(Recorded(log)) /\ Cardinality(Recorded(log)) \in Nat
  <2>1. Recorded(log) \subseteq Tickers
    BY DEF Recorded
  <2> QED BY <2>1, TicksAssumption, FS_Subset, FS_CardinalityType
<1>4. seen \subseteq Recorded(log)
  BY <1>2 DEF Recorded, HasRow
<1>5. Cardinality(seen) = Len(rows)
  <2>1. IsFiniteSet(1 .. Len(rows)) /\ Cardinality(1 .. Len(rows)) = Len(rows)
    <3>1. \A k \in Nat : IsFiniteSet(1 .. k) /\ Cardinality(1 .. k) = k
      BY FS_Interval
    <3> QED BY <1>1, <3>1
  <2>2. \A i, j \in 1 .. Len(rows) : rows[i].symbol = rows[j].symbol => i = j
    BY DEF Table
  <2>3. f \in Bijection(1 .. Len(rows), seen)
    <3>1. f \in [1 .. Len(rows) -> seen]
      OBVIOUS
    <3>2. \A i, j \in 1 .. Len(rows) : f[i] = f[j] => i = j
      BY <2>2
    <3>3. \A s \in seen : \E i \in 1 .. Len(rows) : f[i] = s
      OBVIOUS
    <3> HIDE DEF f, seen
    <3>4. f \in Injection(1 .. Len(rows), seen)
      BY <3>1, <3>2 DEF Injection, IsInjective
    <3>5. f \in Surjection(1 .. Len(rows), seen)
      BY <3>1, <3>3 DEF Surjection
    <3> QED BY <3>4, <3>5 DEF Bijection
  <2> HIDE DEF f, seen
  <2>4. ExistsBijection(1 .. Len(rows), seen)
    BY <2>3 DEF ExistsBijection
  <2> QED BY <2>1, <2>4, FS_Bijection
<1>6. Len(rows) <= Cardinality(Recorded(log))
  <2> HIDE DEF f, seen
  <2>1. Cardinality(seen) <= Cardinality(Recorded(log))
    BY <1>3, <1>4, FS_Subset
  <2> QED BY <1>5, <2>1
<1>7. ASSUME Len(rows) < TickRows PROVE Cardinality(Recorded(log)) = Len(rows)
  <2>1. Recorded(log) \subseteq seen
    BY <1>2, <1>7 DEF Recorded, Table
  <2> QED BY <1>4, <1>5, <2>1
<1> QED BY <1>1, <1>3, <1>6, <1>7

\* What the row of a symbol, or another, tells after an entry that is no fold.
LEMMA RowStays ==
    ASSUME NEW log \in Seq(Entries), NEW e \in Entries, e.what # "fold", NEW s,
           NEW count, NEW history,
           count = Cardinality(SinceFold(log, Of(log, s), Len(log) + 1)), RatesAre(log, history, s)
    PROVE  LET after == Append(log, e)
           IN  /\ (IF e.what = "record" /\ e.symbol = s THEN count + 1 ELSE count)
                     = Cardinality(SinceFold(after, Of(after, s), Len(after) + 1))
               /\ RatesAre(after, history, s)
<1> DEFINE after == Append(log, e)
           n == Len(log)
           hit == e.what = "record" /\ e.symbol = s
<1>1. n \in Nat /\ Len(after) + 1 = n + 2
  BY LogGrows
<1>2. Of(log, s) \subseteq 1 .. n /\ Of(after, s) = IF hit THEN Of(log, s) \cup {n + 1} ELSE Of(log, s)
  BY OfGrows
<1>3. SinceFold(after, Of(after, s), n + 2) =
          IF Of(after, s) = Of(log, s) THEN SinceFold(log, Of(log, s), n + 1)
          ELSE SinceFold(log, Of(log, s), n + 1) \cup {n + 1}
  <2>1. Grown(Of(log, s), Of(after, s), log)
    BY <1>2 DEF Grown
  <2> QED BY <2>1, SinceNow
<1>4. n + 1 \notin Of(log, s)
  BY <1>1, <1>2
<1>5. SinceFold(log, Of(log, s), n + 1) \subseteq 1 .. n
  BY <1>2 DEF SinceFold
<1>6. RatesAre(after, history, s)
  BY RatesStay
<1> HIDE DEF after, n, hit
<1>7. Cardinality(SinceFold(log, Of(log, s), n + 1) \cup {n + 1}) = Cardinality(SinceFold(log, Of(log, s), n + 1)) + 1
  BY <1>1, <1>5, PartOfLog
<1>8. Of(after, s) = Of(log, s) <=> ~hit
  BY <1>2, <1>4
<1>9. (IF hit THEN count + 1 ELSE count) = Cardinality(SinceFold(after, Of(after, s), n + 2))
  BY <1>3, <1>7, <1>8 DEF n
<1> QED BY <1>1, <1>6, <1>9 DEF after, hit

\* The table is what the history says, whatever comes.
LEMMA RecordKeepsTable ==
    ASSUME tiLog \in Seq(Entries), Table(tiLog, tiRows), tiOther \in Nat, OtherTells(tiLog, tiOther),
           NEW s \in Tickers, tiLog' = Append(tiLog, [what |-> "record", symbol |-> s]), Count(s)
    PROVE  Table(tiLog', tiRows') /\ OtherTells(tiLog', tiOther') /\ tiOther' \in Nat
<1> DEFINE e == [what |-> "record", symbol |-> s]
           log == tiLog
           after == Append(log, e)
           n == Len(log)
           rows == tiRows
<1>1. e \in Entries /\ e.what = "record" /\ e.symbol = s /\ e.what # "fold"
  BY DEF Entries
<1> HIDE DEF e
<1>2. tiLog' = after
  BY DEF e
<1>3. /\ rows \in Seq(RowType) /\ Len(rows) \in Nat /\ DOMAIN rows = 1 .. Len(rows) /\ Len(rows) <= TickRows
      /\ \A i, j \in 1 .. Len(rows) : rows[i].symbol = rows[j].symbol => i = j
      /\ Len(rows) < TickRows => \A u \in Tickers : Of(log, u) # {} => HasRow(log, u)
      /\ {rows[i].symbol : i \in 1 .. Len(rows)} = {u \in Tickers : HasRow(log, u)}
      /\ \A i \in 1 .. Len(rows) :
            /\ rows[i].count = Cardinality(SinceFold(log, Of(log, rows[i].symbol), Len(log) + 1))
            /\ RatesAre(log, rows[i].history, rows[i].symbol)
  <2>1. rows \in Seq(RowType)
    BY DEF Table
  <2>2. Len(rows) \in Nat /\ DOMAIN rows = 1 .. Len(rows)
    <3> HIDE DEF RowType
    <3> QED BY <2>1
  <2> QED BY <2>1, <2>2 DEF Table, RowsTell
<1>4. \A i \in 1 .. Len(rows) : rows[i] \in RowType
  BY <1>3, ElementOfSeq
<1>5. TickRows \in Nat
  BY TicksAssumption
<1>6. \A u : Of(log, u) # {} \/ u # s => (HasRow(after, u) <=> HasRow(log, u))
  BY <1>1, RowsSettled
<1>7. Of(log, s) = {} => (HasRow(after, s) <=> Cardinality(Recorded(log)) < TickRows)
  BY <1>1, RowOfNew
<1>8. /\ Cardinality(Recorded(log)) \in Nat /\ Len(rows) <= Cardinality(Recorded(log))
      /\ Len(rows) < TickRows => Cardinality(Recorded(log)) = Len(rows)
  BY TableHolds
<1>9. \A u : Of(after, u) = IF s = u THEN Of(log, u) \cup {n + 1} ELSE Of(log, u)
  BY <1>1, OfGrows
<1>10. \A i \in 1 .. Len(rows) :
          /\ (IF rows[i].symbol = s THEN rows[i].count + 1 ELSE rows[i].count)
                = Cardinality(SinceFold(after, Of(after, rows[i].symbol), Len(after) + 1))
          /\ RatesAre(after, rows[i].history, rows[i].symbol)
  <2> TAKE i \in 1 .. Len(rows)
  <2>1. /\ rows[i].count = Cardinality(SinceFold(log, Of(log, rows[i].symbol), Len(log) + 1))
        /\ RatesAre(log, rows[i].history, rows[i].symbol)
    BY <1>3
  <2> QED BY <1>1, <2>1, RowStays
\* What the others tell.
<1>11. OtherTells(after, IF HasRow(after, s) THEN tiOther ELSE tiOther + 1)
  <2> DEFINE old == {i \in At(log, "record") : ~HasRow(log, log[i].symbol)}
             new == {i \in At(after, "record") : ~HasRow(after, after[i].symbol)}
  <2>1. /\ n \in Nat /\ At(log, "record") \subseteq 1 .. n
        /\ At(after, "record") = At(log, "record") \cup {n + 1}
    BY <1>1, LogGrows, AtGrows
  <2>2. after[n + 1] = e /\ \A i \in 1 .. n : after[i] = log[i]
    BY <1>1, LogGrows
  <2>3. \A i \in At(log, "record") : HasRow(after, after[i].symbol) <=> HasRow(log, log[i].symbol)
    <3> TAKE i \in At(log, "record")
    <3>1. after[i] = log[i]
      BY <2>1, <2>2
    <3>2. i \in Of(log, log[i].symbol)
      BY DEF Of
    <3> QED BY <1>6, <3>1, <3>2
  <2>4. old \subseteq 1 .. n
    BY <2>1
  <2>5. new = IF HasRow(after, s) THEN old ELSE old \cup {n + 1}
    <3> HIDE DEF n, after
    <3>1. after[n + 1].symbol = s
      BY <1>1, <2>2
    <3> QED BY <2>1, <2>3, <3>1
  <2>6. tiOther = Cardinality(old)
    BY DEF OtherTells
  <2> HIDE DEF old, n
  <2>7. Cardinality(old \cup {n + 1}) = Cardinality(old) + 1
    BY <2>1, <2>4, PartOfLog
  <2>8. (IF HasRow(after, s) THEN tiOther ELSE tiOther + 1) = Cardinality(new)
    BY <2>5, <2>6, <2>7
  <2> QED BY <2>8 DEF OtherTells
<1>12. PICK z \in Nat : z = 1
  OBVIOUS
<1> DEFINE has(i) == rows[i].symbol = s
           at == SelectInSeq(rows, LAMBDA r : r.symbol = s)
<1>13. \/ at = 0 /\ \A i \in 1 .. Len(rows) : ~has(i)
       \/ at \in 1 .. Len(rows) /\ has(at)
  <2> DEFINE I == {i \in 1 .. Len(rows) : has(i)}
  <2>1. at = IF I # {} THEN Min(I) ELSE 0
    BY DEF SelectInSeq
  <2>2. I \subseteq Nat
    OBVIOUS
  <2>3. I # {} => Min(I) \in I
    <3> HIDE DEF I
    <3> QED BY <2>2, MinOfNats
  <2> QED BY <2>1, <2>3
<1>14. \/ at # 0 /\ tiRows' = [tiRows EXCEPT ![at].count = @ + 1] /\ tiOther' = tiOther
       \/ at = 0 /\ Len(rows) < TickRows /\ tiOther' = tiOther
          /\ tiRows' = Append(tiRows, [symbol |-> s, count |-> 1, history |-> <<>>])
       \/ at = 0 /\ ~(Len(rows) < TickRows) /\ tiOther' = tiOther + 1 /\ tiRows' = tiRows
  BY DEF Count
<1> HIDE DEF at
<1>15. at # 0 => HasRow(log, s)
  BY <1>3, <1>13
<1>16. at = 0 => ~HasRow(log, s)
  <2> SUFFICES ASSUME at = 0, HasRow(log, s) PROVE FALSE
    OBVIOUS
  <2>1. \E i \in 1 .. Len(rows) : rows[i].symbol = s
    BY <1>3
  <2> QED BY <1>3, <1>13, <2>1
<1> HIDE DEF after, n, log, rows
<1>17. CASE at # 0
  <2>1. HasRow(log, s) /\ Of(log, s) # {} /\ at \in 1 .. Len(rows) /\ rows[at].symbol = s
    BY <1>13, <1>15, <1>17 DEF HasRow
  <2>2. \A u : HasRow(after, u) <=> HasRow(log, u)
    BY <1>6, <2>1
  <2> DEFINE now == [i \in 1 .. Len(rows) |->
                       [symbol |-> rows[i].symbol, history |-> rows[i].history,
                        count |-> IF rows[i].symbol = s THEN rows[i].count + 1 ELSE rows[i].count]]
  <2>3. \A i \in 1 .. Len(rows) : i = at <=> rows[i].symbol = s
    BY <1>3, <2>1
  <2>4. tiRows' = now /\ tiOther' = tiOther
    <3>1. tiRows' = [tiRows EXCEPT ![at].count = @ + z] /\ tiOther' = tiOther
      BY <1>12, <1>14, <1>17
    <3>2. tiRows = rows /\ rows = [i \in 1 .. Len(rows) |-> rows[i]]
      BY <1>3 DEF rows
    <3>3. [rows EXCEPT ![at].count = @ + z] =
             [i \in 1 .. Len(rows) |-> IF i = at THEN [rows[at] EXCEPT !.count = @ + z] ELSE rows[i]]
      BY <1>3, <2>1
    <3>4. \A r \in RowType : r = [symbol |-> r.symbol, history |-> r.history, count |-> r.count]
      BY DEF RowType
    <3>5. \A r \in RowType : [r EXCEPT !.count = @ + z] = [symbol |-> r.symbol, history |-> r.history, count |-> r.count + z]
      <4> TAKE r \in RowType
      <4> DEFINE c == r.count + z
      <4>1. r = [symbol |-> r.symbol, history |-> r.history, count |-> r.count]
        BY <3>4
      <4>2. [r EXCEPT !.count = c] = [symbol |-> r.symbol, history |-> r.history, count |-> c]
        <5> HIDE DEF c
        <5> QED BY SMTT(60) DEF RowType
      <4> QED BY <4>2
    <3>6. ASSUME NEW i \in 1 .. Len(rows)
          PROVE  (IF i = at THEN [rows[at] EXCEPT !.count = @ + z] ELSE rows[i]) = now[i]
      <4>1. rows[i] \in RowType
        BY <1>4
      <4>2. now[i] = [symbol |-> rows[i].symbol, history |-> rows[i].history,
                      count |-> IF rows[i].symbol = s THEN rows[i].count + 1 ELSE rows[i].count]
        OBVIOUS
      <4> HIDE DEF now, RowType
      <4>3. CASE i = at
        BY <1>12, <2>3, <3>5, <4>1, <4>2, <4>3
      <4>4. CASE i # at
        BY <2>3, <3>4, <4>1, <4>2, <4>4
      <4> QED BY <4>3, <4>4
    <3>7. now = [i \in 1 .. Len(rows) |-> now[i]]
      OBVIOUS
    <3> HIDE DEF now
    <3> QED BY <3>1, <3>2, <3>3, <3>6, <3>7
  <2>5. /\ Len(now) = Len(rows) /\ now \in Seq(RowType) /\ DOMAIN now = 1 .. Len(rows)
        /\ \A i \in 1 .. Len(rows) : /\ now[i].symbol = rows[i].symbol /\ now[i].history = rows[i].history
                                    /\ now[i].count = IF rows[i].symbol = s THEN rows[i].count + 1 ELSE rows[i].count
    <3>1. \A i \in 1 .. Len(rows) : now[i] \in RowType
      BY <1>4 DEF RowType
    <3>2. \A i \in 1 .. Len(rows) : /\ now[i].symbol = rows[i].symbol /\ now[i].history = rows[i].history
                                    /\ now[i].count = IF rows[i].symbol = s THEN rows[i].count + 1 ELSE rows[i].count
      OBVIOUS
    <3>3. DOMAIN now = 1 .. Len(rows)
      OBVIOUS
    <3>4. now = [i \in 1 .. Len(rows) |-> now[i]]
      OBVIOUS
    <3> HIDE DEF now, RowType
    <3>5. [i \in 1 .. Len(rows) |-> now[i]] \in Seq(RowType)
      BY <1>3, <3>1
    <3>6. now \in Seq(RowType)
      BY <3>4, <3>5
    <3>7. Len(now) = Len(rows)
      BY <1>3, <3>3, <3>6
    <3> QED BY <3>2, <3>3, <3>6, <3>7
  <2> HIDE DEF now
  <2>6. {now[i].symbol : i \in DOMAIN now} = {u \in Tickers : HasRow(after, u)}
    <3>1. {now[i].symbol : i \in DOMAIN now} = {rows[i].symbol : i \in 1 .. Len(rows)}
      BY <2>5
    <3>2. {u \in Tickers : HasRow(after, u)} = {u \in Tickers : HasRow(log, u)}
      BY <2>2
    <3> QED BY <1>3, <3>1, <3>2
  <2>7. RowsTell(after, now)
    <3>1. \A i \in 1 .. Len(rows) : now[i].count = Cardinality(SinceFold(after, Of(after, now[i].symbol), Len(after) + 1))
                /\ RatesAre(after, now[i].history, now[i].symbol)
      BY <1>10, <2>5
    <3> QED BY <2>5, <2>6, <3>1 DEF RowsTell
  <2>8. Len(now) < TickRows => \A u \in Tickers : Of(after, u) # {} => HasRow(after, u)
    BY <1>3, <1>9, <2>1, <2>2, <2>5
  <2>9. \A i, j \in 1 .. Len(now) : now[i].symbol = now[j].symbol => i = j
    BY <1>3, <2>5
  <2>10. Table(after, now)
    BY <1>3, <2>5, <2>7, <2>8, <2>9 DEF Table
  <2>11. HasRow(after, s)
    BY <2>1, <2>2
  <2> QED BY <1>2, <1>11, <2>4, <2>10, <2>11
<1>18. CASE at = 0 /\ Len(rows) < TickRows
  <2> DEFINE row == [symbol |-> s, count |-> z, history |-> <<>>]
             now == Append(rows, row)
  <2>1. tiRows' = now /\ tiOther' = tiOther
    BY <1>12, <1>14, <1>18 DEF rows
  <2>2. Of(log, s) = {} /\ ~HasRow(log, s)
    BY <1>3, <1>16, <1>18
  <2>3. HasRow(after, s)
    BY <1>7, <1>8, <1>18, <2>2
  <2>4. row \in RowType /\ row.symbol = s /\ row.count = 1 /\ row.history = <<>>
    <3>1. <<>> \in Seq(Rates)
      OBVIOUS
    <3> HIDE DEF Rates
    <3> QED BY <1>12, <3>1 DEF RowType
  <2> HIDE DEF row, RowType
  <2>5. /\ now \in Seq(RowType) /\ Len(now) = Len(rows) + 1 /\ DOMAIN now = 1 .. Len(rows) + 1
        /\ now[Len(rows) + 1] = row /\ \A i \in 1 .. Len(rows) : now[i] = rows[i]
    BY <1>3, <2>4
  <2> HIDE DEF now
  <2>6. 1 .. Len(rows) + 1 = (1 .. Len(rows)) \cup {Len(rows) + 1}
    BY <1>3
  <2>7. \A i \in 1 .. Len(rows) : rows[i].symbol # s
    BY <1>13, <1>18
  <2>8. {now[i].symbol : i \in DOMAIN now} = {u \in Tickers : HasRow(after, u)}
    <3>3. \A i \in 1 .. Len(rows) : now[i].symbol = rows[i].symbol
      BY <2>5
    <3>4. now[Len(rows) + 1].symbol = s
      BY <2>4, <2>5
    <3>1. {now[i].symbol : i \in DOMAIN now} = {rows[i].symbol : i \in 1 .. Len(rows)} \cup {s}
      <4>1. {now[i].symbol : i \in DOMAIN now} = {now[i].symbol : i \in 1 .. Len(rows)} \cup {now[Len(rows) + 1].symbol}
        BY <2>5, <2>6
      <4>2. {now[i].symbol : i \in 1 .. Len(rows)} = {rows[i].symbol : i \in 1 .. Len(rows)}
        BY <3>3
      <4> QED BY <3>4, <4>1, <4>2
    <3>2. {u \in Tickers : HasRow(after, u)} = {u \in Tickers : HasRow(log, u)} \cup {s}
      BY <1>6, <2>3
    <3> QED BY <1>3, <3>1, <3>2
  <2>9. /\ 1 = Cardinality(SinceFold(after, Of(after, s), Len(after) + 1))
        /\ RatesAre(after, <<>>, s)
    <3>1. SinceFold(log, Of(log, s), Len(log) + 1) = {}
      BY <2>2 DEF SinceFold
    <3>2. Of(log, s) = {}
      BY <2>2
    <3>3. RatesAre(after, <<>>, s)
      BY <1>1, <3>2, NoRates DEF after, log
    <3>4. 1 = Cardinality(SinceFold(after, Of(after, s), Len(after) + 1))
      <4>1. Len(after) + 1 = n + 2 /\ n = Len(log) /\ log \in Seq(Entries)
        BY <1>1, LogGrows DEF after, n, log
      <4>2. Grown(Of(log, s), Of(after, s), log) /\ Of(after, s) # Of(log, s)
        BY <1>9, <2>2, <4>1 DEF Grown
      <4>3. SinceFold(after, Of(after, s), n + 2) = SinceFold(log, Of(log, s), n + 1) \cup {n + 1}
        <5>1. SinceFold(after, Of(after, s), Len(log) + 2) =
                  IF Of(after, s) = Of(log, s) THEN SinceFold(log, Of(log, s), Len(log) + 1)
                  ELSE SinceFold(log, Of(log, s), Len(log) + 1) \cup {Len(log) + 1}
          BY <1>1, <4>1, <4>2, SinceNow DEF after
        <5> QED BY <4>1, <4>2, <5>1
      <4>4. SinceFold(after, Of(after, s), n + 2) = {n + 1}
        BY <3>1, <4>1, <4>3
      <4> QED BY <4>1, <4>4, FS_Singleton
    <3> QED BY <3>3, <3>4
  <2>10. RowsTell(after, now)
    <3>1. \A i \in 1 .. Len(rows) : now[i].count = Cardinality(SinceFold(after, Of(after, now[i].symbol), Len(after) + 1))
                /\ RatesAre(after, now[i].history, now[i].symbol)
      BY <1>10, <2>5, <2>7
    <3>2. /\ now[Len(rows) + 1].count = Cardinality(SinceFold(after, Of(after, now[Len(rows) + 1].symbol), Len(after) + 1))
          /\ RatesAre(after, now[Len(rows) + 1].history, now[Len(rows) + 1].symbol)
      BY <2>4, <2>5, <2>9
    <3>3. \A i \in DOMAIN now :
            /\ now[i].count = Cardinality(SinceFold(after, Of(after, now[i].symbol), Len(after) + 1))
            /\ RatesAre(after, now[i].history, now[i].symbol)
      <4>1. DOMAIN now = (1 .. Len(rows)) \cup {Len(rows) + 1}
        BY <2>5, <2>6
      <4> QED BY <4>1, <3>1, <3>2
    <3>4. {now[i].symbol : i \in DOMAIN now} = {u \in Tickers : HasRow(after, u)}
      BY <2>6, <2>8
    <3> QED BY <3>3, <3>4 DEF RowsTell
  <2>11. Len(now) < TickRows => \A u \in Tickers : Of(after, u) # {} => HasRow(after, u)
    <3>1. \A u \in Tickers : Of(log, u) # {} => HasRow(log, u)
      BY <1>3, <1>18
    <3>2. \A u \in Tickers : u # s /\ Of(after, u) # {} => HasRow(after, u)
      BY <1>6, <1>9, <3>1
    <3> QED BY <2>3, <3>2
  <2>12. \A i, j \in 1 .. Len(now) : now[i].symbol = now[j].symbol => i = j
    <3>1. \A i \in 1 .. Len(rows) : now[i].symbol = rows[i].symbol /\ now[i].symbol # s
      BY <2>5, <2>7
    <3>2. now[Len(rows) + 1].symbol = s
      BY <2>4, <2>5
    <3>3. \A i, j \in 1 .. Len(rows) : now[i].symbol = now[j].symbol => i = j
      BY <1>3, <3>1
    <3> QED BY <2>5, <2>6, <3>1, <3>2, <3>3
  <2>13. Len(now) <= TickRows
    BY <1>3, <1>5, <1>18, <2>5
  <2>14. Table(after, now)
    BY <2>5, <2>10, <2>11, <2>12, <2>13 DEF Table
  <2> QED BY <1>2, <1>11, <2>1, <2>3, <2>14
<1>19. CASE at = 0 /\ ~(Len(rows) < TickRows)
  <2>1. tiRows' = rows /\ tiOther' = tiOther + 1 /\ ~HasRow(log, s)
    BY <1>14, <1>16, <1>19 DEF rows
  <2>2. ~HasRow(after, s)
    <3>1. ~(Cardinality(Recorded(log)) < TickRows)
      BY <1>3, <1>5, <1>8, <1>19
    <3> QED BY <1>6, <1>7, <2>1, <3>1
  <2>3. \A i \in 1 .. Len(rows) : rows[i].symbol # s
    BY <1>13, <1>19
  <2>4. {rows[i].symbol : i \in DOMAIN rows} = {u \in Tickers : HasRow(after, u)}
    <3>1. {u \in Tickers : HasRow(after, u)} = {u \in Tickers : HasRow(log, u)}
      BY <1>6, <2>1, <2>2
    <3> QED BY <1>3, <3>1
  <2>5. RowsTell(after, rows)
    BY <1>3, <1>10, <2>3, <2>4 DEF RowsTell
  <2>6. Table(after, rows)
    BY <1>3, <1>19, <2>5 DEF Table
  <2>7. OtherTells(after, tiOther + 1)
    BY <1>11, <2>2
  <2>8. tiOther' \in Nat
    BY <2>1
  <2> QED BY <1>2, <2>1, <2>6, <2>7, <2>8
<1> QED BY <1>14, <1>17, <1>18, <1>19

\* A switch of the symbol on display is nothing to the table, and the totals.
LEMMA SwitchKeepsTable ==
    ASSUME NEW log \in Seq(Entries), NEW e \in Entries, e.what = "switch",
           NEW rows, Table(log, rows), NEW other, OtherTells(log, other), NEW total, NEW rate, TotalTells(log, total, rate)
    PROVE  LET after == Append(log, e)
           IN  Table(after, rows) /\ OtherTells(after, other) /\ TotalTells(after, total, rate)
<1> DEFINE after == Append(log, e)
           n == Len(log)
<1>1. \A s : HasRow(after, s) <=> HasRow(log, s)
  BY RowsSettled
<1>2. \A s : Of(after, s) = Of(log, s)
  BY OfGrows
<1>3. /\ At(after, "record") = At(log, "record") /\ At(after, "fold") = At(log, "fold")
      /\ At(log, "record") \subseteq 1 .. n /\ At(log, "fold") \subseteq 1 .. n
  BY AtGrows
<1>4. n \in Nat /\ Len(after) + 1 = n + 2 /\ \A i \in 1 .. n : after[i] = log[i]
  BY LogGrows
<1>5. Table(after, rows)
  <2>1. DOMAIN rows = 1 .. Len(rows)
    <3>1. rows \in Seq(RowType)
      BY DEF Table
    <3> HIDE DEF RowType
    <3> QED BY <3>1
  <2>2. \A i \in 1 .. Len(rows) :
            /\ rows[i].count = Cardinality(SinceFold(after, Of(after, rows[i].symbol), Len(after) + 1))
            /\ RatesAre(after, rows[i].history, rows[i].symbol)
    <3> TAKE i \in 1 .. Len(rows)
    <3>1. /\ rows[i].count = Cardinality(SinceFold(log, Of(log, rows[i].symbol), Len(log) + 1))
          /\ RatesAre(log, rows[i].history, rows[i].symbol)
      BY <2>1 DEF Table, RowsTell
    <3> QED BY <3>1, RowStays
  <2>3. {rows[i].symbol : i \in DOMAIN rows} = {s \in Tickers : HasRow(after, s)}
    <3>1. {s \in Tickers : HasRow(after, s)} = {s \in Tickers : HasRow(log, s)}
      BY <1>1
    <3> QED BY <3>1 DEF Table, RowsTell
  <2> HIDE DEF after
  <2>4. RowsTell(after, rows)
    BY <2>1, <2>2, <2>3 DEF RowsTell
  <2>5. Len(rows) < TickRows => \A s \in Tickers : Of(after, s) # {} => HasRow(after, s)
    BY <1>1, <1>2 DEF Table
  <2> QED BY <2>4, <2>5 DEF Table
<1>6. OtherTells(after, other)
  <2>1. \A i \in At(log, "record") : after[i].symbol = log[i].symbol
    BY <1>3, <1>4
  <2> HIDE DEF after
  <2>2. {i \in At(after, "record") : ~HasRow(after, after[i].symbol)} = {i \in At(log, "record") : ~HasRow(log, log[i].symbol)}
    BY <1>1, <1>3, <2>1
  <2> QED BY <2>2 DEF OtherTells
<1>7. TotalTells(after, total, rate)
  <2> DEFINE E == At(log, "record")
  <2>1. Grown(E, E, log)
    BY <1>3 DEF Grown
  <2>2. SinceFold(after, E, n + 2) = SinceFold(log, E, n + 1)
    BY <2>1, SinceNow
  <2>3. \A f \in 1 .. n : RateAt(after, E, f) = RateAt(log, E, f)
    BY <2>1, RateGrows
  <2>4. /\ total = Cardinality(SinceFold(log, E, n + 1))
        /\ \A f \in At(log, "fold") : (\A g \in At(log, "fold") : g <= f) => rate = RateAt(log, E, f)
    BY DEF TotalTells
  <2> HIDE DEF after, n, E
  <2>5. \A f \in At(after, "fold") : (\A g \in At(after, "fold") : g <= f) => rate = RateAt(after, E, f)
    BY <1>3, <2>3, <2>4
  <2> QED BY <1>3, <1>4, <2>2, <2>4, <2>5 DEF TotalTells, E
<1> QED BY <1>5, <1>6, <1>7

\* What a record is to the totals.
LEMMA RecordKeepsTotals ==
    ASSUME NEW log \in Seq(Entries), NEW e \in Entries, e.what = "record",
           NEW total \in Nat, NEW rate, TotalTells(log, total, rate)
    PROVE  TotalTells(Append(log, e), total + 1, rate)
<1> DEFINE after == Append(log, e)
           n == Len(log)
           E == At(log, "record")
           more == At(after, "record")
<1>1. /\ more = E \cup {n + 1} /\ At(after, "fold") = At(log, "fold")
      /\ E \subseteq 1 .. n /\ At(log, "fold") \subseteq 1 .. n
  BY AtGrows
<1>2. n \in Nat /\ Len(after) + 1 = n + 2
  BY LogGrows
<1>3. Grown(E, more, log) /\ more # E
  <2>1. n + 1 \notin E
    BY <1>1, <1>2
  <2>2. Grown(E, E \cup {n + 1}, log)
    BY <1>1 DEF Grown
  <2> HIDE DEF E, more, n
  <2> QED BY <1>1, <2>1, <2>2
<1>4. SinceFold(after, more, n + 2) = SinceFold(log, E, n + 1) \cup {n + 1}
  BY <1>3, SinceNow
<1>5. \A f \in 1 .. n : RateAt(after, more, f) = RateAt(log, E, f)
  BY <1>3, RateGrows
<1>6. /\ total = Cardinality(SinceFold(log, E, n + 1))
      /\ \A f \in At(log, "fold") : (\A g \in At(log, "fold") : g <= f) => rate = RateAt(log, E, f)
  BY DEF TotalTells
<1>7. SinceFold(log, E, n + 1) \subseteq 1 .. n
  BY <1>1 DEF SinceFold
<1> HIDE DEF after, n, E
<1>8. total + 1 = Cardinality(SinceFold(after, more, n + 2))
  BY <1>2, <1>4, <1>6, <1>7, PartOfLog
<1>9. \A f \in At(after, "fold") : (\A g \in At(after, "fold") : g <= f) => rate = RateAt(after, more, f)
  <2> HIDE DEF more
  <2> QED BY <1>1, <1>5, <1>6
<1> QED BY <1>2, <1>8, <1>9 DEF TotalTells, after

\* What a fold does to the table, the others and the totals.
LEMMA FoldKeepsTable ==
    ASSUME tiLog \in Seq(Entries), Table(tiLog, tiRows), OtherTells(tiLog, tiOther), tiTotal \in Nat,
           TotalTells(tiLog, tiTotal, tiRate), tiSince \in Nat,
           tiLog' = Append(tiLog, [what |-> "fold", time |-> tiSince]),
           tiRows' = [i \in DOMAIN tiRows |-> Folded(tiRows[i])]
    PROVE  /\ Table(tiLog', tiRows') /\ OtherTells(tiLog', tiOther)
           /\ TotalTells(tiLog', 0, Rate(tiTotal, tiSince))
<1> DEFINE e == [what |-> "fold", time |-> tiSince]
           log == tiLog
           after == Append(log, e)
           n == Len(log)
           rows == tiRows
           now == [i \in DOMAIN rows |-> Folded(rows[i])]
<1>1. e \in Entries /\ e.what = "fold" /\ e.time = tiSince
  BY DEF Entries
<1> HIDE DEF e
<1>2. tiLog' = after /\ tiRows' = now
  BY DEF e
<1>3. \A s : HasRow(after, s) <=> HasRow(log, s)
  BY <1>1, RowsSettled
<1>4. \A s : Of(after, s) = Of(log, s) /\ Of(log, s) \subseteq 1 .. n
  BY <1>1, OfGrows
<1>5. /\ At(after, "record") = At(log, "record") /\ At(after, "fold") = At(log, "fold") \cup {n + 1}
      /\ At(log, "record") \subseteq 1 .. n /\ At(log, "fold") \subseteq 1 .. n
  BY <1>1, AtGrows
<1>6. n \in Nat /\ Len(after) + 1 = n + 2 /\ \A i \in 1 .. n : after[i] = log[i]
  BY <1>1, LogGrows
<1>7. rows \in Seq(RowType) /\ DOMAIN rows = 1 .. Len(rows) /\ Len(rows) \in Nat
  <2>1. rows \in Seq(RowType)
    BY DEF Table
  <2> HIDE DEF RowType
  <2> QED BY <2>1
<1>8. \A i \in 1 .. Len(rows) :
        /\ now[i] \in RowType /\ now[i].symbol = rows[i].symbol
        /\ now[i].count = Cardinality(SinceFold(after, Of(after, now[i].symbol), Len(after) + 1))
        /\ RatesAre(after, now[i].history, now[i].symbol)
  <2> TAKE i \in 1 .. Len(rows)
  <2> DEFINE r == rows[i]
             s == r.symbol
             kept == IF Len(r.history) = Kept THEN Tail(r.history) ELSE r.history
             rt == Rate(r.count, tiSince)
             told == Append(kept, rt)
  <2>1. r \in RowType /\ now[i] = Folded(r)
    BY <1>7, ElementOfSeq
  <2>2. /\ s \in Tickers /\ r.count \in Nat /\ r.history \in Seq(Rates)
        /\ r = [symbol |-> s, count |-> r.count, history |-> r.history]
    BY <2>1 DEF RowType
  <2>3. r.count = Cardinality(SinceFold(log, Of(log, s), Len(log) + 1)) /\ RatesAre(log, r.history, s) /\ Of(log, s) # {}
    <3>1. r.count = Cardinality(SinceFold(log, Of(log, s), Len(log) + 1)) /\ RatesAre(log, r.history, s)
      BY <1>7 DEF Table, RowsTell
    <3>2. s \in {u \in Tickers : HasRow(log, u)}
      BY <1>7 DEF Table, RowsTell
    <3> QED BY <3>1, <3>2 DEF HasRow
  <2>4. rt \in Rates
    BY <2>2 DEF Rates, Rate
  <2>5. told \in Seq(Rates)
    <3> HIDE DEF Rates, rt, r
    <3>1. \A h \in Seq(Rates) : Append(h, rt) \in Seq(Rates) /\ (h # <<>> => Tail(h) \in Seq(Rates))
      BY <2>4
    <3>2. Len(r.history) = Kept => r.history # <<>>
      BY TicksAssumption
    <3> QED BY <2>2, <3>1, <3>2
  <2>6. PICK z \in Nat : z = 0
    OBVIOUS
  <2>7. Folded(r) \in RowType /\ Folded(r).symbol = s /\ Folded(r).count = 0 /\ Folded(r).history = told
    <3>1. Folded(r) = [r EXCEPT !.history = told, !.count = z]
      BY <2>6 DEF Folded
    <3> HIDE DEF told, r, Rates
    <3> DEFINE y == [r EXCEPT !.history = told, !.count = z]
    <3>2. y \in RowType /\ y.symbol = r.symbol /\ y.count = z /\ y.history = told
      BY <2>1, <2>5, <2>6 DEF RowType
    <3> QED BY <2>6, <3>1, <3>2
  <2>8. SinceFold(after, Of(after, s), n + 2) = {}
    <3>1. Grown(Of(log, s), Of(after, s), log) /\ Of(after, s) = Of(log, s)
      BY <1>4 DEF Grown
    <3> QED BY <1>1, <3>1, SinceAFold
  <2>9. RatesAre(after, told, s)
    <3>1. rt = Rate(Cardinality(SinceFold(log, Of(log, s), Len(log) + 1)), e.time)
      BY <1>1, <2>3
    <3> HIDE DEF rt
    <3> QED BY <1>1, <2>2, <2>3, <2>4, <3>1, RatesFold
  <2> HIDE DEF told
  <2>11. Cardinality({}) = 0
    BY FS_EmptySet
  <2>12. /\ now[i].symbol = s /\ now[i].count = 0 /\ now[i].history = told /\ now[i] \in RowType
    BY <2>1, <2>7
  <2> HIDE DEF now
  <2> QED BY <1>6, <2>8, <2>9, <2>11, <2>12
<1>9. now \in Seq(RowType) /\ Len(now) = Len(rows) /\ DOMAIN now = 1 .. Len(rows)
  <2>1. DOMAIN now = 1 .. Len(rows) /\ now = [i \in 1 .. Len(rows) |-> now[i]]
    BY <1>7
  <2> HIDE DEF now, RowType
  <2>2. [i \in 1 .. Len(rows) |-> now[i]] \in Seq(RowType)
    BY <1>7, <1>8
  <2>3. now \in Seq(RowType)
    BY <2>1, <2>2
  <2> QED BY <1>7, <2>1, <2>3
<1>10. Table(after, now)
  <2>1. {now[i].symbol : i \in DOMAIN now} = {s \in Tickers : HasRow(after, s)}
    <3>1. {s \in Tickers : HasRow(after, s)} = {s \in Tickers : HasRow(log, s)}
      BY <1>3
    <3>2. \A i \in 1 .. Len(rows) : now[i].symbol = rows[i].symbol
      BY <1>8
    <3>3. {rows[i].symbol : i \in 1 .. Len(rows)} = {s \in Tickers : HasRow(log, s)}
      BY <1>7 DEF Table, RowsTell
    <3> HIDE DEF now, rows
    <3>4. {now[i].symbol : i \in DOMAIN now} = {rows[i].symbol : i \in 1 .. Len(rows)}
      BY <1>9, <3>2
    <3> QED BY <3>1, <3>3, <3>4
  <2>2. \A i, j \in 1 .. Len(rows) : rows[i].symbol = rows[j].symbol => i = j
    BY DEF Table
  <2>3. Len(rows) <= TickRows /\ (Len(rows) < TickRows => \A s \in Tickers : Of(after, s) # {} => HasRow(after, s))
    BY <1>3, <1>4 DEF Table
  <2> HIDE DEF now, rows, after
  <2>4. RowsTell(after, now)
    BY <1>8, <1>9, <2>1 DEF RowsTell
  <2>5. \A i, j \in 1 .. Len(now) : now[i].symbol = now[j].symbol => i = j
    BY <1>8, <1>9, <2>2
  <2> QED BY <1>9, <2>3, <2>4, <2>5 DEF Table
<1>11. OtherTells(after, tiOther)
  <2>1. \A i \in At(log, "record") : after[i].symbol = log[i].symbol
    BY <1>5, <1>6
  <2>2. tiOther = Cardinality({i \in At(log, "record") : ~HasRow(log, log[i].symbol)})
    BY DEF OtherTells
  <2> HIDE DEF after, log
  <2>3. {i \in At(after, "record") : ~HasRow(after, after[i].symbol)} = {i \in At(log, "record") : ~HasRow(log, log[i].symbol)}
    BY <1>3, <1>5, <2>1
  <2> QED BY <2>2, <2>3 DEF OtherTells
<1>12. TotalTells(after, 0, Rate(tiTotal, tiSince))
  <2> DEFINE E == At(log, "record")
  <2>1. Grown(E, E, log)
    BY <1>5 DEF Grown
  <2>2. SinceFold(after, E, n + 2) = {}
    BY <1>1, <2>1, SinceAFold
  <2>3. RateAt(after, E, n + 1) = Rate(Cardinality(SinceFold(log, E, n + 1)), tiSince)
    BY <1>1, <2>1, RateGrows
  <2>4. tiTotal = Cardinality(SinceFold(log, E, n + 1))
    BY DEF TotalTells
  <2>5. Cardinality({}) = 0
    BY FS_EmptySet
  <2> HIDE DEF after, n, E, log
  <2>6. \A f \in At(after, "fold") : (\A g \in At(after, "fold") : g <= f) => f = n + 1
    <3>1. n + 1 \in At(after, "fold")
      BY <1>5
    <3>2. \A f \in At(log, "fold") : ~(n + 1 <= f)
      BY <1>5, <1>6 DEF log
    <3> QED BY <1>5, <3>1, <3>2 DEF log
  <2>7. \A f \in At(after, "fold") : (\A g \in At(after, "fold") : g <= f) =>
            Rate(tiTotal, tiSince) = RateAt(after, E, f)
    BY <2>3, <2>4, <2>6
  <2>8. At(after, "record") = E
    BY <1>5 DEF E
  <2> QED BY <1>6, <2>2, <2>5, <2>7, <2>8 DEF TotalTells
<1> QED BY <1>2, <1>10, <1>11, <1>12

--------------------------------------------------------------------------------
TicksTypes ==
    /\ tiLog \in Seq(Entries) /\ tiShown \in Tickers /\ tiOther \in Nat /\ tiTotal \in Nat
    /\ tiSince \in Nat /\ tiFed \in BOOLEAN

TicksInv == TicksTypes /\ Table(tiLog, tiRows) /\ TicksAddUp

LEMMA TicksStart ==
    ASSUME TicksInit
    PROVE  TicksInv
<1> DEFINE e == [what |-> "switch", symbol |-> tiShown]
<1>1. /\ tiRows = <<>> /\ tiOther = 0 /\ tiTotal = 0 /\ tiSince = 0 /\ tiFed = FALSE /\ tiShown \in Tickers
      /\ tiLog = <<e>>
  BY DEF TicksInit
<1>2. e \in Entries /\ e.what = "switch"
  BY <1>1 DEF Entries
<1> HIDE DEF e
<1>3. tiLog \in Seq(Entries) /\ DOMAIN tiLog = {1} /\ tiLog[1] = e /\ Len(tiLog) = 1
  <2> HIDE DEF Entries
  <2> QED BY <1>1, <1>2
<1>4. At(tiLog, "record") = {} /\ At(tiLog, "fold") = {} /\ \A s : Of(tiLog, s) = {}
  BY <1>2, <1>3 DEF At, Of
<1>5. \A s : ~HasRow(tiLog, s)
  BY <1>4 DEF HasRow
<1>6. Cardinality({}) = 0
  BY FS_EmptySet
<1>7. RowsTell(tiLog, tiRows)
  <2>1. DOMAIN tiRows = {}
    BY <1>1
  <2>2. {tiRows[i].symbol : i \in DOMAIN tiRows} = {}
    BY <2>1
  <2>3. {s \in Tickers : HasRow(tiLog, s)} = {}
    BY <1>5
  <2> QED BY <2>1, <2>2, <2>3 DEF RowsTell
<1>8. Table(tiLog, tiRows)
  <2>1. tiRows \in Seq(RowType) /\ Len(tiRows) = 0
    BY <1>1
  <2>2. 0 <= TickRows /\ \A i : i \notin 1 .. 0
    BY TicksAssumption
  <2> QED BY <1>4, <1>7, <2>1, <2>2 DEF Table
<1>9. OtherTells(tiLog, tiOther)
  <2>1. {i \in At(tiLog, "record") : ~HasRow(tiLog, tiLog[i].symbol)} = {}
    BY <1>4
  <2> QED BY <1>1, <1>6, <2>1 DEF OtherTells
<1>10. TotalTells(tiLog, tiTotal, tiRate)
  <2>1. SinceFold(tiLog, At(tiLog, "record"), Len(tiLog) + 1) = {}
    BY <1>4 DEF SinceFold
  <2> QED BY <1>1, <1>4, <1>6, <2>1 DEF TotalTells
<1>11. FedTells(tiLog, tiShown, tiFed)
  BY <1>1, <1>4 DEF FedTells
<1> QED BY <1>1, <1>3, <1>7, <1>8, <1>9, <1>10, <1>11 DEF TicksInv, TicksTypes, TicksAddUp

\* Whether the symbol on display is fed.
LEMMA FedGrows ==
    ASSUME NEW log \in Seq(Entries), NEW e \in Entries, NEW shown, NEW fed \in BOOLEAN, FedTells(log, shown, fed)
    PROVE  /\ e.what = "record" => FedTells(Append(log, e), shown, fed \/ e.symbol = shown)
           /\ e.what = "fold" => FedTells(Append(log, e), shown, fed)
           /\ e.what = "switch" => \A s : FedTells(Append(log, e), s, FALSE)
<1> DEFINE after == Append(log, e)
           n == Len(log)
           W == At(log, "switch")
           V == At(after, "switch")
<1>1. n \in Nat /\ W \subseteq 1 .. n /\ V = IF e.what = "switch" THEN W \cup {n + 1} ELSE W
  BY LogGrows, AtGrows
<1>2. \A s : /\ Of(log, s) \subseteq 1 .. n
             /\ Of(after, s) = IF e.what = "record" /\ e.symbol = s THEN Of(log, s) \cup {n + 1} ELSE Of(log, s)
  BY OfGrows
<1>3. fed <=> \E i \in Of(log, shown) : \A j \in W : j < i
  BY DEF FedTells
<1> HIDE DEF n, W, V, after
<1>4. ASSUME e.what = "record" PROVE FedTells(after, shown, fed \/ e.symbol = shown)
  <2>1. V = W /\ \A j \in W : j < n + 1
    BY <1>1, <1>4
  <2>2. CASE e.symbol = shown
    <3>1. n + 1 \in Of(after, shown)
      BY <1>2, <1>4, <2>2
    <3> QED BY <2>1, <2>2, <3>1 DEF FedTells, V
  <2>3. CASE e.symbol # shown
    <3>1. Of(after, shown) = Of(log, shown)
      BY <1>2, <2>3
    <3> QED BY <1>3, <2>1, <2>3, <3>1 DEF FedTells, V
  <2> QED BY <2>2, <2>3
<1>5. ASSUME e.what = "fold" PROVE FedTells(after, shown, fed)
  <2>1. V = W /\ Of(after, shown) = Of(log, shown)
    BY <1>1, <1>2, <1>5
  <2> QED BY <1>3, <2>1 DEF FedTells, V
<1>6. ASSUME e.what = "switch", NEW s PROVE FedTells(after, s, FALSE)
  <2>1. n + 1 \in V /\ Of(after, s) \subseteq 1 .. n
    BY <1>1, <1>2, <1>6
  <2>2. \A i \in 1 .. n : ~(n + 1 < i)
    BY <1>1
  <2> QED BY <2>1, <2>2 DEF FedTells, V
<1> QED BY <1>4, <1>5, <1>6 DEF after

LEMMA TicksStay ==
    ASSUME TicksInv, [TicksNext]_ticksVars
    PROVE  TicksInv'
<1>1. /\ tiLog \in Seq(Entries) /\ tiShown \in Tickers /\ tiOther \in Nat /\ tiTotal \in Nat
      /\ tiSince \in Nat /\ tiFed \in BOOLEAN /\ Table(tiLog, tiRows) /\ OtherTells(tiLog, tiOther)
      /\ TotalTells(tiLog, tiTotal, tiRate) /\ FedTells(tiLog, tiShown, tiFed)
  BY DEF TicksInv, TicksTypes, TicksAddUp
<1> DEFINE All == /\ tiLog' \in Seq(Entries) /\ tiShown' \in Tickers /\ tiOther' \in Nat /\ tiTotal' \in Nat
                  /\ tiSince' \in Nat /\ tiFed' \in BOOLEAN /\ Table(tiLog', tiRows') /\ OtherTells(tiLog', tiOther')
                  /\ TotalTells(tiLog', tiTotal', tiRate') /\ FedTells(tiLog', tiShown', tiFed')
<1>2. All => TicksInv'
  <2>1. Table(tiLog', tiRows') => RowsTell(tiLog', tiRows')
    BY DEF Table
  <2> QED BY <2>1 DEF TicksInv, TicksTypes, TicksAddUp
<1>3. CASE Fold
  <2> DEFINE e == [what |-> "fold", time |-> tiSince]
  <2>1. /\ tiLog' = Append(tiLog, e) /\ tiRows' = [i \in DOMAIN tiRows |-> Folded(tiRows[i])]
        /\ tiRate' = Rate(tiTotal, tiSince) /\ tiTotal' = 0 /\ tiSince' = 0
        /\ tiOther' = tiOther /\ tiShown' = tiShown /\ tiFed' = tiFed
    BY <1>3 DEF Fold, Logs
  <2>2. e \in Entries /\ e.what = "fold"
    BY <1>1 DEF Entries
  <2>3. Table(tiLog', tiRows') /\ OtherTells(tiLog', tiOther) /\ TotalTells(tiLog', 0, Rate(tiTotal, tiSince))
    BY <1>1, <2>1, FoldKeepsTable
  <2> HIDE DEF e
  <2>4. FedTells(tiLog', tiShown, tiFed) /\ tiLog' \in Seq(Entries)
    <3>1. FedTells(Append(tiLog, e), tiShown, tiFed)
      BY <1>1, <2>2, FedGrows
    <3>2. Append(tiLog, e) \in Seq(Entries)
      BY <1>1, <2>2, LogGrows
    <3> QED BY <2>1, <3>1, <3>2
  <2> QED BY <1>1, <1>2, <2>1, <2>3, <2>4
<1>4. CASE Passes
  <2>1. /\ tiSince' = tiSince + 1 /\ tiLog' = tiLog /\ tiRows' = tiRows /\ tiOther' = tiOther
        /\ tiTotal' = tiTotal /\ tiRate' = tiRate /\ tiShown' = tiShown /\ tiFed' = tiFed
    BY <1>4 DEF Passes
  <2>2. tiSince' \in Nat
    BY <1>1, <2>1
  <2> QED BY <1>1, <1>2, <2>1, <2>2
<1>5. ASSUME NEW s \in Tickers, DrainOne(s) PROVE TicksInv'
  <2> DEFINE e == [what |-> "record", symbol |-> s]
  <2>1. /\ tiLog' = Append(tiLog, e) /\ Count(s) /\ tiTotal' = tiTotal + 1
        /\ tiFed' = (tiFed \/ s = tiShown) /\ tiRate' = tiRate /\ tiSince' = tiSince /\ tiShown' = tiShown
    BY <1>5 DEF DrainOne, Logs
  <2>2. e \in Entries /\ e.what = "record" /\ e.symbol = s
    BY DEF Entries
  <2>3. Table(tiLog', tiRows') /\ OtherTells(tiLog', tiOther') /\ tiOther' \in Nat
    BY <1>1, <2>1, RecordKeepsTable
  <2> HIDE DEF e
  <2>4. TotalTells(tiLog', tiTotal', tiRate')
    BY <1>1, <2>1, <2>2, RecordKeepsTotals
  <2>5. FedTells(tiLog', tiShown', tiFed')
    <3>1. FedTells(Append(tiLog, e), tiShown, tiFed \/ e.symbol = tiShown)
      BY <1>1, <2>2, FedGrows
    <3> QED BY <2>1, <2>2, <3>1
  <2>6. tiLog' \in Seq(Entries) /\ tiTotal' \in Nat /\ tiFed' \in BOOLEAN
    <3>1. tiLog' \in Seq(Entries)
      BY <1>1, <2>1, <2>2, LogGrows
    <3>2. tiTotal' \in Nat
      BY <1>1, <2>1
    <3>3. tiFed' \in BOOLEAN
      BY <1>1, <2>1
    <3> QED BY <3>1, <3>2, <3>3
  <2> QED BY <1>1, <1>2, <2>1, <2>3, <2>4, <2>5, <2>6
<1>6. ASSUME NEW s \in Tickers, Show(s) PROVE TicksInv'
  <2> DEFINE e == [what |-> "switch", symbol |-> s]
  <2>1. /\ tiLog' = Append(tiLog, e) /\ tiShown' = s /\ tiFed' = FALSE
        /\ tiRows' = tiRows /\ tiOther' = tiOther /\ tiTotal' = tiTotal /\ tiRate' = tiRate /\ tiSince' = tiSince
    BY <1>6 DEF Show, Logs
  <2>2. e \in Entries /\ e.what = "switch"
    BY DEF Entries
  <2> HIDE DEF e
  <2>3. Table(tiLog', tiRows) /\ OtherTells(tiLog', tiOther) /\ TotalTells(tiLog', tiTotal, tiRate)
    BY <1>1, <2>1, <2>2, SwitchKeepsTable
  <2>4. FedTells(tiLog', s, FALSE) /\ tiLog' \in Seq(Entries)
    <3>1. FedTells(Append(tiLog, e), s, FALSE)
      BY <1>1, <2>2, FedGrows
    <3>2. Append(tiLog, e) \in Seq(Entries)
      BY <1>1, <2>2, LogGrows
    <3> QED BY <2>1, <3>1, <3>2
  <2>5. tiFed' \in BOOLEAN
    BY <2>1
  <2> QED BY <1>1, <1>2, <2>1, <2>3, <2>4, <2>5
<1>7. CASE UNCHANGED ticksVars
  <2>1. /\ tiSince' = tiSince /\ tiLog' = tiLog /\ tiRows' = tiRows /\ tiOther' = tiOther
        /\ tiTotal' = tiTotal /\ tiRate' = tiRate /\ tiShown' = tiShown /\ tiFed' = tiFed
    BY <1>7 DEF ticksVars
  <2> QED BY <1>1, <1>2, <2>1
<1> QED BY <1>3, <1>4, <1>5, <1>6, <1>7 DEF TicksNext

\* TicksAddUp.  For any symbols, any size of the table and of a row's history,
\* and any length of the history of records, folds and switches: no record is in
\* two places, none in the row of another symbol, and every rate is that of the
\* records between two folds over the time between them.
THEOREM TicksKeepAddingUp ==
    TicksInit /\ [][TicksNext]_ticksVars => []TicksAddUp
<1>1. TicksInit => TicksInv
  BY TicksStart
<1>2. TicksInv /\ [TicksNext]_ticksVars => TicksInv'
  BY TicksStay
<1>3. TicksInv => TicksAddUp
  BY DEF TicksInv
<1> QED BY <1>1, <1>2, <1>3, PTL
================================================================================
