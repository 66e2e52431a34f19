------------------------------ MODULE FeeddProofs ------------------------------
(***************************************************************************)
(* Theorems of the feed daemon and of its log, for any number of           *)
(* connections, any records and any period between two syncs.              *)
(***************************************************************************)
EXTENDS Feedd, Lemmas

USE WalAssumption, FeeddAssumption

IsSeq(s) == \E S : s \in Seq(S)

LEMMA AppendOne ==
    ASSUME NEW s, NEW e, IsSeq(s)
    PROVE  /\ IsSeq(Append(s, e))
           /\ Len(s) \in Nat
           /\ Len(Append(s, e)) = Len(s) + 1
           /\ OneBehind(s, Append(s, e))
<1>1. PICK S : s \in Seq(S)
  BY DEF IsSeq
<1> DEFINE T == S \cup {e}
<1>2. s \in Seq(T) /\ e \in T
  BY <1>1
<1> HIDE DEF T
<1>3. Append(s, e) \in Seq(T) /\ Len(Append(s, e)) = Len(s) + 1 /\ Len(s) \in Nat
  BY <1>2
<1>4. SubSeq(Append(s, e), 1, Len(s)) = s
  BY <1>2
<1>5. QED
  BY <1>3, <1>4 DEF IsSeq, OneBehind

LEMMA EmptyIsSeq == IsSeq(<<>>) /\ Len(<<>>) = 0
<1>1. <<>> \in Seq({})
  OBVIOUS
<1>2. QED
  BY <1>1 DEF IsSeq

LEMMA FunctionIsSeq == ASSUME NEW s, NEW n \in Nat, s = [i \in 1 .. n |-> s[i]]
                       PROVE  IsSeq(s) /\ Len(s) = n
<1> DEFINE S == {s[i] : i \in 1 .. n}
<1>1. s \in [1 .. n -> S]
  OBVIOUS
<1> HIDE DEF S
<1>2. s \in Seq(S) /\ Len(s) = n
  BY <1>1
<1>3. QED
  BY <1>2 DEF IsSeq

LEMMA LenIsNat == ASSUME NEW s, IsSeq(s) PROVE Len(s) \in Nat
  BY DEF IsSeq

--------------------------------------------------------------------------------
(* The log.  What is not on the disk is at most what was written since the *)
(* last sync, and that is bounded by the sync the next append would owe.   *)

LogInv ==
    /\ IsSeq(file)
    /\ onDisk \in 0 .. Len(file)
    /\ sinceSync \in Nat
    /\ handle \in {"closed", "open", "sync", "failed"}
    /\ Policy # "None" =>
        /\ Len(file) - onDisk <= SyncEvery
        /\ handle # "closed" => Len(file) - onDisk <= sinceSync /\ sinceSync <= SyncEvery
        /\ handle = "open" => sinceSync < SyncEvery

LogStep ==
    \/ WalOpen \/ WalWriteFails \/ WalSyncOwed \/ WalSync \/ WalSyncFails
    \/ \E r : WalWrite(r)
    \/ WalDrop \/ WalWriteback \/ WalKilled \/ WalMachineCrash

LEMMA NextIsLogStep == Next => LogStep \/ UNCHANGED walVars
<1> SUFFICES ASSUME Next PROVE LogStep \/ UNCHANGED walVars
  OBVIOUS
<1>1. CASE \E c \in Conns : ClientSend(c) \/ ClientClose(c) \/ Accept(c) \/ Serve(c)
  BY <1>1 DEF ClientSend, ClientClose, Accept, Serve, ServeTop, ServeRead, ServeEnd, ServeSend,
              ServeCount
<1>2. CASE StartRing \/ StartLog \/ StartServing \/ StartFails
  BY <1>2 DEF StartRing, StartLog, StartServing, StartFails, LogStep
<1>3. CASE LoopCheck \/ Recv \/ RecvNothing \/ Stamp \/ PublishRing \/ PublishCache \/ Join
  BY <1>3 DEF LoopCheck, Recv, RecvNothing, Stamp, PublishRing, PublishCache, Join
<1>4. CASE PublishLog \/ PublishSync \/ FinalSync \/ Exit
  BY <1>4 DEF PublishLog, PublishSync, FinalSync, Exit, LogStep
<1>5. CASE Signal \/ Killed \/ MachineCrash \/ Writeback
  BY <1>5 DEF Signal, Killed, MachineCrash, Writeback, LogStep
<1>6. QED
  BY <1>1, <1>2, <1>3, <1>4, <1>5 DEF Next, PublishStep

LEMMA InitLog == Init => LogInv
  BY EmptyIsSeq DEF Init, WalInit, LogInv

LEMMA LogStepInv == ASSUME LogInv, LogStep PROVE LogInv'
<1>1. Len(file) \in Nat /\ onDisk \in Nat
  BY LenIsNat DEF LogInv
<1>2. CASE WalOpen
  <2>1. file' = <<>> /\ onDisk' = 0 /\ handle' = "open" /\ sinceSync' = 0
    BY <1>2 DEF WalOpen
  <2>2. QED
    BY <2>1, EmptyIsSeq DEF LogInv
<1>3. ASSUME NEW r, WalWrite(r) PROVE LogInv'
  <2>1. IsSeq(file') /\ Len(file') = Len(file) + 1
    BY <1>3, AppendOne DEF WalWrite, LogInv
  <2>2. QED
    BY <1>1, <1>3, <2>1 DEF WalWrite, Due, LogInv
<1>4. CASE WalWriteFails \/ WalSyncFails \/ WalKilled
  BY <1>1, <1>4 DEF WalWriteFails, WalSyncFails, WalKilled, LogInv
<1>5. CASE WalSyncOwed \/ WalSync
  BY <1>1, <1>5 DEF WalSyncOwed, WalSync, Synced, LogInv
<1>6. CASE WalDrop
  BY <1>1, <1>6 DEF WalDrop, Synced, LogInv
<1>7. CASE WalWriteback
  BY <1>1, <1>7 DEF WalWriteback, LogInv
<1>8. CASE WalMachineCrash
  <2>1. PICK n \in onDisk .. Len(file) : \E bad \in SUBSET (onDisk + 1 .. n) :
          /\ file' = [i \in 1 .. n |-> IF i \in bad THEN Damaged ELSE file[i]]
          /\ onDisk' = n
    BY <1>8 DEF WalMachineCrash
  <2>2. n \in Nat
    BY <1>1
  <2>3. file' = [i \in 1 .. n |-> file'[i]]
    BY <2>1
  <2>4. IsSeq(file') /\ Len(file') = n
    BY <2>2, <2>3, FunctionIsSeq
  <2>5. handle' = "closed" /\ sinceSync' = sinceSync
    BY <1>8 DEF WalMachineCrash
  <2>6. QED
    BY <2>1, <2>2, <2>4, <2>5 DEF LogInv
<1>9. QED
  BY <1>2, <1>3, <1>4, <1>5, <1>6, <1>7, <1>8 DEF LogStep

\* LogInv is an inductive invariant of the daemon.
THEOREM LogInvariant == Spec => []LogInv
<1>1. LogInv /\ [Next]_vars => LogInv'
  <2>1. ASSUME LogInv, UNCHANGED walVars PROVE LogInv'
    BY <2>1 DEF LogInv, walVars
  <2>2. QED
    BY <2>1, LogStepInv, NextIsLogStep DEF vars
<1>2. QED
  BY <1>1, InitLog, PTL DEF Spec

\* At most the last SyncEvery records are at the mercy of a machine crash while
\* the log is open (wal.rs).
THEOREM LossIsBounded == Spec => []LossBounded
<1>1. LogInv => LossBounded
  BY LenIsNat DEF LogInv, LossBounded
<1>2. QED
  BY <1>1, LogInvariant, PTL

\* No crash takes any record but the last SyncEvery (wal.rs).
THEOREM CrashKeepsAllButTheTail == Spec => CrashTakesOnlyTheTail
<1>1. ASSUME LogInv, LogStep PROVE AllButTheLast
  <2>1. Len(file) \in Nat /\ onDisk \in Nat
    BY <1>1, LenIsNat DEF LogInv
  <2>2. CASE WalMachineCrash
    <3>1. PICK n \in onDisk .. Len(file) : \E bad \in SUBSET (onDisk + 1 .. n) :
            file' = [i \in 1 .. n |-> IF i \in bad THEN Damaged ELSE file[i]]
      BY <2>2 DEF WalMachineCrash
    <3>2. n \in Nat
      BY <2>1
    <3>3. file' = [i \in 1 .. n |-> file'[i]]
      BY <3>1
    <3>4. Len(file') = n
      BY <3>2, <3>3, FunctionIsSeq
    <3>5. ASSUME Policy # "None", NEW i \in 1 .. Len(file) - SyncEvery
          PROVE  i <= Len(file') /\ file'[i] = file[i]
      <4>1. i <= onDisk
        BY <1>1, <2>1, <3>5 DEF LogInv
      <4>2. QED
        BY <2>1, <3>1, <3>2, <3>4, <3>5, <4>1
    <3>6. QED
      BY <3>5 DEF AllButTheLast
  <2>3. CASE WalOpen \/ (\E r : WalWrite(r)) \/ WalSyncOwed
    BY <2>3 DEF WalOpen, WalWrite, WalSyncOwed, AllButTheLast
  <2>4. CASE WalWriteFails \/ WalSync \/ WalSyncFails \/ WalDrop \/ WalWriteback \/ WalKilled
    <3>1. file' = file
      BY <2>4 DEF WalWriteFails, WalSync, WalSyncFails, WalDrop, WalWriteback, WalKilled
    <3>2. QED
      BY <2>1, <3>1 DEF AllButTheLast
  <2>5. QED
    BY <1>1, <2>2, <2>3, <2>4 DEF LogStep
<1>2. LogInv /\ [Next]_vars => [AllButTheLast]_walVars
  BY <1>1, NextIsLogStep DEF vars, walVars
<1>3. QED
  BY <1>2, LogInvariant, PTL DEF Spec, CrashTakesOnlyTheTail

--------------------------------------------------------------------------------
(* The order of the ring, the log and the cache.  Between two records the  *)
(* three are equal; inside publish_one the ring is one record ahead of the *)
(* log, and then the log of the cache.  A process that ends in between     *)
(* leaves the ring one ahead, and the next start empties both.             *)

\* Where the three are equal.
Even == {"check", "recv", "stamp", "ring", "join", "sync", "exit"}

OrderInv ==
    /\ IsSeq(file) /\ IsSeq(published) /\ IsSeq(cached)
    /\ ppc \in MainPCs
    /\ ppc \in {"down", "opening", "binding"} => cached = <<>>
    /\ ppc \in {"opening", "binding"} => published = <<>>
    /\ ppc = "binding" => file = <<>>
    /\ ppc \in Even => file = published /\ cached = file
    /\ ppc = "log" => published = Append(file, hand[1]) /\ cached = file
    /\ ppc = "logged" => published = file /\ file = Append(cached, hand[1])
    /\ ppc = "exit" /\ Policy # "None" => onDisk = Len(file)
    /\ OneOrder

LEMMA InitOrder == Init => OrderInv
  BY EmptyIsSeq DEF Init, WalInit, OrderInv, MainPCs, Even, OneOrder, Serving

\* Steps that leave the three sequences, the publishing thread and its record
\* alone.
LEMMA AsideKeepsOrder ==
    ASSUME OrderInv, UNCHANGED <<file, onDisk, published, cached, ppc, hand>>
    PROVE  OrderInv'
  BY DEF OrderInv, OneOrder, Serving

LEMMA ThreadInv ==
    ASSUME OrderInv, NEW c \in Conns, ClientSend(c) \/ ClientClose(c) \/ Accept(c) \/ Serve(c)
    PROVE  OrderInv'
  BY AsideKeepsOrder DEF ClientSend, ClientClose, Accept, Serve, ServeTop, ServeRead, ServeEnd,
     ServeSend, ServeCount, mainVars, walVars

LEMMA WritebackInv == ASSUME OrderInv, LogInv, Writeback PROVE OrderInv'
<1>1. UNCHANGED <<file, published, cached, ppc, hand>> /\ onDisk < Len(file)
  BY DEF Writeback, WalWriteback, mainVars
<1>2. Len(file) \in Nat /\ onDisk \in Nat
  BY LenIsNat DEF LogInv
<1>3. ~(ppc = "exit" /\ Policy # "None")
  BY <1>1, <1>2 DEF OrderInv
<1>4. QED
  BY <1>1, <1>3 DEF OrderInv, OneOrder, Serving

\* The process ends with the ring and the log as they are.
LEMMA EndInv ==
    ASSUME OrderInv, ProcessEnds, UNCHANGED <<file, published>>
    PROVE  OrderInv'
<1>1. ppc' = "down" /\ cached' = <<>>
  BY DEF ProcessEnds
<1>2. QED
  BY <1>1, EmptyIsSeq DEF OrderInv, MainPCs, Even, OneOrder, Serving

LEMMA StartInv ==
    ASSUME OrderInv, StartRing \/ StartLog \/ StartServing
    PROVE  OrderInv'
<1>1. CASE StartRing
  BY <1>1, EmptyIsSeq DEF StartRing, walVars, OrderInv, MainPCs, Even, OneOrder, Serving
<1>2. CASE StartLog
  BY <1>2, EmptyIsSeq DEF StartLog, WalOpen, OrderInv, MainPCs, Even, OneOrder, Serving
<1>3. CASE StartServing
  BY <1>3, EmptyIsSeq DEF StartServing, walVars, OrderInv, MainPCs, Even, OneOrder, Serving
<1>4. QED
  BY <1>1, <1>2, <1>3

LEMMA PublishInv == ASSUME OrderInv, PublishStep PROVE OrderInv'
<1> USE DEF MainPCs, Even
<1>1. CASE LoopCheck \/ Recv \/ RecvNothing \/ Stamp \/ Join
  BY <1>1 DEF LoopCheck, Recv, RecvNothing, Stamp, Join, walVars, OrderInv, OneOrder, Serving
<1>2. CASE PublishRing
  <2>1. IsSeq(published') /\ OneBehind(published, published')
    BY <1>2, AppendOne DEF PublishRing, OrderInv
  <2>2. QED
    BY <1>2, <2>1 DEF PublishRing, walVars, OrderInv, OneOrder, Serving
<1>3. CASE PublishLog
  <2>1. CASE WalWrite(hand[1]) /\ ppc' = "logged"
    <3>1. IsSeq(file') /\ OneBehind(file, file')
      BY <2>1, AppendOne DEF WalWrite, OrderInv
    <3>2. QED
      BY <1>3, <2>1, <3>1 DEF PublishLog, WalWrite, OrderInv, OneOrder, Serving
  <2>2. CASE WalWriteFails /\ ppc' = "failed"
    BY <1>3, <2>2 DEF PublishLog, WalWriteFails, OrderInv, OneOrder, Serving
  <2>3. QED
    BY <1>3, <2>1, <2>2 DEF PublishLog
<1>4. CASE PublishSync
  BY <1>4 DEF PublishSync, WalSyncOwed, WalSyncFails, OrderInv, OneOrder, Serving
<1>5. CASE PublishCache
  BY <1>5, AppendOne DEF PublishCache, walVars, OrderInv, OneOrder, Serving
<1>6. CASE FinalSync
  BY <1>6 DEF FinalSync, WalSync, WalSyncFails, Synced, OrderInv, OneOrder, Serving
<1>7. CASE Exit
  BY <1>7, EndInv DEF Exit, WalDrop
<1>8. QED
  BY <1>1, <1>2, <1>3, <1>4, <1>5, <1>6, <1>7 DEF PublishStep

LEMMA CrashInv == ASSUME OrderInv, LogInv', MachineCrash PROVE OrderInv'
<1>1. ppc' = "down" /\ cached' = <<>> /\ published' = <<>>
  BY DEF MachineCrash, ProcessEnds
<1>2. QED
  BY <1>1, EmptyIsSeq DEF LogInv, OrderInv, MainPCs, Even, OneOrder, Serving

LEMMA NextOrder == ASSUME OrderInv, LogInv, LogInv', Next PROVE OrderInv'
<1>1. CASE StartFails
  BY <1>1, EndInv DEF StartFails, WalDrop
<1>2. CASE Signal
  BY <1>2, AsideKeepsOrder DEF Signal, mainVars, walVars
<1>3. CASE Killed
  BY <1>3, EndInv DEF Killed, WalKilled, walVars
<1>4. QED
  BY <1>1, <1>2, <1>3, ThreadInv, WritebackInv, StartInv, PublishInv, CrashInv DEF Next

\* OrderInv is an invariant of the daemon, given the log's.
THEOREM OrderInvariant == Spec => []OrderInv
<1>1. OrderInv /\ LogInv /\ LogInv' /\ [Next]_vars => OrderInv'
  <2>1. ASSUME OrderInv, UNCHANGED vars PROVE OrderInv'
    BY <2>1, AsideKeepsOrder DEF vars, mainVars, walVars
  <2>2. QED
    BY <2>1, NextOrder
<1>2. QED
  BY <1>1, InitOrder, LogInvariant, PTL DEF Spec

\* The ring, the log and the cache hold the same records in the same order, each
\* at most one record behind the one before it (publish_one of feedd.rs).
THEOREM OrderIsOne == Spec => []OneOrder
  BY OrderInvariant, PTL DEF OrderInv

\* A daemon that left its loop and synced has logged every record that it
\* published, and the machine can no longer lose one (the end of run, feedd.rs).
THEOREM StopIsDurable == Spec => []CleanStopIsDurable
<1>1. OrderInv => CleanStopIsDurable
  BY DEF OrderInv, Even, CleanStopIsDurable
<1>2. QED
  BY <1>1, OrderInvariant, PTL

--------------------------------------------------------------------------------
(* The way in.  What a connection's thread has read and not decoded, and   *)
(* what is in its socket, is one stream of halves that begins with a whole *)
(* record; every good record before it is in the ring, in hand, in the     *)
(* channel or about to be sent to it, once and in order.                   *)

\* The i-th half behind record b.
Half(b, i) == [num |-> b + (i + 1) \div 2, part |-> 2 - (i % 2)]

\* q is the halves of the records behind b, from the first on.
Aligned(q, b) == \A i \in 1 .. Len(q) : q[i] = Half(b, i)

LEMMA RecordsAreSeq ==
    ASSUME NEW c \in Conns, NEW b \in Nat, NEW k \in Nat, b + k <= MaxSent[c]
    PROVE  Records(c, b, k) \in Seq(From(c)) /\ Len(Records(c, b, k)) = k
<1>1. ASSUME NEW i \in 1 .. k PROVE RecordOf(c, b + i) \in From(c)
  <2>1. b + i \in 1 .. MaxSent[c]
    OBVIOUS
  <2>2. RecordOf(c, b + i) \in Record
    BY <2>1 DEF RecordOf
  <2> QED BY <2>2 DEF RecordOf, From
<1>2. Records(c, b, k) \in [1 .. k -> From(c)]
  BY <1>1 DEF Records
<1> QED BY <1>2

LEMMA RecordsOfNone == ASSUME NEW c, NEW b PROVE Records(c, b, 0) = <<>>
  BY DEF Records

LEMMA RecordsSplit ==
    ASSUME NEW c \in Conns, NEW j \in Nat, NEW k \in Nat, j + k <= MaxSent[c]
    PROVE  Records(c, 0, j + k) = Records(c, 0, j) \o Records(c, j, k)
<1> DEFINE x == Records(c, 0, j + k)
           y == Records(c, 0, j)
           z == Records(c, j, k)
<1>1. /\ x \in Seq(From(c)) /\ Len(x) = j + k
      /\ y \in Seq(From(c)) /\ Len(y) = j
      /\ z \in Seq(From(c)) /\ Len(z) = k
  <2>1. /\ 0 + (j + k) <= MaxSent[c] /\ 0 + j <= MaxSent[c]
        /\ j + k \in Nat /\ MaxSent[c] \in Nat
    OBVIOUS
  <2> QED BY <2>1, RecordsAreSeq
<1>2. /\ \A i \in 1 .. j + k : x[i] = RecordOf(c, i)
      /\ \A i \in 1 .. j : y[i] = RecordOf(c, i)
      /\ \A i \in 1 .. k : z[i] = RecordOf(c, j + i)
  BY DEF Records
<1> HIDE DEF x, y, z
<1>3. /\ y \o z \in Seq(From(c)) /\ Len(y \o z) = j + k
      /\ \A i \in 1 .. j + k : (y \o z)[i] = IF i <= j THEN y[i] ELSE z[i - j]
  BY <1>1, ConcatProperties
<1>4. ASSUME NEW i \in 1 .. j + k PROVE x[i] = (y \o z)[i]
  <2>1. CASE i <= j
    BY <1>2, <1>3, <2>1
  <2>2. CASE ~(i <= j)
    <3>1. i - j \in 1 .. k /\ j + (i - j) = i
      BY <2>2
    <3>2. z[i - j] = RecordOf(c, i)
      BY <1>2, <3>1
    <3> QED BY <1>2, <1>3, <2>2, <3>2
  <2> QED BY <2>1, <2>2
<1>5. x = y \o z
  BY <1>1, <1>3, <1>4, SeqEqual
<1> QED BY <1>5 DEF x, y, z

LEMMA FramesOf ==
    ASSUME NEW p \in Seq(Halves)
    PROVE  /\ DOMAIN Frames(p) = 1 .. Len(p) \div 2 /\ Len(Frames(p)) = Len(p) \div 2
           /\ Len(p) \div 2 \in Nat /\ 2 * (Len(p) \div 2) <= Len(p)
           /\ Frames(p) = <<>> <=> Len(p) \div 2 = 0
<1>1. Len(p) \in Nat /\ Len(p) \div 2 \in Nat /\ 2 * (Len(p) \div 2) <= Len(p)
  OBVIOUS
<1> DEFINE N == Len(p) \div 2
           S == {<<p[2 * i - 1], p[2 * i]>> : i \in 1 .. N}
<1>2. Frames(p) \in [1 .. N -> S]
  BY DEF Frames
<1> HIDE DEF S
<1>3. Frames(p) \in Seq(S) /\ Len(Frames(p)) = N /\ DOMAIN Frames(p) = 1 .. N
  <2> HIDE DEF N
  <2> QED BY <1>1, <1>2 DEF N
<1>4. Frames(p) = <<>> <=> N = 0
  <2> HIDE DEF N
  <2> QED BY <1>3, EmptySeq
<1> QED BY <1>1, <1>3, <1>4

LEMMA AlignedFrames ==
    ASSUME NEW c \in Conns, NEW b \in Nat, NEW p \in Seq(Halves), Aligned(p, b),
           NEW i \in 1 .. Len(p) \div 2
    PROVE  /\ Frames(p)[i][1].num = b + i
           /\ Decodes(c, Frames(p)[i]) <=> <<c, b + i>> \notin Bad
<1>1. 2 * i - 1 \in 1 .. Len(p) /\ 2 * i \in 1 .. Len(p)
  OBVIOUS
<1>2. Frames(p)[i] = <<p[2 * i - 1], p[2 * i]>>
  BY DEF Frames
<1>3. p[2 * i - 1] = Half(b, 2 * i - 1) /\ p[2 * i] = Half(b, 2 * i)
  BY <1>1 DEF Aligned
<1>4. /\ ((2 * i - 1) + 1) \div 2 = i /\ (2 * i - 1) % 2 = 1
      /\ (2 * i + 1) \div 2 = i /\ (2 * i) % 2 = 0
  OBVIOUS
<1>5. p[2 * i - 1] = [num |-> b + i, part |-> 1] /\ p[2 * i] = [num |-> b + i, part |-> 2]
  <2>1. ASSUME NEW j \in Nat PROVE Half(b, j) = [num |-> b + (j + 1) \div 2, part |-> 2 - (j % 2)]
    BY DEF Half
  <2>2. 2 * i - 1 \in Nat /\ 2 * i \in Nat
    OBVIOUS
  <2>3. Half(b, 2 * i - 1) = [num |-> b + ((2 * i - 1) + 1) \div 2, part |-> 2 - ((2 * i - 1) % 2)]
    BY <2>1, <2>2
  <2>4. Half(b, 2 * i) = [num |-> b + (2 * i + 1) \div 2, part |-> 2 - ((2 * i) % 2)]
    BY <2>1, <2>2
  <2>5. 2 - 1 = 1 /\ 2 - 0 = 2
    OBVIOUS
  <2>6. Half(b, 2 * i - 1) = [num |-> b + i, part |-> 1]
    BY <1>4, <2>3, <2>5, Zenon
  <2>7. Half(b, 2 * i) = [num |-> b + i, part |-> 2]
    BY <1>4, <2>4, <2>5, Zenon
  <2> QED BY <1>3, <2>6, <2>7
<1>6. /\ Frames(p)[i][1].num = b + i /\ Frames(p)[i][1].part = 1
      /\ Frames(p)[i][2].num = b + i /\ Frames(p)[i][2].part = 2
  BY <1>2, <1>5
<1> QED BY <1>6 DEF Decodes, HeaderOk

\* The good records of aligned halves.
LEMMA GoodOf ==
    ASSUME NEW c \in Conns, NEW b \in Nat, NEW p \in Seq(Halves), Aligned(p, b),
           b + Len(p) \div 2 <= MaxSent[c]
    PROVE  Good(c, p) = Sift(Records(c, b, Len(p) \div 2), Decodable)
<1> DEFINE k == Len(p) \div 2
           f == Frames(p)
           r == Records(c, b, k)
           at == {i \in DOMAIN f : Decodes(c, f[i])}
<1>1. k \in Nat /\ DOMAIN f = 1 .. k
  BY FramesOf
<1>2. r \in Seq(From(c)) /\ Len(r) = k
  BY <1>1, RecordsAreSeq
<1>3. \A i \in 1 .. k : f[i][1].num = b + i /\ (Decodes(c, f[i]) <=> <<c, b + i>> \notin Bad)
  BY AlignedFrames
<1>4. [i \in DOMAIN f |-> RecordOf(c, f[i][1].num)] = r
  <2> HIDE DEF f, k
  <2> QED BY <1>1, <1>3 DEF Records
<1>5. \A i \in 1 .. k : r[i] = RecordOf(c, b + i) /\ r[i] \in Record
  <2>1. \A i \in 1 .. k : r[i] = RecordOf(c, b + i)
    BY DEF Records
  <2>2. \A i \in 1 .. k : r[i] \in From(c)
    <3> HIDE DEF r, k
    <3> QED BY <1>2
  <2> QED BY <2>1, <2>2 DEF From
<1>6. Good(c, p) = Picked(r, at)
  BY <1>4 DEF Good
<1> HIDE DEF f, r, k
<1>7. \A i \in 1 .. Len(r) : i \in at <=> i \in {j \in DOMAIN r : r[j] \in Decodable}
  <2>1. ASSUME NEW i \in 1 .. k PROVE r[i] \in Decodable <=> <<c, b + i>> \notin Bad
    <3>1. r[i] = RecordOf(c, b + i) /\ r[i] \in Record
      BY <1>5
    <3>2. r[i].from = c /\ r[i].num = b + i
      BY <3>1 DEF RecordOf
    <3> QED BY <3>1, <3>2 DEF Decodable
  <2>2. DOMAIN r = 1 .. k
    BY <1>2
  <2>3. ASSUME NEW i \in 1 .. k PROVE i \in at <=> <<c, b + i>> \notin Bad
    BY <1>1, <1>3, <2>3
  <2> QED BY <1>2, <2>1, <2>2, <2>3
<1>8. Picked(r, at) = Picked(r, {j \in DOMAIN r : r[j] \in Decodable})
  <2> HIDE DEF at
  <2> QED BY <1>2, <1>7, PickedSame
<1> QED BY <1>6, <1>8 DEF Sift, r, k

LEMMA StreamRecordsInRange ==
    ASSUME NEW c, NEW p \in Seq(Halves)
    PROVE  StreamRecords(c, p) \in 0 .. Len(p) \div 2
<1> DEFINE f == Frames(p)
           N == Len(p) \div 2
<1>1. N \in Nat /\ Len(f) = N /\ (f = <<>> <=> N = 0)
  BY FramesOf
<1> HIDE DEF f, N
<1>2. CASE f = <<>> \/ HeaderOk(c, f[Len(f)])
  BY <1>1, <1>2 DEF StreamRecords, f, N
<1>3. CASE ~(f = <<>> \/ HeaderOk(c, f[Len(f)]))
  <2> DEFINE First(n) == ~HeaderOk(c, f[n + 1]) /\ \A i \in 1 .. n : HeaderOk(c, f[i])
             S == {n \in 0 .. N - 1 : ~HeaderOk(c, f[n + 1])}
  <2>1. N - 1 \in 0 .. N - 1 /\ (N - 1) + 1 = N
    BY <1>1, <1>3
  <2>2. ~HeaderOk(c, f[N])
    BY <1>1, <1>3
  <2>3. N - 1 \in S
    BY <2>1, <2>2
  <2>4. S \subseteq Nat /\ S # {}
    BY <2>3
  <2>5. PICK n \in S : \A m \in S : n <= m
    <3> HIDE DEF S
    <3> QED BY <2>4, LeastNat
  <2>6. n \in 0 .. N - 1 /\ ~HeaderOk(c, f[n + 1])
    OBVIOUS
  <2>7. ASSUME NEW i \in 1 .. n PROVE HeaderOk(c, f[i])
    <3>1. i - 1 \in 0 .. N - 1 /\ (i - 1) + 1 = i /\ ~(n <= i - 1)
      BY <1>1, <2>6
    <3>2. i - 1 \notin S
      <4> HIDE DEF S
      <4> QED BY <2>5, <3>1
    <3> QED BY <3>1, <3>2
  <2>8. \E m \in 0 .. N - 1 : First(m)
    BY <2>6, <2>7
  <2>9. StreamRecords(c, p) = CHOOSE m \in 0 .. N - 1 : First(m)
    BY <1>1, <1>3 DEF StreamRecords, f
  <2> HIDE DEF First
  <2>10. StreamRecords(c, p) \in 0 .. N - 1
    BY <2>8, <2>9
  <2> QED BY <1>1, <2>10 DEF N
<1> QED BY <1>2, <1>3

\* A read of n halves more: the records it decodes follow on those before, and
\* what is left over and what is left in the socket begin with the next one.
LEMMA ReadOne ==
    ASSUME NEW c \in Conns, NEW b \in Nat, NEW m \in Nat, m <= MaxSent[c], b <= m,
           NEW p \in Seq(Halves), NEW s \in Seq(Halves),
           Len(p \o s) = 2 * (m - b), Aligned(p \o s, b),
           NEW n \in 1 .. Len(s)
    PROVE  LET got == p \o SubSeq(s, 1, n)
           IN  \E k \in Nat :
              /\ b + k <= m
              /\ Decoded(c, got) = Sift(Records(c, b, k), Decodable)
              /\ Rest(c, got) \in Seq(Halves)
              /\ SubSeq(s, n + 1, Len(s)) \in Seq(Halves)
              /\ Len(Rest(c, got) \o SubSeq(s, n + 1, Len(s))) = 2 * (m - (b + k))
              /\ Aligned(Rest(c, got) \o SubSeq(s, n + 1, Len(s)), b + k)
<1> DEFINE got == p \o SubSeq(s, 1, n)
           q == p \o s
           k == StreamRecords(c, got)
           rest == Rest(c, got)
           left == SubSeq(s, n + 1, Len(s))
           whole == SubSeq(got, 1, 2 * k)
<1>1. /\ Len(p) \in Nat /\ Len(s) \in Nat /\ Len(p) + Len(s) = 2 * (m - b)
      /\ \A i \in 1 .. Len(p) : q[i] = p[i]
      /\ \A i \in 1 .. Len(s) : q[Len(p) + i] = s[i]
  BY ConcatProperties
<1>2. /\ SubSeq(s, 1, n) \in Seq(Halves) /\ Len(SubSeq(s, 1, n)) = n
      /\ \A i \in 1 .. n : SubSeq(s, 1, n)[i] = s[i]
  BY <1>1
<1>3. /\ got \in Seq(Halves) /\ Len(got) = Len(p) + n
      /\ \A i \in 1 .. Len(p) + n : got[i] = q[i]
  <2>1. /\ got \in Seq(Halves) /\ Len(got) = Len(p) + n
        /\ \A i \in 1 .. Len(p) + n :
              got[i] = IF i <= Len(p) THEN p[i] ELSE SubSeq(s, 1, n)[i - Len(p)]
    BY <1>2, ConcatProperties
  <2>2. ASSUME NEW i \in 1 .. Len(p) + n PROVE got[i] = q[i]
    <3>1. CASE i <= Len(p)
      <4>1. i \in 1 .. Len(p)
        BY <1>1, <3>1
      <4> QED BY <1>1, <2>1, <3>1, <4>1
    <3>2. CASE ~(i <= Len(p))
      <4>1. i - Len(p) \in 1 .. n /\ i - Len(p) \in 1 .. Len(s) /\ Len(p) + (i - Len(p)) = i
        BY <1>1, <3>2
      <4>2. q[i] = s[i - Len(p)]
        BY <1>1, <4>1
      <4> QED BY <1>2, <2>1, <3>2, <4>1, <4>2
    <3> QED BY <3>1, <3>2
  <2> QED BY <2>1, <2>2
<1> HIDE DEF got
<1>4. k \in Nat /\ 2 * k <= Len(p) + n /\ b + k <= m
  <2>1. k \in 0 .. Len(got) \div 2
    BY <1>3, StreamRecordsInRange
  <2>2. Len(got) \div 2 \in Nat /\ 2 * (Len(got) \div 2) <= Len(got)
    BY <1>3, FramesOf
  <2> HIDE DEF k
  <2>3. k \in Nat /\ 2 * k <= Len(p) + n
    BY <1>3, <2>1, <2>2
  <2> QED BY <1>1, <2>3
<1>5. \A i \in 1 .. 2 * (m - b) : q[i] = Half(b, i)
  BY DEF Aligned
<1>6. /\ whole \in Seq(Halves) /\ Len(whole) = 2 * k
      /\ \A i \in 1 .. 2 * k : whole[i] = got[i]
  <2> HIDE DEF k
  <2> DEFINE e == 2 * k
  <2>1. 1 \in 1 .. Len(got) + 1 /\ e \in 1 - 1 .. Len(got)
    BY <1>1, <1>3, <1>4
  <2>2. whole = SubSeq(got, 1, e)
    OBVIOUS
  <2> HIDE DEF e, whole
  <2>3. /\ SubSeq(got, 1, e) \in Seq(Halves) /\ Len(SubSeq(got, 1, e)) = e - 1 + 1
        /\ \A i \in 1 .. e - 1 + 1 : SubSeq(got, 1, e)[i] = got[1 - 1 + i]
    BY <1>3, <2>1, Stretch
  <2>4. e - 1 + 1 = e /\ \A i \in 1 .. e : 1 - 1 + i = i
    BY <1>4, <2>1
  <2>5. whole \in Seq(Halves) /\ Len(whole) = e /\ \A i \in 1 .. e : whole[i] = got[i]
    BY <2>2, <2>3, <2>4
  <2> QED BY <2>5 DEF e
<1>7. Aligned(whole, b)
  <2> HIDE DEF k, whole, q
  <2>1. ASSUME NEW i \in 1 .. 2 * k PROVE whole[i] = Half(b, i)
    <3>1. i \in 1 .. Len(p) + n /\ i \in 1 .. 2 * (m - b)
      BY <1>1, <1>4
    <3> QED BY <1>3, <1>5, <1>6, <3>1
  <2> QED BY <1>6, <2>1 DEF Aligned
<1>8. Decoded(c, got) = Sift(Records(c, b, k), Decodable)
  <2> HIDE DEF k, whole
  <2>1. Len(whole) \div 2 = k
    BY <1>4, <1>6
  <2>2. Good(c, whole) = Sift(Records(c, b, k), Decodable)
    <3>1. b + Len(whole) \div 2 <= MaxSent[c]
      <4>1. MaxSent[c] \in Nat
        OBVIOUS
      <4> QED BY <1>4, <2>1, <4>1
    <3> QED BY <1>6, <1>7, <2>1, <3>1, GoodOf
  <2> QED BY <2>2 DEF Decoded, whole, k
<1>9. /\ rest \in Seq(Halves) /\ Len(rest) = Len(p) + n - 2 * k
      /\ \A i \in 1 .. Len(p) + n - 2 * k : rest[i] = got[2 * k + i]
  <2>1. rest = SubSeq(got, 2 * k + 1, Len(got))
    BY DEF Rest
  <2> HIDE DEF k, rest
  <2> DEFINE a == 2 * k + 1
             l == Len(got)
  <2>2. a \in 1 .. l + 1 /\ l \in a - 1 .. l /\ l - a + 1 = Len(p) + n - 2 * k /\ a - 1 = 2 * k
    BY <1>1, <1>3, <1>4
  <2>3. rest = SubSeq(got, a, l)
    BY <2>1
  <2> HIDE DEF a
  <2>4. /\ SubSeq(got, a, l) \in Seq(Halves) /\ Len(SubSeq(got, a, l)) = l - a + 1
        /\ \A i \in 1 .. l - a + 1 : SubSeq(got, a, l)[i] = got[a - 1 + i]
    <3>1. got \in Seq(Halves)
      BY <1>3
    <3> HIDE <1>1, <1>3
    <3>2. a \in 1 .. Len(got) + 1
      BY <2>2
    <3> QED BY <3>1, <3>2, StretchToEnd
  <2> HIDE DEF l
  <2> QED BY <2>2, <2>3, <2>4
<1>10. /\ left \in Seq(Halves) /\ Len(left) = Len(s) - n
       /\ \A i \in 1 .. Len(s) - n : left[i] = s[n + i]
  <2>1. n + 1 \in 1 .. Len(s) + 1 /\ Len(s) \in (n + 1) - 1 .. Len(s)
    BY <1>1
  <2> HIDE DEF left
  <2>2. /\ left \in Seq(Halves) /\ Len(left) = Len(s) - (n + 1) + 1
        /\ \A i \in 1 .. Len(s) - (n + 1) + 1 : left[i] = s[(n + 1) - 1 + i]
    BY <2>1, Stretch DEF left
  <2>3. Len(s) - (n + 1) + 1 = Len(s) - n /\ (n + 1) - 1 = n
    BY <1>1
  <2> QED BY <2>2, <2>3
<1>11. /\ rest \o left \in Seq(Halves) /\ Len(rest \o left) = 2 * (m - b) - 2 * k
       /\ \A i \in 1 .. 2 * (m - b) - 2 * k :
            (rest \o left)[i] = IF i <= Len(rest) THEN rest[i] ELSE left[i - Len(rest)]
  <2> HIDE DEF k, rest, left, q
  <2> DEFINE lr == Len(rest)
             ll == Len(left)
             lp == Len(p)
             ls == Len(s)
  <2>1. lr = lp + n - 2 * k /\ ll = ls - n /\ lp + ls = 2 * (m - b) /\ lp \in Nat /\ ls \in Nat
    BY <1>1, <1>9, <1>10
  <2>2. /\ rest \o left \in Seq(Halves) /\ Len(rest \o left) = lr + ll
        /\ \A i \in 1 .. lr + ll : (rest \o left)[i] = IF i <= lr THEN rest[i] ELSE left[i - lr]
    <3>1. rest \in Seq(Halves) /\ left \in Seq(Halves)
      BY <1>9, <1>10
    <3> HIDE <1>9, <1>10, <1>1
    <3> QED BY <3>1, ConcatProperties, SMTT(60)
  <2> HIDE DEF lr, ll, lp, ls
  <2>3. lr + ll = 2 * (m - b) - 2 * k
    BY <1>4, <2>1
  <2> QED BY <2>2, <2>3 DEF lr
<1>12. ASSUME NEW i \in 1 .. 2 * (m - b) - 2 * k PROVE (rest \o left)[i] = Half(b + k, i)
  <2> HIDE DEF k, rest, left, q
  <2>1. 2 * k + i \in 1 .. 2 * (m - b)
    BY <1>4
  <2>2. (rest \o left)[i] = q[2 * k + i]
    <3>1. CASE i <= Len(rest)
      <4>1. i \in 1 .. Len(p) + n - 2 * k
        BY <1>1, <1>4, <1>9, <3>1
      <4>2. 2 * k + i \in 1 .. Len(p) + n
        BY <1>1, <1>4, <4>1
      <4> QED BY <1>3, <1>9, <1>11, <3>1, <4>1, <4>2
    <3>2. CASE ~(i <= Len(rest))
      <4> DEFINE j == i - Len(rest)
      <4>1. j \in 1 .. Len(s) - n /\ n + j \in 1 .. Len(s) /\ Len(p) + (n + j) = 2 * k + i
        BY <1>1, <1>4, <1>9, <3>2
      <4>2. (rest \o left)[i] = left[j]
        BY <1>11, <3>2
      <4> HIDE DEF j
      <4>3. q[Len(p) + (n + j)] = s[n + j]
        BY <1>1, <4>1
      <4> QED BY <1>10, <4>1, <4>2, <4>3
    <3> QED BY <3>1, <3>2
  <2>3. q[2 * k + i] = Half(b, 2 * k + i)
    BY <1>5, <2>1
  <2>4. (2 * k + i + 1) \div 2 = k + (i + 1) \div 2 /\ (2 * k + i) % 2 = i % 2
    BY <1>4
  <2>5. Half(b, 2 * k + i) = [num |-> b + (2 * k + i + 1) \div 2, part |-> 2 - ((2 * k + i) % 2)]
    BY DEF Half
  <2>6. b + (2 * k + i + 1) \div 2 = b + k + (i + 1) \div 2
    BY <1>4, <2>4
  <2> QED BY <2>2, <2>3, <2>4, <2>5, <2>6 DEF Half
<1>13. Len(rest \o left) = 2 * (m - (b + k)) /\ Aligned(rest \o left, b + k)
  <2> HIDE DEF k, rest, left
  <2> QED BY <1>4, <1>11, <1>12 DEF Aligned
<1> HIDE DEF q, whole
<1> QED BY <1>4, <1>8, <1>9, <1>10, <1>13 DEF got

--------------------------------------------------------------------------------
\* What has been handed over by the threads, in order.
Line == published \o InHand \o chan

\* Connection c's thread has consumed b records whole.
ThreadAt(c, b) ==
    /\ b <= sent[c] /\ sent[c] <= MaxSent[c]
    /\ Len(pending[c] \o socket[c]) = 2 * (sent[c] - b)
    /\ Aligned(pending[c] \o socket[c], b)
    /\ cpc[c] # "lost" => Sift(Line, From(c)) \o out[c] = Sift(Records(c, 0, b), Decodable)

ThreadOk(c) ==
    /\ out[c] \in Seq(From(c))
    /\ cpc[c] = "none" <=> link[c] = "none"
    /\ cpc[c] = "none" => sent[c] = 0
    /\ link[c] = "open" => cpc[c] # "lost"
    /\ cpc[c] = "send" => out[c] # <<>>
    /\ cpc[c] \notin {"send", "count"} => out[c] = <<>>
    /\ \E b \in 0 .. sent[c] : ThreadAt(c, b)

IntakeInv ==
    /\ TypeOK
    /\ ~Serving => chan = <<>> /\ \A c \in Conns : cpc[c] \in {"none", "lost"}
    /\ ppc \in {"stamp", "ring", "log", "logged"} => hand # <<>>
    /\ \A c \in Conns : ThreadOk(c)

LEMMA LineIsRecords == ASSUME TypeOK PROVE Line \in Seq(Record) /\ InHand \in Seq(Record)
<1>1. hand \in Seq(Record)
  <2>1. CASE hand = <<>>
    BY <2>1
  <2>2. CASE \E m \in Record : hand = <<m>>
    <3>1. PICK m \in Record : hand = <<m>>
      BY <2>2
    <3> QED BY <3>1
  <2> QED BY <2>1, <2>2 DEF TypeOK
<1>2. InHand \in Seq(Record)
  BY <1>1 DEF InHand
<1>3. published \in Seq(Record) /\ chan \in Seq(Record)
  BY DEF TypeOK
<1> QED BY <1>2, <1>3, ConcatProperties DEF Line

\* A thread that is left alone, though others hand records over.
LEMMA ThreadSame ==
    ASSUME NEW c \in Conns, ThreadOk(c),
           sent'[c] = sent[c], link'[c] = link[c], socket'[c] = socket[c], cpc'[c] = cpc[c],
           pending'[c] = pending[c], out'[c] = out[c],
           cpc[c] # "lost" => Sift(Line', From(c)) = Sift(Line, From(c))
    PROVE  ThreadOk(c)'
<1>1. PICK b \in 0 .. sent[c] : ThreadAt(c, b)
  BY DEF ThreadOk
<1>2. ThreadAt(c, b)'
  BY <1>1 DEF ThreadAt
<1>3. b \in 0 .. sent'[c]
  BY <1>1
<1> QED BY <1>2, <1>3 DEF ThreadOk

\* A step of the main thread that hands nothing over.
LEMMA ThreadsSame ==
    ASSUME \A c \in Conns : ThreadOk(c), UNCHANGED <<clientVars, threadVars>>, Line' = Line
    PROVE  \A c \in Conns : ThreadOk(c)'
  BY ThreadSame DEF clientVars, threadVars

\* The two halves of record m + 1, behind all those before it.
LEMMA SendHalves ==
    ASSUME NEW m \in Nat, NEW b \in 0 .. m, NEW p \in Seq(Halves), NEW s \in Seq(Halves),
           Len(p \o s) = 2 * (m - b), Aligned(p \o s, b)
    PROVE  LET t == s \o <<[num |-> m + 1, part |-> 1], [num |-> m + 1, part |-> 2]>>
           IN  /\ t \in Seq(Halves)
               /\ Len(p \o t) = 2 * (m + 1 - b)
               /\ Aligned(p \o t, b)
<1> DEFINE h1 == [num |-> m + 1, part |-> 1]
           h2 == [num |-> m + 1, part |-> 2]
           t == s \o <<h1, h2>>
           q == p \o s
           n == 2 * (m - b)
<1>1. h1 \in Halves /\ h2 \in Halves
  BY DEF Halves
<1>2. h1 = Half(b, n + 1) /\ h2 = Half(b, n + 2)
  <2>1. /\ (n + 1 + 1) \div 2 = m - b + 1 /\ (n + 1) % 2 = 1
        /\ (n + 2 + 1) \div 2 = m - b + 1 /\ (n + 2) % 2 = 0
    OBVIOUS
  <2>2. /\ Half(b, n + 1) = [num |-> b + (n + 1 + 1) \div 2, part |-> 2 - ((n + 1) % 2)]
        /\ Half(b, n + 2) = [num |-> b + (n + 2 + 1) \div 2, part |-> 2 - ((n + 2) % 2)]
    BY DEF Half
  <2>3. b + (m - b + 1) = m + 1 /\ 2 - 1 = 1 /\ 2 - 0 = 2
    OBVIOUS
  <2> HIDE DEF n
  <2> QED BY <2>1, <2>2, <2>3
<1> HIDE DEF h1, h2
<1>3. <<h1, h2>> \in Seq(Halves) /\ Len(<<h1, h2>>) = 2 /\ <<h1, h2>>[1] = h1 /\ <<h1, h2>>[2] = h2
  BY <1>1
<1>4. t \in Seq(Halves)
  BY <1>3, ConcatProperties
<1>5. p \o t = q \o <<h1, h2>>
  BY <1>3, ConcatAssociative
<1>6. q \in Seq(Halves) /\ Len(q) = n /\ n \in Nat /\ \A i \in 1 .. n : q[i] = Half(b, i)
  BY ConcatProperties DEF Aligned
<1> HIDE DEF q, t
<1> DEFINE r == q \o <<h1, h2>>
<1>7. Len(r) = n + 2 /\ \A i \in 1 .. n + 2 : r[i] = IF i <= n THEN q[i] ELSE <<h1, h2>>[i - n]
  <2> HIDE DEF n
  <2> QED BY <1>3, <1>6, ConcatProperties
<1>8. ASSUME NEW i \in 1 .. n + 2 PROVE r[i] = Half(b, i)
  <2> HIDE DEF r, n
  <2>1. CASE i <= n
    <3>1. i \in 1 .. n
      BY <1>6, <2>1
    <3>2. r[i] = q[i]
      BY <1>7, <2>1
    <3> QED BY <1>6, <3>1, <3>2
  <2>2. CASE i = n + 1
    <3>1. i - n = 1 /\ ~(i <= n)
      BY <1>6, <2>2
    <3> QED BY <1>2, <1>3, <1>7, <2>2, <3>1
  <2>3. CASE i = n + 2
    <3>1. i - n = 2 /\ ~(i <= n)
      BY <1>6, <2>3
    <3> QED BY <1>2, <1>3, <1>7, <2>3, <3>1
  <2> QED BY <1>6, <2>1, <2>2, <2>3
<1>9. n + 2 = 2 * (m + 1 - b)
  OBVIOUS
<1>10. Len(p \o t) = 2 * (m + 1 - b) /\ Aligned(p \o t, b)
  <2> HIDE DEF r
  <2>1. Len(r) = 2 * (m + 1 - b) /\ Aligned(r, b)
    <3> HIDE DEF n
    <3> QED BY <1>7, <1>8, <1>9 DEF Aligned
  <2> QED BY <1>5, <2>1 DEF r
<1> QED BY <1>4, <1>10 DEF t, h1, h2

LEMMA SendInv == ASSUME IntakeInv, NEW c \in Conns, ClientSend(c) PROVE IntakeInv'
<1> USE DEF clientVars, threadVars, mainVars, walVars
<1>1. /\ link[c] = "open" /\ sent[c] < MaxSent[c] /\ sent[c] \in Nat
      /\ socket[c] \in Seq(Halves) /\ pending[c] \in Seq(Halves)
  BY DEF IntakeInv, TypeOK, ClientSend
<1> DEFINE t == socket[c] \o <<[num |-> sent[c] + 1, part |-> 1], [num |-> sent[c] + 1, part |-> 2]>>
<1>2. socket' = [socket EXCEPT ![c] = t] /\ sent' = [sent EXCEPT ![c] = sent[c] + 1]
  BY DEF ClientSend
<1>3. /\ UNCHANGED <<link, cpc, pending, out, running, chan, accepted, ppc, hand, published, id,
                     cached, starts, file, torn, onDisk, handle, sinceSync>>
  BY DEF ClientSend
<1>4. PICK b \in 0 .. sent[c] : ThreadAt(c, b)
  BY DEF IntakeInv, ThreadOk
<1>5. t \in Seq(Halves) /\ Len(pending[c] \o t) = 2 * (sent[c] + 1 - b) /\ Aligned(pending[c] \o t, b)
  <2> DEFINE m == sent[c]
             p == pending[c]
             s == socket[c]
  <2>1. m \in Nat /\ b \in 0 .. m /\ p \in Seq(Halves) /\ s \in Seq(Halves)
    BY <1>1
  <2>2. Len(p \o s) = 2 * (m - b) /\ Aligned(p \o s, b)
    BY <1>4 DEF ThreadAt
  <2> HIDE DEF m, p, s
  <2> QED BY <2>1, <2>2, SendHalves DEF m, p, s
<1> HIDE DEF t
<1>6. sent'[c] = sent[c] + 1 /\ socket'[c] = t
  BY <1>2 DEF IntakeInv, TypeOK
<1>7. \A d \in Conns : d # c => sent'[d] = sent[d] /\ socket'[d] = socket[d]
  BY <1>2 DEF IntakeInv, TypeOK
<1>8. Line' = Line
  BY <1>3 DEF Line, InHand
<1>9. TypeOK'
  <2>1. sent' \in [Conns -> Nat] /\ socket' \in [Conns -> Seq(Halves)]
    BY SMTT(60), <1>1, <1>2, <1>5 DEF IntakeInv, TypeOK
  <2> QED BY <1>3, <2>1 DEF IntakeInv, TypeOK, WalTypeOK
<1>10. ThreadOk(c)'
  <2>1. b \in 0 .. sent'[c]
    BY <1>1, <1>6
  <2>2. ThreadAt(c, b)'
    <3>1. sent'[c] <= MaxSent[c] /\ b <= sent'[c]
      BY <1>1, <1>6
    <3>2. cpc'[c] # "lost" => Sift(Line', From(c)) \o out'[c] = Sift(Records(c, 0, b), Decodable)
      BY <1>3, <1>4, <1>8 DEF ThreadAt
    <3>3. /\ Len(pending'[c] \o socket'[c]) = 2 * (sent'[c] - b)
          /\ Aligned(pending'[c] \o socket'[c], b)
      <4>1. pending'[c] \o socket'[c] = pending[c] \o t
        BY <1>3, <1>6
      <4>2. Aligned(pending'[c] \o socket'[c], b)
        BY <1>5, <4>1, Zenon
      <4>3. 2 * (sent[c] + 1 - b) = 2 * (sent'[c] - b)
        BY <1>1, <1>6
      <4> QED BY <1>5, <4>1, <4>2, <4>3, Zenon
    <3> QED BY <3>1, <3>2, <3>3 DEF ThreadAt
  <2>3. cpc[c] # "none" /\ cpc[c] # "lost"
    BY <1>1 DEF IntakeInv, ThreadOk
  <2> QED BY <1>3, <2>1, <2>2, <2>3 DEF IntakeInv, ThreadOk
<1>11. ASSUME NEW d \in Conns PROVE ThreadOk(d)'
  <2>1. CASE d = c
    BY <1>10, <2>1
  <2>2. CASE d # c
    <3>1. ThreadOk(d)
      BY DEF IntakeInv
    <3> QED BY <1>3, <1>7, <1>8, <2>2, <3>1, ThreadSame
  <2> QED BY <2>1, <2>2
<1> QED BY <1>3, <1>9, <1>11 DEF IntakeInv, Serving

\* One thread goes to p, its client's end being l.
LEMMA TurnOf ==
    ASSUME IntakeInv, Serving, NEW c \in Conns, cpc[c] # "lost",
           NEW l \in {"open", "closed"}, NEW p \in {"top", "read", "send", "count", "gone"},
           link' = [link EXCEPT ![c] = l], cpc' = [cpc EXCEPT ![c] = p],
           p = "send" => out[c] # <<>>, p \notin {"send", "count"} => out[c] = <<>>,
           accepted' \in Nat,
           UNCHANGED <<sent, socket, pending, out, running, chan, ppc, hand, published, id, cached,
                       starts, file, torn, onDisk, handle, sinceSync>>
    PROVE  IntakeInv'
<1>1. TypeOK'
  <2>1. link' \in [Conns -> {"none", "open", "closed"}] /\ cpc' \in [Conns -> ThreadPCs]
    BY DEF IntakeInv, TypeOK, ThreadPCs
  <2> QED BY <2>1 DEF IntakeInv, TypeOK, WalTypeOK
<1>2. link'[c] = l /\ cpc'[c] = p /\ \A d \in Conns : d # c => link'[d] = link[d] /\ cpc'[d] = cpc[d]
  BY DEF IntakeInv, TypeOK
<1>3. Line' = Line
  BY DEF Line, InHand
<1>4. ThreadOk(c)'
  <2>1. PICK b \in 0 .. sent[c] : ThreadAt(c, b)
    BY DEF IntakeInv, ThreadOk
  <2>2. ThreadAt(c, b)'
    BY <1>3, <2>1 DEF ThreadAt
  <2>3. b \in 0 .. sent'[c]
    OBVIOUS
  <2>4. out'[c] \in Seq(From(c)) /\ out'[c] = out[c]
    BY DEF IntakeInv, ThreadOk
  <2> QED BY <1>2, <2>2, <2>3, <2>4 DEF ThreadOk
<1>5. ASSUME NEW d \in Conns PROVE ThreadOk(d)'
  <2>1. CASE d = c
    BY <1>4, <2>1
  <2>2. CASE d # c
    <3>1. ThreadOk(d)
      BY DEF IntakeInv
    <3> QED BY <1>2, <1>3, <2>2, <3>1, ThreadSame
  <2> QED BY <2>1, <2>2
<1> QED BY <1>1, <1>5 DEF IntakeInv, Serving

LEMMA TurnInv ==
    ASSUME IntakeInv, NEW c \in Conns,
           ClientClose(c) \/ Accept(c) \/ ServeTop(c) \/ ServeEnd(c) \/ ServeCount(c)
    PROVE  IntakeInv'
<1> USE DEF clientVars, threadVars, mainVars, walVars
<1>1. /\ link = [link EXCEPT ![c] = link[c]] /\ cpc = [cpc EXCEPT ![c] = cpc[c]]
      /\ link[c] \in {"none", "open", "closed"} /\ cpc[c] \in ThreadPCs
      /\ accepted \in Nat /\ accepted + 1 \in Nat
  BY DEF IntakeInv, TypeOK
<1>2. ThreadOk(c)
  BY DEF IntakeInv
<1>3. cpc[c] \notin {"none", "lost"} => Serving
  BY DEF IntakeInv
<1>4. CASE ClientClose(c)
  <2>1. cpc[c] \notin {"none", "lost"} /\ link' = [link EXCEPT ![c] = "closed"] /\ cpc' = cpc
    BY <1>2, <1>4 DEF ClientClose, ThreadOk
  <2>2. /\ cpc[c] \in {"top", "read", "send", "count", "gone"}
        /\ cpc[c] = "send" => out[c] # <<>>
        /\ cpc[c] \notin {"send", "count"} => out[c] = <<>>
    BY <1>1, <1>2, <2>1 DEF ThreadPCs, ThreadOk
  <2>3. cpc' = [cpc EXCEPT ![c] = cpc[c]]
    BY <1>1, <2>1
  <2> QED BY <1>1, <1>3, <1>4, <2>1, <2>2, <2>3, TurnOf DEF ClientClose
<1>5. CASE Accept(c)
  <2>1. cpc[c] = "none" /\ out[c] = <<>> /\ Serving
    BY <1>2, <1>5 DEF Accept, ThreadOk
  <2> QED BY <1>1, <1>5, <2>1, TurnOf DEF Accept
<1>6. CASE ServeTop(c) \/ ServeEnd(c)
  <2>1. cpc[c] \in {"top", "read"} /\ out[c] = <<>> /\ Serving
    BY <1>2, <1>3, <1>6 DEF ServeTop, ServeEnd, ThreadOk
  <2>2. link' = [link EXCEPT ![c] = link[c]] /\ link[c] \in {"open", "closed"}
    BY <1>1, <1>2, <1>6, <2>1 DEF ServeTop, ServeEnd, ThreadOk
  <2> DEFINE p == IF cpc[c] = "top" /\ running THEN "read" ELSE "gone"
  <2>3. cpc' = [cpc EXCEPT ![c] = p] /\ p \in {"top", "read", "send", "count", "gone"}
        /\ p \notin {"send", "count"}
    BY <1>6 DEF ServeTop, ServeEnd
  <2> HIDE DEF p
  <2> QED BY <1>1, <1>6, <2>1, <2>2, <2>3, TurnOf DEF ServeTop, ServeEnd
<1>7. CASE ServeCount(c)
  <2>1. cpc[c] = "count" /\ Serving
    BY <1>3, <1>7 DEF ServeCount
  <2>2. link' = [link EXCEPT ![c] = link[c]] /\ link[c] \in {"open", "closed"}
    BY <1>1, <1>2, <1>7, <2>1 DEF ServeCount, ThreadOk
  <2> DEFINE p == IF out[c] = <<>> THEN "top" ELSE "send"
  <2>3. /\ cpc' = [cpc EXCEPT ![c] = p] /\ p \in {"top", "read", "send", "count", "gone"}
        /\ p = "send" => out[c] # <<>>
        /\ p \notin {"send", "count"} => out[c] = <<>>
    BY <1>7 DEF ServeCount
  <2> HIDE DEF p
  <2> QED BY <1>1, <1>7, <2>1, <2>2, <2>3, TurnOf DEF ServeCount
<1> QED BY <1>4, <1>5, <1>6, <1>7

LEMMA ReadInv == ASSUME IntakeInv, NEW c \in Conns, ServeRead(c) PROVE IntakeInv'
<1> USE DEF clientVars, threadVars, mainVars, walVars
<1>1. ThreadOk(c) /\ cpc[c] = "read" /\ out[c] = <<>> /\ Serving
  BY DEF IntakeInv, ServeRead, ThreadOk
<1>2. socket[c] \in Seq(Halves) /\ pending[c] \in Seq(Halves) /\ sent[c] \in Nat
  BY DEF IntakeInv, TypeOK
<1>3. PICK n \in 1 .. Len(socket[c]) :
        LET got == pending[c] \o SubSeq(socket[c], 1, n) IN
        /\ socket' = [socket EXCEPT ![c] = SubSeq(@, n + 1, Len(@))]
        /\ pending' = [pending EXCEPT ![c] = Rest(c, got)]
        /\ out' = [out EXCEPT ![c] = Decoded(c, got)]
        /\ cpc' = [cpc EXCEPT ![c] = IF Decoded(c, got) = <<>> THEN "top" ELSE "send"]
  BY DEF ServeRead
<1>4. UNCHANGED <<sent, link, running, chan, accepted, ppc, hand, published, id, cached, starts,
                  file, torn, onDisk, handle, sinceSync>>
  BY DEF ServeRead
<1>5. PICK b \in 0 .. sent[c] : ThreadAt(c, b)
  BY <1>1 DEF ThreadOk
<1>6. sent[c] <= MaxSent[c] /\ MaxSent[c] \in Nat
  BY <1>5 DEF ThreadAt
<1> DEFINE got  == pending[c] \o SubSeq(socket[c], 1, n)
           rest == Rest(c, got)
           left == SubSeq(socket[c], n + 1, Len(socket[c]))
           good == Decoded(c, got)
<1>7. PICK k \in Nat :
        /\ b + k <= sent[c]
        /\ good = Sift(Records(c, b, k), Decodable)
        /\ rest \in Seq(Halves) /\ left \in Seq(Halves)
        /\ Len(rest \o left) = 2 * (sent[c] - (b + k))
        /\ Aligned(rest \o left, b + k)
  <2> DEFINE m == sent[c]
             p == pending[c]
             s == socket[c]
  <2>1. /\ m \in Nat /\ b \in Nat /\ m <= MaxSent[c] /\ b <= m /\ p \in Seq(Halves) /\ s \in Seq(Halves)
        /\ Len(p \o s) = 2 * (m - b) /\ Aligned(p \o s, b) /\ n \in 1 .. Len(s)
    BY <1>2, <1>5, <1>6 DEF ThreadAt
  <2> HIDE DEF m, p, s
  <2> QED BY <2>1, ReadOne DEF m, p, s
<1>8. socket' = [socket EXCEPT ![c] = left] /\ pending' = [pending EXCEPT ![c] = rest]
      /\ out' = [out EXCEPT ![c] = good]
      /\ cpc' = [cpc EXCEPT ![c] = IF good = <<>> THEN "top" ELSE "send"]
  BY <1>3
<1> HIDE DEF got, rest, left, good
<1>9. /\ socket'[c] = left /\ pending'[c] = rest /\ out'[c] = good
      /\ cpc'[c] = IF good = <<>> THEN "top" ELSE "send"
      /\ \A d \in Conns : d # c => /\ socket'[d] = socket[d] /\ pending'[d] = pending[d]
                                   /\ out'[d] = out[d] /\ cpc'[d] = cpc[d]
  BY <1>8 DEF IntakeInv, TypeOK
<1>10. good \in Seq(From(c))
  <2>1. b \in Nat /\ b + k <= MaxSent[c]
    BY <1>2, <1>6, <1>7
  <2>2. Records(c, b, k) \in Seq(From(c))
    BY <2>1, RecordsAreSeq
  <2> QED BY <1>7, <2>2, SiftIsSeq
<1>11. good \in Seq(Record)
  <2>1. From(c) \subseteq Record
    BY DEF From
  <2> QED BY <1>10, <2>1, SeqMonotonic
<1>12. TypeOK'
  <2>1. /\ socket' \in [Conns -> Seq(Halves)] /\ pending' \in [Conns -> Seq(Halves)]
        /\ out' \in [Conns -> Seq(Record)] /\ cpc' \in [Conns -> ThreadPCs]
    BY <1>7, <1>8, <1>11 DEF IntakeInv, TypeOK, ThreadPCs
  <2> QED BY <1>4, <2>1 DEF IntakeInv, TypeOK, WalTypeOK
<1>13. Line' = Line
  BY <1>4 DEF Line, InHand
<1>14. Sift(Line, From(c)) \o good = Sift(Records(c, 0, b + k), Decodable)
  <2>1. /\ Sift(Line, From(c)) \in Seq(Record)
    BY LineIsRecords, SiftIsSeq DEF IntakeInv
  <2>2. Sift(Line, From(c)) \o <<>> = Sift(Records(c, 0, b), Decodable)
    BY <1>1, <1>5 DEF ThreadAt
  <2>3. Sift(Line, From(c)) = Sift(Records(c, 0, b), Decodable)
    BY <2>1, <2>2, ConcatEmptySeq
  <2>4. /\ Records(c, 0, b + k) = Records(c, 0, b) \o Records(c, b, k)
        /\ Records(c, 0, b) \in Seq(From(c)) /\ Records(c, b, k) \in Seq(From(c))
    <3>1. 0 + b + k <= MaxSent[c] /\ b \in Nat /\ 0 + b = b /\ 0 + b <= MaxSent[c] /\ b + k <= MaxSent[c]
      BY SMTT(60), <1>2, <1>6, <1>7
    <3>2. Records(c, 0, b + k) = Records(c, 0, b) \o Records(c, b, k)
      BY <3>1, RecordsSplit
    <3>3. Records(c, 0, b) \in Seq(From(c))
      BY <3>1, RecordsAreSeq
    <3>4. Records(c, b, k) \in Seq(From(c))
      BY <3>1, RecordsAreSeq
    <3> QED BY <3>1, <3>2, <3>3, <3>4
  <2> DEFINE x == Records(c, 0, b)
             y == Records(c, b, k)
  <2>5. x \in Seq(From(c)) /\ y \in Seq(From(c)) /\ Records(c, 0, b + k) = x \o y
    BY <2>4
  <2>6. Sift(Line, From(c)) = Sift(x, Decodable) /\ good = Sift(y, Decodable)
    BY <1>7, <2>3
  <2> HIDE DEF x, y
  <2>7. Sift(x \o y, Decodable) = Sift(x, Decodable) \o Sift(y, Decodable)
    BY <2>5, SiftConcat
  <2> QED BY <2>5, <2>6, <2>7
<1>15. ThreadOk(c)'
  <2>1. b + k \in 0 .. sent'[c]
    BY <1>2, <1>4, <1>7
  <2>2. ThreadAt(c, b + k)'
    <3>1. /\ Len(pending'[c] \o socket'[c]) = 2 * (sent'[c] - (b + k))
          /\ Aligned(pending'[c] \o socket'[c], b + k)
      BY <1>4, <1>7, <1>9
    <3>2. Sift(Line', From(c)) \o out'[c] = Sift(Records(c, 0, b + k), Decodable)
      BY <1>9, <1>13, <1>14
    <3>3. b + k <= sent'[c] /\ sent'[c] <= MaxSent[c]
      BY <1>4, <1>6, <1>7
    <3> QED BY <3>1, <3>2, <3>3 DEF ThreadAt
  <2> QED BY <1>1, <1>4, <1>9, <1>10, <2>1, <2>2 DEF ThreadOk
<1>16. ASSUME NEW d \in Conns PROVE ThreadOk(d)'
  <2>1. CASE d = c
    BY <1>15, <2>1
  <2>2. CASE d # c
    <3>1. ThreadOk(d)
      BY DEF IntakeInv
    <3> QED BY <1>4, <1>9, <1>13, <2>2, <3>1, ThreadSame
  <2> QED BY <2>1, <2>2
<1> QED BY <1>1, <1>4, <1>12, <1>16 DEF IntakeInv, Serving

LEMMA HandOverInv == ASSUME IntakeInv, NEW c \in Conns, ServeSend(c) PROVE IntakeInv'
<1> USE DEF clientVars, threadVars, mainVars, walVars
<1>1. ThreadOk(c) /\ cpc[c] = "send" /\ Serving /\ out[c] \in Seq(From(c)) /\ out[c] # <<>>
  BY DEF IntakeInv, ServeSend, ThreadOk
<1>2. PICK b \in 0 .. sent[c] : ThreadAt(c, b)
  BY <1>1 DEF ThreadOk
<1> DEFINE e == Head(out[c])
           left == Tail(out[c])
<1>3. /\ e \in From(c) /\ left \in Seq(From(c)) /\ out[c] = <<e>> \o left
  BY <1>1
<1>4. /\ chan' = Append(chan, e) /\ out' = [out EXCEPT ![c] = left]
      /\ cpc' = [cpc EXCEPT ![c] = "count"]
      /\ UNCHANGED <<sent, link, socket, pending, running, accepted, ppc, hand, published, id,
                     cached, starts, file, torn, onDisk, handle, sinceSync>>
  BY DEF ServeSend
<1> HIDE DEF e, left
<1>5. /\ out'[c] = left /\ cpc'[c] = "count"
      /\ \A d \in Conns : d # c => out'[d] = out[d] /\ cpc'[d] = cpc[d]
  BY <1>4 DEF IntakeInv, TypeOK
<1>6. e \in Record /\ e.from = c
  BY <1>3 DEF From
<1>7. left \in Seq(Record) /\ From(c) \subseteq Record
  <2>1. From(c) \subseteq Record
    BY DEF From
  <2> QED BY <1>3, <2>1, SeqMonotonic
<1>8. chan \in Seq(Record) /\ published \in Seq(Record) /\ InHand \in Seq(Record) /\ Line \in Seq(Record)
  BY LineIsRecords DEF IntakeInv, TypeOK
<1>9. Line' = Append(Line, e) /\ chan' \in Seq(Record)
  <2> DEFINE a == published \o InHand
  <2>1. a \in Seq(Record) /\ Line = a \o chan
    BY <1>8, ConcatProperties DEF Line
  <2>2. Line' = a \o Append(chan, e)
    BY <1>4 DEF Line, InHand
  <2> HIDE DEF a
  <2>3. chan' = chan \o <<e>> /\ <<e>> \in Seq(Record) /\ chan' \in Seq(Record)
    BY <1>4, <1>6, <1>8, AppendIsConcat, AppendProperties
  <2>4. a \o (chan \o <<e>>) = (a \o chan) \o <<e>>
    BY SMTT(60), <1>8, <2>1, <2>3, ConcatAssociative
  <2>5. Append(Line, e) = Line \o <<e>>
    BY <1>6, <1>8, AppendIsConcat
  <2> QED BY <1>4, <2>1, <2>2, <2>3, <2>4, <2>5
<1>10. \A S : Sift(Line', S) = IF e \in S THEN Append(Sift(Line, S), e) ELSE Sift(Line, S)
  BY <1>6, <1>8, <1>9, SiftAppend
<1>11. TypeOK'
  <2>1. out' \in [Conns -> Seq(Record)] /\ cpc' \in [Conns -> ThreadPCs]
    BY <1>4, <1>7 DEF IntakeInv, TypeOK, ThreadPCs
  <2> QED BY <1>4, <1>9, <2>1 DEF IntakeInv, TypeOK, WalTypeOK
<1>12. Sift(Line', From(c)) \o left = Sift(Line, From(c)) \o out[c]
  <2> DEFINE a == Sift(Line, From(c))
  <2>1. a \in Seq(Record)
    BY <1>8, SiftIsSeq
  <2>2. Sift(Line', From(c)) = Append(a, e)
    BY <1>3, <1>10
  <2> HIDE DEF a
  <2>3. Append(a, e) = a \o <<e>> /\ <<e>> \in Seq(Record)
    BY <1>6, <2>1, AppendIsConcat
  <2>4. (a \o <<e>>) \o left = a \o (<<e>> \o left)
    BY <1>7, <2>1, <2>3, ConcatAssociative
  <2> QED BY <1>3, <2>2, <2>3, <2>4 DEF a
<1>13. ThreadOk(c)'
  <2>1. ThreadAt(c, b)'
    <3>1. Sift(Line', From(c)) \o out'[c] = Sift(Records(c, 0, b), Decodable)
      BY <1>1, <1>2, <1>5, <1>12 DEF ThreadAt
    <3> QED BY <1>2, <1>4, <3>1 DEF ThreadAt
  <2>2. b \in 0 .. sent'[c]
    BY <1>4
  <2> QED BY <1>1, <1>3, <1>4, <1>5, <2>1, <2>2 DEF ThreadOk
<1>14. ASSUME NEW d \in Conns PROVE ThreadOk(d)'
  <2>1. CASE d = c
    BY <1>13, <2>1
  <2>2. CASE d # c
    <3>1. ThreadOk(d)
      BY DEF IntakeInv
    <3>2. e \notin From(d)
      BY <1>6, <2>2 DEF From
    <3>3. Sift(Line', From(d)) = Sift(Line, From(d))
      BY <1>10, <3>2
    <3> QED BY <1>4, <1>5, <2>2, <3>1, <3>3, ThreadSame
  <2> QED BY <2>1, <2>2
<1> QED BY <1>1, <1>4, <1>11, <1>14 DEF IntakeInv, Serving

--------------------------------------------------------------------------------
(* The main thread, and what happens to the process.                       *)

LEMMA LogTyped ==
    ASSUME WalTypeOK,
           \/ WalOpen \/ WalWriteFails \/ WalSyncOwed \/ WalSync \/ WalSyncFails
           \/ WalDrop \/ WalWriteback \/ WalKilled \/ WalMachineCrash \/ UNCHANGED walVars
    PROVE  WalTypeOK'
<1>1. file \in Seq(Cells) /\ Len(file) \in Nat /\ onDisk \in 0 .. Len(file) /\ torn \in BOOLEAN
      /\ sinceSync \in Nat
  BY DEF WalTypeOK
<1>2. CASE WalOpen
  <2>1. file' = <<>> /\ onDisk' = 0
    BY <1>2 DEF WalOpen
  <2>2. file' \in Seq(Cells) /\ Len(file') = 0 /\ onDisk' \in 0 .. Len(file')
    BY <2>1, EmptySeq
  <2>3. torn' = FALSE /\ handle' = "open" /\ sinceSync' = 0
    BY <1>2 DEF WalOpen
  <2> QED BY <2>2, <2>3 DEF WalTypeOK
<1>3. CASE WalWriteFails \/ WalSyncFails \/ WalKilled \/ UNCHANGED walVars
  BY <1>3 DEF WalWriteFails, WalSyncFails, WalKilled, walVars, WalTypeOK
<1>4. CASE WalSyncOwed \/ WalSync \/ WalDrop
  BY <1>1, <1>4 DEF WalSyncOwed, WalSync, WalDrop, Synced, WalTypeOK
<1>5. CASE WalWriteback
  BY <1>1, <1>5 DEF WalWriteback, WalTypeOK
<1>6. CASE WalMachineCrash
  <2>1. PICK n \in onDisk .. Len(file) : \E bad \in SUBSET (onDisk + 1 .. n) :
          /\ file' = [i \in 1 .. n |-> IF i \in bad THEN Damaged ELSE file[i]]
          /\ onDisk' = n
    BY <1>6 DEF WalMachineCrash
  <2>2. n \in Nat /\ n <= Len(file)
    BY <1>1
  <2>3. PICK bad \in SUBSET (onDisk + 1 .. n) :
          file' = [i \in 1 .. n |-> IF i \in bad THEN Damaged ELSE file[i]]
    BY <2>1
  <2>4. \A i \in 1 .. n : (IF i \in bad THEN Damaged ELSE file[i]) \in Cells
    BY <1>1, <2>2 DEF Cells
  <2>5. file' \in [1 .. n -> Cells]
    BY <2>3, <2>4
  <2>6. file' \in Seq(Cells) /\ Len(file') = n
    BY <2>2, <2>5
  <2> QED BY <1>6, <2>1, <2>2, <2>6 DEF WalMachineCrash, WalTypeOK
<1> QED BY <1>2, <1>3, <1>4, <1>5, <1>6

LEMMA WriteTyped == ASSUME WalTypeOK, NEW r \in Record, WalWrite(r) PROVE WalTypeOK'
<1>1. r \in Cells /\ file \in Seq(Cells)
  BY DEF Cells, WalTypeOK
<1>2. file' \in Seq(Cells) /\ Len(file') = Len(file) + 1
  BY <1>1, AppendProperties DEF WalWrite
<1> QED BY <1>2 DEF WalWrite, WalTypeOK

LEMMA MainStep ==
    ASSUME IntakeInv, TypeOK', UNCHANGED <<clientVars, threadVars>>, Line' = Line,
           ~Serving' => ~Serving /\ chan' = <<>>,
           ppc' \in {"stamp", "ring", "log", "logged"} => hand' # <<>>
    PROVE  IntakeInv'
<1>1. \A c \in Conns : ThreadOk(c)'
  BY ThreadsSame DEF IntakeInv
<1>2. cpc' = cpc
  BY DEF threadVars
<1> QED BY <1>1, <1>2 DEF IntakeInv

LEMMA LineAround ==
    ASSUME TypeOK, published' = published, chan' = chan,
           \/ ppc' = ppc /\ hand' = hand
           \/ ppc \notin {"stamp", "ring"} /\ ppc' \notin {"stamp", "ring"}
           \/ ppc = "stamp" /\ ppc' = "ring" /\ hand' = hand
    PROVE  Line' = Line
<1>1. InHand' = InHand
  BY DEF InHand
<1> QED BY <1>1 DEF Line

LEMMA PlainInv ==
    ASSUME IntakeInv,
           \/ StartLog \/ StartServing \/ LoopCheck \/ RecvNothing \/ Stamp \/ PublishSync
           \/ PublishCache \/ Join \/ FinalSync \/ Signal \/ Writeback
    PROVE  IntakeInv'
<1> USE DEF clientVars, threadVars, mainVars
<1>1. UNCHANGED <<sent, link, socket, cpc, pending, out, chan, accepted, published, starts>>
  BY DEF StartLog, StartServing, LoopCheck, RecvNothing, Stamp, PublishSync, PublishCache, Join,
         FinalSync, Signal, Writeback
<1>2. WalTypeOK'
  BY LogTyped DEF IntakeInv, TypeOK, StartLog, StartServing, LoopCheck, RecvNothing, Stamp,
                  PublishSync, PublishCache, Join, FinalSync, Signal, Writeback
<1>3. Line' = Line
  BY LineAround DEF IntakeInv, TypeOK, StartLog, StartServing, LoopCheck, RecvNothing, Stamp,
                    PublishSync, PublishCache, Join, FinalSync, Signal, Writeback
<1>4. /\ ppc' \in MainPCs /\ running' \in BOOLEAN /\ id' \in Nat
      /\ hand' = hand \/ hand' = <<>>
  <2>1. ppc \in MainPCs /\ running \in BOOLEAN /\ id \in Nat /\ accepted + 1 \in Nat
    BY DEF IntakeInv, TypeOK
  <2>2. ppc' \in MainPCs
    BY <2>1 DEF MainPCs, StartLog, StartServing, LoopCheck, RecvNothing, Stamp,
                PublishSync, PublishCache, Join, FinalSync, Signal, Writeback
  <2>3. running' \in BOOLEAN /\ id' \in Nat
    BY <2>1 DEF StartLog, StartServing, LoopCheck, RecvNothing, Stamp,
                PublishSync, PublishCache, Join, FinalSync, Signal, Writeback
  <2>4. hand' = hand \/ hand' = <<>>
    BY DEF StartLog, StartServing, LoopCheck, RecvNothing, Stamp,
           PublishSync, PublishCache, Join, FinalSync, Signal, Writeback
  <2> QED BY <2>2, <2>3, <2>4
<1>5. cached' \in Seq(Record)
  <2>1. CASE PublishCache
    <3>1. PICK m \in Record : hand = <<m>>
      BY <2>1 DEF IntakeInv, TypeOK, PublishCache
    <3>2. cached' = Append(cached, m)
      BY <2>1, <3>1 DEF PublishCache
    <3> QED BY <3>2, AppendProperties DEF IntakeInv, TypeOK
  <2>2. CASE ~PublishCache
    BY <2>2 DEF IntakeInv, TypeOK, StartLog, StartServing, LoopCheck, RecvNothing, Stamp,
                PublishSync, Join, FinalSync, Signal, Writeback
  <2> QED BY <2>1, <2>2
<1>6. TypeOK'
  BY <1>1, <1>2, <1>4, <1>5 DEF IntakeInv, TypeOK
<1>7. ~Serving' => ~Serving
  BY DEF Serving, StartLog, StartServing, LoopCheck, RecvNothing, Stamp, PublishSync, PublishCache,
         Join, FinalSync, Signal, Writeback
<1>8. ppc' \in {"stamp", "ring", "log", "logged"} => hand' # <<>>
  BY DEF IntakeInv, StartLog, StartServing, LoopCheck, RecvNothing, Stamp, PublishSync,
         PublishCache, Join, FinalSync, Signal, Writeback
<1> QED BY <1>1, <1>3, <1>6, <1>7, <1>8, MainStep DEF IntakeInv

LEMMA RecvInv == ASSUME IntakeInv, Recv PROVE IntakeInv'
<1> USE DEF clientVars, threadVars, mainVars
<1>1. chan \in Seq(Record) /\ chan # <<>> /\ published \in Seq(Record)
  BY DEF IntakeInv, TypeOK, Recv
<1> DEFINE e == Head(chan)
           left == Tail(chan)
<1>2. e \in Record /\ left \in Seq(Record) /\ chan = <<e>> \o left /\ <<e>> \in Seq(Record)
      /\ <<e>> # <<>>
  BY <1>1
<1>3. /\ hand' = <<e>> /\ chan' = left /\ ppc = "recv" /\ ppc' = "stamp"
      /\ UNCHANGED <<sent, link, socket, cpc, pending, out, running, accepted, published, id, cached,
                     starts, walVars>>
  BY DEF Recv
<1> HIDE DEF e, left
<1>4. Line' = Line
  <2>1. Line = published \o chan
    <3>1. published \o <<>> = published
      BY <1>1, ConcatEmptySeq
    <3> QED BY <1>3, <3>1 DEF Line, InHand
  <2>2. Line' = (published \o <<e>>) \o left
    BY <1>3 DEF Line, InHand
  <2>3. (published \o <<e>>) \o left = published \o (<<e>> \o left)
    BY <1>1, <1>2, ConcatAssociative
  <2> QED BY <1>2, <2>1, <2>2, <2>3
<1>5. TypeOK'
  <2>1. WalTypeOK'
    BY <1>3, LogTyped DEF IntakeInv, TypeOK
  <2>2. chan' \in Seq(Record) /\ \E m \in Record : hand' = <<m>>
    BY <1>2, <1>3
  <2> QED BY <1>3, <2>1, <2>2 DEF IntakeInv, TypeOK, MainPCs
<1> QED BY <1>2, <1>3, <1>4, <1>5, MainStep DEF Serving

LEMMA RingInv == ASSUME IntakeInv, PublishRing PROVE IntakeInv'
<1> USE DEF clientVars, threadVars, mainVars
<1>1. PICK m \in Record : hand = <<m>>
  BY DEF IntakeInv, TypeOK, PublishRing
<1>2. /\ published' = Append(published, m) /\ ppc = "ring" /\ ppc' = "log" /\ hand # <<>>
      /\ UNCHANGED <<sent, link, socket, cpc, pending, out, running, chan, accepted, hand, id,
                     cached, starts, walVars>>
  BY <1>1 DEF PublishRing, IntakeInv
<1>3. published \in Seq(Record) /\ <<m>> \in Seq(Record) /\ chan \in Seq(Record)
  BY DEF IntakeInv, TypeOK
<1>4. published' = published \o <<m>> /\ published' \in Seq(Record)
  BY <1>2, <1>3, AppendIsConcat, AppendProperties
<1>5. Line' = Line
  <2>1. Line = (published \o <<m>>) \o chan
    BY <1>1, <1>2 DEF Line, InHand
  <2>2. Line' = published' \o <<>> \o chan
    BY <1>2 DEF Line, InHand
  <2>3. published' \o <<>> = published'
    BY <1>4, ConcatEmptySeq
  <2> QED BY <1>4, <2>1, <2>2, <2>3
<1>6. TypeOK'
  <2>1. WalTypeOK'
    BY <1>2, LogTyped DEF IntakeInv, TypeOK
  <2> QED BY <1>2, <1>4, <2>1 DEF IntakeInv, TypeOK, MainPCs
<1> QED BY <1>2, <1>5, <1>6, MainStep DEF Serving

LEMMA LogWriteInv == ASSUME IntakeInv, PublishLog PROVE IntakeInv'
<1> USE DEF clientVars, threadVars, mainVars
<1>1. PICK m \in Record : hand = <<m>>
  BY DEF IntakeInv, TypeOK, PublishLog
<1>2. /\ ppc = "log" /\ ppc' \in {"logged", "failed"} /\ hand # <<>>
      /\ UNCHANGED <<sent, link, socket, cpc, pending, out, running, chan, accepted, hand,
                     published, id, cached, starts>>
  BY DEF PublishLog, IntakeInv
<1>3. WalTypeOK'
  BY <1>1, LogTyped, WriteTyped DEF PublishLog, IntakeInv, TypeOK
<1>4. TypeOK'
  BY <1>2, <1>3 DEF IntakeInv, TypeOK, MainPCs
<1>5. Line' = Line
  BY <1>2, LineAround DEF IntakeInv
<1> QED BY <1>2, <1>4, <1>5, MainStep DEF Serving

\* Before a connection is accepted nothing of it has been handed over.
LEMMA NothingYet ==
    ASSUME TypeOK, NEW c \in Conns, ThreadOk(c), cpc[c] = "none"
    PROVE  Sift(Line, From(c)) = <<>> /\ Sift(published, From(c)) = <<>>
<1>1. PICK b \in 0 .. sent[c] : ThreadAt(c, b)
  BY DEF ThreadOk
<1>2. sent[c] = 0 /\ b = 0 /\ out[c] = <<>>
  BY <1>1 DEF ThreadOk
<1>3. Records(c, 0, 0) = <<>>
  BY RecordsOfNone
<1>4. Sift(Line, From(c)) \o <<>> = <<>>
  BY <1>1, <1>2, <1>3, SiftOfNone DEF ThreadAt
<1>5. Line \in Seq(Record) /\ Sift(Line, From(c)) \in Seq(Record)
  BY LineIsRecords, SiftIsSeq
<1>6. Sift(Line, From(c)) = <<>>
  BY <1>4, <1>5, ConcatEmptySeq
<1> DEFINE a == published
           t == InHand \o chan
<1>7. a \in Seq(Record) /\ InHand \in Seq(Record) /\ chan \in Seq(Record)
  BY LineIsRecords DEF TypeOK
<1>8. t \in Seq(Record) /\ Line = a \o t
  BY SMTT(60), <1>7, ConcatProperties, ConcatAssociative DEF Line
<1> HIDE DEF t
<1>9. Sift(a, From(c)) \o Sift(t, From(c)) = <<>>
  BY SMTT(60), <1>6, <1>7, <1>8, SiftConcat
<1>10. Sift(a, From(c)) \in Seq(Record) /\ Sift(t, From(c)) \in Seq(Record)
  BY <1>7, <1>8, SiftIsSeq
<1>11. Sift(a, From(c)) = <<>>
  BY <1>9, <1>10, ConcatEqualIffEmpty
<1> QED BY <1>6, <1>11

LEMMA FreshInv == ASSUME IntakeInv, StartRing PROVE IntakeInv'
<1> USE DEF clientVars, threadVars, mainVars
<1>1. /\ ppc = "down" /\ ppc' = "opening" /\ published' = <<>> /\ running' = TRUE
      /\ starts' = starts + 1
      /\ UNCHANGED <<sent, link, socket, cpc, pending, out, chan, accepted, hand, id, cached, walVars>>
  BY DEF StartRing
<1>2. ~Serving /\ chan = <<>> /\ \A c \in Conns : cpc[c] \in {"none", "lost"}
  BY <1>1 DEF IntakeInv, Serving
<1>3. TypeOK'
  <2>1. WalTypeOK'
    BY <1>1, LogTyped DEF IntakeInv, TypeOK
  <2>2. published' \in Seq(Record) /\ starts' \in Nat
    BY <1>1 DEF IntakeInv, TypeOK
  <2> QED BY <1>1, <2>1, <2>2 DEF IntakeInv, TypeOK, MainPCs
<1>4. Line' = <<>>
  <2>1. Line' = <<>> \o <<>> \o <<>>
    BY <1>1, <1>2 DEF Line, InHand
  <2> QED BY <2>1
<1>5. ASSUME NEW c \in Conns PROVE ThreadOk(c)'
  <2>1. ThreadOk(c) /\ TypeOK
    BY DEF IntakeInv
  <2>2. cpc[c] # "lost" => Sift(Line', From(c)) = Sift(Line, From(c))
    BY <1>2, <1>4, <2>1, NothingYet, SiftOfNone
  <2> QED BY <1>1, <2>1, <2>2, ThreadSame
<1> QED BY <1>1, <1>2, <1>3, <1>5 DEF IntakeInv

\* The process ends, with the ring left as it is or gone.
LEMMA EndsInv ==
    ASSUME IntakeInv, ProcessEnds, WalTypeOK', published' \in {published, <<>>}
    PROVE  IntakeInv'
<1>1. /\ ppc' = "down" /\ running' = FALSE /\ chan' = <<>> /\ accepted' = 0 /\ hand' = <<>>
      /\ id' = 0 /\ cached' = <<>> /\ starts' = starts
      /\ cpc' = [c \in Conns |-> IF link[c] = "none" THEN "none" ELSE "lost"]
      /\ link' = [c \in Conns |-> IF link[c] = "none" THEN "none" ELSE "closed"]
      /\ sent' = [c \in Conns |-> 0] /\ socket' = [c \in Conns |-> <<>>]
      /\ pending' = [c \in Conns |-> <<>>] /\ out' = [c \in Conns |-> <<>>]
  BY DEF ProcessEnds
<1>2. published' \in Seq(Record)
  <2>1. published \in Seq(Record) /\ <<>> \in Seq(Record)
    BY DEF IntakeInv, TypeOK
  <2> QED BY <2>1
<1>3. TypeOK'
  <2>1. /\ cpc' \in [Conns -> ThreadPCs] /\ link' \in [Conns -> {"none", "open", "closed"}]
        /\ sent' \in [Conns -> Nat] /\ socket' \in [Conns -> Seq(Halves)]
        /\ pending' \in [Conns -> Seq(Halves)] /\ out' \in [Conns -> Seq(Record)]
    BY <1>1 DEF ThreadPCs
  <2>2. chan' \in Seq(Record) /\ cached' \in Seq(Record)
    BY <1>1
  <2> QED BY <1>1, <1>2, <2>1, <2>2 DEF IntakeInv, TypeOK, MainPCs
<1>4. Line' = published'
  <2>1. Line' = published' \o <<>> \o <<>>
    BY <1>1 DEF Line, InHand
  <2>2. published' \o <<>> = published'
    BY <1>2, ConcatEmptySeq
  <2> QED BY <2>1, <2>2
<1>5. ASSUME NEW c \in Conns PROVE ThreadOk(c)'
  <2>1. /\ sent'[c] = 0 /\ socket'[c] = <<>> /\ pending'[c] = <<>> /\ out'[c] = <<>>
        /\ cpc'[c] = IF link[c] = "none" THEN "none" ELSE "lost"
        /\ link'[c] = IF link[c] = "none" THEN "none" ELSE "closed"
    BY <1>1
  <2>2. ThreadOk(c) /\ TypeOK
    BY DEF IntakeInv
  <2>3. cpc'[c] # "lost" => Sift(Line', From(c)) = <<>>
    <3>1. CASE link[c] = "none"
      <4>1. cpc[c] = "none"
        BY <2>2, <3>1 DEF ThreadOk
      <4> QED BY <1>4, <2>2, <4>1, NothingYet, SiftOfNone
    <3> QED BY <2>1, <3>1
  <2>4. Records(c, 0, 0) = <<>> /\ Sift(<<>>, Decodable) = <<>>
    BY RecordsOfNone, SiftOfNone
  <2>5. ThreadAt(c, 0)'
    <3>1. <<>> \o <<>> = <<>> /\ Len(<<>>) = 0
      OBVIOUS
    <3>2. Len(pending'[c] \o socket'[c]) = 2 * (sent'[c] - 0) /\ Aligned(pending'[c] \o socket'[c], 0)
      BY <2>1, <3>1 DEF Aligned
    <3>3. 0 <= sent'[c] /\ sent'[c] <= MaxSent[c]
      BY <2>1
    <3>4. cpc'[c] # "lost" => Sift(Line', From(c)) \o out'[c] = Sift(Records(c, 0, 0), Decodable)
      BY <2>1, <2>3, <2>4, <3>1
    <3> QED BY <3>2, <3>3, <3>4 DEF ThreadAt
  <2>6. 0 \in 0 .. sent'[c] /\ out'[c] \in Seq(From(c))
    BY <2>1
  <2> QED BY <2>1, <2>5, <2>6 DEF ThreadOk
<1>6. \A c \in Conns : cpc'[c] \in {"none", "lost"}
  BY <1>1
<1> QED BY <1>1, <1>3, <1>5, <1>6 DEF IntakeInv

LEMMA InitIntake == Init => IntakeInv
<1> SUFFICES ASSUME Init PROVE IntakeInv
  OBVIOUS
<1> USE DEF Init
<1>1. TypeOK
  <2>1. WalTypeOK
    <3>1. <<>> \in Seq(Cells) /\ Len(<<>>) = 0
      OBVIOUS
    <3>2. file = <<>> /\ torn = FALSE /\ onDisk = 0 /\ handle = "closed" /\ sinceSync = 0
      BY DEF WalInit
    <3>3. 0 \in 0 .. Len(file)
      BY <3>1, <3>2
    <3> QED BY <3>1, <3>2, <3>3 DEF WalTypeOK
  <2>2. <<>> \in Seq(Halves) /\ <<>> \in Seq(Record)
    OBVIOUS
  <2> QED BY <2>1, <2>2 DEF TypeOK, ThreadPCs, MainPCs
<1>2. Line = <<>>
  <2>1. Line = <<>> \o <<>> \o <<>>
    BY DEF Line, InHand
  <2> QED BY <2>1
<1>3. ASSUME NEW c \in Conns PROVE ThreadOk(c)
  <2>1. Records(c, 0, 0) = <<>> /\ Sift(<<>>, Decodable) = <<>> /\ Sift(<<>>, From(c)) = <<>>
    BY RecordsOfNone, SiftOfNone
  <2>2. <<>> \o <<>> = <<>> /\ Len(<<>>) = 0
    OBVIOUS
  <2>3. ThreadAt(c, 0)
    <3>1. Len(pending[c] \o socket[c]) = 2 * (sent[c] - 0) /\ Aligned(pending[c] \o socket[c], 0)
      BY <2>2 DEF Aligned
    <3>2. Sift(Line, From(c)) \o out[c] = Sift(Records(c, 0, 0), Decodable)
      BY <1>2, <2>1, <2>2
    <3> QED BY <3>1, <3>2 DEF ThreadAt
  <2>4. 0 \in 0 .. sent[c] /\ out[c] \in Seq(From(c))
    OBVIOUS
  <2> QED BY <2>3, <2>4 DEF ThreadOk
<1> QED BY <1>1, <1>3 DEF IntakeInv

LEMMA NextIntake == ASSUME IntakeInv, Next PROVE IntakeInv'
<1>1. WalTypeOK
  BY DEF IntakeInv, TypeOK
<1>2. ASSUME NEW c \in Conns, ClientSend(c) \/ ClientClose(c) \/ Accept(c) \/ Serve(c)
      PROVE  IntakeInv'
  BY <1>2, SendInv, TurnInv, ReadInv, HandOverInv DEF Serve
<1>3. CASE StartFails \/ Exit
  <2>1. ProcessEnds /\ published' = published /\ WalTypeOK'
    BY <1>1, <1>3, LogTyped DEF StartFails, Exit
  <2> QED BY <2>1, EndsInv
<1>4. CASE Killed
  <2>1. ProcessEnds /\ published' = published /\ WalTypeOK'
    BY <1>1, <1>4, LogTyped DEF Killed
  <2> QED BY <2>1, EndsInv
<1>5. CASE MachineCrash
  <2>1. ProcessEnds /\ published' = <<>> /\ WalTypeOK'
    BY <1>1, <1>5, LogTyped DEF MachineCrash
  <2> QED BY <2>1, EndsInv
<1> QED BY <1>2, <1>3, <1>4, <1>5, FreshInv, PlainInv, RecvInv, RingInv, LogWriteInv
        DEF Next, PublishStep

LEMMA StillIntake == ASSUME IntakeInv, UNCHANGED vars PROVE IntakeInv'
<1> USE DEF vars, mainVars
<1>1. WalTypeOK'
  BY LogTyped DEF IntakeInv, TypeOK
<1>2. TypeOK'
  BY <1>1 DEF IntakeInv, TypeOK, clientVars, threadVars
<1>3. Line' = Line
  BY DEF Line, InHand
<1> QED BY <1>2, <1>3, MainStep DEF IntakeInv, Serving

\* How many whole records the halves that were read and not decoded are.
LEMMA HeldBack ==
    ASSUME NEW m \in Nat, NEW b \in 0 .. m, NEW p \in Seq(Halves), NEW s \in Seq(Halves),
           Len(p \o s) = 2 * (m - b), Aligned(p \o s, b)
    PROVE  /\ Aligned(p, b) /\ Len(p) \div 2 \in Nat
           /\ m - (Len(s) + 1) \div 2 = b + Len(p) \div 2
           /\ b + Len(p) \div 2 <= m
<1> DEFINE lp == Len(p)
           ls == Len(s)
           q == p \o s
<1>1. lp \in Nat /\ ls \in Nat
  OBVIOUS
<1>2. Len(q) = lp + ls /\ \A i \in 1 .. lp + ls : q[i] = IF i <= lp THEN p[i] ELSE s[i - lp]
  BY ConcatProperties
<1>3. Len(q) = 2 * (m - b) /\ Aligned(q, b)
  OBVIOUS
<1> HIDE DEF q
<1>4. Aligned(p, b)
  <2>1. ASSUME NEW i \in 1 .. lp PROVE p[i] = Half(b, i)
    <3>1. i \in 1 .. lp + ls /\ i <= lp
      BY <1>1
    <3>2. q[i] = Half(b, i)
      BY <1>2, <1>3, <3>1 DEF Aligned
    <3> QED BY <1>2, <3>1, <3>2
  <2> QED BY <2>1 DEF Aligned
<1>5. lp + ls = 2 * (m - b)
  BY <1>2, <1>3
<1> HIDE DEF lp, ls
<1>6. lp \div 2 \in Nat /\ m - (ls + 1) \div 2 = b + lp \div 2 /\ b + lp \div 2 <= m
  BY <1>1, <1>5
<1> QED BY <1>4, <1>6 DEF lp, ls

\* Received is what the thread has handed over, what it is about to, and what it
\* holds back.
LEMMA IntakeIsOnItsWay == IntakeInv => ReceivedIsOnItsWay
<1> SUFFICES ASSUME IntakeInv, NEW c \in Conns, cpc[c] \notin {"none", "lost"}
             PROVE  Sift(published \o InHand \o chan, From(c)) \o out[c] \o Good(c, pending[c])
                        = Received(c)
  BY DEF ReceivedIsOnItsWay
<1>1. PICK b \in 0 .. sent[c] : ThreadAt(c, b)
  BY DEF IntakeInv, ThreadOk
<1>2. sent[c] \in Nat /\ pending[c] \in Seq(Halves) /\ socket[c] \in Seq(Halves)
  BY DEF IntakeInv, TypeOK
<1> DEFINE k == Len(pending[c]) \div 2
<1>3. sent[c] <= MaxSent[c] /\ MaxSent[c] \in Nat
  BY <1>1 DEF ThreadAt
<1>4. /\ Aligned(pending[c], b) /\ k \in Nat
      /\ sent[c] - (Len(socket[c]) + 1) \div 2 = b + k /\ b + k <= sent[c]
  <2> DEFINE m == sent[c]
             p == pending[c]
             s == socket[c]
  <2>1. /\ m \in Nat /\ b \in 0 .. m /\ p \in Seq(Halves) /\ s \in Seq(Halves)
        /\ Len(p \o s) = 2 * (m - b) /\ Aligned(p \o s, b)
    BY <1>1, <1>2 DEF ThreadAt
  <2> HIDE DEF m, p, s
  <2> QED BY <2>1, HeldBack DEF m, p, s
<1>5. b + k <= MaxSent[c] /\ b \in Nat /\ 0 + b <= MaxSent[c] /\ 0 \in Nat
  <2> HIDE DEF k
  <2> QED BY <1>2, <1>3, <1>4
<1>6. Good(c, pending[c]) = Sift(Records(c, b, k), Decodable)
  BY <1>2, <1>4, <1>5, GoodOf
<1>7. Received(c) = Sift(Records(c, 0, b + k), Decodable)
  BY <1>4 DEF Received
<1> HIDE DEF k
<1> DEFINE x == Records(c, 0, b)
           y == Records(c, b, k)
<1>8. x \in Seq(From(c)) /\ y \in Seq(From(c))
  <2> HIDE DEF x, y
  <2>1. x \in Seq(From(c))
    BY <1>5, RecordsAreSeq DEF x
  <2>2. y \in Seq(From(c))
    BY <1>4, <1>5, RecordsAreSeq DEF y
  <2> QED BY <2>1, <2>2
<1>9. Records(c, 0, b + k) = x \o y
  BY <1>4, <1>5, RecordsSplit
<1>10. Sift(published \o InHand \o chan, From(c)) \o out[c] = Sift(x, Decodable)
  BY <1>1 DEF ThreadAt, Line
<1> HIDE DEF x
<1>11. Sift(x \o y, Decodable) = Sift(x, Decodable) \o Sift(y, Decodable)
  BY <1>8, SiftConcat
<1> QED BY <1>6, <1>7, <1>9, <1>10, <1>11

\* IntakeInv is an inductive invariant of the daemon.
THEOREM IntakeInvariant == Spec => []IntakeInv
<1>1. IntakeInv /\ [Next]_vars => IntakeInv'
  BY NextIntake, StillIntake
<1> QED BY <1>1, InitIntake, PTL DEF Spec

\* No read that ends in the middle of a record, no full channel and no bad record
\* loses, repeats or reorders one on its way from a socket to the ring, whatever
\* the number of connections (serve of ingest.rs and publish_one of feedd.rs).
THEOREM IntakeStaysExact == Spec => []IntakeIsExact
<1>1. IntakeInv => IntakeIsExact
  BY IntakeIsOnItsWay DEF IntakeInv, IntakeIsExact
<1> QED BY <1>1, IntakeInvariant, PTL
================================================================================
