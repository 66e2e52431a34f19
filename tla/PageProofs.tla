------------------------------- MODULE PageProofs -------------------------------
(***************************************************************************)
(* Theorems about Page, for any number of connections, any limit on those  *)
(* served at once, and whatever each of them asks for.                     *)
(*                                                                         *)
(* The argument.  A connection lies down only after it has seen, under the *)
(* lock, that the slot holds nothing newer; the slot changes in one step,  *)
(* and the step after it wakes everyone.  The limit holds because one      *)
(* thread accepts: between its look at the count and the count's rise no   *)
(* other connection is let in, so those counted and the one at the door    *)
(* together never pass it.  The commands run are those queued, since the   *)
(* loop empties the queue as it takes it, and what a slot shows was run    *)
(* before it was stored.  A stream adds up because what it missed is       *)
(* counted when it takes a frame, and nothing is counted before it opens.  *)
(***************************************************************************)
EXTENDS Page, Lemmas, SequenceTheorems

USE PageAssumption

Frames == [seq : Nat, shows : Seq(Clients)]

Loops == [at : {"compose", "count", "store", "notify"}, seq : Nat, shows : Seq(Clients)]

Places == {"away", "admitted", "refused", "reading", "push", "look", "asleep", "found", "gone"}

Kinds == {"stream", "act", "plain"}

Conns == [at : Places, kind : Kinds, after : Nat, late : BOOLEAN, taken : Frames]

Tallies == [opened : Int, drew : Int, missed : Int]

PageTypeOK ==
    /\ loop \in Loops
    /\ ran \in Seq(Clients) /\ commands \in Seq(Clients) /\ asked \in Seq(Clients)
    /\ frames \in Frames
    /\ published \in Nat
    /\ conn \in [Clients -> Conns]
    /\ tally \in [Clients -> Tallies]

--------------------------------------------------------------------------------
LEMMA NoFrameType == NoFrame \in Frames
<1>1. <<>> \in Seq(Clients)
  OBVIOUS
<1>2. QED
  BY <1>1 DEF NoFrame, Frames

LEMMA NoConnType == NoConn \in Conns
  BY NoFrameType DEF NoConn, Conns, Places, Kinds

LEMMA AtType ==
    ASSUME NEW r \in Conns, NEW p \in Places PROVE [r EXCEPT !.at = p] \in Conns
  BY DEF Conns

LEMMA LateType ==
    ASSUME NEW r \in Conns, NEW b \in BOOLEAN, NEW p \in Places
    PROVE  [r EXCEPT !.late = b, !.at = p] \in Conns /\ [r EXCEPT !.late = b] \in Conns
  BY DEF Conns

LEMMA AskType ==
    ASSUME NEW r \in Conns, NEW k \in Kinds, NEW n \in Nat, NEW p \in Places
    PROVE  [r EXCEPT !.kind = k, !.after = n, !.at = p] \in Conns
  BY DEF Conns

LEMMA TakenType ==
    ASSUME NEW r \in Conns, NEW f \in Frames, NEW p \in Places
    PROVE  [r EXCEPT !.taken = f, !.at = p] \in Conns
  BY DEF Conns

LEMMA WrittenType ==
    ASSUME NEW r \in Conns, NEW p \in Places
    PROVE  [r EXCEPT !.after = r.taken.seq, !.taken = NoFrame, !.late = FALSE, !.at = p]
             \in Conns
<1>1. r.taken.seq \in Nat
  BY DEF Conns, Frames
<1>2. QED
  BY <1>1, NoFrameType DEF Conns

LEMMA TallyType ==
    ASSUME NEW n \in Int, NEW m \in Int, NEW t \in Tallies
    PROVE  /\ [t EXCEPT !.missed = t.missed + n, !.drew = t.drew + m] \in Tallies
           /\ [t EXCEPT !.missed = t.missed + n] \in Tallies
<1>1. t.missed + n \in Int /\ t.drew + m \in Int
  BY DEF Tallies
<1>2. QED
  BY <1>1 DEF Tallies

LEMMA PageInitType == Init => PageTypeOK
<1> SUFFICES ASSUME Init PROVE PageTypeOK
  OBVIOUS
<1>1. <<>> \in Seq(Clients)
  OBVIOUS
<1>2. loop \in Loops
  BY <1>1 DEF Init, Loops
<1>3. conn \in [Clients -> Conns]
  BY NoFrameType DEF Init, Conns, Places, Kinds
<1>4. tally \in [Clients -> Tallies]
  BY DEF Init, Tallies
<1>5. QED
  BY <1>1, <1>2, <1>3, <1>4, NoFrameType DEF Init, PageTypeOK

LEMMA FrameLoopType == ASSUME PageTypeOK, FrameLoop PROVE PageTypeOK'
<1> USE DEF PageTypeOK
<1>1. CASE Compose
  <2>1. ran \o commands \in Seq(Clients) /\ <<>> \in Seq(Clients)
    OBVIOUS
  <2>2. loop' \in Loops
    BY <1>1, <2>1 DEF Compose, Loops
  <2>3. QED
    BY <1>1, <2>1, <2>2 DEF Compose
<1>2. CASE Count
  <2>1. published' \in Nat
    BY <1>2 DEF Count
  <2>2. loop' \in Loops
    BY <1>2, <2>1 DEF Count, Loops
  <2>3. QED
    BY <1>2, <2>1, <2>2 DEF Count
<1>3. CASE Store
  <2>1. loop' \in Loops /\ loop.seq \in Nat /\ loop.shows \in Seq(Clients)
    BY <1>3 DEF Store, Loops
  <2>2. frames' \in Frames
    BY <1>3, <2>1 DEF Store, Frames
  <2>3. QED
    BY <1>3, <2>1, <2>2 DEF Store
<1>4. CASE Notify
  <2>1. loop' \in Loops
    BY <1>4 DEF Notify, Loops
  <2>2. \A c \in Clients : [conn[c] EXCEPT !.at = "look"] \in Conns
    BY AtType DEF Places
  <2>3. conn' \in [Clients -> Conns]
    BY <1>4, <2>2 DEF Notify
  <2>4. QED
    BY <1>4, <2>1, <2>3 DEF Notify
<1>5. QED
  BY <1>1, <1>2, <1>3, <1>4 DEF FrameLoop

Client(c) == Admit(c) \/ Refuse(c) \/ Spawn(c) \/ ReadPlain(c) \/ ReadWaiting(c) \/ Handle(c)

LEMMA ClientType == ASSUME PageTypeOK, NEW c \in Clients, Client(c) PROVE PageTypeOK'
<1> USE DEF PageTypeOK
<1>0. conn[c] \in Conns /\ [conn EXCEPT ![c] = NoConn] \in [Clients -> Conns]
  BY NoConnType
<1>p. \A p \in Places : [conn EXCEPT ![c].at = p] \in [Clients -> Conns]
  BY <1>0, AtType
<1>1. CASE Admit(c) \/ Refuse(c) \/ Spawn(c)
  <2>1. conn' \in [Clients -> Conns]
    BY <1>1, <1>p DEF Admit, Refuse, Spawn, Places
  <2>2. QED
    BY <1>1, <2>1 DEF Admit, Refuse, Spawn
<1>2. CASE ReadPlain(c) \/ Respond(c)
  BY <1>2, <1>0 DEF ReadPlain, Respond, Leaves
<1>3. CASE ReadWaiting(c)
  <2>1. PICK k \in Asks[c] \ {"plain"} :
          conn' = [conn EXCEPT ![c].kind = k, ![c].after = published,
                               ![c].at = IF k = "act" THEN "push" ELSE "look"]
    BY <1>3 DEF ReadWaiting
  <2> DEFINE p == IF k = "act" THEN "push" ELSE "look"
  <2>2. k \in Kinds /\ p \in Places
    BY DEF Kinds, Places
  <2>3. [conn[c] EXCEPT !.kind = k, !.after = published, !.at = p] \in Conns
    BY <1>0, <2>2, AskType
  <2>4. conn' \in [Clients -> Conns]
    BY <2>1, <2>3
  <2>5. tally' \in [Clients -> Tallies]
    <3>1. [tally[c] EXCEPT !.opened = published] \in Tallies
      <4>1. tally[c] \in Tallies /\ published \in Int
        OBVIOUS
      <4>2. QED
        BY <4>1 DEF Tallies
    <3>2. QED
      BY <1>3, <3>1 DEF ReadWaiting
  <2>6. QED
    BY <1>3, <2>4, <2>5 DEF ReadWaiting
<1>4. CASE Push(c)
  <2>1. Append(commands, c) \in Seq(Clients) /\ Append(asked, c) \in Seq(Clients)
    OBVIOUS
  <2>2. conn' \in [Clients -> Conns]
    BY <1>4, <1>p DEF Push, Places
  <2>3. QED
    BY <1>4, <2>1, <2>2 DEF Push
<1>5. CASE Take(c)
  <2>1. [conn[c] EXCEPT !.taken = frames, !.at = "found"] \in Conns
    BY <1>0, TakenType DEF Places
  <2>2. conn' \in [Clients -> Conns]
    BY <1>5, <2>1 DEF Take
  <2>3. QED
    BY <1>5, <2>2 DEF Take
<1>6. CASE Sleep(c)
  <2>1. conn' \in [Clients -> Conns]
    BY <1>6, <1>p DEF Sleep, Places
  <2>2. QED
    BY <1>6, <2>1 DEF Sleep
<1>7. CASE Expire(c)
  <2>1. [conn[c] EXCEPT !.late = TRUE, !.at = "look"] \in Conns
    BY <1>0, LateType DEF Places
  <2>2. conn' \in [Clients -> Conns]
    BY <1>7, <2>1 DEF Expire
  <2>3. QED
    BY <1>7, <2>2 DEF Expire
<1>8. CASE GiveUp(c)
  <2>1. [conn[c] EXCEPT !.late = FALSE] \in Conns
    BY <1>0, LateType DEF Places
  <2>2. conn' \in [Clients -> Conns]
    BY <1>8, <1>0, <2>1 DEF GiveUp, Leaves
  <2>3. QED
    BY <1>8, <2>2 DEF GiveUp
<1>9. CASE Write(c)
  <2>1. conn[c].taken.seq \in Nat /\ conn[c].after \in Nat
    BY <1>0 DEF Conns, Frames
  <2>2. Missed(c) \in Int
    BY <2>1 DEF Missed
  <2>3. [conn[c] EXCEPT !.after = conn[c].taken.seq, !.taken = NoFrame,
                        !.late = FALSE, !.at = "look"] \in Conns
    BY <1>0, WrittenType DEF Places
  <2>4. conn' \in [Clients -> Conns]
    BY <1>9, <1>0, <2>3 DEF Write, Leaves
  <2>5. tally' \in [Clients -> Tallies]
    <3>1. /\ [tally[c] EXCEPT !.missed = tally[c].missed + Missed(c),
                              !.drew = tally[c].drew + 1] \in Tallies
          /\ [tally[c] EXCEPT !.missed = tally[c].missed + Missed(c)] \in Tallies
      <4>1. tally[c] \in Tallies /\ 1 \in Int
        OBVIOUS
      <4>2. QED
        BY <4>1, <2>2, TallyType
    <3>2. QED
      BY <1>9, <3>1 DEF Write
  <2>6. QED
    BY <1>9, <2>4, <2>5 DEF Write
<1>10. QED
  BY <1>1, <1>2, <1>3, <1>4, <1>5, <1>6, <1>7, <1>8, <1>9 DEF Client, Handle

\* Every variable keeps its type; in particular commands, frames and what the
\* window has run are only ever sequences of the connections that asked.
THEOREM PageTypeCorrect == Spec => []PageTypeOK
<1>1. PageTypeOK /\ [Next]_vars => PageTypeOK'
  <2>1. PageTypeOK /\ UNCHANGED vars => PageTypeOK'
    BY DEF PageTypeOK, vars
  <2>2. QED
    BY <2>1, FrameLoopType, ClientType DEF Next, Client
<1>2. QED
  BY <1>1, PageInitType, PTL DEF Spec

--------------------------------------------------------------------------------
(* Sleeping and waking.                                                    *)

\* Notify leaves nobody asleep.
LEMMA NotifyWakes == ASSUME PageTypeOK, Notify PROVE Sleepers' = {}
<1>1. conn' = [c \in Clients |->
                 IF c \in Sleepers THEN [conn[c] EXCEPT !.at = "look"] ELSE conn[c]]
  BY DEF Notify
<1>2. \A c \in Clients : conn[c] \in Conns /\ [conn[c] EXCEPT !.at = "look"].at = "look"
  BY DEF PageTypeOK, Conns
<1>3. \A c \in Clients : conn'[c].at # "asleep"
  BY <1>1, <1>2 DEF Sleepers
<1>4. QED
  BY <1>3 DEF Sleepers

LEMMA FrameLoopWakes ==
    ASSUME PageTypeOK, NobodySleepsOnAFrame, FrameLoop PROVE NobodySleepsOnAFrame'
<1>1. CASE Compose \/ Count
  <2>1. Sleepers' = Sleepers /\ UNCHANGED <<conn, frames>> /\ loop.at # "notify"
    BY <1>1 DEF Compose, Count, Sleepers
  <2>2. QED
    BY <2>1 DEF NobodySleepsOnAFrame
<1>2. CASE Store
  <2>1. loop'.at = "notify"
    BY <1>2 DEF Store, PageTypeOK, Loops
  <2>2. QED
    BY <2>1 DEF NobodySleepsOnAFrame
<1>3. CASE Notify
  BY <1>3, NotifyWakes DEF NobodySleepsOnAFrame
<1>4. QED
  BY <1>1, <1>2, <1>3 DEF FrameLoop

\* A connection's step changes that connection's state and no other's, and it
\* lies down only where Sleep says.
LEMMA ClientStep ==
    ASSUME PageTypeOK, NEW c \in Clients, Client(c)
    PROVE  /\ UNCHANGED <<loop, frames, published, ran>>
           /\ \A d \in Clients \ {c} : conn'[d] = conn[d] /\ tally'[d] = tally[d]
           /\ conn'[c].at = "asleep" => Sleep(c)
<1> USE DEF PageTypeOK
<1>0. conn[c] \in Conns
  OBVIOUS
<1>1. UNCHANGED <<loop, frames, published, ran>>
  BY DEF Client, Admit, Refuse, Spawn, ReadPlain, ReadWaiting, Handle, Push, Take, Sleep,
         Expire, GiveUp, Write, Respond
<1>2. \A d \in Clients \ {c} : conn'[d] = conn[d] /\ tally'[d] = tally[d]
  BY DEF Client, Admit, Refuse, Spawn, ReadPlain, ReadWaiting, Handle, Push, Take, Sleep,
         Expire, GiveUp, Write, Respond, Leaves
<1>3. ASSUME ~Sleep(c) PROVE conn'[c].at # "asleep"
  <2>0. NoConn.at = "gone"
    BY DEF NoConn
  <2>1. CASE Admit(c) \/ Refuse(c) \/ Spawn(c) \/ ReadPlain(c) \/ Respond(c)
    BY <2>1, <2>0, <1>0 DEF Admit, Refuse, Spawn, ReadPlain, Respond, Leaves, Conns
  <2>2. CASE ReadWaiting(c)
    BY <2>2, <1>0 DEF ReadWaiting, Conns
  <2>3. CASE Push(c) \/ Take(c) \/ Expire(c)
    BY <2>3, <1>0 DEF Push, Take, Expire, Conns
  <2>4. CASE GiveUp(c)
    BY ZenonT(60), <2>4, <2>0, <1>0 DEF GiveUp, Conns, Leaves
  <2>5. CASE Write(c)
    BY <2>5, <2>0, <1>0 DEF Write, Conns, Leaves
  <2>6. QED
    BY <1>3, <2>1, <2>2, <2>3, <2>4, <2>5 DEF Client, Handle
<1>4. QED
  BY <1>1, <1>2, <1>3

LEMMA ClientWakes ==
    ASSUME PageTypeOK, NobodySleepsOnAFrame, NEW c \in Clients, Client(c)
    PROVE  NobodySleepsOnAFrame'
<1> SUFFICES ASSUME NEW d \in Clients, conn'[d].at = "asleep", frames'.seq > conn'[d].after
             PROVE  loop'.at = "notify"
  BY DEF NobodySleepsOnAFrame, Sleepers
<1>1. UNCHANGED <<loop, frames>>
  BY ClientStep
<1>2. CASE d # c
  <2>1. conn'[d] = conn[d]
    BY <1>2, ClientStep
  <2>2. QED
    BY <1>1, <2>1 DEF NobodySleepsOnAFrame, Sleepers
<1>3. CASE d = c
  <2>1. Sleep(c)
    BY <1>3, ClientStep
  <2>2. conn'[c].after = conn[c].after /\ frames.seq <= conn[c].after
    BY <2>1 DEF Sleep, PageTypeOK, Conns
  <2>3. frames.seq \in Nat /\ conn[c].after \in Nat
    BY DEF PageTypeOK, Conns, Frames
  <2>4. QED
    BY <1>1, <1>3, <2>2, <2>3
<1>4. QED
  BY <1>2, <1>3

\* No connection sleeps on a frame it has not had, except in the one step between
\* the frame's store and the wake-up of all (wait_for_frame against publish).
THEOREM SleepersAreWoken == Spec => []NobodySleepsOnAFrame
<1>1. Init => NobodySleepsOnAFrame
  BY DEF Init, NobodySleepsOnAFrame, Sleepers
<1>2. PageTypeOK /\ NobodySleepsOnAFrame /\ [Next]_vars => NobodySleepsOnAFrame'
  <2>1. NobodySleepsOnAFrame /\ UNCHANGED vars => NobodySleepsOnAFrame'
    BY DEF NobodySleepsOnAFrame, Sleepers, vars
  <2>2. QED
    BY <2>1, FrameLoopWakes, ClientWakes DEF Next, Client
<1>3. QED
  BY <1>1, <1>2, PageTypeCorrect, PTL DEF Spec

--------------------------------------------------------------------------------
(* The queue of commands.                                                  *)

LEMMA PrefixOfConcat ==
    ASSUME NEW s \in Seq(Clients), NEW t \in Seq(Clients), NEW u \in Seq(Clients), IsPrefix(s, t)
    PROVE  IsPrefix(s, t \o u)
  BY DEF IsPrefix

LEMMA PrefixOfItself == ASSUME NEW s \in Seq(Clients) PROVE IsPrefix(s, s)
  BY DEF IsPrefix

LEMMA PrefixOfPrefix ==
    ASSUME NEW s \in Seq(Clients), NEW t \in Seq(Clients), NEW u \in Seq(Clients),
           IsPrefix(s, t), IsPrefix(t, u)
    PROVE  IsPrefix(s, u)
  BY DEF IsPrefix

LEMMA AppendToConcat ==
    ASSUME NEW s \in Seq(Clients), NEW t \in Seq(Clients), NEW c \in Clients
    PROVE  Append(s \o t, c) = s \o Append(t, c)
  BY AppendIsConcat, ConcatAssociative

LEMMA CommandsStep ==
    ASSUME PageTypeOK, CommandsRunOnceInOrder, [Next]_vars PROVE CommandsRunOnceInOrder'
<1> USE DEF CommandsRunOnceInOrder
<1>0. /\ loop \in Loops /\ loop.shows \in Seq(Clients) /\ frames.shows \in Seq(Clients)
      /\ ran \in Seq(Clients) /\ commands \in Seq(Clients)
  BY DEF PageTypeOK, Loops, Frames
<1>1. CASE Compose
  <2>1. /\ ran' = ran \o commands /\ commands' = <<>> /\ loop'.shows = ran \o commands
        /\ UNCHANGED <<frames, asked>>
    BY <1>0, <1>1 DEF Compose, Loops
  <2>2. ran \o commands \in Seq(Clients) /\ ran' \o commands' = ran \o commands
    BY <1>0, <2>1
  <2>3. IsPrefix(frames.shows, ran \o commands)
    BY <1>0, PrefixOfPrefix, PrefixOfConcat
  <2>4. QED
    BY <2>1, <2>2, <2>3, PrefixOfItself
<1>2. CASE Count \/ Notify
  <2>1. loop'.shows = loop.shows /\ UNCHANGED <<ran, commands, frames, asked>>
    BY <1>0, <1>2 DEF Count, Notify, Loops
  <2>2. QED
    BY <2>1
<1>3. CASE Store
  <2>1. /\ loop'.shows = loop.shows /\ frames'.shows = loop.shows
        /\ UNCHANGED <<ran, commands, asked>>
    BY <1>0, <1>3 DEF Store, Loops
  <2>2. QED
    BY <1>0, <2>1, PrefixOfItself
<1>4. ASSUME NEW c \in Clients, Client(c) PROVE CommandsRunOnceInOrder'
  <2>1. UNCHANGED <<loop, frames, ran>>
    BY <1>4, ClientStep
  <2>2. CASE Push(c)
    <3>1. commands' = Append(commands, c) /\ asked' = Append(asked, c)
      BY <2>2 DEF Push
    <3>2. Append(ran \o commands, c) = ran \o Append(commands, c)
      BY <1>0, AppendToConcat
    <3>3. QED
      BY <2>1, <3>1, <3>2
  <2>3. CASE ~Push(c)
    <3>1. UNCHANGED <<commands, asked>>
      BY <1>4, <2>3 DEF Client, Admit, Refuse, Spawn, ReadPlain, ReadWaiting, Handle, Take,
                        Sleep, Expire, GiveUp, Write, Respond
    <3>2. QED
      BY <2>1, <3>1
  <2>4. QED
    BY <2>2, <2>3
<1>5. CASE UNCHANGED vars
  BY <1>5 DEF vars
<1>6. QED
  BY <1>1, <1>2, <1>3, <1>4, <1>5 DEF Next, FrameLoop, Client

\* Every command queued is run once and in the order of the queue, and no frame
\* shows more than was run (push_command against take_commands).
THEOREM CommandsOnce == Spec => []CommandsRunOnceInOrder
<1>1. Init => CommandsRunOnceInOrder
  BY DEF Init, CommandsRunOnceInOrder, IsPrefix, NoFrame
<1>2. QED
  BY <1>1, CommandsStep, PageTypeCorrect, PTL DEF Spec

--------------------------------------------------------------------------------
(* The limit on connections.                                               *)

Admitted == {c \in Clients : conn[c].at = "admitted"}

Refused == {c \in Clients : conn[c].at = "refused"}

Serving == {"reading", "push", "look", "asleep", "found"}

LEMMA ThreadsAre == Threads = {c \in Clients : conn[c].at \in Serving}
  BY DEF Threads, Waiting, Serving

\* Where a step may take a connection, by where it was.
LEMMA ClientMoves ==
    ASSUME PageTypeOK, NEW c \in Clients, Client(c)
    PROVE  \/ /\ conn[c].at = "away" /\ conn'[c].at = "admitted" /\ Admitted = {}
              /\ clients < MaxClients /\ UNCHANGED <<clients, refused>>
           \/ /\ conn[c].at = "away" /\ conn'[c].at = "refused"
              /\ refused' = refused + 1 /\ UNCHANGED clients
           \/ /\ conn[c].at = "admitted" /\ conn'[c].at \in Serving
              /\ clients' = clients + 1 /\ UNCHANGED refused
           \/ /\ conn[c].at \in Serving /\ conn'[c].at \in Serving
              /\ UNCHANGED <<clients, refused>>
           \/ /\ conn[c].at \in Serving /\ conn'[c].at = "gone"
              /\ clients' = clients - 1 /\ UNCHANGED refused
<1> USE DEF Serving
<1>0. conn[c] \in Conns /\ conn \in [Clients -> Conns] /\ NoConn.at = "gone"
  BY DEF PageTypeOK, NoConn
<1>1. CASE Admit(c)
  BY <1>0, <1>1 DEF Admit, Accepting, Admitted, Conns
<1>2. CASE Refuse(c)
  BY <1>0, <1>2 DEF Refuse, Conns
<1>3. CASE Spawn(c)
  BY <1>0, <1>3 DEF Spawn, Conns
<1>4. CASE ReadPlain(c) \/ Respond(c)
  BY <1>0, <1>4 DEF ReadPlain, Respond, Leaves
<1>5. CASE ReadWaiting(c)
  BY <1>0, <1>5 DEF ReadWaiting, Conns
<1>6. CASE Push(c) \/ Take(c) \/ Sleep(c) \/ Expire(c)
  BY <1>0, <1>6 DEF Push, Take, Sleep, Expire, Conns
<1>7. CASE GiveUp(c)
  BY <1>0, <1>7 DEF GiveUp, Leaves, Conns
<1>8. CASE Write(c)
  BY <1>0, <1>8 DEF Write, Leaves, Conns
<1>9. QED
  BY <1>1, <1>2, <1>3, <1>4, <1>5, <1>6, <1>7, <1>8 DEF Client, Handle

LEMMA ClientCounts ==
    ASSUME PageTypeOK, CountsAreTheThreads, NEW c \in Clients, Client(c)
    PROVE  CountsAreTheThreads'
<1> DEFINE T == Threads
           A == Admitted
           R == Refused
<1>1. IsFiniteSet(T) /\ IsFiniteSet(A) /\ IsFiniteSet(R)
  BY FS_Subset, ThreadsAre DEF Admitted, Refused
<1>2. /\ Cardinality(T) \in Nat /\ Cardinality(A) \in Nat /\ Cardinality(R) \in Nat
      /\ clients = Cardinality(T) /\ clients + Cardinality(A) <= MaxClients
      /\ refused = Cardinality(R) /\ Cardinality({}) = 0
  BY <1>1, FS_CardinalityType, FS_EmptySet DEF CountsAreTheThreads, Admitted, Refused
<1>3. /\ Cardinality(T \cup {c}) = IF c \in T THEN Cardinality(T) ELSE Cardinality(T) + 1
      /\ Cardinality(A \cup {c}) = IF c \in A THEN Cardinality(A) ELSE Cardinality(A) + 1
      /\ Cardinality(R \cup {c}) = IF c \in R THEN Cardinality(R) ELSE Cardinality(R) + 1
      /\ Cardinality(T \ {c}) = IF c \in T THEN Cardinality(T) - 1 ELSE Cardinality(T)
      /\ Cardinality(A \ {c}) = IF c \in A THEN Cardinality(A) - 1 ELSE Cardinality(A)
  BY <1>1, FS_AddElement, FS_RemoveElement
<1>4. \A d \in Clients \ {c} : conn'[d].at = conn[d].at
  BY ClientStep
<1>5. /\ T' = IF conn'[c].at \in Serving THEN T \cup {c} ELSE T \ {c}
      /\ A' = IF conn'[c].at = "admitted" THEN A \cup {c} ELSE A \ {c}
      /\ R' = IF conn'[c].at = "refused" THEN R \cup {c} ELSE R \ {c}
      /\ c \in T <=> conn[c].at \in Serving
      /\ c \in A <=> conn[c].at = "admitted"
      /\ c \in R <=> conn[c].at = "refused"
  BY <1>4, ThreadsAre DEF Threads, Waiting, Serving, Admitted, Refused
<1>6. c \notin R => R \ {c} = R
  OBVIOUS
<1>7. /\ clients' = Cardinality(T')
      /\ clients' + Cardinality(A') <= MaxClients
      /\ refused' = Cardinality(R')
  <2> HIDE DEF T, A, R
  <2>1. MaxClients \in Nat
    OBVIOUS
  <2>2. CASE /\ conn[c].at = "away" /\ conn'[c].at = "admitted" /\ Admitted = {}
             /\ clients < MaxClients /\ UNCHANGED <<clients, refused>>
    <3>1. A = {}
      BY <2>2 DEF A
    <3>2. T' = T \ {c} /\ A' = A \cup {c} /\ R' = R \ {c} /\ c \notin T /\ c \notin A /\ c \notin R
      BY <2>2, <1>5 DEF Serving
    <3>3. /\ Cardinality(T') = Cardinality(T) /\ Cardinality(R') = Cardinality(R)
          /\ Cardinality(A') = 1
      BY <3>1, <3>2, <1>2, <1>3, <1>6
    <3>4. QED
      BY <2>1, <2>2, <3>3, <1>2
  <2>3. CASE /\ conn[c].at = "away" /\ conn'[c].at = "refused"
             /\ refused' = refused + 1 /\ UNCHANGED clients
    <3>1. T' = T \ {c} /\ A' = A \ {c} /\ R' = R \cup {c} /\ c \notin T /\ c \notin A /\ c \notin R
      BY <2>3, <1>5 DEF Serving
    <3>2. QED
      BY <2>1, <2>3, <3>1, <1>2, <1>3
  <2>4. CASE /\ conn[c].at = "admitted" /\ conn'[c].at \in Serving
             /\ clients' = clients + 1 /\ UNCHANGED refused
    <3>1. T' = T \cup {c} /\ A' = A \ {c} /\ R' = R \ {c} /\ c \notin T /\ c \in A /\ c \notin R
      BY <2>4, <1>5 DEF Serving
    <3>2. /\ Cardinality(T') = Cardinality(T) + 1 /\ Cardinality(R') = Cardinality(R)
          /\ Cardinality(A') = Cardinality(A) - 1
      BY <3>1, <1>2, <1>3, <1>6
    <3>3. QED
      BY <2>1, <2>4, <3>2, <1>2
  <2>5. CASE /\ conn[c].at \in Serving /\ conn'[c].at \in Serving
             /\ UNCHANGED <<clients, refused>>
    <3>1. T' = T \cup {c} /\ A' = A \ {c} /\ R' = R \ {c} /\ c \in T /\ c \notin A /\ c \notin R
      BY <2>5, <1>5 DEF Serving
    <3>2. QED
      BY <2>1, <2>5, <3>1, <1>2, <1>3, <1>6
  <2>6. CASE /\ conn[c].at \in Serving /\ conn'[c].at = "gone"
             /\ clients' = clients - 1 /\ UNCHANGED refused
    <3>1. T' = T \ {c} /\ A' = A \ {c} /\ R' = R \ {c} /\ c \in T /\ c \notin A /\ c \notin R
      BY <2>6, <1>5 DEF Serving
    <3>2. /\ Cardinality(T') = Cardinality(T) - 1 /\ Cardinality(R') = Cardinality(R)
          /\ Cardinality(A') = Cardinality(A)
      BY <3>1, <1>2, <1>3, <1>6
    <3>3. QED
      BY <2>1, <2>6, <3>2, <1>2
  <2>7. QED
    BY <2>2, <2>3, <2>4, <2>5, <2>6, ClientMoves
<1>8. QED
  BY <1>7 DEF CountsAreTheThreads, Admitted, Refused

LEMMA FrameLoopCounts ==
    ASSUME PageTypeOK, CountsAreTheThreads, FrameLoop PROVE CountsAreTheThreads'
<1>1. \A d \in Clients : \/ conn'[d].at = conn[d].at
                         \/ conn[d].at = "asleep" /\ conn'[d].at = "look"
  <2>1. CASE Notify
    <3>1. \A d \in Clients : conn[d] \in Conns /\ [conn[d] EXCEPT !.at = "look"].at = "look"
      BY DEF PageTypeOK, Conns
    <3>2. conn' = [c \in Clients |->
                     IF c \in Sleepers THEN [conn[c] EXCEPT !.at = "look"] ELSE conn[c]]
      BY <2>1 DEF Notify
    <3>3. QED
      BY <3>1, <3>2 DEF Sleepers
  <2>2. CASE Compose \/ Count \/ Store
    BY <2>2 DEF Compose, Count, Store
  <2>3. QED
    BY <2>1, <2>2 DEF FrameLoop
<1>2. Threads' = Threads
  BY <1>1 DEF Threads, Waiting
<1>3. /\ {c \in Clients : conn'[c].at = "admitted"} = {c \in Clients : conn[c].at = "admitted"}
      /\ {c \in Clients : conn'[c].at = "refused"} = {c \in Clients : conn[c].at = "refused"}
  BY <1>1
<1>4. UNCHANGED <<clients, refused>>
  BY DEF FrameLoop, Compose, Count, Store, Notify
<1>5. QED
  BY <1>2, <1>3, <1>4 DEF CountsAreTheThreads

\* The count of connections is that of the threads, it never passes MAX_CLIENTS,
\* and every connection refused is counted (serve).
THEOREM LimitHolds == Spec => []CountsAreTheThreads
<1>1. Init => CountsAreTheThreads
  <2> SUFFICES ASSUME Init PROVE CountsAreTheThreads
    OBVIOUS
  <2>1. \A c \in Clients : conn[c].at = "away"
    BY DEF Init
  <2>2. /\ Threads = {} /\ {c \in Clients : conn[c].at = "admitted"} = {}
        /\ {c \in Clients : conn[c].at = "refused"} = {}
    BY <2>1 DEF Threads, Waiting
  <2>3. Cardinality({}) = 0 /\ clients = 0 /\ refused = 0 /\ MaxClients \in Nat
    BY FS_EmptySet DEF Init
  <2>4. /\ Cardinality(Threads) = 0 /\ Cardinality({c \in Clients : conn[c].at = "admitted"}) = 0
        /\ Cardinality({c \in Clients : conn[c].at = "refused"}) = 0
    BY <2>2, <2>3
  <2>5. QED
    BY <2>3, <2>4 DEF CountsAreTheThreads
<1>2. PageTypeOK /\ CountsAreTheThreads /\ [Next]_vars => CountsAreTheThreads'
  <2>1. CountsAreTheThreads /\ UNCHANGED vars => CountsAreTheThreads'
    BY DEF CountsAreTheThreads, Threads, Waiting, vars
  <2>2. QED
    BY <2>1, FrameLoopCounts, ClientCounts DEF Next, Client
<1>3. QED
  BY <1>1, <1>2, PageTypeCorrect, PTL DEF Spec

--------------------------------------------------------------------------------
(* The account of a stream.                                                *)

\* What was drawn and missed is nought until a stream opens, and only a command
\* is at the queue.
StreamsBegin ==
    \A c \in Clients :
        /\ conn[c].at \in {"away", "admitted", "refused", "reading"}
             => tally[c].drew = 0 /\ tally[c].missed = 0
        /\ conn[c].at = "push" => conn[c].kind = "act"

StreamInv == StreamsBegin /\ StreamsAddUp

LEMMA ClientStreams ==
    ASSUME PageTypeOK, StreamInv, NEW c \in Clients, Client(c) PROVE StreamInv'
<1> DEFINE Began(d) == /\ conn[d].at \in {"away", "admitted", "refused", "reading"}
                            => tally[d].drew = 0 /\ tally[d].missed = 0
                       /\ conn[d].at = "push" => conn[d].kind = "act"
           Adds(d) == conn[d].at \in {"look", "asleep", "found"} /\ conn[d].kind = "stream"
                        => conn[d].after - tally[d].opened = tally[d].drew + tally[d].missed
<1>1. StreamInv <=> \A d \in Clients : Began(d) /\ Adds(d)
  BY DEF StreamInv, StreamsBegin, StreamsAddUp, Streams, Waiting
<1>2. StreamInv' <=> \A d \in Clients : Began(d)' /\ Adds(d)'
  BY DEF StreamInv, StreamsBegin, StreamsAddUp, Streams, Waiting
<1>3. \A d \in Clients \ {c} : Began(d)' /\ Adds(d)'
  BY <1>1, ClientStep
<1>4. Began(c) /\ Adds(c)
  BY <1>1
<1>0. /\ conn[c] \in Conns /\ conn \in [Clients -> Conns]
      /\ tally[c] \in Tallies /\ tally \in [Clients -> Tallies] /\ published \in Nat
      /\ NoConn.at = "gone" /\ conn[c].after \in Nat /\ tally[c].opened \in Int
      /\ tally[c].drew \in Int /\ tally[c].missed \in Int /\ conn[c].taken.seq \in Nat
  BY DEF PageTypeOK, NoConn, Conns, Tallies, Frames
<1>5. Began(c)' /\ Adds(c)'
  <2>1. CASE Admit(c) \/ Refuse(c) \/ Spawn(c)
    BY <2>1, <1>0, <1>4 DEF Admit, Refuse, Spawn, Conns
  <2>2. CASE ReadPlain(c) \/ Respond(c)
    BY <2>2, <1>0 DEF ReadPlain, Respond, Leaves
  <2>3. CASE ReadWaiting(c)
    <3>1. /\ conn'[c].after = published /\ tally'[c].opened = published
          /\ tally'[c].drew = 0 /\ tally'[c].missed = 0
          /\ conn'[c].at = "push" => conn'[c].kind = "act"
          /\ conn'[c].at \in {"push", "look"}
      <4>1. PICK k \in Asks[c] \ {"plain"} :
              conn' = [conn EXCEPT ![c].kind = k, ![c].after = published,
                                   ![c].at = IF k = "act" THEN "push" ELSE "look"]
        BY <2>3 DEF ReadWaiting
      <4>2. /\ tally' = [tally EXCEPT ![c].opened = published] /\ conn[c].at = "reading"
        BY <2>3 DEF ReadWaiting
      <4>3. tally[c].drew = 0 /\ tally[c].missed = 0
        BY <1>4, <4>2
      <4>4. tally'[c].opened = published /\ tally'[c].drew = 0 /\ tally'[c].missed = 0
        BY <4>2, <4>3, <1>0 DEF Tallies
      <4>5. /\ conn'[c].kind = k /\ conn'[c].after = published
            /\ conn'[c].at = IF k = "act" THEN "push" ELSE "look"
        BY <4>1, <1>0 DEF Conns
      <4>6. QED
        BY <4>4, <4>5
    <3>2. QED
      BY <3>1, <1>0
  <2>4. CASE Push(c)
    BY <2>4, <1>0, <1>4 DEF Push, Conns
  <2>5. CASE Take(c) \/ Sleep(c) \/ Expire(c)
    BY <2>5, <1>0, <1>4 DEF Take, Sleep, Expire, Conns
  <2>6. CASE GiveUp(c)
    BY <2>6, <1>0, <1>4 DEF GiveUp, Leaves, Conns
  <2>7. CASE Write(c)
    <3>1. CASE Leaves(c)
      BY <3>1, <1>0 DEF Leaves
    <3>2. CASE ~Leaves(c)
      <4>1. /\ conn' = [conn EXCEPT ![c].after = conn[c].taken.seq, ![c].taken = NoFrame,
                                    ![c].late = FALSE, ![c].at = "look"]
            /\ tally' = [tally EXCEPT ![c].missed = tally[c].missed + Missed(c),
                                      ![c].drew = tally[c].drew + 1]
            /\ conn[c].at = "found" /\ conn[c].kind = "stream"
        BY <2>7, <3>2 DEF Write
      <4>2. conn'[c].after = conn[c].taken.seq /\ conn'[c].at = "look"
        BY <4>1, <1>0 DEF Conns
      <4>3. /\ tally'[c].opened = tally[c].opened
            /\ tally'[c].missed = tally[c].missed + Missed(c)
            /\ tally'[c].drew = tally[c].drew + 1
        BY <4>1, <1>0 DEF Tallies
      <4>4. conn[c].after - tally[c].opened = tally[c].drew + tally[c].missed
        BY <1>4, <4>1
      <4>5. QED
        BY <4>2, <4>3, <4>4, <1>0 DEF Missed
    <3>3. QED
      BY <3>1, <3>2
  <2>8. QED
    BY <2>1, <2>2, <2>3, <2>4, <2>5, <2>6, <2>7 DEF Client, Handle
<1>6. QED
  BY <1>2, <1>3, <1>5

LEMMA FrameLoopStreams ==
    ASSUME PageTypeOK, StreamInv, FrameLoop PROVE StreamInv'
<1>1. /\ tally' = tally
      /\ \A d \in Clients : /\ conn'[d].kind = conn[d].kind /\ conn'[d].after = conn[d].after
                           /\ \/ conn'[d].at = conn[d].at
                              \/ conn[d].at = "asleep" /\ conn'[d].at = "look"
  <2>1. CASE Notify
    <3>1. \A d \in Clients :
            /\ [conn[d] EXCEPT !.at = "look"].at = "look"
            /\ [conn[d] EXCEPT !.at = "look"].kind = conn[d].kind
            /\ [conn[d] EXCEPT !.at = "look"].after = conn[d].after
      BY DEF PageTypeOK, Conns
    <3>2. QED
      BY <2>1, <3>1 DEF Notify, Sleepers
  <2>2. QED
    BY <2>1 DEF FrameLoop, Compose, Count, Store
<1>2. QED
  BY <1>1 DEF StreamInv, StreamsBegin, StreamsAddUp, Streams, Waiting

\* A stream drew or missed every frame there was since it opened, each once
\* (stream_events).
THEOREM StreamsAreAccounted == Spec => []StreamsAddUp
<1>1. Init => StreamInv
  BY DEF Init, StreamInv, StreamsBegin, StreamsAddUp, Streams, Waiting
<1>2. PageTypeOK /\ StreamInv /\ [Next]_vars => StreamInv'
  <2>1. StreamInv /\ UNCHANGED vars => StreamInv'
    BY DEF StreamInv, StreamsBegin, StreamsAddUp, Streams, Waiting, vars
  <2>2. QED
    BY <2>1, FrameLoopStreams, ClientStreams DEF Next, Client
<1>3. StreamInv => StreamsAddUp
  BY DEF StreamInv
<1>4. QED
  BY <1>1, <1>2, <1>3, PageTypeCorrect, PTL DEF Spec

--------------------------------------------------------------------------------
(* The frames dropped for all streams together.                            *)

MissedBy == [c \in Clients |-> tally[c].missed]

\* A frame is taken because it is newer, so what a stream missed is never less
\* than nothing.
DropInv ==
    /\ \A c \in Clients : /\ tally[c].missed \in Nat
                          /\ conn[c].at = "found" => conn[c].taken.seq > conn[c].after
    /\ IsFiniteSet(MissedByAll)
    /\ dropped = Cardinality(MissedByAll)

LEMMA MissedAreUnits == MissedByAll = UnitsOf(Clients, MissedBy)
BY DEF MissedByAll, MissedBy, UnitsOf

LEMMA InitDrops == Init => DropInv
<1> SUFFICES ASSUME Init PROVE DropInv
  OBVIOUS
<1>1. \A c \in Clients : tally[c].missed = 0 /\ conn[c].at = "away"
  BY DEF Init
<1>2. \A c \in Clients : MissedBy[c] = 0
  BY <1>1 DEF MissedBy
<1>3. IsFiniteSet(MissedByAll) /\ Cardinality(MissedByAll) = 0
  BY <1>2, MissedAreUnits, NoUnits
<1> QED BY <1>1, <1>3 DEF DropInv, Init

\* A step that counts nothing.
LEMMA DropsUntouched ==
    ASSUME DropInv, dropped' = dropped, \A c \in Clients : tally'[c].missed = tally[c].missed,
           \A c \in Clients : conn'[c].at = "found" => conn'[c].taken.seq > conn'[c].after
    PROVE  DropInv'
<1>1. MissedByAll' = MissedByAll
  BY DEF MissedByAll
<1> QED BY <1>1 DEF DropInv

LEMMA WriteDrops ==
    ASSUME PageTypeOK, DropInv, NEW c \in Clients, Write(c)
    PROVE  DropInv'
<1> DEFINE k == Missed(c)
           f == MissedBy
           g == [d \in Clients |-> tally'[d].missed]
<1>1. /\ conn \in [Clients -> Conns] /\ conn[c] \in Conns /\ tally[c] \in Tallies
      /\ tally \in [Clients -> Tallies] /\ conn[c].taken.seq \in Nat /\ conn[c].after \in Nat
      /\ NoConn.at = "gone"
  BY DEF PageTypeOK, Conns, Frames, NoConn
<1>2. k \in Nat
  BY <1>1 DEF Write, DropInv, Missed
<1>3. \A d \in Clients : tally'[d].missed = IF d = c THEN tally[d].missed + k ELSE tally[d].missed
  BY <1>1 DEF Write, Tallies
<1>4. \A d \in Clients : conn'[d].at = "found" => conn'[d].taken.seq > conn'[d].after
  <2>1. conn'[c].at # "found"
    BY <1>1 DEF Write, Leaves, Conns
  <2>2. \A d \in Clients \ {c} : conn'[d] = conn[d]
    BY <1>1 DEF Write, Leaves
  <2> QED BY <2>1, <2>2 DEF DropInv
<1> HIDE DEF k
<1>5. f \in [Clients -> Nat] /\ g \in [Clients -> Nat]
      /\ \A d \in Clients : g[d] = IF d = c THEN f[d] + k ELSE f[d]
  BY <1>2, <1>3 DEF MissedBy, DropInv
<1>6. MissedByAll = UnitsOf(Clients, f) /\ MissedByAll' = UnitsOf(Clients, g)
  BY MissedAreUnits DEF MissedByAll, UnitsOf
<1>7. IsFiniteSet(UnitsOf(Clients, f)) /\ dropped = Cardinality(UnitsOf(Clients, f))
  BY <1>6 DEF DropInv
<1>8. dropped' = dropped + k
  BY DEF Write, k
<1> HIDE DEF f, g
<1>9. /\ IsFiniteSet(UnitsOf(Clients, g))
      /\ Cardinality(UnitsOf(Clients, g)) = Cardinality(UnitsOf(Clients, f)) + k
  <2>1. f \in [Clients -> Nat]
    BY <1>5
  <2>2. g = GrownAt(Clients, f, c, k)
    BY <1>5 DEF GrownAt
  <2>3. IsFiniteSet(UnitsOf(Clients, f))
    BY <1>7
  <2> QED BY <1>2, <2>1, <2>2, <2>3, UnitsGrow
<1>10. \A d \in Clients : tally'[d].missed \in Nat
  BY <1>2, <1>3 DEF DropInv
<1> QED BY <1>4, <1>6, <1>7, <1>8, <1>9, <1>10 DEF DropInv

LEMMA ClientDrops ==
    ASSUME PageTypeOK, DropInv, NEW c \in Clients, Client(c)
    PROVE  DropInv'
<1>1. CASE Write(c)
  BY <1>1, WriteDrops
<1>2. CASE ~Write(c)
  <2>1. /\ conn \in [Clients -> Conns] /\ conn[c] \in Conns /\ tally \in [Clients -> Tallies]
        /\ tally[c] \in Tallies /\ NoConn.at = "gone"
    BY DEF PageTypeOK, NoConn
  <2>2. dropped' = dropped /\ \A d \in Clients : tally'[d].missed = tally[d].missed
    <3>1. CASE ReadWaiting(c)
      <4>1. dropped' = dropped /\ tally' = [tally EXCEPT ![c].opened = published]
        BY <3>1 DEF ReadWaiting
      <4>2. tally'[c].missed = tally[c].missed /\ \A d \in Clients \ {c} : tally'[d] = tally[d]
        BY <2>1, <4>1 DEF Tallies
      <4> QED BY <4>1, <4>2
    <3>2. CASE ~ReadWaiting(c)
      <4>1. dropped' = dropped /\ tally' = tally
        BY <1>2, <3>2 DEF Client, Admit, Refuse, Spawn, ReadPlain, Handle, Push, Take, Sleep,
           Expire, GiveUp, Respond
      <4> QED BY <4>1
    <3> QED BY <3>1, <3>2
  <2>3. \A d \in Clients \ {c} : conn'[d] = conn[d]
    BY ClientStep
  <2>4. conn'[c].at = "found" => conn'[c].taken.seq > conn'[c].after
    <3>1. CASE Take(c)
      <4>1. /\ frames.seq > conn[c].after
            /\ conn' = [conn EXCEPT ![c].taken = frames, ![c].at = "found"]
        BY <3>1 DEF Take
      <4>2. conn'[c].taken = frames /\ conn'[c].after = conn[c].after
        BY <2>1, <4>1 DEF Conns
      <4> QED BY <4>1, <4>2
    <3>2. CASE Admit(c) \/ Refuse(c) \/ Spawn(c) \/ ReadPlain(c) \/ Respond(c)
      BY <3>2, <2>1 DEF Admit, Refuse, Spawn, ReadPlain, Respond, Leaves, Conns
    <3>3. CASE ReadWaiting(c)
      BY <3>3, <2>1 DEF ReadWaiting, Conns
    <3>4. CASE Push(c) \/ Sleep(c) \/ Expire(c)
      BY <3>4, <2>1 DEF Push, Sleep, Expire, Conns
    <3>5. CASE GiveUp(c)
      BY <3>5, <2>1 DEF GiveUp, Conns, Leaves
    <3> QED BY <1>2, <3>1, <3>2, <3>3, <3>4, <3>5 DEF Client, Handle
  <2> QED BY <2>2, <2>3, <2>4, DropsUntouched DEF DropInv
<1> QED BY <1>1, <1>2

LEMMA FrameLoopDrops ==
    ASSUME PageTypeOK, DropInv, FrameLoop
    PROVE  DropInv'
<1>1. dropped' = dropped /\ tally' = tally
  BY DEF FrameLoop, Compose, Count, Store, Notify
<1>2. \A d \in Clients : conn'[d].at = "found" => conn'[d] = conn[d]
  <2>1. CASE Notify
    <3>1. \A d \in Clients : [conn[d] EXCEPT !.at = "look"].at = "look"
      BY DEF PageTypeOK, Conns
    <3> QED BY <2>1, <3>1 DEF Notify
  <2> QED BY <2>1 DEF FrameLoop, Compose, Count, Store
<1> QED BY <1>1, <1>2, DropsUntouched DEF DropInv

\* Nobody sleeps on a frame, the counts that /health prints are so, and every
\* command is run once, in the order of the queue (wait_for_frame, serve,
\* stream_events and push_command).
THEOREM HandOverStaysExact == Spec => []HandOverIsExact
<1>1. PageTypeOK /\ DropInv /\ [Next]_vars => DropInv'
  <2>1. DropInv /\ UNCHANGED vars => DropInv'
    BY DropsUntouched DEF DropInv, vars
  <2>2. QED
    BY <2>1, FrameLoopDrops, ClientDrops DEF Next, Client
<1>2. Spec => []DropInv
  BY <1>1, InitDrops, PageTypeCorrect, PTL DEF Spec
<1>3. DropInv /\ NobodySleepsOnAFrame /\ CountsAreTheThreads /\ StreamsAddUp /\ CommandsRunOnceInOrder
        => HandOverIsExact
  BY DEF DropInv, HandOverIsExact, HealthIsTrue
<1>4. QED
  BY <1>2, <1>3, SleepersAreWoken, LimitHolds, StreamsAreAccounted, CommandsOnce, PTL
================================================================================
