--------------------------------- MODULE Feedd ---------------------------------
(***************************************************************************)
(* The feed daemon: rust/ob-cli/src/bin/feedd.rs and ingest.rs.  A thread  *)
(* per connection reads records from its socket and sends them over one    *)
(* bounded channel to the publishing thread, which writes each to the      *)
(* ring, the log and the cache.  The log is the module Wal.                *)
(*                                                                         *)
(* A record crosses the socket in two halves, so that a read can end in    *)
(* the middle of one.  Record n of connection c is [from |-> c, num |-> n].*)
(* A connection is used once; a client that reconnects is another one.     *)
(***************************************************************************)
EXTENDS Wal, Sift

CONSTANTS
    Conns,          \* connections
    Bad,            \* the records <<c, n>> that do not decode
    BadHeader,      \* those of them that fail at the header already
    QueueLen,       \* INGEST_QUEUE, 65536 in the code
    SocketLen,      \* halves a socket buffers
    MaxSent,        \* MaxSent[c]: bound on the records sent on connection c
    MaxStarts       \* bound on the starts of the daemon

ASSUME FeeddAssumption ==
    /\ QueueLen \in Nat \ {0}
    /\ SocketLen \in Nat \ {0}
    /\ MaxSent \in [Conns -> Nat]
    /\ MaxStarts \in Nat
    /\ BadHeader \subseteq Bad
    /\ \A c \in Conns : \A n \in 1 .. MaxSent[c] : [from |-> c, num |-> n] \in Record
    /\ Truncates = {TRUE}

VARIABLES
    sent,           \* sent[c]: records the client has written
    link,           \* link[c]: the client's end of the connection
    socket,         \* socket[c]: halves written and not yet read
    cpc,            \* cpc[c]: where the connection's thread is
    pending,        \* pending[c]: halves read and not yet decoded
    out,            \* out[c]: records decoded and not yet sent to the channel
    running,        \* RUNNING
    chan,           \* the channel
    accepted,       \* counters.accepted
    ppc,            \* where the main thread is; "down" when there is no process
    hand,           \* the record the publisher has in hand, if it has one
    published,      \* what the ring was given, in order
    id,             \* the correlation counter given to the last one
    cached,         \* what the cache was given, in order
    starts

clientVars == <<sent, link, socket>>
threadVars == <<cpc, pending, out>>
mainVars   == <<ppc, hand, published, id, cached, starts>>
vars == <<clientVars, threadVars, running, chan, accepted, mainVars, walVars>>

Halves == [num : Nat, part : {1, 2}]

ThreadPCs == {"none", "top", "read", "send", "count", "gone", "lost"}
MainPCs   == {"down", "opening", "binding", "check", "recv", "stamp", "ring", "log",
              "logged", "join", "sync", "exit", "failed"}

TypeOK ==
    /\ WalTypeOK
    /\ sent \in [Conns -> Nat]
    /\ link \in [Conns -> {"none", "open", "closed"}]
    /\ socket \in [Conns -> Seq(Halves)]
    /\ cpc \in [Conns -> ThreadPCs]
    /\ pending \in [Conns -> Seq(Halves)]
    /\ out \in [Conns -> Seq(Record)]
    /\ running \in BOOLEAN
    /\ chan \in Seq(Record)
    /\ accepted \in Nat
    /\ ppc \in MainPCs
    /\ hand = <<>> \/ \E m \in Record : hand = <<m>>
    /\ published \in Seq(Record)
    /\ id \in Nat
    /\ cached \in Seq(Record)
    /\ starts \in Nat

Init ==
    /\ WalInit
    /\ sent = [c \in Conns |-> 0]
    /\ link = [c \in Conns |-> "none"]
    /\ socket = [c \in Conns |-> <<>>]
    /\ cpc = [c \in Conns |-> "none"]
    /\ pending = [c \in Conns |-> <<>>]
    /\ out = [c \in Conns |-> <<>>]
    /\ running = FALSE
    /\ chan = <<>>
    /\ accepted = 0
    /\ ppc = "down"
    /\ hand = <<>>
    /\ published = <<>>
    /\ id = 0
    /\ cached = <<>>
    /\ starts = 0

--------------------------------------------------------------------------------
(* The clients.                                                            *)

\* A client writes a record, as feed_adapter.py does, in one call.
ClientSend(c) ==
    /\ link[c] = "open"
    /\ sent[c] < MaxSent[c]
    /\ Len(socket[c]) + 2 <= SocketLen
    /\ socket' = [socket EXCEPT ![c] =
            @ \o <<[num |-> sent[c] + 1, part |-> 1], [num |-> sent[c] + 1, part |-> 2]>>]
    /\ sent' = [sent EXCEPT ![c] = @ + 1]
    /\ UNCHANGED <<link, threadVars, running, chan, accepted, mainVars, walVars>>

\* The client closes, in the middle of a record or not, or its connection breaks.
ClientClose(c) ==
    /\ link[c] = "open"
    /\ link' = [link EXCEPT ![c] = "closed"]
    /\ UNCHANGED <<sent, socket, threadVars, running, chan, accepted, mainVars, walVars>>

--------------------------------------------------------------------------------
(* accept_loop and serve.                                                  *)

Serving == ppc \notin {"down", "opening", "binding"}

Accept(c) ==
    /\ Serving /\ running
    /\ link[c] = "none"
    /\ link' = [link EXCEPT ![c] = "open"]
    /\ cpc' = [cpc EXCEPT ![c] = "top"]
    /\ UNCHANGED <<sent, socket, pending, out, running, chan, accepted, mainVars, walVars>>

ServeTop(c) ==
    /\ cpc[c] = "top"
    /\ cpc' = [cpc EXCEPT ![c] = IF running THEN "read" ELSE "gone"]
    /\ UNCHANGED <<clientVars, pending, out, running, chan, accepted, mainVars, walVars>>

RecordOf(c, n) == [from |-> c, num |-> n]

Frames(p) == [i \in 1 .. Len(p) \div 2 |-> <<p[2 * i - 1], p[2 * i]>>]

HeaderOk(c, f) == f[1].part = 1 /\ <<c, f[1].num>> \notin BadHeader

Decodes(c, f) ==
    /\ HeaderOk(c, f)
    /\ f[2].part = 2 /\ f[1].num = f[2].num
    /\ <<c, f[1].num>> \notin Bad

\* stream_records: all the whole records, when the last of them has a good
\* header, or else those before the first that has not.
StreamRecords(c, p) ==
    LET f == Frames(p) IN
    IF f = <<>> \/ HeaderOk(c, f[Len(f)])
    THEN Len(f)
    ELSE CHOOSE n \in 0 .. Len(f) - 1 :
            ~HeaderOk(c, f[n + 1]) /\ \A i \in 1 .. n : HeaderOk(c, f[i])

\* A variant that forgets what is left over at the end of a read.
RestForgotten(c, p) == <<>>

\* What is left over of the halves read.
Rest(c, p) == SubSeq(p, 2 * StreamRecords(c, p) + 1, Len(p))

\* The records in p that decode, in order.
Good(c, p) ==
    LET f == Frames(p)
    IN  Picked([i \in DOMAIN f |-> RecordOf(c, f[i][1].num)], {i \in DOMAIN f : Decodes(c, f[i])})

\* decode_batch, of the records the stream holds.
Decoded(c, p) == Good(c, SubSeq(p, 1, 2 * StreamRecords(c, p)))

\* A read returns some of what has arrived, and its whole records are decoded.
ServeRead(c) ==
    /\ cpc[c] = "read"
    /\ \E n \in 1 .. Len(socket[c]) :
        LET got == pending[c] \o SubSeq(socket[c], 1, n) IN
        /\ socket' = [socket EXCEPT ![c] = SubSeq(@, n + 1, Len(@))]
        /\ pending' = [pending EXCEPT ![c] = Rest(c, got)]
        /\ out' = [out EXCEPT ![c] = Decoded(c, got)]
        /\ cpc' = [cpc EXCEPT ![c] = IF Decoded(c, got) = <<>> THEN "top" ELSE "send"]
    /\ UNCHANGED <<sent, link, running, chan, accepted, mainVars, walVars>>

\* A read of nothing once everything was read, or an error before: the thread
\* ends, and a partial record with it.
ServeEnd(c) ==
    /\ cpc[c] = "read"
    /\ link[c] = "closed"
    /\ cpc' = [cpc EXCEPT ![c] = "gone"]
    /\ UNCHANGED <<clientVars, pending, out, running, chan, accepted, mainVars, walVars>>

\* A variant that gives a record up when the channel is full.
ServeSendOrDrop(c) ==
    /\ cpc[c] = "send"
    /\ chan' = IF Len(chan) < QueueLen THEN Append(chan, Head(out[c])) ELSE chan
    /\ out' = [out EXCEPT ![c] = Tail(@)]
    /\ cpc' = [cpc EXCEPT ![c] = "count"]
    /\ UNCHANGED <<clientVars, pending, running, accepted, mainVars, walVars>>

\* tx.send: blocks while the channel is full.
ServeSend(c) ==
    /\ cpc[c] = "send"
    /\ Len(chan) < QueueLen
    /\ chan' = Append(chan, Head(out[c]))
    /\ out' = [out EXCEPT ![c] = Tail(@)]
    /\ cpc' = [cpc EXCEPT ![c] = "count"]
    /\ UNCHANGED <<clientVars, pending, running, accepted, mainVars, walVars>>

\* counters.accepted, after the record is already with the publisher.
ServeCount(c) ==
    /\ cpc[c] = "count"
    /\ accepted' = accepted + 1
    /\ cpc' = [cpc EXCEPT ![c] = IF out[c] = <<>> THEN "top" ELSE "send"]
    /\ UNCHANGED <<clientVars, pending, out, running, chan, mainVars, walVars>>

Serve(c) == ServeTop(c) \/ ServeRead(c) \/ ServeEnd(c) \/ ServeSend(c) \/ ServeCount(c)

--------------------------------------------------------------------------------
(* The main thread.                                                        *)

\* The process ends: its threads, its channel and its connections go with it.
ProcessEnds ==
    /\ ppc' = "down"
    /\ running' = FALSE
    /\ chan' = <<>>
    /\ cpc' = [c \in Conns |-> IF link[c] = "none" THEN "none" ELSE "lost"]
    /\ link' = [c \in Conns |-> IF link[c] = "none" THEN "none" ELSE "closed"]
    /\ sent' = [c \in Conns |-> 0]
    /\ socket' = [c \in Conns |-> <<>>]
    /\ pending' = [c \in Conns |-> <<>>]
    /\ out' = [c \in Conns |-> <<>>]
    /\ accepted' = 0
    /\ hand' = <<>>
    /\ id' = 0
    /\ cached' = <<>>
    /\ UNCHANGED starts

\* Ring::create: the ring of the run before is gone.
StartRing ==
    /\ ppc = "down"
    /\ starts < MaxStarts
    /\ starts' = starts + 1
    /\ published' = <<>>
    /\ running' = TRUE
    /\ ppc' = "opening"
    /\ UNCHANGED <<clientVars, threadVars, chan, accepted, hand, id, cached, walVars>>

\* Wal::open with truncate.
StartLog ==
    /\ ppc = "opening"
    /\ WalOpen
    /\ ppc' = "binding"
    /\ UNCHANGED <<clientVars, threadVars, running, chan, accepted, hand, published, id, cached, starts>>

\* bind, and the threads.
StartServing ==
    /\ ppc = "binding"
    /\ ppc' = "check"
    /\ UNCHANGED <<clientVars, threadVars, running, chan, accepted, hand, published, id, cached, starts, walVars>>

\* The port is taken, after the ring and the log were truncated.
StartFails ==
    /\ ppc = "binding"
    /\ WalDrop
    /\ ProcessEnds
    /\ UNCHANGED published

LoopCheck ==
    /\ ppc = "check"
    /\ ppc' = IF running THEN "recv" ELSE "join"
    /\ UNCHANGED <<clientVars, threadVars, running, chan, accepted, hand, published, id, cached, starts, walVars>>

Recv ==
    /\ ppc = "recv"
    /\ chan # <<>>
    /\ hand' = <<Head(chan)>>
    /\ chan' = Tail(chan)
    /\ ppc' = "stamp"
    /\ UNCHANGED <<clientVars, threadVars, running, accepted, published, id, cached, starts, walVars>>

AllHungUp == ~running /\ \A c \in Conns : cpc[c] \in {"none", "gone", "lost"}

\* A variant that waits for a record with no timeout.
RecvNoTimeout ==
    /\ ppc = "recv"
    /\ chan = <<>>
    /\ AllHungUp
    /\ ppc' = "join"
    /\ UNCHANGED <<clientVars, threadVars, running, chan, accepted, hand, published, id, cached, starts, walVars>>

\* recv_timeout gives up after a tick, or finds that every sender has gone.
RecvNothing ==
    /\ ppc = "recv"
    /\ chan = <<>>
    /\ \/ ppc' = "check"
       \/ AllHungUp /\ ppc' = "join"
    /\ UNCHANGED <<clientVars, threadVars, running, chan, accepted, hand, published, id, cached, starts, walVars>>

\* publish_one: the correlation counter, the ring, the log, the cache.
Stamp ==
    /\ ppc = "stamp"
    /\ id' = accepted + 1
    /\ ppc' = "ring"
    /\ UNCHANGED <<clientVars, threadVars, running, chan, accepted, hand, published, cached, starts, walVars>>

PublishRing ==
    /\ ppc = "ring"
    /\ published' = Append(published, hand[1])
    /\ ppc' = "log"
    /\ UNCHANGED <<clientVars, threadVars, running, chan, accepted, hand, id, cached, starts, walVars>>

\* A variant that goes on after a record could not be logged.
PublishLogRegardless ==
    /\ ppc = "log"
    /\ WalWrite(hand[1]) \/ UNCHANGED walVars
    /\ ppc' = "logged"
    /\ UNCHANGED <<clientVars, threadVars, running, chan, accepted, hand, published, id, cached, starts>>

PublishLog ==
    /\ ppc = "log"
    /\ \/ WalWrite(hand[1]) /\ ppc' = "logged"
       \/ WalWriteFails /\ ppc' = "failed"
    /\ UNCHANGED <<clientVars, threadVars, running, chan, accepted, hand, published, id, cached, starts>>

PublishSync ==
    /\ ppc = "logged"
    /\ handle = "sync"
    /\ \/ WalSyncOwed /\ UNCHANGED ppc
       \/ WalSyncFails /\ ppc' = "failed"
    /\ UNCHANGED <<clientVars, threadVars, running, chan, accepted, hand, published, id, cached, starts>>

PublishCache ==
    /\ ppc = "logged"
    /\ handle = "open"
    /\ cached' = Append(cached, hand[1])
    /\ hand' = <<>>
    /\ ppc' = "check"
    /\ UNCHANGED <<clientVars, threadVars, running, chan, accepted, published, id, starts, walVars>>

\* The subscriber threads see their flag on the next turn of their loops and
\* are joined.
Join ==
    /\ ppc = "join"
    /\ ppc' = "sync"
    /\ UNCHANGED <<clientVars, threadVars, running, chan, accepted, hand, published, id, cached, starts, walVars>>

\* A variant that leaves the last records to the operating system.
FinalSyncSkipped ==
    /\ ppc = "sync"
    /\ ppc' = "exit"
    /\ UNCHANGED <<clientVars, threadVars, running, chan, accepted, hand, published, id, cached, starts, walVars>>

FinalSync ==
    /\ ppc = "sync"
    /\ \/ WalSync /\ ppc' = "exit"
       \/ WalSyncFails /\ ppc' = "failed"
    /\ UNCHANGED <<clientVars, threadVars, running, chan, accepted, hand, published, id, cached, starts>>

\* main returns, or leaves with an error.  Both drop the log's handle.
Exit ==
    /\ ppc \in {"exit", "failed"}
    /\ WalDrop
    /\ ProcessEnds
    /\ UNCHANGED published

PublishStep ==
    \/ LoopCheck \/ Recv \/ RecvNothing \/ Stamp \/ PublishRing \/ PublishLog
    \/ PublishSync \/ PublishCache \/ Join \/ FinalSync \/ Exit

--------------------------------------------------------------------------------
(* What happens to the process.                                            *)

\* SIGINT or SIGTERM, from obctl.
Signal ==
    /\ ppc # "down" /\ running
    /\ running' = FALSE
    /\ UNCHANGED <<clientVars, threadVars, chan, accepted, mainVars, walVars>>

\* Killed: the ring file and the log file stay as they are.
Killed ==
    /\ ppc # "down"
    /\ WalKilled \/ (handle = "closed" /\ UNCHANGED walVars)
    /\ ProcessEnds
    /\ UNCHANGED published

\* The machine goes down, and with it the ring, which is never synced.
MachineCrash ==
    /\ starts > 0
    /\ WalMachineCrash
    /\ ProcessEnds
    /\ published' = <<>>

Writeback ==
    /\ WalWriteback
    /\ UNCHANGED <<clientVars, threadVars, running, chan, accepted, mainVars>>

Next ==
    \/ \E c \in Conns :
        ClientSend(c) \/ ClientClose(c) \/ Accept(c) \/ Serve(c)
    \/ StartRing \/ StartLog \/ StartServing \/ StartFails
    \/ PublishStep
    \/ Signal \/ Killed \/ MachineCrash \/ Writeback

Spec == Init /\ [][Next]_vars

\* The scheduler runs every thread that can run.  Nothing is assumed of the
\* clients, of the signals or of the crashes.
Fairness ==
    /\ WF_vars(PublishStep)
    /\ \A c \in Conns : WF_vars(Serve(c))

LiveSpec == Spec /\ Fairness

--------------------------------------------------------------------------------
(* Properties.                                                             *)

OneBehind(s, t) == Len(t) = Len(s) + 1 /\ SubSeq(t, 1, Len(s)) = s

\* The ring, the log and the cache hold the same records in the same order: the
\* log is the ring or one record behind it, and the cache is the log or one
\* record behind it ("in the same order, for every record", feedd.rs).  It is so
\* too after a kill or a failed write, until the next start.
OneOrder ==
    /\ published # <<>> =>
        file = published \/ OneBehind(file, published)
    /\ Serving =>
        cached = file \/ OneBehind(cached, file)

From(c) == {m \in Record : m.from = c}

Decodable == {m \in Record : <<m.from, m.num>> \notin Bad}

InHand == IF ppc \in {"stamp", "ring"} THEN hand ELSE <<>>

\* Records b + 1 to b + k of connection c.
Records(c, b, k) == [i \in 1 .. k |-> RecordOf(c, b + i)]

\* The whole records that connection c's thread has read, less those that do
\* not decode.
Received(c) == Sift(Records(c, 0, sent[c] - (Len(socket[c]) + 1) \div 2), Decodable)

\* Every good record that was read is published, in hand, in the channel, about
\* to be sent to it or held back behind a bad header, once and in the order of
\* its connection: no read that ends in the middle of a record, no full channel
\* and no bad record loses, repeats or reorders one.
ReceivedIsOnItsWay ==
    \A c \in Conns : cpc[c] \notin {"none", "lost"} =>
        Sift(published \o InHand \o chan, From(c)) \o out[c] \o Good(c, pending[c]) = Received(c)

\* The way in is exact, and every variable has its type: the disk never holds
\* more of the log than was written, and the daemon has one record in hand.
IntakeIsExact == TypeOK /\ ReceivedIsOnItsWay

\* A daemon that left its loop on a signal and synced leaves the log whole and
\* on the disk: every record it published is there.
CleanStopIsDurable ==
    ppc = "exit" => file = published /\ (Policy # "None" => onDisk = Len(file))

\* A good record that was sent is published, unless the daemon is told to stop
\* or dies, or the connection breaks: a full channel holds a connection up and
\* never for ever.
SentIsPublished ==
    \A c \in Conns : \A n \in 1 .. MaxSent[c] :
        (<<c, n>> \notin Bad /\ link[c] = "open" /\ sent[c] >= n)
            ~> \/ ~running
               \/ ppc = "failed"
               \/ link[c] = "closed"
               \/ \E i \in 1 .. Len(published) :
                    published[i].from = c /\ published[i].num = n

\* A daemon that is told to stop stops, though its connection threads may be
\* blocked in a read or on the full channel.
SignalStops == (Serving /\ ~running) ~> ~Serving

--------------------------------------------------------------------------------
(* What the documentation says and the code does not do.                   *)

\* "The ring is recreated on every start.  The log is appended to and survives."
\* (docs/design/deployment.md)
OpeningKeepsTheLog ==
    (handle = "closed" /\ handle' = "open") => Len(file) <= Len(file') /\ SubSeq(file', 1, Len(file)) = file

LogSurvivesAStart == [][OpeningKeepsTheLog]_vars
================================================================================
