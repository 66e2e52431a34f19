---------------------------------- MODULE Page ----------------------------------
(***************************************************************************)
(* The page's server (rust/ob-cli/src/web.rs) and the frame loop that      *)
(* feeds it (rust/ob-cli/src/bin/web.rs): one thread composes and          *)
(* publishes frames, one accepts connections, and one thread for every     *)
(* connection streams the newest frame or queues a command and waits for a *)
(* frame.  They share the slot of one frame, the count of frames, the      *)
(* queue of commands and three counters.                                   *)
(*                                                                         *)
(* A step of a thread is what it does between two accesses to what is      *)
(* shared; a frame is what the window had run when it was composed.  What  *)
(* a command does to the window is in Desk.                                *)
(***************************************************************************)
EXTENDS SequencesExt, FiniteSetsExt, Integers

CONSTANTS
    Clients,        \* each makes one connection, and its command is its name
    Asks,           \* Asks[c]: what c may ask for, of "stream", "act" and "plain"
    MaxClients,     \* MAX_CLIENTS
    MaxFrames       \* bound on the frames published

ASSUME PageAssumption ==
    /\ Asks \in [Clients -> SUBSET {"stream", "act", "plain"}]
    /\ IsFiniteSet(Clients)
    /\ MaxClients \in Nat \ {0} /\ MaxFrames \in Nat

VARIABLES
    loop,           \* the frame loop: where it is, and what it has in its hands
    ran,            \* the commands the window has run, in order
    commands,       \* App.commands
    frames,         \* App.frames: the newest frame, or NoFrame
    published,      \* App.published
    dropped,        \* App.dropped
    clients,        \* App.clients
    refused,        \* App.refused
    conn,           \* conn[c]: the thread of c's connection
    asked,          \* history: the commands queued, in order
    tally           \* history: tally[c]: what became of the frames of c's stream

vars == <<loop, ran, commands, frames, published, dropped, clients, refused, conn, asked, tally>>

NoFrame == [seq |-> 0, shows |-> <<>>]

Init ==
    /\ loop = [at |-> "compose", seq |-> 0, shows |-> <<>>]
    /\ ran = <<>> /\ commands = <<>> /\ frames = NoFrame
    /\ published = 0 /\ dropped = 0 /\ clients = 0 /\ refused = 0
    /\ conn = [c \in Clients |->
                 [at |-> "away", kind |-> "plain", after |-> 0, late |-> FALSE, taken |-> NoFrame]]
    /\ asked = <<>>
    /\ tally = [c \in Clients |-> [opened |-> 0, drew |-> 0, missed |-> 0]]

--------------------------------------------------------------------------------
(* The frame loop.                                                         *)

\* take_commands, a run of each, and the composition of the frame.
Compose ==
    /\ loop.at = "compose"
    /\ ran' = ran \o commands
    /\ commands' = <<>>
    /\ loop' = [loop EXCEPT !.at = "count", !.shows = ran']
    /\ UNCHANGED <<frames, published, dropped, clients, refused, conn, asked, tally>>

\* App::publish: first the frame's number, ...
Count ==
    /\ loop.at = "count"
    /\ published < MaxFrames
    /\ published' = published + 1
    /\ loop' = [loop EXCEPT !.at = "store", !.seq = published']
    /\ UNCHANGED <<ran, commands, frames, dropped, clients, refused, conn, asked, tally>>

\* ... then the slot, under its lock, ...
Store ==
    /\ loop.at = "store"
    /\ frames' = [seq |-> loop.seq, shows |-> loop.shows]
    /\ loop' = [loop EXCEPT !.at = "notify"]
    /\ UNCHANGED <<ran, commands, published, dropped, clients, refused, conn, asked, tally>>

Sleepers == {c \in Clients : conn[c].at = "asleep"}

\* ... then every connection that waits.
Notify ==
    /\ loop.at = "notify"
    /\ conn' = [c \in Clients |->
                  IF c \in Sleepers THEN [conn[c] EXCEPT !.at = "look"] ELSE conn[c]]
    /\ loop' = [loop EXCEPT !.at = "compose"]
    /\ UNCHANGED <<ran, commands, frames, published, dropped, clients, refused, asked, tally>>

FrameLoop == Compose \/ Count \/ Store \/ Notify

--------------------------------------------------------------------------------
(* Server::serve, the thread that accepts.                                 *)

NoConn == [at |-> "gone", kind |-> "plain", after |-> 0, late |-> FALSE, taken |-> NoFrame]

Accepting == \E c \in Clients : conn[c].at = "admitted"

\* A client connects.  The limit is read here and the count raised in a later
\* step.
Admit(c) ==
    /\ conn[c].at = "away" /\ ~Accepting
    /\ clients < MaxClients
    /\ conn' = [conn EXCEPT ![c].at = "admitted"]
    /\ UNCHANGED <<loop, ran, commands, frames, published, dropped, clients, refused, asked,
                   tally>>

Refuse(c) ==
    /\ conn[c].at = "away" /\ ~Accepting
    /\ clients >= MaxClients
    /\ refused' = refused + 1
    /\ conn' = [conn EXCEPT ![c].at = "refused"]
    /\ UNCHANGED <<loop, ran, commands, frames, published, dropped, clients, asked, tally>>

\* The count is raised and the connection's thread begins.
Spawn(c) ==
    /\ conn[c].at = "admitted"
    /\ clients' = clients + 1
    /\ conn' = [conn EXCEPT ![c].at = "reading"]
    /\ UNCHANGED <<loop, ran, commands, frames, published, dropped, refused, asked, tally>>

--------------------------------------------------------------------------------
(* handle and stream_events, the thread of one connection.                 *)

\* The handler returns: its thread takes itself off the count and ends.
Leaves(c) ==
    /\ conn' = [conn EXCEPT ![c] = NoConn]
    /\ clients' = clients - 1

\* read_request, and a route that answers at once: the page, the counters, a
\* completion, an empty command, no route; or a connection that ends before it
\* asked.  A client that stays and sends nothing holds its thread: there is no
\* deadline on this read.
ReadPlain(c) ==
    /\ conn[c].at = "reading" /\ "plain" \in Asks[c]
    /\ Leaves(c)
    /\ UNCHANGED <<loop, ran, commands, frames, published, dropped, refused, asked, tally>>

\* read_request, and a route that waits: a stream or a command.  It takes the
\* count of frames for the frames there have been.
ReadWaiting(c) ==
    /\ conn[c].at = "reading"
    /\ \E k \in Asks[c] \ {"plain"} :
        conn' = [conn EXCEPT ![c].kind = k, ![c].after = published,
                             ![c].at = IF k = "act" THEN "push" ELSE "look"]
    /\ tally' = [tally EXCEPT ![c].opened = published]
    /\ UNCHANGED <<loop, ran, commands, frames, published, dropped, clients, refused, asked>>

\* App::push_command.
Push(c) ==
    /\ conn[c].at = "push"
    /\ commands' = Append(commands, c)
    /\ asked' = Append(asked, c)
    /\ conn' = [conn EXCEPT ![c].at = "look"]
    /\ UNCHANGED <<loop, ran, frames, published, dropped, clients, refused, tally>>

\* App::wait_for_frame, with the lock, finds a newer frame ...
Take(c) ==
    /\ conn[c].at = "look"
    /\ frames.seq > conn[c].after
    /\ conn' = [conn EXCEPT ![c].taken = frames, ![c].at = "found"]
    /\ UNCHANGED <<loop, ran, commands, frames, published, dropped, clients, refused, asked,
                   tally>>

\* ... or none, and sleeps, which gives the lock back ...
Sleep(c) ==
    /\ conn[c].at = "look"
    /\ frames.seq <= conn[c].after /\ ~conn[c].late
    /\ conn' = [conn EXCEPT ![c].at = "asleep"]
    /\ UNCHANGED <<loop, ran, commands, frames, published, dropped, clients, refused, asked,
                   tally>>

\* ... until it is told or the deadline passes, when it looks once more ...
Expire(c) ==
    /\ conn[c].at = "asleep"
    /\ conn' = [conn EXCEPT ![c].late = TRUE, ![c].at = "look"]
    /\ UNCHANGED <<loop, ran, commands, frames, published, dropped, clients, refused, asked,
                   tally>>

\* A variant in which a command waits again as a stream does.
GiveUpNever(c) ==
    /\ conn[c].at = "look"
    /\ frames.seq <= conn[c].after /\ conn[c].late
    /\ conn' = [conn EXCEPT ![c].late = FALSE]
    /\ UNCHANGED <<loop, ran, commands, frames, published, dropped, clients, refused, asked,
                   tally>>

\* ... and has nothing: a stream writes a comment and waits again, unless it
\* cannot be written; a command is answered with an empty frame.
GiveUp(c) ==
    /\ conn[c].at = "look"
    /\ frames.seq <= conn[c].after /\ conn[c].late
    /\ \/ conn[c].kind = "stream" /\ conn' = [conn EXCEPT ![c].late = FALSE] /\ UNCHANGED clients
       \/ Leaves(c)
    /\ UNCHANGED <<loop, ran, commands, frames, published, dropped, refused, asked, tally>>

\* A variant that takes the frame in hand for missed as well.
MissedWithThis(c) == conn[c].taken.seq - conn[c].after

\* The frames between the last one a stream had and the one it took.
Missed(c) == conn[c].taken.seq - conn[c].after - 1

\* A stream counts what it missed, and then writes the frame; or cannot, since
\* the client is gone or took nothing for WRITE_TIMEOUT.
Write(c) ==
    /\ conn[c].at = "found" /\ conn[c].kind = "stream"
    /\ dropped' = dropped + Missed(c)
    /\ \/ /\ conn' = [conn EXCEPT ![c].after = conn[c].taken.seq, ![c].taken = NoFrame,
                                  ![c].late = FALSE, ![c].at = "look"]
          /\ tally' = [tally EXCEPT ![c].missed = @ + Missed(c), ![c].drew = @ + 1]
          /\ UNCHANGED clients
       \/ /\ Leaves(c)
          /\ tally' = [tally EXCEPT ![c].missed = @ + Missed(c)]
    /\ UNCHANGED <<loop, ran, commands, frames, published, refused, asked>>

\* A command is answered with the frame.
Respond(c) ==
    /\ conn[c].at = "found" /\ conn[c].kind = "act"
    /\ Leaves(c)
    /\ UNCHANGED <<loop, ran, commands, frames, published, dropped, refused, asked, tally>>

Handle(c) ==
    \/ Push(c) \/ Take(c) \/ Sleep(c) \/ Expire(c) \/ GiveUp(c) \/ Write(c) \/ Respond(c)

Next ==
    \/ FrameLoop
    \/ \E c \in Clients :
        Admit(c) \/ Refuse(c) \/ Spawn(c) \/ ReadPlain(c) \/ ReadWaiting(c) \/ Handle(c)

Spec == Init /\ [][Next]_vars

\* The threads run; no client is bound to connect or to ask.
Fairness ==
    /\ WF_vars(FrameLoop)
    /\ \A c \in Clients : WF_vars(Spawn(c)) /\ WF_vars(Handle(c))

LiveSpec == Spec /\ Fairness

--------------------------------------------------------------------------------
(* Properties.                                                             *)

Waiting == {c \in Clients : conn[c].at \in {"look", "asleep", "found"}}

Threads == {c \in Clients : conn[c].at \in {"reading", "push"}} \cup Waiting

Streams == {c \in Waiting : conn[c].kind = "stream"}

\* A connection never sleeps on a frame it has not had: one that went to sleep
\* between a frame's number and the frame is woken by it, and so are all the
\* others.
NobodySleepsOnAFrame ==
    \A c \in Sleepers : frames.seq > conn[c].after => loop.at = "notify"

\* The connections counted are the threads there are, never more than
\* MAX_CLIENTS though the limit is read before the count is raised.
CountsAreTheThreads ==
    /\ clients = Cardinality(Threads)
    /\ clients + Cardinality({c \in Clients : conn[c].at = "admitted"}) <= MaxClients
    /\ refused = Cardinality({c \in Clients : conn[c].at = "refused"})

\* Every frame a stream was open for was written to it or missed, once.
StreamsAddUp ==
    \A c \in Streams : conn[c].after - tally[c].opened = tally[c].drew + tally[c].missed

\* The frames missed by all the streams there have been, one pair for each.
MissedByAll == UNION {{c} \X (1 .. tally[c].missed) : c \in Clients}

\* What /health prints is so, the frames dropped for all streams together too.
HealthIsTrue ==
    /\ CountsAreTheThreads /\ StreamsAddUp
    /\ dropped = Cardinality(MissedByAll)

\* Every command queued is run, once and in the order of the queue, and the
\* frame in the slot shows a beginning of them that grows with the frames.
CommandsRunOnceInOrder ==
    /\ asked = ran \o commands
    /\ IsPrefix(frames.shows, loop.shows)
    /\ IsPrefix(loop.shows, ran)

\* What goes between the connections and the loop is neither missed, miscounted,
\* lost nor run twice.
HandOverIsExact == NobodySleepsOnAFrame /\ HealthIsTrue /\ CommandsRunOnceInOrder

\* A command queued while frames go on is run; its sender is answered, by a
\* frame or by the deadline; a stream that stays open has the last frame.
CommandsAreAnswered ==
    \A c \in Clients :
        /\ Contains(commands, c) /\ published < MaxFrames ~> Contains(ran, c)
        /\ conn[c].at = "push" ~> conn[c].at = "gone"
        /\ <>[](c \in Streams => conn[c].after >= frames.seq)

\* What a comment in handle says: the frame a command is answered with is the
\* one it produced.
AnswerHasTheCommand ==
    \A c \in Clients :
        conn[c].kind = "act" /\ conn[c].at = "found" => Contains(conn[c].taken.shows, c)
================================================================================
