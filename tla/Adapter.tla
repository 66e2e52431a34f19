---------------------------------- MODULE Adapter -------------------------------
(***************************************************************************)
(* The feed adapter (python/feed_adapter.py): run_live with its two        *)
(* connections, the exchange's and the daemon's, which fail separately,    *)
(* the watch file it follows, and the heartbeat by which a window judges   *)
(* it (read_heartbeat of rust/ob-cli/src/lib.rs).                          *)
(*                                                                         *)
(* Time is counted in ticks of about the age at which a heartbeat counts   *)
(* as stale.  It passes where the adapter waits: for a frame, and in its   *)
(* sleep.  A picture is a reset and a level of one side of one symbol.     *)
(***************************************************************************)
EXTENDS SequencesExt, Integers

CONSTANTS
    WatchFiles,     \* the contents the watch file takes: sequences of lines
    Fits,           \* the lines that are symbols of up to SYMBOL_BYTES
    Configured,     \* the symbol of the configuration
    Traded,         \* the symbols the exchange sends pictures of
    MaxDelay,       \* the cap of the back-off
    RecvTimeout,    \* the ticks a wait for a frame may take
    StaleAfter,     \* HEARTBEAT_STALE_S
    MaxEdits,       \* bound on the edits of the watch file
    Pictures,       \* pictures are told apart by their number modulo this
    MaxLosses       \* bound on the ends of connections, of daemons and of the adapter

ASSUME AdapterAssumption ==
    /\ MaxDelay \in Nat \ {0} /\ RecvTimeout \in Nat \ {0} /\ StaleAfter \in Nat
    /\ Pictures \in Nat \ {0} /\ MaxEdits \in Nat /\ MaxLosses \in Nat

VARIABLES
    adFile,         \* the lines of the watch file
    adDaemon,       \* feedd listens
    adAt,           \* where run_live is
    adSock,         \* its connection to feedd: none, open, or open with nobody behind it
    adSymbols,      \* what it subscribes to
    adQueue,        \* the records of the picture it is sending, those still to go
    adDelay,
    adWaited,       \* ticks of the wait it is in
    adDue,          \* the look at the watch file is due for certain
    adBeat,         \* the heartbeat: its note, and its age in ticks up to stale
    adBook,         \* adBook[s]: the pictures of the last reset and of the level on
                    \* the side, 0 for none
    adPicture,      \* history: the number of the picture
    adEdits,
    adLosses

adapterVars == <<adFile, adDaemon, adAt, adSock, adSymbols, adQueue, adDelay, adWaited, adDue,
                 adBeat, adBook, adPicture, adEdits, adLosses>>

\* read_watch: the lines that fit, each once, or the configuration's symbol.
Wanted(lines) ==
    LET fit == SelectSeq(lines, LAMBDA l : l \in Fits)
        once == FoldLeft(LAMBDA out, l : IF Contains(out, l) THEN out ELSE Append(out, l), <<>>, fit)
    IN  IF once = <<>> THEN <<Configured>> ELSE once

\* beat.
Beats(note) == adBeat' = [note |-> note, age |-> 0]

NoBeat == [note |-> "none", age |-> 0]

\* The book of a daemon that has just started.
Empty == [s \in Traded |-> [reset |-> 0, level |-> 0]]

\* run_live's first lines.
AdapterInit ==
    /\ adFile \in WatchFiles
    /\ adDaemon = TRUE
    /\ adAt = "dial" /\ adSock = "none"
    /\ adSymbols = Wanted(adFile)
    /\ adQueue = <<>>
    /\ adDelay = 1 /\ adWaited = 0 /\ adDue = FALSE
    /\ adBeat = [note |-> "starting", age |-> 0]
    /\ adBook = Empty /\ adPicture = 1 /\ adEdits = 0 /\ adLosses = 0

--------------------------------------------------------------------------------
(* run_live.                                                               *)

\* The end of a turn: the sleep, with the delay it will take.
Sleeps == adAt' = "sleep" /\ adWaited' = 0 /\ adQueue' = <<>>

\* connect_feedd.
Dial ==
    /\ adAt = "dial"
    /\ IF adSock # "none" \/ adDaemon
       THEN /\ adSock' = IF adSock = "none" THEN "open" ELSE adSock
            /\ adAt' = "subscribe"
            /\ Beats("connected")
            /\ UNCHANGED <<adWaited, adQueue>>
       ELSE Beats("no feedd") /\ Sleeps /\ UNCHANGED adSock
    /\ UNCHANGED <<adDue, adFile, adDaemon, adSymbols, adDelay, adBook, adPicture, adEdits, adLosses>>

\* ws_frames connects with the symbols of the moment, or fails.
Subscribe ==
    /\ adAt = "subscribe"
    /\ \/ adAt' = "frames" /\ adWaited' = 0 /\ adQueue' = <<>> /\ UNCHANGED <<adLosses, adBeat>>
       \/ adLosses < MaxLosses /\ adLosses' = adLosses + 1 /\ Sleeps /\ Beats("error")
    /\ UNCHANGED <<adDue, adFile, adDaemon, adSock, adSymbols, adDelay, adBook, adPicture, adEdits>>

\* A frame: parse_depth5 puts the reset of a side before its levels.
Frame ==
    /\ adAt = "frames"
    /\ \E s \in ToSet(adSymbols) \cap Traded :
        adQueue' = <<[symbol |-> s, kind |-> "reset"], [symbol |-> s, kind |-> "level"]>>
    /\ adPicture' = (adPicture % Pictures) + 1
    /\ adDelay' = 1
    /\ adAt' = "send"
    /\ UNCHANGED <<adDue, adFile, adDaemon, adSock, adSymbols, adWaited, adBeat, adBook, adEdits, adLosses>>

\* A record that reaches the daemon: a reset clears the side.
Arrives ==
    LET r == Head(adQueue)
    IN  adBook' = [adBook EXCEPT ![r.symbol] =
            IF r.kind = "reset" THEN [reset |-> adPicture, level |-> 0]
            ELSE [@ EXCEPT !.level = adPicture]]

\* A variant that dials at once and goes on with the record that failed.
SendAgain ==
    /\ adAt = "send" /\ adQueue # <<>>
    /\ \/ adSock = "open" /\ Arrives /\ adQueue' = Tail(adQueue) /\ UNCHANGED <<adSock, adAt, adWaited>>
       \/ adSock = "broken" /\ adQueue' = Tail(adQueue) /\ UNCHANGED <<adBook, adSock, adAt, adWaited>>
       \/ adSock = "broken" /\ adDaemon /\ adSock' = "open" /\ UNCHANGED <<adQueue, adAt, adWaited, adBook>>
    /\ UNCHANGED <<adDue, adFile, adDaemon, adSymbols, adDelay, adBeat, adPicture, adEdits, adLosses>>

\* A record is sent.  With nobody behind the connection it is lost, or the send
\* fails: then the rest of the picture is dropped and feedd is dialled again.
Send ==
    /\ adAt = "send" /\ adQueue # <<>>
    /\ \/ adSock = "open" /\ Arrives /\ adQueue' = Tail(adQueue) /\ UNCHANGED <<adSock, adAt, adWaited>>
       \/ adSock = "broken" /\ adQueue' = Tail(adQueue) /\ UNCHANGED <<adBook, adSock, adAt, adWaited>>
       \/ adSock = "broken" /\ adSock' = "none" /\ Sleeps /\ UNCHANGED adBook
    /\ UNCHANGED <<adDue, adFile, adDaemon, adSymbols, adDelay, adBeat, adPicture, adEdits, adLosses>>

\* A variant that looks at the file when it starts and never again.
AskedOnce == adSymbols

\* The set the terminal wants by now.
Asked == Wanted(adFile)

\* The look at the watch file, due every check_every: in less than a tick.
Looks == adSymbols' = Asked /\ Beats("live") /\ adDue' = FALSE

\* Between frames, when the look at the watch file is due, and when it is not.
Between ==
    /\ adAt = "send" /\ adQueue = <<>>
    /\ \/ ~adDue /\ adAt' = "frames" /\ adWaited' = 0 /\ UNCHANGED <<adBeat, adDue, adSymbols, adQueue>>
       \/ Looks
          /\ IF Asked = adSymbols THEN adAt' = "frames" /\ adWaited' = 0 /\ UNCHANGED adQueue
             ELSE Sleeps
    /\ UNCHANGED <<adFile, adDaemon, adSock, adDelay, adBook, adPicture, adEdits, adLosses>>

\* The exchange closes the connection; a wait for a frame that times out or
\* fails is an error, and is told by the heartbeat.
Closes ==
    /\ adAt = "frames"
    /\ \/ adLosses < MaxLosses /\ adLosses' = adLosses + 1 /\ UNCHANGED adBeat
       \/ adLosses < MaxLosses /\ adLosses' = adLosses + 1 /\ Beats("error")
       \/ adWaited = RecvTimeout /\ Beats("error") /\ UNCHANGED adLosses
    /\ Sleeps
    /\ UNCHANGED <<adDue, adFile, adDaemon, adSock, adSymbols, adDelay, adBook, adPicture, adEdits>>

\* The sleep is over, and the next one is twice as long.
Wakes ==
    /\ adAt = "sleep" /\ adWaited >= adDelay
    /\ adDelay' = IF adDelay * 2 < MaxDelay THEN adDelay * 2 ELSE MaxDelay
    /\ adAt' = "dial" /\ adWaited' = 0
    /\ UNCHANGED <<adDue, adFile, adDaemon, adSock, adSymbols, adQueue, adBeat, adBook, adPicture, adEdits,
                   adLosses>>

RunLive == Dial \/ Subscribe \/ Frame \/ Send \/ Between \/ Closes \/ Wakes

--------------------------------------------------------------------------------
(* What goes on around it.                                                 *)

\* Time passes for who waits, and the heartbeat grows older.
Tick ==
    /\ \/ adAt = "sleep" /\ adWaited < adDelay
       \/ adAt = "frames" /\ adWaited < RecvTimeout
       \/ adAt = "exited" /\ adBeat.note # "none" /\ adBeat.age <= StaleAfter
    /\ adWaited' = IF adAt = "exited" THEN adWaited ELSE adWaited + 1
    /\ adDue' = TRUE
    /\ adBeat' = IF adBeat.note = "none" \/ adBeat.age > StaleAfter THEN adBeat
                 ELSE [adBeat EXCEPT !.age = @ + 1]
    /\ UNCHANGED <<adFile, adDaemon, adAt, adSock, adSymbols, adQueue, adDelay, adBook, adPicture,
                   adEdits, adLosses>>

\* A window replaces the watch file.
Rewrite(lines) ==
    /\ adEdits < MaxEdits /\ lines # adFile
    /\ adFile' = lines
    /\ adEdits' = adEdits + 1
    /\ UNCHANGED <<adDue, adDaemon, adAt, adSock, adSymbols, adQueue, adDelay, adWaited, adBeat, adBook,
                   adPicture, adLosses>>

\* The daemon drops the connection, or ends; its book goes with it.
Drops ==
    /\ adLosses < MaxLosses /\ adLosses' = adLosses + 1
    /\ adDaemon /\ adSock = "open"
    /\ adSock' = "broken"
    /\ adDaemon' \in BOOLEAN
    /\ adBook' = IF adDaemon' THEN adBook ELSE Empty
    /\ UNCHANGED <<adDue, adFile, adAt, adSymbols, adQueue, adDelay, adWaited, adBeat, adPicture, adEdits>>

\* It is started again.
Returns ==
    /\ ~adDaemon
    /\ adDaemon' = TRUE
    /\ UNCHANGED <<adDue, adFile, adAt, adSock, adSymbols, adQueue, adDelay, adWaited, adBeat, adBook,
                   adPicture, adEdits, adLosses>>

\* SIGTERM ends the interpreter where it is; what escapes run_live is logged, and
\* the heartbeat removed.
Exits ==
    /\ adAt # "exited" /\ adLosses < MaxLosses /\ adLosses' = adLosses + 1
    /\ adAt' = "exited" /\ adSock' = "none" /\ adQueue' = <<>>
    /\ adBeat' \in {adBeat, NoBeat}
    /\ UNCHANGED <<adDue, adFile, adDaemon, adSymbols, adDelay, adWaited, adBook, adPicture, adEdits>>

AdapterNext ==
    RunLive \/ Tick \/ Drops \/ Returns \/ Exits \/ \E lines \in WatchFiles : Rewrite(lines)

AdapterSpec == AdapterInit /\ [][AdapterNext]_adapterVars

--------------------------------------------------------------------------------
(* What a window makes of the heartbeat (read_heartbeat).                  *)

Liveness ==
    IF adBeat.note = "none" THEN "Absent" ELSE IF adBeat.age <= StaleAfter THEN "Live" ELSE "Stale"

--------------------------------------------------------------------------------
(* Properties.                                                             *)

\* Whatever connection is lost, and in the middle of whatever picture, no level is
\* applied to a side that the reset of its own picture did not clear: prices of an
\* earlier picture never stay among the new ones.
LevelsFollowTheirReset == \A s \in Traded : adBook[s].level \in {0, adBook[s].reset}

\* "Stale" and "absent" are what the window takes for an adapter that has exited
\* (docs/design/observability.md).
StaleMeansExited == Liveness # "Live" => adAt = "exited"

\* The adapter comes to follow the watch file, unless nothing it subscribes to is
\* traded: the frames are the clock its look at the file goes by.
WatchIsAdopted ==
    <>[](adAt = "exited" \/ adSymbols = Wanted(adFile) \/ ToSet(adSymbols) \cap Traded = {})
================================================================================
