----------------------------------- MODULE Tail ---------------------------------
(***************************************************************************)
(* The daemon's own account of itself and how a window comes by it: the    *)
(* report lines of feedd (rust/ob-cli/src/bin/feedd.rs, report), the tail  *)
(* of its log (rust/ob-cli/src/daemon.rs, poll), and parse_report          *)
(* (rust/ob-view/src/report.rs), while the daemon writes on, ends, starts  *)
(* again and the log is removed.                                           *)
(*                                                                         *)
(* A line is its kind and the block it belongs to.  A tail that begins     *)
(* inside a line has lost that line's meaning or none of it.               *)
(***************************************************************************)
EXTENDS SequencesExt, FiniteSetsExt, Integers

CONSTANTS
    TailLines,      \* the lines in TAIL_BYTES
    Consumers,      \* the daemon's subscribers
    MaxBlocks,      \* bound on the report blocks
    MaxBreaks,      \* bound on the kills and removals
    MaxLines        \* bound on the lines of the log

ASSUME TailAssumption ==
    /\ TailLines \in Nat \ {0} /\ Consumers \in Nat /\ MaxBlocks \in Nat
    /\ MaxBreaks \in Nat /\ MaxLines \in Nat

VARIABLES
    taLog,          \* the lines of the log
    taThere,        \* the log has its name
    taUp,           \* the daemon runs
    taTo,           \* it writes to the log that has the name
    taWrites,       \* the lines it is about to write
    taBlock,        \* the last block's number
    taFrom,         \* where the poll seeks to, -1 when there is none under way
    taReport,       \* DaemonLog.report
    taSeen,         \* history: the newest block the last poll's log had begun
    taStops,        \* history: the blocks that were written at a stop
    taBreaks

tailVars == <<taLog, taThere, taUp, taTo, taWrites, taBlock, taFrom, taReport, taSeen, taStops, taBreaks>>

Line(kind, block, index) == [kind |-> kind, block |-> block, index |-> index]

NoReport == [counters |-> 0, latency |-> 0, consumers |-> <<>>]

TailInit ==
    /\ taLog = <<>> /\ taThere = FALSE
    /\ taUp = FALSE /\ taTo = FALSE /\ taWrites = <<>> /\ taBlock = 0
    /\ taFrom = -1 /\ taReport = NoReport /\ taSeen = 0 /\ taStops = {} /\ taBreaks = 0

--------------------------------------------------------------------------------
(* The daemon.                                                             *)

\* report: two lines.
Block(n) == <<Line("report", n, 0), Line("latency", n, 0)>>

\* obctl opens the log to append to it, and the daemon says that it listens.
Up ==
    /\ ~taUp /\ taWrites = <<>>
    /\ taUp' = TRUE /\ taTo' = TRUE /\ taThere' = TRUE
    /\ taWrites' = <<Line("other", 0, 0)>>
    /\ UNCHANGED <<taLog, taBlock, taFrom, taReport, taSeen, taStops, taBreaks>>

\* Once a second.
Reports ==
    /\ taUp /\ taWrites = <<>> /\ taBlock < MaxBlocks
    /\ taBlock' = taBlock + 1
    /\ taWrites' = Block(taBlock + 1)
    /\ UNCHANGED <<taLog, taThere, taUp, taTo, taFrom, taReport, taSeen, taStops, taBreaks>>

\* The end of the loop: the last block, and a line for every subscriber.
Ending ==
    /\ taUp /\ taWrites = <<>> /\ taBlock < MaxBlocks
    /\ taUp' = FALSE
    /\ taBlock' = taBlock + 1
    /\ taStops' = taStops \cup {taBlock + 1}
    /\ taWrites' = <<Line("other", 0, 0)>> \o Block(taBlock + 1)
                   \o [i \in 1 .. Consumers |-> Line("consumer", taBlock + 1, i)]
    /\ UNCHANGED <<taLog, taThere, taTo, taFrom, taReport, taSeen, taBreaks>>

\* One line is written, to the log or to the file that was the log.
WriteLine ==
    /\ taWrites # <<>> /\ Len(taLog) < MaxLines
    /\ taLog' = IF taTo THEN Append(taLog, Head(taWrites)) ELSE taLog
    /\ taWrites' = Tail(taWrites)
    /\ UNCHANGED <<taThere, taUp, taTo, taBlock, taFrom, taReport, taSeen, taStops, taBreaks>>

\* The daemon is killed, between two lines.
Killed ==
    /\ taUp \/ taWrites # <<>>
    /\ taBreaks < MaxBreaks /\ taBreaks' = taBreaks + 1
    /\ taUp' = FALSE /\ taWrites' = <<>>
    /\ UNCHANGED <<taLog, taThere, taTo, taBlock, taFrom, taReport, taSeen, taStops>>

\* The log is removed.
RemovedLog ==
    /\ taThere
    /\ taBreaks < MaxBreaks /\ taBreaks' = taBreaks + 1
    /\ taThere' = FALSE /\ taLog' = <<>> /\ taTo' = FALSE
    /\ UNCHANGED <<taUp, taWrites, taBlock, taFrom, taReport, taSeen, taStops>>

--------------------------------------------------------------------------------
(* The window.                                                             *)

\* A line of a tail that counts for parse_report.
Starts(tail, kind) == {i \in DOMAIN tail : tail[i].kind = kind}

\* Where the newest block begins: its report line, or its latency line when the
\* report line is not in the tail; 0 for none.
StartFirst(tail) ==
    IF Starts(tail, "report") # {} THEN Min(Starts(tail, "report"))
    ELSE IF Starts(tail, "latency") # {} THEN Min(Starts(tail, "latency")) ELSE 0

Start(tail) ==
    IF Starts(tail, "report") # {} THEN Max(Starts(tail, "report"))
    ELSE IF Starts(tail, "latency") # {} THEN Max(Starts(tail, "latency")) ELSE 0

\* What a line adds: later lines replace the fields, subscribers are added.
LineParsed(r, l) ==
    CASE l.kind = "report"   -> [r EXCEPT !.counters = l.block]
      [] l.kind = "latency"  -> [r EXCEPT !.latency = l.block]
      [] l.kind = "consumer" -> [r EXCEPT !.consumers = Append(@, l)]
      [] OTHER               -> r

\* parse_report: from the start of the newest block, line by line.
ParseReport(tail) ==
    LET parsed[n \in 0 .. Len(tail)] ==
            IF n < Start(tail) THEN NoReport ELSE LineParsed(parsed[n - 1], tail[n])
    IN  IF Start(tail) = 0 THEN NoReport ELSE parsed[Len(tail)]

Newest(lines) == LET at == Starts(lines, "report") IN IF at = {} THEN 0 ELSE lines[Max(at)].block

\* poll: the size is asked for; without a file the report is dropped.
PollSize ==
    /\ taFrom = -1
    /\ IF taThere
       THEN taFrom' = Max({Len(taLog) - TailLines, 0}) /\ UNCHANGED <<taReport, taSeen>>
       ELSE taReport' = NoReport /\ taSeen' = 0 /\ UNCHANGED taFrom
    /\ UNCHANGED <<taLog, taThere, taUp, taTo, taWrites, taBlock, taStops, taBreaks>>

\* What is there from then on, with or without the line it begins in.  A file
\* that is gone by now leaves the report as it was.
PollRead ==
    /\ taFrom >= 0
    /\ IF ~taThere THEN UNCHANGED <<taReport, taSeen>>
       ELSE /\ \E cut \in IF taFrom > 0 THEN {0, 1} ELSE {0} :
                 taReport' = ParseReport(SubSeq(taLog, taFrom + 1 + cut, Len(taLog)))
            /\ taSeen' = Newest(taLog)
    /\ taFrom' = -1
    /\ UNCHANGED <<taLog, taThere, taUp, taTo, taWrites, taBlock, taStops, taBreaks>>

TailNext ==
    Up \/ Reports \/ Ending \/ WriteLine \/ Killed \/ RemovedLog \/ PollSize \/ PollRead

--------------------------------------------------------------------------------
(* Properties.                                                             *)

Shown == {b \in {taReport.counters, taReport.latency} : b # 0}
         \cup {taReport.consumers[i].block : i \in DOMAIN taReport.consumers}

\* The numbers a window shows side by side are of one block, the newest of which
\* the log had the first line, with each subscriber once and in order, however
\* the poll fell into the writing of a block, a restart or a removal.  That
\* block's subscribers are only ever those of a daemon that has stopped.
ReportIsOneBlock ==
    taReport # NoReport =>
        /\ Cardinality(Shown) = 1
        /\ Shown = {taSeen}
        /\ \A i \in DOMAIN taReport.consumers : taReport.consumers[i].index = i
        /\ taReport.consumers # <<>> => Shown \subseteq taStops
================================================================================
