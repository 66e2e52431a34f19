--------------------------------- MODULE Window ---------------------------------
(***************************************************************************)
(* A window on a ring whose daemon restarts: rust/ob-cli/src/window.rs and *)
(* the loops of tui.rs, web.rs and view.rs, over Ring::create and          *)
(* RingReader of rust/ob/src/ring.rs.                                      *)
(*                                                                         *)
(* A run is one life of the daemon.  It creates the ring at its path in    *)
(* place, or as a new file when there is none, and publishes records 0, 1, *)
(* ...  Here a record is taken whole and a batch in one step: what happens *)
(* inside one call of consume is the module Ring.                          *)
(***************************************************************************)
EXTENDS Integers, FiniteSets

CONSTANTS
    Files,          \* the files (inodes) a ring can be
    NoFile,
    Capacity,       \* slots in the ring
    BatchLen,       \* the length of the loop's buffer, 512 in the code
    RebuildsBook,   \* the loop replaces its book when it re-attaches: tui.rs
                    \* does, web.rs and view.rs do not
    MaxRuns,        \* bound on the runs
    MaxPublished    \* bound on the records of a run

ASSUME WindowAssumption ==
    /\ NoFile \notin Files
    /\ Capacity \in Nat \ {0}
    /\ BatchLen \in Nat \ {0}
    /\ RebuildsBook \in BOOLEAN
    /\ MaxRuns \in Nat \ {0}
    /\ MaxPublished \in Nat

VARIABLES
    path,           \* the file at the ring's path
    phase,          \* phase[f]: how far the creation of f's ring has got
    run,            \* run[f]: the run whose ring f is
    wseq,           \* wseq[f]
    runs,           \* runs so far
    writer,         \* the file the daemon writes, NoFile when there is none
    alive,          \* the window's process runs
    mapped,         \* the file the window has mapped
    cursor,         \* the record it wants next
    since,          \* history: the run its cursor counts in
    book,           \* the runs of the records applied to its book
    overtaken,      \* history: a run had reached the cursor of the one before
                    \* when the window first looked at it
    pc              \* where its loop is

feedVars   == <<path, phase, run, wseq, runs, writer>>
windowVars == <<alive, mapped, cursor, since, book, overtaken, pc>>
vars == <<feedVars, windowVars>>

Runs == 1 .. MaxRuns

TypeOK ==
    /\ path \in Files \cup {NoFile}
    /\ phase \in [Files -> {"empty", "sized", "ready"}]
    /\ run \in [Files -> 0 .. MaxRuns]
    /\ wseq \in [Files -> Nat]
    /\ runs \in Runs
    /\ writer \in Files \cup {NoFile}
    /\ alive \in BOOLEAN
    /\ mapped \in Files
    /\ cursor \in Nat
    /\ since \in Runs
    /\ book \in SUBSET Runs
    /\ overtaken \in BOOLEAN
    /\ pc \in {"check", "drain"}

\* A window that has opened the ring of the first run, at the live end of a
\* ring that is still empty.
Init ==
    /\ \E f \in Files :
        /\ path = f /\ writer = f /\ mapped = f
        /\ run = [g \in Files |-> IF g = f THEN 1 ELSE 0]
        /\ phase = [g \in Files |-> IF g = f THEN "ready" ELSE "empty"]
    /\ wseq = [g \in Files |-> 0]
    /\ runs = 1
    /\ alive = TRUE
    /\ cursor = 0 /\ since = 1
    /\ book = {}
    /\ overtaken = FALSE
    /\ pc = "check"

--------------------------------------------------------------------------------
(* The feed.                                                               *)

Publish ==
    /\ writer # NoFile
    /\ phase[writer] = "ready"
    /\ wseq[writer] < MaxPublished
    /\ wseq' = [wseq EXCEPT ![writer] = @ + 1]
    /\ UNCHANGED <<path, phase, run, runs, writer, windowVars>>

\* The daemon stops or is killed, at any point.
Stop ==
    /\ writer # NoFile
    /\ writer' = NoFile
    /\ UNCHANGED <<path, phase, run, wseq, runs, windowVars>>

\* The ring's file is removed by hand.
Unlink ==
    /\ path # NoFile
    /\ path' = NoFile
    /\ UNCHANGED <<phase, run, wseq, runs, writer, windowVars>>

\* Ring::create: open with truncate.  A file that is mapped keeps its inode.
CreateTruncate ==
    /\ writer = NoFile
    /\ runs < MaxRuns
    /\ \E f \in Files :
        /\ IF path = NoFile THEN f # mapped ELSE f = path
        /\ path' = f
        /\ writer' = f
        /\ phase' = [phase EXCEPT ![f] = "empty"]
        /\ run' = [run EXCEPT ![f] = runs + 1]
        /\ wseq' = [wseq EXCEPT ![f] = 0]
    /\ runs' = runs + 1
    /\ UNCHANGED windowVars

\* set_len: the file is zero bytes again.
CreateSize ==
    /\ writer # NoFile
    /\ phase[writer] = "empty"
    /\ phase' = [phase EXCEPT ![writer] = "sized"]
    /\ UNCHANGED <<path, run, wseq, runs, writer, windowVars>>

\* The header: its magic and capacity are what a reader opens it by.
CreateHeader ==
    /\ writer # NoFile
    /\ phase[writer] = "sized"
    /\ phase' = [phase EXCEPT ![writer] = "ready"]
    /\ UNCHANGED <<path, run, wseq, runs, writer, windowVars>>

Feed == Publish \/ Stop \/ Unlink \/ CreateTruncate \/ CreateSize \/ CreateHeader

--------------------------------------------------------------------------------
(* The window's loop.                                                      *)

\* replaced: the file at the path is not the one mapped.
Replaced == path # mapped

Opens == path # NoFile /\ phase[path] = "ready"

\* A touch of a mapping whose file is shorter than it ends the process (SIGBUS).
Gone == phase[mapped] = "empty"

StartOfRun == 0

\* A variant whose loop forgets that the book is of the run before.
BookKept == book

BookAfterRestart == IF RebuildsBook THEN {} ELSE book

\* restart_at(0), and what the loop clears with it.
Restart ==
    /\ cursor' = StartOfRun
    /\ since' = run[mapped']
    /\ book' = BookAfterRestart
    /\ overtaken' = IF RebuildsBook THEN FALSE ELSE overtaken
    /\ pc' = "drain"
    /\ UNCHANGED alive

\* Attached::Restarted: another file is at the path, and it opens as a ring.
CheckReplaced ==
    /\ alive /\ pc = "check"
    /\ Replaced
    /\ Opens
    /\ mapped' = path
    /\ Restart
    /\ UNCHANGED feedVars

\* A variant that looks at the file only, as if every run made a new one.
BackwardsNever == FALSE

\* The sequence is behind the cursor: a new run over the same file.
Backwards == wseq[mapped] < cursor

\* Attached::Restarted: published() is behind the cursor.
CheckBackwards ==
    /\ alive /\ pc = "check"
    /\ ~Replaced /\ ~Gone
    /\ Backwards
    /\ UNCHANGED mapped
    /\ Restart
    /\ UNCHANGED feedVars

\* Attached::Failed, and Attached::Current.
CheckFailed ==
    /\ alive /\ pc = "check"
    /\ Replaced
    /\ ~Opens
    /\ pc' = "drain"
    /\ UNCHANGED <<feedVars, alive, mapped, cursor, since, book, overtaken>>

CheckCurrent ==
    /\ alive /\ pc = "check"
    /\ ~Replaced /\ ~Gone
    /\ ~Backwards
    /\ overtaken' = (overtaken \/ run[mapped] # since)
    /\ pc' = "drain"
    /\ UNCHANGED <<feedVars, alive, mapped, cursor, since, book>>

\* The check is made every RING_CHECK and not on every turn.
CheckNotDue ==
    /\ alive /\ pc = "check"
    /\ pc' = "drain"
    /\ UNCHANGED <<feedVars, alive, mapped, cursor, since, book, overtaken>>

Check == CheckReplaced \/ CheckBackwards \/ CheckFailed \/ CheckCurrent

\* Window::drain over consume_batch: resynchronise past a lap, then take up to
\* a bufferful.  The records of other symbols move the cursor and leave the
\* book alone.
Drain ==
    /\ alive /\ pc = "drain"
    /\ ~Gone
    /\ pc' = "check"
    /\ LET lapped == wseq[mapped] > cursor + Capacity
           from   == IF lapped THEN wseq[mapped] - Capacity ELSE cursor
           upto   == IF wseq[mapped] > from + BatchLen THEN from + BatchLen ELSE wseq[mapped]
       IN  IF wseq[mapped] <= cursor
           THEN UNCHANGED <<cursor, since, book, overtaken>>
           ELSE /\ cursor' = upto
                /\ \E applied \in {{}, {run[mapped]}} : book' = book \cup applied
                /\ overtaken' = (overtaken \/ run[mapped] # since)
                /\ UNCHANGED since
    /\ UNCHANGED <<feedVars, alive, mapped>>

\* A switch of symbol: the loop starts again at the live end with a new book.
Switch ==
    /\ alive /\ pc = "check"
    /\ ~Gone
    /\ cursor' = wseq[mapped]
    /\ since' = run[mapped]
    /\ book' = {}
    /\ overtaken' = FALSE
    /\ UNCHANGED <<feedVars, alive, mapped, pc>>

\* published, or a slot, of a file that was truncated and not yet sized.
Fault ==
    /\ alive
    /\ Gone
    /\ pc = "drain" \/ ~Replaced
    /\ alive' = FALSE
    /\ UNCHANGED <<feedVars, mapped, cursor, since, book, overtaken, pc>>

Loop == Check \/ CheckNotDue \/ Drain \/ Switch \/ Fault

Next == Feed \/ Loop

Spec == Init /\ [][Next]_vars

\* The loop keeps turning, a touch of its mapping ends one way or the other, and
\* the check comes due.  Nothing is assumed of the daemon or of the user.
LiveSpec ==
    Spec /\ WF_vars(Check \/ CheckNotDue) /\ WF_vars(Drain \/ Fault) /\ SF_vars(Check)

--------------------------------------------------------------------------------
(* Properties.                                                             *)

\* When the feed has come to rest, a window that is still running is on the
\* ring at the path and has taken all of it, whatever the runs and the files in
\* between were: "the feed came back and the window did not" does not happen.
WindowReattaches ==
    <>[](alive /\ Opens => mapped = path /\ cursor = wseq[path])

\* A book holds the records of two runs only if the second had reached the
\* first one's cursor before the window looked: a restart the window notices
\* never leaves a price of the run that is over (window.rs: "a frame ends up
\* describing two runs as though they were one").
MixedOnlyWhenOvertaken == Cardinality(book) > 1 => overtaken
================================================================================
