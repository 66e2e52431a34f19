---------------------------------- MODULE Control -------------------------------
(***************************************************************************)
(* Process control (python/obctl.py): start with its refusals, its waits   *)
(* for a ready line and its rollback, and stop, over the pid files of one  *)
(* configuration, the processes they name and the log each kind shares.    *)
(*                                                                         *)
(* A process is what obctl can learn of it: its kind, whether it runs or   *)
(* has exited and not been collected, whether it has written its ready     *)
(* line and whether it was sent SIGTERM.  Pids are used again, by programs *)
(* that have nothing to do with the lab.                                   *)
(***************************************************************************)
EXTENDS FiniteSetsExt, Integers

CONSTANTS
    Ctls,           \* the shells obctl is run from
    Pids,
    MaxControls,    \* bound on the runs of obctl
    MaxFaults       \* bound on crashes, interrupts, silences and unreadable ps

ASSUME ControlAssumption == 0 \notin Pids /\ MaxControls \in Nat /\ MaxFaults \in Nat

VARIABLES
    coProc,         \* coProc[p]: the process at pid p
    coFile,         \* coFile[name]: the pid in the pid file, 0 if there is none
    coCtl,          \* coCtl[c]: the run of obctl in shell c
    coLost,         \* history: children whose run gave up on them, or never recorded them
    coEverLost,     \* history: there has been one
    coOverlap,      \* history: two runs of obctl were under way at once
    coRuns,
    coFaults

controlVars == <<coProc, coFile, coCtl, coLost, coEverLost, coOverlap, coRuns, coFaults>>

Vacant == [kind |-> "none", runs |-> FALSE, told |-> FALSE, term |-> FALSE, link |-> 0, by |-> "init"]

Names == {"feedd", "adapter"}

Ended == {"idle", "started", "refused", "stopped", "stuck"}

\* A run of obctl: where it is, the process it is about, the pid it read or was
\* given, whether it saw the ready line, what it spawned and what would not stop.
NewRun(at) == [at |-> at, name |-> "feedd", pid |-> 0, heard |-> FALSE, rollback |-> FALSE,
              mine |-> {}, stuck |-> {}]

ControlInit ==
    /\ coProc = [p \in Pids |-> Vacant]
    /\ coFile = [n \in Names |-> 0]
    /\ coCtl = [c \in Ctls |-> NewRun("idle")]
    /\ coLost = {} /\ coEverLost = FALSE /\ coOverlap = FALSE /\ coRuns = 0 /\ coFaults = 0

Busy(c) == coCtl[c].at \notin Ended

Trouble == coFaults < MaxFaults /\ coFaults' = coFaults + 1

Moves(c, run) == coCtl' = [coCtl EXCEPT ![c] = run]

Goes(c, at) == Moves(c, [coCtl[c] EXCEPT !.at = at])

\* A child that runs on in no pid file.
Loses(p) == coLost' = coLost \cup {p} /\ coEverLost' = TRUE

--------------------------------------------------------------------------------
(* What obctl asks of the kernel.                                          *)

\* proc_running: a zombie has a pid and is not running.
Running(p) == coProc[p].runs

\* pid_alive: signal 0 finds a zombie too.
Alive(p) == coProc[p].kind # "none"

\* owns: the command line has the marker of the name.  A zombie has none.
Owns(p, name) == Running(p) /\ coProc[p].kind = name

\* tracked: the pid file's process, alive and still this lab's.
Tracked(name) == coFile[name] # 0 /\ Alive(coFile[name]) /\ Owns(coFile[name], name)

\* The port is held by a daemon that has bound it.
Listening(p) == Running(p) /\ coProc[p].kind = "feedd" /\ coProc[p].told

PortFree == \A p \in Pids : ~Listening(p)

--------------------------------------------------------------------------------
(* start.                                                                  *)

Begins(c, at) ==
    /\ ~Busy(c) /\ coRuns < MaxControls
    /\ coRuns' = coRuns + 1
    /\ coCtl' = [d \in Ctls |->
        IF d = c THEN [NewRun(at) EXCEPT !.name = IF at = "ask" THEN "adapter" ELSE "feedd"]
        ELSE IF Busy(d) THEN coCtl[d] ELSE NewRun("idle")]
    /\ coOverlap' = (coOverlap \/ \E d \in Ctls \ {c} : Busy(d))
    /\ coProc' = [p \in Pids |-> IF coProc[p].by # c THEN coProc[p]
                                 ELSE IF Running(p) THEN [coProc[p] EXCEPT !.by = "init"] ELSE Vacant]
    /\ UNCHANGED <<coFile, coLost, coEverLost, coFaults>>

\* preflight: refuse if either pid file names a process of ours.
CheckPid(c) ==
    /\ coCtl[c].at = "check"
    /\ IF Tracked(coCtl[c].name) THEN Goes(c, "refused")
       ELSE IF coCtl[c].name = "feedd" THEN Moves(c, [coCtl[c] EXCEPT !.name = "adapter"])
       ELSE Goes(c, "port")
    /\ UNCHANGED <<coProc, coFile, coLost, coEverLost, coOverlap, coRuns, coFaults>>

\* port_refusal.
CheckPort(c) ==
    /\ coCtl[c].at = "port"
    /\ Moves(c, [coCtl[c] EXCEPT !.at = IF PortFree THEN "spawn" ELSE "refused", !.name = "feedd"])
    /\ UNCHANGED <<coProc, coFile, coLost, coEverLost, coOverlap, coRuns, coFaults>>

\* spawn: the log's length is taken and the child is there, in no pid file yet.
Spawn(c) ==
    /\ coCtl[c].at = "spawn"
    /\ \E p \in Pids :
        /\ ~Alive(p)
        /\ coProc' = [coProc EXCEPT ![p] = [Vacant EXCEPT !.kind = coCtl[c].name, !.runs = TRUE, !.by = c]]
        /\ Moves(c, [coCtl[c] EXCEPT !.at = "record", !.pid = p, !.heard = FALSE, !.mine = @ \cup {p}])
        /\ coLost' = coLost \ {p}
    /\ UNCHANGED <<coFile, coEverLost, coOverlap, coRuns, coFaults>>

\* spawn writes the pid file.
Record(c) ==
    /\ coCtl[c].at = "record"
    /\ coFile' = [coFile EXCEPT ![coCtl[c].name] = coCtl[c].pid]
    /\ Goes(c, "await")
    /\ UNCHANGED <<coProc, coLost, coEverLost, coOverlap, coRuns, coFaults>>

\* await_started sees the ready line among what the log has gained, whoever
\* wrote it: the adapter is next, or the start is good.
Ready(c) ==
    /\ coCtl[c].at = "await" /\ coCtl[c].heard
    /\ Moves(c, [coCtl[c] EXCEPT !.at = IF coCtl[c].name = "feedd" THEN "spawn" ELSE "started",
                                 !.name = "adapter"])
    /\ UNCHANGED <<coProc, coFile, coLost, coEverLost, coOverlap, coRuns, coFaults>>

\* await_started gives up: its child has exited, which its own handle says, or
\* the ceiling has passed.  The pid file goes, whether the child lives or not,
\* and the rollback begins.
GiveUp(c) ==
    /\ coCtl[c].at = "await" /\ ~coCtl[c].heard
    /\ LET p == coCtl[c].pid
       IN  IF Running(p) THEN Trouble /\ Loses(p) /\ UNCHANGED coProc
           ELSE coProc' = [coProc EXCEPT ![p] = Vacant] /\ UNCHANGED <<coLost, coEverLost, coFaults>>
    /\ coFile' = [coFile EXCEPT ![coCtl[c].name] = 0]
    /\ Moves(c, [coCtl[c] EXCEPT !.at = "ask", !.name = "adapter", !.rollback = TRUE])
    /\ UNCHANGED <<coOverlap, coRuns>>

--------------------------------------------------------------------------------
(* kill_pid, for the adapter and then for the daemon.                      *)

\* The next name, or the end: a rollback ends refused, a stop says what it found.
Onward(c, stuck) ==
    LET r == coCtl[c]
    IN  IF r.name = "adapter"
        THEN Moves(c, [r EXCEPT !.at = "ask", !.name = "feedd", !.stuck = stuck])
        ELSE Moves(c, [r EXCEPT !.stuck = stuck,
                                !.at = IF r.rollback THEN "refused"
                                       ELSE IF stuck = {} THEN "stopped" ELSE "stuck"])

\* A variant that signals whatever runs at the pid.
AskNoOne(c) ==
    /\ coCtl[c].at = "ask"
    /\ LET name == coCtl[c].name
           p    == coFile[name]
       IN  IF p = 0 THEN Onward(c, coCtl[c].stuck)
           ELSE Moves(c, [coCtl[c] EXCEPT !.pid = p, !.at = IF Running(p) THEN "signal" ELSE "forget"])
    /\ UNCHANGED <<coProc, coFile, coLost, coEverLost, coOverlap, coRuns, coFaults>>

\* What ps says of the pid in the file: nothing to stop, a program that is not
\* ours, or one to signal.
Ask(c) ==
    /\ coCtl[c].at = "ask"
    /\ LET name == coCtl[c].name
           p    == coFile[name]
       IN  IF p = 0 THEN Onward(c, coCtl[c].stuck)
           ELSE Moves(c, [coCtl[c] EXCEPT !.pid = p, !.at = IF Owns(p, name) THEN "signal" ELSE "forget"])
    /\ UNCHANGED <<coProc, coFile, coLost, coEverLost, coOverlap, coRuns, coFaults>>

\* ps cannot be asked: the file stays, and the pid is reported.
CannotTell(c) ==
    /\ \/ coCtl[c].at = "ask" /\ coFile[coCtl[c].name] # 0
       \/ coCtl[c].at = "wait"
    /\ Trouble
    /\ Onward(c, coCtl[c].stuck \cup {IF coCtl[c].at = "ask" THEN coFile[coCtl[c].name]
                                      ELSE coCtl[c].pid})
    /\ UNCHANGED <<coProc, coFile, coLost, coEverLost, coOverlap, coRuns>>

\* SIGTERM.  A pid that is gone by now cannot be signalled and is reported.
Signal(c) ==
    /\ coCtl[c].at = "signal"
    /\ IF Alive(coCtl[c].pid)
       THEN coProc' = [coProc EXCEPT ![coCtl[c].pid].term = TRUE] /\ Goes(c, "wait")
       ELSE Onward(c, coCtl[c].stuck \cup {coCtl[c].pid}) /\ UNCHANGED coProc
    /\ UNCHANGED <<coFile, coLost, coEverLost, coOverlap, coRuns, coFaults>>

\* The wait ends with the process, or with its ceiling.
WaitEnds(c) ==
    /\ coCtl[c].at = "wait"
    /\ IF Running(coCtl[c].pid) THEN Trouble /\ Onward(c, coCtl[c].stuck \cup {coCtl[c].pid})
       ELSE Goes(c, "forget") /\ UNCHANGED coFaults
    /\ UNCHANGED <<coProc, coFile, coLost, coEverLost, coOverlap, coRuns>>

\* The pid file is removed, whatever it says by now.
Forget(c) ==
    /\ coCtl[c].at = "forget"
    /\ coFile' = [coFile EXCEPT ![coCtl[c].name] = 0]
    /\ Onward(c, coCtl[c].stuck)
    /\ UNCHANGED <<coProc, coLost, coEverLost, coOverlap, coRuns, coFaults>>

\* The person interrupts obctl: KeyboardInterrupt is no SystemExit, so nothing
\* is rolled back, and a child that was not recorded yet is in no file.
Interrupt(c) ==
    /\ Busy(c) /\ Trouble
    /\ IF coCtl[c].at = "record" THEN Loses(coCtl[c].pid) ELSE UNCHANGED <<coLost, coEverLost>>
    /\ Goes(c, "idle")
    /\ UNCHANGED <<coProc, coFile, coOverlap, coRuns>>

--------------------------------------------------------------------------------
(* The processes.                                                          *)

\* One that exits is a zombie while the obctl that spawned it lives, the window
\* that a good start became included.
Exited(p) == IF coProc[p].by \in Ctls /\ (Busy(coProc[p].by) \/ coCtl[coProc[p].by].at = "started")
             THEN [coProc[p] EXCEPT !.runs = FALSE, !.told = FALSE, !.link = 0] ELSE Vacant

\* Every start that waits for the line of this kind finds it in the shared log.
Heard(kind) ==
    coCtl' = [c \in Ctls |-> IF coCtl[c].at \in {"record", "await"} /\ coCtl[c].name = kind
                             THEN [coCtl[c] EXCEPT !.heard = TRUE] ELSE coCtl[c]]

\* The daemon binds its port and says so; if the port is taken it exits.
Listen(p) ==
    /\ Running(p) /\ coProc[p].kind = "feedd" /\ ~coProc[p].told
    /\ IF PortFree THEN coProc' = [coProc EXCEPT ![p].told = TRUE] /\ Heard("feedd")
       ELSE coProc' = [coProc EXCEPT ![p] = Exited(p)] /\ UNCHANGED coCtl
    /\ UNCHANGED <<coFile, coLost, coEverLost, coOverlap, coRuns, coFaults>>

\* The adapter dials until a daemon answers, and says so each time.
Connect(p) ==
    /\ Running(p) /\ coProc[p].kind = "adapter"
    /\ \E d \in Pids : /\ Listening(d) /\ coProc[p].link # d
                       /\ coProc' = [coProc EXCEPT ![p].told = TRUE, ![p].link = d]
    /\ Heard("adapter")
    /\ UNCHANGED <<coFile, coLost, coEverLost, coOverlap, coRuns, coFaults>>

\* A process that was told to stop ends, and any may end by itself.
Ends(p) ==
    /\ Running(p) /\ coProc[p].kind \in Names
    /\ IF coProc[p].term THEN UNCHANGED coFaults ELSE Trouble
    /\ coProc' = [q \in Pids |-> IF q = p THEN Exited(p)
                                 ELSE IF coProc[q].link = p THEN [coProc[q] EXCEPT !.link = 0]
                                 ELSE coProc[q]]
    /\ UNCHANGED <<coFile, coCtl, coLost, coEverLost, coOverlap, coRuns>>

\* A program that has nothing to do with the lab is given a pid that a file still
\* names, though not between a question about that pid and the signal.
Stranger(p) ==
    /\ ~Alive(p) /\ \E n \in Names : coFile[n] = p
    /\ \A c \in Ctls : coCtl[c].at = "signal" => coCtl[c].pid # p
    /\ coProc' = [coProc EXCEPT ![p] = [Vacant EXCEPT !.kind = "other", !.runs = TRUE]]
    /\ coLost' = coLost \ {p}
    /\ UNCHANGED <<coFile, coCtl, coEverLost, coOverlap, coRuns, coFaults>>

ControlNext ==
    \/ \E c \in Ctls :
        \/ Begins(c, "check") \/ Begins(c, "ask")
        \/ CheckPid(c) \/ CheckPort(c) \/ Spawn(c) \/ Record(c) \/ Ready(c) \/ GiveUp(c)
        \/ Ask(c) \/ CannotTell(c) \/ Signal(c) \/ WaitEnds(c) \/ Forget(c) \/ Interrupt(c)
    \/ \E p \in Pids : Listen(p) \/ Connect(p) \/ Ends(p) \/ Stranger(p)

ControlSpec == ControlInit /\ [][ControlNext]_controlVars

--------------------------------------------------------------------------------
(* Properties.                                                             *)

Children == {p \in Pids : Running(p) /\ coProc[p].kind \in Names}

\* No program of somebody else is ever sent a signal, though pid files outlive
\* their processes and pids are used again (obctl.py, owns).
StrangersAreLeftAlone == \A p \in Pids : coProc[p].kind = "other" => ~coProc[p].term

\* With no obctl under way, every daemon and adapter that runs is in its pid
\* file, where the next stop and the next start's refusal find it.  A child whose
\* start gave up on it while it was alive, or was interrupted before it wrote the
\* file, is the exception; and so is a pair of obctls at once.
NothingRunsUnfound ==
    ~coOverlap /\ (\A c \in Ctls : ~Busy(c)) =>
        \A p \in Children : p \in coLost \/ coFile[coProc[p].kind] = p

\* "stop ok" is said when nothing of the lab runs, a refused start leaves nothing
\* it started but what would not stop, and a good start means that its own
\* daemon and adapter have both been heard from, while no child was ever lost
\* that could have written the line in their place.
ReportsAreTrue ==
    \A c \in Ctls : ~coOverlap /\ (\A d \in Ctls : ~Busy(d)) =>
        /\ coCtl[c].at = "stopped" => Children \subseteq coLost
        /\ coCtl[c].at = "refused" =>
            coCtl[c].mine \cap Children \subseteq coLost \cup coCtl[c].stuck
        /\ coCtl[c].at = "started" /\ ~coEverLost =>
            \A p \in coCtl[c].mine \cap Children : coProc[p].told

\* Two adapters on one daemon would double what it publishes (preflight): while
\* none was ever lost there is one.
OneAdapterFeeds ==
    ~coOverlap /\ ~coEverLost =>
        \A p, q \in Children : coProc[p].link # 0 /\ coProc[q].link # 0 => p = q

ProcessesAreAccounted ==
    StrangersAreLeftAlone /\ NothingRunsUnfound /\ ReportsAreTrue /\ OneAdapterFeeds
================================================================================
