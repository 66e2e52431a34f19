-------------------------------- MODULE MCSession -------------------------------
(***************************************************************************)
(* The processes around the ring, in parts that share no state: a window   *)
(* over restarts of the feed, its frame and its screen, the feed adapter,  *)
(* and process control.  A behaviour runs one of them, which it picks at   *)
(* the start; the rest stay where they began.                              *)
(***************************************************************************)
EXTENDS Window, Compose, Adapter, Control

CONSTANT Parts      \* the parts a behaviour may pick

VARIABLE part

allVars == <<part, vars, composeVars, adapterVars, controlVars>>

--------------------------------------------------------------------------------
(* Values.                                                                 *)

MCFiles == {"f1", "f2"}

MCTickerLines ==
    <<<<"#", "B">>, <<"A", "A">>, <<"A", "B">>, <<>>, <<"A", "A">>, <<"B", "A">>>>
MCReference == <<[name |-> <<"q">>, takes |-> "nothing"], [name |-> <<"o">>, takes |-> "symbol"]>>

\* The watch file starts right, with a line that is no symbol, or with nothing
\* that trades.
MCWatchFiles == {<<"A", "long", "A">>, <<"B", "Z">>, <<"Z">>}

MCSizes == {[rows |-> 3, cols |-> 80], [rows |-> 6, cols |-> 16], [rows |-> 9, cols |-> 80],
            [rows |-> 24, cols |-> 16], [rows |-> 24, cols |-> 80]}
MCNewSizes == {[rows |-> 6, cols |-> 40], [rows |-> 12, cols |-> 80]}

Told(sentence, restartable) == [sentence |-> sentence, restartable |-> restartable]

\* Nothing to tell, an exchange that is quiet, and an adapter that is gone.
MCTold ==
    {Told(<<>>, FALSE),
     Told(<<4, 8, 3, 7, 2, 5, 5, 3, 12, 3, 3, 8, 3, 4, 5, 4, 6, 4, 4, 7, 7, 1, 6, 3, 4>>, FALSE),
     Told(<<4, 8, 3, 7, 4, 5, 5, 3, 12, 3, 3, 8, 3, 4, 5, 4, 6, 4, 4>>, TRUE)}

Typed(mode, input, offered, light) ==
    [mode |-> mode, input |-> input, offered |-> offered, light |-> light]

MCSnapshots ==
    {[news |-> "a", status |-> status, sentence |-> told.sentence, restartable |-> told.restartable,
      input |-> typed.input, offered |-> typed.offered, light |-> typed.light, mode |-> typed.mode,
      panel |-> "Book", help |-> FALSE, levels |-> 10, ticks |-> 3, consumers |-> -1] :
        status \in {<<>>, <<6, 9, 8, 1, 30, 7, 12, 4, 4, 9>>}, told \in MCTold,
        typed \in {Typed("Local", 1, 2, 1), Typed("Local", 30, 3, 2), Typed("Remote", 0, 0, 0)}}

--------------------------------------------------------------------------------
(* The parts together.                                                     *)

SessionInit ==
    /\ part \in Parts
    /\ Init /\ ComposeInit /\ AdapterInit /\ ControlInit
    /\ part # "window" => path = "f1"
    /\ part # "compose" => cmTerm.rows = 24 /\ cmTerm.cols = 80
                           /\ cmSnapshot = CHOOSE s \in Snapshots : TRUE
    /\ part # "adapter" => adFile = <<"B", "Z">>

Run(name, next, others) == part = name /\ next /\ UNCHANGED others /\ UNCHANGED part

SessionNext ==
    \/ Run("window", Next, <<composeVars, adapterVars, controlVars>>)
    \/ Run("compose", ComposeNext, <<vars, adapterVars, controlVars>>)
    \/ Run("adapter", AdapterNext, <<vars, composeVars, controlVars>>)
    \/ Run("control", ControlNext, <<vars, composeVars, adapterVars>>)

SessionSafety == SessionInit /\ [][SessionNext]_allVars

\* The fairness of Window's LiveSpec, for the part that is running.
WindowIsFair ==
    /\ WF_vars(part = "window" /\ (Check \/ CheckNotDue))
    /\ WF_vars(part = "window" /\ (Drain \/ Fault))
    /\ SF_vars(part = "window" /\ Check)

\* The adapter goes on, its waits end, the look at the watch file comes due, a
\* daemon that went away comes back, and the exchange sends pictures of what it
\* trades to who asks for them.
AdapterIsFair ==
    /\ WF_adapterVars(part = "adapter" /\ (Dial \/ Subscribe \/ Send \/ Between))
    /\ SF_adapterVars(part = "adapter" /\ Between /\ Looks)
    /\ WF_adapterVars(part = "adapter" /\ Closes)
    /\ WF_adapterVars(part = "adapter" /\ (Wakes \/ Tick))
    /\ WF_adapterVars(part = "adapter" /\ Returns)
    /\ SF_adapterVars(part = "adapter" /\ Frame)

SessionSpec == SessionSafety /\ WindowIsFair /\ AdapterIsFair
================================================================================
