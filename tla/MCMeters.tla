--------------------------------- MODULE MCMeters -------------------------------
(***************************************************************************)
(* The parts that keep their own state and share none: the decimal         *)
(* numbers, a book's side, the latency trackers, the pressure state, the   *)
(* slippage ledger, the watch set, the terminal's input, a window's tick   *)
(* table, the tail of the daemon's log and the configuration.  A behaviour *)
(* runs one of them, which it picks at the start.                          *)
(***************************************************************************)
EXTENDS Ladder, Decimal, Latency, Pressure, Slippage, Desk, Keys, Ticks, Tail, Config

VARIABLE part

MCParts == {"decimal", "ladder", "latency", "pressure", "slippage", "desk", "keys", "ticks", "tail", "config"}

MCStage1 == {NoStamp, 0, 4, 20}

MCHorizons == <<1, 2, 4>>

Take(taker, decision, action, px) ==
    [taker |-> taker, decision |-> decision, action |-> action, px |-> px]

MCTickerLines ==
    <<<<"#", "B">>, <<"A", "A">>, <<"A", "B">>, <<>>, <<"A", "A">>, <<"B", "A">>>>
MCReference == <<[name |-> <<"q">>, takes |-> "nothing"], [name |-> <<"o">>, takes |-> "symbol"]>>
MCTypable == {<<"A">>, <<"B">>, <<"B", "A">>, <<"A", "A">>}
MCTypedLines == MCTypable \cup {<<"q">>, <<"o", " ">>, <<"o", " ", "A">>, <<"o", " ", "B", "A">>}
MCDefault == <<"D">>

MCExecutions ==
    {Take("Buy", 7, 8, 9), Take("Sell", 9, 7, 6),
     Take("Buy", 0, 8, 9)}

Field(key, value) == [key |-> <<key>>, value |-> value]
MCFields ==
    {Field("env", Text(<<"prod">>)), Field("env", Text(<<"dev">>)), Field("env", Text(<<"lab">>)),
     Field("allow_orders", Word("true")), Field("allow_orders", Word("false")),
     Field("bus_path", Text(<<"run", "bus">>)), Field("bus_path", Text(<<"bus">>)),
     Field("watch_path", Text(<<"run", "list">>)), Field("watch_path", Text(<<>>)),
     Field("symbol", Text(<<"E">>)), Field("symbol", Text(<<"E", "T", "H">>)),
     Field("symbol", Text(<<"env">>)),
     Field("ring_capacity", Number(0)), Field("ring_capacity", Number(6)),
     Field("ring_capacity", Number(65)), Field("ring_capacity", Word("many")),
     Field("cache_queue", Number(0)), Field("cache_queue", Number(5)),
     Field("cache_depth", Number(0)), Field("cache_shards", Number(0)), Field("cache_shards", Number(3)),
     Field("pressure_elevated_ns", Number(10)), Field("pressure_saturated_ns", Number(11))}

Init ==
    /\ part \in MCParts
    /\ LadInit /\ DecInit /\ LatInit /\ PrInit /\ SlInit /\ DeskInit /\ KeysInit
    /\ TicksInit /\ TailInit /\ ConfigInit
    /\ part # "config" => ~cfAllowed
    /\ part # "ticks" => tiShown = CHOOSE s \in Tickers : TRUE
    /\ part # "ladder" => ladSide = "Bid"
    /\ part # "pressure" => prUptime = 0

Run(name, next, others) == part = name /\ next /\ UNCHANGED others /\ UNCHANGED part

Next ==
    \/ Run("decimal", DecNext,
           <<ladVars, latVars, prVars, slVars, deskVars, keysVars, ticksVars, tailVars, configVars>>)
    \/ Run("ladder", LadNext,
           <<decVars, latVars, prVars, slVars, deskVars, keysVars, ticksVars, tailVars, configVars>>)
    \/ Run("latency", LatNext,
           <<decVars, ladVars, prVars, slVars, deskVars, keysVars, ticksVars, tailVars, configVars>>)
    \/ Run("pressure", PrNext,
           <<decVars, ladVars, latVars, slVars, deskVars, keysVars, ticksVars, tailVars, configVars>>)
    \/ Run("slippage", SlNext,
           <<decVars, ladVars, latVars, prVars, deskVars, keysVars, ticksVars, tailVars, configVars>>)
    \/ Run("desk", DeskNext,
           <<decVars, ladVars, latVars, prVars, slVars, keysVars, ticksVars, tailVars, configVars>>)
    \/ Run("keys", KeysNext,
           <<decVars, ladVars, latVars, prVars, slVars, deskVars, ticksVars, tailVars, configVars>>)
    \/ Run("ticks", TicksNext,
           <<decVars, ladVars, latVars, prVars, slVars, deskVars, keysVars, tailVars, configVars>>)
    \/ Run("tail", TailNext,
           <<decVars, ladVars, latVars, prVars, slVars, deskVars, keysVars, ticksVars, configVars>>)
    \/ Run("config", ConfigNext,
           <<decVars, ladVars, latVars, prVars, slVars, deskVars, keysVars, ticksVars, tailVars>>)

vars == <<part, decVars, ladVars, latVars, prVars, slVars, deskVars, keysVars, ticksVars, tailVars,
          configVars>>

Spec == Init /\ [][Next]_vars
================================================================================
