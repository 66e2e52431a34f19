---------------------------------- MODULE Config --------------------------------
(***************************************************************************)
(* One configuration file read by three programs: the flat reader and its  *)
(* gates (rust/ob/src/config.rs), what cache::build makes of the sizes,    *)
(* obctl's guard (python/obctl.py) and the adapter's watch path            *)
(* (python/feed_adapter.py).                                               *)
(*                                                                         *)
(* A file is written field by field.  The flat reader sees the sequence of *)
(* its tokens, the Python programs see the object it stands for.  A text   *)
(* is the sequence of its parts.                                           *)
(***************************************************************************)
EXTENDS SequencesExt, FiniteSetsExt, Integers

CONSTANTS
    Fields,         \* the fields a file may have: [key, value]
    MaxFields,      \* bound on the fields of a file
    SymbolLen,      \* SYMBOL_LEN: the letters of the record's symbol
    WordSize,       \* 2^32: the ring capacities that can be told apart
    SizeBits        \* 64: the bits of a number and of a size

VARIABLES
    cfFile,         \* the fields, in the order they stand in the file
    cfAllowed       \* ORDERBOOK_ALLOW_PROD is 1

configVars == <<cfFile, cfAllowed>>

\* The keys that are read, which of them have texts, and which sizes are rounded up.
TextKeys == {<<"env">>, <<"bus_path">>, <<"watch_path">>, <<"symbol">>}
SizeKeys == {<<"cache_queue">>, <<"cache_shards">>}
KeysRead ==
    TextKeys \cup SizeKeys
        \cup {<<"allow_orders">>, <<"ring_capacity">>, <<"cache_depth">>,
             <<"pressure_elevated_ns">>, <<"pressure_saturated_ns">>}

\* Values, and the punctuation, as tokens.
Text(parts) == [is |-> "text", says |-> parts]
Number(n) == [is |-> "number", says |-> n]
Word(w) == [is |-> "word", says |-> w]
Mark(m) == [is |-> "mark", says |-> m]

Values ==
    [is : {"text"}, says : Seq(STRING)] \cup [is : {"number"}, says : Nat] \cup [is : {"word"}, says : STRING]

\* What is read as a text is one and nothing else is, no number is too large to be
\* parsed, and orders are allowed or not: of a number in quotes, or of one for
\* allow_orders, the two kinds of program make different things.
ASSUME ConfigAssumption ==
    /\ MaxFields \in Nat /\ SymbolLen \in Nat \ {0} /\ WordSize \in Nat \ {0} /\ SizeBits \in Nat \ 0 .. 8
    /\ Fields \subseteq [key : Seq(STRING), value : Values]
    /\ \A f \in Fields :
          f.key \in KeysRead =>
            /\ f.value.is = "text" <=> f.key \in TextKeys
            /\ f.value.is = "number" => f.value.says < 2 ^ SizeBits
            /\ f.key = <<"allow_orders">> => f.value \in {Word("true"), Word("false")}

\* The file's tokens.
Tokens(file) ==
    LET field(f) == <<Text(f.key), Mark(":"), f.value>>
    IN  <<Mark("{")>> \o FlattenSeq([i \in DOMAIN file |->
            (IF i = 1 THEN <<>> ELSE <<Mark(",")>>) \o field(file[i])]) \o <<Mark("}")>>

ConfigInit == cfFile = <<>> /\ cfAllowed \in BOOLEAN

\* The file gains a field; no key stands in it twice.
AddField(f) ==
    /\ Len(cfFile) < MaxFields
    /\ \A i \in DOMAIN cfFile : cfFile[i].key # f.key
    /\ cfFile' = Append(cfFile, f)
    /\ UNCHANGED cfAllowed

ConfigNext == \E f \in Fields : AddField(f)

--------------------------------------------------------------------------------
(* The flat reader.                                                        *)

\* json_str: the first place the key stands in quotes, wherever that is, and what
\* follows the next colon.
Found(tokens, key) ==
    LET keys   == {i \in DOMAIN tokens : tokens[i].is = "text" /\ tokens[i].says = key}
        colons == {j \in DOMAIN tokens : j > Min(keys) /\ tokens[j] = Mark(":")}
    IN  IF keys = {} \/ colons = {} THEN <<>> ELSE <<tokens[Min(colons) + 1]>>

JsonStr(tokens, key, default) ==
    LET found == Found(tokens, key) IN IF found = <<>> THEN default ELSE found[1].says

\* json_u64 and json_bool: what is not one is the default.
JsonU64(tokens, key, default) ==
    LET found == Found(tokens, key)
    IN  IF found # <<>> /\ found[1].is = "number" THEN found[1].says ELSE default

JsonBool(tokens, key, default) ==
    LET found == Found(tokens, key)
    IN  IF found # <<>> /\ found[1].is = "word" THEN found[1].says = "true" ELSE default

\* A variant that puts the watch file where the default bus is.
BesideDefault(bus) == <<"var", "dev", "watch.txt">>

\* watch_path_beside.
Beside(bus) == Front(bus) \o <<"watch.txt">>

Defaults ==
    [env |-> <<"dev">>, bus |-> <<"var", "dev", "bus">>, symbol |-> <<"B", "T">>, orders |-> FALSE,
     ring |-> 4, queue |-> 8, depth |-> 16, shards |-> 4, symbols |-> 16, elevated |-> 1, saturated |-> 10]

\* Config::from_str.
Loaded(file) ==
    LET t   == Tokens(file)
        d   == Defaults
        bus == JsonStr(t, <<"bus_path">>, d.bus)
    IN  [env       |-> JsonStr(t, <<"env">>, d.env),
         bus       |-> bus,
         watch     |-> JsonStr(t, <<"watch_path">>, Beside(bus)),
         symbol    |-> JsonStr(t, <<"symbol">>, d.symbol),
         orders    |-> JsonBool(t, <<"allow_orders">>, d.orders),
         ring      |-> JsonU64(t, <<"ring_capacity">>, d.ring) % WordSize,
         queue     |-> JsonU64(t, <<"cache_queue">>, d.queue),
         depth     |-> JsonU64(t, <<"cache_depth">>, d.depth),
         shards    |-> JsonU64(t, <<"cache_shards">>, d.shards),
         symbols   |-> d.symbols,
         elevated  |-> JsonU64(t, <<"pressure_elevated_ns">>, d.elevated),
         saturated |-> JsonU64(t, <<"pressure_saturated_ns">>, d.saturated)]

Powers == {2 ^ i : i \in 0 .. SizeBits - 1}

\* Config::validate.
Validates(c, allowed) ==
    /\ c.env = <<"prod">> => allowed
    /\ ~(c.env = <<"dev">> /\ c.orders)
    /\ c.symbol # <<>>
    /\ Len(c.symbol) <= SymbolLen - 1
    /\ c.ring \in Powers
    /\ c.elevated < c.saturated

PowerFor(n) == Min({p \in Powers : p >= n})

\* cache_config, and cache::build: what it makes of sizes that validate let pass.
Built(c) ==
    [shards |-> PowerFor(Max({c.shards, 1})), depth |-> Max({c.depth, 1}),
     slots  |-> PowerFor(Max({c.queue, 2})), symbols |-> Max({c.symbols, 1})]

--------------------------------------------------------------------------------
(* The Python programs.                                                    *)

\* cfg.get, over the object.
Get(file, key, default) ==
    LET at == SelectInSeq(file, LAMBDA f : f.key = key) IN IF at = 0 THEN default ELSE file[at].value

\* guard.
Guarded(file, allowed) ==
    LET env == Get(file, <<"env">>, Text(<<>>))
    IN  \/ env = Text(<<"prod">>) /\ ~allowed
        \/ env = Text(<<"dev">>) /\ Get(file, <<"allow_orders">>, Word("false")) = Word("true")

\* watch_path of the adapter.
AdapterWatch(file) ==
    LET explicit == Get(file, <<"watch_path">>, Text(<<>>)).says
    IN  IF explicit # <<>> THEN explicit
        ELSE Front(Get(file, <<"bus_path">>, Text(<<"var", "dev", "bus">>)).says) \o <<"watch.txt">>

--------------------------------------------------------------------------------
(* Properties.                                                             *)

\* A text that is also the name of a key, which the flat reader takes for the key.
Decoy == \E i \in DOMAIN cfFile : cfFile[i].value.is = "text" /\ cfFile[i].value.says \in KeysRead

\* What the file says of this key is what was read, or the default.
Says(key, kind, read, default) ==
    LET value == Get(cfFile, key, [is |-> kind, says |-> default])
    IN  read = IF value.is = kind THEN value.says ELSE default

\* Wherever a field stands among the others, the flat reader reads it as the
\* object's; the window and the adapter look for one watch file; what obctl
\* refuses to start no program would load; and what is accepted can be built: a
\* ring and queues that are powers of two, no side or table of nothing, thresholds
\* in order and a symbol that a record holds whole.
ConfigIsWhatItSays ==
    LET c == Loaded(cfFile) IN
    ~Decoy =>
        /\ Says(<<"env">>, "text", c.env, Defaults.env)
        /\ Says(<<"symbol">>, "text", c.symbol, Defaults.symbol)
        /\ Says(<<"cache_queue">>, "number", c.queue, Defaults.queue)
        /\ c.orders <=> Get(cfFile, <<"allow_orders">>, Word("false")) = Word("true")
        /\ (\A i \in DOMAIN cfFile : cfFile[i].value # Text(<<>>)) => c.watch = AdapterWatch(cfFile)
        /\ Guarded(cfFile, cfAllowed) => ~Validates(c, cfAllowed)
        /\ Validates(c, cfAllowed) =>
            /\ c.ring > 0 /\ Built(c).slots \in Powers \ {1}
            /\ Built(c).shards \in Powers /\ Built(c).depth > 0 /\ Built(c).symbols > 0
            /\ c.elevated < c.saturated
            /\ Len(c.symbol) \in 1 .. SymbolLen
================================================================================
