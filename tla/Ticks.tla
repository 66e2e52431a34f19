----------------------------------- MODULE Ticks --------------------------------
(***************************************************************************)
(* What a window counts as it drains the ring: the tick table              *)
(* (rust/ob-cli/src/stats.rs), and whether the symbol on display is being  *)
(* fed (Window::drain, Window::restart_at and Snapshot::live).             *)
(*                                                                         *)
(* Time is counted in quarters of a second.  A rate is kept as the count   *)
(* and the time it is divided by.                                          *)
(***************************************************************************)
EXTENDS SequencesExt, FiniteSetsExt, Integers

CONSTANTS
    Tickers,        \* the symbols of the records
    TickRows,       \* CAPACITY: the rows of the table
    Kept,           \* HISTORY: the rates a row keeps
    Second,         \* the time between folds
    StallAfter,     \* STALL_AFTER_NS
    Late,           \* bound on the time a fold is late
    MaxLog          \* bound on the records, folds and switches

ASSUME TicksAssumption ==
    /\ IsFiniteSet(Tickers)
    /\ TickRows \in Nat \ {0} /\ Kept \in Nat \ {0} /\ Second \in Nat \ {0}
    /\ StallAfter \in Nat /\ Late \in Nat /\ MaxLog \in Nat

VARIABLES
    tiRows,         \* the rows: [symbol, count, history]
    tiOther,
    tiTotal,
    tiRate,         \* the rate over all, of the last fold
    tiSince,        \* the time since the last fold
    tiShown,        \* Window.displayed
    tiFed,
    tiAge,          \* the time since last_record, up to where it is stalled
    tiLog           \* history: the records, folds and switches, in order

ticksVars == <<tiRows, tiOther, tiTotal, tiRate, tiSince, tiShown, tiFed, tiAge, tiLog>>

Rate(count, time) == [count |-> count, time |-> time]

TicksInit ==
    /\ tiRows = <<>> /\ tiOther = 0 /\ tiTotal = 0 /\ tiRate = Rate(0, Second) /\ tiSince = 0
    /\ tiShown \in Tickers
    /\ tiFed = FALSE /\ tiAge = 0
    /\ tiLog = <<[what |-> "switch", symbol |-> tiShown]>>

Logs(entry) == Len(tiLog) < MaxLog /\ tiLog' = Append(tiLog, entry)

\* Ticks::count.
Count(s) ==
    LET at == SelectInSeq(tiRows, LAMBDA r : r.symbol = s)
    IN  IF at # 0 THEN tiRows' = [tiRows EXCEPT ![at].count = @ + 1] /\ UNCHANGED tiOther
        ELSE IF Len(tiRows) < TickRows
        THEN tiRows' = Append(tiRows, [symbol |-> s, count |-> 1, history |-> <<>>]) /\ UNCHANGED tiOther
        ELSE tiOther' = tiOther + 1 /\ UNCHANGED tiRows

\* drain: every record is counted, one of the symbol on display feeds the book.
DrainOne(s) ==
    /\ Logs([what |-> "record", symbol |-> s])
    /\ Count(s)
    /\ tiTotal' = tiTotal + 1
    /\ tiFed' = (tiFed \/ s = tiShown)
    /\ tiAge' = IF s = tiShown THEN 0 ELSE tiAge
    /\ UNCHANGED <<tiRate, tiSince, tiShown>>

\* A variant that goes on from the last count.
FoldedOn(row) ==
    LET kept == IF Len(row.history) = Kept THEN Tail(row.history) ELSE row.history
    IN  [row EXCEPT !.history = Append(kept, Rate(row.count, tiSince))]

\* The rate of the time that passed, behind those that are kept.
Folded(row) ==
    LET kept == IF Len(row.history) = Kept THEN Tail(row.history) ELSE row.history
    IN  [row EXCEPT !.history = Append(kept, Rate(row.count, tiSince)), !.count = 0]

\* fold_if_due.
Fold ==
    /\ tiSince >= Second
    /\ Logs([what |-> "fold", time |-> tiSince])
    /\ tiRows' = [i \in DOMAIN tiRows |-> Folded(tiRows[i])]
    /\ tiRate' = Rate(tiTotal, tiSince)
    /\ tiTotal' = 0 /\ tiSince' = 0
    /\ UNCHANGED <<tiOther, tiShown, tiFed, tiAge>>

\* Time passes; a frame that is late folds late.
Passes ==
    /\ tiSince < Second + Late
    /\ tiSince' = tiSince + 1
    /\ tiAge' = IF tiAge < StallAfter THEN tiAge + 1 ELSE tiAge
    /\ UNCHANGED <<tiRows, tiOther, tiTotal, tiRate, tiShown, tiFed, tiLog>>

\* Another symbol is displayed: nothing has been applied for it.
Show(s) ==
    /\ s # tiShown
    /\ Logs([what |-> "switch", symbol |-> s])
    /\ tiShown' = s /\ tiFed' = FALSE /\ tiAge' = 0
    /\ UNCHANGED <<tiRows, tiOther, tiTotal, tiRate, tiSince>>

TicksNext == Fold \/ Passes \/ \E s \in Tickers : DrainOne(s) \/ Show(s)

\* Ticks::snapshot: before its first fold a row shows its count.
ShownRate(row) == IF row.history = <<>> THEN Rate(row.count, Second) ELSE Last(row.history)

\* Snapshot::live.
IsLive == tiFed /\ tiAge < StallAfter

--------------------------------------------------------------------------------
(* Properties, from the history alone.                                     *)

At(log, what) == {i \in DOMAIN log : log[i].what = what}

Of(log, s) == {i \in At(log, "record") : log[i].symbol = s}

\* A record of t came before every one of s.
CameFirst(log, t, s) == \E i \in Of(log, t) : \A j \in Of(log, s) : i < j

\* The symbols in the order they came, as many as the table holds.
HasRow(log, s) ==
    Of(log, s) # {} /\ Cardinality({t \in Tickers : CameFirst(log, t, s)}) < TickRows

\* These entries, as far as they lie between the fold before i and i.
SinceFold(log, entries, i) ==
    {j \in entries : j < i /\ \A f \in At(log, "fold") : f < i => f < j}

\* The rate of these entries that the fold at f tells.
RateAt(log, entries, f) == Rate(Cardinality(SinceFold(log, entries, f)), log[f].time)

\* The folds since a symbol came.
FoldsOf(log, s) == {f \in At(log, "fold") : \E i \in Of(log, s) : i < f}

LaterFolds(log, s, f) == Cardinality({g \in FoldsOf(log, s) : f < g})

\* The rates of a symbol are those of the last folds since it came.
RatesAre(log, history, s) ==
    /\ Len(history) = Min({Kept, Cardinality(FoldsOf(log, s))})
    /\ \A f \in FoldsOf(log, s) :
        LaterFolds(log, s, f) < Kept =>
            history[Len(history) - LaterFolds(log, s, f)] = RateAt(log, Of(log, s), f)

RowsTell(log, rows) ==
    /\ {rows[i].symbol : i \in DOMAIN rows} = {s \in Tickers : HasRow(log, s)}
    /\ \A i \in DOMAIN rows :
        LET r == rows[i]
        IN  /\ r.count = Cardinality(SinceFold(log, Of(log, r.symbol), Len(log) + 1))
            /\ RatesAre(log, r.history, r.symbol)

OtherTells(log, other) ==
    other = Cardinality({i \in At(log, "record") : ~HasRow(log, log[i].symbol)})

TotalTells(log, total, rate) ==
    /\ total = Cardinality(SinceFold(log, At(log, "record"), Len(log) + 1))
    /\ \A f \in At(log, "fold") :
        (\A g \in At(log, "fold") : g <= f) => rate = RateAt(log, At(log, "record"), f)

FedTells(log, shown, fed) == fed <=> \E i \in Of(log, shown) : \A j \in At(log, "switch") : j < i

\* Every record is in the count, or in one of the rates, of its own symbol, or
\* among the others; a late fold divides by the time that really passed; and the
\* rate over all is that of the last fold, whatever the table could hold.
TicksAddUp ==
    /\ RowsTell(tiLog, tiRows) /\ OtherTells(tiLog, tiOther)
    /\ TotalTells(tiLog, tiTotal, tiRate) /\ FedTells(tiLog, tiShown, tiFed)
================================================================================
