---------------------------------- MODULE Desk ----------------------------------
(***************************************************************************)
(* The watch set (rust/ob-cli/src/watch.rs) and the dispatcher that        *)
(* changes it (rust/ob-cli/src/actions.rs), for any number of windows on   *)
(* one watch file, with the steps in which a set is saved.  The adapter    *)
(* reads the file whenever it likes.                                       *)
(*                                                                         *)
(* A file is its lines, one symbol each; two handles on one inode write    *)
(* over each other line by line.  The other commands change how a window   *)
(* looks and nothing else.                                                 *)
(***************************************************************************)
EXTENDS Catalog

CONSTANTS
    Windows,
    Default,        \* the symbol of the configuration
    Typable,        \* the names typed
    TypedLines,     \* the lines that suggestions are asked for
    MaxCommands,    \* bound on the commands typed in all
    MaxTrouble      \* bound on the saves that fail and the windows that end in one

ASSUME DeskAssumption ==
    /\ Default \in Seq(Letters) /\ Typable \subseteq Seq(Letters) /\ TypedLines \subseteq Seq(Letters)
    /\ MaxCommands \in Nat /\ MaxTrouble \in Nat

VARIABLES
    dkSet,          \* dkSet[w].symbols, and the slot on display
    dkShown,        \* dkShown[w]: the symbol the window draws, Window.displayed
    dkSave,         \* dkSave[w]: where w is in a save, and the inode it writes
    dkInodes,       \* the lines of every inode
    dkDir,          \* the directory: the inode under each name, 0 for none
    dkForced,       \* history: names that were forced
    dkSaved,        \* history: the sets that were saved
    dkTyped,
    dkTrouble

deskVars == <<dkSet, dkShown, dkSave, dkInodes, dkDir, dkForced, dkSaved, dkTyped, dkTrouble>>

Lines == IF dkDir.watch = 0 THEN <<>> ELSE dkInodes[dkDir.watch]

\* Watch::single.
Single(s) == [symbols |-> <<s>>, display |-> 1]

\* Watch::load: the default if the file is not there or names no symbol.
Load(lines) ==
    IF SymbolsOf(lines) = <<>> THEN Single(Default) ELSE [symbols |-> SymbolsOf(lines), display |-> 1]

Idle == [at |-> "idle", inode |-> 0, switches |-> FALSE]

\* A save begins: of the terminal's opening set, or of a command's.
Saving(switches) == [at |-> "create", inode |-> 0, switches |-> switches]

DeskInit ==
    /\ dkDir = [watch |-> 0, temp |-> 0]
    /\ dkInodes = <<>>
    /\ dkSet = [w \in Windows |-> Single(Default)]
    /\ dkShown = [w \in Windows |-> Default]
    /\ dkSave = [w \in Windows |-> Saving(FALSE)]
    /\ dkForced = {} /\ dkSaved = {<<Default>>} /\ dkTyped = 0 /\ dkTrouble = 0

--------------------------------------------------------------------------------
(* The set in memory.                                                      *)

\* Watch::add.
Added(set, s) ==
    IF Contains(set.symbols, s) THEN set ELSE [set EXCEPT !.symbols = Append(@, s)]

\* Where a symbol is in a set, the first time.
Position(set, s) == Min({i \in DOMAIN set.symbols : set.symbols[i] = s})

\* Watch::select: watched if it was not, and displayed.
Select(set, s) ==
    LET added == Added(set, s)
    IN  [added EXCEPT !.display = Position(added, s)]

\* Watch::remove: the slot on display stays in range, whatever is now in it.
Unwatched(set, s) ==
    LET left == RemoveAt(set.symbols, Position(set, s))
    IN  [symbols |-> left, display |-> Min({set.display, Len(left)})]

--------------------------------------------------------------------------------
(* act.                                                                    *)

Types(w) == dkSave[w].at = "idle" /\ dkTyped < MaxCommands /\ dkTyped' = dkTyped + 1

\* The command changed the set: it is saved, and the window switches to what is
\* on display if the save goes well and the command is one that does.
Changes(w, set, switches) ==
    /\ dkSet' = [dkSet EXCEPT ![w] = set]
    /\ dkSave' = [dkSave EXCEPT ![w] = Saving(switches)]

\* A name, with or without `watch`.
ActSelect(w, typed) ==
    /\ Types(w)
    /\ Resolve(typed) # Refused
    /\ Changes(w, Select(dkSet[w], Resolve(typed)), TRUE)
    /\ UNCHANGED <<dkShown, dkInodes, dkDir, dkForced, dkSaved, dkTrouble>>

ActForce(w, typed) ==
    /\ Types(w)
    /\ SymbolFits(typed)
    /\ Changes(w, Select(dkSet[w], typed), TRUE)
    /\ dkForced' = dkForced \cup {typed}
    /\ UNCHANGED <<dkShown, dkInodes, dkDir, dkSaved, dkTrouble>>

ActOnly(w, typed) ==
    /\ Types(w)
    /\ Resolve(typed) # Refused
    /\ Changes(w, Single(Resolve(typed)), TRUE)
    /\ UNCHANGED <<dkShown, dkInodes, dkDir, dkForced, dkSaved, dkTrouble>>

\* The last symbol is not removed, and one that is not watched is a note.
ActUnwatch(w, typed) ==
    /\ Types(w)
    /\ Contains(dkSet[w].symbols, typed) /\ Len(dkSet[w].symbols) > 1
    /\ Changes(w, Unwatched(dkSet[w], typed), FALSE)
    /\ UNCHANGED <<dkShown, dkInodes, dkDir, dkForced, dkSaved, dkTrouble>>

--------------------------------------------------------------------------------
(* Watch::save.                                                            *)

\* A variant that writes the file itself.
ScratchIsTheFile == "watch"

\* The name a set is written under before it is renamed, the same for all.
Scratch == "temp"

\* File::create: the file of that name emptied, or a new one.
SaveCreate(w) ==
    /\ dkSave[w].at = "create"
    /\ LET new == Len(dkInodes) + 1
           at  == IF dkDir[Scratch] = 0 THEN new ELSE dkDir[Scratch]
       IN  /\ dkInodes' = IF at = new THEN Append(dkInodes, <<>>)
                          ELSE [dkInodes EXCEPT ![at] = <<>>]
           /\ dkDir' = [dkDir EXCEPT ![Scratch] = at]
           /\ dkSave' = [dkSave EXCEPT ![w].at = "write", ![w].inode = at]
    /\ UNCHANGED <<dkSet, dkShown, dkForced, dkSaved, dkTyped, dkTrouble>>

\* The first n lines, over whatever another handle has put there.
Written(w, n) ==
    [dkInodes EXCEPT ![dkSave[w].inode] =
        SubSeq(dkSet[w].symbols, 1, n) \o SubSeq(@, n + 1, Len(@))]

SaveWrite(w) ==
    /\ dkSave[w].at = "write"
    /\ dkInodes' = Written(w, Len(dkSet[w].symbols))
    /\ dkSave' = [dkSave EXCEPT ![w].at = "rename"]
    /\ dkSaved' = dkSaved \cup {dkSet[w].symbols}
    /\ UNCHANGED <<dkSet, dkShown, dkDir, dkForced, dkTyped, dkTrouble>>

\* What the frontend makes of the answer: a switch shows the symbol on display,
\* and a note shows nothing new.
Answered(w) ==
    dkShown' = IF dkSave[w].switches
               THEN [dkShown EXCEPT ![w] = dkSet[w].symbols[dkSet[w].display]] ELSE dkShown

\* The rename, and the answer to the command.
SaveRename(w) ==
    /\ dkSave[w].at = "rename"
    /\ dkDir[Scratch] # 0
    /\ dkDir' = [dkDir EXCEPT !.watch = dkDir[Scratch],
                              !.temp = 0]
    /\ Answered(w)
    /\ dkSave' = [dkSave EXCEPT ![w] = Idle]
    /\ UNCHANGED <<dkSet, dkInodes, dkForced, dkSaved, dkTyped, dkTrouble>>

\* A save that goes no further has written as much as it has.
CutShort(w) ==
    IF dkSave[w].at = "write"
    THEN \E n \in 0 .. Len(dkSet[w].symbols) : dkInodes' = Written(w, n)
    ELSE UNCHANGED dkInodes

\* A step of the save fails, or another window renamed the file away: a note,
\* and the set in memory stays as the command made it.
SaveFails(w) ==
    /\ dkSave[w].at # "idle"
    /\ dkTrouble < MaxTrouble \/ (dkSave[w].at = "rename" /\ dkDir[Scratch] = 0)
    /\ dkTrouble' = IF dkTrouble < MaxTrouble THEN dkTrouble + 1 ELSE dkTrouble
    /\ CutShort(w)
    /\ dkSave' = [dkSave EXCEPT ![w] = Idle]
    /\ UNCHANGED <<dkSet, dkShown, dkDir, dkForced, dkSaved, dkTyped>>

\* The window ends, in a save or out of one, and is opened again: it loads the
\* file and saves what it loaded.
Reopen(w) ==
    /\ dkTrouble < MaxTrouble
    /\ dkTrouble' = dkTrouble + 1
    /\ CutShort(w) /\ UNCHANGED dkDir
    /\ dkSet' = [dkSet EXCEPT ![w] = Load(Lines')]
    /\ dkShown' = [dkShown EXCEPT ![w] = Load(Lines').symbols[1]]
    /\ dkSave' = [dkSave EXCEPT ![w] = Saving(FALSE)]
    /\ UNCHANGED <<dkForced, dkSaved, dkTyped>>

DeskNext ==
    \E w \in Windows :
        \/ \E typed \in Typable :
            ActSelect(w, typed) \/ ActForce(w, typed) \/ ActOnly(w, typed) \/ ActUnwatch(w, typed)
        \/ SaveCreate(w) \/ SaveWrite(w) \/ SaveRename(w) \/ SaveFails(w) \/ Reopen(w)

--------------------------------------------------------------------------------
(* Properties.                                                             *)

\* A set is never empty nor twice in itself, the slot on display is one of it,
\* and nothing is watched that is neither listed nor forced: an unlisted name in
\* the combined subscription can stop the feed of all (actions.rs).
SetsAreUsable ==
    \A w \in Windows :
        /\ dkSet[w].display \in DOMAIN dkSet[w].symbols
        /\ IsInjective(dkSet[w].symbols)
        /\ ToSet(dkSet[w].symbols) \subseteq ToSet(Listed) \cup dkForced \cup {Default}

\* A reader of the watch file finds the whole of a set that was saved, whatever
\* fails and whenever a window ends (watch.rs).
FileIsAWholeSet == dkDir.watch # 0 => Lines \in dkSaved

\* What a suggestion makes of the line is accepted by a window that takes one:
\* its last word, if it is not one of the reference, stands for itself.
SuggestionsAreAccepted ==
    (\E w \in Windows : dkSave[w].at = "idle") =>
        \A line \in TypedLines : \A i \in DOMAIN Complete(line) :
            LET insert == Complete(line)[i]
                last   == SubSeq(insert, Gap(insert) + 1, Len(insert))
            IN  \/ last = <<>> \/ \E j \in DOMAIN Reference : Reference[j].name = last
                \/ Resolve(last) = last

WatchSetsAreSound == SetsAreUsable /\ FileIsAWholeSet /\ SuggestionsAreAccepted
================================================================================
