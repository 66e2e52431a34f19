---------------------------------- MODULE Keys ----------------------------------
(***************************************************************************)
(* The terminal's input (rust/ob-cli/src/bin/tui.rs): a thread that reads  *)
(* bytes and queues commands, and the frame loop that takes the queue and  *)
(* edits the line.  A key is the bytes the terminal sends for it, all at   *)
(* once; how long a byte takes to come is whether the reader's wait for it *)
(* ends first.                                                             *)
(***************************************************************************)
EXTENDS Catalog

CONSTANTS
    Pressed,        \* the keys a person presses
    InputLimit,     \* INPUT_LIMIT
    MaxKeys         \* bound on the keys pressed

VARIABLES
    kyTty,          \* the bytes waiting in the terminal
    kyTail,         \* what the reader has of an escape sequence, if it is in one
    kyInEscape,
    kyPending,      \* Input.pending
    kyLine,         \* Input.line, and Input.highlighted
    kyLight,
    kyMine,         \* the loop's own line between its two locks
    kyMineLight,
    kyLoop,
    kySubmitted,    \* the lines the dispatcher was given
    kyMeant,        \* history: the keys pressed, in order
    kyHurried,      \* history: a key came while an Escape was being waited out
    kyOverflowed    \* history: the reader let a character go for want of room

keysVars == <<kyTty, kyTail, kyInEscape, kyPending, kyLine, kyLight, kyMine, kyMineLight, kyLoop,
              kySubmitted, kyMeant, kyHurried, kyOverflowed>>

\* What the terminal sends for a key: a character, a control byte, or a sequence.
Bytes(key) ==
    CASE key = "Up"     -> <<"esc", "[", "A">>
      [] key = "Down"   -> <<"esc", "O", "B">>
      [] key = "Right"  -> <<"esc", "[", "C">>
      [] key = "CtrlUp" -> <<"esc", "[", "1", ";", "5", "A">>
      [] key = "Escape" -> <<"esc">>
      [] OTHER          -> <<key>>

Control == {"esc", "Enter", "Tab", "Back"}

\* The byte that begins a sequence is no character.
ASSUME KeysAssumption ==
    /\ Pressed \subseteq Letters \ {"esc"} /\ InputLimit \in Nat \ {0} /\ MaxKeys \in Nat

KeysInit ==
    /\ kyTty = <<>> /\ kyTail = <<>> /\ kyInEscape = FALSE
    /\ kyPending = <<>> /\ kyLine = <<>> /\ kyLight = 0
    /\ kyMine = <<>> /\ kyMineLight = 0 /\ kyLoop = "take"
    /\ kySubmitted = <<>> /\ kyMeant = <<>> /\ kyHurried = FALSE /\ kyOverflowed = FALSE

--------------------------------------------------------------------------------
(* The reader.                                                             *)

\* A key is pressed.
Press(key) ==
    /\ Len(kyMeant) < MaxKeys
    /\ kyTty' = kyTty \o Bytes(key)
    /\ kyMeant' = Append(kyMeant, key)
    /\ kyHurried' = (kyHurried \/ kyInEscape \/ (kyTty # <<>> /\ Last(kyTty) = "esc"))
    /\ UNCHANGED <<kyTail, kyInEscape, kyPending, kyLine, kyLight, kyMine, kyMineLight, kyLoop,
                   kySubmitted, kyOverflowed>>

Queue(commands) == kyPending' = kyPending \o commands

TypeOf(byte) == [does |-> "Type", with |-> byte]

\* The command of a byte that is not an escape; a character is let go when the
\* line of the last frame is full.
ReadByte ==
    /\ ~kyInEscape /\ kyTty # <<>> /\ Head(kyTty) # "esc"
    /\ LET byte == Head(kyTty)
           full == byte \notin Control /\ Len(kyLine) >= InputLimit
       IN  /\ Queue(IF full THEN <<>>
                    ELSE IF byte \in Control THEN <<[does |-> byte, with |-> 0]>>
                    ELSE <<TypeOf(byte)>>)
           /\ kyOverflowed' = (kyOverflowed \/ full)
    /\ kyTty' = Tail(kyTty)
    /\ UNCHANGED <<kyTail, kyInEscape, kyLine, kyLight, kyMine, kyMineLight, kyLoop, kySubmitted,
                   kyMeant, kyHurried>>

BeginEscape ==
    /\ ~kyInEscape /\ kyTty # <<>> /\ Head(kyTty) = "esc"
    /\ kyInEscape' = TRUE /\ kyTail' = <<>>
    /\ kyTty' = Tail(kyTty)
    /\ UNCHANGED <<kyPending, kyLine, kyLight, kyMine, kyMineLight, kyLoop, kySubmitted, kyMeant,
                   kyHurried, kyOverflowed>>

\* ESCAPE_TAIL_BYTES.
TailBytes == 4

\* read_escape has all it reads: a bracket or an O and one byte, or as many as
\* it holds.
TailIsComplete(tail) ==
    \/ Len(tail) = 2 /\ Head(tail) \in {"[", "O"}
    \/ Len(tail) = TailBytes

\* A byte of the sequence came within the wait.
EscapeByte ==
    /\ kyInEscape /\ ~TailIsComplete(kyTail) /\ kyTty # <<>>
    /\ kyTail' = Append(kyTail, Head(kyTty))
    /\ kyTty' = Tail(kyTty)
    /\ UNCHANGED <<kyInEscape, kyPending, kyLine, kyLight, kyMine, kyMineLight, kyLoop,
                   kySubmitted, kyMeant, kyHurried, kyOverflowed>>

Moves(delta) == <<[does |-> "Move", with |-> delta]>>

\* classify_escape: nothing is the key itself; of a sequence the last byte, or
\* the first after an O, says which arrow; anything else is the characters that
\* came, and only those.
ClassifyEscape(tail) ==
    IF tail = <<>> THEN <<[does |-> "Clear", with |-> 0]>>
    ELSE IF Head(tail) \in {"[", "O"} THEN
        CASE Len(tail) > 1 /\ tail[2] = "A" -> Moves(-1)
          [] Len(tail) > 1 /\ tail[2] = "B" -> Moves(1)
          [] OTHER                          -> <<>>
    ELSE LET typed == SelectSeq(tail, LAMBDA b : b \notin Control)
         IN  [i \in DOMAIN typed |-> TypeOf(typed[i])]

\* The sequence is complete, or the wait for the rest of it ends.  Characters
\* are let go past the limit, counting what is queued.
EndEscape ==
    /\ kyInEscape
    /\ TailIsComplete(kyTail) \/ kyTty = <<>>
    /\ LET found == ClassifyEscape(kyTail)
           room  == IF Len(found) > 0 /\ found[1].does = "Type"
                    THEN Max({InputLimit - Len(kyLine) - Len(kyPending), 0}) ELSE Len(found)
       IN  /\ Queue(AtMost(room, found))
           /\ kyOverflowed' = (kyOverflowed \/ room < Len(found))
    /\ kyInEscape' = FALSE /\ kyTail' = <<>>
    /\ UNCHANGED <<kyTty, kyLine, kyLight, kyMine, kyMineLight, kyLoop, kySubmitted, kyMeant,
                   kyHurried>>

Reader == ReadByte \/ BeginEscape \/ EscapeByte \/ EndEscape

--------------------------------------------------------------------------------
(* The loop.                                                               *)

\* The editor: the line, the slot highlighted, and the lines submitted.
Editor(line, light) == [line |-> line, light |-> light, submitted |-> <<>>]

\* What Tab makes of the line: the suggestion highlighted, or the first.
Chosen(e) ==
    LET offers == Complete(e.line)
    IN  IF e.light + 1 \in DOMAIN offers THEN offers[e.light + 1] ELSE offers[1]

\* One command of the queue, applied to the line.
Edit(e, command) ==
    CASE command.does = "Type"  -> IF Len(e.line) < InputLimit
                                   THEN [e EXCEPT !.line = Append(@, command.with), !.light = 0]
                                   ELSE e
      [] command.does = "Back"  -> [e EXCEPT !.line = IF @ = <<>> THEN @ ELSE Front(@), !.light = 0]
      [] command.does = "Clear" -> [e EXCEPT !.line = <<>>, !.light = 0]
      [] command.does = "Move"  -> IF Complete(e.line) = <<>> THEN e
                                   ELSE [e EXCEPT !.light =
                                            (@ + command.with) % Len(Complete(e.line))]
      [] command.does = "Tab"   -> IF Complete(e.line) = <<>> THEN e
                                   ELSE [e EXCEPT !.line = Chosen(e), !.light = 0]
      [] command.does = "Enter" -> [e EXCEPT !.line = <<>>, !.light = 0,
                                             !.submitted = Append(@, e.line)]

\* The commands of a burst, applied in order.
Edited(e, commands) ==
    LET after[n \in 0 .. Len(commands)] ==
            IF n = 0 THEN e ELSE Edit(after[n - 1], commands[n])
    IN  after[Len(commands)]

\* The line a burst leaves in what is shared before the loop writes it back: a
\* completion and a submission write it as they are applied.
WroteLast(commands) ==
    LET before(i) == Edited(Editor(kyLine, kyLight), SubSeq(commands, 1, i - 1)).line
        writes    == {i \in DOMAIN commands :
                        \/ commands[i].does = "Enter"
                        \/ commands[i].does = "Tab" /\ Complete(before(i)) # <<>>}
    IN  IF writes = {} THEN kyLine ELSE before(Max(writes) + 1)

\* A variant that takes one command a frame and forgets the rest.
TakeLast ==
    /\ kyLoop = "take"
    /\ LET burst == IF kyPending = <<>> THEN <<>> ELSE <<Last(kyPending)>>
           done  == Edited(Editor(kyLine, kyLight), burst)
       IN  /\ kyMine' = done.line /\ kyMineLight' = done.light
           /\ kySubmitted' = kySubmitted \o done.submitted
           /\ kyLine' = WroteLast(burst)
    /\ kyPending' = <<>>
    /\ kyLoop' = "write"
    /\ UNCHANGED <<kyTty, kyTail, kyInEscape, kyLight, kyMeant, kyHurried, kyOverflowed>>

\* The queue is taken under the lock, and applied in order without it.
TakePending ==
    /\ kyLoop = "take"
    /\ LET done == Edited(Editor(kyLine, kyLight), kyPending)
       IN  /\ kyMine' = done.line /\ kyMineLight' = done.light
           /\ kySubmitted' = kySubmitted \o done.submitted
           /\ kyLine' = WroteLast(kyPending)
    /\ kyPending' = <<>>
    /\ kyLoop' = "write"
    /\ UNCHANGED <<kyTty, kyTail, kyInEscape, kyLight, kyMeant, kyHurried, kyOverflowed>>

\* The line is written back, and the frame drawn.
WriteBack ==
    /\ kyLoop = "write"
    /\ kyLine' = kyMine /\ kyLight' = kyMineLight
    /\ kyLoop' = "take"
    /\ UNCHANGED <<kyTty, kyTail, kyInEscape, kyPending, kyMine, kyMineLight, kySubmitted, kyMeant,
                   kyHurried, kyOverflowed>>

KeysNext == Reader \/ TakePending \/ WriteBack \/ \E key \in Pressed : Press(key)

--------------------------------------------------------------------------------
(* Properties.                                                             *)

\* What a key is for, whatever it is made of.
Meaning(key) ==
    CASE key \in {"Up", "CtrlUp"}        -> Moves(-1)
      [] key = "Down"                    -> Moves(1)
      [] key = "Right"                   -> <<>>
      [] key = "Escape"                  -> <<[does |-> "Clear", with |-> 0]>>
      [] key \in Control                 -> <<[does |-> key, with |-> 0]>>
      [] OTHER                           -> <<TypeOf(key)>>

\* The editor after everything typed, one key at a time.
Ideal ==
    LET after[n \in 0 .. Len(kyMeant)] ==
            IF n = 0 THEN Editor(<<>>, 0) ELSE Edited(after[n - 1], Meaning(kyMeant[n]))
    IN  after[Len(kyMeant)]

\* Once everything pressed has been read and applied, the line is what was typed
\* and the dispatcher was given the lines that were entered: no key is lost, none
\* is applied twice or out of order, and no byte of a sequence is typed, however
\* the reader and the frames interleave.  Two exceptions are the code's own: a
\* key that follows an Escape within its wait, and a character let go at the
\* limit.
LineIsWhatWasTyped ==
    kyTty = <<>> /\ ~kyInEscape /\ kyPending = <<>> /\ kyLoop = "take"
    /\ ~kyHurried /\ ~kyOverflowed =>
        kyLine = Ideal.line /\ kySubmitted = Ideal.submitted /\ kyLight = Ideal.light
================================================================================
