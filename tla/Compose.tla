---------------------------------- MODULE Compose -------------------------------
(***************************************************************************)
(* From a snapshot to the screen: the budget of rows by which compose      *)
(* (rust/ob-view/src/compose.rs) cuts a frame to the terminal,             *)
(* FrameCache.render (line.rs), which writes the rows that changed, and    *)
(* the drawing part of tui.rs's loop, on a terminal that is resized while  *)
(* it draws.                                                               *)
(*                                                                         *)
(* A row is its block, its place in it, its width and what it says; a      *)
(* text to be wrapped is the sequence of the lengths of its words.         *)
(***************************************************************************)
EXTENDS Catalog

CONSTANTS
    Sizes,          \* the sizes of the terminal to start with: [rows, cols]
    NewSizes,       \* what it is resized to, other than to what it was before
    Snapshots,      \* what may be gathered for the first frame
    MaxDraws,       \* bound on the frames
    MaxResizes      \* bound on the resizes

\* A terminal that gives no size is taken to have one; a window asks for a level
\* at least, and the entry highlighted is one that is offered.
SizeType == [rows : Nat \ {0}, cols : Nat \ {0}]

SnapshotType ==
    [news : {"a", "b"}, status : Seq(Nat), sentence : Seq(Nat), restartable : BOOLEAN,
     input : Nat, offered : Nat, light : Nat, mode : {"Local", "Remote", "None"},
     panel : {"Book", "Status"}, help : BOOLEAN, levels : Nat \ {0}, ticks : Nat, consumers : Int]

ASSUME ComposeAssumption ==
    /\ Sizes \subseteq SizeType /\ NewSizes \subseteq SizeType
    /\ Snapshots \subseteq {s \in SnapshotType : s.light < s.offered \/ s.light = 0}
    /\ MaxDraws \in Nat /\ MaxResizes \in Nat

VARIABLES
    cmTerm,         \* the terminal's size
    cmScreen,       \* cmScreen[i]: the row on its line i
    cmSnapshot,     \* what there is to show
    cmSize,         \* the size the loop read
    cmFrame,        \* the frame it composed: rows, cursor, prompt row
    cmCache,        \* FrameCache: the rows it takes the screen to have, and their size
    cmAt,           \* whether the loop gathers or writes
    cmResized,      \* history: resized since the size was read
    cmMissed,       \* history: resized, and the size read was that of the last frame
    cmDraws,
    cmResizes

composeVars == <<cmTerm, cmScreen, cmSnapshot, cmSize, cmFrame, cmCache, cmAt, cmResized, cmMissed,
                 cmDraws, cmResizes>>

StatusRows == 2
DiagnosticRows == 3
RemedyRows == 2
MinBody == 3

\* The rows of a remedy: the command, the path of the configuration, the rest.
Remedy == <<<<5, 3, 4, 5, 2, 7, 7, 4, 9>>, <<33>>, <<4, 6, 10, 2, 7, 5, 5, 5, 5, 3>>>>

\* The widths of the rows that are not wrapped.
Wide == 84

TableWidth == 54

Less(a, b) == IF a > b THEN a - b ELSE 0

Row(block, at, width) ==
    [block |-> block, at |-> at, width |-> width, says |-> "", chosen |-> FALSE, cut |-> FALSE]

Rows(block, n, width) == [i \in 1 .. n |-> Row(block, i, width)]

\* A word goes on the row, or begins the next; one longer than a row is cut to it.
Joined(out, w, cols) ==
    LET word == Min({w, cols})
    IN  IF out.now # 0 /\ out.now + 1 + w > cols
        THEN [done |-> Append(out.done, out.now), now |-> word]
        ELSE [out EXCEPT !.now = IF @ = 0 THEN word ELSE @ + 1 + word]

Wrap(words, cols) ==
    LET out[n \in 0 .. Len(words)] ==
            IF n = 0 THEN [done |-> <<>>, now |-> 0] ELSE Joined(out[n - 1], words[n], cols)
        last == out[Len(words)]
    IN  IF last.now = 0 THEN last.done ELSE Append(last.done, last.now)

Wrapped(block, words, cols) ==
    LET widths == Wrap(words, cols) IN [i \in DOMAIN widths |-> Row(block, i, widths[i])]

\* The header and the time rows: the header says what is new in this snapshot.
Head3(s) == <<[Row("header", 1, Wide) EXCEPT !.says = s.news]>> \o Rows("times", 2, Wide)

\* diagnostic: the sentence, and the remedy for an adapter that is not there.
Diagnostic(s, cols) ==
    LET sentence == AtMost(DiagnosticRows, Wrapped("sentence", s.sentence, cols))
        remedy   == Wrapped("remedy", Remedy[1], cols) \o Wrapped("remedy", Remedy[2], cols)
                    \o Wrapped("remedy", Remedy[3], cols)
    IN  IF s.sentence = <<>> THEN <<>>
        ELSE AtMost(DiagnosticRows + RemedyRows, IF s.restartable THEN sentence \o remedy ELSE sentence)

\* picker_lines.
Picker(s, remaining) ==
    LET shown    == IF s.mode # "Local" \/ s.input = 0 THEN 0
                    ELSE Min({s.offered, Suggestions, Less(remaining, MinBody)})
        selected == Min({s.light, Less(shown, 1)})
    IN  [i \in 1 .. shown |-> [Row("picker", i, Wide) EXCEPT !.chosen = (i = selected + 1)]]

\* A variant that keeps no row for the note.
TableOverfull(s, rows) ==
    LET shown  == Min({s.levels, rows - 1})
        levels == [i \in 1 .. shown |-> [Row("level", i, TableWidth) EXCEPT !.says = s.news]]
    IN  IF rows = 0 THEN <<>>
        ELSE IF rows < MinBody THEN Rows("note", 1, Wide)
        ELSE Rows("columns", 1, TableWidth) \o levels
             \o (IF shown < s.levels THEN Rows("note", 1, Wide) ELSE <<>>)

\* table: the column headers, the levels, and a note when levels were cut.
Table(s, rows) ==
    LET all    == Min({s.levels, rows - 1})
        cut    == all < s.levels
        shown  == IF cut THEN Min({s.levels, Max({rows - 2, 1})}) ELSE all
        levels == [i \in 1 .. shown |-> [Row("level", i, TableWidth) EXCEPT !.says = s.news]]
    IN  IF rows = 0 THEN <<>>
        ELSE IF rows < MinBody THEN Rows("note", 1, Wide)
        ELSE Rows("columns", 1, TableWidth) \o levels \o (IF cut THEN Rows("note", 1, Wide) ELSE <<>>)

\* dashboard: its last row gives way to a note when it is cut.
Dashboard(s, rows) ==
    LET daemon == IF s.consumers < 0 THEN 1 ELSE 3 + s.consumers
        all    == 4 + Max({1, s.ticks}) + daemon
    IN  IF all <= rows THEN Rows("dashboard", all, Wide)
        ELSE IF rows = 0 THEN <<>>
        ELSE Rows("dashboard", rows - 1, Wide) \o Rows("note", 1, Wide)

Prompt(s) ==
    IF s.mode = "Remote" THEN <<>>
    ELSE <<Row("prompt", 1, IF s.mode = "Local" THEN 2 + s.input ELSE 44)>>

\* The last cut: no more rows than there are, and none that is wider.
Fitted(lines, rows, cols) ==
    LET kept == AtMost(rows, lines)
    IN  [i \in DOMAIN kept |-> IF kept[i].width <= cols THEN kept[i]
                               ELSE [kept[i] EXCEPT !.width = cols, !.cut = TRUE]]

\* A block takes what it wants of the rows that are left, but for one.
Seated(rows, left) == AtMost(Less(left, 1), rows)

\* The blocks around the body, each of what the ones before it left.
Seats(s, cols, room) ==
    LET diagnostic == Seated(Diagnostic(s, cols), room)
        under      == room - Len(diagnostic)
        picker     == Seated(Picker(s, under), under)
        rest       == under - Len(picker)
        help       == Seated(IF s.help THEN Rows("help", Len(Reference), Wide) ELSE <<>>, rest)
    IN  [diagnostic |-> diagnostic, picker |-> picker, help |-> help, left |-> rest - Len(help)]

\* The rows in the order of the screen: those above the prompt, with the body in
\* what is left, then the prompt and the help.
Above(s, status, seats) ==
    Head3(s) \o seats.diagnostic
    \o (IF s.panel = "Book" THEN Table(s, seats.left) ELSE Dashboard(s, seats.left))
    \o status \o seats.picker

Laid(s, rows, cols, room, above, help) ==
    LET lines == Fitted(above \o Prompt(s) \o help, rows, cols)
        at    == Len(above) + 1
    IN  [rows   |-> lines,
         cursor |-> IF s.mode = "Local" /\ at <= Len(lines)
                    THEN <<at, 3 + Min({s.input, cols - 3})>> ELSE <<>>,
         room   |-> room]

\* compose.
Composed(s, size) ==
    LET cols   == Max({size.cols, 20})
        rows   == Max({size.rows, 4})
        status == AtMost(StatusRows, Wrapped("status", s.status, cols))
        room   == Less(rows, Len(Head3(s)) + Len(Prompt(s)) + Len(status))
        seats  == Seats(s, cols, room)
    IN  Laid(s, rows, cols, room, Above(s, status, seats), seats.help)

--------------------------------------------------------------------------------
(* The loop and the terminal.                                              *)

Blank == Row("blank", 0, 0)

Garbled == Row("garbled", 0, 0)

NoFrame == [rows |-> <<>>, cursor |-> <<>>, room |-> 0]

ComposeInit ==
    /\ cmTerm \in Sizes
    /\ cmScreen = [i \in 1 .. cmTerm.rows |-> Garbled]
    /\ cmSnapshot \in Snapshots
    /\ cmSize = cmTerm
    /\ cmFrame = NoFrame
    /\ cmCache = [rows |-> <<>>, size |-> [rows |-> 0, cols |-> 0]]
    /\ cmAt = "gather"
    /\ cmResized = FALSE /\ cmMissed = FALSE
    /\ cmDraws = 0 /\ cmResizes = 0

\* The size is read and the frame composed.
Gather ==
    /\ cmAt = "gather" /\ cmDraws < MaxDraws
    /\ cmSize' = cmTerm
    /\ cmFrame' = Composed(cmSnapshot, cmTerm)
    /\ cmMissed' = (cmMissed \/ (cmResized /\ cmTerm = cmCache.size))
    /\ cmResized' = FALSE
    /\ cmAt' = "write"
    /\ UNCHANGED <<cmTerm, cmScreen, cmSnapshot, cmCache, cmDraws, cmResizes>>

\* A row is written on its line or, on a terminal that is shorter by now, on the
\* last.
Put(screen, line, row) == [screen EXCEPT ![Min({line, Len(screen)})] = row]

\* A variant that leaves the rows of a longer frame where they are.
RenderedNoErase(screen, known, frame) ==
    LET drawn[n \in 0 .. Len(frame)] ==
            IF n = 0 THEN screen
            ELSE IF n <= Len(known) /\ known[n] = frame[n] THEN drawn[n - 1]
            ELSE Put(drawn[n - 1], n, frame[n])
    IN  drawn[Len(frame)]

\* What render writes makes this of the screen: line by line the rows that are not
\* known to be there, and then the rows that a longer frame left are erased.
Rendered(screen, known, frame) ==
    LET lines == Max({Len(frame), Len(known)})
        drawn[n \in 0 .. lines] ==
            IF n = 0 THEN screen
            ELSE IF n > Len(frame) THEN Put(drawn[n - 1], n, Blank)
            ELSE IF n <= Len(known) /\ known[n] = frame[n] THEN drawn[n - 1]
            ELSE Put(drawn[n - 1], n, frame[n])
    IN  drawn[lines]

\* render and the write.
Write ==
    LET cleared == cmSize # cmCache.size
        known   == IF cleared THEN <<>> ELSE cmCache.rows
        frame   == AtMost(cmSize.rows, cmFrame.rows)
        blank   == [i \in DOMAIN cmScreen |-> Blank]
    IN  /\ cmAt = "write"
        /\ cmScreen' = Rendered(IF cleared THEN blank ELSE cmScreen, known, frame)
        /\ cmCache' = [rows |-> frame, size |-> cmSize]
        /\ cmMissed' = (cmMissed /\ ~cleared)
        /\ cmAt' = "gather"
        /\ cmDraws' = cmDraws + 1
        /\ UNCHANGED <<cmTerm, cmSnapshot, cmSize, cmFrame, cmResized, cmResizes>>

\* The terminal is resized; what it makes of its rows is its own affair.
Resize(size) ==
    /\ 0 < cmDraws /\ cmDraws < MaxDraws /\ cmResizes < MaxResizes /\ size # cmTerm
    /\ cmTerm' = size
    /\ cmScreen' = [i \in 1 .. size.rows |-> Garbled]
    /\ cmResized' = TRUE
    /\ cmResizes' = cmResizes + 1
    /\ UNCHANGED <<cmSnapshot, cmSize, cmFrame, cmCache, cmAt, cmMissed, cmDraws>>

\* What there is to show changes once between two frames: a price, the help, the
\* panel, what was typed, the feed, the depth.
Turn ==
    /\ cmAt = "gather" /\ cmDraws = 1
    /\ cmSnapshot' \in
        {[cmSnapshot EXCEPT !.news = IF @ = "a" THEN "b" ELSE "a"],
         [cmSnapshot EXCEPT !.help = ~@],
         [cmSnapshot EXCEPT !.panel = IF @ = "Book" THEN "Status" ELSE "Book"],
         [cmSnapshot EXCEPT !.status = <<>>, !.input = 0, !.offered = 0, !.light = 0],
         [cmSnapshot EXCEPT !.sentence = <<>>, !.restartable = FALSE],
         [cmSnapshot EXCEPT !.levels = 1]}
    /\ UNCHANGED <<cmTerm, cmScreen, cmSize, cmFrame, cmCache, cmAt, cmResized, cmMissed, cmDraws, cmResizes>>

ComposeNext == Gather \/ Write \/ Turn \/ \E size \in NewSizes \cup {cmCache.size} : Resize(size)

--------------------------------------------------------------------------------
(* Properties.                                                             *)

Drawn(block) == {i \in DOMAIN cmFrame.rows : cmFrame.rows[i].block = block}

Body == UNION {Drawn(b) : b \in {"columns", "level", "dashboard", "note"}}

\* A frame is no taller and no wider than the window, or than the least window
\* there is a frame for, and no wrapped sentence is cut by that.
StaysInside ==
    /\ Len(cmFrame.rows) <= Max({cmSize.rows, 4})
    /\ \A i \in DOMAIN cmFrame.rows :
        /\ cmFrame.rows[i].width <= Max({cmSize.cols, 20})
        /\ cmFrame.rows[i].cut => cmFrame.rows[i].block \notin {"sentence", "remedy", "status"}

\* Whatever competes for the rows, the prompt is there from six rows on, the body
\* has a row wherever one was left, and it is still a table under a picker.
NobodyIsSqueezedOut ==
    /\ cmSize.rows >= 6 /\ cmSnapshot.mode # "Remote" => Drawn("prompt") # {}
    /\ cmFrame.room > 0 => Body # {}
    /\ Drawn("picker") # {} /\ ~cmSnapshot.help => Cardinality(Body) >= MinBody \/ Drawn("level") # {}

\* The cursor stands in the row of the prompt, behind what was typed, and the
\* entry the picker marks is the one Tab takes, unless not all of them fit.
CursorIsAtThePrompt ==
    /\ cmFrame.cursor # <<>> =>
        /\ Drawn("prompt") = {cmFrame.cursor[1]}
        /\ cmFrame.cursor[2] = Min({3 + cmSnapshot.input, Max({cmSize.cols, 20})})
    /\ cmSnapshot.mode = "Local" /\ Drawn("prompt") # {} => cmFrame.cursor # <<>>
    /\ \A i \in Drawn("picker") :
        Cardinality(Drawn("picker")) = cmSnapshot.offered =>
            (cmFrame.rows[i].chosen <=> cmFrame.rows[i].at = cmSnapshot.light + 1)

\* A frame that was just composed fits the window it was composed for
\* (compose.rs: "never write more rows than the terminal has").
FrameFits == cmAt = "write" => StaysInside /\ NobodyIsSqueezedOut /\ CursorIsAtThePrompt

\* After every frame the screen shows that frame and nothing of the ones before,
\* though only the rows that changed were written; unless the terminal has been
\* resized since its size was read, or was resized away and back unseen.
ScreenIsTheFrame ==
    cmAt = "gather" /\ cmDraws > 0 /\ ~cmResized /\ ~cmMissed =>
        \A i \in DOMAIN cmScreen :
            cmScreen[i] = IF i <= Len(cmFrame.rows) THEN cmFrame.rows[i] ELSE Blank
================================================================================
