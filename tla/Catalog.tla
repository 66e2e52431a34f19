--------------------------------- MODULE Catalog --------------------------------
(***************************************************************************)
(* What can be typed and what it stands for: the ticker catalog            *)
(* (rust/ob-cli/src/tickers.rs), the completion of a line                  *)
(* (rust/ob-view/src/command.rs) and the resolution of a typed name        *)
(* (rust/ob-cli/src/actions.rs).  Pure operators.                          *)
(*                                                                         *)
(* A name is the sequence of its characters, since prefixes matter; upper  *)
(* and lower case are not told apart.                                      *)
(***************************************************************************)
EXTENDS SequencesExt, FiniteSetsExt, Integers, Sift

CONSTANTS
    TickerLines,    \* the lines of the ticker file
    SymbolBytes,    \* SYMBOL_LEN: the letters the record's symbol field holds
    Reference,      \* the words of the reference, in order: [name, takes]
    Suggestions     \* SUGGESTIONS: the most offered

\* The characters, and the one that ends a word.
Letters == STRING
Separator == " "
Space == <<Separator>>

\* A line that is not empty and no comment.
IsTicker(line) == line # <<>> /\ Head(line) # "#"

\* symbol_fits: what a record's field can hold.
SymbolFits(name) == name # <<>> /\ Len(name) <= SymbolBytes

\* A ticker that does not fit is an error, and nothing starts with it.
ASSUME CatalogAssumption ==
    /\ Separator \in Letters
    /\ TickerLines \in Seq(Seq(Letters))
    /\ \A i \in DOMAIN TickerLines : IsTicker(TickerLines[i]) => SymbolFits(TickerLines[i])
    /\ Reference \in Seq([name : Seq(Letters), takes : {"nothing", "symbol", "number"}])
    /\ Suggestions \in Nat \ {0}

\* The symbols among the lines of a file, in its order, each once.
SymbolsOf(lines) ==
    Picked(lines, {i \in DOMAIN lines : /\ IsTicker(lines[i]) /\ SymbolFits(lines[i])
                                        /\ \A j \in 1 .. i - 1 : lines[j] # lines[i]})

\* Catalog::load.
Listed == SymbolsOf(TickerLines)

\* At most n of them, the first.
AtMost(n, seq) == SubSeq(seq, 1, Min({n, Len(seq)}))

Inside(part, name) == \E i \in 0 .. Len(name) : IsPrefix(part, SubSeq(name, i + 1, Len(name)))

\* Catalog::prefixed: nothing stands for an empty name.
Prefixed(typed, n) ==
    IF typed = <<>> THEN <<>> ELSE AtMost(n, Sift(Listed, {s \in ToSet(Listed) : IsPrefix(typed, s)}))

\* match_symbols: the names that begin so, then those that hold it elsewhere.
MatchSymbols(query, n) ==
    LET begin == {s \in ToSet(Listed) : IsPrefix(query, s)}
        hold  == {s \in ToSet(Listed) : Inside(query, s)}
    IN  AtMost(n, Sift(Listed, begin) \o Sift(Listed, hold \ begin))

\* The position of the first space of a line, 0 if it has none.
Gap(line) == LET at == {i \in DOMAIN line : line[i] = Separator} IN IF at = {} THEN 0 ELSE Min(at)

\* complete after a word and a space: the symbols, if the word takes one.
CompleteArgument(line, n) ==
    LET word == SubSeq(line, 1, Gap(line) - 1)
        rest == SubSeq(line, Gap(line) + 1, Len(line))
        takesSymbol == \E i \in DOMAIN Reference :
                            Reference[i].name = word /\ Reference[i].takes = "symbol"
        matches == IF takesSymbol THEN MatchSymbols(rest, n) ELSE <<>>
    IN  [i \in DOMAIN matches |-> word \o Space \o matches[i]]

\* complete of a first word: the reference's words, with a space after one that
\* takes something, and then symbols.
CompleteWord(line, n) ==
    LET words   == AtMost(n, Sift(Reference, {r \in ToSet(Reference) : IsPrefix(line, r.name)}))
        inserts == [i \in DOMAIN words |->
                        IF words[i].takes = "nothing" THEN words[i].name
                        ELSE words[i].name \o Space]
    IN  inserts \o MatchSymbols(line, n - Len(words))

\* complete: what each suggestion would make of the line.
Complete(line) ==
    IF line = <<>> THEN <<>>
    ELSE IF Gap(line) > 0 THEN CompleteArgument(line, Suggestions)
    ELSE CompleteWord(line, Suggestions)

--------------------------------------------------------------------------------
(* resolve.                                                                *)

Refused == <<>>

\* A listed name stands for itself, the beginning of just one for that one, and
\* anything else is refused.
Resolve(typed) ==
    LET begin == Prefixed(typed, Suggestions + 1)
    IN  IF Contains(Listed, typed) THEN typed
        ELSE IF Len(begin) = 1 THEN begin[1] ELSE Refused
================================================================================
