-------------------------------- MODULE Report --------------------------------
(***************************************************************************)
(* How a schema file is complained about: CheckNoTabs scans it              *)
(* (diag/tabs.go), Parse walks its keys if there is no tab, an unknown key  *)
(* is answered by suggest, every diagnostic is appended as it is found, and *)
(* Render sorts them and draws each on the line it names (diag/render.go).  *)
(*                                                                         *)
(* Three parts find lines and columns by themselves: the tab scanner,      *)
(* goccy (whose tokens Keys gives) and Render's line splitter.             *)
(***************************************************************************)
EXTENDS Suggest, SequencesExt

CONSTANTS
    Texts,              \* what the file may hold
    Letters,            \* runes a key is written with; those in Odd are not printed as they are
    Odd,
    Tab, LF, CR, BOM, Blank, Placeholder,
    Orders,             \* a mapping's known keys, in the orders they may come
    Messages,           \* what other checks say, numbered as they sort
    MaxTabs,            \* maxTabDiagnostics
    MaxBlame            \* bound: diagnostics of other checks

ASSUME TextAssumption ==
    /\ \A t \in Texts : t \in Seq(ToSet(t))
    /\ Tab \notin {LF, CR} /\ LF # CR /\ Letters \cap {LF, CR} = {}

\* Message 0 is what is said of an unknown key; no other check says it.
ASSUME MessageAssumption == MaxTabs \in Nat /\ Messages \subseteq Nat \ {0}

VARIABLES
    text,
    phase,              \* "scan", "walk", "suggest", "render", "done"
    at, line, col,      \* where the scanner is
    offending, curIdx,  \* the lines with tabs so far, and the one being tallied
    todo,               \* keys not looked at
    ds,                 \* the accumulator
    report              \* what Render prints, a block for each diagnostic

scanner == <<at, line, col, offending, curIdx>>
reportVars == <<text, phase, scanner, todo, ds, report, vars>>

\* stripLeadingBOM and stripBOM.
StripBOM(t) == IF t # <<>> /\ Head(t) = BOM THEN Tail(t) ELSE t

Src == StripBOM(text)

ReportInit ==
    /\ text \in Texts /\ phase = "scan"
    /\ at = 1 /\ line = 1 /\ col = 1 /\ offending = <<>> /\ curIdx = 0
    /\ todo = {} /\ ds = <<>> /\ report = <<>>
    /\ Init

-----------------------------------------------------------------------------
(* CheckNoTabs *)

\* The message is what kind says of about; other checks have theirs.
Diagnostic(kind, pos, end, severity, message, about) ==
    [kind |-> kind, line |-> pos[1], col |-> pos[2], end |-> end, severity |-> severity,
     message |-> message, about |-> about, hint |-> None]

Consumed(width) ==
    /\ at' = at + width
    /\ UNCHANGED <<text, phase, todo, ds, report, vars>>

\* Mutant: after "\r" the next rune is skipped, whatever it is.
ScanBreakPast ==
    /\ Src[at] \in {LF, CR}
    /\ line' = line + 1 /\ col' = 1 /\ curIdx' = 0 /\ UNCHANGED offending
    /\ Consumed(IF Src[at] = CR THEN 2 ELSE 1)

\* Mutant: of "\r\n", both runes end a line.
ScanBreakTwice ==
    /\ Src[at] \in {LF, CR}
    /\ line' = line + 1 /\ col' = 1 /\ curIdx' = 0 /\ UNCHANGED offending
    /\ Consumed(1)

ScanBreak ==
    /\ Src[at] \in {LF, CR}
    /\ line' = line + 1 /\ col' = 1 /\ curIdx' = 0 /\ UNCHANGED offending
    /\ Consumed(IF Src[at] = CR /\ at < Len(Src) /\ Src[at + 1] = LF THEN 2 ELSE 1)

ScanTab ==
    /\ Src[at] = Tab
    /\ IF curIdx = 0
       THEN /\ offending' = Append(offending, [line |-> line, col |-> col, count |-> 1])
            /\ curIdx' = Len(offending) + 1
       ELSE offending' = [offending EXCEPT ![curIdx].count = @ + 1] /\ UNCHANGED curIdx
    /\ col' = col + 1 /\ UNCHANGED line
    /\ Consumed(1)

ScanOther ==
    /\ Src[at] \notin {LF, CR, Tab}
    /\ col' = col + 1 /\ UNCHANGED <<line, offending, curIdx>>
    /\ Consumed(1)

Scan == phase = "scan" /\ at <= Len(Src) /\ (ScanBreak \/ ScanTab \/ ScanOther)

TabDiagnostic(o) == Diagnostic("tabs", <<o.line, o.col>>, o.col + 1, 0, 0, o.count)

TabDiagnostics ==
    LET n == Len(offending) IN
    IF n <= MaxTabs THEN [x \in 1..n |-> TabDiagnostic(offending[x])]
    ELSE Append([x \in 1..MaxTabs |-> TabDiagnostic(offending[x])],
                Diagnostic("more", <<0, 0>>, 0, 0, 0, n - MaxTabs))

\* goccy: the keys of a source without tabs, and where they are written.
Keys(s) ==
    LET starts == {p \in DOMAIN s : s[p] \in Letters /\ (p > 1 => s[p - 1] \notin Letters)}
        ends(p) == {q \in DOMAIN s : q <= p - 1 /\ s[q] \in {LF, CR} /\ ~(s[q] = CR /\ s[q + 1] = LF)}
        length(p) == CHOOSE n \in 1..(Len(s) - p + 1) :
                         /\ \A q \in p..(p + n - 1) : s[q] \in Letters
                         /\ p + n <= Len(s) => s[p + n] \notin Letters
        column(p) == p - Max(ends(p) \cup {0})
    IN  {[line |-> 1 + Cardinality(ends(p)), col |-> column(p), end |-> column(p) + length(p),
          word |-> SubSeq(s, p, p + length(p) - 1)] : p \in starts}

\* Mutant: goccy is given the mark, and counts it.
ParseWithMark ==
    /\ phase = "scan" /\ at > Len(Src)
    /\ ds' = TabDiagnostics
    /\ phase' = IF ds' = <<>> THEN "walk" ELSE "render"
    /\ todo' = IF ds' = <<>> THEN Keys(text) ELSE {}
    /\ UNCHANGED <<text, scanner, report, vars>>

Parse ==
    /\ phase = "scan" /\ at > Len(Src)
    /\ ds' = TabDiagnostics
    /\ phase' = IF ds' = <<>> THEN "walk" ELSE "render"
    /\ todo' = IF ds' = <<>> THEN Keys(Src) ELSE {}
    /\ UNCHANGED <<text, scanner, report, vars>>

-----------------------------------------------------------------------------
(* checkUnknownKeys, one key at a time in the order of the walk *)

KnownKey(key, vocabulary) ==
    /\ phase = "walk" /\ key.word \in Range(vocabulary)
    /\ todo' = todo \ {key}
    /\ UNCHANGED <<text, phase, scanner, ds, report, vars>>

UnknownKey(key, vocabulary) ==
    /\ phase = "walk" /\ key.word \notin Range(vocabulary)
    /\ got' = key.word /\ known' = vocabulary /\ Ask
    /\ phase' = "suggest" /\ todo' = todo \ {key}
    /\ ds' = Append(ds, Diagnostic("unknown", <<key.line, key.col>>, key.end, 0, 0, key.word))
    /\ UNCHANGED <<text, scanner, report>>

Suggesting ==
    /\ phase = "suggest" /\ Search
    /\ UNCHANGED <<text, phase, scanner, todo, ds, report>>

\* The hint is filled in.
Hint ==
    /\ phase = "suggest" /\ Forget
    /\ ds' = [ds EXCEPT ![Len(ds)].hint = best]
    /\ phase' = "walk"
    /\ UNCHANGED <<text, scanner, todo, report>>

\* Another check blames a key: addAt in parse, FromAt in validate.
\* Its hint is left out: it is a fixed text, or made of the message and of the
\* entity or the words allowed at the place, so two of one place and message
\* have one hint, and no order of theirs, which sorted does not compare either,
\* can show.  An alias, which could bring one place into two entities, is refused.
Blame(key, severity, message) ==
    /\ Cardinality({x \in DOMAIN ds : ds[x].kind = "other"}) < MaxBlame
    /\ ds' = Append(ds, Diagnostic("other", <<key.line, key.col>>, key.end, severity, message, key.word))
    /\ UNCHANGED <<text, phase, scanner, todo, report, vars>>

Walked ==
    /\ phase = "walk" /\ todo = {}
    /\ phase' = "render"
    /\ UNCHANGED <<text, scanner, todo, ds, report, vars>>

-----------------------------------------------------------------------------
(* Render *)

\* splitRawLines: where the line that begins at rune p ends, and where the one
\* after a break at q begins.
LineEnd(s, p) == Min({q \in p..Len(s) : s[q] \in {LF, CR}} \cup {Len(s) + 1})

AfterBreak(s, q) == IF s[q] = CR /\ q < Len(s) /\ s[q + 1] = LF THEN q + 2 ELSE q + 1

LineStarts(s) ==
    LET from[p \in 1..(Len(s) + 1)] ==
            IF LineEnd(s, p) > Len(s) THEN <<p>>
            ELSE <<p>> \o from[AfterBreak(s, LineEnd(s, p))]
    IN  from[1]

\* A break that ends the text begins no line.
RawLines(s) ==
    LET starts == LineStarts(s)
        lines == [k \in DOMAIN starts |-> SubSeq(s, starts[k], LineEnd(s, starts[k]) - 1)]
    IN  IF Len(lines) > 1 /\ Last(lines) = <<>> THEN Front(lines) ELSE lines

Sanitize(l) == [x \in DOMAIN l |-> IF l[x] = Tab THEN Blank
                                   ELSE IF l[x] \in Odd THEN Placeholder ELSE l[x]]

Clamp(v, lo, hi) == IF v < lo THEN lo ELSE IF v > hi THEN hi ELSE v

Block(d) ==
    LET raw == RawLines(Src) IN
    IF d.line < 1 \/ d.col < 1 \/ d.line > Len(raw)
    THEN [of |-> d, shown |-> None, caret |-> <<0, 0>>]
    ELSE LET shown == Sanitize(raw[d.line])
             start == Clamp(d.col, 1, Len(shown) + 1)
         IN  [of |-> d, shown |-> shown, caret |-> <<start, Clamp(d.end, start + 1, Len(shown) + 2)>>]

\* Mutant: diagnostics at one place are as good as equal.
BeforeByPlace(a, b) == a.line < b.line \/ (a.line = b.line /\ a.col < b.col)

\* What sorted compares, in this order.
Before(a, b) ==
    \/ a.line < b.line
    \/ /\ a.line = b.line
       /\ \/ a.col < b.col
          \/ /\ a.col = b.col
             /\ \/ a.end < b.end
                \/ /\ a.end = b.end
                   /\ \/ a.severity < b.severity
                      \/ a.severity = b.severity /\ a.message < b.message

\* sort.SliceStable: before an element come those that are less, and of its
\* equals those that were before it.
Sorted(seq) ==
    LET first(x, y) == Before(seq[x], seq[y]) \/ (x <= y /\ ~Before(seq[y], seq[x]))
        places == {<<y, Cardinality({x \in DOMAIN seq : first(x, y)})>> : y \in DOMAIN seq}
    IN  [k \in DOMAIN seq |-> seq[CHOOSE y \in DOMAIN seq : <<y, k>> \in places]]

Render ==
    /\ phase = "render"
    /\ report' = LET sorted == Sorted(ds) IN [x \in DOMAIN sorted |-> Block(sorted[x])]
    /\ phase' = "done"
    /\ UNCHANGED <<text, scanner, todo, ds, vars>>

ReportNext ==
    \/ Scan \/ Parse
    \/ \E key \in todo, vocabulary \in Orders : KnownKey(key, vocabulary) \/ UnknownKey(key, vocabulary)
    \/ Suggesting \/ Hint
    \/ /\ phase = "walk" /\ todo = {}
       /\ \E key \in Keys(Src), severity \in {0, 1}, message \in Messages : Blame(key, severity, message)
    \/ Walked \/ Render

ReportSpec == ReportInit /\ [][ReportNext]_reportVars

-----------------------------------------------------------------------------
(* Properties *)

Printed == phase = "done"

ReportTypeOK ==
    /\ SuggestTypeOK
    /\ phase \in {"scan", "walk", "suggest", "render", "done"}
    /\ at \in 1..(Len(Src) + 1) /\ line \in 1..(Len(Src) + 1) /\ col \in 1..(Len(Src) + 1)
    /\ curIdx \in 0..Len(offending)
    /\ \A x \in DOMAIN offending : offending[x].line \in 1..line /\ offending[x].count >= 1
    /\ phase # "walk" => phase = "suggest" \/ todo = {}
    /\ \A x \in DOMAIN ds : ds[x].line \in Nat /\ ds[x].hint \in Words \cup {None}
    /\ Len(report) = IF Printed THEN Len(ds) ELSE 0

\* CheckNoTabs and Render count lines and columns apart, and agree: under each
\* of the first lines that hold a tab, the caret is below its first tab and the
\* message has the number of its tabs; the other lines are counted, and nothing
\* else is said of a file with a tab.
TabsUnderlined ==
    LET lines == RawLines(Src)
        tabs(n) == {x \in DOMAIN lines[n] : lines[n][x] = Tab}
        bad == {n \in DOMAIN lines : tabs(n) # {}}
        early == {n \in bad : Cardinality({m \in bad : m <= n}) <= MaxTabs}
        block(n) == [line |-> n, caret |-> <<Min(tabs(n)), Min(tabs(n)) + 1>>, about |-> Cardinality(tabs(n))]
    IN  Printed /\ bad # {} =>
            /\ {[line |-> b.of.line, caret |-> b.caret, about |-> b.of.about]
                    : b \in {b \in Range(report) : b.of.kind # "more"}} = {block(n) : n \in early}
            /\ {b.of.about : b \in {b \in Range(report) : b.of.kind = "more"}}
                   = IF bad = early THEN {} ELSE {Cardinality(bad \ early)}
            /\ Len(report) = Cardinality(early) + (IF bad = early THEN 0 ELSE 1)

\* goccy and Render agree as well, byte-order mark or not: the caret of a
\* diagnostic about a key runs from its first rune to its last, on the line it
\* is written on, though some of its runes print as something else.
KeysUnderlined ==
    Printed => \A b \in Range(report) :
        b.of.kind \notin {"tabs", "more"} =>
            LET raw == RawLines(Src)[b.of.line] IN
            /\ b.caret[2] - 1 <= Len(raw)
            /\ SubSeq(raw, b.caret[1], b.caret[2] - 1) = b.of.about
            /\ Len(b.shown) = Len(raw)

\* sorted: what is printed depends on the diagnostics and not on the order the
\* checks found them in.
OrderForgotten ==
    phase = "render" =>
        LET sorted == Sorted(ds) IN
        \A p \in Bijection(DOMAIN ds, DOMAIN ds) : Sorted([x \in DOMAIN ds |-> ds[p[x]]]) = sorted
===============================================================================
