-------------------------------- MODULE Cleaning -------------------------------
(* The visible lines of a source text: the passage cleaner of the competition  *)
(* corpus (competition/uit_dsc_2026/passage_cleaner.py) and the general HTML   *)
(* cleaner (offline/cleaning/html_cleaner.py).                                 *)
(* A source text is a sequence of pieces as the HTML parser hands them over:   *)
(* "open", "close" and "self" (closed in itself) tags with a name; "text";     *)
(* "newline"; "notice", the boilerplate of the publisher; "code", a stretch of *)
(* a script without a tag.  The line of a piece is what the marker patterns    *)
(* make of its text.                                                           *)
EXTENDS LegalText

PassageRules ==
    [ignored |-> {"iframe", "noscript", "object", "option", "script", "style", "template"},
     blocks |-> {"div", "h1", "h2", "h3", "huongdan", "li", "ol", "p", "table", "tbody", "td",
                 "th", "thead", "tr", "ul"},
     inline |-> {"a", "b", "font", "i", "span", "strong"},
     voids |-> {"br", "hr", "img", "input", "meta"},
     attributes |-> FALSE, everything |-> FALSE, rows |-> FALSE]

HtmlRules ==
    [ignored |-> {"iframe", "nav", "noscript", "object", "script", "style", "template"},
     blocks |-> {"article", "div", "footer", "h1", "h2", "h3", "header", "hr", "li", "ol", "p",
                 "section", "table", "tbody", "thead", "tr", "ul"},
     inline |-> {"a", "b", "font", "i", "span", "strong"},
     voids |-> {"br", "col", "hr", "img", "input", "link", "meta", "wbr"},
     attributes |-> TRUE, everything |-> TRUE, rows |-> TRUE]

IsTag(piece) == piece.kind \in {"open", "close", "self"}
IsKnown(rules, name) ==
    rules.everything \/ name \in rules.ignored \cup rules.blocks \cup rules.inline \cup rules.voids

\* Tags, attributes, classes and ids that hide what is inside.
IsNoise(rules, piece) == piece.name \in rules.ignored \/ (rules.attributes /\ piece.hidden)

NoLine == [kind |-> "text", number |-> None, title |-> <<>>, text |-> <<>>, names |-> None,
           titleLike |-> FALSE]
Piece(kind, name, line) ==
    [kind |-> kind, name |-> name, line |-> line, hidden |-> FALSE, braces |-> 0, opens |-> FALSE]
NewLine == Piece("newline", None, NoLine)
CellBar == Piece("bar", None, NoLine)
--------------------------------------------------------------------------------
(* The parser: the parts it keeps, how deep it is inside what it ignores, and  *)
(* the cells of the table row it is in.                                        *)

Reader == [parts |-> <<>>, ignored |-> 0, cells |-> 0]

Keep(reader, piece) == [reader EXCEPT !.parts = Append(@, piece)]

LineBreak(reader) ==
    IF reader.parts # <<>> /\ Last(reader.parts).kind = "newline" THEN reader
    ELSE Keep(reader, NewLine)

NewCell(reader) == [(IF reader.cells > 0 THEN Keep(reader, CellBar) ELSE reader)
                    EXCEPT !.cells = @ + 1]

\* A tag that is no noise: an unknown one is text of the law, an image has one.
VisibleTag(rules, reader, piece) ==
    LET shown == IF piece.name = "img" /\ ~rules.rows THEN Keep(reader, piece) ELSE reader
        cell == rules.rows /\ piece.name \in {"td", "th"}
    IN  IF ~IsKnown(rules, piece.name) THEN Keep(reader, piece)
        ELSE IF cell /\ piece.kind = "open" THEN NewCell(reader)
        ELSE IF piece.name \notin rules.blocks \cup {"br"} THEN shown
        ELSE IF rules.rows /\ piece.name = "tr" /\ piece.kind = "open"
        THEN [LineBreak(reader) EXCEPT !.cells = 0]
        ELSE LineBreak(reader)

StartTag(rules, reader, piece) ==
    LET deeper == IF piece.name \in rules.voids THEN 0 ELSE 1
    IN  IF reader.ignored > 0 THEN [reader EXCEPT !.ignored = @ + deeper]
        ELSE IF IsNoise(rules, piece) THEN [LineBreak(reader) EXCEPT !.ignored = deeper]
        ELSE VisibleTag(rules, reader, piece)

StartEndTag(rules, reader, piece) ==
    IF reader.ignored > 0 THEN reader
    ELSE IF rules.attributes /\ IsNoise(rules, piece) THEN LineBreak(reader)
    ELSE VisibleTag(rules, reader, piece)

\* Inside what is ignored every end tag counts, whatever it ends.
EndTag(rules, reader, piece) ==
    IF reader.ignored > 0
    THEN IF rules.rows /\ piece.name \in rules.voids THEN reader
         ELSE IF reader.ignored = 1 THEN LineBreak([reader EXCEPT !.ignored = 0])
         ELSE [reader EXCEPT !.ignored = @ - 1]
    ELSE IF ~IsKnown(rules, piece.name) THEN Keep(reader, piece)
    ELSE IF piece.name \in rules.blocks THEN LineBreak(reader)
    ELSE reader

ReadPiece(rules, reader, piece) ==
    CASE piece.kind = "open" -> StartTag(rules, reader, piece)
      [] piece.kind = "self" -> StartEndTag(rules, reader, piece)
      [] piece.kind = "close" -> EndTag(rules, reader, piece)
      [] OTHER -> IF reader.ignored > 0 THEN reader ELSE Keep(reader, piece)

VisibleParts(rules, pieces) ==
    LET after[n \in 0..Len(pieces)] ==
            IF n = 0 THEN Reader ELSE ReadPiece(rules, after[n - 1], pieces[n])
    IN  after[Len(pieces)].parts
--------------------------------------------------------------------------------
(* Lines *)

NoLines == [lines |-> <<>>, line |-> <<>>]
AddPiece(text, piece) ==
    IF piece.kind = "newline" THEN [lines |-> Append(text.lines, text.line), line |-> <<>>]
                              ELSE [text EXCEPT !.line = Append(@, piece)]
SplitLines(pieces) ==
    LET after[n \in 0..Len(pieces)] ==
            IF n = 0 THEN NoLines ELSE AddPiece(after[n - 1], pieces[n])
        text == after[Len(pieces)]
    IN  Append(text.lines, text.line)
JoinLines(lines) == Flat([i \in DOMAIN lines |-> Append(lines[i], NewLine)])

\* A line with a bar between two things in it is a row; otherwise the beginning
\* of a line says what it is and the rest of it is its title and its text.
IsRow(line) == \E j \in 2..(Len(line) - 1) : line[j].kind = "bar"
Continued(line, piece) ==
    [line EXCEPT !.text = @ \o piece.line.text, !.names = None,
                 !.title = IF line.kind \in {"text", "clause", "point"} THEN @
                           ELSE @ \o piece.line.text,
                 !.titleLike = @ /\ piece.line.titleLike]
LineOf(line) ==
    LET after[n \in 0..(Len(line) - 1)] ==
            IF n = 0 THEN line[1].line ELSE Continued(after[n - 1], line[n + 1])
        merged == after[Len(line) - 1]
    IN  IF IsRow(line) THEN [NoLine EXCEPT !.kind = "table", !.text = merged.text] ELSE merged

\* Lines without text are of no use to the structure parser.
Spoken(line) == At(line, {i \in DOMAIN line : line[i].kind = "bar" \/ line[i].line # NoLine})
NormalizeText(pieces) ==
    LET lines == SplitLines(pieces)
        spoken == [i \in DOMAIN lines |-> Spoken(lines[i])]
        full == At(spoken, {i \in DOMAIN spoken : spoken[i] # <<>>})
    IN  [i \in DOMAIN full |-> LineOf(full[i])]
--------------------------------------------------------------------------------
(* The passage cleaner *)

StartsWith(line, name) == line # <<>> /\ line[1].kind = "code" /\ line[1].name = name

\* The line on which the braces opened since line start are closed again, or 0.
BalancedScriptEnd(lines, start) ==
    LET opened(j) == \E k \in start..j : \E i \in DOMAIN lines[k] : lines[k][i].opens
        depth(j) == Total(start..j, LAMBDA k : Total(DOMAIN lines[k],
                                                     LAMBDA i : lines[k][i].braces))
        ends == {j \in start..Len(lines) : opened(j) /\ depth(j) <= 0}
    IN  IF ends = {} THEN 0 ELSE CHOOSE j \in ends : \A k \in ends : j <= k

\* The last line of the script that begins on line i, or 0.
ScriptEnd(lines, i) ==
    IF StartsWith(lines[i], "single") THEN i
    ELSE IF StartsWith(lines[i], "start") THEN BalancedScriptEnd(lines, i) ELSE 0

ReadScriptLine(lines, text, i) ==
    IF i < text.next THEN text
    ELSE IF ScriptEnd(lines, i) = 0 THEN [text EXCEPT !.kept = Append(@, lines[i])]
    ELSE [text EXCEPT !.next = ScriptEnd(lines, i) + 1]

\* Scripts without a tag go when their braces are balanced; a script that never
\* ends may have the law behind it and stays.
RemoveNakedScript(lines) ==
    LET after[n \in 0..Len(lines)] ==
            IF n = 0 THEN [kept |-> <<>>, next |-> 1] ELSE ReadScriptLine(lines, after[n - 1], n)
    IN  after[Len(lines)].kept

\* Labels of the publisher's pages, each on a line of its own.
RemoveAuditedWebUiLines(lines) ==
    At(lines, {i \in DOMAIN lines : ~(Len(lines[i]) = 1 /\ lines[i][1].kind = "label")})

RemoveKnownMarkup(pieces) ==
    IF \E i \in DOMAIN pieces : IsTag(pieces[i]) /\ IsKnown(PassageRules, pieces[i].name)
    THEN VisibleParts(PassageRules, pieces) ELSE pieces

CleanedPassage(lines, kept) ==
    LET visible == RemoveKnownMarkup(JoinLines(kept))
    IN  NormalizeText(IF kept = lines THEN visible
                      ELSE JoinLines(RemoveAuditedWebUiLines(SplitLines(visible))))

\* The lines without the publisher's notices.
NoticeFree(pieces) == SplitLines(At(pieces, {i \in DOMAIN pieces : pieces[i].kind # "notice"}))

CleanPassage(pieces) ==
    LET lines == NoticeFree(pieces) IN CleanedPassage(lines, RemoveNakedScript(lines))
--------------------------------------------------------------------------------
CleanHtml(pieces) == NormalizeText(VisibleParts(HtmlRules, pieces))

\* The lines of a document, by the cleaner its source is for.
CleanedLines(document) ==
    IF document.cleaner = "html" THEN CleanHtml(document.source)
    ELSE CleanPassage(document.source)
--------------------------------------------------------------------------------
(* What is visible by the markup alone *)

\* The start of something that is ignored up to an end tag of its own.
Hides(rules, piece) ==
    piece.kind = "open" /\ IsNoise(rules, piece) /\ piece.name \notin rules.voids

\* Start tags less end tags at these positions.
Unclosed(source, S) == Cardinality({i \in S : source[i].kind = "open"})
                           - Cardinality({i \in S : source[i].kind = "close"})
OfName(source, j, k) == {n \in j..k : source[n].name = source[j].name}
OfElement(rules, source, j, k) == {n \in j..k : source[n].name \notin rules.voids}

\* A text is hidden when it is behind the start of something ignored whose own
\* end has not come yet.
IsHidden(source, i, rules) ==
    \E j \in 1..(i - 1) : /\ Hides(rules, source[j])
                          /\ \A k \in j..(i - 1) : Unclosed(source, OfName(source, j, k)) > 0

VisibleTokens(source, rules) ==
    UNION {ToSet(source[i].line.text) :
              i \in {k \in DOMAIN source : source[k].kind = "text" /\ ~IsHidden(source, k, rules)}}

RulesOf(document) == IF document.cleaner = "html" THEN HtmlRules ELSE PassageRules
LegalTokens(document) == VisibleTokens(document.source, RulesOf(document))

\* Where something ignored ends, everything opened in it has ended.
EndsTogether(source, rules) ==
    \A j \in DOMAIN source : \A k \in j..Len(source) :
        Hides(rules, source[j]) /\ Unclosed(source, OfName(source, j, k)) <= 0 =>
            \E m \in j..k : Unclosed(source, OfElement(rules, source, j, m)) <= 0

\* The lines of a script without a tag hold code only.
ScriptsAreCode(lines) ==
    \A i \in DOMAIN lines : \A k \in i..ScriptEnd(lines, i) :
        \A n \in DOMAIN lines[k] : lines[k][n].kind = "code"
================================================================================
