---------------------------- MODULE StructureParsing ---------------------------
(* Legal blocks of a cleaned document: offline/parsing/structure_parser.py.    *)
(* A line is a record with what the marker patterns make of it, its kind; its  *)
(* number; the title behind the number; its tokens; the kind a bare marker     *)
(* names; and whether it could be the title of the line before it.             *)
EXTENDS Cleaning

Levels == [part |-> 1, appendix |-> 1, chapter |-> 2, section |-> 3, subsection |-> 4,
           article |-> 5, clause |-> 6, point |-> 7]
TableLevel == 8
TitleBearing == DOMAIN Levels \ {"clause", "point"}

\* What is known of the place of a block: the numbers of its headings.
NoStructure == [part |-> None, chapter |-> None, section |-> None, subsection |-> None,
                article |-> None, title |-> <<>>, clauses |-> <<>>, points |-> <<>>]

\* The parser keeps its blocks and, per level, the block that is open; next is
\* the first line it has not read.
NothingOpen == [level \in {} |-> 0]
Parser == [blocks |-> <<>>, open |-> NothingOpen, next |-> 1]

Deepest(levels) == CHOOSE l \in levels : \A k \in levels : k <= l
Innermost(parser) ==
    IF DOMAIN parser.open = {} THEN 0 ELSE parser.open[Deepest(DOMAIN parser.open)]

Close(parser, levels) ==
    [parser EXCEPT !.open = [l \in DOMAIN @ \ levels |-> @[l]]]

\* A new block, open at its level; the block open so far is its parent.
Open(parser, level, block) ==
    LET here == Len(parser.blocks) + 1
    IN  [parser EXCEPT !.blocks = Append(@, block),
                       !.open = [l \in DOMAIN @ \cup {level} |->
                                    IF l = level THEN here ELSE @[l]]]

Extend(parser, index, text) == [parser EXCEPT !.blocks[index].text = @ \o text]

\* Clauses and points exist in an article only.
IsMarker(parser, line) ==
    /\ line.kind \in DOMAIN Levels
    /\ line.kind \in {"clause", "point"} =>
          \E l \in DOMAIN parser.open : parser.blocks[parser.open[l]].kind = "article"

\* The structure of a marker: the headings still open and its own.
StructureSnapshot(parser, line) ==
    LET headings == {parser.blocks[parser.open[l]] : l \in DOMAIN parser.open}
        at(kind) == {h \in headings : h.kind = kind}
        number(kind) == IF line.kind = kind THEN line.number
                        ELSE IF at(kind) = {} THEN None ELSE (CHOOSE h \in at(kind) : TRUE).number
        numbers(kind) == IF number(kind) = None THEN <<>> ELSE <<number(kind)>>
    IN  [part |-> number("part"), chapter |-> number("chapter"),
         section |-> number("section"), subsection |-> number("subsection"),
         article |-> number("article"),
         title |-> IF line.kind = "article" THEN line.title
                   ELSE IF at("article") = {} THEN <<>>
                   ELSE (CHOOSE h \in at("article") : TRUE).title,
         clauses |-> numbers("clause"), points |-> numbers("point")]

StartMarkerBlockInside(parser, line) ==
    LET above == Close(parser, (Levels[line.kind] + 1)..TableLevel)
    IN  Open(above, Levels[line.kind],
             [kind |-> line.kind, number |-> line.number, title |-> line.title,
              text |-> line.text, parent |-> Innermost(above),
              structure |-> StructureSnapshot(above, line)])

\* A marker closes everything at its level and below.
StartMarkerBlock(parser, line) ==
    LET above == Close(parser, Levels[line.kind]..TableLevel)
    IN  Open(above, Levels[line.kind],
             [kind |-> line.kind, number |-> line.number, title |-> line.title,
              text |-> line.text, parent |-> Innermost(above),
              structure |-> StructureSnapshot(above, line)])

\* Ordinary text belongs to what is open, or begins the document's own block.
AppendOrdinaryLine(parser, line) ==
    IF DOMAIN parser.open # {} THEN Extend(parser, Innermost(parser), line.text)
    ELSE Open(parser, 0, [kind |-> "document", number |-> None, title |-> <<>>,
                          text |-> line.text, parent |-> 0, structure |-> NoStructure])

\* The rows of a table are one block with the structure of what it stands in.
AppendTableRow(parser, line) ==
    LET around == Innermost(parser)
    IN  IF TableLevel \in DOMAIN parser.open
        THEN Extend(parser, parser.open[TableLevel], line.text)
        ELSE Open(parser, TableLevel,
                  [kind |-> "table", number |-> None, title |-> <<>>, text |-> line.text,
                   parent |-> around,
                   structure |-> IF around = 0 THEN NoStructure
                                 ELSE parser.blocks[around].structure])

\* A line that is no heading and, among those, one that begins with a number.
IsPlain(line) == line.kind \in {"text", "clause", "point"} /\ line.names = None
IsNumberLine(line) == IsPlain(line) /\ line.number # None

\* A marker word alone on its line takes the number from the line after it; an
\* appendix needs none and takes whatever is there for its title.
Joined(bare, line) ==
    [kind |-> bare.names, number |-> IF IsNumberLine(line) THEN line.number ELSE None,
     title |-> IF bare.names = "appendix" THEN line.text ELSE line.title,
     text |-> bare.text \o line.text, names |-> None, titleLike |-> FALSE]

\* The line as the parser reads it, and how many source lines it takes.
ReadLine(parser, lines) ==
    LET line == lines[parser.next]
        after(k) == parser.next + k <= Len(lines)
        joins == /\ line.names # None /\ after(1)
                 /\ line.names = "appendix" \/ IsNumberLine(lines[parser.next + 1])
                 /\ IsMarker(parser, Joined(line, lines[parser.next + 1]))
        marker == IF joins THEN Joined(line, lines[parser.next + 1]) ELSE line
        taken == IF joins THEN 2 ELSE 1
        titled == /\ marker.kind \in TitleBearing /\ marker.title = <<>> /\ after(taken)
                  /\ lines[parser.next + taken].titleLike
        title == lines[parser.next + taken].text
    IN  IF ~titled THEN [line |-> marker, taken |-> taken]
        ELSE [line |-> [marker EXCEPT !.title = title, !.text = @ \o title],
              taken |-> taken + 1]

ParseLine(parser, lines) ==
    LET table == lines[parser.next].kind = "table"
        closed == Close(parser, {TableLevel})
        read == ReadLine(closed, lines)
    IN  IF table THEN [AppendTableRow(parser, lines[parser.next]) EXCEPT !.next = @ + 1]
        ELSE [(IF IsMarker(closed, read.line) THEN StartMarkerBlock(closed, read.line)
                                              ELSE AppendOrdinaryLine(closed, read.line))
              EXCEPT !.next = @ + read.taken]

\* The blocks of a document, in the order of its lines.
ParseDocument(lines) ==
    LET after[n \in 0..Len(lines)] ==
            IF n = 0 THEN Parser
            ELSE LET parser == after[n - 1]
                 IN  IF parser.next > Len(lines) THEN parser ELSE ParseLine(parser, lines)
    IN  after[Len(lines)].blocks
--------------------------------------------------------------------------------
(* The article a line belongs to by the text alone *)

Higher == {"part", "appendix", "chapter", "section", "subsection"}

\* What the patterns make of lines: a bare marker word is no other marker, and the
\* line of a title is plain.  And what the parser takes for granted of them: so is
\* the line behind a bare appendix.
WellMarked(lines) ==
    \A i \in DOMAIN lines :
        /\ lines[i].names # None =>
              lines[i].kind = IF lines[i].names = "appendix" THEN "appendix" ELSE "text"
        /\ lines[i].titleLike => IsPlain(lines[i])
        /\ lines[i].names = "appendix" /\ i < Len(lines) => IsPlain(lines[i + 1])

Begins(lines, i, kind) ==
    \/ lines[i].kind = kind
    \/ lines[i].names = kind /\ i < Len(lines) /\ IsNumberLine(lines[i + 1])

\* The last article heading with no heading of a higher level behind it.
GoverningArticle(lines, i) ==
    LET articles == {j \in 1..i : Begins(lines, j, "article")}
        last == CHOOSE j \in articles : \A k \in articles : k <= j
        number == IF lines[last].kind = "article" THEN lines[last].number
                  ELSE lines[last + 1].number
    IN  IF articles = {} \/ \E j \in last..i, kind \in Higher : Begins(lines, j, kind)
        THEN None ELSE number
================================================================================
