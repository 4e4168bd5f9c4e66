----------------------------- MODULE MCLegalService ----------------------------
EXTENDS LegalService

Word(w) == Token("word", w)
Number(n) == Token("number", n)
Not == Token("negation", "not")
Stop == Token("stopword", "the")
QuestionMark == Token("punctuation", "question")
Colon == Token("punctuation", "colon")

Line(kind, number, title, text) ==
    [kind |-> kind, number |-> number, title |-> title, text |-> text,
     names |-> None, titleLike |-> FALSE]
TextLine(text) == Line("text", None, <<>>, text)
TitleLine(text) == [TextLine(text) EXCEPT !.titleLike = TRUE]
TableRow(text) == Line("table", None, <<>>, text)
Bare(kind, text) == [TextLine(text) EXCEPT !.names = kind]
Numbered(number, text) == Line("text", number, <<>>, text)
Article(n, title) == Line("article", n, title, <<Token("article", n)>> \o title)
Clause(n, text) == Line("clause", n, <<>>, <<Number(n)>> \o text)
Point(n, text) == Line("point", n, <<>>, <<Word(n)>> \o text)
Heading(kind, n) == Line(kind, n, <<>>, <<Token("heading", n)>>)

Text(line) == Piece("text", None, line)
Words(text) == Text(TextLine(text))
Begin(name) == Piece("open", name, NoLine)
End(name) == Piece("close", name, NoLine)
Hidden(name) == [Begin(name) EXCEPT !.hidden = TRUE]
Unknown(name, text) == Piece("open", name, TextLine(text))
Notice == Piece("notice", None, NoLine)
Label == Piece("label", None, TextLine(<<Word("label")>>))
Code(name, delta) == [Piece("code", name, TextLine(<<Word("code")>>))
                      EXCEPT !.braces = delta, !.opens = delta > 0]
Plain(lines) == Flat([i \in DOMAIN lines |-> <<Text(lines[i]), NewLine>>])
Tagged(name, line) == <<Begin(name), Text(line), End(name)>>

Document(doc, number, address, status, name, cleaner, source) ==
    [doc |-> doc, number |-> number, title |-> address, url |-> address,
     status |-> status, name |-> name, cleaner |-> cleaner, source |-> source]

\* A decree with a preamble, a chapter, an article of two clauses with a table
\* and a point, a second article and an appendix, on a page with a menu and a
\* hidden block.
Decree == Document("doc1", "D1", None, "active", <<Word("trade")>>, "html",
    <<Begin("nav"), Begin("ul"), Words(<<Word("menu")>>), Begin("br"), End("ul"), End("nav")>>
    \o Tagged("div", TextLine(<<Word("pursuant")>>))
    \o Tagged("h1", Heading("chapter", "I")) \o Tagged("h2", TitleLine(<<Word("fines")>>))
    \o <<Begin("p"), Begin("b"), Text(Article("A5", <<>>)), End("b"), Words(<<Word("trade")>>),
         End("p"), Hidden("div"), Words(<<Word("ad")>>), Begin("input"), End("div")>>
    \o Tagged("p", Clause("1", <<Word("fine"), Number("50"), Stop>>))
    \o <<Begin("table"), Begin("tr"), Begin("td"), Words(<<Word("fine")>>), End("td"),
         Begin("td"), Words(<<Number("70")>>), End("td"), End("tr"),
         Begin("tr"), Begin("th"), Words(<<Word("fine")>>), End("th"),
         Begin("td"), Words(<<Number("90")>>), End("td"), End("tr"), End("table")>>
    \o Tagged("p", Clause("2", <<Word("permit"), Not, Word("trade")>>))
    \o <<Text(Point("a", <<Word("fine"), Number("20")>>)), Piece("self", "br", NoLine)>>
    \o Plain(<<Bare("article", <<Token("article", "A6")>>), Numbered("A6", <<Word("permit")>>)>>)
    \o Tagged("h3", Line("appendix", None, <<>>, <<Word("annex")>>))
    \o <<Words(<<Word("form")>>)>>)

\* The decree it replaces, with a notice, a form, a formula and a placeholder.
Old == Document("doc2", None, "D2", "repealed", <<Word("old")>>, "passage",
    Tagged("p", Article("A5", <<>>)) \o <<Notice>> \o Tagged("p", TitleLine(<<Word("trade")>>))
    \o <<Begin("option"), Words(<<Word("choice")>>), Piece("self", "img", NoLine), End("option"),
         Text(Clause("1", <<Word("fine")>>)), Unknown("amount", <<Number("30")>>), NewLine,
         Piece("self", "img", TextLine(<<Word("formula")>>)), End("amount")>>)

\* A guide from a page with scripts, one of which never ends.
Guide == Document("doc3", "D3", None, None, <<Word("guide")>>, "passage",
    <<Label, NewLine, Code("start", 1), NewLine, Code("other", 1), Code("other", -1), NewLine,
      Code("other", -1), NewLine, Code("single", 0), NewLine>>
    \o Plain(<<Article("A7", <<Word("permit")>>), TextLine(<<Word("permit"), Word("fine")>>)>>)
    \o <<Code("start", 1), NewLine>>
    \o Plain(<<Article("A8", <<Word("force")>>)>>))

\* A circular whose page leaves out an end tag that HTML lets one leave out.
Circular == Document("doc4", "D4", None, None, <<Word("circular")>>, "passage",
    <<Begin("noscript"), Begin("p"), Words(<<Word("menu")>>), End("noscript")>>
    \o Tagged("p", Article("A1", <<Word("force")>>)))

\* A decision with a regulation behind the word appendix.
Decision == Document("doc5", "D5", None, None, <<Word("decision")>>, "passage",
    Plain(<<Article("A1", <<Word("trade")>>),
            [Bare("appendix", <<Word("annex")>>) EXCEPT !.kind = "appendix"],
            Article("A2", <<Word("permit")>>), TextLine(<<Word("fine")>>)>>))

Edge(source, target) == [source |-> source, target |-> target, type |-> "amends"]

MCLibraries ==
    {[documents |-> <<Decree, Old, Guide>>,
      relationships |-> <<Edge("doc1", "doc2"), Edge("doc2", "doc1"), Edge("doc2", "doc3")>>],
     [documents |-> <<Old, Guide>>, relationships |-> <<Edge("doc2", "doc1")>>]}

\* What the theorem about the chunks of an article supposes of the documents.
ASSUME LibrariesAreClear ==
    \A l \in MCLibraries : \A document \in ToSet(l.documents) : IsClear(document)

\* And that it has to: the text behind an end tag left out is lost although the
\* lines are told apart,
ASSUME TextIsLost ==
    LET lines == CleanedLines(Circular)
    IN  /\ ~EndsTogether(Circular.source, PassageRules) /\ WellMarked(lines)
        /\ ~(LegalTokens(Circular) \subseteq UNION {ToSet(line.text) : line \in ToSet(lines)})

\* and behind a bare appendix a heading is no article's any more.
ASSUME HeadingIsTitle ==
    LET lines == CleanedLines(Decision)
    IN  /\ ~WellMarked(lines) /\ \E i \in DOMAIN lines : GoverningArticle(lines, i) = "A2"
        /\ \A block \in ToSet(ParseDocument(lines)) : block.structure.article # "A2"

MCLooseLibraries == {[documents |-> <<Old, Circular>>, relationships |-> <<>>]}

MCBudgets ==
    {[maxTokens |-> 12, maxSearch |-> 18, overlap |-> 2, added |-> 0],
     [maxTokens |-> 6, maxSearch |-> 10, overlap |-> 1, added |-> 1],
     [maxTokens |-> 12, maxSearch |-> 13, overlap |-> 2, added |-> 0]}

\* Any cosine will do: here the share of the question's tokens in the text.
MCSimilarity(text, chunk) == (60 * Cardinality(ToSet(text) \cap ToSet(chunk.text)))
                                 \div Len(chunk.search)

Ask3(id, text, filters, strategy) ==
    [id |-> id, original |-> text, normalized |-> text, filters |-> filters,
     topK |-> 2, candidateK |-> 3, strategy |-> strategy]
AllChunks == [doc |-> {}, status |-> {}]

MCQuestions ==
    {Ask3("q1", <<Token("framing", "please"), Word("fine"), Token("article", "A5"),
                  Token("document", "D1")>>, AllChunks, None),
     Ask3("q2", <<Token("relationship", "amends"), Word("fine"), Word("old")>>,
          [AllChunks EXCEPT !.doc = {"doc2", "doc3"}], None),
     Ask3("q3", <<Word("permit"), Not>>, [AllChunks EXCEPT !.status = {"active"}], "BM25"),
     Ask3("q4", <<Token("quantitative", "how much"), Word("fine"), Token("document", "D2")>>,
          AllChunks, None)}

MCScoreSets == {NoScores, [i \in 1..20 |-> i], [i \in 1..20 |-> 20 - i]}

Right == Sentence(<<Word("fine"), Number("50")>>, <<1>>)
Wrong == Sentence(<<Word("fine"), Number("99")>>, <<1>>)
Permit == Sentence(<<Word("permit"), Not>>, <<2>>)
Asked == Sentence(<<Word("fine"), QuestionMark>>, <<1>>)
Listed == Sentence(<<Word("fine"), Colon, Number("50")>>, <<1>>)
Leftover == Sentence(<<Stop, Colon, Number("50")>>, <<1>>)

MCCompletions ==
    {ProviderError, Garbage, Refusal,
     Json(<<Right>>, <<1>>, FALSE), Json(<<Wrong, Permit>>, <<1, 2>>, FALSE),
     Json(<<Right, Wrong>>, <<1>>, FALSE), Json(<<Listed, Asked>>, <<1>>, FALSE),
     Json(<<Right, Right, Wrong>>, <<1>>, FALSE), Json(<<Leftover, Wrong>>, <<1>>, FALSE),
     Json(<<Sentence(<<Word("fine")>>, <<>>)>>, <<1, 2>>, FALSE),
     Prose(<<Wrong>>), Json(<<>>, <<>>, TRUE), Json(<<Right>>, <<9>>, FALSE)}

Legal(structured, retries, repairs, onModel, onGrounding, standalone, plain) ==
    [structured |-> structured, modelRetries |-> retries, repairs |-> repairs,
     onModelFailure |-> onModel, onGroundingFailure |-> onGrounding,
     fallbackEvidence |-> 1, standalone |-> standalone, plainText |-> plain]

Baseline == Legal(1, 0, 0, "abstain", "abstain", FALSE, FALSE)
Recovering == Legal(1, 1, 1, "top_evidence", "supported_claims_or_top_evidence", TRUE, TRUE)
Salvaging == Legal(0, 0, 1, "abstain", "supported_claims", FALSE, TRUE)

Configuration(generator, policy, semantic) ==
    [generator |-> generator, policy |-> policy, semantic |-> semantic]
MCConfigurations ==
    {Configuration("extractive", Baseline, FALSE), Configuration("model", Baseline, TRUE),
     Configuration("model", Recovering, FALSE), Configuration("model", Salvaging, TRUE)}

MCStrategyOrder == <<"HYBRID", "BM25", "GRAPH">>
================================================================================
