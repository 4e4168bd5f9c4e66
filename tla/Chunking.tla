-------------------------------- MODULE Chunking -------------------------------
(* Retrieval chunks of a parsed document and their validation:                 *)
(* offline/chunking/legal_chunker.py, chunk_validator.py and tokenizer.py.     *)
(* budget is a ChunkingConfig: the tokens of a chunk, of its search text, of   *)
(* an overlap, and what the tokenizer adds to every text.                      *)
EXTENDS StructureParsing

\* ChunkingConfig.validate_token_limits
LegalBudget(b) == b.overlap < b.maxTokens /\ b.maxTokens < b.maxSearch

Count(budget, text) == budget.added + Len(text)

\* Windows of at most maxTokens, each beginning inside the one before it, up to
\* the first that reaches the end.
SplitTokens(budget, text) ==
    LET size == Len(text)
        window == budget.maxTokens - budget.added
        step == IF window > budget.overlap THEN window - budget.overlap ELSE 1
        start(n) == (n - 1) * step
        reaches(n) == start(n) + window >= size
        count == CHOOSE n \in 1..size : reaches(n) /\ \A k \in 1..(n - 1) : ~reaches(k)
        fragment(n) == SubSeq(text, start(n) + 1, IF reaches(n) THEN size ELSE start(n) + window)
    IN  IF Count(budget, text) <= budget.maxTokens THEN <<text>>
        ELSE [n \in 1..count |-> fragment(n)]

TextOf(blocks, indexes) == Flat([i \in DOMAIN indexes |-> blocks[indexes[i]].text])
--------------------------------------------------------------------------------
(* Drafts: which blocks are one chunk.  A draft is [sources, text, strategy,   *)
(* split, of], the sources the indexes of its blocks.                          *)

ContextHeadings == {"part", "chapter", "section", "subsection"}

Children(blocks, index) ==
    At([i \in DOMAIN blocks |-> i], {i \in DOMAIN blocks : blocks[i].parent = index})

\* The blocks a block is in, itself the first of them.
Path(blocks) ==
    LET path[i \in 0..Len(blocks)] == IF i = 0 THEN {} ELSE {i} \cup path[blocks[i].parent]
    IN  path

\* A block with everything below it: it is followed by what it contains.
Subtree(blocks, index) ==
    At([i \in DOMAIN blocks |-> i], {i \in DOMAIN blocks : index \in Path(blocks)[i]})

WholeDraft(blocks, sources, strategy) ==
    [sources |-> sources, text |-> TextOf(blocks, sources), strategy |-> strategy,
     split |-> 0, of |-> 1]

FallbackDrafts(budget, blocks, sources) ==
    LET fragments == SplitTokens(budget, TextOf(blocks, sources))
    IN  [i \in DOMAIN fragments |->
            [sources |-> sources, text |-> fragments[i], strategy |-> "token_fallback",
             split |-> i - 1, of |-> Len(fragments)]]

Fits(budget, blocks, sources) == Count(budget, TextOf(blocks, sources)) <= budget.maxTokens

\* The heading of an article with its first clause, then clause by clause.
ArticleUnits(blocks, article, context) ==
    LET children == Children(blocks, article)
        heading == Append(context, article)
    IN  IF children = <<>> THEN <<heading>>
        ELSE [n \in DOMAIN children |-> (IF n = 1 THEN heading ELSE <<>>)
                                            \o Subtree(blocks, children[n])]

Group(blocks, sources) ==
    IF sources = <<>> THEN <<>> ELSE <<WholeDraft(blocks, sources, "clause_group")>>

\* A unit joins the pending ones while they fit; one too long for itself is cut.
AddUnit(budget, blocks, state, unit) ==
    IF ~Fits(budget, blocks, unit)
    THEN [drafts |-> state.drafts \o Group(blocks, state.pending)
                                  \o FallbackDrafts(budget, blocks, unit),
          pending |-> <<>>]
    ELSE IF state.pending # <<>> /\ ~Fits(budget, blocks, state.pending \o unit)
    THEN [drafts |-> state.drafts \o Group(blocks, state.pending), pending |-> unit]
    ELSE [state EXCEPT !.pending = @ \o unit]

GroupedDrafts(budget, blocks, units) ==
    LET start == [drafts |-> <<>>, pending |-> <<>>]
        after[n \in 0..Len(units)] ==
            IF n = 0 THEN start ELSE AddUnit(budget, blocks, after[n - 1], units[n])
        end == after[Len(units)]
    IN  end.drafts \o Group(blocks, end.pending)

\* An article with its headings, or groups of its clauses when it is too long.
ArticleDrafts(budget, blocks, article, context) ==
    LET whole == context \o Subtree(blocks, article)
    IN  IF Fits(budget, blocks, whole) THEN <<WholeDraft(blocks, whole, "article")>>
        ELSE GroupedDrafts(budget, blocks, ArticleUnits(blocks, article, context))

StandaloneDrafts(budget, blocks, sources) ==
    IF Fits(budget, blocks, sources)
    THEN <<WholeDraft(blocks, sources, "standalone_block")>>
    ELSE FallbackDrafts(budget, blocks, sources)

\* Headings wait for the next article or block, whichever comes first.
AddBlock(budget, blocks, state, i) ==
    IF i \in state.consumed THEN state
    ELSE IF blocks[i].kind \in ContextHeadings
    THEN [state EXCEPT !.context = Append(@, i), !.consumed = @ \cup {i}]
    ELSE IF blocks[i].kind = "article"
    THEN [drafts |-> state.drafts \o ArticleDrafts(budget, blocks, i, state.context),
          context |-> <<>>, consumed |-> state.consumed \cup ToSet(Subtree(blocks, i))]
    ELSE [drafts |-> state.drafts
                        \o StandaloneDrafts(budget, blocks, Append(state.context, i)),
          context |-> <<>>, consumed |-> state.consumed \cup {i}]

Drafts(budget, blocks) ==
    LET start == [drafts |-> <<>>, context |-> <<>>, consumed |-> {}]
        after[n \in 0..Len(blocks)] ==
            IF n = 0 THEN start ELSE AddBlock(budget, blocks, after[n - 1], n)
        end == after[Len(blocks)]
    IN  end.drafts \o (IF end.context = <<>> THEN <<>>
                       ELSE StandaloneDrafts(budget, blocks, end.context))
--------------------------------------------------------------------------------
(* Chunks *)

\* The structure of the first block in an article, with all clauses and points.
AggregateStructure(blocks, sources) ==
    LET placed == {k \in DOMAIN sources : blocks[sources[k]].structure.article # None}
        base == IF placed = {} THEN 1 ELSE CHOOSE k \in placed : \A j \in placed : k <= j
        all(Field(_)) == Unique(Flat([k \in DOMAIN sources |->
                                         Field(blocks[sources[k]].structure)]))
    IN  [blocks[sources[base]].structure EXCEPT !.clauses = all(LAMBDA s : s.clauses),
                                                !.points = all(LAMBDA s : s.points)]

\* Context a chunk is searched by, one line per item that is known.
ContextLines(document, structure) ==
    LET known(kind, value) == IF value = None THEN <<>> ELSE <<Token(kind, value)>>
        numbers(kind, values) == [i \in DOMAIN values |-> Token(kind, values[i])]
        lines == <<document.name, known("document", document.number),
                   known("heading", structure.part), known("heading", structure.chapter),
                   known("heading", structure.section), known("heading", structure.subsection),
                   known("article", structure.article) \o structure.title,
                   numbers("clause", structure.clauses), numbers("point", structure.points)>>
    IN  At(lines, {i \in DOMAIN lines : lines[i] # <<>>})

\* The three tokens in front of the content.
ContentLabel == <<Token("word", "content"), Token("word", "label"), Token("punctuation", "colon")>>

\* The context lines that fit beside the content, from the last to the first.
Chosen(budget, lines, content) ==
    LET text(chosen) == Flat(At(lines, chosen)) \o content
        with[n \in 0..Len(lines)] ==
            IF n = 0 THEN {}
            ELSE LET later == with[n - 1]  more == later \cup {Len(lines) + 1 - n}
                 IN  IF Count(budget, text(more)) <= budget.maxSearch THEN more ELSE later
    IN  with[Len(lines)]

SearchTextUnlabelled(budget, document, structure, text) ==
    LET lines == ContextLines(document, structure)
    IN  Flat(At(lines, Chosen(budget, lines, text))) \o ContentLabel \o text

\* The content behind its label with as much of its context as fits; the content
\* itself is never cut.
SearchText(budget, document, structure, text) ==
    LET lines == ContextLines(document, structure)
        content == ContentLabel \o text
    IN  Flat(At(lines, Chosen(budget, lines, content))) \o content

\* The chunk_id is a digest of the document, the strategy, the sources, the
\* split and the text.
Chunk(budget, document, blocks, draft) ==
    LET structure == AggregateStructure(blocks, draft.sources)
    IN  [id |-> <<document.doc, draft.strategy, draft.sources, draft.split, draft.text>>,
         doc |-> document.doc, number |-> document.number, title |-> document.title,
         url |-> document.url, status |-> document.status,
         article |-> structure.article, structure |-> structure, text |-> draft.text,
         search |-> SearchText(budget, document, structure, draft.text),
         strategy |-> draft.strategy, sources |-> draft.sources, of |-> draft.of]

\* Errors the validator finds in the chunks of a document.
ChunkErrors(budget, blocks, chunks) ==
    LET positions == DOMAIN chunks
        text(c) == TextOf(blocks, c.sources)
        windows(c) == At(chunks, {i \in positions : /\ chunks[i].strategy = "token_fallback"
                                                    /\ chunks[i].sources = c.sources})
        wrong == [
            duplicate_chunk_id |-> Cardinality({chunks[i].id : i \in positions})
                                       < Len(chunks),
            chunk_too_long |-> \E i \in positions :
                Count(budget, chunks[i].text) > budget.maxTokens,
            search_text_too_long |-> \E i \in positions :
                Count(budget, chunks[i].search) > budget.maxSearch,
            chunk_text_mismatch |-> \E i \in positions :
                chunks[i].strategy # "token_fallback" /\ chunks[i].text # text(chunks[i]),
            token_fallback_mismatch |-> \E i \in positions :
                LET found == windows(chunks[i])
                    expected == SplitTokens(budget, text(chunks[i]))
                IN  /\ chunks[i].strategy = "token_fallback"
                    /\ \/ [k \in DOMAIN found |-> found[k].text] # expected
                       \/ chunks[i].of # Len(expected),
            uncovered_source_block |->
                DOMAIN blocks # UNION {ToSet(chunks[i].sources) : i \in positions}]
    IN  {e \in DOMAIN wrong : wrong[e]}

\* LegalChunker.chunk_document: the chunks, or a DataValidationError.
Validated(budget, blocks, chunks) ==
    IF ChunkErrors(budget, blocks, chunks) = {} THEN [error |-> "none", chunks |-> chunks]
    ELSE [error |-> "DATA_VALIDATION_ERROR", chunks |-> <<>>]

ChunksOf(budget, document, blocks, drafts) ==
    [i \in DOMAIN drafts |-> Chunk(budget, document, blocks, drafts[i])]

ChunkDocument(budget, document, blocks) ==
    Validated(budget, blocks, ChunksOf(budget, document, blocks, Drafts(budget, blocks)))
================================================================================
