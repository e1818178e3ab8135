------------------------------ MODULE Chunking ------------------------------
(***************************************************************************)
(* How a document becomes chunks (ingestion/structure.py, chunk.py and     *)
(* pipeline.py).                                                           *)
(*                                                                         *)
(* A text is a sequence of lines, each with its mark (what the code sees   *)
(* in it), its place, so that no two lines are alike, and its segments:    *)
(* what the middots in it part.  Lengths count lines where the code counts *)
(* characters.  A "quote" starts with ">".  A segment is a **Key:** value, *)
(* the value known by the words looked for in it, or has no key.           *)
(***************************************************************************)
EXTENDS Listing, FiniteSetsExt, SequencesExt

CONSTANTS
    Size,    \* chunk_size
    Overlap  \* chunk_overlap

ASSUME WindowAssumption == Size \in Nat \ {0} /\ Overlap \in 0..Size - 1

Marks == {"h1", "h2", "h3", "text", "blank", "quote"}
BlankLine == [mark |-> "blank", at |-> 0, segments |-> <<>>]
NoKey == "" \* of a segment that is no pair

Blank(line) == line.mark = "blank"
Quoted(line) == line.mark = "quote"
Level(line) == CASE line.mark = "h1" -> 1
                 [] line.mark = "h2" -> 2
                 [] line.mark = "h3" -> 3
                 [] OTHER -> 0
Headings(text) == {i \in DOMAIN text : Level(text[i]) > 0}

Strip(text) ==
    LET kept == {i \in DOMAIN text : ~Blank(text[i])}
    IN IF kept = {} THEN <<>> ELSE SubSeq(text, Min(kept), Max(kept))

NonEmpty(texts) == Picked(texts, {k \in DOMAIN texts : texts[k] # <<>>})

-----------------------------------------------------------------------------
(* chunk.py                                                                *)

Step == Size - Overlap

Window(text, k) == Strip(SubSeq(text, k * Step + 1, Min({k * Step + Size, Len(text)})))

\* Mutant: the last window is the last one that is full.
FullWindows(text) ==
    LET body == Strip(text)
        last == IF Len(body) <= Size THEN 0 ELSE (Len(body) - Size) \div Step
    IN NonEmpty([k \in 1..last + 1 |-> Window(body, k - 1)])

\* Mutant: windows do not overlap.
AbuttingWindows(text) ==
    LET body == Strip(text)
        last == IF body = <<>> THEN 0 ELSE (Len(body) - 1) \div Size
    IN NonEmpty([k \in 1..last + 1 |->
                    Strip(SubSeq(body, (k - 1) * Size + 1, Min({k * Size, Len(body)})))])

\* The last window, counted from 0: the first to reach the end of n lines.
LastWindow(n) == IF n <= Size THEN 0 ELSE (n - Size + Step - 1) \div Step

\* Overlapping windows over the stripped text.
Windows(text) ==
    LET body == Strip(text) IN [k \in 1..LastWindow(Len(body)) + 1 |-> Window(body, k - 1)]

\* A text that fits is one window, an empty one has none.
ChunkText(text) == NonEmpty(Windows(text))

-----------------------------------------------------------------------------
(* structure.py                                                            *)

\* The first place from i on whose line bears none of the marks given.
SkipWhile(text, i, marks) ==
    Min({j \in i..Len(text) + 1 : j > Len(text) \/ text[j].mark \notin marks})

\* The first line that is not blank is kept if it is a title: the last place of what is
\* above the header.
TitleEnd(text) ==
    LET i == SkipWhile(text, 1, {"blank"})
    IN IF i <= Len(text) /\ Level(text[i]) = 1 THEN i ELSE i - 1

\* The run of quotes that heads a text, after an optional title.
BlockStart(text) == SkipWhile(text, TitleEnd(text) + 1, {"blank"})
BlockEnd(text) == SkipWhile(text, BlockStart(text), {"quote"})

Keys(line) == {segment.key : segment \in ToSet(line.segments)} \ {NoKey}

\* What the last segment with the key says.
LastSaid(line, key) ==
    line.segments[Max({n \in DOMAIN line.segments : line.segments[n].key = key})].words

\* The dict that the lines in these places fill, one pair after the other: a key that
\* comes again has its value overwritten.
MetadataOf(text, places) ==
    [key \in UNION {Keys(text[i]) : i \in places} |->
        LastSaid(text[Max({i \in places : key \in Keys(text[i])})], key)]

\* The block is routed out: body is what is left, front_matter the pairs in it, and what
\* is no pair is dropped.
ExtractFrontMatter(text) ==
    [body |-> IF BlockEnd(text) = BlockStart(text) THEN text
              ELSE Strip(SubSeq(text, 1, TitleEnd(text)) \o SubSeq(text, BlockEnd(text), Len(text))),
     front_matter |-> MetadataOf(text, BlockStart(text)..BlockEnd(text) - 1)]

\* The shallowest level that repeats, or the shallowest there is.
ChooseSplitLevel(text) ==
    LET levels == {Level(text[i]) : i \in Headings(text)}
        repeated == {l \in levels :
                        Cardinality({i \in Headings(text) : Level(text[i]) = l}) >= 2}
    IN Min(IF repeated # {} THEN repeated ELSE levels)

SplitPoints(text) == {i \in Headings(text) : Level(text[i]) = ChooseSplitLevel(text)}

\* The title, as a text of one line, when the first heading is one.
Title(text) ==
    LET first == text[Min(Headings(text))] IN IF Level(first) = 1 THEN <<first>> ELSE <<>>

WithTitle(title, part) ==
    LET block == Strip(part)
    IN IF title # <<>> /\ block # <<>> /\ Head(block) # title[1]
       THEN title \o <<BlankLine>> \o block
       ELSE block

\* One section per heading of the split level, after what precedes the first of
\* them; none when there are not two headings.
SplitSections(text) ==
    IF Cardinality(Headings(text)) < 2 THEN <<>>
    ELSE LET points == Ascending(SplitPoints(text))
             bounds == Append(points, Len(text) + 1)
             title == Title(text)
             top == Strip(SubSeq(text, 1, points[1] - 1))
             preamble == IF title # <<>> /\ top # <<>> /\ Head(top) = title[1]
                         THEN Tail(top) ELSE top
         IN NonEmpty(<<WithTitle(title, preamble)>>
                     \o [k \in 1..Len(points) |->
                            WithTitle(title, SubSeq(text, bounds[k], bounds[k + 1] - 1))])

\* Windows of each section (one that fits is a single window), or of the whole.
ChunkDocument(text) ==
    LET body == Strip(text)
        sections == SplitSections(body)
    IN IF sections = <<>> THEN ChunkText(body)
       ELSE Joined([k \in DOMAIN sections |-> ChunkText(sections[k])])

-----------------------------------------------------------------------------
(* pipeline.py: knowledge_chunks is a set of rows.                         *)

BuildChunkRows(source, text) ==
    LET split == ExtractFrontMatter(text)
        pieces == ChunkDocument(split.body)
    IN {[source |-> source, chunk_index |-> k - 1, chunk_text |-> pieces[k],
         front_matter |-> split.front_matter] : k \in DOMAIN pieces}

\* What the source had before is deleted first.
UpsertChunks(stored, source, rows) == {row \in stored : row.source # source} \cup rows

IngestText(stored, source, text) == UpsertChunks(stored, source, BuildChunkRows(source, text))

\* A document too large or of a type that is not text is refused as a whole; its
\* bytes are decoded, line ends made one, blanks around it dropped.
IngestDocument(stored, source, document) ==
    IF document.oversized \/ ~document.textual THEN stored
    ELSE IngestText(stored, source, Strip(document.text))

-----------------------------------------------------------------------------
(* Correctness, of the rows a source has once a document is ingested.      *)

\* Lines are told apart by their place; their segments are in order.
TextOK(text) ==
    /\ text \in Seq(ToSet(text)) /\ IsInjective(text)
    /\ \A line \in ToSet(text) : line.segments \in Seq(ToSet(line.segments))

RowsOf(stored, source) == {row \in stored : row.source = source}
Places(lines) == {line.at : line \in {l \in lines : ~Blank(l)}}

\* Line i belongs to the header: it is in a run of quotes with nothing above the
\* run but blank lines and at most one title.
InHeader(text, i) ==
    \E first \in 1..i :
        /\ \A j \in first..i : Quoted(text[j])
        /\ \A j \in 1..first - 1 : Blank(text[j]) \/ Level(text[j]) = 1
        /\ Cardinality({j \in 1..first - 1 : ~Blank(text[j])}) <= 1

\* The pairs of the lines in some places: segment p[2] of line p[1].
PairsOf(text, places) ==
    {p \in UNION {{i} \X DOMAIN text[i].segments : i \in places} :
        text[p[1]].segments[p[2]].key # NoKey}
PairAt(text, p) == text[p[1]].segments[p[2]]
Follows(q, p) == p[1] < q[1] \/ (p[1] = q[1] /\ p[2] < q[2])

\* A dict has the value of each of these pairs, unless a later one of them has its key,
\* and nothing that none of them says.
HasPairsOf(dict, text, places) ==
    /\ \A p \in PairsOf(text, places) :
         /\ PairAt(text, p).key \in DOMAIN dict
         /\ \/ dict[PairAt(text, p).key] = PairAt(text, p).words
            \/ \E q \in PairsOf(text, places) :
                 Follows(q, p) /\ PairAt(text, q).key = PairAt(text, p).key
    /\ \A key \in DOMAIN dict : \E p \in PairsOf(text, places) :
         PairAt(text, p).key = key /\ PairAt(text, p).words = dict[key]

\* Rows hold a text: each line that is not of the header is embedded in some chunk, no
\* line of the header is in any, and every row has the pairs of the header as metadata,
\* the last of each key.  What else the header says (a disclaimer, a value overwritten)
\* is dropped.
HoldText(rows, text) ==
    LET header == {i \in DOMAIN text : InHeader(text, i)}
    IN /\ UNION {Places(ToSet(row.chunk_text)) : row \in rows}
                = Places({text[i] : i \in DOMAIN text \ header})
       /\ \A row \in rows : HasPairsOf(row.front_matter, text, header)

\* Ingesting a document (pipeline.py:135-165) leaves its source with rows that hold it;
\* nothing of what the source had before is left (idempotent re-ingestion,
\* pipeline.py:8-10), and other sources keep their rows.  A document refused changes
\* nothing.
DocumentHeldIn(stored, source, document) ==
    LET after == IngestDocument(stored, source, document)
        mine == RowsOf(after, source)
    IN IF document.oversized \/ ~document.textual THEN after = stored
       ELSE /\ HoldText(mine, Strip(document.text))
            /\ after \ mine = {row \in stored : row.source # source}

\* Lines of one section at most Overlap apart share a chunk, lines of two sections do
\* not.
KeepContext(chunks, lines, heads, title) ==
    LET together(i, j) == \E chunk \in chunks : {lines[i], lines[j]} \subseteq ToSet(chunk)
        sameSection(i, j) == heads \cap i + 1..j = {}
        body == {i \in DOMAIN lines : ~Blank(lines[i]) /\ lines[i] \notin title}
    IN \A i, j \in body : i <= j =>
          /\ j - i <= Overlap /\ sameSection(i, j) => together(i, j)
          /\ ~sameSection(i, j) => ~together(i, j)

\* Chunks keep context and topic (chunk.py:1-7, structure.py:1-14): a chunk fits the
\* size; lines of one section that are at most Overlap apart share a chunk; and,
\* when a text has the headings to be split at, no chunk has lines of two sections,
\* the title aside.
ContextKeptIn(text) ==
    LET chunks == ToSet(ChunkDocument(text))
        lines == Strip(text)
    IN /\ \A chunk \in chunks : Len(chunk) \in 1..Size
       /\ IF Cardinality(Headings(lines)) < 2 THEN KeepContext(chunks, lines, {}, {})
          ELSE KeepContext(chunks, lines, SplitPoints(lines), ToSet(Title(lines)))
=============================================================================
