---------------------------- MODULE MCAlgorithms ----------------------------
(* Inputs of Algorithms for TLC.                                             *)
EXTENDS Algorithms, Naturals, FiniteSets, Sequences, SequencesExt, FiniteSetsExt

CONSTANTS MaxLines, MaxLongLines, MaxQuotes, MaxRows, MaxHeaderLines

\* Every text of up to MaxLines lines, and longer ones without quotes, with headings or
\* with blanks; headers of up to MaxQuotes quotes of up to two segments above a text.  A
\* pair says where it is.
Lines(marks, n) == UNION {[1..k -> marks] : k \in 0..n}
Line(mark, i, keys) ==
    [mark |-> mark, at |-> i,
     segments |-> [n \in DOMAIN keys |-> [key |-> keys[n], words |-> {10 * i + n}]]]
Kinds == ((Marks \ {"h3"}) \X {<<>>}) \cup {<<"quote", <<"Owner">>>>}
Quotes == {"quote"} \X Lines({NoKey, "Owner", "Version"}, 2)
Plain(marks) == marks \X {<<>>}
MCDocuments ==
    {[text |-> [i \in DOMAIN t |-> Line(t[i][1], i, t[i][2])], oversized |-> FALSE, textual |-> TRUE] :
        t \in Lines(Kinds, MaxLines) \cup Lines(Plain({"h1", "h2", "h3", "text"}), MaxLongLines)
             \cup Lines(Plain({"h2", "text", "blank"}), MaxLongLines + 1)
             \cup {Append(q, <<"text", <<"Owner">>>>) : q \in Lines(Quotes, MaxQuotes)}}
    \cup [text : {<<Line("text", 1, <<>>)>>}, oversized : BOOLEAN, textual : BOOLEAN]

Row(source, k) == [source |-> source, chunk_index |-> k, front_matter |-> <<>>,
                   chunk_text |-> <<Line("text", 10 + k, <<>>)>>]
MCStored == {Row("document", 0), Row("document", 9), Row("another", 0)}
MCSource == "document"

\* Rows of up to two cells; a CSV has one sheet, a workbook two.
Cells == {"question", "id", "", "t"}
Rows == {<<>>} \cup {<<c>> : c \in Cells} \cup (Cells \X Cells)
Sheets == UNION {[1..k -> Rows] : k \in 0..MaxRows}
SmallSheets == UNION {[1..k -> {<<"question">>, <<"t">>, <<"">>, <<"t", "t">>}] : k \in 0..MaxRows - 1}
MCFiles ==
    {[kind |-> "csv", sheets |-> <<s>>] : s \in Sheets}
    \cup {[kind |-> k, sheets |-> <<s, t>>] : k \in {"excel"}, s \in SmallSheets, t \in SmallSheets}
    \cup {[kind |-> "pdf", sheets |-> <<>>]}

\* Five rows, one of another organisation: those that the filters tell apart, with a
\* reranker that gives all the same, and shareable ones with any scores.
Source1 == [c1 |-> "policy", c2 |-> "policy", c3 |-> "control", c4 |-> "evidence", c5 |-> "policy"]
Ids == DOMAIN Source1
ChunkOf(id, share, bare) ==
    [id |-> id, org |-> IF id = "c5" THEN "other" ELSE "own", source_type |-> Source1[id],
     source_id |-> IF id = "c5" THEN "c1" ELSE id, confidentiality |-> "internal",
     embedded |-> id # bare, customer_shareable |-> share[id]]
Corpus(share, bare, order, score) ==
    LET row(id) == ChunkOf(id, share, bare)
    IN [rows |-> <<row("c1"), row("c2"), row("c3"), row("c4"), row("c5")>>,
        near |-> <<row("c1"), row("c5"), row("c2"), row("c3"), row("c4")>>,
        matching |-> [i \in DOMAIN order |-> row(order[i])],
        score |-> score, blank |-> FALSE]
Orders == UNION {SetToSeqs(ids) : ids \in SUBSET {"c1", "c2", "c3", "c4"}}
AllSame == [id \in Ids |-> 0]
AllShared == [id \in Ids |-> "yes"]
Filters == [org : {"own"}, source_types : {{}, {"policy"}}, confidentiality : {{}, {"internal"}},
            customer_shareable : {"any", "yes", "no"}]
NoFilter == [org |-> "own", source_types |-> {}, confidentiality |-> {},
             customer_shareable |-> "any"]
MCSearches ==
    {[corpus |-> Corpus(share, "none", order, AllSame), filters |-> f, top_k |-> 2] :
        share \in {s \in [Ids -> {"yes", "no", "unset"}] : s["c5"] = "yes"}, f \in Filters,
        order \in {<<>>, <<"c2", "c1">>, <<"c4", "c5", "c3">>}}
    \cup {[corpus |-> Corpus(AllShared, bare, order, score), filters |-> NoFilter, top_k |-> k] :
        bare \in {"none", "c1"}, order \in Orders, k \in {1, 3},
        score \in {s \in [Ids -> {0, 1}] : s["c5"] = 0}}
    \cup {[corpus |-> [Corpus(AllShared, "none", <<"c1">>, AllSame) EXCEPT !.blank = TRUE],
           filters |-> NoFilter, top_k |-> 3]}

\* Lines that state a classification or related controls, or neither, in a header or
\* in the body; and the policies they make.
Pair(key, words) == [key |-> key, words |-> words]
LineKinds ==
    {[mark |-> m, segments |-> <<>>] : m \in {"h1", "blank", "text", "quote"}}
    \cup {[mark |-> m, segments |-> <<p>>] :
            m \in {"quote", "text"},
            p \in {Pair("Classification", w) : w \in {{}, {"public"}, {"customer-shareable"}}}
                  \cup {Pair("Related controls", w) : w \in {{}, {"CC7.1", "IAM"}}}}
    \cup {[mark |-> "quote", segments |-> <<p, q>>] :
            p \in {Pair("Owner", {}), Pair("Classification", {})},
            q \in {Pair("Classification", {"public"})}}
Policies == {[i \in DOMAIN t |-> t[i] @@ [at |-> i]] : t \in Lines(LineKinds, MaxHeaderLines)}

Control(code, domain, frameworks) ==
    [code |-> code, domain |-> domain, frameworks |-> frameworks]
Catalog == <<Control("CC7.1", "ops", {"SOC2"}), Control("", "ops", {}),
             Control("CC1.1", "compliance", {"SOC2", "ISO 27001"})>>
Doubled == Append(Catalog, Control("CC7.1", "ops", {}))
Answered == [CAIQ |-> <<<<<<"t">>>>, <<<<"id", "question">>, <<"a", "t">>, <<"", "t">>, <<"b">>>>>>,
             SecQ |-> <<>>]
Directory(policies, stems, controls) ==
    [profile |-> OneLine, policies |-> policies, controls |-> controls, answered |-> Answered,
     evidence |-> [k \in DOMAIN stems |-> [stem |-> stems[k], text |-> OneLine]]]
MCDirectories ==
    {Directory(<<p>>, <<>>, Catalog) : p \in Policies}
    \cup {Directory(<<OneLine>>, stems, controls) : controls \in {Catalog, Doubled},
            stems \in UNION {SetToSeqs(s) : s \in SUBSET {"Security_Whitepaper", "notes",
                          "SOC2_Type2_Report", "Pentest_Executive_Summary"}}}
=============================================================================
