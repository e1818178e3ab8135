------------------------------- MODULE Corpus -------------------------------
(***************************************************************************)
(* What a seed makes of a directory of seed data (seed.py): controls,      *)
(* documents, the links between them, approved answers and findings, and   *)
(* the knowledge chunks of all, with the metadata retrieval filters on.    *)
(*                                                                         *)
(* A text is as in Chunking; the words are those of a classification or    *)
(* the codes of related controls, and a key is written **Key:** as both    *)
(* readers of it expect.  An id is the kind of a row and its place.        *)
(* Documents are those the screen lets through (Provisioning has it).      *)
(***************************************************************************)
EXTENDS Chunking, Retrieval

Share(confidentiality, customer_shareable) ==
    [confidentiality |-> confidentiality, customer_shareable |-> customer_shareable]

-----------------------------------------------------------------------------
(* Policies.                                                               *)

\* The header's patterns see what a line begins with, and with it the rest of the line;
\* a heading is never one.
States(line, key) == Level(line) = 0 /\ line.segments # <<>> /\ line.segments[1].key = key
Said(line) == UNION {segment.words : segment \in ToSet(line.segments)}

\* The places of the text, header or not, that state it; a list of controls that
\* names none is passed over.
StatedAt(text, key) ==
    {i \in DOMAIN text : /\ States(text[i], key)
                         /\ key = "Related controls" => Said(text[i]) # {}}

\* Mutant: the last statement is taken.
LastHeaderPair(text, key) ==
    LET at == StatedAt(text, key) IN IF at = {} THEN {} ELSE Said(text[Max(at)])

\* The first statement is taken: the words of the classification, the codes of the
\* related controls.  What follows is not looked at.
ExtractPolicyHeader(text, key) ==
    LET at == StatedAt(text, key) IN IF at = {} THEN {} ELSE Said(text[Min(at)])

ClassifyPolicy(words) ==
    CASE "public" \in words -> Share("public", "yes")
      [] "customer-shareable" \in words -> Share("confidential", "yes")
      [] OTHER -> Share("internal", "no")

-----------------------------------------------------------------------------
(* The other documents are known by their file names.                      *)

EVIDENCE_META ==
    [SOC2_Type2_Report |-> "soc2_report", Pentest_Executive_Summary |-> "pentest_summary",
     PCI_DSS_AOC_ServiceProvider |-> "pci_aoc", ISO27001_Certificate_and_SoA |-> "iso_certificate",
     Security_Whitepaper |-> "whitepaper"]

EvidenceType(stem) ==
    IF stem \in DOMAIN EVIDENCE_META THEN EVIDENCE_META[stem] ELSE "document"

EvidenceShare(stem) ==
    CASE stem = "Security_Whitepaper" -> Share("public", "yes")
      [] stem \in DOMAIN EVIDENCE_META -> Share("confidential", "yes")
      [] OTHER -> Share("confidential", "no")

EvidenceRow(table, k, type, share) ==
    [id |-> <<table, k>>, evidence_type |-> type, confidentiality |-> share.confidentiality,
     customer_shareable |-> share.customer_shareable]

EvidenceFileRow(dir, k) ==
    LET stem == dir.evidence[k].stem
    IN EvidenceRow("evidence", k, EvidenceType(stem), EvidenceShare(stem))

PolicyRow(dir, k) ==
    EvidenceRow("policy", k, "policy",
                ClassifyPolicy(ExtractPolicyHeader(dir.policies[k], "Classification")))

\* Evidence rows: those of evidence/, then those of policies/.
Evidence(dir) ==
    {EvidenceFileRow(dir, k) : k \in DOMAIN dir.evidence}
    \cup {PolicyRow(dir, k) : k \in DOMAIN dir.policies}

-----------------------------------------------------------------------------
(* Controls, findings and approved answers.                                *)

\* Rows without a code are passed over.
Controls(dir) == {k \in DOMAIN dir.controls : dir.controls[k].code # ""}
Coded(dir, codes) == {k \in Controls(dir) : dir.controls[k].code \in codes}
Mapped(dir, framework) == {k \in Controls(dir) : framework \in dir.controls[k].frameworks}

\* Links of evidence by framework, of the penetration test to two controls, and of a
\* policy to each control it names that there is.
Links(dir) ==
    UNION {{row.id} \X CASE row.evidence_type = "soc2_report" -> Mapped(dir, "SOC2")
                         [] row.evidence_type = "iso_certificate" -> Mapped(dir, "ISO 27001")
                         [] row.evidence_type = "pentest_summary" -> Coded(dir, {"PEN1.1", "CC7.1"})
                         [] row.evidence_type = "policy" ->
                              Coded(dir, ExtractPolicyHeader(dir.policies[row.id[2]],
                                                             "Related controls"))
                         [] OTHER -> {} :
              row \in Evidence(dir)}

\* The register belongs to the first penetration test, if there is one.
Findings(dir) ==
    LET tests == {k \in DOMAIN dir.evidence :
                     EvidenceType(dir.evidence[k].stem) = "pentest_summary"}
    IN IF tests = {} THEN {}
       ELSE {"H-01", "M-01", "M-02", "M-03", "L-01"} \X {<<"evidence", Min(tests)>>}

\* The first sheet with a row that has a Question ID: what is below that row, as far as
\* it is not blank, by the last column with each header.
ReadQuestionnaireRows(sheets) ==
    LET at(sheet) == {i \in DOMAIN sheet : "id" \in ToSet(sheet[i])}
        headed == {s \in DOMAIN sheets : at(sheets[s]) # {}}
        sheet == sheets[Min(headed)]
        top == Min(at(sheet))
        cell(row, header) ==
            LET columns == {c \in DOMAIN row \cap DOMAIN sheet[top] : sheet[top][c] = header}
            IN IF columns = {} THEN "" ELSE row[Max(columns)]
    IN IF headed = {} THEN <<>>
       ELSE [i \in 1..Len(sheet) - top |->
                [id |-> cell(sheet[top + i], "id"), question |-> cell(sheet[top + i], "question"),
                 answer |-> cell(sheet[top + i], "answer")]]

\* Those that have an id, of both questionnaires; a missing file has none.
ApprovedAnswers(dir) ==
    UNION {LET rows == ReadQuestionnaireRows(dir.answered[source])
           IN {[source |-> source, row |-> k, of |-> rows[k]] :
                 k \in {i \in DOMAIN rows : rows[i].id # ""}} : source \in DOMAIN dir.answered}

\* uq_control_org_code and uq_approved_answer_src_qid: one that is broken fails the seed.
Distinct(dir) ==
    /\ \A j, k \in Controls(dir) : dir.controls[j].code = dir.controls[k].code => j = k
    /\ \A a, b \in ApprovedAnswers(dir) : a.source = b.source /\ a.of.id = b.of.id => a = b

-----------------------------------------------------------------------------
(* Knowledge chunks.                                                       *)

\* What a control or an approved answer says, as one line.
OneLine == <<[mark |-> "text", at |-> 1, segments |-> <<>>]>>

Ingestible(source_type, id, text, share) ==
    [source_type |-> source_type, id |-> id, text |-> Strip(text), share |-> share]

\* What there is to chunk, with the classification of its row.  A profile is internal
\* and says nothing of being shareable, controls are shared if they state compliance,
\* approved answers are, unless they say nothing.
Sources(dir) ==
    {Ingestible("company_profile", <<"profile", 1>>, dir.profile, Share("internal", "unset"))}
    \cup {Ingestible(row.id[1], row.id,
                     IF row.id[1] = "policy" THEN dir.policies[row.id[2]]
                     ELSE dir.evidence[row.id[2]].text,
                     Share(row.confidentiality, row.customer_shareable)) : row \in Evidence(dir)}
    \cup {Ingestible("control", <<"control", k>>, OneLine,
                     IF dir.controls[k].domain = "compliance" THEN Share("confidential", "yes")
                     ELSE Share("internal", "no")) : k \in Controls(dir)}
    \cup {Ingestible("approved_answer", <<answer.source, answer.row>>, OneLine,
                     Share("confidential", "yes")) :
              answer \in {a \in ApprovedAnswers(dir) : a.of.question # "" \/ a.of.answer # ""}}

\* A chunk of a source.
Chunk(s, row) ==
    [org |-> "own", source_type |-> s.source_type, source |-> row.source,
     confidentiality |-> s.share.confidentiality,
     customer_shareable |-> s.share.customer_shareable,
     chunk_index |-> row.chunk_index, chunk_text |-> row.chunk_text,
     front_matter |-> row.front_matter]

KnowledgeChunks(dir) ==
    UNION {{Chunk(s, row) : row \in BuildChunkRows(s.id, s.text)} : s \in Sources(dir)}

-----------------------------------------------------------------------------
(* Correctness.                                                            *)

\* A line has its segments in order, a blank one none; a list of controls has its line
\* for itself.
LineOK(line) ==
    /\ line.segments \in Seq(ToSet(line.segments))
    /\ Blank(line) => line.segments = <<>>
    /\ "Related controls" \in Keys(line) => Len(line.segments) = 1

\* A directory as there are: policies, files of evidence and controls in order, and the
\* two questionnaires.
DirectoryOK(dir) ==
    /\ \A text \in ToSet(dir.policies) :
         text \in Seq(ToSet(text)) /\ \A line \in ToSet(text) : LineOK(line)
    /\ dir.policies \in Seq(ToSet(dir.policies))
    /\ dir.evidence \in Seq(ToSet(dir.evidence))
    /\ dir.controls \in Seq(ToSet(dir.controls))
    /\ DOMAIN dir.answered \subseteq {"CAIQ", "SecQ"}

\* What a policy declares: the first statement of its header, whatever the body states.
\* A header that is silent leaves it to the body, whose first statement is taken.
Declared(text, key) ==
    LET header == {i \in StatedAt(text, key) : InHeader(text, i)}
        body == StatedAt(text, key) \ header
    IN CASE header # {} -> Said(text[Min(header)])
         [] header = {} /\ body # {} -> Said(text[Min(body)])
         [] OTHER -> {}

\* The lines of the header with a pair of the key.
HeaderLines(text, key) ==
    {text[i] : i \in {j \in DOMAIN text : InHeader(text, j) /\ key \in Keys(text[j])}}

\* A search for a customer may find the row.
Reached(row) ==
    Admits([org |-> "own", source_types |-> {}, confidentiality |-> {},
            customer_shareable |-> "yes"], row)

Open(words) == words \cap {"public", "customer-shareable"} # {}

\* A policy is reached exactly when what it declares is public or shareable, the first
\* statement of the header or, of a header that is silent, of the body (seed.py:153-165);
\* it is linked to the controls it declares so and to no others.  The metadata have a
\* classification only from the header (structure.py:42-83), and the same one when the
\* header has one pair of it, with a line for itself.
PolicyAsDeclared(dir, k, chunks) ==
    LET text == dir.policies[k]
        lines == HeaderLines(text, "Classification")
    IN /\ \A row \in chunks : row.source = <<"policy", k>> =>
            /\ Reached(row) <=> Open(Declared(text, "Classification"))
            /\ "Classification" \in DOMAIN row.front_matter <=> lines # {}
            /\ (\E line \in lines : lines = {line} /\ Len(line.segments) = 1) =>
                    (Reached(row) <=> Open(row.front_matter["Classification"]))
       /\ {link[2] : link \in {l \in Links(dir) : l[1] = <<"policy", k>>}}
                = Coded(dir, Declared(text, "Related controls"))

\* The documents that may be attached for a customer.
Shareable(dir) == {row.id : row \in {r \in Evidence(dir) : r.customer_shareable = "yes"}}

\* Policies are shared as they declare; what is reached of a document may be attached,
\* the register belongs to such a document, and what says nothing of being shareable
\* is not reached.
SharedAsDeclaredIn(dir) ==
    LET chunks == KnowledgeChunks(dir)
    IN Distinct(dir) =>
         /\ \A k \in DOMAIN dir.policies : PolicyAsDeclared(dir, k, chunks)
         /\ \A row \in chunks : Reached(row) =>
              /\ row.source_type # "company_profile"
              /\ row.source_type \in {"evidence", "policy"} => row.source \in Shareable(dir)
         /\ \A finding \in Findings(dir) : finding[2] \in Shareable(dir)
=============================================================================
