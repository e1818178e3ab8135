----------------------------- MODULE Algorithms -----------------------------
(***************************************************************************)
(* The pure parts of the system, on one input at a time: documents that    *)
(* are ingested, files that are uploaded, queries that are searched for,   *)
(* and directories that are seeded.                                        *)
(***************************************************************************)
EXTENDS Corpus, QuestionnaireRows

CONSTANTS
    Documents,  \* documents to ingest
    Stored,     \* the rows that are there before
    Source,     \* the source a document is ingested for
    Files,      \* files to upload
    Searches,   \* corpora, with the filters, arguments and limits of a search
    Directories \* directories of seed data

ASSUME DocumentAssumption == \A document \in Documents : TextOK(document.text)

ASSUME SearchAssumption ==
    \A search \in Searches : CorpusOK(search.corpus) /\ search.top_k \in Nat

ASSUME FileAssumption == \A file \in Files : FileOK(file)

ASSUME DirectoryAssumption == \A dir \in Directories : DirectoryOK(dir)

VARIABLE input

NoInput == [of |-> "nothing"]

Init == input = NoInput

Ingest ==
    /\ input = NoInput
    /\ \E document \in Documents : input' = [of |-> "ingest", document |-> document]

Upload ==
    /\ input = NoInput
    /\ \E file \in Files : input' = [of |-> "upload", file |-> file]

Search ==
    /\ input = NoInput
    /\ \E search \in Searches : input' = [of |-> "search", search |-> search]

Seed ==
    /\ input = NoInput
    /\ \E dir \in Directories : input' = [of |-> "seed", dir |-> dir]

Next == Ingest \/ Upload \/ Search \/ Seed

Spec == Init /\ [][Next]_input

-----------------------------------------------------------------------------
\* Ingesting leaves the source with every line of the document that is not of its header
\* and with the last value of each key of the header, and with nothing else
\* (pipeline.py:135-165).
DocumentHeld ==
    input.of = "ingest" => DocumentHeldIn(Stored, Source, input.document)

\* Chunks fit, overlap and stay within one section (structure.py:139-159).
ContextKept ==
    input.of = "ingest" => ContextKeptIn(ExtractFrontMatter(input.document.text).body)

\* An upload gives exactly the questions its rows have (parse.py:99-144).
RowsBecomeQuestions ==
    input.of = "upload" => RowsBecomeQuestionsIn(input.file)

\* Retrieval keeps the best of all candidates (pipeline.py:42-100).
RetrievalSound ==
    input.of = "search" =>
        RetrievalSoundIn(input.search.corpus, input.search.filters, input.search.top_k)

\* Search and lookup by id let the same rows through (agent_tools.py:175-225).
GatesAgree ==
    input.of = "search" =>
        \A customer_facing \in BOOLEAN :
            GatesAgreeIn(input.search.corpus, input.search.filters.org, customer_facing,
                         input.search.filters)

\* What a customer-facing search reaches of a policy is decided by the first statement of
\* its header, and by its body when the header makes none, although seed.py:313 says that
\* only the header is read (seed.py:122-165, 417-538).
SharedAsDeclared ==
    input.of = "seed" => SharedAsDeclaredIn(input.dir)
=============================================================================
