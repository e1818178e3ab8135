-------------------------- MODULE QuestionnaireRows --------------------------
(***************************************************************************)
(* How an uploaded file becomes questions (questionnaires/parse.py).       *)
(*                                                                         *)
(* A file has a kind and sheets (one, for CSV); a sheet is a sequence of   *)
(* rows and a row a sequence of cells.  Cells are normalised already: ""   *)
(* is a blank one, and Headers of one kind are one cell.                   *)
(***************************************************************************)
EXTENDS Listing, FiniteSetsExt, SequencesExt

CONSTANTS
    MaxQuestions,  \* MAX_QUESTIONS
    HeaderScan     \* rows of a sheet looked at for a header

ASSUME LimitAssumption == MaxQuestions \in Nat /\ HeaderScan \in Nat

\* A file as there are: sheets of rows of cells, and a CSV is one sheet.
FileOK(file) ==
    /\ file.sheets \in Seq(ToSet(file.sheets))
    /\ \A sheet \in ToSet(file.sheets) :
         sheet \in Seq(Seq(UNION {ToSet(row) : row \in ToSet(sheet)}))
    /\ file.kind = "csv" => file.sheets # <<>>

\* A file is refused as a whole, with the error it raises.
Refused(error) == [error |-> error, questions |-> <<>>]

\* Rows that have a question header in one of their cells (_find_header).
HeaderRows(rows) == {i \in DOMAIN rows : "question" \in ToSet(rows[i])}

\* The first column with a header of this name, 0 when there is none (_col).
Column(row, header) ==
    LET columns == {c \in DOMAIN row : row[c] = header}
    IN IF columns = {} THEN 0 ELSE Min(columns)

\* A row may be shorter than the header.
Get(row, column) == IF column \in DOMAIN row THEN row[column] ELSE ""

\* The first sheet with a header near its top, or the first of the longest.
ReadSheet(sheets) ==
    LET headed == {s \in DOMAIN sheets :
                      \E i \in HeaderRows(sheets[s]) : i <= HeaderScan}
        longest == {s \in DOMAIN sheets :
                       \A o \in DOMAIN sheets : Len(sheets[o]) <= Len(sheets[s])}
    IN IF sheets = <<>> THEN <<>>
       ELSE sheets[Min(IF headed # {} THEN headed ELSE longest)]

\* Mutant: the last header row is taken.
LastHeader(rows) ==
    IF HeaderRows(rows) # {} THEN Max(HeaderRows(rows)) ELSE 0

\* The first row with a question header, wherever it is; 0 when there is none.
HeaderRow(rows) ==
    IF HeaderRows(rows) # {} THEN Min(HeaderRows(rows)) ELSE 0

\* Blank rows are dropped, and what is above the header; a row without a question
\* counts for row_index but gives none.
RowsToQuestions(sheet) ==
    LET rows == Picked(sheet, {i \in DOMAIN sheet : ToSet(sheet[i]) \ {""} # {}})
        at == HeaderRow(rows)
        column(header) == IF at = 0 THEN 0 ELSE Column(rows[at], header)
        q_col == IF at = 0 THEN 1 ELSE column("question")
        body == SubSeq(rows, at + 1, Len(rows))
        all == [i \in DOMAIN body |->
                   [text |-> Get(body[i], q_col), external_id |-> Get(body[i], column("id")),
                    row_index |-> i - 1]]
        questions == Picked(all, {i \in DOMAIN all : all[i].text # ""})
    IN CASE rows = <<>> -> Refused("empty")
         [] at = 0 /\ (\E i \in DOMAIN rows : Len(rows[i]) # 1) -> Refused("no column")
         [] Len(questions) > MaxQuestions -> Refused("too many")
         [] questions = <<>> -> Refused("no questions")
         [] OTHER -> [error |-> "none", questions |-> questions]

ParseQuestionnaire(file) ==
    CASE file.kind = "csv" -> RowsToQuestions(file.sheets[1])
      [] file.kind = "excel" -> RowsToQuestions(ReadSheet(file.sheets))
      [] OTHER -> Refused("unsupported")

-----------------------------------------------------------------------------
(* Correctness.                                                            *)

\* What a reader takes for questions: every cell that is in the column of the first
\* question header, below it, or, in a sheet with no such header, every cell of a
\* single column.
QuestionCells(sheet) ==
    LET heads(h, c) == /\ sheet[h][c] = "question"
                       /\ \A d \in 1..c - 1 : sheet[h][d] # "question"
                       /\ \A j \in 1..h - 1 : "question" \notin ToSet(sheet[j])
    IN {i \in DOMAIN sheet :
           \/ \E h \in 1..i - 1 : \E c \in DOMAIN sheet[h] \cap DOMAIN sheet[i] :
                heads(h, c) /\ sheet[i][c] # ""
           \/ HeaderRows(sheet) = {} /\ sheet[i] # <<>> /\ sheet[i][1] # ""}

\* Questions are those below the first question header.
Starts(sheet) == IF HeaderRows(sheet) # {} THEN Min(HeaderRows(sheet)) ELSE 0

\* No questions, too many of them, or columns that nothing names.
Unfit(sheet) ==
    \/ QuestionCells(sheet) = {}
    \/ Cardinality(QuestionCells(sheet)) > MaxQuestions
    \/ /\ HeaderRows(sheet) = {}
       /\ \E i \in DOMAIN sheet : Len(sheet[i]) # 1 /\ ToSet(sheet[i]) \ {""} # {}

RowsAbove(sheet, i) == {j \in Starts(sheet) + 1..i - 1 : ToSet(sheet[j]) \ {""} # {}}

\* The questions of a result are those of the sheet, in its order, and numbered by the
\* rows above each that are not blank; or there are none, and an error.
AsWritten(sheet, result) ==
    /\ Unfit(sheet) <=> result.error # "none"
    /\ Len(result.questions) = IF Unfit(sheet) THEN 0 ELSE Cardinality(QuestionCells(sheet))
    /\ \A k \in DOMAIN result.questions :
         \E i \in QuestionCells(sheet) :
            /\ Cardinality({j \in QuestionCells(sheet) : j < i}) = k - 1
            /\ result.questions[k].text \in ToSet(sheet[i])
            /\ result.questions[k].row_index = Cardinality(RowsAbove(sheet, i))

\* An upload (parse.py:126-144) gives a question for each row that has one, all of
\* them or none: the result has as many questions as the sheet read has such rows,
\* in their order, numbered by increasing row_index with a gap for each row that has
\* other cells only; and a file is refused exactly when it has no such row, more
\* than the limit, or columns nothing names.
RowsBecomeQuestionsIn(file) ==
    IF file.kind \notin {"csv", "excel"} THEN ParseQuestionnaire(file).error = "unsupported"
    ELSE AsWritten(IF file.kind = "csv" THEN file.sheets[1] ELSE ReadSheet(file.sheets),
                   ParseQuestionnaire(file))
=============================================================================
