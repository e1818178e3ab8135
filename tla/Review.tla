------------------------------- MODULE Review -------------------------------
(***************************************************************************)
(* Reviewers deciding on answers at the same time, the audit trail their   *)
(* decisions leave, the approved-answer library and an export taken        *)
(* meanwhile (review_answer, _save_to_library and _export_rows of          *)
(* questionnaires/service.py, the review and export routes).               *)
(*                                                                         *)
(* A request runs in a thread and a session of its own.  It takes its      *)
(* timestamps from the start of its transaction, loads the answer once,    *)
(* and at its commit writes the columns whose new value differs from the   *)
(* loaded one.  Nothing locks the row in between.                          *)
(***************************************************************************)
EXTENDS Naturals, Sequences, FiniteSets

CONSTANTS
    Questions, Versions,  \* an answer is a version of a question; questions of
                          \* several uploads with one external_id are one here
    Numbered,             \* questions whose external_id is not NULL
    Texts, Draft,         \* answer texts; Draft is the generated one
    Requests,             \* review requests that may be made: a bound
    Signed,               \* requests that name a reviewer
    Actions,              \* the reviewer actions taken (all of them, or fewer)
    MaxInFlight,          \* requests the server runs at a time: a bound
    NoText,               \* no edited_text
    None                  \* "nothing yet", "nobody"

ACTION_STATUS == [approve          |-> "approved",
                  edit             |-> "edited",
                  reject           |-> "rejected",
                  request_evidence |-> "needs_evidence",
                  save_to_library  |-> "approved"]
REVIEW_ACTIONS == DOMAIN ACTION_STATUS

ASSUME NumberedAssumption == Numbered \subseteq Questions
ASSUME DraftAssumption == Draft \in Texts
ASSUME RequestsAssumption == IsFiniteSet(Requests)
ASSUME SignedAssumption == Signed \subseteq Requests
ASSUME ActionsAssumption == Actions \subseteq REVIEW_ACTIONS
ASSUME MaxInFlightAssumption == MaxInFlight \in Nat
ASSUME NoTextAssumption == NoText \notin Texts
ASSUME NoneAssumption == None \notin Requests

VARIABLES
    answer,     \* answers: review_status, needs_human_review and the text
    generated,  \* needs_human_review as the draft pipeline had set it
    clashed,    \* answers of which a request has committed over a change it had
                \* not seen
    library,    \* approved_answer_library: the rows with source "review"
    log,        \* answer_reviews and audit_log: one row each per review, in
                \* the order of their commits
    pc,         \* where a review request is
    asked,      \* what it asks for
    began,      \* when its transaction began (the created_at of its rows)
    seen,       \* the answer as its session loaded it
    exporting,  \* where an export request is
    rows,       \* the answers it has read
    reviewer    \* the reviewers it has read

answerVars == <<answer, generated, clashed>>
requestVars == <<pc, asked, began, seen>>
exportVars == <<exporting, rows, reviewer>>
vars == <<answerVars, library, log, requestVars, exportVars>>

-----------------------------------------------------------------------------
Answers == Questions \X Versions
QuestionOf(a) == a[1]

Statuses == {"pending"} \cup {ACTION_STATUS[x] : x \in REVIEW_ACTIONS}
Rows == [status : Statuses, flagged : BOOLEAN, text : Texts]
Asked == [answer : Answers, action : Actions, edited : Texts \cup {NoText}]

InFlight == {r \in Requests : pc[r] \in {"begun", "loaded"}}
LogRows == {log[i] : i \in DOMAIN log}
Begun == {r \in Requests : pc[r] # "idle"}

Init ==
    /\ generated \in [Answers -> BOOLEAN]
    /\ answer = [a \in Answers |->
                    [status |-> "pending", flagged |-> generated[a], text |-> Draft]]
    /\ clashed = {}
    /\ library = {}
    /\ log = <<>>
    /\ pc = [r \in Requests |-> "idle"]
    /\ asked = [r \in Requests |-> None]
    /\ began = [r \in Requests |-> 0]
    /\ seen = [r \in Requests |-> None]
    /\ exporting = "no"
    /\ rows = answer
    /\ reviewer = [a \in Answers |-> None]

-----------------------------------------------------------------------------
(* POST /answers/{id}/review.                                              *)

\* The request reaches the server and its transaction begins (get_current_org).
\* Only "edit" looks at edited_text, so that no other action needs one here.
BeginReview(r, ask) ==
    /\ pc[r] = "idle"
    /\ Cardinality(InFlight) < MaxInFlight
    /\ ask.action # "edit" => ask.edited = NoText
    /\ pc' = [pc EXCEPT ![r] = "begun"]
    /\ asked' = [asked EXCEPT ![r] = ask]
    /\ began' = [began EXCEPT ![r] = Cardinality(Begun) + 1]
    /\ UNCHANGED <<answerVars, library, log, seen, exportVars>>

\* review_answer loads the answer, whichever version of its question it is.
LoadAnswer(r) ==
    /\ pc[r] = "begun"
    /\ pc' = [pc EXCEPT ![r] = "loaded"]
    /\ seen' = [seen EXCEPT ![r] = answer[asked[r].answer]]
    /\ UNCHANGED <<answerVars, library, log, asked, began, exportVars>>

After(r) == ACTION_STATUS[asked[r].action]
NewText(r) ==
    IF asked[r].action = "edit" /\ asked[r].edited # NoText
    THEN asked[r].edited ELSE seen[r].text

\* Mutant: a rejected answer is taken off the reviewers' list as well.
DecidedClearing(r) ==
    [status  |-> After(r),
     flagged |-> seen[r].flagged /\ After(r) \notin {"approved", "rejected"},
     text    |-> NewText(r)]

\* Mutant: an approved answer stays approved when its text is edited.
DecidedQuietly(r) ==
    [status  |-> IF seen[r].status = "approved" /\ asked[r].action = "edit"
                 THEN "approved" ELSE After(r),
     flagged |-> seen[r].flagged /\ After(r) # "approved",
     text    |-> NewText(r)]

\* The object in the session after review_answer has worked on it.
Decided(r) ==
    [status  |-> After(r),
     flagged |-> seen[r].flagged /\ After(r) # "approved",
     text    |-> NewText(r)]

\* Mutant: the UPDATE writes every column of the object.
FlushedWhole(row, loaded, new) == new

\* The UPDATE of a flush: the columns that differ from what was loaded.
Flushed(row, loaded, new) ==
    [c \in {"status", "flagged", "text"} |->
        IF new[c] = loaded[c] THEN row[c] ELSE new[c]]

\* Mutant: before_status is taken after the assignment.
AuditRowLate(r) ==
    [request |-> r, answer |-> asked[r].answer, before |-> After(r), after |-> After(r)]

\* The rows a review adds to answer_reviews and audit_log.
AuditRow(r) ==
    [request |-> r, answer |-> asked[r].answer, before |-> seen[r].status,
     after |-> After(r)]

\* Mutant: no candidate is in the way of another.
LibraryNeverTaken(q) == FALSE

\* uq_approved_answer_src_qid: one row per external id and source; a question
\* without an external id is never in the way (NULLs are distinct).
LibraryTaken(q) ==
    q \in Numbered /\ \E row \in library : row.question = q

\* A candidate carries the text as loaded; rows are told apart by their request.
Candidates(r) ==
    IF asked[r].action = "save_to_library"
    THEN {[question |-> QuestionOf(asked[r].answer), request |-> r, text |-> seen[r].text]}
    ELSE {}

\* Answer, review row, audit row and library candidate are one transaction.
CommitReview(r) ==
    LET a == asked[r].answer
    IN  /\ pc[r] = "loaded"
        /\ Candidates(r) = {} \/ ~LibraryTaken(QuestionOf(a))
        /\ answer' = [answer EXCEPT ![a] = Flushed(answer[a], seen[r], Decided(r))]
        /\ clashed' = IF answer[a] = seen[r] THEN clashed ELSE clashed \cup {a}
        /\ library' = library \cup Candidates(r)
        /\ log' = Append(log, AuditRow(r))
        /\ pc' = [pc EXCEPT ![r] = "done"]
        /\ UNCHANGED <<generated, asked, began, seen, exportVars>>

\* The insert into the library violates the constraint: the IntegrityError is
\* not handled, the session is closed and the whole review is rolled back.
RefuseReview(r) ==
    /\ pc[r] = "loaded"
    /\ Candidates(r) # {} /\ LibraryTaken(QuestionOf(asked[r].answer))
    /\ pc' = [pc EXCEPT ![r] = "refused"]
    /\ UNCHANGED <<answerVars, library, log, asked, began, seen, exportVars>>

-----------------------------------------------------------------------------
(* GET /questionnaires/{id}/export: the answers in one statement, their    *)
(* reviews in a later one.                                                 *)

ReadAnswers ==
    /\ exporting = "no"
    /\ exporting' = "answers"
    /\ rows' = answer
    /\ UNCHANGED <<answerVars, library, log, requestVars, reviewer>>

\* The reviews recorded for an answer.
ReviewsOf(a) == {x \in LogRows : x.answer = a}

\* Mutant: only approvals have a reviewer.
LatestApprover(a) ==
    LET signed == {x.request : x \in {y \in ReviewsOf(a) : y.after = "approved"}}
                      \cap Signed
    IN  IF signed = {} THEN None
        ELSE CHOOSE r \in signed : \A s \in signed : began[s] <= began[r]

\* The reviewer with the latest created_at: the one whose transaction began
\* last among those committed by now.
LatestReviewer(a) ==
    LET signed == {x.request : x \in ReviewsOf(a)} \cap Signed
    IN  IF signed = {} THEN None
        ELSE CHOOSE r \in signed : \A s \in signed : began[s] <= began[r]

ReadReviewers ==
    /\ exporting = "answers"
    /\ exporting' = "done"
    /\ reviewer' = [a \in Answers |-> LatestReviewer(a)]
    /\ UNCHANGED <<answerVars, library, log, requestVars, rows>>

Next ==
    \/ \E r \in Requests, ask \in Asked : BeginReview(r, ask)
    \/ \E r \in Requests : LoadAnswer(r) \/ CommitReview(r) \/ RefuseReview(r)
    \/ ReadAnswers
    \/ ReadReviewers

Spec == Init /\ [][Next]_vars

-----------------------------------------------------------------------------
(* Properties.                                                             *)

TypeOK ==
    /\ answer \in [Answers -> Rows]
    /\ generated \in [Answers -> BOOLEAN]
    /\ clashed \subseteq Answers
    /\ library \subseteq [question : Questions, request : Requests, text : Texts]
    /\ log \in Seq([request : Requests, answer : Answers, before : Statuses,
                   after : Statuses])
    /\ pc \in [Requests -> {"idle", "begun", "loaded", "done", "refused"}]
    /\ began \in [Requests -> Nat]
    /\ asked \in [Requests -> Asked \cup {None}]
    /\ seen \in [Requests -> Rows \cup {None}]
    /\ \A r \in Requests :
        /\ pc[r] # "idle" => asked[r] \in Asked
        /\ pc[r] \notin {"idle", "begun"} => seen[r] \in Rows
    /\ exporting \in {"no", "answers", "done"}
    /\ rows \in [Answers -> Rows]

\* What a row of the answers table, or a copy of one, says about human decisions
\* is in the trail: who gave it its status, cleared its flag, wrote its text.
Explained(a, row) ==
    /\ row.status # "pending" => \E x \in ReviewsOf(a) : x.after = row.status
    /\ generated[a] /\ ~row.flagged => \E x \in ReviewsOf(a) : x.after = "approved"
    /\ row.text # Draft =>
          \E x \in ReviewsOf(a) : /\ asked[x.request].action = "edit"
                                  /\ asked[x.request].edited = row.text

\* "the full history of who-did-what lives in answer_reviews + audit_log": of the
\* answers as they are and as an export has read them.
DecisionsRecorded ==
    \A a \in Answers : Explained(a, answer[a]) /\ Explained(a, rows[a])

\* A candidate is in the library exactly if its review is in the trail, and a
\* numbered question has at most one: a refused save leaves no half of itself.
LibraryMatchesTrail ==
    /\ {row.request : row \in library} =
          {x.request : x \in {y \in LogRows : asked[y.request].action = "save_to_library"}}
    /\ \A row, other \in library :
          row.question = other.question /\ row.question \in Numbered => row = other

\* The inductive invariant behind the theorems of ReviewProofs: what a request has
\* loaded is explained too, and exactly the requests that are done are recorded.
ReviewInv ==
    /\ TypeOK
    /\ DecisionsRecorded
    /\ LibraryMatchesTrail
    /\ \A r \in Requests : pc[r] = "loaded" => Explained(asked[r].answer, seen[r])
    /\ {x.request : x \in LogRows} = {r \in Requests : pc[r] = "done"}

\* An exported row that carries a decision names a reviewer of that answer, although
\* the reviewers are read later than the answers (every request being signed).
ExportNamesReviewer ==
    exporting = "done" /\ Signed = Requests =>
        \A a \in Answers : rows[a].status # "pending" =>
            \E x \in ReviewsOf(a) : x.request = reviewer[a]

\* No request takes back the text another one wrote: a text only changes when an
\* edit of that answer commits.
EditsSurvive ==
    [][\A a \in Answers : answer'[a].text # answer[a].text =>
          \E r \in Requests : /\ pc[r] = "loaded" /\ pc'[r] = "done"
                              /\ asked[r].answer = a /\ asked[r].action = "edit"
                              /\ asked[r].edited = answer'[a].text]_vars

\* The rows of an answer in the trail, which is in the order of commits; 0 stands for
\* the draft and the place after the last row for the answer as it is.
Places(a) == {i \in DOMAIN log : log[i].answer = a}
LeftAs(i) == IF i = 0 THEN "pending" ELSE log[i].after
FoundAs(a, j) == IF j = Len(log) + 1 THEN answer[a].status ELSE log[j].before
Adjacent(a, i, j) == i < j /\ \A k \in Places(a) : k <= i \/ j <= k

\* Unless one reviewer committed over what another had just decided, the audit rows
\* of an answer chain: each before_status is the after_status of the row before it,
\* and the last after_status is the status of the answer.
AuditChain ==
    \A a \in Answers \ clashed :
        \A i \in {0} \cup Places(a), j \in Places(a) \cup {Len(log) + 1} :
            Adjacent(a, i, j) => FoundAs(a, j) = LeftAs(i)

\* Nothing reads as final that a human did not approve: with the same exception, the
\* text of an approved answer is one that an approving request had loaded.
ApprovedAsSeen ==
    \A a \in Answers \ clashed : answer[a].status = "approved" =>
        \E x \in ReviewsOf(a) : /\ x.after = "approved"
                                /\ seen[x.request].text = answer[a].text

\* "Each action transitions the answer's status and writes an audit_log entry":
\* a save is never turned away.
SavesLand == \A r \in Requests : pc[r] # "refused"
=============================================================================
