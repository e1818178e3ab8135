----------------------------- MODULE Documents ------------------------------
(***************************************************************************)
(* The documents an answer provides: what its draft attaches, what analysts *)
(* select for it at the same time, what reviewers decide meanwhile and who  *)
(* may download which document because of it (attach_documents and          *)
(* prepare_document_download of questionnaires/service.py, their routes,    *)
(* persist_answer of answers/generate.py).                                  *)
(*                                                                          *)
(* As in Review, a request loads the answer once and its commit writes the  *)
(* columns whose new value differs from the loaded one.  A finding is named *)
(* by the document that carries it.  Nothing here reads superseded_at.      *)
(***************************************************************************)
EXTENDS Naturals, FiniteSets

CONSTANTS
    Answers,    \* answers that may be drafted: a bound
    Docs,       \* documents of the organisation
    Shareable,  \* those with customer_shareable
    Carrying,   \* those with a finding that may be shown to customers
    Decisions,  \* the statuses reviewers decide on (all of them, or fewer)
    Attaches,   \* requests that attach documents: a bound
    Downloads,  \* requests for a document: a bound
    None        \* no answer yet, nothing asked, nothing loaded

ReviewStatuses == {"pending", "approved", "edited", "rejected", "needs_evidence"}

ASSUME ShareableAssumption == Shareable \subseteq Docs
ASSUME DecisionsAssumption == Decisions \subseteq ReviewStatuses \ {"pending"}

VARIABLES
    answer,      \* answers: review_status and the columns about documents
    drafted,     \* those columns as the draft had them
    pc,          \* where an attach request is
    asked,       \* the answer and the documents it names
    seen,        \* the answer as its session loaded it
    attachments, \* audit_log, document.attach
    decisions,   \* audit_log, answer.review
    wanted,      \* the document a download asks for
    stage,       \* where a download request is
    downloads,   \* audit_log, document.download
    clashed      \* answers of which an attach request has overwritten a change
                 \* it had not seen

answerVars == <<answer, drafted, clashed>>
attachVars == <<pc, asked, seen, attachments>>
downloadVars == <<wanted, stage, downloads>>
vars == <<answerVars, attachVars, decisions, downloadVars>>

-----------------------------------------------------------------------------
Columns == {"status", "docs", "findings", "remediation", "selection"}
Rows == [status : ReviewStatuses, docs : SUBSET Docs, findings : SUBSET Docs,
         remediation : BOOLEAN, selection : BOOLEAN]
Asked == [answer : Answers, docs : SUBSET Docs]
Drafted == {a \in Answers : answer[a] # None}

ASSUME NoneAssumption == None \notin Docs \cup Rows \cup Asked

Init ==
    /\ answer = [a \in Answers |-> None]
    /\ drafted = [a \in Answers |-> None]
    /\ pc = [r \in Attaches |-> "idle"]
    /\ asked = [r \in Attaches |-> None]
    /\ seen = [r \in Attaches |-> None]
    /\ attachments = {}
    /\ decisions = {}
    /\ wanted = [r \in Downloads |-> None]
    /\ stage = [r \in Downloads |-> "idle"]
    /\ downloads = {}
    /\ clashed = {}

\* What follows from the documents of an answer (_findings_for, attach_documents).
WithDocs(status, docs, selection) ==
    [status |-> status, docs |-> docs, findings |-> docs \cap Carrying,
     remediation |-> docs \cap Carrying # {}, selection |-> selection]

\* A draft is persisted: with the documents its question names, with a selection
\* left to a human, or, a compound one, with both.
PersistAnswer(a, docs, selection) ==
    /\ answer[a] = None
    /\ docs \subseteq Shareable
    /\ answer' = [answer EXCEPT ![a] = WithDocs("pending", docs, selection)]
    /\ drafted' = [drafted EXCEPT ![a] = answer'[a]]
    /\ UNCHANGED <<clashed, attachVars, decisions, downloadVars>>

\* A review of the answer: Review has the whole of it, this is the column that
\* downloads read.
ReviewAnswer(a, status) ==
    /\ a \in Drafted
    /\ answer' = [answer EXCEPT ![a].status = status]
    /\ decisions' = decisions \cup {[answer |-> a, after |-> status]}
    /\ UNCHANGED <<drafted, clashed, attachVars, downloadVars>>

-----------------------------------------------------------------------------
(* POST /answers/{id}/documents.                                           *)

\* Mutant: the documents are not asked to be shareable.
LoadForAttachAny(r, a, chosen) ==
    /\ pc[r] = "idle"
    /\ a \in Drafted
    /\ chosen # {}
    /\ pc' = [pc EXCEPT ![r] = "loaded"]
    /\ asked' = [asked EXCEPT ![r] = [answer |-> a, docs |-> chosen]]
    /\ seen' = [seen EXCEPT ![r] = answer[a]]
    /\ UNCHANGED <<answerVars, attachments, decisions, downloadVars>>

\* The answer is loaded and every selected document resolved; one that is not
\* shareable, or none at all, and the request is turned away as it came.
LoadForAttach(r, a, chosen) ==
    /\ pc[r] = "idle"
    /\ a \in Drafted
    /\ chosen # {} /\ chosen \subseteq Shareable
    /\ pc' = [pc EXCEPT ![r] = "loaded"]
    /\ asked' = [asked EXCEPT ![r] = [answer |-> a, docs |-> chosen]]
    /\ seen' = [seen EXCEPT ![r] = answer[a]]
    /\ UNCHANGED <<answerVars, attachments, decisions, downloadVars>>

\* Mutant: the selection stays open.
AttachedStillOpen(r) == WithDocs(seen[r].status, asked[r].docs, seen[r].selection)

\* Mutant: the findings of documents that are no longer attached stay.
AttachedAddingFindings(r) ==
    [WithDocs(seen[r].status, asked[r].docs, FALSE) EXCEPT
        !.findings = @ \cup seen[r].findings]

\* The object in the session after attach_documents has worked on it.
Attached(r) == WithDocs(seen[r].status, asked[r].docs, FALSE)

\* The lists among the columns, which keep an order the sets here do not.
Lists == {"docs", "findings"}

\* The UPDATE of a flush: the columns that differ from what was loaded, a list of the
\* same members in another order too.
Flushed(row, loaded, new, reordered) ==
    [c \in Columns |-> IF new[c] = loaded[c] /\ c \notin reordered THEN row[c] ELSE new[c]]

CommitAttach(r) ==
    LET a == asked[r].answer
    IN  /\ pc[r] = "loaded"
        /\ \E reordered \in SUBSET {c \in Lists : Cardinality(Attached(r)[c]) > 1} :
              answer' = [answer EXCEPT
                            ![a] = Flushed(answer[a], seen[r], Attached(r), reordered)]
        /\ attachments' = attachments \cup {[by |-> r, answer |-> a, docs |-> asked[r].docs]}
        /\ clashed' = IF [answer[a] EXCEPT !.status = seen[r].status] = seen[r]
                      THEN clashed ELSE clashed \cup {a}
        /\ pc' = [pc EXCEPT ![r] = "done"]
        /\ UNCHANGED <<drafted, asked, seen, decisions, downloadVars>>

\* The commit is refused: nothing of the request stays.
LoseAttach(r) ==
    /\ pc[r] = "loaded"
    /\ pc' = [pc EXCEPT ![r] = "failed"]
    /\ UNCHANGED <<answerVars, asked, seen, attachments, decisions, downloadVars>>

-----------------------------------------------------------------------------
(* GET /documents/{id}/download.                                           *)

\* Mutant: any answer that names the document will do.
GrantingAny(d) == \E a \in Drafted : d \in answer[a].docs

\* Some approved answer names the document, of whatever version.
Granting(d) == \E a \in Drafted : answer[a].status = "approved" /\ d \in answer[a].docs

\* prepare_document_download: everything else is a 404.
AuthorizeDownload(r, d) ==
    /\ stage[r] = "idle"
    /\ d \in Shareable
    /\ Granting(d)
    /\ stage' = [stage EXCEPT ![r] = "authorized"]
    /\ wanted' = [wanted EXCEPT ![r] = d]
    /\ UNCHANGED <<answerVars, attachVars, decisions, downloads>>

\* The audit row is committed before any byte is served.
AuditDownload(r) ==
    /\ stage[r] = "authorized"
    /\ stage' = [stage EXCEPT ![r] = "audited"]
    /\ downloads' = downloads \cup {[by |-> r, doc |-> wanted[r]]}
    /\ UNCHANGED <<answerVars, attachVars, decisions, wanted>>

ServeDownload(r) ==
    /\ stage[r] = "audited"
    /\ stage' = [stage EXCEPT ![r] = "served"]
    /\ UNCHANGED <<answerVars, attachVars, decisions, wanted, downloads>>

\* The commit or the object store fails.
LoseDownload(r) ==
    /\ stage[r] \in {"authorized", "audited"}
    /\ stage' = [stage EXCEPT ![r] = "failed"]
    /\ UNCHANGED <<answerVars, attachVars, decisions, wanted, downloads>>

Next ==
    \/ \E a \in Answers, docs \in SUBSET Docs, selection \in BOOLEAN :
          PersistAnswer(a, docs, selection)
    \/ \E a \in Answers, status \in Decisions : ReviewAnswer(a, status)
    \/ \E r \in Attaches, a \in Answers, chosen \in SUBSET Docs : LoadForAttach(r, a, chosen)
    \/ \E r \in Attaches : CommitAttach(r) \/ LoseAttach(r)
    \/ \E r \in Downloads, d \in Docs : AuthorizeDownload(r, d)
    \/ \E r \in Downloads : AuditDownload(r) \/ ServeDownload(r) \/ LoseDownload(r)

Spec == Init /\ [][Next]_vars

-----------------------------------------------------------------------------
(* Properties.                                                             *)

TypeOK ==
    /\ answer \in [Answers -> Rows \cup {None}]
    /\ drafted \in [Answers -> Rows \cup {None}]
    /\ \A a \in Answers : answer[a] = None <=> drafted[a] = None
    /\ pc \in [Attaches -> {"idle", "loaded", "done", "failed"}]
    /\ asked \in [Attaches -> Asked \cup {None}]
    /\ seen \in [Attaches -> Rows \cup {None}]
    /\ \A r \in Attaches : pc[r] # "idle" =>
        asked[r] # None /\ seen[r] # None /\ answer[asked[r].answer] # None
    /\ attachments \subseteq [by : Attaches, answer : Answers, docs : SUBSET Docs]
    /\ decisions \subseteq [answer : Answers, after : ReviewStatuses]
    /\ wanted \in [Downloads -> Docs \cup {None}]
    /\ stage \in [Downloads -> {"idle", "authorized", "audited", "served", "failed"}]
    /\ \A r \in Downloads : stage[r] # "idle" => wanted[r] # None
    /\ downloads \subseteq [by : Downloads, doc : Docs]
    /\ clashed \subseteq Answers

AttachmentsOf(a) == {x \in attachments : x.answer = a}

\* What an answer provides is what its draft attached or what one analyst, as the audit
\* trail has it, selected: never a mix of two selections, and only shareable documents.
ProvidedInTrail ==
    \A a \in Drafted :
        /\ answer[a].docs = drafted[a].docs \/ \E x \in AttachmentsOf(a) : x.docs = answer[a].docs
        /\ answer[a].docs \subseteq Shareable

\* An answer that asks for a selection asks until one is attached, whoever else
\* works on it, and a decision does not close it.
SelectionOpenUntilAttached ==
    \A a \in Drafted :
        answer[a].selection <=> drafted[a].selection /\ AttachmentsOf(a) = {}

\* "a human signed off on providing it": bytes that were served are in the audit trail,
\* of a shareable document, which an answer provided that was approved once.
ServedWasGranted ==
    \A r \in Downloads : stage[r] = "served" =>
        /\ [by |-> r, doc |-> wanted[r]] \in downloads
        /\ wanted[r] \in Shareable
        /\ \E x \in decisions :
            /\ x.after = "approved"
            /\ \/ wanted[r] \in drafted[x.answer].docs
               \/ \E y \in AttachmentsOf(x.answer) : wanted[r] \in y.docs

\* The findings shown with an answer are those of its documents.
Consistent(row) ==
    row.findings = row.docs \cap Carrying /\ row.remediation = (row.findings # {})

\* Only requests that overwrite a change they have not seen part the findings from
\* the documents: no decision, no refused commit and no request on its own does.
RemediationMatches == \A a \in Drafted \ clashed : Consistent(answer[a])
=============================================================================
