-------------------------- MODULE DocumentsProofs --------------------------
(***************************************************************************)
(* Proofs about Documents, for any number of answers, documents, analysts  *)
(* and downloads.                                                          *)
(***************************************************************************)
EXTENDS Documents, TLAPS

-----------------------------------------------------------------------------
(* The inductive invariant.                                                *)

\* What a draft attaches is shareable, and what an analyst selects.
OnlyShareable ==
    /\ \A a \in Drafted : drafted[a].docs \subseteq Shareable
    /\ \A r \in Attaches : pc[r] = "loaded" => asked[r].docs \subseteq Shareable
    /\ \A x \in attachments : x.docs \subseteq Shareable /\ x.answer \in Drafted

\* A request that saw the selection closed saw it for good: a closed selection
\* stays closed, so the UPDATE that leaves the column out writes nothing wrong.
ClosedStaysClosed ==
    \A r \in Attaches : pc[r] = "loaded" /\ ~seen[r].selection =>
        ~answer[asked[r].answer].selection

\* An approval is in the trail: no attach request writes the status.
ApprovalsRecorded ==
    /\ \A x \in decisions : x.answer \in Drafted
    /\ \A a \in Drafted : answer[a].status = "approved" =>
          [answer |-> a, after |-> "approved"] \in decisions

\* An approved answer provided the document, as its draft or as an analyst has it.
Granted(d) ==
    /\ d \in Shareable
    /\ \E x \in decisions :
        /\ x.after = "approved"
        /\ \/ d \in drafted[x.answer].docs
           \/ \E y \in AttachmentsOf(x.answer) : d \in y.docs

\* What a download was authorized for stays granted, whatever becomes of the answer,
\* and its row is in the trail from the audit on.
DownloadsGranted ==
    \A r \in Downloads :
        /\ stage[r] \in {"authorized", "audited", "served"} => Granted(wanted[r])
        /\ stage[r] \in {"audited", "served"} => [by |-> r, doc |-> wanted[r]] \in downloads

DocumentsInv ==
    /\ TypeOK
    /\ OnlyShareable
    /\ ProvidedInTrail
    /\ ClosedStaysClosed
    /\ SelectionOpenUntilAttached
    /\ ApprovalsRecorded
    /\ DownloadsGranted
    /\ RemediationMatches

-----------------------------------------------------------------------------
(* What the steps do to the answers.                                       *)

\* What follows from documents is a row, and a consistent one.
LEMMA WithDocsRow ==
    ASSUME NEW status \in ReviewStatuses, NEW docs \in SUBSET Docs, NEW selection \in BOOLEAN
    PROVE  /\ WithDocs(status, docs, selection) \in Rows
           /\ Consistent(WithDocs(status, docs, selection))
  BY DEF WithDocs, Rows, Consistent

\* What a flush makes of a row: each column is the old one or the new one, the new one
\* if the row was as loaded.
Written(row, loaded, new, after) ==
    /\ after \in Rows
    /\ after.status = IF new.status = loaded.status THEN row.status ELSE new.status
    /\ after.docs \in {row.docs, new.docs}
    /\ after.selection =
          IF new.selection = loaded.selection THEN row.selection ELSE new.selection
    /\ row.docs = loaded.docs => after.docs = new.docs
    /\ row.findings = loaded.findings => after.findings = new.findings
    /\ row.remediation = loaded.remediation => after.remediation = new.remediation

\* A flush writes that much, whatever lists it finds in another order.
LEMMA FlushedColumns ==
    ASSUME NEW row \in Rows, NEW loaded \in Rows, NEW new \in Rows,
           NEW reordered \in SUBSET Lists
    PROVE  Written(row, loaded, new, Flushed(row, loaded, new, reordered))
  BY DEF Written, Flushed, Rows, Columns, Lists

\* Rows that agree up to their status agree in every other column.
LEMMA SameColumns ==
    ASSUME NEW row \in Rows, NEW other \in Rows, [row EXCEPT !.status = other.status] = other
    PROVE  /\ row.docs = other.docs /\ row.findings = other.findings
           /\ row.remediation = other.remediation /\ row.selection = other.selection
  <1> DEFINE same == [row EXCEPT !.status = other.status]
  <1>1. /\ same.docs = row.docs /\ same.findings = row.findings
        /\ same.remediation = row.remediation /\ same.selection = row.selection
    BY DEF Rows
  <1> QED
    BY <1>1

\* What a draft does: it gives an answer its first row.
Persisted(a, docs, selection) ==
    /\ a \notin Drafted /\ Drafted' = Drafted \cup {a}
    /\ answer'[a] = WithDocs("pending", docs, selection) /\ answer'[a] \in Rows
    /\ drafted'[a] = answer'[a]
    /\ answer'[a].status = "pending" /\ answer'[a].docs = docs
    /\ docs \subseteq Shareable
    /\ \A b \in Answers : b # a => answer'[b] = answer[b] /\ drafted'[b] = drafted[b]
    /\ \A b \in Drafted : answer'[b] = answer[b] /\ drafted'[b] = drafted[b]
    /\ pc' = pc /\ asked' = asked /\ seen' = seen /\ attachments' = attachments
    /\ decisions' = decisions /\ clashed' = clashed

\* A draft does nothing else.
LEMMA PersistEffect ==
    ASSUME TypeOK, NEW a \in Answers, NEW docs \in SUBSET Docs, NEW selection \in BOOLEAN,
           PersistAnswer(a, docs, selection)
    PROVE  Persisted(a, docs, selection)
  <1>1. "pending" \in ReviewStatuses
    BY DEF ReviewStatuses
  <1>2. WithDocs("pending", docs, selection) \in Rows
    BY <1>1, WithDocsRow
  <1>3. /\ answer'[a] = WithDocs("pending", docs, selection) /\ drafted'[a] = answer'[a]
        /\ \A b \in Answers : b # a => answer'[b] = answer[b] /\ drafted'[b] = drafted[b]
        /\ answer[a] = None /\ docs \subseteq Shareable
    BY DEF PersistAnswer, TypeOK
  <1>4. a \notin Drafted /\ Drafted' = Drafted \cup {a}
    BY <1>2, <1>3, NoneAssumption DEF Drafted
  <1>5. \A b \in Drafted : b \in Answers /\ b # a
    BY <1>4 DEF Drafted
  <1>6. answer'[a].status = "pending" /\ answer'[a].docs = docs
    BY <1>3 DEF WithDocs
  <1>7. /\ pc' = pc /\ asked' = asked /\ seen' = seen /\ attachments' = attachments
        /\ decisions' = decisions /\ clashed' = clashed
    BY DEF PersistAnswer, attachVars
  <1> QED
    BY <1>2, <1>3, <1>4, <1>5, <1>6, <1>7 DEF Persisted

\* A decision writes the status of an answer and its row of the trail.
LEMMA ReviewEffect ==
    ASSUME TypeOK, NEW a \in Answers, NEW status \in Decisions, ReviewAnswer(a, status)
    PROVE  /\ a \in Drafted /\ Drafted' = Drafted
           /\ answer[a] \in Rows /\ answer'[a] \in Rows /\ answer'[a].status = status
           /\ \A b \in Answers \ {a} : answer'[b] = answer[b]
           /\ \A b \in Drafted :
                 /\ answer'[b].docs = answer[b].docs
                 /\ answer'[b].findings = answer[b].findings
                 /\ answer'[b].remediation = answer[b].remediation
                 /\ answer'[b].selection = answer[b].selection
           /\ decisions' = decisions \cup {[answer |-> a, after |-> status]}
           /\ pc' = pc /\ asked' = asked /\ seen' = seen /\ attachments' = attachments
           /\ drafted' = drafted /\ clashed' = clashed
  <1>1. a \in Drafted /\ answer[a] \in Rows /\ status \in ReviewStatuses
    BY DecisionsAssumption DEF ReviewAnswer, TypeOK, Drafted
  <1>2. answer'[a] = [answer[a] EXCEPT !.status = status]
    BY DEF ReviewAnswer, TypeOK
  <1>3. answer'[a] \in Rows
    BY <1>1, <1>2 DEF Rows
  <1>4. /\ answer'[a].status = status
        /\ answer'[a].docs = answer[a].docs /\ answer'[a].findings = answer[a].findings
        /\ answer'[a].remediation = answer[a].remediation
        /\ answer'[a].selection = answer[a].selection
    BY <1>1, <1>2 DEF Rows
  <1>5. \A b \in Answers \ {a} : answer'[b] = answer[b]
    BY DEF ReviewAnswer, TypeOK
  <1>6. Drafted' = Drafted
    BY <1>1, <1>3, <1>5, NoneAssumption DEF Drafted
  <1>7. ASSUME NEW b \in Drafted
        PROVE  /\ answer'[b].docs = answer[b].docs
               /\ answer'[b].findings = answer[b].findings
               /\ answer'[b].remediation = answer[b].remediation
               /\ answer'[b].selection = answer[b].selection
    <2>1. CASE b = a
      BY <1>4, <2>1
    <2>2. CASE b # a
      <3>1. answer'[b] = answer[b]
        BY <1>5, <2>2 DEF Drafted
      <3> QED
        BY <3>1
    <2> QED
      BY <2>1, <2>2
  <1>8. /\ decisions' = decisions \cup {[answer |-> a, after |-> status]}
        /\ pc' = pc /\ asked' = asked /\ seen' = seen /\ attachments' = attachments
        /\ drafted' = drafted /\ clashed' = clashed
    BY DEF ReviewAnswer, attachVars
  <1> QED
    BY <1>1, <1>3, <1>4, <1>5, <1>6, <1>7, <1>8

\* What the request has attached, as the trail has it.
Recorded(r) == [by |-> r, answer |-> asked[r].answer, docs |-> asked[r].docs]

\* A commit writes one answer: never its status, its documents as a whole or not at
\* all, and what follows from them if it saw the row as it is.
LEMMA AttachEffect ==
    ASSUME TypeOK, NEW r \in Attaches, CommitAttach(r)
    PROVE  /\ pc[r] = "loaded" /\ asked[r] \in Asked /\ seen[r] \in Rows
           /\ asked[r].answer \in Drafted
           /\ answer[asked[r].answer] \in Rows /\ answer'[asked[r].answer] \in Rows
           /\ answer'[asked[r].answer].status = answer[asked[r].answer].status
           /\ answer'[asked[r].answer].docs \in {answer[asked[r].answer].docs, asked[r].docs}
           /\ answer'[asked[r].answer].selection =
                 IF seen[r].selection THEN FALSE ELSE answer[asked[r].answer].selection
           /\ asked[r].answer \notin clashed' =>
                 asked[r].answer \notin clashed /\ Consistent(answer'[asked[r].answer])
           /\ \A b \in Answers : b # asked[r].answer => answer'[b] = answer[b]
           /\ \A b \in Drafted : b # asked[r].answer => answer'[b] = answer[b]
           /\ Drafted' = Drafted
           /\ attachments' = attachments \cup {Recorded(r)}
           /\ asked' = asked /\ seen' = seen /\ drafted' = drafted /\ decisions' = decisions
           /\ \A s \in Attaches : pc'[s] = "loaded" => pc[s] = "loaded"
           /\ clashed \subseteq clashed'
  <1> DEFINE a == asked[r].answer
  <1>1. pc[r] = "loaded" /\ asked[r] \in Asked /\ seen[r] \in Rows
    BY DEF CommitAttach, TypeOK
  <1>2. a \in Answers /\ answer[a] \in Rows /\ asked[r].docs \in SUBSET Docs
    BY <1>1 DEF TypeOK, Asked
  <1>3. Attached(r) \in Rows /\ Consistent(Attached(r))
    BY <1>1, <1>2, WithDocsRow DEF Attached, Rows
  <1>4. /\ Attached(r).status = seen[r].status /\ Attached(r).docs = asked[r].docs
        /\ Attached(r).selection = FALSE
    BY DEF Attached, WithDocs
  <1>5. PICK reordered \in SUBSET Lists :
          answer' = [answer EXCEPT ![a] = Flushed(answer[a], seen[r], Attached(r), reordered)]
    BY DEF CommitAttach
  <1>6. answer'[a] = Flushed(answer[a], seen[r], Attached(r), reordered)
    BY <1>2, <1>5 DEF TypeOK
  <1>7. Written(answer[a], seen[r], Attached(r), answer'[a])
    BY <1>1, <1>2, <1>3, <1>6, FlushedColumns
  <1>8. /\ answer'[a] \in Rows /\ answer'[a].status = answer[a].status
        /\ answer'[a].docs \in {answer[a].docs, asked[r].docs}
        /\ answer'[a].selection = IF seen[r].selection THEN FALSE ELSE answer[a].selection
    <2>1. seen[r].selection \in BOOLEAN
      BY <1>1 DEF Rows
    <2>2. answer'[a].selection = IF seen[r].selection THEN FALSE ELSE answer[a].selection
      BY <1>4, <1>7, <2>1, Zenon DEF Written
    <2> QED
      BY <1>4, <1>7, <2>2 DEF Written
  <1>9. ASSUME a \notin clashed'
        PROVE  a \notin clashed /\ Consistent(answer'[a])
    <2>1. a \notin clashed /\ [answer[a] EXCEPT !.status = seen[r].status] = seen[r]
      BY <1>9 DEF CommitAttach
    <2>2. /\ answer[a].docs = seen[r].docs /\ answer[a].findings = seen[r].findings
          /\ answer[a].remediation = seen[r].remediation
      BY <1>1, <1>2, <2>1, SameColumns
    <2>3. /\ answer'[a].docs = Attached(r).docs /\ answer'[a].findings = Attached(r).findings
          /\ answer'[a].remediation = Attached(r).remediation
      BY <1>7, <2>2 DEF Written
    <2> QED
      BY <1>3, <2>1, <2>3 DEF Consistent
  <1>10. /\ \A b \in Answers : b # a => answer'[b] = answer[b]
         /\ \A b \in Drafted : b # a => answer'[b] = answer[b]
    BY <1>5 DEF TypeOK, Drafted
  <1>11. Drafted' = Drafted /\ a \in Drafted
    BY <1>2, <1>8, <1>10, NoneAssumption DEF Drafted
  <1>12. /\ attachments' = attachments \cup {Recorded(r)}
         /\ asked' = asked /\ seen' = seen /\ drafted' = drafted /\ decisions' = decisions
         /\ clashed \subseteq clashed'
    BY DEF CommitAttach, Recorded
  <1>13. \A s \in Attaches : pc'[s] = "loaded" => pc[s] = "loaded"
    BY DEF CommitAttach, TypeOK
  <1> QED
    BY <1>1, <1>2, <1>8, <1>9, <1>10, <1>11, <1>12, <1>13
\* What a step leaves alone that neither drafts, decides nor attaches: a request it
\* loads names shareable documents and has the row of its answer.
Quiet ==
    /\ answer' = answer /\ drafted' = drafted /\ attachments' = attachments
    /\ decisions' = decisions /\ clashed' = clashed
    /\ \A s \in Attaches : pc'[s] = "loaded" =>
          \/ pc[s] = "loaded" /\ asked'[s] = asked[s] /\ seen'[s] = seen[s]
          \/ asked'[s].docs \subseteq Shareable /\ seen'[s] = answer[asked'[s].answer]

\* A step drafts, decides, attaches, or leaves the answers and their trails alone.
LEMMA StepKinds ==
    ASSUME TypeOK, [Next]_vars
    PROVE  \/ \E a \in Answers, docs \in SUBSET Docs, selection \in BOOLEAN :
                 PersistAnswer(a, docs, selection)
           \/ \E a \in Answers, status \in Decisions : ReviewAnswer(a, status)
           \/ \E r \in Attaches : CommitAttach(r)
           \/ Quiet
  <1> USE DEF answerVars, attachVars
  <1>1. ASSUME NEW r \in Attaches, NEW a \in Answers, NEW chosen \in SUBSET Docs,
               LoadForAttach(r, a, chosen)
        PROVE  Quiet
    <2>1. \A s \in Attaches \ {r} : pc'[s] = pc[s] /\ asked'[s] = asked[s] /\ seen'[s] = seen[s]
      BY <1>1 DEF LoadForAttach, TypeOK
    <2>2. asked'[r] = [answer |-> a, docs |-> chosen] /\ seen'[r] = answer[a]
      BY <1>1 DEF LoadForAttach, TypeOK
    <2>3. chosen \subseteq Shareable
      BY <1>1 DEF LoadForAttach
    <2>4. /\ answer' = answer /\ drafted' = drafted /\ attachments' = attachments
          /\ decisions' = decisions /\ clashed' = clashed
      BY <1>1 DEF LoadForAttach
    <2> QED
      BY <2>1, <2>2, <2>3, <2>4 DEF Quiet
  <1>2. ASSUME NEW r \in Attaches, LoseAttach(r)
        PROVE  Quiet
    BY <1>2 DEF LoseAttach, TypeOK, Quiet
  <1>3. CASE UNCHANGED <<answerVars, attachVars, decisions>>
    BY <1>3 DEF Quiet
  <1> QED
    BY <1>1, <1>2, <1>3 DEF Next, vars, AuthorizeDownload, AuditDownload, ServeDownload,
       LoseDownload

-----------------------------------------------------------------------------
(* Types.                                                                  *)

\* At first.
LEMMA TypeInit == Init => TypeOK
  BY DEF Init, TypeOK

\* Every step keeps the types.
LEMMA TypeStep == TypeOK /\ [Next]_vars => TypeOK'
  <1> SUFFICES ASSUME TypeOK, [Next]_vars
               PROVE  TypeOK'
    OBVIOUS
  <1> USE DEF TypeOK, answerVars, attachVars, downloadVars
  <1>1. ASSUME NEW a \in Answers, NEW docs \in SUBSET Docs, NEW selection \in BOOLEAN,
               PersistAnswer(a, docs, selection)
        PROVE  TypeOK'
    <2> HIDE DEF TypeOK
    <2>9. Persisted(a, docs, selection)
      BY <1>1, PersistEffect
    <2> USE DEF TypeOK
    <2>0. answer'[a] \in Rows /\ drafted'[a] = answer'[a]
      BY <2>9 DEF Persisted
    <2>1. /\ answer' \in [Answers -> Rows \cup {None}]
          /\ drafted' \in [Answers -> Rows \cup {None}]
      BY <1>1, <2>0 DEF PersistAnswer
    <2>2. \A b \in Answers : answer'[b] = None <=> drafted'[b] = None
      BY <1>1, <2>0 DEF PersistAnswer
    <2>3. \A r \in Attaches : pc[r] # "idle" => answer'[asked[r].answer] # None
      BY <2>9, NoneAssumption DEF Persisted, Asked, Drafted
    <2> QED
      BY <1>1, <2>1, <2>2, <2>3 DEF PersistAnswer
  <1>2. ASSUME NEW a \in Answers, NEW status \in Decisions, ReviewAnswer(a, status)
        PROVE  TypeOK'
    <2>1. answer' \in [Answers -> Rows \cup {None}]
      BY <1>2, ReviewEffect DEF ReviewAnswer
    <2>2. Drafted' = Drafted
      BY <1>2, ReviewEffect
    <2>3. status \in ReviewStatuses
      BY DecisionsAssumption
    <2>4. decisions' \subseteq [answer : Answers, after : ReviewStatuses]
      BY <1>2, <2>3 DEF ReviewAnswer
    <2>5. \A b \in Answers : answer'[b] = None <=> answer[b] = None
      BY <2>2 DEF Drafted
    <2>6. \A r \in Attaches : pc[r] # "idle" => asked[r].answer \in Answers
      BY DEF Asked
    <2> QED
      BY <1>2, <2>1, <2>4, <2>5, <2>6 DEF ReviewAnswer
  <1>3. ASSUME NEW r \in Attaches, NEW a \in Answers, NEW chosen \in SUBSET Docs,
               LoadForAttach(r, a, chosen)
        PROVE  TypeOK'
    <2>1. answer[a] \in Rows
      BY <1>3 DEF LoadForAttach, Drafted
    <2>2. [answer |-> a, docs |-> chosen] \in Asked
      BY DEF Asked
    <2> QED
      BY <1>3, <2>1, <2>2, NoneAssumption DEF LoadForAttach, Drafted
  <1>4. ASSUME NEW r \in Attaches, CommitAttach(r)
        PROVE  TypeOK'
    <2>1. asked[r].answer \in Answers /\ asked[r].docs \in SUBSET Docs
      BY <1>4, AttachEffect DEF Asked
    <2>2. answer' \in [Answers -> Rows \cup {None}]
      BY <1>4, <2>1, AttachEffect DEF CommitAttach
    <2>0. Drafted' = Drafted
      BY <1>4, AttachEffect
    <2>3. \A b \in Answers : answer'[b] = None <=> answer[b] = None
      BY <2>0 DEF Drafted
    <2>4. attachments' \subseteq [by : Attaches, answer : Answers, docs : SUBSET Docs]
      BY <1>4, <2>1 DEF CommitAttach
    <2>5. clashed' \subseteq Answers
      BY <1>4, <2>1 DEF CommitAttach
    <2>6. \A s \in Attaches : pc[s] # "idle" => asked[s].answer \in Answers
      BY DEF Asked
    <2> QED
      BY <1>4, <2>2, <2>3, <2>4, <2>5, <2>6 DEF CommitAttach
  <1>5. ASSUME NEW r \in Attaches, LoseAttach(r)
        PROVE  TypeOK'
    BY <1>5 DEF LoseAttach
  <1>6. ASSUME NEW r \in Downloads, NEW d \in Docs, AuthorizeDownload(r, d)
        PROVE  TypeOK'
    BY <1>6, NoneAssumption DEF AuthorizeDownload
  <1>7. ASSUME NEW r \in Downloads, AuditDownload(r)
        PROVE  TypeOK'
    <2>1. wanted[r] \in Docs
      BY <1>7 DEF AuditDownload
    <2> QED
      BY <1>7, <2>1 DEF AuditDownload
  <1>8. ASSUME NEW r \in Downloads, ServeDownload(r) \/ LoseDownload(r)
        PROVE  TypeOK'
    BY <1>8 DEF ServeDownload, LoseDownload
  <1>9. CASE UNCHANGED vars
    BY <1>9 DEF vars
  <1> QED
    BY <1>1, <1>2, <1>3, <1>4, <1>5, <1>6, <1>7, <1>8, <1>9 DEF Next

\* Answers, requests, downloads and the trails keep their types.
THEOREM DocumentsTypeCorrect == Spec => []TypeOK
  BY TypeInit, TypeStep, PTL DEF Spec
-----------------------------------------------------------------------------
(* The parts of the invariant, one by one.                                 *)

\* Every way a document comes to an answer asks for a shareable one.
LEMMA OnlyShareableStep == TypeOK /\ OnlyShareable /\ [Next]_vars => OnlyShareable'
  <1> SUFFICES ASSUME TypeOK, OnlyShareable, [Next]_vars
               PROVE  OnlyShareable'
    OBVIOUS
  <1>1. ASSUME NEW a \in Answers, NEW docs \in SUBSET Docs, NEW selection \in BOOLEAN,
               PersistAnswer(a, docs, selection)
        PROVE  OnlyShareable'
    <2>9. Persisted(a, docs, selection)
      BY <1>1, PersistEffect
    <2>1. /\ Drafted' = Drafted \cup {a} /\ pc' = pc /\ asked' = asked
          /\ attachments' = attachments
      BY <2>9 DEF Persisted
    <2>3. \A b \in Drafted : drafted'[b] = drafted[b]
      BY <2>9 DEF Persisted
    <2>2. drafted'[a].docs \subseteq Shareable
      BY <2>9 DEF Persisted
    <2> QED
      BY <2>1, <2>2, <2>3 DEF OnlyShareable
  <1>2. ASSUME NEW a \in Answers, NEW status \in Decisions, ReviewAnswer(a, status)
        PROVE  OnlyShareable'
    <2>1. /\ Drafted' = Drafted /\ drafted' = drafted
          /\ pc' = pc /\ asked' = asked /\ attachments' = attachments
      BY <1>2, ReviewEffect
    <2> QED
      BY <2>1 DEF OnlyShareable
  <1>3. ASSUME NEW r \in Attaches, CommitAttach(r)
        PROVE  OnlyShareable'
    <2>1. /\ Drafted' = Drafted /\ drafted' = drafted /\ asked' = asked
          /\ \A s \in Attaches : pc'[s] = "loaded" => pc[s] = "loaded"
          /\ attachments' = attachments \cup {Recorded(r)}
          /\ pc[r] = "loaded" /\ asked[r].answer \in Drafted
      BY <1>3, AttachEffect
    <2>2. Recorded(r).docs \subseteq Shareable /\ Recorded(r).answer \in Drafted
      BY <2>1 DEF OnlyShareable, Recorded
    <2> QED
      BY <2>1, <2>2 DEF OnlyShareable
  <1>4. CASE Quiet
    <2>1. Drafted' = Drafted
      BY <1>4 DEF Quiet, Drafted
    <2> QED
      BY <1>4, <2>1 DEF Quiet, OnlyShareable
  <1> QED
    BY <1>1, <1>2, <1>3, <1>4, StepKinds

\* What ProvidedInTrail says of one answer.
Provided(a) ==
    /\ answer[a].docs = drafted[a].docs \/ \E x \in AttachmentsOf(a) : x.docs = answer[a].docs
    /\ answer[a].docs \subseteq Shareable

\* A commit leaves an answer with its documents or with the selection it records.
LEMMA ProvidedStep ==
    TypeOK /\ OnlyShareable /\ ProvidedInTrail /\ [Next]_vars => ProvidedInTrail'
  <1> SUFFICES ASSUME TypeOK, OnlyShareable, ProvidedInTrail, [Next]_vars
               PROVE  ProvidedInTrail'
    OBVIOUS
  <1>0. (\A b \in Drafted : Provided(b)) /\ ((\A b \in Drafted' : Provided(b)') => ProvidedInTrail')
    BY DEF Provided, ProvidedInTrail
  <1>1. ASSUME NEW a \in Answers, NEW docs \in SUBSET Docs, NEW selection \in BOOLEAN,
               PersistAnswer(a, docs, selection)
        PROVE  \A b \in Drafted' : Provided(b)'
    <2>9. Persisted(a, docs, selection)
      BY <1>1, PersistEffect
    <2>1. /\ Drafted' = Drafted \cup {a} /\ attachments' = attachments
          /\ \A b \in Drafted : answer'[b] = answer[b] /\ drafted'[b] = drafted[b]
          /\ drafted'[a] = answer'[a] /\ answer'[a].docs \subseteq Shareable
      BY <2>9 DEF Persisted
    <2> QED
      BY <1>0, <2>1 DEF Provided, AttachmentsOf
  <1>2. ASSUME NEW a \in Answers, NEW status \in Decisions, ReviewAnswer(a, status)
        PROVE  \A b \in Drafted' : Provided(b)'
    <2>1. /\ Drafted' = Drafted /\ drafted' = drafted /\ attachments' = attachments
          /\ \A b \in Drafted : answer'[b].docs = answer[b].docs
      BY <1>2, ReviewEffect
    <2> QED
      BY <1>0, <2>1 DEF Provided, AttachmentsOf
  <1>3. ASSUME NEW r \in Attaches, CommitAttach(r), NEW b \in Drafted'
        PROVE  Provided(b)'
    <2>1. /\ b \in Drafted /\ drafted' = drafted
          /\ attachments' = attachments \cup {Recorded(r)}
          /\ pc[r] = "loaded"
      BY <1>3, AttachEffect
    <2>2. \A x \in AttachmentsOf(b) : x \in AttachmentsOf(b)'
      BY <2>1 DEF AttachmentsOf
    <2>3. CASE b = asked[r].answer
      <3>1. answer'[b].docs \in {answer[b].docs, asked[r].docs}
        BY <1>3, <2>3, AttachEffect
      <3>2. CASE answer'[b].docs = answer[b].docs
        BY <1>0, <2>1, <2>2, <3>2 DEF Provided
      <3>3. CASE answer'[b].docs = asked[r].docs
        <4>1. Recorded(r) \in AttachmentsOf(b)' /\ Recorded(r).docs = asked[r].docs
          BY <2>1, <2>3 DEF AttachmentsOf, Recorded
        <4>2. asked[r].docs \subseteq Shareable
          BY <2>1 DEF OnlyShareable
        <4> QED
          BY <3>3, <4>1, <4>2 DEF Provided
      <3> QED
        BY <3>1, <3>2, <3>3
    <2>4. CASE b # asked[r].answer
      <3>1. answer'[b] = answer[b]
        BY <1>3, <2>1, <2>4, AttachEffect
      <3> QED
        BY <1>0, <2>1, <2>2, <3>1 DEF Provided
    <2> QED
      BY <2>3, <2>4
  <1>4. CASE Quiet
    BY <1>0, <1>4 DEF Quiet, Provided, AttachmentsOf, Drafted
  <1> QED
    BY <1>0, <1>1, <1>2, <1>3, <1>4, StepKinds

\* A selection, once closed, stays so: no commit writes an open one.
LEMMA ClosedStep ==
    TypeOK /\ ClosedStaysClosed /\ [Next]_vars => ClosedStaysClosed'
  <1> SUFFICES ASSUME TypeOK, ClosedStaysClosed, [Next]_vars
               PROVE  ClosedStaysClosed'
    OBVIOUS
  <1>0. \A r \in Attaches : pc[r] = "loaded" => asked[r].answer \in Drafted
    BY DEF TypeOK, Drafted, Asked
  <1>1. ASSUME NEW a \in Answers, NEW docs \in SUBSET Docs, NEW selection \in BOOLEAN,
               PersistAnswer(a, docs, selection)
        PROVE  ClosedStaysClosed'
    <2>9. Persisted(a, docs, selection)
      BY <1>1, PersistEffect
    <2>1. /\ \A b \in Drafted : answer'[b] = answer[b]
          /\ pc' = pc /\ asked' = asked /\ seen' = seen
      BY <2>9 DEF Persisted
    <2> QED
      BY <1>0, <2>1 DEF ClosedStaysClosed
  <1>2. ASSUME NEW a \in Answers, NEW status \in Decisions, ReviewAnswer(a, status)
        PROVE  ClosedStaysClosed'
    <2>1. /\ \A b \in Drafted : answer'[b].selection = answer[b].selection
          /\ pc' = pc /\ asked' = asked /\ seen' = seen
      BY <1>2, ReviewEffect
    <2> QED
      BY <1>0, <2>1 DEF ClosedStaysClosed
  <1>3. ASSUME NEW r \in Attaches, CommitAttach(r)
        PROVE  ClosedStaysClosed'
    <2>1. /\ \A s \in Attaches : pc'[s] = "loaded" => pc[s] = "loaded"
          /\ asked' = asked /\ seen' = seen
      BY <1>3, AttachEffect
    <2>2. ASSUME NEW b \in Drafted, ~answer[b].selection
          PROVE  ~answer'[b].selection
      <3>1. CASE b = asked[r].answer
        BY <1>3, <2>2, <3>1, AttachEffect
      <3>2. CASE b # asked[r].answer
        <4>1. answer'[b] = answer[b]
          BY <1>3, <3>2, AttachEffect
        <4> QED
          BY <2>2, <4>1
      <3> QED
        BY <3>1, <3>2
    <2> QED
      BY <1>0, <2>1, <2>2 DEF ClosedStaysClosed
  <1>4. CASE Quiet
    BY <1>4 DEF Quiet, ClosedStaysClosed
  <1> QED
    BY <1>1, <1>2, <1>3, <1>4, StepKinds

\* What SelectionOpenUntilAttached says of one answer.
OpenUntil(a) == answer[a].selection <=> drafted[a].selection /\ AttachmentsOf(a) = {}

\* A commit closes the selection, whatever the request had seen of it.
LEMMA SelectionStep ==
    TypeOK /\ OnlyShareable /\ ClosedStaysClosed /\ SelectionOpenUntilAttached /\ [Next]_vars
        => SelectionOpenUntilAttached'
  <1> SUFFICES ASSUME TypeOK, OnlyShareable, ClosedStaysClosed, SelectionOpenUntilAttached,
                      [Next]_vars
               PROVE  SelectionOpenUntilAttached'
    OBVIOUS
  <1>0. /\ \A b \in Drafted : OpenUntil(b)
        /\ (\A b \in Drafted' : OpenUntil(b)') => SelectionOpenUntilAttached'
    BY DEF OpenUntil, SelectionOpenUntilAttached
  <1>1. ASSUME NEW a \in Answers, NEW docs \in SUBSET Docs, NEW selection \in BOOLEAN,
               PersistAnswer(a, docs, selection), NEW b \in Drafted'
        PROVE  OpenUntil(b)'
    <2>9. Persisted(a, docs, selection)
      BY <1>1, PersistEffect
    <2>1. /\ a \notin Drafted /\ Drafted' = Drafted \cup {a} /\ attachments' = attachments
          /\ \A c \in Drafted : answer'[c] = answer[c] /\ drafted'[c] = drafted[c]
          /\ drafted'[a] = answer'[a]
      BY <2>9 DEF Persisted
    <2>2. AttachmentsOf(b)' = AttachmentsOf(b)
      BY <2>1 DEF AttachmentsOf
    <2>3. CASE b = a
      <3>1. AttachmentsOf(b) = {}
        BY <2>1, <2>3 DEF OnlyShareable, AttachmentsOf
      <3> QED
        BY <2>1, <2>2, <2>3, <3>1 DEF OpenUntil
    <2>4. CASE b # a
      <3>1. b \in Drafted /\ answer'[b] = answer[b] /\ drafted'[b] = drafted[b]
        BY <2>1, <2>4
      <3> QED
        BY <1>0, <2>2, <3>1 DEF OpenUntil
    <2> QED
      BY <2>3, <2>4
  <1>2. ASSUME NEW a \in Answers, NEW status \in Decisions, ReviewAnswer(a, status)
        PROVE  \A b \in Drafted' : OpenUntil(b)'
    <2>1. /\ Drafted' = Drafted /\ drafted' = drafted /\ attachments' = attachments
          /\ \A b \in Drafted : answer'[b].selection = answer[b].selection
      BY <1>2, ReviewEffect
    <2> QED
      BY <1>0, <2>1 DEF OpenUntil, AttachmentsOf
  <1>3. ASSUME NEW r \in Attaches, CommitAttach(r), NEW b \in Drafted'
        PROVE  OpenUntil(b)'
    <2>1. /\ b \in Drafted /\ drafted' = drafted /\ pc[r] = "loaded"
          /\ attachments' = attachments \cup {Recorded(r)}
          /\ Recorded(r).answer = asked[r].answer
      BY <1>3, AttachEffect DEF Recorded
    <2>2. CASE b = asked[r].answer
      <3>1. ~answer'[b].selection
        <4>1. answer'[b].selection = IF seen[r].selection THEN FALSE ELSE answer[b].selection
          BY <1>3, <2>2, AttachEffect
        <4>2. ~seen[r].selection => ~answer[b].selection
          BY <2>1, <2>2 DEF ClosedStaysClosed
        <4> QED
          BY <4>1, <4>2
      <3>2. Recorded(r) \in AttachmentsOf(b)'
        BY <2>1, <2>2 DEF AttachmentsOf
      <3> QED
        BY <3>1, <3>2 DEF OpenUntil
    <2>3. CASE b # asked[r].answer
      <3>1. answer'[b] = answer[b]
        BY <1>3, <2>1, <2>3, AttachEffect
      <3>2. AttachmentsOf(b)' = AttachmentsOf(b)
        BY <2>1, <2>3 DEF AttachmentsOf
      <3> QED
        BY <1>0, <2>1, <3>1, <3>2 DEF OpenUntil
    <2> QED
      BY <2>2, <2>3
  <1>4. CASE Quiet
    BY <1>0, <1>4 DEF Quiet, OpenUntil, AttachmentsOf, Drafted
  <1> QED
    BY <1>0, <1>1, <1>2, <1>3, <1>4, StepKinds

\* Only a decision approves, and it leaves its row.
LEMMA ApprovalsStep ==
    TypeOK /\ ApprovalsRecorded /\ [Next]_vars => ApprovalsRecorded'
  <1> SUFFICES ASSUME TypeOK, ApprovalsRecorded, [Next]_vars
               PROVE  ApprovalsRecorded'
    OBVIOUS
  <1>1. ASSUME NEW a \in Answers, NEW docs \in SUBSET Docs, NEW selection \in BOOLEAN,
               PersistAnswer(a, docs, selection)
        PROVE  ApprovalsRecorded'
    <2>1. Persisted(a, docs, selection)
      BY <1>1, PersistEffect
    <2>2. /\ Drafted' = Drafted \cup {a} /\ decisions' = decisions
          /\ answer'[a].status = "pending" /\ \A b \in Drafted : answer'[b] = answer[b]
      BY <2>1 DEF Persisted
    <2> QED
      BY <2>2 DEF ApprovalsRecorded
  <1>2. ASSUME NEW a \in Answers, NEW status \in Decisions, ReviewAnswer(a, status)
        PROVE  ApprovalsRecorded'
    <2>1. /\ Drafted' = Drafted /\ a \in Drafted /\ answer'[a].status = status
          /\ decisions' = decisions \cup {[answer |-> a, after |-> status]}
      BY <1>2, ReviewEffect
    <2>2. \A b \in Answers \ {a} : answer'[b] = answer[b]
      BY <1>2, ReviewEffect
    <2>3. ASSUME NEW b \in Drafted, answer'[b].status = "approved"
          PROVE  [answer |-> b, after |-> "approved"] \in decisions'
      <3>1. CASE b = a
        BY <2>1, <2>3, <3>1
      <3>2. CASE b # a
        <4>1. answer'[b] = answer[b]
          BY <2>2, <3>2 DEF Drafted
        <4> QED
          BY <2>1, <2>3, <4>1 DEF ApprovalsRecorded
      <3> QED
        BY <3>1, <3>2
    <2> QED
      BY <2>1, <2>3 DEF ApprovalsRecorded
  <1>3. ASSUME NEW r \in Attaches, CommitAttach(r)
        PROVE  ApprovalsRecorded'
    <2>1. /\ Drafted' = Drafted /\ decisions' = decisions
          /\ answer'[asked[r].answer].status = answer[asked[r].answer].status
      BY <1>3, AttachEffect
    <2>2. \A b \in Drafted : b # asked[r].answer => answer'[b] = answer[b]
      BY <1>3, AttachEffect
    <2>3. \A b \in Drafted : answer'[b].status = answer[b].status
      BY <2>1, <2>2
    <2> QED
      BY <2>1, <2>3 DEF ApprovalsRecorded
  <1>4. CASE Quiet
    BY <1>4 DEF Quiet, ApprovalsRecorded, Drafted
  <1> QED
    BY <1>1, <1>2, <1>3, <1>4, StepKinds

\* What was drafted stays as it was drafted, and no row of a trail is taken back.
Grows ==
    /\ decisions \subseteq decisions' /\ attachments \subseteq attachments'
    /\ \A b \in Drafted : drafted'[b] = drafted[b]

\* No step of anyone undoes either.
LEMMA StepGrows == TypeOK /\ [Next]_vars => Grows
  <1> SUFFICES ASSUME TypeOK, [Next]_vars
               PROVE  Grows
    OBVIOUS
  <1>1. ASSUME NEW a \in Answers, NEW docs \in SUBSET Docs, NEW selection \in BOOLEAN,
               PersistAnswer(a, docs, selection)
        PROVE  Grows
    <2>1. Persisted(a, docs, selection)
      BY <1>1, PersistEffect
    <2> QED
      BY <2>1 DEF Persisted, Grows
  <1>2. ASSUME NEW a \in Answers, NEW status \in Decisions, ReviewAnswer(a, status)
        PROVE  Grows
    <2>1. /\ drafted' = drafted /\ attachments' = attachments
          /\ decisions' = decisions \cup {[answer |-> a, after |-> status]}
      BY <1>2, ReviewEffect
    <2> QED
      BY <2>1 DEF Grows
  <1>3. ASSUME NEW r \in Attaches, CommitAttach(r)
        PROVE  Grows
    <2>1. /\ drafted' = drafted /\ decisions' = decisions
          /\ attachments' = attachments \cup {Recorded(r)}
      BY <1>3, AttachEffect
    <2> QED
      BY <2>1 DEF Grows
  <1>4. CASE Quiet
    BY <1>4 DEF Quiet, Grows
  <1> QED
    BY <1>1, <1>2, <1>3, <1>4, StepKinds

\* What was granted stays granted.
LEMMA GrantedStays ==
    ASSUME Grows, ApprovalsRecorded, NEW d, Granted(d)
    PROVE  Granted(d)'
  <1>1. PICK x \in decisions :
          /\ x.after = "approved"
          /\ d \in drafted[x.answer].docs \/ \E y \in AttachmentsOf(x.answer) : d \in y.docs
    BY DEF Granted
  <1>2. x \in decisions' /\ drafted'[x.answer] = drafted[x.answer]
    BY DEF Grows, ApprovalsRecorded
  <1>3. AttachmentsOf(x.answer) \subseteq AttachmentsOf(x.answer)'
    BY DEF Grows, AttachmentsOf
  <1>4. d \in Shareable
    BY DEF Granted
  <1> QED
    BY <1>1, <1>2, <1>3, <1>4 DEF Granted

\* The answer a download is authorized by was approved, and the trail has what it
\* provides.
LEMMA GrantingGrants ==
    ASSUME ProvidedInTrail, ApprovalsRecorded, NEW d \in Shareable, Granting(d)
    PROVE  Granted(d)
  <1>1. PICK a \in Drafted : answer[a].status = "approved" /\ d \in answer[a].docs
    BY DEF Granting
  <1>2. [answer |-> a, after |-> "approved"] \in decisions
    BY <1>1 DEF ApprovalsRecorded
  <1>3. d \in drafted[a].docs \/ \E y \in AttachmentsOf(a) : d \in y.docs
    BY <1>1 DEF ProvidedInTrail
  <1> QED
    BY <1>2, <1>3 DEF Granted

\* Every download has its grant, and its row before its bytes.
LEMMA DownloadsStep ==
    ASSUME TypeOK, ProvidedInTrail, ApprovalsRecorded, DownloadsGranted, [Next]_vars
    PROVE  DownloadsGranted'
  <1>1. \A d : Granted(d) => Granted(d)'
    BY StepGrows, GrantedStays
  <1>2. ASSUME NEW r \in Downloads, NEW d \in Docs, AuthorizeDownload(r, d)
        PROVE  DownloadsGranted'
    <2>1. Granted(d)'
      <3>1. d \in Shareable /\ Granting(d)
        BY <1>2 DEF AuthorizeDownload
      <3> QED
        BY <1>1, <3>1, GrantingGrants
    <2>2. /\ wanted'[r] = d /\ stage'[r] = "authorized" /\ downloads' = downloads
          /\ \A s \in Downloads \ {r} : wanted'[s] = wanted[s] /\ stage'[s] = stage[s]
      BY <1>2 DEF AuthorizeDownload, TypeOK
    <2> QED
      BY <1>1, <2>1, <2>2 DEF DownloadsGranted
  <1>3. ASSUME NEW r \in Downloads, AuditDownload(r)
        PROVE  DownloadsGranted'
    <2>1. /\ stage[r] = "authorized" /\ stage'[r] = "audited" /\ wanted' = wanted
          /\ downloads' = downloads \cup {[by |-> r, doc |-> wanted[r]]}
          /\ \A s \in Downloads \ {r} : stage'[s] = stage[s]
      BY <1>3 DEF AuditDownload, TypeOK
    <2> QED
      BY <1>1, <2>1 DEF DownloadsGranted
  <1>4. ASSUME NEW r \in Downloads, ServeDownload(r)
        PROVE  DownloadsGranted'
    <2>1. /\ stage[r] = "audited" /\ stage'[r] = "served" /\ wanted' = wanted
          /\ downloads' = downloads
          /\ \A s \in Downloads \ {r} : stage'[s] = stage[s]
      BY <1>4 DEF ServeDownload, TypeOK
    <2> QED
      BY <1>1, <2>1 DEF DownloadsGranted
  <1>5. ASSUME NEW r \in Downloads, LoseDownload(r)
        PROVE  DownloadsGranted'
    <2>1. /\ stage'[r] = "failed" /\ wanted' = wanted /\ downloads' = downloads
          /\ \A s \in Downloads \ {r} : stage'[s] = stage[s]
      BY <1>5 DEF LoseDownload, TypeOK
    <2> QED
      BY <1>1, <2>1 DEF DownloadsGranted
  <1>6. CASE UNCHANGED downloadVars
    BY <1>1, <1>6 DEF DownloadsGranted, downloadVars
  <1> QED
    BY <1>2, <1>3, <1>4, <1>5, <1>6
    DEF Next, vars, PersistAnswer, ReviewAnswer, LoadForAttach, CommitAttach, LoseAttach

\* A commit that saw the row as it is leaves its findings as its documents have them.
LEMMA RemediationStep ==
    TypeOK /\ RemediationMatches /\ [Next]_vars => RemediationMatches'
  <1> SUFFICES ASSUME TypeOK, RemediationMatches, [Next]_vars
               PROVE  RemediationMatches'
    OBVIOUS
  <1>1. ASSUME NEW a \in Answers, NEW docs \in SUBSET Docs, NEW selection \in BOOLEAN,
               PersistAnswer(a, docs, selection)
        PROVE  RemediationMatches'
    <2>1. Persisted(a, docs, selection)
      BY <1>1, PersistEffect
    <2>2. Consistent(answer'[a])
      <3>1. Consistent(WithDocs("pending", docs, selection))
        BY WithDocsRow DEF ReviewStatuses
      <3> QED
        BY <2>1, <3>1 DEF Persisted
    <2>3. /\ Drafted' = Drafted \cup {a} /\ clashed' = clashed
          /\ \A b \in Drafted : answer'[b] = answer[b]
      BY <2>1 DEF Persisted
    <2> QED
      BY <2>2, <2>3 DEF RemediationMatches
  <1>2. ASSUME NEW a \in Answers, NEW status \in Decisions, ReviewAnswer(a, status)
        PROVE  RemediationMatches'
    <2>1. /\ Drafted' = Drafted /\ clashed' = clashed
          /\ \A b \in Drafted : /\ answer'[b].docs = answer[b].docs
                                /\ answer'[b].findings = answer[b].findings
                                /\ answer'[b].remediation = answer[b].remediation
      BY <1>2, ReviewEffect
    <2>2. \A b \in Drafted : Consistent(answer[b]) => Consistent(answer'[b])
      BY <2>1 DEF Consistent
    <2> QED
      BY <2>1, <2>2 DEF RemediationMatches
  <1>3. ASSUME NEW r \in Attaches, CommitAttach(r), NEW b \in Drafted' \ clashed'
        PROVE  Consistent(answer'[b])
    <2>1. b \in Drafted \ clashed
      BY <1>3, AttachEffect
    <2>2. CASE b = asked[r].answer
      BY <1>3, <2>2, AttachEffect
    <2>3. CASE b # asked[r].answer
      <3>1. answer'[b] = answer[b]
        BY <1>3, <2>1, <2>3, AttachEffect
      <3> QED
        BY <2>1, <3>1 DEF RemediationMatches
    <2> QED
      BY <2>2, <2>3
  <1>4. CASE Quiet
    BY <1>4 DEF Quiet, RemediationMatches, Drafted
  <1>5. (\A b \in Drafted' \ clashed' : Consistent(answer'[b])) => RemediationMatches'
    BY DEF RemediationMatches, Consistent
  <1> QED
    BY <1>1, <1>2, <1>3, <1>4, <1>5, StepKinds

-----------------------------------------------------------------------------
(* The properties.                                                         *)

\* Nothing is there at first.
LEMMA DocumentsInit == Init => DocumentsInv
  <1> SUFFICES ASSUME Init
               PROVE  DocumentsInv
    OBVIOUS
  <1>1. Drafted = {} /\ attachments = {} /\ decisions = {}
    BY DEF Init, Drafted
  <1>2. \A r \in Attaches : pc[r] = "idle"
    BY DEF Init
  <1>3. \A r \in Downloads : stage[r] = "idle"
    BY DEF Init
  <1> QED
    BY <1>1, <1>2, <1>3, TypeInit
    DEF DocumentsInv, OnlyShareable, ProvidedInTrail, ClosedStaysClosed,
        SelectionOpenUntilAttached, ApprovalsRecorded, DownloadsGranted, RemediationMatches

\* The invariant holds in every state that can be reached.
LEMMA DocumentsInvariant == Spec => []DocumentsInv
  <1>1. DocumentsInv /\ [Next]_vars => DocumentsInv'
    BY TypeStep, OnlyShareableStep, ProvidedStep, ClosedStep, SelectionStep, ApprovalsStep,
       DownloadsStep, RemediationStep
    DEF DocumentsInv
  <1> QED
    BY <1>1, DocumentsInit, PTL DEF Spec

\* What an answer provides, its draft or one analyst selected, and it is shareable.
THEOREM AnswersProvideWhatWasSelected == Spec => []ProvidedInTrail
  <1>1. DocumentsInv => ProvidedInTrail
    BY DEF DocumentsInv
  <1> QED
    BY <1>1, DocumentsInvariant, PTL

\* A selection an answer asks for is asked for until one is attached.
THEOREM SelectionsClosedByAttaching == Spec => []SelectionOpenUntilAttached
  <1>1. DocumentsInv => SelectionOpenUntilAttached
    BY DEF DocumentsInv
  <1> QED
    BY <1>1, DocumentsInvariant, PTL

\* Bytes that were served are in the trail, of a shareable document that an answer
\* provided which was approved once.
THEOREM ServedDocumentsWereGranted == Spec => []ServedWasGranted
  <1>1. DocumentsInv => ServedWasGranted
    BY DEF DocumentsInv, DownloadsGranted, Granted, ServedWasGranted
  <1> QED
    BY <1>1, DocumentsInvariant, PTL

\* Unless a request overwrote what it had not seen, the findings shown with an answer
\* are those of its documents.
THEOREM FindingsFollowDocuments == Spec => []RemediationMatches
  <1>1. DocumentsInv => RemediationMatches
    BY DEF DocumentsInv
  <1> QED
    BY <1>1, DocumentsInvariant, PTL
=============================================================================
