---------------------------- MODULE ReviewProofs ----------------------------
(***************************************************************************)
(* Proofs about Review, for any number of answers, requests and texts, and *)
(* any number of requests in flight.                                       *)
(***************************************************************************)
EXTENDS Review, FiniteNumbers

AuditRows == [request : Requests, answer : Answers, before : Statuses, after : Statuses]

\* A commit adds one row to the trail.
LEMMA LogAppend ==
    ASSUME NEW S, log \in Seq(S), NEW x, log' = Append(log, x)
    PROVE  LogRows' = LogRows \cup {x}
  <1>1. /\ Len(log) \in Nat /\ DOMAIN log = 1..Len(log)
        /\ DOMAIN log' = 1..(Len(log) + 1)
        /\ log'[Len(log) + 1] = x
        /\ \A i \in 1..Len(log) : log'[i] = log[i]
    OBVIOUS
  <1>2. DOMAIN log' = DOMAIN log \cup {Len(log) + 1}
    BY <1>1
  <1> QED
    BY <1>1, <1>2 DEF LogRows

\* The status an action leads to is a status.
LEMMA AfterType ==
    ASSUME NEW r \in Requests, asked[r] \in Asked
    PROVE  After(r) \in Statuses
  <1>1. asked[r].action \in REVIEW_ACTIONS
    BY ActionsAssumption DEF Asked
  <1> QED
    BY <1>1 DEF After, Statuses

\* What a request decides is a row of the answers table.
LEMMA DecidedType ==
    ASSUME NEW r \in Requests, asked[r] \in Asked, seen[r] \in Rows
    PROVE  Decided(r) \in Rows /\ AuditRow(r) \in AuditRows
  <1>1. After(r) \in Statuses
    BY AfterType
  <1>2. NewText(r) \in Texts
    BY DEF NewText, Asked, Rows
  <1>3. asked[r].answer \in Answers /\ seen[r].status \in Statuses
    BY DEF Asked, Rows
  <1> QED
    BY <1>1, <1>2, <1>3 DEF Decided, Rows, AuditRow, AuditRows

\* Each column of the row after a flush is the old one or the decided one.
LEMMA FlushedColumns ==
    ASSUME NEW row \in Rows, NEW loaded \in Rows, NEW new \in Rows
    PROVE  /\ Flushed(row, loaded, new) \in Rows
           /\ Flushed(row, loaded, new).status =
                IF new.status = loaded.status THEN row.status ELSE new.status
           /\ Flushed(row, loaded, new).flagged =
                IF new.flagged = loaded.flagged THEN row.flagged ELSE new.flagged
           /\ Flushed(row, loaded, new).text =
                IF new.text = loaded.text THEN row.text ELSE new.text
  BY DEF Flushed, Rows

\* Only the commit of a review writes answers, the library or the trail.
LEMMA WritesStep ==
    ASSUME [Next]_vars
    PROVE  UNCHANGED <<answer, library, log, clashed>> \/ \E r \in Requests : CommitReview(r)
  BY DEF Next, vars, answerVars, BeginReview, LoadAnswer, RefuseReview, ReadAnswers,
         ReadReviewers

\* The commit of a request writes one answer and adds one row to the trail.
LEMMA CommitEffect ==
    ASSUME TypeOK, NEW r \in Requests, CommitReview(r)
    PROVE  /\ pc[r] = "loaded" /\ asked[r] \in Asked /\ seen[r] \in Rows
           /\ asked[r].answer \in Answers /\ Decided(r) \in Rows
           /\ answer'[asked[r].answer] =
                Flushed(answer[asked[r].answer], seen[r], Decided(r))
           /\ \A a \in Answers \ {asked[r].answer} : answer'[a] = answer[a]
           /\ LogRows' = LogRows \cup {AuditRow(r)}
  <1>1. pc[r] = "loaded" /\ asked[r] \in Asked /\ seen[r] \in Rows
    BY DEF CommitReview, TypeOK
  <1>2. asked[r].answer \in Answers /\ Decided(r) \in Rows
    BY <1>1, DecidedType DEF Asked
  <1>3. LogRows' = LogRows \cup {AuditRow(r)}
    BY LogAppend DEF CommitReview, TypeOK
  <1> QED
    BY <1>1, <1>2, <1>3 DEF CommitReview, TypeOK

\* The trail only grows, and what a recorded request asked for stays.
LEMMA TrailGrows ==
    ASSUME ReviewInv, [Next]_vars
    PROVE  /\ LogRows \subseteq LogRows'
           /\ \A x \in LogRows : asked'[x.request] = asked[x.request]
           /\ generated' = generated
  <1> USE DEF vars, answerVars, requestVars
  <1>1. TypeOK
    BY DEF ReviewInv
  <1>2. LogRows \subseteq LogRows'
    <2>1. CASE log' = log
      BY <2>1 DEF LogRows
    <2>2. ASSUME NEW r \in Requests, CommitReview(r)
          PROVE  LogRows \subseteq LogRows'
      BY <1>1, <2>2, CommitEffect
    <2> QED
      BY <2>1, <2>2, WritesStep
  <1>3. \A x \in LogRows : x.request \in Requests /\ pc[x.request] = "done"
    BY DEF ReviewInv
  <1>4. ASSUME NEW r \in Requests, NEW ask \in Asked, BeginReview(r, ask)
        PROVE  \A x \in LogRows : asked'[x.request] = asked[x.request]
    BY <1>1, <1>3, <1>4 DEF BeginReview, TypeOK
  <1> QED
    BY <1>2, <1>4 DEF Next, BeginReview, LoadAnswer, CommitReview, RefuseReview,
                      ReadAnswers, ReadReviewers

\* What is explained stays explained.
LEMMA ExplainedStays ==
    ASSUME ReviewInv, [Next]_vars, NEW a \in Answers, NEW row, Explained(a, row)
    PROVE  Explained(a, row)'
  <1>1. ReviewsOf(a) \subseteq ReviewsOf(a)'
    BY TrailGrows DEF ReviewsOf
  <1>2. \A x \in ReviewsOf(a) : asked'[x.request] = asked[x.request]
    BY TrailGrows DEF ReviewsOf
  <1> QED
    BY <1>1, <1>2, TrailGrows DEF Explained

\* In the initial state everything has its type.
LEMMA TypeInit == Init => TypeOK
  <1> SUFFICES ASSUME Init
               PROVE  TypeOK
    OBVIOUS
  <1>1. "pending" \in Statuses
    BY DEF Statuses
  <1>2. \A a \in Answers : answer[a] \in Rows
    BY <1>1, DraftAssumption DEF Init, Rows
  <1>3. answer \in [Answers -> Rows]
    BY <1>2 DEF Init
  <1> QED
    BY <1>3 DEF Init, TypeOK

\* Every step keeps the types.
LEMMA TypeStep == TypeOK /\ [Next]_vars => TypeOK'
  <1> SUFFICES ASSUME TypeOK, [Next]_vars
               PROVE  TypeOK'
    OBVIOUS
  <1>1. ASSUME NEW r \in Requests, NEW ask \in Asked, BeginReview(r, ask)
        PROVE  TypeOK'
    <2>1. Cardinality(Begun) + 1 \in Nat
      BY RequestsAssumption, FS_Subset, FS_CardinalityType DEF Begun
    <2> QED
      BY <1>1, <2>1 DEF TypeOK, BeginReview, answerVars, exportVars
  <1>2. ASSUME NEW r \in Requests, LoadAnswer(r)
        PROVE  TypeOK'
    <2>1. answer[asked[r].answer] \in Rows
      BY <1>2 DEF TypeOK, LoadAnswer, Asked
    <2> QED
      BY <1>2, <2>1 DEF TypeOK, LoadAnswer, answerVars, exportVars
  <1>3. ASSUME NEW r \in Requests, CommitReview(r)
        PROVE  TypeOK'
    <2>1. asked[r] \in Asked /\ seen[r] \in Rows /\ asked[r].answer \in Answers
      BY <1>3, CommitEffect
    <2>2. Decided(r) \in Rows /\ AuditRow(r) \in AuditRows
      BY <2>1, DecidedType
    <2>3. answer' \in [Answers -> Rows]
      BY <1>3, <2>1, <2>2, FlushedColumns DEF CommitReview, TypeOK
    <2>4. log' \in Seq(AuditRows)
      BY <1>3, <2>2 DEF CommitReview, TypeOK, AuditRows
    <2>5. Candidates(r) \subseteq [question : Questions, request : Requests, text : Texts]
      BY <2>1 DEF Candidates, QuestionOf, Answers, Rows
    <2>6. library' \subseteq [question : Questions, request : Requests, text : Texts]
      BY <1>3, <2>5 DEF CommitReview, TypeOK
    <2>7. clashed' \subseteq Answers
      BY <1>3, <2>1 DEF CommitReview, TypeOK
    <2> QED
      BY <1>3, <2>3, <2>4, <2>6, <2>7 DEF CommitReview, TypeOK, AuditRows, exportVars
  <1>4. ASSUME NEW r \in Requests, RefuseReview(r)
        PROVE  TypeOK'
    BY <1>4 DEF TypeOK, RefuseReview, answerVars, exportVars
  <1>5. CASE ReadAnswers
    BY <1>5 DEF TypeOK, ReadAnswers, answerVars, requestVars
  <1>6. CASE ReadReviewers
    BY <1>6 DEF TypeOK, ReadReviewers, answerVars, requestVars
  <1>7. CASE UNCHANGED vars
    BY <1>7 DEF TypeOK, vars, answerVars, requestVars, exportVars
  <1> QED
    BY <1>1, <1>2, <1>3, <1>4, <1>5, <1>6, <1>7 DEF Next

\* Answers, requests, the library and the trail keep their types.
THEOREM ReviewTypeCorrect == Spec => []TypeOK
  BY TypeInit, TypeStep, PTL DEF Spec

\* No request takes back what another one wrote, in whatever order they commit: an
\* UPDATE that leaves a column out keeps the other's value in it.
THEOREM EditsSurviveHolds == Spec => EditsSurvive
  <1> DEFINE Kept ==
        \A a \in Answers : answer'[a].text # answer[a].text =>
          \E r \in Requests : /\ pc[r] = "loaded" /\ pc'[r] = "done"
                              /\ asked[r].answer = a /\ asked[r].action = "edit"
                              /\ asked[r].edited = answer'[a].text
  <1>1. ASSUME TypeOK, [Next]_vars
        PROVE  Kept
    <2> SUFFICES ASSUME NEW a \in Answers, answer'[a].text # answer[a].text
                 PROVE  \E r \in Requests :
                          /\ pc[r] = "loaded" /\ pc'[r] = "done"
                          /\ asked[r].answer = a /\ asked[r].action = "edit"
                          /\ asked[r].edited = answer'[a].text
      OBVIOUS
    <2>1. PICK r \in Requests : CommitReview(r)
      BY <1>1, WritesStep
    <2>2. /\ asked[r].answer = a /\ seen[r] \in Rows /\ Decided(r) \in Rows
          /\ answer'[a] = Flushed(answer[a], seen[r], Decided(r))
      BY <1>1, <2>1, CommitEffect
    <2>3. answer[a] \in Rows
      BY <1>1 DEF TypeOK
    <2>4. Decided(r).text # seen[r].text /\ answer'[a].text = Decided(r).text
      BY <2>2, <2>3, FlushedColumns
    <2>5. asked[r].action = "edit" /\ answer'[a].text = asked[r].edited
      BY <2>4 DEF Decided, NewText
    <2>6. pc[r] = "loaded" /\ pc'[r] = "done"
      BY <1>1, <2>1 DEF CommitReview, TypeOK
    <2> QED
      BY <2>2, <2>5, <2>6
  <1> QED
    BY <1>1, ReviewTypeCorrect, PTL DEF Spec, EditsSurvive

\* What a commit leaves in the answers table is explained by the trail and the row
\* the commit adds to it.
LEMMA CommitExplained ==
    ASSUME ReviewInv, NEW r \in Requests, CommitReview(r), NEW a \in Answers
    PROVE  Explained(a, answer[a])'
  <1>1. TypeOK /\ [Next]_vars
    BY DEF ReviewInv, Next
  <1>2. Explained(a, answer[a])
    BY DEF ReviewInv, DecisionsRecorded
  <1> DEFINE mine == asked[r].answer
             new == Decided(r)
  <1>3. PICK old : old = answer[a]
    OBVIOUS
  <1>4. Explained(a, old)'
    BY <1>1, <1>2, <1>3, ExplainedStays
  <1>5. CASE a # mine
    <2>1. answer'[a] = old
      BY <1>1, <1>3, <1>5, CommitEffect
    <2> QED
      BY <1>4, <2>1 DEF Explained
  <1>6. CASE a = mine
    <2>1. /\ seen[r] \in Rows /\ asked[r] \in Asked /\ new \in Rows /\ old \in Rows
          /\ pc[r] = "loaded"
          /\ answer'[a] = Flushed(old, seen[r], new)
          /\ LogRows' = LogRows \cup {AuditRow(r)}
      BY <1>1, <1>3, <1>6, CommitEffect DEF TypeOK
    <2>2. AuditRow(r) \in ReviewsOf(a)' /\ AuditRow(r).after = After(r)
          /\ AuditRow(r).request = r /\ asked' = asked /\ generated' = generated
      BY <2>1, <1>6 DEF ReviewsOf, AuditRow, CommitReview
    <2>3. answer'[a].status # "pending" =>
            \E x \in ReviewsOf(a)' : x.after = answer'[a].status
      <3>1. answer'[a].status = old.status \/ answer'[a].status = After(r)
        BY <2>1, FlushedColumns DEF Decided
      <3> QED
        BY <3>1, <2>2, <1>4 DEF Explained
    <2>4. generated'[a] /\ ~answer'[a].flagged =>
            \E x \in ReviewsOf(a)' : x.after = "approved"
      <3>1. CASE new.flagged = seen[r].flagged
        <4>1. answer'[a].flagged = old.flagged
          BY <2>1, <3>1, FlushedColumns
        <4> QED
          BY <4>1, <1>4 DEF Explained
      <3>2. CASE new.flagged # seen[r].flagged
        <4>1. After(r) = "approved"
          BY <2>1, <3>2 DEF Decided, Rows
        <4> QED
          BY <4>1, <2>2
      <3> QED
        BY <3>1, <3>2
    <2>5. answer'[a].text # Draft =>
            \E x \in ReviewsOf(a)' : /\ asked'[x.request].action = "edit"
                                     /\ asked'[x.request].edited = answer'[a].text
      <3>1. CASE new.text = seen[r].text
        <4>1. answer'[a].text = old.text
          BY <2>1, <3>1, FlushedColumns
        <4> QED
          BY <4>1, <1>4 DEF Explained
      <3>2. CASE new.text # seen[r].text
        <4>1. answer'[a].text = new.text
          BY <2>1, <3>2, FlushedColumns
        <4>2. asked[r].action = "edit" /\ asked[r].edited = new.text
          BY <3>2 DEF Decided, NewText
        <4> QED
          BY <4>1, <4>2, <2>2
      <3> QED
        BY <3>1, <3>2
    <2> QED
      BY <2>3, <2>4, <2>5 DEF Explained
  <1> QED
    BY <1>5, <1>6

\* Decisions stay recorded, in the table and in what an export has read.
LEMMA RecordedStep == ReviewInv /\ [Next]_vars => DecisionsRecorded'
  <1> SUFFICES ASSUME ReviewInv, [Next]_vars, NEW a \in Answers
               PROVE  Explained(a, answer[a])' /\ Explained(a, rows[a])'
    BY DEF DecisionsRecorded
  <1>1. Explained(a, answer[a]) /\ Explained(a, rows[a]) /\ TypeOK
    BY DEF ReviewInv, DecisionsRecorded
  <1>2. PICK old, read : old = answer[a] /\ read = rows[a]
    OBVIOUS
  <1>3. Explained(a, old)' /\ Explained(a, read)'
    BY <1>1, <1>2, ExplainedStays
  <1>4. Explained(a, answer[a])'
    <2>1. CASE UNCHANGED answer
      <3>1. answer'[a] = old
        BY <2>1, <1>2
      <3> QED
        BY <3>1, <1>3 DEF Explained
    <2> QED
      BY <2>1, WritesStep, CommitExplained
  <1>5. rows'[a] = read \/ rows'[a] = old
    BY <1>1, <1>2 DEF Next, vars, exportVars, BeginReview, LoadAnswer, CommitReview,
                 RefuseReview, ReadAnswers, ReadReviewers
  <1>6. Explained(a, rows[a])'
    BY <1>3, <1>5 DEF Explained
  <1> QED
    BY <1>4, <1>6

\* What a request has loaded stays explained until it commits.
LEMMA LoadedStep ==
    ASSUME ReviewInv, [Next]_vars, NEW r \in Requests, pc'[r] = "loaded"
    PROVE  Explained(asked[r].answer, seen[r])'
  <1>1. TypeOK
    BY DEF ReviewInv
  <1>2. \/ pc[r] = "loaded" /\ seen'[r] = seen[r] /\ asked'[r] = asked[r]
        \/ LoadAnswer(r)
    BY <1>1 DEF TypeOK, Next, vars, requestVars, BeginReview, LoadAnswer, CommitReview,
                RefuseReview, ReadAnswers, ReadReviewers
  <1>3. PICK a, row : /\ a = asked'[r].answer
                      /\ row = seen'[r]
    OBVIOUS
  <1>4. a \in Answers /\ Explained(a, row)
    <2>1. CASE pc[r] = "loaded" /\ seen'[r] = seen[r] /\ asked'[r] = asked[r]
      <3>1. asked[r] \in Asked /\ a = asked[r].answer /\ row = seen[r]
        BY <2>1, <1>1, <1>3 DEF TypeOK
      <3>2. a \in Answers
        BY <3>1 DEF Asked
      <3> QED
        BY <3>1, <3>2, <2>1 DEF ReviewInv
    <2>2. CASE LoadAnswer(r)
      <3>1. asked[r] \in Asked /\ a = asked[r].answer /\ row = answer[a]
        BY <2>2, <1>1, <1>3 DEF TypeOK, LoadAnswer
      <3>2. a \in Answers
        BY <3>1 DEF Asked
      <3> QED
        BY <3>1, <3>2 DEF ReviewInv, DecisionsRecorded
    <2> QED
      BY <2>1, <2>2, <1>2
  <1>5. Explained(a, row)'
    BY <1>4, ExplainedStays
  <1> QED
    BY <1>3, <1>5 DEF Explained, ReviewsOf

Recorded == {x.request : x \in LogRows}
DoneRequests == {r \in Requests : pc[r] = "done"}
Saves == {x.request : x \in {y \in LogRows : asked[y.request].action = "save_to_library"}}

\* Exactly the requests that are done are in the trail.
LEMMA DoneStep == ReviewInv /\ [Next]_vars => Recorded' = DoneRequests'
  <1> SUFFICES ASSUME ReviewInv, [Next]_vars
               PROVE  Recorded' = DoneRequests'
    OBVIOUS
  <1>1. TypeOK /\ Recorded = DoneRequests
    BY DEF ReviewInv, Recorded, DoneRequests
  <1>2. ASSUME NEW r \in Requests, CommitReview(r)
        PROVE  Recorded' = DoneRequests'
    <2>1. LogRows' = LogRows \cup {AuditRow(r)} /\ AuditRow(r).request = r
      BY <1>1, <1>2, CommitEffect DEF AuditRow
    <2>2. Recorded' = Recorded \cup {r}
      BY <2>1 DEF Recorded
    <2>3. DoneRequests' = DoneRequests \cup {r}
      BY <1>1, <1>2 DEF DoneRequests, CommitReview, TypeOK
    <2> QED
      BY <1>1, <2>2, <2>3
  <1>3. ASSUME UNCHANGED log, DoneRequests' = DoneRequests
        PROVE  Recorded' = DoneRequests'
    BY <1>1, <1>3 DEF Recorded, LogRows
  <1>4. ASSUME NEW r \in Requests, NEW ask \in Asked, BeginReview(r, ask)
        PROVE  Recorded' = DoneRequests'
    BY <1>1, <1>3, <1>4 DEF BeginReview, TypeOK, DoneRequests
  <1>5. ASSUME NEW r \in Requests, LoadAnswer(r) \/ RefuseReview(r)
        PROVE  Recorded' = DoneRequests'
    BY <1>1, <1>3, <1>5 DEF LoadAnswer, RefuseReview, TypeOK, DoneRequests
  <1>6. CASE ReadAnswers \/ ReadReviewers \/ UNCHANGED vars
    BY <1>3, <1>6 DEF ReadAnswers, ReadReviewers, vars, requestVars, DoneRequests
  <1> QED
    BY <1>2, <1>4, <1>5, <1>6 DEF Next

\* A save adds its candidate and its row of the trail together, and never a second
\* candidate of a numbered question.
LEMMA LibraryStep == ReviewInv /\ [Next]_vars => LibraryMatchesTrail'
  <1> SUFFICES ASSUME ReviewInv, [Next]_vars
               PROVE  LibraryMatchesTrail'
    OBVIOUS
  <1>1. /\ TypeOK /\ {row.request : row \in library} = Saves
        /\ \A row, other \in library :
             row.question = other.question /\ row.question \in Numbered => row = other
    BY DEF ReviewInv, LibraryMatchesTrail, Saves
  <1>2. ASSUME UNCHANGED <<library, log>>
        PROVE  LibraryMatchesTrail'
    <2>1. LogRows' = LogRows /\ \A x \in LogRows : asked'[x.request] = asked[x.request]
      BY <1>2, TrailGrows DEF LogRows
    <2>2. Saves' = Saves
      BY <2>1 DEF Saves
    <2> QED
      BY <1>1, <1>2, <2>2 DEF LibraryMatchesTrail, Saves
  <1>3. ASSUME NEW r \in Requests, CommitReview(r)
        PROVE  LibraryMatchesTrail'
    <2>1. /\ LogRows' = LogRows \cup {AuditRow(r)} /\ AuditRow(r).request = r
          /\ asked' = asked
      BY <1>1, <1>3, CommitEffect DEF AuditRow, CommitReview
    <2>2. library' = library \cup Candidates(r)
      BY <1>3 DEF CommitReview
    <2> DEFINE q == QuestionOf(asked[r].answer)
               mine == [question |-> q, request |-> r, text |-> seen[r].text]
    <2>3. CASE asked[r].action = "save_to_library"
      <3>1. Candidates(r) = {mine} /\ ~LibraryTaken(q)
        BY <2>3, <1>3 DEF Candidates, CommitReview
      <3>2. Saves' = Saves \cup {r}
        BY <2>1, <2>3 DEF Saves
      <3>3. {row.request : row \in library'} = {row.request : row \in library} \cup {r}
        <4>1. library' = library \cup {mine} /\ mine.request = r
          BY <2>2, <3>1
        <4> HIDE DEF mine
        <4> QED
          BY <4>1
      <3>4. ASSUME NEW row \in library', NEW other \in library',
                   row.question = other.question, row.question \in Numbered
            PROVE  row = other
        <4>1. row \in library \cup {mine} /\ other \in library \cup {mine}
          BY <2>2, <3>1
        <4>2. mine.question = q
          OBVIOUS
        <4>3. \A old \in library : q \in Numbered => old.question # q
          BY <3>1 DEF LibraryTaken
        <4> QED
          BY <4>1, <4>2, <4>3, <3>4, <1>1
      <3> QED
        BY <1>1, <3>2, <3>3, <3>4 DEF LibraryMatchesTrail, Saves
    <2>4. CASE asked[r].action # "save_to_library"
      <3>1. library' = library /\ Saves' = Saves
        BY <2>1, <2>2, <2>4 DEF Candidates, Saves
      <3> QED
        BY <1>1, <3>1 DEF LibraryMatchesTrail, Saves
    <2> QED
      BY <2>3, <2>4
  <1>4. ASSUME NEW r \in Requests,
               (\E ask \in Asked : BeginReview(r, ask)) \/ LoadAnswer(r) \/ RefuseReview(r)
        PROVE  UNCHANGED <<library, log>>
    BY <1>4 DEF BeginReview, LoadAnswer, RefuseReview
  <1>5. ASSUME ReadAnswers \/ ReadReviewers \/ UNCHANGED vars
        PROVE  UNCHANGED <<library, log>>
    BY <1>5 DEF ReadAnswers, ReadReviewers, vars
  <1> QED
    BY <1>2, <1>3, <1>4, <1>5 DEF Next

\* The inductive invariant holds when the review begins ...
LEMMA ReviewInvInit == Init => ReviewInv
  <1> SUFFICES ASSUME Init
               PROVE  ReviewInv
    OBVIOUS
  <1>1. TypeOK /\ LogRows = {}
    BY TypeInit DEF Init, LogRows
  <1>2. \A a \in Answers : Explained(a, answer[a]) /\ Explained(a, rows[a])
    BY DEF Init, Explained
  <1> QED
    BY <1>1, <1>2 DEF Init, ReviewInv, DecisionsRecorded, LibraryMatchesTrail

\* ... and every step keeps it.
THEOREM ReviewInvHolds == Spec => []ReviewInv
  <1>1. ReviewInv /\ [Next]_vars => ReviewInv'
    <2> SUFFICES ASSUME ReviewInv, [Next]_vars
                 PROVE  ReviewInv'
      OBVIOUS
    <2>1. TypeOK'
      BY TypeStep DEF ReviewInv
    <2>2. DecisionsRecorded' /\ LibraryMatchesTrail' /\ Recorded' = DoneRequests'
      BY RecordedStep, LibraryStep, DoneStep
    <2>3. \A r \in Requests : pc'[r] = "loaded" => Explained(asked[r].answer, seen[r])'
      BY LoadedStep
    <2> QED
      BY <2>1, <2>2, <2>3 DEF ReviewInv, Recorded, DoneRequests
  <1> QED
    BY ReviewInvInit, <1>1, PTL DEF Spec

\* The trail accounts for every status, cleared flag and edited text, whatever
\* reviewers decide at the same time.
THEOREM DecisionsRecordedHolds == Spec => []DecisionsRecorded
  <1>1. ReviewInv => DecisionsRecorded
    BY DEF ReviewInv
  <1> QED
    BY <1>1, ReviewInvHolds, PTL

\* The library holds the saves the trail records, one for each numbered question.
THEOREM LibraryMatchesTrailHolds == Spec => []LibraryMatchesTrail
  <1>1. ReviewInv => LibraryMatchesTrail
    BY DEF ReviewInv
  <1> QED
    BY <1>1, ReviewInvHolds, PTL

-----------------------------------------------------------------------------
(* The order of decisions.                                                 *)

\* What a commit appends to the trail is its last row; the others stay as they are.
LEMMA TrailAppended ==
    ASSUME TypeOK, NEW r \in Requests, CommitReview(r)
    PROVE  /\ Len(log) \in Nat /\ Len(log') = Len(log) + 1
           /\ DOMAIN log = 1..Len(log) /\ DOMAIN log' = 1..(Len(log) + 1)
           /\ log'[Len(log) + 1] = AuditRow(r)
           /\ \A i \in DOMAIN log : log'[i] = log[i]
  <1>1. log' = Append(log, AuditRow(r))
    BY DEF CommitReview
  <1>2. log \in Seq(AuditRows)
    BY DEF TypeOK, AuditRows
  <1> QED
    BY <1>1, <1>2

\* What AuditChain says of one answer.
Chained(a) ==
    \A i \in {0} \cup Places(a), j \in Places(a) \cup {Len(log) + 1} :
        Adjacent(a, i, j) => FoundAs(a, j) = LeftAs(i)

\* The row of another answer does not break the chain of this one.
LEMMA ChainedBeside ==
    ASSUME TypeOK, NEW r \in Requests, CommitReview(r), NEW a \in Answers,
           a # asked[r].answer, Chained(a)
    PROVE  Chained(a)'
  <1> DEFINE n == Len(log)
  <1>1. /\ n \in Nat /\ Len(log') = n + 1
        /\ DOMAIN log = 1..n /\ DOMAIN log' = 1..(n + 1)
        /\ log'[n + 1] = AuditRow(r) /\ \A i \in DOMAIN log : log'[i] = log[i]
    BY TrailAppended
  <1>2. log'[n + 1].answer # a
    BY <1>1 DEF AuditRow
  <1>3. Places(a)' = Places(a) /\ Places(a) \subseteq 1..n
    BY <1>1, <1>2 DEF Places
  <1>4. answer'[a] = answer[a]
    BY CommitEffect
  <1> SUFFICES ASSUME NEW i \in {0} \cup Places(a), NEW j \in Places(a) \cup {n + 2},
                      Adjacent(a, i, j)'
               PROVE  FoundAs(a, j)' = LeftAs(i)'
    BY <1>1, <1>3 DEF Chained
  <1>5. i \in 0..n /\ LeftAs(i)' = LeftAs(i)
    BY <1>1, <1>3 DEF LeftAs
  <1>6. CASE j \in Places(a)
    <2>1. Adjacent(a, i, j) /\ j \in 1..n
      BY <1>3, <1>6 DEF Adjacent
    <2>2. FoundAs(a, j) = LeftAs(i)
      BY <1>6, <2>1 DEF Chained
    <2>3. FoundAs(a, j)' = FoundAs(a, j)
      BY <1>1, <2>1 DEF FoundAs
    <2> QED
      BY <1>5, <2>2, <2>3
  <1>7. CASE j = n + 2
    <2>1. Adjacent(a, i, n + 1)
      BY <1>1, <1>3, <1>5, <1>7 DEF Adjacent
    <2>2. FoundAs(a, n + 1) = LeftAs(i)
      BY <2>1 DEF Chained
    <2>3. FoundAs(a, j)' = FoundAs(a, n + 1)
      BY <1>1, <1>4, <1>7 DEF FoundAs
    <2> QED
      BY <1>5, <2>2, <2>3
  <1> QED
    BY <1>6, <1>7

\* A request that commits what it saw leaves the row as it decided it.
LEMMA SeenAsIs ==
    ASSUME TypeOK, NEW r \in Requests, CommitReview(r), asked[r].answer \notin clashed'
    PROVE  /\ seen[r] = answer[asked[r].answer] /\ asked[r].answer \notin clashed
           /\ answer'[asked[r].answer].status = After(r)
           /\ answer'[asked[r].answer].text = NewText(r)
  <1> DEFINE a == asked[r].answer
  <1>1. seen[r] = answer[a] /\ a \notin clashed
    BY DEF CommitReview
  <1>2. /\ seen[r] \in Rows /\ Decided(r) \in Rows
        /\ answer'[a] = Flushed(answer[a], seen[r], Decided(r))
    BY CommitEffect
  <1>3. /\ answer'[a].status =
             IF Decided(r).status = seen[r].status THEN answer[a].status ELSE Decided(r).status
        /\ answer'[a].text =
             IF Decided(r).text = seen[r].text THEN answer[a].text ELSE Decided(r).text
    BY <1>1, <1>2, FlushedColumns
  <1>4. Decided(r).status = After(r) /\ Decided(r).text = NewText(r)
    BY DEF Decided
  <1> QED
    BY <1>1, <1>3, <1>4

\* The row of a decision on what the reviewer saw continues the chain.
LEMMA ChainedOn ==
    ASSUME TypeOK, NEW r \in Requests, CommitReview(r), NEW a \in Answers,
           a = asked[r].answer, a \notin clashed', Chained(a)
    PROVE  Chained(a)'
  <1> DEFINE n == Len(log)
  <1>1. /\ n \in Nat /\ Len(log') = n + 1
        /\ DOMAIN log = 1..n /\ DOMAIN log' = 1..(n + 1)
        /\ log'[n + 1] = AuditRow(r) /\ \A i \in DOMAIN log : log'[i] = log[i]
    BY TrailAppended
  <1>2. /\ log'[n + 1].answer = a /\ log'[n + 1].before = answer[a].status
        /\ log'[n + 1].after = answer'[a].status
    BY <1>1, SeenAsIs DEF AuditRow
  <1>3. Places(a)' = Places(a) \cup {n + 1} /\ Places(a) \subseteq 1..n
    BY <1>1, <1>2 DEF Places
  <1> SUFFICES ASSUME NEW i \in {0} \cup Places(a) \cup {n + 1},
                      NEW j \in Places(a) \cup {n + 1, n + 2},
                      i < j, \A k \in Places(a) \cup {n + 1} : k <= i \/ j <= k
               PROVE  (IF j = n + 2 THEN answer'[a].status ELSE log'[j].before) =
                      (IF i = 0 THEN "pending" ELSE log'[i].after)
    BY <1>1, <1>3 DEF Chained, Adjacent, FoundAs, LeftAs
  <1>5. CASE j = n + 2
    <2>1. i = n + 1
      BY <1>1, <1>3, <1>5
    <2> QED
      BY <1>1, <1>2, <1>5, <2>1
  <1>6. CASE j # n + 2
    <2>1. i \in 0..n /\ i \in {0} \cup Places(a) /\ j \in 1..(n + 1)
      BY <1>1, <1>3, <1>6
    <2>2. Adjacent(a, i, j)
      BY DEF Adjacent
    <2>3. FoundAs(a, j) = LeftAs(i)
      BY <2>1, <2>2, <1>6 DEF Chained
    <2>4. LeftAs(i) = (IF i = 0 THEN "pending" ELSE log'[i].after)
      BY <1>1, <2>1 DEF LeftAs
    <2>5. FoundAs(a, j) = log'[j].before
      BY <1>1, <1>2, <2>1 DEF FoundAs
    <2> QED
      BY <1>6, <2>3, <2>4, <2>5
  <1> QED
    BY <1>5, <1>6

\* The trail of an answer chains while its reviewers see each other's decisions.
LEMMA ChainStep == TypeOK /\ AuditChain /\ [Next]_vars => AuditChain'
  <1> SUFFICES ASSUME TypeOK, AuditChain, [Next]_vars, NEW a \in Answers \ clashed'
               PROVE  Chained(a)'
    BY DEF AuditChain, Chained
  <1>1. CASE UNCHANGED <<answer, library, log, clashed>>
    BY <1>1 DEF AuditChain, Chained, Places, LeftAs, FoundAs, Adjacent
  <1>2. ASSUME NEW r \in Requests, CommitReview(r)
        PROVE  Chained(a)'
    <2>1. a \notin clashed
      BY <1>2 DEF CommitReview
    <2>2. Chained(a)
      BY <2>1 DEF AuditChain, Chained
    <2> QED
      BY <1>2, <2>2, ChainedBeside, ChainedOn
  <1> QED
    BY <1>1, <1>2, WritesStep

\* Nothing is chained at first.
LEMMA ChainInit == Init => AuditChain
  BY DEF Init, AuditChain, Places, LeftAs, FoundAs, Adjacent

\* The rows of an answer that no reviewer committed over unseen chain.
THEOREM AuditChainHolds == Spec => []AuditChain
  BY ChainInit, ChainStep, ReviewTypeCorrect, PTL DEF Spec

\* What a recorded request had loaded stays.
LEMMA SeenStays ==
    ASSUME ReviewInv, [Next]_vars
    PROVE  \A x \in LogRows : seen'[x.request] = seen[x.request]
  <1>1. TypeOK /\ \A x \in LogRows : x.request \in Requests /\ pc[x.request] = "done"
    BY DEF ReviewInv
  <1>2. CASE UNCHANGED seen
    BY <1>2
  <1>3. ASSUME NEW r \in Requests, LoadAnswer(r)
        PROVE  \A x \in LogRows : seen'[x.request] = seen[x.request]
    BY <1>1, <1>3 DEF LoadAnswer, TypeOK
  <1> QED
    BY <1>2, <1>3 DEF Next, vars, requestVars, BeginReview, CommitReview, RefuseReview,
                      ReadAnswers, ReadReviewers

\* What ApprovedAsSeen says of one answer.
SeenApproving(a) ==
    \E x \in ReviewsOf(a) : x.after = "approved" /\ seen[x.request].text = answer[a].text

\* An approval leaves the text its reviewer had loaded, and an edit no approval.
LEMMA ApprovedStep == ReviewInv /\ ApprovedAsSeen /\ [Next]_vars => ApprovedAsSeen'
  <1> SUFFICES ASSUME ReviewInv, ApprovedAsSeen, [Next]_vars, NEW a \in Answers \ clashed',
                      answer'[a].status = "approved"
               PROVE  SeenApproving(a)'
    BY DEF ApprovedAsSeen, SeenApproving
  <1>1. TypeOK
    BY DEF ReviewInv
  <1>2. ASSUME a \notin clashed, answer'[a] = answer[a]
        PROVE  SeenApproving(a)'
    <2>1. SeenApproving(a)
      BY <1>2 DEF ApprovedAsSeen, SeenApproving
    <2>2. LogRows \subseteq LogRows' /\ \A x \in LogRows : seen'[x.request] = seen[x.request]
      BY TrailGrows, SeenStays
    <2> QED
      BY <1>2, <2>1, <2>2 DEF SeenApproving, ReviewsOf
  <1>3. CASE UNCHANGED <<answer, library, log, clashed>>
    BY <1>2, <1>3
  <1>4. ASSUME NEW r \in Requests, CommitReview(r), a # asked[r].answer
        PROVE  SeenApproving(a)'
    BY <1>1, <1>2, <1>4, CommitEffect DEF CommitReview
  <1>5. ASSUME NEW r \in Requests, CommitReview(r), a = asked[r].answer
        PROVE  SeenApproving(a)'
    <2>1. /\ seen[r] = answer[a] /\ answer'[a].status = After(r)
          /\ answer'[a].text = NewText(r)
      BY <1>1, <1>5, SeenAsIs
    <2>2. asked[r] \in Asked
      BY <1>1, <1>5, CommitEffect
    <2>3. After(r) = "approved"
      BY <2>1
    <2>4. asked[r].action # "edit"
      BY <2>2, <2>3 DEF After, ACTION_STATUS
    <2>5. answer'[a].text = seen[r].text
      BY <2>1, <2>4 DEF NewText
    <2>6. /\ AuditRow(r) \in LogRows' /\ AuditRow(r).answer = a /\ AuditRow(r).request = r
          /\ AuditRow(r).after = "approved" /\ seen' = seen
      BY <1>1, <1>5, <2>3, CommitEffect DEF AuditRow, CommitReview
    <2> QED
      BY <2>5, <2>6 DEF SeenApproving, ReviewsOf
  <1> QED
    BY <1>3, <1>4, <1>5, WritesStep

\* The text of an answer that reads as approved is one that an approving reviewer saw,
\* unless a reviewer committed over what another had just decided.
THEOREM ApprovedAsSeenHolds == Spec => []ApprovedAsSeen
  <1>1. Init => ApprovedAsSeen
    BY DEF Init, ApprovedAsSeen
  <1> QED
    BY <1>1, ApprovedStep, ReviewInvHolds, PTL DEF Spec

-----------------------------------------------------------------------------
(* The export.                                                             *)

\* No transaction has begun after the last one: the times the export compares are
\* bounded.
BeganBounded == \A r \in Requests : began[r] <= Cardinality(Requests)

\* A request that begins is one more of the requests there are.
LEMMA BeganStep == TypeOK /\ BeganBounded /\ [Next]_vars => BeganBounded'
  <1> SUFFICES ASSUME TypeOK, BeganBounded, [Next]_vars
               PROVE  BeganBounded'
    OBVIOUS
  <1>1. ASSUME NEW r \in Requests, NEW ask \in Asked, BeginReview(r, ask)
        PROVE  BeganBounded'
    <2>1. /\ IsFiniteSet(Begun) /\ r \notin Begun /\ Begun \cup {r} \subseteq Requests
          /\ IsFiniteSet(Requests)
      BY <1>1, RequestsAssumption, FS_Subset DEF Begun, BeginReview
    <2>2. Cardinality(Begun \cup {r}) = Cardinality(Begun) + 1
      BY <2>1, FS_AddElement
    <2>3. Cardinality(Begun \cup {r}) <= Cardinality(Requests)
      BY <2>1, FS_Subset
    <2> QED
      BY <1>1, <2>2, <2>3 DEF BeginReview, TypeOK, BeganBounded
  <1>2. CASE UNCHANGED began
    BY <1>2 DEF BeganBounded
  <1> QED
    BY <1>1, <1>2 DEF Next, vars, requestVars, LoadAnswer, CommitReview, RefuseReview,
                      ReadAnswers, ReadReviewers

\* Who is named for a reviewed answer reviewed it: among the reviewers there is one
\* whose transaction began last.
LEMMA LatestReviewed ==
    ASSUME TypeOK, BeganBounded, Signed = Requests, NEW a \in Answers, ReviewsOf(a) # {}
    PROVE  \E x \in ReviewsOf(a) : x.request = LatestReviewer(a)
  <1> DEFINE signed == {x.request : x \in ReviewsOf(a)} \cap Signed
  <1>1. \A x \in ReviewsOf(a) : x.request \in Requests
    <2>1. log \in Seq(AuditRows)
      BY DEF TypeOK, AuditRows
    <2>2. \A i \in DOMAIN log : log[i] \in AuditRows
      BY <2>1
    <2> QED
      BY <2>2 DEF ReviewsOf, LogRows, AuditRows
  <1>2. signed # {} /\ signed \subseteq Requests
    BY <1>1
  <1>3. Cardinality(Requests) \in Nat
    BY RequestsAssumption, FS_CardinalityType
  <1>4. \A r \in signed : began[r] \in Nat /\ began[r] <= Cardinality(Requests)
    BY <1>2 DEF TypeOK, BeganBounded
  <1>5. \E r \in signed : \A s \in signed : began[s] <= began[r]
    <2> HIDE DEF signed
    <2> QED
      BY <1>2, <1>3, <1>4, GreatestOf
  <1>6. LatestReviewer(a) \in signed
    <2>1. LatestReviewer(a) = CHOOSE r \in signed : \A s \in signed : began[s] <= began[r]
      BY <1>2 DEF LatestReviewer
    <2> HIDE DEF signed
    <2> QED
      BY <1>5, <2>1
  <1> QED
    BY <1>6

\* An export that is done names, with every decision, one who took one.
LEMMA ExportStep ==
    ASSUME ReviewInv, BeganBounded, ExportNamesReviewer, [Next]_vars
    PROVE  ExportNamesReviewer'
  <1>1. TypeOK
    BY DEF ReviewInv
  <1>2. CASE ReadReviewers
    <2> SUFFICES ASSUME Signed = Requests, NEW a \in Answers, rows'[a].status # "pending"
                 PROVE  \E x \in ReviewsOf(a)' : x.request = reviewer'[a]
      BY DEF ExportNamesReviewer
    <2>1. rows' = rows /\ log' = log /\ reviewer'[a] = LatestReviewer(a)
      BY <1>2 DEF ReadReviewers
    <2>2. ReviewsOf(a) # {}
      BY <2>1 DEF ReviewInv, DecisionsRecorded, Explained
    <2>3. ReviewsOf(a)' = ReviewsOf(a)
      BY <2>1 DEF ReviewsOf, LogRows
    <2> QED
      BY <1>1, <2>1, <2>2, <2>3, LatestReviewed
  <1>3. CASE ReadAnswers
    BY <1>3 DEF ReadAnswers, ExportNamesReviewer
  <1>4. CASE UNCHANGED exportVars
    BY <1>4, TrailGrows DEF exportVars, ExportNamesReviewer, ReviewsOf
  <1> QED
    BY <1>2, <1>3, <1>4 DEF Next, vars, BeginReview, LoadAnswer, CommitReview, RefuseReview

\* Every exported decision has a reviewer of that answer beside it.
THEOREM ExportNamesReviewerHolds == Spec => []ExportNamesReviewer
  <1>1. Init => BeganBounded /\ ExportNamesReviewer
    <2>1. Cardinality(Requests) \in Nat
      BY RequestsAssumption, FS_CardinalityType
    <2> QED
      BY <2>1 DEF Init, BeganBounded, ExportNamesReviewer
  <1>2. ReviewInv => TypeOK
    BY DEF ReviewInv
  <1> QED
    BY <1>1, <1>2, BeganStep, ExportStep, ReviewInvHolds, PTL DEF Spec
=============================================================================
