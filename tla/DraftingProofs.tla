--------------------------- MODULE DraftingProofs ---------------------------
(***************************************************************************)
(* Proofs about Drafting, for any number of questions, jobs and processes, *)
(* except where a theorem assumes SingleProcess.                           *)
(***************************************************************************)
EXTENDS Drafting, TLAPS

\* Every action of Next, named once: the steps of a process, of a worker, of a
\* reviewer, and the stuttering step.
LEMMA Steps ==
    ASSUME [Next]_vars
    PROVE  \/ \E p \in Procs : \/ \E regen \in BOOLEAN : CheckNoActiveJob(p, regen)
                               \/ \E j \in JobIds : CreateJob(p, j)
                               \/ Crash(p) \/ SelectOrphans(p) \/ FailOrphans(p)
                               \/ SkipCleanup(p)
           \/ \E j \in JobIds : Worker(j)
           \/ \E q \in Questions, k \in JobIds, action \in ReviewActions :
                 ReviewAnswer(q, k, action)
           \/ UNCHANGED vars
  BY DEF Next, Startup

\* The literals the actions store are members of the types of TypeOK.
LEMMA Literals ==
    /\ {"none", "pending", "running", "done", "failed"} \subseteq JobStatuses
    /\ {"none", "interrupted by restart", "generation failed",
        "could not be drafted"} \subseteq Errors
    /\ {"pending", "approved", "edited", "rejected", "needs_evidence"}
          \subseteq ReviewStatuses
    /\ {"none", "exited", "scheduled", "loading", "looping", "drafting",
        "ticking", "closing"} \subseteq PCs
  BY DEF JobStatuses, ACTIVE_STATUSES, FinalStatuses, Errors, ReviewStatuses,
         PCs, Busy

\* In the initial state every column and session variable has its type.
LEMMA TypeInit == Init => TypeOK
  <1> SUFFICES ASSUME Init
               PROVE  TypeOK
    OBVIOUS
  <1>1. completed \in [JobIds -> 0..NumQuestions]
    BY NumQuestionsAssumption DEF Init
  <1>2. pos \in [JobIds -> 1..(NumQuestions + 1)]
    BY NumQuestionsAssumption DEF Init
  <1> QED
    BY <1>1, <1>2, Literals DEF Init, TypeOK, NothingLive, NothingCached

\* A tick keeps the counter within the total and the position within the loop.
LEMMA TypeTick ==
    ASSUME TypeOK, NEW j \in JobIds, pos[j] <= NumQuestions, Tick(j)
    PROVE  /\ completed' \in [JobIds -> 0..NumQuestions]
           /\ pos' \in [JobIds -> 1..(NumQuestions + 1)]
           /\ pc' \in [JobIds -> PCs]
  <1> USE NumQuestionsAssumption DEF TypeOK, Tick
  <1>1. completed' \in [JobIds -> 0..NumQuestions]
    OBVIOUS
  <1>2. pos' \in [JobIds -> 1..(NumQuestions + 1)]
    OBVIOUS
  <1>3. pc' \in [JobIds -> PCs]
    BY Literals
  <1> QED
    BY <1>1, <1>2, <1>3

\* A finished job's counter is in range.
LEMMA TotalInRange == NumQuestions \in 0..NumQuestions
  BY NumQuestionsAssumption

\* The question a worker is at.
LEMMA AtPosition ==
    ASSUME TypeOK, NEW j \in JobIds, pos[j] <= NumQuestions
    PROVE  pos[j] \in Questions
  BY NumQuestionsAssumption DEF TypeOK, Questions

\* A worker past the last question is right after it.
LEMMA AtEnd ==
    ASSUME TypeOK, NEW j \in JobIds, pos[j] > NumQuestions
    PROVE  pos[j] = NumQuestions + 1
  <1>1. pos[j] \in 1..(NumQuestions + 1)
    BY DEF TypeOK
  <1> QED
    BY <1>1, NumQuestionsAssumption

\* The status a worker acts on is a status some row had.
LEMMA SeenType ==
    ASSUME TypeOK, NEW j \in JobIds, pos[j] \in Questions
    PROVE  SeenStatus(j) \in ReviewStatuses
  <1>1. cached[j][pos[j]] \in ReviewStatuses
    BY DEF TypeOK
  <1>2. live[j][pos[j]] # None => review_status[pos[j]][live[j][pos[j]]] \in ReviewStatuses
    BY DEF TypeOK
  <1> QED
    BY <1>1, <1>2 DEF SeenStatus

\* A reviewer action stores a review status.
LEMMA ActionType ==
    ASSUME NEW action \in ReviewActions
    PROVE  ACTION_STATUS[action] \in ReviewStatuses
  <1>1. action \in {"approve", "edit", "reject", "request_evidence", "save_to_library"}
    BY ReviewActionsAssumption DEF REVIEW_ACTIONS, ACTION_STATUS
  <1> QED
    BY <1>1 DEF ACTION_STATUS, ReviewStatuses

\* What the worker of a job does keeps the types: no counter passes the total.
LEMMA TypeWorker ==
    ASSUME TypeOK, NEW j \in JobIds, Worker(j),
           pc[j] \in {"drafting", "ticking"} => pos[j] <= NumQuestions
    PROVE  TypeOK'
  <1> USE Literals DEF TypeOK, jobVars, answerVars, sessionVars, workerVars, procVars
  <1>1. CASE BeginJob(j)
    BY <1>1 DEF BeginJob
  <1>2. CASE LoadLiveAnswers(j)
    <2>1. PICK f \in [Questions -> JobIds \cup {None}] :
            /\ live' = [live EXCEPT ![j] = f]
            /\ cached' = [cached EXCEPT ![j] = [q \in Questions |->
                   IF f[q] = None THEN "pending" ELSE review_status[q][f[q]]]]
      BY <1>2 DEF LoadLiveAnswers
    <2>2. live' \in [JobIds -> [Questions -> JobIds \cup {None}]]
      BY <2>1
    <2>3. [q \in Questions |->
             IF f[q] = None THEN "pending" ELSE review_status[q][f[q]]]
               \in [Questions -> ReviewStatuses]
      <3>1. ASSUME NEW q \in Questions, f[q] # None
            PROVE  review_status[q][f[q]] \in ReviewStatuses
        <4>1. f[q] \in JobIds
          BY <3>1
        <4> QED
          BY <4>1
      <3>2. "pending" \in ReviewStatuses
        BY DEF ReviewStatuses
      <3> QED
        BY <3>1, <3>2
    <2>4. cached' \in [JobIds -> [Questions -> ReviewStatuses]]
      BY <2>1, <2>3
    <2> QED
      BY <1>2, <2>2, <2>4 DEF LoadLiveAnswers
  <1>3. CASE PassOver(j)
    BY <1>3, TypeTick DEF PassOver, AtQuestion
  <1>4. CASE StartDraft(j)
    <2>1. pos[j] \in Questions
      BY <1>4, AtPosition DEF StartDraft, AtQuestion
    <2>2. SeenStatus(j) \in ReviewStatuses
      BY <2>1, SeenType
    <2> QED
      BY <1>4, <2>2 DEF StartDraft
  <1>5. CASE PersistDraft(j)
    <2>1. pos[j] \in Questions
      BY <1>5, AtPosition DEF PersistDraft
    <2> QED
      BY <1>5, <2>1 DEF PersistDraft
  <1>6. CASE TickDrafted(j)
    BY <1>6, TypeTick DEF TickDrafted
  <1>7. CASE FailQuestion(j)
    <2>1. pos[j] \in Questions
      BY <1>7, AtPosition DEF FailQuestion
    <2>2. failed' \in [JobIds -> SUBSET Questions]
      BY <1>7, <2>1 DEF FailQuestion
    <2> QED
      BY <1>7, <2>2, TypeTick DEF FailQuestion
  <1>8. CASE FinishDrafting(j)
    BY <1>8 DEF FinishDrafting
  <1> USE DEF EndThread, NothingLive, NothingCached
  <1>9. CASE CompleteJob(j)
    BY <1>9, TotalInRange DEF CompleteJob
  <1>10. CASE AbortJob(j)
    BY <1>10 DEF AbortJob
  <1>11. CASE LoseWorker(j)
    BY <1>11 DEF LoseWorker
  <1> QED
    BY <1>1, <1>2, <1>3, <1>4, <1>5, <1>6, <1>7, <1>8, <1>9, <1>10, <1>11 DEF Worker

\* Every step keeps the types.
LEMMA TypeStep ==
    ASSUME TypeOK, [Next]_vars,
           \A j \in JobIds :
              pc[j] \in {"drafting", "ticking"} => pos[j] <= NumQuestions
    PROVE  TypeOK'
  <1>1. ASSUME NEW j \in JobIds, Worker(j)
        PROVE  TypeOK'
    BY <1>1, TypeWorker
  <1> USE Literals DEF TypeOK, vars, jobVars, answerVars, sessionVars, workerVars,
                       procVars
  <1>2. ASSUME NEW p \in Procs, NEW regen \in BOOLEAN, CheckNoActiveJob(p, regen)
        PROVE  TypeOK'
    BY <1>2 DEF CheckNoActiveJob
  <1>3. ASSUME NEW p \in Procs, NEW j \in JobIds, CreateJob(p, j)
        PROVE  TypeOK'
    BY <1>3 DEF CreateJob
  <1>4. ASSUME NEW p \in Procs, Crash(p)
        PROVE  TypeOK'
    BY <1>4 DEF Crash, EndThread, NothingLive, NothingCached
  <1>5. ASSUME NEW p \in Procs, SelectOrphans(p) \/ FailOrphans(p) \/ SkipCleanup(p)
        PROVE  TypeOK'
    <2>1. CASE SelectOrphans(p)
      BY <2>1 DEF SelectOrphans, ActiveJobs
    <2>2. CASE FailOrphans(p)
      <3>1. job_status' \in [JobIds -> JobStatuses]
        BY <2>2 DEF FailOrphans
      <3>2. error' \in [JobIds -> Errors]
        BY <2>2 DEF FailOrphans
      <3> QED
        BY <2>2, <3>1, <3>2 DEF FailOrphans
    <2>3. CASE SkipCleanup(p)
      BY <2>3 DEF SkipCleanup
    <2> QED
      BY <1>5, <2>1, <2>2, <2>3
  <1>6. ASSUME NEW q \in Questions, NEW k \in JobIds, NEW action \in ReviewActions,
               ReviewAnswer(q, k, action)
        PROVE  TypeOK'
    BY <1>6, ActionType DEF ReviewAnswer
  <1>7. CASE UNCHANGED vars
    BY <1>7
  <1> QED
    BY <1>1, <1>2, <1>3, <1>4, <1>5, <1>6, <1>7, Steps

-----------------------------------------------------------------------------

\* Only PersistDraft writes answer rows.
LEMMA RowStep ==
    ASSUME [Next]_vars
    PROVE  row' = row \/ \E j \in JobIds : PersistDraft(j)
  <1> USE DEF vars, answerVars
  <1>1. ASSUME NEW j \in JobIds, Worker(j)
        PROVE  row' = row \/ PersistDraft(j)
    BY <1>1 DEF Worker, BeginJob, LoadLiveAnswers, PassOver, StartDraft, TickDrafted,
                FailQuestion, FinishDrafting, CompleteJob, AbortJob, LoseWorker
  <1> QED
    BY <1>1, Steps DEF CheckNoActiveJob, CreateJob, Crash, SelectOrphans,
                       FailOrphans, SkipCleanup, ReviewAnswer

\* The effect of PersistDraft on the rows: job j's row is live, the row its map
\* names is superseded unless it is job j's own, and no other row changes.
LEMMA PersistEffect ==
    ASSUME TypeOK, NEW j \in JobIds, PersistDraft(j), pos[j] <= NumQuestions
    PROVE  /\ pos[j] \in Questions
           /\ row'[pos[j]][j] = "live"
           /\ \A k \in JobIds \ {j} :
                row'[pos[j]][k] = IF k = live[j][pos[j]] THEN "superseded"
                                  ELSE row[pos[j]][k]
           /\ \A q \in Questions \ {pos[j]} : row'[q] = row[q]
  <1>1. pos[j] \in Questions
    BY AtPosition
  <1> QED
    BY <1>1 DEF PersistDraft, TypeOK

\* A question with a live answer has one after any step.
LEMMA LiveKept ==
    ASSUME TypeOK, \A j \in JobIds : JobPhase(j), [Next]_vars,
           NEW q \in Questions, LiveOf(q) # {}
    PROVE  LiveOf(q)' # {}
  <1>1. CASE row' = row
    BY <1>1 DEF LiveOf
  <1>2. ASSUME NEW j \in JobIds, PersistDraft(j)
        PROVE  LiveOf(q)' # {}
    <2>1. pos[j] <= NumQuestions
      BY <1>2 DEF JobPhase, PersistDraft
    <2>2. row'[pos[j]][j] = "live" /\ (q # pos[j] => row'[q] = row[q])
      BY <1>2, <2>1, PersistEffect
    <2> QED
      BY <2>2 DEF LiveOf
  <1> QED
    BY <1>1, <1>2, RowStep

\* No row disappears.
LEMMA RowsStay ==
    ASSUME TypeOK, \A j \in JobIds : JobPhase(j), [Next]_vars,
           NEW q \in Questions, NEW k \in JobIds, row[q][k] # "absent"
    PROVE  row'[q][k] # "absent"
  <1>1. CASE row' = row
    BY <1>1
  <1>2. ASSUME NEW j \in JobIds, PersistDraft(j)
        PROVE  row'[q][k] # "absent"
    <2>1. pos[j] <= NumQuestions
      BY <1>2 DEF JobPhase, PersistDraft
    <2> QED
      BY <1>2, <2>1, PersistEffect
  <1> QED
    BY <1>1, <1>2, RowStep

\* A job's phase depends on its own row and thread alone.
LEMMA PhaseFrame ==
    ASSUME NEW i \in JobIds, JobPhase(i), job_status'[i] = job_status[i],
           pc'[i] = pc[i], pos'[i] = pos[i], completed'[i] = completed[i]
    PROVE  JobPhase(i)'
  BY DEF JobPhase

\* The worker of job j keeps the phase of every job.
LEMMA PhaseWorker ==
    ASSUME TypeOK, \A i \in JobIds : JobPhase(i), NEW j \in JobIds, Worker(j)
    PROVE  \A i \in JobIds : JobPhase(i)'
  <1> USE NumQuestionsAssumption DEF jobVars, workerVars, sessionVars
  <1>1. ASSUME NEW i \in JobIds, i # j
        PROVE  JobPhase(i)'
    <2>1. /\ job_status'[i] = job_status[i] /\ completed'[i] = completed[i]
          /\ pc'[i] = pc[i] /\ pos'[i] = pos[i]
      BY <1>1 DEF TypeOK, Worker, BeginJob, LoadLiveAnswers, PassOver, StartDraft,
                  PersistDraft, TickDrafted, FailQuestion, FinishDrafting,
                  CompleteJob, AbortJob, LoseWorker, Tick, EndThread
    <2> QED
      BY <2>1, PhaseFrame
  <1>2. JobPhase(j)'
    <2> USE DEF TypeOK, JobPhase
    <2>1. CASE BeginJob(j) \/ LoadLiveAnswers(j)
      BY <2>1 DEF BeginJob, LoadLiveAnswers
    <2>2. CASE PassOver(j) \/ TickDrafted(j) \/ FailQuestion(j)
      <3>1. /\ pc[j] \in {"looping", "ticking", "drafting"}
            /\ job_status' = job_status
            /\ pc'[j] = "looping" /\ pos'[j] = pos[j] + 1 /\ completed'[j] = pos[j]
        BY <2>2 DEF PassOver, TickDrafted, FailQuestion, Tick, AtQuestion
      <3>2. pos'[j] - 1 = pos[j]
        BY <3>1
      <3> QED
        BY <3>1, <3>2
    <2>3. CASE StartDraft(j) \/ PersistDraft(j)
      BY <2>3 DEF StartDraft, PersistDraft, AtQuestion
    <2>4. CASE FinishDrafting(j)
      <3>1. pos[j] = NumQuestions + 1
        BY <2>4, AtEnd DEF FinishDrafting
      <3> QED
        BY <2>4, <3>1 DEF FinishDrafting
    <2>5. CASE CompleteJob(j) \/ AbortJob(j) \/ LoseWorker(j)
      BY <2>5 DEF CompleteJob, AbortJob, LoseWorker, EndThread, Working, Busy
    <2> QED
      BY <2>1, <2>2, <2>3, <2>4, <2>5 DEF Worker
  <1> QED
    BY <1>1, <1>2

\* Every step keeps the phase of every job.
LEMMA PhaseStep ==
    ASSUME TypeOK, \A j \in JobIds : JobPhase(j), [Next]_vars
    PROVE  \A j \in JobIds : JobPhase(j)'
  <1> USE DEF vars, jobVars, workerVars, sessionVars
  <1>1. ASSUME NEW j \in JobIds, Worker(j)
        PROVE  \A i \in JobIds : JobPhase(i)'
    BY <1>1, PhaseWorker
  <1>2. ASSUME NEW p \in Procs, NEW j \in JobIds, CreateJob(p, j)
        PROVE  \A i \in JobIds : JobPhase(i)'
    BY <1>2 DEF CreateJob, Unused, JobPhase, TypeOK
  <1>3. ASSUME NEW p \in Procs, Crash(p)
        PROVE  \A i \in JobIds : JobPhase(i)'
    BY <1>3 DEF Crash, EndThread, JobPhase, TypeOK, Working, Busy
  <1>4. ASSUME NEW p \in Procs, FailOrphans(p)
        PROVE  \A i \in JobIds : JobPhase(i)'
    BY <1>4 DEF FailOrphans, JobPhase, TypeOK
  <1>5. CASE UNCHANGED <<job_status, completed, pc, pos>>
    BY <1>5 DEF JobPhase
  <1> QED
    BY <1>1, <1>2, <1>3, <1>4, <1>5, Steps
       DEF CheckNoActiveJob, SelectOrphans, SkipCleanup, ReviewAnswer

\* What the rows say of job i is not disturbed by a step that leaves its thread,
\* its map and its own rows alone.
LEMMA RowsFrame ==
    ASSUME TypeOK, \A k \in JobIds : JobPhase(k), [Next]_vars,
           NEW i \in JobIds, JobRows(i),
           pc'[i] = pc[i], pos'[i] = pos[i], live'[i] = live[i],
           \A q \in Questions : row[q][i] = "absent" => row'[q][i] = "absent"
    PROVE  JobRows(i)'
  <1>1. ASSUME pc[i] = "ticking"
        PROVE  LiveOf(pos[i])' # {}
    <2>1. pos[i] \in Questions
      BY <1>1, AtPosition DEF JobPhase
    <2> QED
      BY <1>1, <2>1, LiveKept DEF JobRows
  <1>2. ASSUME NEW q \in Questions,
               pc[i] \in {"none", "scheduled", "loading"} \/ Unreached(i, q)
        PROVE  row'[q][i] = "absent"
    BY <1>2 DEF JobRows
  <1>3. ASSUME NEW q \in Questions, Unreached(i, q), live[i][q] # None
        PROVE  row'[q][live[i][q]] # "absent" /\ LiveOf(q)' # {}
    <2>1. live[i][q] \in JobIds
      BY <1>3 DEF TypeOK
    <2> QED
      BY <1>3, <2>1, LiveKept, RowsStay DEF JobRows
  <1> QED
    BY <1>1, <1>2, <1>3 DEF JobRows, Unreached

\* No step of anyone else gives job i a row it has not written: a worker
\* supersedes only rows that exist.
LEMMA OwnRows ==
    ASSUME TypeOK, \A k \in JobIds : JobPhase(k) /\ JobRows(k), [Next]_vars,
           NEW i \in JobIds, ~PersistDraft(i),
           NEW q \in Questions, row[q][i] = "absent"
    PROVE  row'[q][i] = "absent"
  <1>1. CASE row' = row
    BY <1>1
  <1>2. ASSUME NEW j \in JobIds, PersistDraft(j)
        PROVE  row'[q][i] = "absent"
    <2>1. pc[j] = "drafting" /\ pos[j] <= NumQuestions
      BY <1>2 DEF JobPhase, PersistDraft
    <2>2. pos[j] \in Questions
      BY <2>1, AtPosition
    <2>3. Unreached(j, pos[j])
      BY <2>1, <2>2 DEF Unreached, Questions
    <2>4. live[j][pos[j]] # None => row[pos[j]][live[j][pos[j]]] # "absent"
      BY <2>2, <2>3 DEF JobRows
    <2>5. q = pos[j] => i # live[j][pos[j]]
      BY <2>4, NoneAssumption
    <2> QED
      BY <1>2, <2>1, <2>5, PersistEffect
  <1> QED
    BY <1>1, <1>2, RowStep

\* What a worker step leaves alone: the processes and every other job.
LEMMA WorkerFrame ==
    ASSUME TypeOK, NEW j \in JobIds, Worker(j)
    PROVE  /\ UNCHANGED <<host, proc, orphans, creating>>
           /\ \A i \in JobIds \ {j} :
                 UNCHANGED <<job_status[i], completed[i], error[i], pc[i], pos[i], live[i]>>
  <1> USE DEF TypeOK, Tick, EndThread, jobVars, answerVars, workerVars, sessionVars, procVars
  <1>1. CASE BeginJob(j)
    BY <1>1 DEF BeginJob
  <1>2. CASE LoadLiveAnswers(j)
    BY <1>2 DEF LoadLiveAnswers
  <1>3. CASE PassOver(j)
    BY <1>3 DEF PassOver
  <1>4. CASE StartDraft(j)
    BY <1>4 DEF StartDraft
  <1>5. CASE PersistDraft(j)
    BY <1>5 DEF PersistDraft
  <1>6. CASE TickDrafted(j)
    BY <1>6 DEF TickDrafted
  <1>7. CASE FailQuestion(j)
    BY <1>7 DEF FailQuestion
  <1>8. CASE FinishDrafting(j)
    BY <1>8 DEF FinishDrafting
  <1>9. CASE CompleteJob(j)
    BY <1>9 DEF CompleteJob
  <1>10. CASE AbortJob(j)
    BY <1>10 DEF AbortJob
  <1>11. CASE LoseWorker(j)
    BY <1>11 DEF LoseWorker
  <1> QED
    BY <1>1, <1>2, <1>3, <1>4, <1>5, <1>6, <1>7, <1>8, <1>9, <1>10, <1>11 DEF Worker

\* The worker of job j keeps what the rows say of every job.
LEMMA RowsWorker ==
    ASSUME TypeOK, \A k \in JobIds : JobPhase(k) /\ JobRows(k), [Next]_vars,
           NEW j \in JobIds, Worker(j)
    PROVE  \A i \in JobIds : JobRows(i)'
  <1> USE DEF answerVars, workerVars, sessionVars
  <1>1. ASSUME NEW i \in JobIds, i # j
        PROVE  JobRows(i)'
    <2>1. /\ pc'[i] = pc[i] /\ pos'[i] = pos[i] /\ live'[i] = live[i]
      BY <1>1, WorkerFrame
    <2>2. pc[i] = "drafting" => ~PersistDraft(i)
      BY <2>1 DEF PersistDraft, TypeOK
    <2>3. ~PersistDraft(i)
      BY <2>2 DEF PersistDraft
    <2>4. \A q \in Questions : row[q][i] = "absent" => row'[q][i] = "absent"
      BY <2>3, OwnRows
    <2> QED
      BY <2>1, <2>4, RowsFrame
  <1>2. CASE BeginJob(j)
    BY <1>2, <1>1 DEF BeginJob, JobRows, Unreached, LiveOf, TypeOK
  <1>3. CASE LoadLiveAnswers(j)
    <2>1. PICK f \in [Questions -> JobIds \cup {None}] :
            /\ \A q \in Questions :
                  IF LiveOf(q) = {} THEN f[q] = None ELSE f[q] \in LiveOf(q)
            /\ live' = [live EXCEPT ![j] = f]
      BY <1>3 DEF LoadLiveAnswers
    <2>2. live'[j] = f /\ pc'[j] = "looping" /\ row' = row
      BY <1>3, <2>1 DEF LoadLiveAnswers, TypeOK
    <2>3. ASSUME NEW q \in Questions
          PROVE  /\ row[q][j] = "absent"
                 /\ f[q] # None => row[q][f[q]] # "absent" /\ LiveOf(q) # {}
      BY <1>3, <2>1 DEF LoadLiveAnswers, JobRows, LiveOf
    <2>4. JobRows(j)'
      BY <2>2, <2>3 DEF JobRows, LiveOf
    <2> QED
      BY <1>1, <2>4
  <1>4. CASE PassOver(j) \/ TickDrafted(j) \/ FailQuestion(j)
    <2>1. /\ pc[j] \in {"looping", "ticking", "drafting"}
          /\ pc'[j] = "looping" /\ pos'[j] = pos[j] + 1
          /\ row' = row /\ live' = live
      BY <1>4 DEF PassOver, TickDrafted, FailQuestion, Tick, AtQuestion, TypeOK
    <2>2. pos[j] \in Nat
      BY NumQuestionsAssumption DEF TypeOK
    <2>3. ASSUME NEW q \in Questions, q >= pos[j] + 1
          PROVE  Unreached(j, q)
      BY <2>1, <2>2, <2>3 DEF Unreached, Questions
    <2>4. ASSUME NEW q \in Questions, Unreached(j, q)'
          PROVE  Unreached(j, q)
      BY <2>1, <2>3, <2>4 DEF Unreached
    <2>5. JobRows(j)'
      BY <2>1, <2>4 DEF JobRows, LiveOf
    <2> QED
      BY <1>1, <2>5
  <1>5. CASE StartDraft(j)
    <2>1. /\ pc[j] = "looping" /\ pc'[j] = "drafting"
          /\ pos' = pos /\ row' = row /\ live' = live
      BY <1>5 DEF StartDraft, AtQuestion, TypeOK
    <2>2. JobRows(j)'
      BY <2>1 DEF JobRows, LiveOf, Unreached
    <2> QED
      BY <1>1, <2>2
  <1>6. CASE PersistDraft(j)
    <2>1. /\ pc[j] = "drafting" /\ pc'[j] = "ticking" /\ pos' = pos /\ live' = live
          /\ pos[j] <= NumQuestions
      BY <1>6 DEF PersistDraft, TypeOK, JobPhase
    <2>2. /\ pos[j] \in Questions /\ row'[pos[j]][j] = "live"
          /\ \A q \in Questions \ {pos[j]} : row'[q] = row[q]
      BY <1>6, <2>1, PersistEffect
    <2>3. ASSUME NEW q \in Questions, Unreached(j, q)'
          PROVE  Unreached(j, q) /\ q # pos[j]
      BY <2>1, <2>2, <2>3 DEF Unreached, Questions
    <2>4. JobRows(j)'
      BY <2>1, <2>2, <2>3 DEF JobRows, LiveOf
    <2> QED
      BY <1>1, <2>4
  <1>7. CASE FinishDrafting(j) \/ CompleteJob(j) \/ AbortJob(j) \/ LoseWorker(j)
    <2>1. pc'[j] \in {"closing", "exited"}
      BY <1>7 DEF FinishDrafting, CompleteJob, AbortJob, LoseWorker, EndThread, TypeOK
    <2>2. JobRows(j)'
      BY <2>1 DEF JobRows, Unreached
    <2> QED
      BY <1>1, <2>2
  <1> QED
    BY <1>2, <1>3, <1>4, <1>5, <1>6, <1>7 DEF Worker

\* Every step keeps what the rows say of every job.
LEMMA RowsStep ==
    ASSUME TypeOK, \A k \in JobIds : JobPhase(k) /\ JobRows(k), [Next]_vars
    PROVE  \A i \in JobIds : JobRows(i)'
  <1> USE DEF vars, answerVars, workerVars, sessionVars
  <1>1. ASSUME NEW j \in JobIds, Worker(j)
        PROVE  \A i \in JobIds : JobRows(i)'
    BY <1>1, RowsWorker
  <1>2. ASSUME NEW p \in Procs, NEW j \in JobIds, CreateJob(p, j)
        PROVE  \A i \in JobIds : JobRows(i)'
    <2>1. pc[j] = "none"
      BY <1>2 DEF CreateJob, Unused, JobPhase
    <2> QED
      BY <1>2, <2>1 DEF CreateJob, JobRows, Unreached, LiveOf, TypeOK
  <1>3. ASSUME NEW p \in Procs, Crash(p)
        PROVE  \A i \in JobIds : JobRows(i)'
    <2> SUFFICES ASSUME NEW i \in JobIds
                 PROVE  JobRows(i)'
      OBVIOUS
    <2>1. row' = row /\ pos' = pos
      BY <1>3 DEF Crash, EndThread
    <2>2. CASE pc'[i] = "exited"
      BY <2>2 DEF JobRows, Unreached
    <2>3. CASE pc'[i] = pc[i] /\ live'[i] = live[i]
      BY <2>1, <2>3 DEF JobRows, Unreached, LiveOf
    <2> QED
      BY <1>3, <2>2, <2>3 DEF Crash, EndThread, TypeOK
  <1>4. CASE UNCHANGED <<row, pc, pos, live>>
    BY <1>4 DEF JobRows, Unreached, LiveOf
  <1> QED
    BY <1>1, <1>2, <1>3, <1>4, Steps
       DEF CheckNoActiveJob, SelectOrphans, FailOrphans, SkipCleanup, ReviewAnswer

\* A question counted for a job stays answered or given up.
LEMMA CountedStays ==
    ASSUME RunInv, [Next]_vars, NEW j \in JobIds, failed[j] \subseteq failed'[j],
           NEW q \in Questions, LiveOf(q) # {} \/ q \in failed[j]
    PROVE  LiveOf(q)' # {} \/ q \in failed'[j]
  BY LiveKept DEF RunInv

\* Only a worker's tick or its completion moves a counter, and a worker gives up
\* questions but never takes one back.
LEMMA CounterStep ==
    ASSUME TypeOK, [Next]_vars, NEW j \in JobIds
    PROVE  /\ failed[j] \subseteq failed'[j]
           /\ \/ completed'[j] = completed[j]
              \/ PassOver(j) \/ TickDrafted(j) \/ FailQuestion(j) \/ CompleteJob(j)
  <1> USE DEF TypeOK, vars, jobVars, workerVars, sessionVars
  <1>1. ASSUME NEW i \in JobIds, Worker(i), i # j
        PROVE  failed'[j] = failed[j] /\ completed'[j] = completed[j]
    BY <1>1 DEF Worker, BeginJob, LoadLiveAnswers, PassOver, StartDraft,
                PersistDraft, TickDrafted, FailQuestion, FinishDrafting, CompleteJob,
                AbortJob, LoseWorker, Tick, EndThread
  <1>2. CASE BeginJob(j) \/ LoadLiveAnswers(j) \/ StartDraft(j) \/ PersistDraft(j)
             \/ FinishDrafting(j) \/ AbortJob(j) \/ LoseWorker(j)
    BY <1>2 DEF BeginJob, LoadLiveAnswers, StartDraft, PersistDraft, FinishDrafting,
                AbortJob, LoseWorker, EndThread
  <1>3. CASE PassOver(j) \/ TickDrafted(j) \/ FailQuestion(j) \/ CompleteJob(j)
    <2>1. CASE FailQuestion(j)
      <3>1. failed'[j] = failed[j] \cup {pos[j]}
        BY <2>1 DEF FailQuestion
      <3> QED
        BY <2>1, <3>1
    <2>2. CASE PassOver(j) \/ TickDrafted(j) \/ CompleteJob(j)
      <3>1. failed'[j] = failed[j]
        BY <2>2 DEF PassOver, TickDrafted, CompleteJob, EndThread
      <3> QED
        BY <2>2, <3>1
    <2> QED
      BY <1>3, <2>1, <2>2
  <1>4. CASE \E i \in JobIds : Worker(i)
    BY <1>1, <1>2, <1>3, <1>4 DEF Worker
  <1>5. CASE UNCHANGED <<failed, completed>>
    BY <1>5
  <1> QED
    BY <1>4, <1>5, Steps
       DEF CheckNoActiveJob, CreateJob, Crash, SelectOrphans, EndThread,
           FailOrphans, SkipCleanup, ReviewAnswer

\* The question a worker's tick counts is answered or given up.
LEMMA TickEarned ==
    ASSUME RunInv, [Next]_vars, NEW j \in JobIds,
           PassOver(j) \/ TickDrafted(j) \/ FailQuestion(j),
           NEW q \in Questions, q = pos[j]
    PROVE  LiveOf(q)' # {} \/ q \in failed'[j]
  <1>1. CASE PassOver(j)
    <2>1. Unreached(j, q) /\ live[j][q] # None
      BY <1>1 DEF PassOver, AtQuestion, HasCurrent, Unreached, Questions
    <2>2. LiveOf(q) # {}
      BY <2>1 DEF RunInv, JobRows
    <2> QED
      BY <2>2, LiveKept DEF RunInv
  <1>2. CASE TickDrafted(j)
    <2>1. LiveOf(q) # {}
      BY <1>2 DEF RunInv, JobRows, TickDrafted
    <2> QED
      BY <2>1, LiveKept DEF RunInv
  <1>3. CASE FailQuestion(j)
    BY <1>3 DEF FailQuestion, RunInv, TypeOK
  <1> QED
    BY <1>1, <1>2, <1>3

\* Every step keeps the progress of every job earned.
LEMMA ProgressStep == RunInv /\ [Next]_vars => ProgressIsEarned'
  <1> SUFFICES ASSUME RunInv, [Next]_vars, NEW j \in JobIds, NEW q \in 1..completed'[j]
               PROVE  LiveOf(q)' # {} \/ q \in failed'[j]
    BY DEF ProgressIsEarned
  <1>1. TypeOK /\ ProgressIsEarned /\ JobPhase(j) /\ failed[j] \subseteq failed'[j]
    BY CounterStep DEF RunInv
  <1>2. completed[j] \in 0..NumQuestions /\ pos[j] \in 1..(NumQuestions + 1)
    BY <1>1 DEF TypeOK
  <1>3. ASSUME q \in 1..completed[j]
        PROVE  LiveOf(q)' # {} \/ q \in failed'[j]
    <2>1. q \in Questions
      BY <1>2, <1>3, NumQuestionsAssumption DEF Questions
    <2> QED
      BY <1>1, <1>3, <2>1, CountedStays DEF ProgressIsEarned
  <1>4. CASE completed'[j] = completed[j]
    BY <1>3, <1>4
  <1>5. CASE PassOver(j) \/ TickDrafted(j) \/ FailQuestion(j)
    <2>1. /\ pc[j] \in {"looping", "ticking", "drafting"} /\ pos[j] <= NumQuestions
          /\ completed'[j] = pos[j]
      BY <1>1, <1>5 DEF TypeOK, PassOver, TickDrafted, FailQuestion, Tick,
                        AtQuestion, JobPhase
    <2>2. pos[j] \in Questions /\ completed[j] = pos[j] - 1
      BY <1>1, <2>1, AtPosition DEF JobPhase
    <2>3. q = pos[j] \/ q \in 1..completed[j]
      BY <1>2, <2>1, <2>2, NumQuestionsAssumption
    <2> QED
      BY <1>3, <1>5, <2>2, <2>3, TickEarned
  <1>6. CASE CompleteJob(j)
    <2>1. completed'[j] = NumQuestions /\ completed[j] = pos[j] - 1
          /\ pos[j] = NumQuestions + 1
      BY <1>1, <1>6 DEF CompleteJob, TypeOK, JobPhase
    <2>2. completed'[j] = completed[j]
      BY <2>1, NumQuestionsAssumption
    <2> QED
      BY <1>3, <2>2
  <1> QED
    BY <1>1, <1>4, <1>5, <1>6, CounterStep

\* A job enters done only when its worker completes it.
LEMMA DoneStep ==
    ASSUME TypeOK, [Next]_vars, NEW j \in JobIds, job_status'[j] = "done"
    PROVE  \/ job_status[j] = "done" /\ error'[j] = error[j]
           \/ CompleteJob(j)
  <1> USE DEF TypeOK, vars, jobVars
  <1>1. ASSUME NEW i \in JobIds, Worker(i)
        PROVE  \/ job_status[j] = "done" /\ error'[j] = error[j]
               \/ CompleteJob(j)
    BY <1>1 DEF Worker, BeginJob, LoadLiveAnswers, PassOver, StartDraft,
                PersistDraft, TickDrafted, FailQuestion, FinishDrafting, CompleteJob,
                AbortJob, LoseWorker, Tick
  <1>2. ASSUME NEW p \in Procs, CreateJob(p, j) \/ FailOrphans(p)
        PROVE  job_status[j] = "done" /\ error'[j] = error[j]
    BY <1>2 DEF CreateJob, FailOrphans
  <1>3. ASSUME NEW p \in Procs, NEW i \in JobIds, CreateJob(p, i), i # j
        PROVE  job_status[j] = "done" /\ error'[j] = error[j]
    BY <1>3 DEF CreateJob
  <1>4. CASE UNCHANGED <<job_status, error>>
    BY <1>4
  <1> QED
    BY <1>1, <1>2, <1>3, <1>4, Steps
       DEF CheckNoActiveJob, Crash, SelectOrphans, SkipCleanup, ReviewAnswer

\* Every step keeps every question of a cleanly done job answered.
LEMMA AnsweredStep == RunInv /\ [Next]_vars => DoneMeansAnswered'
  <1> SUFFICES ASSUME RunInv, [Next]_vars, NEW j \in JobIds, NEW q \in Questions,
                      job_status'[j] = "done", error'[j] = "none"
               PROVE  LiveOf(q)' # {}
    BY DEF DoneMeansAnswered
  <1>1. SUFFICES LiveOf(q) # {}
    BY <1>1, LiveKept DEF RunInv
  <1>2. CASE job_status[j] = "done" /\ error'[j] = error[j]
    BY <1>2 DEF RunInv, DoneMeansAnswered
  <1>3. CASE CompleteJob(j)
    <2>1. failed[j] = {}
      BY <1>3 DEF CompleteJob, RunInv, TypeOK
    <2>2. pos[j] = NumQuestions + 1 /\ completed[j] = pos[j] - 1
      BY <1>3 DEF CompleteJob, RunInv, JobPhase
    <2>3. completed[j] = NumQuestions
      BY <2>2, NumQuestionsAssumption
    <2> QED
      BY <2>1, <2>3 DEF RunInv, ProgressIsEarned, Questions
  <1> QED
    BY <1>2, <1>3, DoneStep DEF RunInv

\* RunInv holds before any job exists ...
LEMMA RunInvInit == Init => RunInv
  <1> SUFFICES ASSUME Init
               PROVE  RunInv
    OBVIOUS
  <1>1. TypeOK
    BY TypeInit
  <1>2. ASSUME NEW j \in JobIds
        PROVE  JobPhase(j) /\ JobRows(j)
    <2>1. /\ pc[j] = "none" /\ pos[j] = 1 /\ completed[j] = 0
          /\ \A q \in Questions : row[q][j] = "absent"
      BY DEF Init
    <2> QED
      BY <2>1 DEF JobPhase, JobRows, Unreached
  <1>3. ProgressIsEarned /\ DoneMeansAnswered
    BY DEF Init, ProgressIsEarned, DoneMeansAnswered
  <1> QED
    BY <1>1, <1>2, <1>3 DEF RunInv

\* ... and every step of a process, a worker or a reviewer keeps it.
LEMMA RunInvStep == RunInv /\ [Next]_vars => RunInv'
  <1> SUFFICES ASSUME RunInv, [Next]_vars
               PROVE  RunInv'
    OBVIOUS
  <1>1. TypeOK'
    BY TypeStep DEF RunInv, JobPhase
  <1>2. \A j \in JobIds : JobPhase(j)'
    BY PhaseStep DEF RunInv
  <1>3. \A j \in JobIds : JobRows(j)'
    BY RowsStep DEF RunInv
  <1> QED
    BY <1>1, <1>2, <1>3, ProgressStep, AnsweredStep DEF RunInv

\* Whatever crashes, restarts, aborts or runs next to it, a job's row, thread,
\* map and answers stay consistent: RunInv, on which the theorems below rest.
THEOREM RunInvHolds == Spec => []RunInv
  BY RunInvInit, RunInvStep, PTL DEF Spec

\* With any number of jobs, processes, crashes and database errors, every column
\* and session variable keeps its type; no counter exceeds the total.
THEOREM TypeCorrect == Spec => []TypeOK
  <1>1. RunInv => TypeOK
    BY DEF RunInv
  <1> QED
    BY <1>1, RunInvHolds, PTL

\* The N of "N/total" only counts questions that are answered or given up, even
\* for the late worker of a job another process declared failed.
THEOREM ProgressEarned == Spec => []ProgressIsEarned
  <1>1. RunInv => ProgressIsEarned
    BY DEF RunInv
  <1> QED
    BY <1>1, RunInvHolds, PTL

\* A job that is done without an error message left every question answered.
THEOREM DoneAnswered == Spec => []DoneMeansAnswered
  <1>1. RunInv => DoneMeansAnswered
    BY DEF RunInv
  <1> QED
    BY <1>1, RunInvHolds, PTL

\* Failed, aborted, crashed or concurrent: no step of the system leaves a
\* question that had a live answer without one.
THEOREM LiveAnswersKept == Spec => LiveAnswerKept
  <1>1. RunInv /\ [Next]_vars =>
          [\A q \in Questions : LiveOf(q) # {} => LiveOf(q)' # {}]_vars
    BY LiveKept DEF RunInv
  <1> QED
    BY <1>1, RunInvHolds, PTL DEF Spec, LiveAnswerKept
-----------------------------------------------------------------------------
(* One process: the worker of the active job is the only worker.           *)

\* Two workers would be two active jobs.
LEMMA SoleWorker ==
    ASSUME OneWorkerInv, NEW i \in JobIds, NEW j \in JobIds, Working(i), Working(j)
    PROVE  i = j
  <1>1. i \in ActiveJobs /\ j \in ActiveJobs
    BY DEF OneWorkerInv, WorkersServe, ActiveJobs, ACTIVE_STATUSES
  <1> QED
    BY <1>1 DEF OneWorkerInv, OneActiveJob

\* While a worker runs, the only process is up, is not accepting a job and has no
\* orphans in hand, and the worker's job is the active one.
LEMMA WhileWorking ==
    ASSUME OneWorkerInv, NEW p, Procs = {p}, NEW j \in JobIds, Working(j)
    PROVE  /\ host[j] = p /\ proc[p] = "up" /\ creating[p] = "idle"
           /\ orphans[p] = {} /\ ActiveJobs = {j}
  <1>1. host[j] = p /\ proc[p] = "up"
    BY DEF OneWorkerInv, WorkersServe
  <1>2. j \in ActiveJobs
    BY DEF OneWorkerInv, WorkersServe, ActiveJobs, ACTIVE_STATUSES
  <1>3. ActiveJobs = {j}
    BY <1>2 DEF OneWorkerInv, OneActiveJob
  <1>4. creating[p] = "idle" /\ orphans[p] = {}
    BY <1>1, <1>2 DEF OneWorkerInv, ProcessesAgree
  <1> QED
    BY <1>1, <1>3, <1>4

\* Only a thread that has not ended takes a worker step.
LEMMA WorkerWorks ==
    ASSUME NEW j \in JobIds, Worker(j)
    PROVE  Working(j)
  BY DEF Worker, BeginJob, LoadLiveAnswers, PassOver, StartDraft, PersistDraft,
         TickDrafted, FailQuestion, FinishDrafting, CompleteJob, AbortJob, LoseWorker,
         AtQuestion, Working, Busy

\* A worker that goes on has the running row; one that ends leaves the row final
\* or as it was.
LEMMA WorkerStatus ==
    ASSUME TypeOK, WorkersServe, NEW j \in JobIds, Worker(j), Working(j)'
    PROVE  pc'[j] # "scheduled" /\ job_status'[j] = "running"
  <1> USE DEF TypeOK, Working, Busy, jobVars
  <1>1. CASE BeginJob(j)
    BY <1>1 DEF BeginJob
  <1>2. CASE CompleteJob(j) \/ AbortJob(j) \/ LoseWorker(j)
    BY <1>2 DEF CompleteJob, AbortJob, LoseWorker, EndThread
  <1>3. CASE LoadLiveAnswers(j) \/ PassOver(j) \/ StartDraft(j) \/ PersistDraft(j)
             \/ TickDrafted(j) \/ FailQuestion(j) \/ FinishDrafting(j)
    BY <1>3 DEF LoadLiveAnswers, PassOver, StartDraft, PersistDraft, TickDrafted,
                FailQuestion, FinishDrafting, Tick, AtQuestion, WorkersServe
  <1> QED
    BY <1>1, <1>2, <1>3 DEF Worker

\* A worker step keeps the bookkeeping of the only process.
LEMMA ServeWorker ==
    ASSUME TypeOK, OneWorkerInv, NEW p, Procs = {p}, NEW j \in JobIds, Worker(j)
    PROVE  (WorkersServe /\ ProcessesAgree /\ OneActiveJob)'
  <1>1. /\ host[j] = p /\ proc[p] = "up" /\ creating[p] = "idle"
        /\ orphans[p] = {} /\ ActiveJobs = {j}
    BY WorkerWorks, WhileWorking
  <1>2. /\ UNCHANGED <<host, proc, orphans, creating>>
        /\ \A i \in JobIds \ {j} : job_status'[i] = job_status[i] /\ pc'[i] = pc[i]
    BY WorkerFrame
  <1>3. ActiveJobs' \subseteq {j}
    BY <1>1, <1>2 DEF ActiveJobs
  <1>4. \A i \in JobIds \ {j} : ~Working(i)'
    <2>1. \A i \in JobIds \ {j} : ~Working(i)
      BY WorkerWorks, SoleWorker
    <2> QED
      BY <1>2, <2>1 DEF Working
  <1>5. Working(j)' => pc'[j] # "scheduled" /\ job_status'[j] = "running"
    BY WorkerStatus DEF OneWorkerInv
  <1>6. WorkersServe'
    BY <1>1, <1>2, <1>4, <1>5 DEF WorkersServe
  <1> QED
    BY <1>1, <1>2, <1>3, <1>6 DEF ProcessesAgree, OneActiveJob

\* Accepting a job happens while nothing is active.
LEMMA ServeCreate ==
    ASSUME TypeOK, OneWorkerInv, NEW p, Procs = {p}, NEW j \in JobIds, CreateJob(p, j)
    PROVE  (WorkersServe /\ ProcessesAgree /\ OneActiveJob)'
  <1> USE DEF jobVars, procVars
  <1>1. proc[p] = "up" /\ ActiveJobs = {} /\ orphans[p] = {}
    BY DEF CreateJob, OneWorkerInv, ProcessesAgree
  <1>2. \A i \in JobIds : ~Working(i)
    BY <1>1 DEF OneWorkerInv, WorkersServe, ActiveJobs, ACTIVE_STATUSES
  <1>3. /\ pc'[j] = "scheduled" /\ host'[j] = p /\ job_status'[j] = "pending"
        /\ \A i \in JobIds \ {j} : pc'[i] = pc[i] /\ job_status'[i] = job_status[i]
        /\ proc' = proc /\ orphans' = orphans /\ creating'[p] = "idle"
    BY DEF CreateJob, TypeOK
  <1>4. ActiveJobs' = {j}
    BY <1>1, <1>3 DEF ActiveJobs, ACTIVE_STATUSES
  <1>5. \A i \in JobIds \ {j} : ~Working(i)'
    BY <1>2, <1>3 DEF Working
  <1>6. WorkersServe'
    BY <1>1, <1>3, <1>5 DEF WorkersServe
  <1> QED
    BY <1>1, <1>3, <1>4, <1>6 DEF ProcessesAgree, OneActiveJob

\* A crash ends every worker, a restart finds none; the cleanup fails what is
\* active before the process accepts anything.
LEMMA ServeProcess ==
    ASSUME TypeOK, OneWorkerInv, NEW p, Procs = {p},
           Crash(p) \/ SelectOrphans(p) \/ FailOrphans(p) \/ SkipCleanup(p)
    PROVE  (WorkersServe /\ ProcessesAgree /\ OneActiveJob)'
  <1> USE DEF TypeOK, jobVars, workerVars, procVars
  <1>1. ProcessesAgree /\ WorkersServe /\ OneActiveJob
    BY DEF OneWorkerInv
  <1>2. proc[p] # "up" => (\A j \in JobIds : ~Working(j)) /\ creating[p] = "idle"
    BY <1>1 DEF WorkersServe, ProcessesAgree
  <1>3. CASE Crash(p)
    <2>1. \A j \in JobIds : ~Working(j)'
      <3> SUFFICES ASSUME NEW j \in JobIds, Working(j)'
                   PROVE  FALSE
        OBVIOUS
      <3>1. pc'[j] = pc[j] /\ ~(Working(j) /\ host[j] = p)
        BY <1>3 DEF Crash, EndThread, Working, Busy
      <3> QED
        BY <1>1, <3>1 DEF Working, WorkersServe
    <2>2. ActiveJobs' = ActiveJobs
      BY <1>3 DEF Crash, ActiveJobs
    <2> QED
      BY <1>1, <1>3, <2>1, <2>2 DEF Crash, WorkersServe, ProcessesAgree, OneActiveJob
  <1>4. CASE SelectOrphans(p) \/ SkipCleanup(p)
    <2>1. \A j \in JobIds : ~Working(j)'
      BY <1>2, <1>4 DEF SelectOrphans, SkipCleanup, Working
    <2>2. ActiveJobs' = ActiveJobs
      BY <1>4 DEF SelectOrphans, SkipCleanup, ActiveJobs
    <2> QED
      BY <1>1, <1>2, <1>4, <2>1, <2>2
         DEF SelectOrphans, SkipCleanup, WorkersServe, ProcessesAgree, OneActiveJob
  <1>5. CASE FailOrphans(p)
    <2>1. \A j \in JobIds : ~Working(j)'
      BY <1>2, <1>5 DEF FailOrphans, Working
    <2>2. orphans[p] = ActiveJobs
      BY <1>1, <1>5 DEF FailOrphans, ProcessesAgree
    <2>3. ActiveJobs' = {}
      BY <1>5, <2>2 DEF FailOrphans, ActiveJobs, ACTIVE_STATUSES
    <2> QED
      BY <1>2, <1>5, <2>1, <2>3 DEF FailOrphans, WorkersServe, ProcessesAgree, OneActiveJob
  <1> QED
    BY <1>3, <1>4, <1>5

\* With one process every step keeps the bookkeeping of jobs and workers.
LEMMA ServeStep ==
    ASSUME TypeOK, OneWorkerInv, NEW p, Procs = {p}, [Next]_vars
    PROVE  (WorkersServe /\ ProcessesAgree /\ OneActiveJob)'
  <1> USE DEF vars, jobVars, workerVars, procVars
  <1>1. ASSUME NEW regen \in BOOLEAN, CheckNoActiveJob(p, regen)
        PROVE  (WorkersServe /\ ProcessesAgree /\ OneActiveJob)'
    BY <1>1 DEF CheckNoActiveJob, OneWorkerInv, WorkersServe, ProcessesAgree,
                OneActiveJob, ActiveJobs, Working
  <1>2. CASE UNCHANGED <<job_status, pc, host, procVars>>
    BY <1>2 DEF OneWorkerInv, WorkersServe, ProcessesAgree, OneActiveJob, ActiveJobs,
                Working
  <1> QED
    BY <1>1, <1>2, ServeWorker, ServeCreate, ServeProcess, Steps DEF ReviewAnswer

\* With one process the map a worker loaded stays current: nobody else writes rows.
LEMMA MapStep ==
    ASSUME TypeOK, \A j \in JobIds : JobPhase(j), OneWorkerInv, NEW p, Procs = {p},
           [Next]_vars
    PROVE  MapIsCurrent'
  <1> SUFFICES ASSUME NEW j \in JobIds, NEW q \in Questions, Unreached(j, q)'
               PROVE  LiveOf(q)' = {live'[j][q]} \ {None}
    BY DEF MapIsCurrent
  <1> USE DEF vars, answerVars, workerVars, sessionVars
  <1>1. ASSUME row' = row, live'[j] = live[j], Unreached(j, q)
        PROVE  LiveOf(q)' = {live'[j][q]} \ {None}
    BY <1>1 DEF OneWorkerInv, MapIsCurrent, LiveOf
  <1>2. ASSUME NEW i \in JobIds, Worker(i), i # j
        PROVE  FALSE
    <2>1. Working(j)
      BY <1>2, WorkerFrame DEF Unreached, Working, Busy
    <2> QED
      BY <1>2, <2>1, WorkerWorks, SoleWorker
  <1>3. CASE LoadLiveAnswers(j)
    <2>1. PICK f \in [Questions -> JobIds \cup {None}] :
            /\ \A x \in Questions :
                  IF LiveOf(x) = {} THEN f[x] = None ELSE f[x] \in LiveOf(x)
            /\ live' = [live EXCEPT ![j] = f]
      BY <1>3 DEF LoadLiveAnswers
    <2>2. live'[j][q] = f[q] /\ LiveOf(q)' = LiveOf(q)
      BY <1>3, <2>1 DEF LoadLiveAnswers, TypeOK, LiveOf
    <2>3. LiveOf(q) = {f[q]} \ {None}
      BY <2>1, NoneAssumption DEF OneWorkerInv, OneLiveAnswer, LiveOf
    <2> QED
      BY <2>2, <2>3
  <1>4. CASE PassOver(j) \/ TickDrafted(j) \/ FailQuestion(j)
    <2>1. /\ pc[j] \in {"looping", "ticking", "drafting"}
          /\ pc'[j] = "looping" /\ pos'[j] = pos[j] + 1
          /\ row' = row /\ live' = live
      BY <1>4 DEF PassOver, TickDrafted, FailQuestion, Tick, AtQuestion, TypeOK
    <2>2. pos[j] \in Nat /\ q \in Nat
      BY NumQuestionsAssumption DEF TypeOK, Questions
    <2>3. q > pos[j]
      BY <2>1, <2>2 DEF Unreached
    <2>4. Unreached(j, q)
      BY <2>1, <2>2, <2>3 DEF Unreached
    <2> QED
      BY <1>1, <2>1, <2>4
  <1>5. CASE StartDraft(j)
    BY <1>1, <1>5 DEF StartDraft, AtQuestion, Unreached, TypeOK
  <1>6. CASE PersistDraft(j)
    <2>1. /\ pc[j] = "drafting" /\ pc'[j] = "ticking" /\ pos' = pos /\ live' = live
          /\ pos[j] <= NumQuestions
      BY <1>6 DEF PersistDraft, TypeOK, JobPhase
    <2>2. pos[j] \in Nat /\ q \in Nat
      BY NumQuestionsAssumption DEF TypeOK, Questions
    <2>3. q > pos[j] /\ Unreached(j, q)
      BY <2>1, <2>2 DEF Unreached
    <2>4. row'[q] = row[q]
      BY <1>6, <2>1, <2>2, <2>3, PersistEffect
    <2> QED
      BY <2>1, <2>3, <2>4 DEF OneWorkerInv, MapIsCurrent, LiveOf
  <1>7. CASE BeginJob(j) \/ FinishDrafting(j) \/ CompleteJob(j) \/ AbortJob(j)
             \/ LoseWorker(j)
    BY <1>7 DEF BeginJob, FinishDrafting, CompleteJob, AbortJob, LoseWorker, EndThread,
                Unreached, TypeOK
  <1>8. ASSUME NEW x \in Procs, NEW i \in JobIds, CreateJob(x, i)
        PROVE  LiveOf(q)' = {live'[j][q]} \ {None}
    BY <1>1, <1>8 DEF CreateJob, Unreached, TypeOK
  <1>9. ASSUME NEW x \in Procs, Crash(x)
        PROVE  LiveOf(q)' = {live'[j][q]} \ {None}
    BY <1>1, <1>9 DEF Crash, EndThread, Unreached, TypeOK
  <1>10. CASE UNCHANGED <<row, workerVars>>
    BY <1>1, <1>10 DEF Unreached
  <1> QED
    BY <1>2, <1>3, <1>4, <1>5, <1>6, <1>7, <1>8, <1>9, <1>10, Steps
       DEF Worker, CheckNoActiveJob, SelectOrphans, FailOrphans, SkipCleanup,
           ReviewAnswer

\* While the map is current, replacing what it names leaves one live answer.
LEMMA OneLiveStep ==
    ASSUME TypeOK, \A j \in JobIds : JobPhase(j), OneWorkerInv, [Next]_vars
    PROVE  OneLiveAnswer'
  <1>1. CASE row' = row
    BY <1>1 DEF OneWorkerInv, OneLiveAnswer, LiveOf
  <1>2. ASSUME NEW j \in JobIds, PersistDraft(j)
        PROVE  OneLiveAnswer'
    <2>1. pc[j] = "drafting" /\ pos[j] <= NumQuestions /\ pos[j] \in Questions
      BY <1>2, AtPosition DEF PersistDraft, JobPhase
    <2>2. Unreached(j, pos[j])
      BY <2>1 DEF Unreached, Questions
    <2>3. LiveOf(pos[j]) = {live[j][pos[j]]} \ {None}
      BY <2>1, <2>2 DEF OneWorkerInv, MapIsCurrent
    <2>4. \A k \in JobIds \ {j} : row'[pos[j]][k] # "live"
      BY <1>2, <2>1, <2>3, PersistEffect DEF LiveOf
    <2>5. \A q \in Questions \ {pos[j]} : row'[q] = row[q]
      BY <1>2, <2>1, PersistEffect
    <2> SUFFICES ASSUME NEW q \in Questions, NEW k \in JobIds, NEW m \in JobIds,
                        row'[q][k] = "live", row'[q][m] = "live"
                 PROVE  k = m
      BY DEF OneLiveAnswer, LiveOf
    <2>6. CASE q = pos[j]
      BY <2>4, <2>6
    <2>7. CASE q # pos[j]
      BY <2>5, <2>7 DEF OneWorkerInv, OneLiveAnswer, LiveOf
    <2> QED
      BY <2>6, <2>7
  <1> QED
    BY <1>1, <1>2, RowStep

\* OneWorkerInv is inductive for one process, next to RunInv.
LEMMA OneWorkerInit == Init => OneWorkerInv
  <1> SUFFICES ASSUME Init
               PROVE  OneWorkerInv
    OBVIOUS
  <1>1. \A j \in JobIds : ~Working(j) /\ \A q \in Questions : ~Unreached(j, q)
    BY DEF Init, Working, Busy, Unreached
  <1>2. ActiveJobs = {} /\ \A q \in Questions : LiveOf(q) = {}
    BY DEF Init, ActiveJobs, ACTIVE_STATUSES, LiveOf
  <1>3. \A p \in Procs : creating[p] = "idle" /\ orphans[p] = {}
    BY DEF Init
  <1> QED
    BY <1>1, <1>2, <1>3 DEF OneWorkerInv, WorkersServe, ProcessesAgree, OneActiveJob,
                            MapIsCurrent, OneLiveAnswer

\* With one process, its only worker is the worker of the only active job and
\* works on an up-to-date map: OneWorkerInv, on which the theorems below rest.
THEOREM OneWorkerHolds ==
    ASSUME SingleProcess
    PROVE  Spec => []OneWorkerInv
  <1> PICK p : Procs = {p}
    BY DEF SingleProcess
  <1>1. RunInv /\ OneWorkerInv /\ [Next]_vars => OneWorkerInv'
    BY ServeStep, MapStep, OneLiveStep DEF OneWorkerInv, RunInv
  <1> QED
    BY <1>1, RunInvHolds, OneWorkerInit, PTL DEF Spec

\* At most one live answer per question, for one process.
THEOREM OneLiveAnswerHolds ==
    ASSUME SingleProcess
    PROVE  Spec => []OneLiveAnswer
  <1>1. OneWorkerInv => OneLiveAnswer
    BY DEF OneWorkerInv
  <1> QED
    BY <1>1, OneWorkerHolds, PTL

\* At most one active job, for one process, although its check and its insert
\* are two steps and its startup fails jobs by a list it read before.
THEOREM OneActiveJobHolds ==
    ASSUME SingleProcess
    PROVE  Spec => []OneActiveJob
  <1>1. OneWorkerInv => OneActiveJob
    BY DEF OneWorkerInv
  <1> QED
    BY <1>1, OneWorkerHolds, PTL

\* While commits succeed, a thread that ends leaves a final row.
LEMMA WorkerSettles ==
    ASSUME TypeOK, ~CommitsMayFail, NEW j \in JobIds, Worker(j),
           job_status'[j] \in ACTIVE_STATUSES
    PROVE  Working(j)'
  <1> USE DEF TypeOK, Working, Busy
  <1>1. CASE CompleteJob(j) \/ AbortJob(j) \/ LoseWorker(j)
    BY <1>1 DEF CompleteJob, AbortJob, LoseWorker, ACTIVE_STATUSES
  <1>2. CASE BeginJob(j) \/ LoadLiveAnswers(j) \/ PassOver(j) \/ StartDraft(j)
             \/ PersistDraft(j) \/ TickDrafted(j) \/ FailQuestion(j) \/ FinishDrafting(j)
    BY <1>2 DEF BeginJob, LoadLiveAnswers, PassOver, StartDraft, PersistDraft,
                TickDrafted, FailQuestion, FinishDrafting, Tick
  <1> QED
    BY <1>1, <1>2 DEF Worker

\* Nothing but its end takes the worker of an active job away.
LEMMA WorkedStep ==
    ASSUME TypeOK, OneWorkerInv, ActiveJobIsWorked, ~CommitsMayFail, NEW p, Procs = {p},
           [Next]_vars
    PROVE  ActiveJobIsWorked'
  <1> SUFFICES ASSUME proc'[p] = "up", NEW j \in JobIds, job_status'[j] \in ACTIVE_STATUSES
               PROVE  Working(j)'
    BY DEF ActiveJobIsWorked, ActiveJobs
  <1> USE DEF vars, jobVars, workerVars, procVars
  <1>1. ASSUME NEW i \in JobIds, Worker(i)
        PROVE  Working(j)'
    <2>1. ActiveJobs = {i}
      BY <1>1, WorkerWorks, WhileWorking
    <2>2. i = j
      BY <1>1, <2>1, WorkerFrame DEF ActiveJobs
    <2> QED
      BY <1>1, <2>2, WorkerSettles
  <1>2. ASSUME NEW i \in JobIds, CreateJob(p, i)
        PROVE  Working(j)'
    <2>1. ActiveJobs = {}
      BY <1>2 DEF CreateJob, OneWorkerInv, ProcessesAgree
    <2>2. j = i
      BY <1>2, <2>1 DEF CreateJob, ActiveJobs, TypeOK
    <2> QED
      BY <1>2, <2>2 DEF CreateJob, TypeOK, Working, Busy
  <1>3. ~(Crash(p) \/ SelectOrphans(p) \/ SkipCleanup(p))
    BY DEF Crash, SelectOrphans, SkipCleanup, TypeOK
  <1>4. ~FailOrphans(p)
    <2> SUFFICES ASSUME FailOrphans(p) PROVE FALSE
      OBVIOUS
    <2>1. orphans[p] = ActiveJobs
      BY DEF FailOrphans, OneWorkerInv, ProcessesAgree
    <2> QED
      BY <2>1 DEF FailOrphans, ActiveJobs, ACTIVE_STATUSES
  <1>5. CASE UNCHANGED <<job_status, pc, proc>>
    BY <1>5 DEF ActiveJobIsWorked, ActiveJobs, Working
  <1> QED
    BY <1>1, <1>2, <1>3, <1>4, <1>5, Steps DEF CheckNoActiveJob, ReviewAnswer

\* No job is "forever-running": with one process and a database that takes its commits,
\* an active job has its worker whenever the process serves.
THEOREM ActiveJobsWorked ==
    ASSUME SingleProcess, ~CommitsMayFail
    PROVE  Spec => []ActiveJobIsWorked
  <1> PICK p : Procs = {p}
    BY DEF SingleProcess
  <1>1. Init => ActiveJobIsWorked
    BY DEF Init, ActiveJobIsWorked
  <1>2. RunInv /\ OneWorkerInv /\ ActiveJobIsWorked /\ [Next]_vars => ActiveJobIsWorked'
    BY WorkedStep DEF RunInv
  <1> QED
    BY <1>1, <1>2, RunInvHolds, OneWorkerHolds, PTL DEF Spec

\* Only the worker of an active job, the cleanup of an active job, or the creation
\* of a new one changes a job row, when one process runs.
LEMMA SettledStep ==
    ASSUME TypeOK, OneWorkerInv, NEW p, Procs = {p}, [Next]_vars,
           NEW j \in JobIds, job_status[j] \in FinalStatuses
    PROVE  UNCHANGED <<job_status[j], completed[j], error[j]>>
  <1> USE DEF vars, jobVars
  <1>1. j \notin ActiveJobs /\ j \notin Unused
    BY DEF ActiveJobs, ACTIVE_STATUSES, FinalStatuses, Unused
  <1>2. ASSUME NEW i \in JobIds, Worker(i)
        PROVE  UNCHANGED <<job_status[j], completed[j], error[j]>>
    <2>1. i # j
      BY <1>1, <1>2, WorkerWorks, WhileWorking
    <2> QED
      BY <1>2, <2>1, WorkerFrame
  <1>3. CASE FailOrphans(p)
    <2>1. j \notin orphans[p]
      BY <1>1, <1>3 DEF FailOrphans, OneWorkerInv, ProcessesAgree
    <2> QED
      BY <1>3, <2>1 DEF FailOrphans
  <1>4. ASSUME NEW i \in JobIds, CreateJob(p, i)
        PROVE  UNCHANGED <<job_status[j], completed[j], error[j]>>
    BY <1>1, <1>4 DEF CreateJob, TypeOK
  <1> QED
    BY <1>2, <1>3, <1>4, Steps
       DEF CheckNoActiveJob, Crash, SelectOrphans, SkipCleanup, ReviewAnswer

\* A job that is done or failed is never written again, for one process.
THEOREM SettledJobsKept ==
    ASSUME SingleProcess
    PROVE  Spec => SettledJobKept
  <1> PICK p : Procs = {p}
    BY DEF SingleProcess
  <1>1. RunInv /\ OneWorkerInv /\ [Next]_vars =>
          [\A j \in JobIds : job_status[j] \in FinalStatuses =>
              UNCHANGED <<job_status[j], completed[j], error[j]>>]_vars
    BY SettledStep DEF RunInv
  <1> QED
    BY <1>1, RunInvHolds, OneWorkerHolds, PTL DEF Spec, SettledJobKept

-----------------------------------------------------------------------------
(* Refinement, for one process.                                            *)

\* Every step of the jobs table is a step of the job lifecycle or a stutter.
LEMMA LifecycleStep ==
    ASSUME TypeOK, OneWorkerInv, NEW p, Procs = {p}, [Next]_vars
    PROVE  [Lifecycle!Next]_job_status
  <1> USE DEF TypeOK, vars, jobVars, Lifecycle!Next
  <1>1. ASSUME NEW j \in JobIds, Worker(j)
        PROVE  [Lifecycle!Next]_job_status
    <2>1. Working(j) /\ ActiveJobs = {j}
      BY <1>1, WorkerWorks, WhileWorking
    <2>2. j \in ActiveJobs /\ WorkersServe
      BY <2>1 DEF OneWorkerInv
    <2>3. CASE BeginJob(j)
      <3>1. job_status[j] = "pending"
        BY <2>1, <2>2, <2>3 DEF BeginJob, WorkersServe
      <3>2. Lifecycle!Run(j)
        BY <2>3, <3>1 DEF BeginJob, Lifecycle!Run
      <3> QED
        BY <3>2
    <2>4. CASE CompleteJob(j)
      <3>1. job_status[j] = "running"
        BY <2>1, <2>2, <2>4 DEF CompleteJob, WorkersServe
      <3>2. Lifecycle!Settle(j)
        BY <2>4, <3>1 DEF CompleteJob, Lifecycle!Settle
      <3> QED
        BY <3>2
    <2>5. CASE AbortJob(j)
      <3>1. Lifecycle!Settle(j)
        BY <2>2, <2>5 DEF AbortJob, Lifecycle!Settle, Lifecycle!Active, ActiveJobs,
                          ACTIVE_STATUSES
      <3> QED
        BY <3>1
    <2>6. CASE job_status' = job_status
      BY <2>6
    <2> QED
      BY <1>1, <2>3, <2>4, <2>5, <2>6
         DEF Worker, LoadLiveAnswers, PassOver, StartDraft, PersistDraft, TickDrafted,
             FailQuestion, FinishDrafting, LoseWorker
  <1>2. ASSUME NEW j \in JobIds, CreateJob(p, j)
        PROVE  [Lifecycle!Next]_job_status
    <2>1. ActiveJobs = {}
      BY <1>2 DEF CreateJob, OneWorkerInv, ProcessesAgree
    <2>2. Lifecycle!Accept(j)
      BY <1>2, <2>1 DEF CreateJob, Unused, Lifecycle!Accept, Lifecycle!Active,
                        ActiveJobs, ACTIVE_STATUSES
    <2> QED
      BY <2>2
  <1>3. CASE FailOrphans(p)
    <2>1. orphans[p] = ActiveJobs
      BY <1>3 DEF FailOrphans, OneWorkerInv, ProcessesAgree
    <2>2. CASE ActiveJobs = {}
      BY <1>3, <2>1, <2>2 DEF FailOrphans
    <2>3. ASSUME NEW j \in ActiveJobs
          PROVE  Lifecycle!Settle(j)
      <3>1. ActiveJobs = {j}
        BY DEF OneWorkerInv, OneActiveJob
      <3>2. job_status' = [job_status EXCEPT ![j] = "failed"]
        BY <1>3, <2>1, <3>1 DEF FailOrphans
      <3> QED
        BY <3>2 DEF Lifecycle!Settle, Lifecycle!Active, ActiveJobs, ACTIVE_STATUSES
    <2> QED
      BY <2>2, <2>3 DEF ActiveJobs
  <1>4. CASE UNCHANGED job_status
    BY <1>4
  <1> QED
    BY <1>1, <1>2, <1>3, <1>4, Steps
       DEF CheckNoActiveJob, Crash, SelectOrphans, SkipCleanup, ReviewAnswer

\* The jobs table of one process implements the lifecycle users are promised: a job
\* goes from pending over running to done or failed, one active job at a time.
THEOREM JobsRefineLifecycle ==
    ASSUME SingleProcess
    PROVE  Spec => JobLifecycleSpec
  <1> PICK p : Procs = {p}
    BY DEF SingleProcess
  <1>1. Init => Lifecycle!Init
    BY DEF Init, Lifecycle!Init
  <1>2. RunInv /\ OneWorkerInv /\ [Next]_vars => [Lifecycle!Next]_job_status
    BY LifecycleStep DEF RunInv
  <1> QED
    BY <1>1, <1>2, RunInvHolds, OneWorkerHolds, PTL
       DEF Spec, JobLifecycleSpec, Lifecycle!Spec

\* Every step of the answers table is a step of the history of versions.
LEMMA HistoryStep ==
    ASSUME TypeOK, \A j \in JobIds : JobPhase(j) /\ JobRows(j), OneWorkerInv, [Next]_vars
    PROVE  [History!Next]_answerVars
  <1> USE DEF answerVars, vars, History!Next
  <1>1. ASSUME NEW j \in JobIds, PersistDraft(j)
        PROVE  History!Next
    <2> DEFINE q == pos[j]
    <2>1. pc[j] = "drafting" /\ q <= NumQuestions /\ q \in Questions
      BY <1>1, AtPosition DEF PersistDraft, JobPhase
    <2>2. Unreached(j, q)
      BY <2>1 DEF Unreached, Questions
    <2>3. LiveOf(q) = {live[j][q]} \ {None} /\ row[q][j] = "absent"
      BY <2>1, <2>2 DEF OneWorkerInv, MapIsCurrent, JobRows
    <2>4. review_status' = [review_status EXCEPT ![q][j] = "pending"]
      BY <1>1 DEF PersistDraft
    <2>5. CASE LiveOf(q) = {}
      <3>1. row' = [row EXCEPT ![q][j] = "live"]
        <4>1. live[j][q] = None
          BY <2>3, <2>5
        <4>2. [k \in JobIds |-> IF k = j THEN "live"
                 ELSE IF k = live[j][q] THEN "superseded" ELSE row[q][k]]
                = [row[q] EXCEPT ![j] = "live"]
          BY <2>1, <4>1, NoneAssumption DEF TypeOK
        <4> QED
          BY <1>1, <2>1, <4>2 DEF PersistDraft, TypeOK
      <3>2. History!Answer(q, j)
        BY <2>3, <2>4, <2>5, <3>1 DEF History!Answer, LiveOf
      <3> QED
        BY <2>1, <3>2
    <2>6. ASSUME NEW old \in LiveOf(q)
          PROVE  History!Replace(q, old, j)
      <3>1. old = live[j][q] /\ old \in JobIds /\ row[q][old] = "live" /\ old # j
        BY <2>3 DEF LiveOf
      <3>2. [k \in JobIds |-> IF k = j THEN "live"
               ELSE IF k = live[j][q] THEN "superseded" ELSE row[q][k]]
              = [row[q] EXCEPT ![old] = "superseded", ![j] = "live"]
        BY <2>1, <3>1 DEF TypeOK
      <3>3. row' = [row EXCEPT ![q] = [@ EXCEPT ![old] = "superseded", ![j] = "live"]]
        BY <1>1, <2>1, <3>2 DEF PersistDraft, TypeOK
      <3> QED
        BY <2>3, <2>4, <3>1, <3>3 DEF History!Replace
    <2> QED
      BY <2>1, <2>5, <2>6 DEF LiveOf
  <1>2. ASSUME NEW q \in Questions, NEW k \in JobIds, NEW action \in ReviewActions,
               ReviewAnswer(q, k, action)
        PROVE  History!Next
    <2>1. History!Decide(q, k, ACTION_STATUS[action])
      BY <1>2, ActionType DEF ReviewAnswer, History!Decide
    <2> QED
      BY <2>1, ActionType
  <1>3. ASSUME NEW j \in JobIds, Worker(j)
        PROVE  PersistDraft(j) \/ UNCHANGED answerVars
    BY <1>3 DEF Worker, BeginJob, LoadLiveAnswers, PassOver, StartDraft, TickDrafted,
                FailQuestion, FinishDrafting, CompleteJob, AbortJob, LoseWorker
  <1> QED
    BY <1>1, <1>2, <1>3, Steps
       DEF CheckNoActiveJob, CreateJob, Crash, SelectOrphans, FailOrphans, SkipCleanup,
           History!vars

\* The answers table one process writes implements the history: nothing is deleted
\* or revived, and a version is replaced by its successor in one step.
THEOREM AnswersRefineHistory ==
    ASSUME SingleProcess
    PROVE  Spec => AnswerHistorySpec
  <1>1. Init => History!Init
    BY DEF Init, History!Init
  <1>2. RunInv /\ OneWorkerInv /\ [Next]_vars => [History!Next]_answerVars
    BY HistoryStep DEF RunInv
  <1> QED
    BY <1>1, <1>2, RunInvHolds, OneWorkerHolds, PTL
       DEF Spec, AnswerHistorySpec, History!Spec, History!vars, answerVars

-----------------------------------------------------------------------------
(* Human decisions, for any number of processes.                           *)

\* A worker that is drafting over an answer saw it undecided when it started.
SawUndecided ==
    \A j \in JobIds : pc[j] = "drafting" /\ live[j][pos[j]] # None =>
        cached[j][pos[j]] \notin PROTECTED_STATUSES

\* Every step keeps what a drafting worker saw.
LEMMA SawStep == RunInv /\ SawUndecided /\ [Next]_vars => SawUndecided'
  <1> SUFFICES ASSUME RunInv, SawUndecided, [Next]_vars, NEW j \in JobIds,
                      pc'[j] = "drafting", live'[j][pos'[j]] # None
               PROVE  cached'[j][pos'[j]] \notin PROTECTED_STATUSES
    BY DEF SawUndecided
  <1> USE DEF vars, workerVars, sessionVars
  <1>1. TypeOK
    BY DEF RunInv
  <1>2. ASSUME pc[j] = "drafting",
               UNCHANGED <<pos[j], live[j], cached[j]>>
        PROVE  cached'[j][pos'[j]] \notin PROTECTED_STATUSES
    BY <1>2 DEF SawUndecided
  <1>3. CASE StartDraft(j)
    <2>1. pos[j] \in Questions /\ HasCurrent(j) /\ pos' = pos /\ live' = live
      BY <1>1, <1>3, AtPosition DEF StartDraft, AtQuestion, HasCurrent
    <2>2. SeenStatus(j) \notin PROTECTED_STATUSES
      BY <1>3, <2>1 DEF StartDraft
    <2>3. cached'[j][pos[j]] = SeenStatus(j)
      BY <1>1, <1>3, <2>1 DEF StartDraft, TypeOK
    <2> QED
      BY <2>1, <2>2, <2>3
  <1>4. ASSUME Worker(j), ~StartDraft(j)
        PROVE  FALSE
    BY <1>1, <1>4 DEF Worker, BeginJob, LoadLiveAnswers, PassOver, PersistDraft,
       TickDrafted, FailQuestion, FinishDrafting, CompleteJob, AbortJob, LoseWorker,
       Tick, EndThread, TypeOK
  <1>5. ASSUME NEW i \in JobIds, Worker(i), i # j
        PROVE  pc[j] = "drafting" /\ UNCHANGED <<pos[j], live[j], cached[j]>>
    BY <1>1, <1>5 DEF Worker, BeginJob, LoadLiveAnswers, PassOver, StartDraft,
       PersistDraft, TickDrafted, FailQuestion, FinishDrafting, CompleteJob, AbortJob,
       LoseWorker, Tick, EndThread, TypeOK
  <1>6. ASSUME NEW p \in Procs, NEW i \in JobIds, CreateJob(p, i)
        PROVE  pc[j] = "drafting" /\ UNCHANGED <<pos[j], live[j], cached[j]>>
    BY <1>1, <1>6 DEF CreateJob, TypeOK
  <1>7. ASSUME NEW p \in Procs, Crash(p)
        PROVE  pc[j] = "drafting" /\ UNCHANGED <<pos[j], live[j], cached[j]>>
    BY <1>1, <1>7 DEF Crash, EndThread, TypeOK
  <1>8. CASE UNCHANGED workerVars
    BY <1>2, <1>8
  <1> QED
    BY <1>2, <1>3, <1>4, <1>5, <1>6, <1>7, <1>8, Steps
       DEF CheckNoActiveJob, SelectOrphans, FailOrphans, SkipCleanup, ReviewAnswer

\* The row a step supersedes is the one a drafting worker saw undecided.
LEMMA SupersededStale ==
    ASSUME RunInv, SawUndecided, [Next]_vars, NEW q \in Questions, NEW k \in LiveOf(q),
           row'[q][k] # "live"
    PROVE  \E j \in JobIds : /\ pc[j] = "drafting" /\ pos[j] = q
                             /\ cached[j][q] \notin PROTECTED_STATUSES
  <1>1. k \in JobIds /\ row[q][k] = "live"
    BY DEF LiveOf
  <1>2. PICK j \in JobIds : PersistDraft(j)
    BY <1>1, RowStep
  <1>3. pc[j] = "drafting" /\ pos[j] <= NumQuestions
    BY <1>2 DEF PersistDraft, RunInv, JobPhase
  <1>4. pos[j] = q /\ live[j][q] = k
    BY <1>1, <1>2, <1>3, PersistEffect DEF RunInv
  <1>5. live[j][q] # None
    BY <1>1, <1>4, NoneAssumption
  <1> QED
    BY <1>3, <1>4, <1>5 DEF SawUndecided

\* However many processes draft, an approved or edited answer is only superseded by
\* a run that had looked at it before the human decided.
THEOREM DecisionsOnlyLostToStaleRuns == Spec => ProtectedUnlessStale
  <1>1. Init => SawUndecided
    BY DEF Init, SawUndecided
  <1>2. RunInv /\ SawUndecided /\ [Next]_vars =>
          [\A q \in Questions : \A k \in LiveOf(q) :
             review_status[q][k] \in PROTECTED_STATUSES /\ row'[q][k] # "live" =>
                \E j \in JobIds :
                    /\ pc[j] = "drafting" /\ pos[j] = q
                    /\ cached[j][q] \notin PROTECTED_STATUSES]_vars
    BY SupersededStale
  <1> QED
    BY <1>1, <1>2, SawStep, RunInvHolds, PTL DEF Spec, ProtectedUnlessStale
=============================================================================
