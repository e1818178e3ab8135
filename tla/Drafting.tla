------------------------------ MODULE Drafting ------------------------------
(***************************************************************************)
(* Background draft generation for one questionnaire of one organisation:  *)
(* the generation_jobs table, the in-process workers that fill the answers *)
(* table question by question, the processes that host them and the        *)
(* reviewers who meanwhile decide on answers                               *)
(* (questionnaires/jobs.py, generate_drafts in questionnaires/service.py,  *)
(* the start_generation route and the startup hook of main.py).            *)
(*                                                                         *)
(* Everything a commit makes visible is one action; everything a session   *)
(* loaded and keeps (autoflush and expire_on_commit are off) is a variable *)
(* of the worker, so a decision can be taken on what was read long ago.    *)
(*                                                                         *)
(* Each job drafts a question at most once, so the answer row job k wrote  *)
(* for question q is named by the pair: row[q][k], review_status[q][k].    *)
(***************************************************************************)
EXTENDS Naturals, FiniteSets

CONSTANTS
    NumQuestions,        \* questions of the questionnaire, in row_index order
    MaxGenerationBatch,  \* settings.max_generation_batch
    JobIds,              \* jobs that may be created: the bound of the model
    Procs,               \* application processes sharing the database
    ReviewActions,       \* the reviewer actions taken (all of them, or fewer)
    CommitsMayFail,      \* the database may refuse a commit or a select
    None                 \* "no job" / "no process"

ASSUME NumQuestionsAssumption == NumQuestions \in Nat
ASSUME MaxGenerationBatchAssumption == MaxGenerationBatch \in Nat
ASSUME CommitsMayFailAssumption == CommitsMayFail \in BOOLEAN
ASSUME NoneAssumption == None \notin JobIds /\ None \notin Procs

VARIABLES
    job_status,     \* generation_jobs.status, "none" while there is no such row
    completed,      \* generation_jobs.completed
    error,          \* generation_jobs.error
    row,            \* answers: absent, live (superseded_at NULL) or superseded
    review_status,  \* answers.review_status
    questionnaire,  \* questionnaires.status
    pc,             \* where the worker thread of a job is
    host,           \* the process that runs it
    regenerate,     \* the flag the job was started with
    pos,            \* the row_index it is at (the loop of generate_drafts)
    live,           \* its `live` map: per question the job that drafted it
    cached,         \* review_status as loaded in its session, per question
    expired,        \* a rollback has expired the objects of its session
    failed,         \* questions it could not draft
    proc,           \* state of each process
    orphans,        \* jobs a starting process selected as left over
    creating        \* a start_generation request past its check, per process

jobVars == <<job_status, completed, error>>
answerVars == <<row, review_status>>
sessionVars == <<live, cached, expired, failed>>
workerVars == <<pc, host, regenerate, pos, sessionVars>>
procVars == <<proc, orphans, creating>>
vars == <<jobVars, answerVars, questionnaire, workerVars, procVars>>

-----------------------------------------------------------------------------

Questions == 1..NumQuestions

ACTION_STATUS == [approve          |-> "approved",
                  edit             |-> "edited",
                  reject           |-> "rejected",
                  request_evidence |-> "needs_evidence",
                  save_to_library  |-> "approved"]
REVIEW_ACTIONS == DOMAIN ACTION_STATUS
ASSUME ReviewActionsAssumption == ReviewActions \subseteq REVIEW_ACTIONS
ReviewStatuses == {"pending", "approved", "edited", "rejected", "needs_evidence"}
PROTECTED_STATUSES == {"approved", "edited"}

ACTIVE_STATUSES == {"pending", "running"}
FinalStatuses == {"done", "failed"}
JobStatuses == {"none"} \cup ACTIVE_STATUSES \cup FinalStatuses
Errors == {"none", "interrupted by restart", "generation failed",
           "could not be drafted"}

Busy == {"scheduled", "loading", "looping", "drafting", "ticking", "closing"}
PCs == {"none", "exited"} \cup Busy

ActiveJobs == {j \in JobIds : job_status[j] \in ACTIVE_STATUSES}
Unused == {j \in JobIds : job_status[j] = "none"}
LiveOf(q) == {k \in JobIds : row[q][k] = "live"}
Working(j) == pc[j] \in Busy

NothingLive == [q \in Questions |-> None]
NothingCached == [q \in Questions |-> "pending"]

Init ==
    /\ job_status = [j \in JobIds |-> "none"]
    /\ completed = [j \in JobIds |-> 0]
    /\ error = [j \in JobIds |-> "none"]
    /\ row = [q \in Questions |-> [k \in JobIds |-> "absent"]]
    /\ review_status = [q \in Questions |-> [k \in JobIds |-> "pending"]]
    /\ questionnaire = "uploaded"
    /\ pc = [j \in JobIds |-> "none"]
    /\ host = [j \in JobIds |-> None]
    /\ regenerate = [j \in JobIds |-> FALSE]
    /\ pos = [j \in JobIds |-> 1]
    /\ live = [j \in JobIds |-> NothingLive]
    /\ cached = [j \in JobIds |-> NothingCached]
    /\ expired = [j \in JobIds |-> FALSE]
    /\ failed = [j \in JobIds |-> {}]
    /\ proc = [p \in Procs |-> "down"]
    /\ orphans = [p \in Procs |-> {}]
    /\ creating = [p \in Procs |-> "idle"]

-----------------------------------------------------------------------------
(* Starting a job: POST /questionnaires/{id}/generate.  The route is a     *)
(* coroutine without an await, so one process handles one such request at  *)
(* a time, but its SELECT and its COMMIT are two steps for everybody else. *)

\* Mutant: only a running job counts as active.
CheckNoRunningJob(p, regen) ==
    /\ proc[p] = "up"
    /\ creating[p] = "idle"
    /\ NumQuestions <= MaxGenerationBatch
    /\ \A j \in JobIds : job_status[j] # "running"
    /\ Cardinality({x \in Procs : creating[x] # "idle"}) < Cardinality(Unused)
    /\ creating' = [creating EXCEPT ![p] = IF regen THEN "redraft" ELSE "draft"]
    /\ UNCHANGED <<jobVars, answerVars, questionnaire, workerVars, proc, orphans>>

\* create_generation_job up to the ConcurrentJobError test; a refused request
\* changes nothing.  JobIds bounds the requests that get past the test.
CheckNoActiveJob(p, regen) ==
    /\ proc[p] = "up"
    /\ creating[p] = "idle"
    /\ NumQuestions <= MaxGenerationBatch
    /\ ActiveJobs = {}
    /\ Cardinality({x \in Procs : creating[x] # "idle"}) < Cardinality(Unused)
    /\ creating' = [creating EXCEPT ![p] = IF regen THEN "redraft" ELSE "draft"]
    /\ UNCHANGED <<jobVars, answerVars, questionnaire, workerVars, proc, orphans>>

\* The pending row is committed and its worker scheduled on the event loop.
CreateJob(p, j) ==
    /\ creating[p] # "idle"
    /\ j \in Unused
    /\ job_status' = [job_status EXCEPT ![j] = "pending"]
    /\ pc' = [pc EXCEPT ![j] = "scheduled"]
    /\ host' = [host EXCEPT ![j] = p]
    /\ regenerate' = [regenerate EXCEPT ![j] = (creating[p] = "redraft")]
    /\ creating' = [creating EXCEPT ![p] = "idle"]
    /\ UNCHANGED <<completed, error, answerVars, questionnaire, pos,
                   sessionVars, proc, orphans>>

-----------------------------------------------------------------------------
(* The worker: run_job, _execute_job and generate_drafts.                  *)

\* run_job opens its session, loads the job and commits status running,
\* whatever the row says by now.
BeginJob(j) ==
    /\ pc[j] = "scheduled"
    /\ job_status' = [job_status EXCEPT ![j] = "running"]
    /\ pc' = [pc EXCEPT ![j] = "loading"]
    /\ UNCHANGED <<completed, error, answerVars, questionnaire, host,
                   regenerate, pos, sessionVars, procVars>>

\* generate_drafts reads the live answer of every question, once.
LoadLiveAnswers(j) ==
    /\ pc[j] = "loading"
    /\ \E f \in [Questions -> JobIds \cup {None}] :
        /\ \A q \in Questions :
              IF LiveOf(q) = {} THEN f[q] = None ELSE f[q] \in LiveOf(q)
        /\ live' = [live EXCEPT ![j] = f]
        /\ cached' = [cached EXCEPT ![j] = [q \in Questions |->
                        IF f[q] = None THEN "pending" ELSE review_status[q][f[q]]]]
    /\ pc' = [pc EXCEPT ![j] = "looping"]
    /\ UNCHANGED <<jobVars, answerVars, questionnaire, host, regenerate, pos,
                   expired, failed, procVars>>

\* current.review_status: the value loaded with the map, unless a rollback has
\* expired the object, in which case the attribute is read again.
SeenStatus(j) ==
    LET q == pos[j]
    IN  IF expired[j] /\ live[j][q] # None
        THEN review_status[q][live[j][q]] ELSE cached[j][q]

\* _tick: one more question processed, committed to the job row.
Tick(j) ==
    /\ completed' = [completed EXCEPT ![j] = pos[j]]
    /\ pos' = [pos EXCEPT ![j] = @ + 1]
    /\ pc' = [pc EXCEPT ![j] = "looping"]

AtQuestion(j) == pc[j] = "looping" /\ pos[j] <= NumQuestions
HasCurrent(j) == live[j][pos[j]] # None

\* Already drafted and not a regenerate run, or human-finalised: left alone.
PassOver(j) ==
    /\ AtQuestion(j)
    /\ HasCurrent(j)
    /\ regenerate[j] => SeenStatus(j) \in PROTECTED_STATUSES
    /\ Tick(j)
    /\ UNCHANGED <<job_status, error, answerVars, questionnaire, host,
                   regenerate, sessionVars, procVars>>

\* Mutant: a regenerate run replaces whatever is there.
StartDraftRegardless(j) ==
    /\ AtQuestion(j)
    /\ HasCurrent(j) => regenerate[j]
    /\ pc' = [pc EXCEPT ![j] = "drafting"]
    /\ cached' = [cached EXCEPT ![j][pos[j]] = SeenStatus(j)]
    /\ UNCHANGED <<jobVars, answerVars, questionnaire, host, regenerate, pos,
                   live, expired, failed, procVars>>

\* generate_answer starts: seconds to minutes of retrieval and model calls.
StartDraft(j) ==
    /\ AtQuestion(j)
    /\ HasCurrent(j) => regenerate[j] /\ SeenStatus(j) \notin PROTECTED_STATUSES
    /\ pc' = [pc EXCEPT ![j] = "drafting"]
    /\ cached' = [cached EXCEPT ![j][pos[j]] = SeenStatus(j)]
    /\ UNCHANGED <<jobVars, answerVars, questionnaire, host, regenerate, pos,
                   live, expired, failed, procVars>>

\* Mutant: the new answer is inserted next to the prior draft.
PersistBeside(j) ==
    LET q == pos[j]
    IN  /\ pc[j] = "drafting"
        /\ row' = [row EXCEPT ![q][j] = "live"]
        /\ review_status' = [review_status EXCEPT ![q][j] = "pending"]
        /\ pc' = [pc EXCEPT ![j] = "ticking"]
        /\ UNCHANGED <<jobVars, questionnaire, host, regenerate, pos,
                       sessionVars, procVars>>

\* The draft is persisted: the row the map names is superseded (by id,
\* whatever it has become) and the new answer inserted, in one commit.
PersistDraft(j) ==
    LET q == pos[j]
    IN  /\ pc[j] = "drafting"
        /\ row' = [row EXCEPT ![q] = [k \in JobIds |->
                      IF k = j THEN "live"
                      ELSE IF k = live[j][q] THEN "superseded" ELSE row[q][k]]]
        /\ review_status' = [review_status EXCEPT ![q][j] = "pending"]
        /\ pc' = [pc EXCEPT ![j] = "ticking"]
        /\ UNCHANGED <<jobVars, questionnaire, host, regenerate, pos,
                       sessionVars, procVars>>

TickDrafted(j) ==
    /\ pc[j] = "ticking"
    /\ Tick(j)
    /\ UNCHANGED <<job_status, error, answerVars, questionnaire, host,
                   regenerate, sessionVars, procVars>>

\* Mutant: the question that could not be drafted is not counted.
FailQuestionUncounted(j) ==
    /\ pc[j] = "drafting"
    /\ expired' = [expired EXCEPT ![j] = TRUE]
    /\ Tick(j)
    /\ UNCHANGED <<job_status, error, answerVars, questionnaire, host,
                   regenerate, live, cached, failed, procVars>>

\* generate_answer raised: roll back, which expires the whole session, and go on.
FailQuestion(j) ==
    /\ pc[j] = "drafting"
    /\ failed' = [failed EXCEPT ![j] = @ \cup {pos[j]}]
    /\ expired' = [expired EXCEPT ![j] = TRUE]
    /\ Tick(j)
    /\ UNCHANGED <<job_status, error, answerVars, questionnaire, host,
                   regenerate, live, cached, procVars>>

\* The thread ends and its session is closed.
EndThread(Ending) ==
    /\ pc' = [j \in JobIds |-> IF j \in Ending THEN "exited" ELSE pc[j]]
    /\ live' = [j \in JobIds |-> IF j \in Ending THEN NothingLive ELSE live[j]]
    /\ cached' = [j \in JobIds |-> IF j \in Ending THEN NothingCached ELSE cached[j]]
    /\ expired' = [j \in JobIds |-> j \notin Ending /\ expired[j]]
    /\ UNCHANGED <<host, regenerate, pos, failed>>

\* After the last question the questionnaire moves to in_review.
FinishDrafting(j) ==
    /\ pc[j] = "looping" /\ pos[j] > NumQuestions
    /\ questionnaire' = "in_review"
    /\ pc' = [pc EXCEPT ![j] = "closing"]
    /\ UNCHANGED <<jobVars, answerVars, host, regenerate, pos, sessionVars,
                   procVars>>

\* Mutant: the result's "failed" count is ignored.
CompleteJobSilently(j) ==
    /\ pc[j] = "closing"
    /\ job_status' = [job_status EXCEPT ![j] = "done"]
    /\ completed' = [completed EXCEPT ![j] = NumQuestions]
    /\ EndThread({j})
    /\ UNCHANGED <<error, answerVars, questionnaire, procVars>>

\* _execute_job lands the job in done; the thread ends.
CompleteJob(j) ==
    /\ pc[j] = "closing"
    /\ job_status' = [job_status EXCEPT ![j] = "done"]
    /\ completed' = [completed EXCEPT ![j] = NumQuestions]
    /\ error' = [error EXCEPT ![j] = IF failed[j] = {} THEN @
                                     ELSE "could not be drafted"]
    /\ EndThread({j})
    /\ UNCHANGED <<answerVars, questionnaire, procVars>>

\* An exception outside the per-question try (persist_answer, a commit): the
\* handler of _execute_job rolls back and lands the job in failed.
AbortJob(j) ==
    /\ pc[j] \in {"loading", "looping", "drafting", "ticking"}
    /\ job_status' = [job_status EXCEPT ![j] = "failed"]
    /\ error' = [error EXCEPT ![j] = "generation failed"]
    /\ EndThread({j})
    /\ UNCHANGED <<completed, answerVars, questionnaire, procVars>>

\* A database error in run_job's load, in the first or the last commit, or in
\* the handler's own commit ends the thread and leaves the job row as it is.
LoseWorker(j) ==
    /\ CommitsMayFail
    /\ Working(j)
    /\ EndThread({j})
    /\ UNCHANGED <<jobVars, answerVars, questionnaire, procVars>>

-----------------------------------------------------------------------------
(* Processes.                                                              *)

\* The process and the threads in it are gone; the database is not.
Crash(p) ==
    /\ proc[p] # "down"
    /\ proc' = [proc EXCEPT ![p] = "down"]
    /\ orphans' = [orphans EXCEPT ![p] = {}]
    /\ creating' = [creating EXCEPT ![p] = "idle"]
    /\ EndThread({j \in JobIds : Working(j) /\ host[j] = p})
    /\ UNCHANGED <<jobVars, answerVars, questionnaire>>

\* Mutant: every job is left over, not only the active ones.
SelectAllJobs(p) ==
    /\ proc[p] = "down"
    /\ proc' = [proc EXCEPT ![p] = "starting"]
    /\ orphans' = [orphans EXCEPT ![p] = JobIds \ Unused]
    /\ UNCHANGED <<jobVars, answerVars, questionnaire, workerVars, creating>>

\* Mutant: a pending job is not considered left over.
SelectRunningJobs(p) ==
    /\ proc[p] = "down"
    /\ proc' = [proc EXCEPT ![p] = "starting"]
    /\ orphans' = [orphans EXCEPT ![p] = {j \in JobIds : job_status[j] = "running"}]
    /\ UNCHANGED <<jobVars, answerVars, questionnaire, workerVars, creating>>

\* lifespan -> fail_orphaned_jobs: select the active jobs of every process...
SelectOrphans(p) ==
    /\ proc[p] = "down"
    /\ proc' = [proc EXCEPT ![p] = "starting"]
    /\ orphans' = [orphans EXCEPT ![p] = ActiveJobs]
    /\ UNCHANGED <<jobVars, answerVars, questionnaire, workerVars, creating>>

\* ... and fail them; only then does the process serve requests.
FailOrphans(p) ==
    /\ proc[p] = "starting"
    /\ job_status' = [j \in JobIds |->
                         IF j \in orphans[p] THEN "failed" ELSE job_status[j]]
    /\ error' = [j \in JobIds |->
                    IF j \in orphans[p] THEN "interrupted by restart" ELSE error[j]]
    /\ proc' = [proc EXCEPT ![p] = "up"]
    /\ orphans' = [orphans EXCEPT ![p] = {}]
    /\ UNCHANGED <<completed, answerVars, questionnaire, workerVars, creating>>

\* The cleanup is best effort: on an exception the process starts without it.
SkipCleanup(p) ==
    /\ CommitsMayFail
    /\ proc[p] = "starting"
    /\ proc' = [proc EXCEPT ![p] = "up"]
    /\ orphans' = [orphans EXCEPT ![p] = {}]
    /\ UNCHANGED <<jobVars, answerVars, questionnaire, workerVars, creating>>

-----------------------------------------------------------------------------
\* What review_answer does to the column drafting reads: it loads any answer of
\* the organisation by id, superseded or not, and stores the status of the
\* action.  (A review that turns out to write nothing is a stutter here.)
ReviewAnswer(q, k, action) ==
    /\ \E p \in Procs : proc[p] = "up"
    /\ row[q][k] # "absent"
    /\ review_status' = [review_status EXCEPT ![q][k] = ACTION_STATUS[action]]
    /\ UNCHANGED <<jobVars, row, questionnaire, workerVars, procVars>>

Worker(j) ==
    \/ BeginJob(j)
    \/ LoadLiveAnswers(j)
    \/ PassOver(j)
    \/ StartDraft(j)
    \/ PersistDraft(j)
    \/ TickDrafted(j)
    \/ FailQuestion(j)
    \/ FinishDrafting(j)
    \/ CompleteJob(j)
    \/ AbortJob(j)
    \/ LoseWorker(j)

Startup(p) == SelectOrphans(p) \/ FailOrphans(p) \/ SkipCleanup(p)

Next ==
    \/ \E p \in Procs, regen \in BOOLEAN : CheckNoActiveJob(p, regen)
    \/ \E p \in Procs, j \in JobIds : CreateJob(p, j)
    \/ \E j \in JobIds : Worker(j)
    \/ \E p \in Procs : Crash(p) \/ Startup(p)
    \/ \E q \in Questions, k \in JobIds, action \in ReviewActions :
          ReviewAnswer(q, k, action)

Spec == Init /\ [][Next]_vars

\* A scheduled thread runs, the platform restarts a process that went down, and
\* a process that keeps being restarted gets through its startup at last.
Fairness ==
    /\ \A j \in JobIds : WF_vars(Worker(j))
    /\ \A p \in Procs : /\ WF_vars(SelectOrphans(p))
                        /\ SF_vars(FailOrphans(p) \/ SkipCleanup(p))

FairSpec == Spec /\ Fairness

-----------------------------------------------------------------------------
(* Properties.                                                             *)

TypeOK ==
    /\ job_status \in [JobIds -> JobStatuses]
    /\ completed \in [JobIds -> 0..NumQuestions]
    /\ error \in [JobIds -> Errors]
    /\ row \in [Questions -> [JobIds -> {"absent", "live", "superseded"}]]
    /\ review_status \in [Questions -> [JobIds -> ReviewStatuses]]
    /\ questionnaire \in {"uploaded", "in_review"}
    /\ pc \in [JobIds -> PCs]
    /\ host \in [JobIds -> Procs \cup {None}]
    /\ regenerate \in [JobIds -> BOOLEAN]
    /\ pos \in [JobIds -> 1..(NumQuestions + 1)]
    /\ live \in [JobIds -> [Questions -> JobIds \cup {None}]]
    /\ cached \in [JobIds -> [Questions -> ReviewStatuses]]
    /\ expired \in [JobIds -> BOOLEAN]
    /\ failed \in [JobIds -> SUBSET Questions]
    /\ proc \in [Procs -> {"down", "starting", "up"}]
    /\ orphans \in [Procs -> SUBSET JobIds]
    /\ creating \in [Procs -> {"idle", "draft", "redraft"}]

\* _latest_answers: "there is at most one non-superseded answer per question".
\* Supersede and insert are one commit, but which row is superseded was decided
\* when the run began.
OneLiveAnswer ==
    \A q \in Questions : \A k, m \in LiveOf(q) : k = m

\* create_generation_job: one active job per questionnaire, although nothing in
\* the schema forbids a second and the test and the insert are two steps.
OneActiveJob == \A i, j \in ActiveJobs : i = j

\* A question the worker of j has yet to decide on, or is deciding on.
Unreached(j, q) ==
    \/ pc[j] \in {"looping", "drafting"} /\ q >= pos[j]
    \/ pc[j] = "ticking" /\ q > pos[j]

\* The map generate_drafts loaded once still names the live answer of every
\* question it has yet to reach, however long the run takes.
MapIsCurrent ==
    \A j \in JobIds : \A q \in Questions :
        Unreached(j, q) => LiveOf(q) = {live[j][q]} \ {None}

\* jobs.py: a job is never "forever-running": while a process serves requests,
\* an active job has a worker in it.
ActiveJobIsWorked ==
    \A p \in Procs : proc[p] = "up" => \A j \in ActiveJobs : Working(j)

\* A job that ends in done without an error message has left every question
\* with a live answer: skipped, preserved or drafted, across crashed and
\* regenerated runs.
DoneMeansAnswered ==
    \A j \in JobIds : job_status[j] = "done" /\ error[j] = "none" =>
        \A q \in Questions : LiveOf(q) # {}

\* The N of "N/total": every question the counter of a job counts has a live
\* answer or is one the worker gave up on.
ProgressIsEarned ==
    \A j \in JobIds : \A q \in 1..completed[j] :
        LiveOf(q) # {} \/ q \in failed[j]

\* The inductive invariants behind the theorems of DraftingProofs.  The first,
\* RunInv, holds for any number of processes.  A job's row, position and thread
\* go together:
JobPhase(j) ==
    /\ job_status[j] = "none" => pc[j] = "none"
    /\ pc[j] \in {"none", "scheduled", "loading"} => pos[j] = 1
    /\ pc[j] \in {"drafting", "ticking"} => pos[j] <= NumQuestions
    /\ pc[j] = "closing" => pos[j] = NumQuestions + 1
    /\ pc[j] # "exited" => completed[j] = pos[j] - 1

\* and so do its map and the answers: it has written no question it has yet to
\* reach, and the map's answers exist and are live or were replaced.
JobRows(j) ==
    /\ pc[j] = "ticking" => LiveOf(pos[j]) # {}
    /\ \A q \in Questions :
        /\ pc[j] \in {"none", "scheduled", "loading"} \/ Unreached(j, q) =>
              row[q][j] = "absent"
        /\ Unreached(j, q) /\ live[j][q] # None =>
              row[q][live[j][q]] # "absent" /\ LiveOf(q) # {}

RunInv ==
    /\ TypeOK
    /\ \A j \in JobIds : JobPhase(j)
    /\ \A j \in JobIds : JobRows(j)
    /\ ProgressIsEarned
    /\ DoneMeansAnswered

\* ... the second for one process only: its one event loop and the startup hook
\* together make the worker of the only active job the only worker.
WorkersServe ==
    \A j \in JobIds : Working(j) =>
        /\ host[j] \in Procs /\ proc[host[j]] = "up"
        /\ job_status[j] = IF pc[j] = "scheduled" THEN "pending" ELSE "running"

ProcessesAgree ==
    \A p \in Procs :
        /\ creating[p] # "idle" => proc[p] = "up" /\ ActiveJobs = {}
        /\ orphans[p] = IF proc[p] = "starting" THEN ActiveJobs ELSE {}

OneWorkerInv ==
    WorkersServe /\ ProcessesAgree /\ OneActiveJob /\ MapIsCurrent /\ OneLiveAnswer

SingleProcess == \E p : Procs = {p}

\* "a failed draft never leaves a question with nothing live": no step takes
\* the live answer of a question away without putting another in its place.
LiveAnswerKept ==
    [][\A q \in Questions : LiveOf(q) # {} => LiveOf(q)' # {}]_vars

\* A job that is done or failed stays as it is: no late worker overwrites it.
SettledJobKept ==
    [][\A j \in JobIds : job_status[j] \in FinalStatuses =>
          UNCHANGED <<job_status[j], completed[j], error[j]>>]_vars

\* An approved or edited answer is only superseded by a run that looked at it
\* before the human decided.
ProtectedUnlessStale ==
    [][\A q \in Questions : \A k \in LiveOf(q) :
          review_status[q][k] \in PROTECTED_STATUSES /\ row'[q][k] # "live" =>
              \E j \in JobIds :
                  /\ pc[j] = "drafting" /\ pos[j] = q
                  /\ cached[j][q] \notin PROTECTED_STATUSES]_vars

\* generate_drafts: "approved/edited answers are never superseded".
ProtectedNeverSuperseded ==
    [][\A q \in Questions : \A k \in LiveOf(q) :
          review_status[q][k] \in PROTECTED_STATUSES => row'[q][k] = "live"]_vars

\* The jobs table implements the lifecycle, the answers table the history.
Lifecycle == INSTANCE JobLifecycle WITH status <- job_status
History == INSTANCE AnswerHistory
               WITH Drafts <- JobIds, Statuses <- ReviewStatuses,
                    review <- review_status
JobLifecycleSpec == Lifecycle!Spec
JobLifecycleFairSpec == Lifecycle!FairSpec
AnswerHistorySpec == History!Spec
=============================================================================
