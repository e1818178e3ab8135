# TrustBot: specifications, model checking and proofs

TrustBot drafts answers to security questionnaires from an organisation's own
evidence, and lets people review, correct, document and export them. This
directory holds TLA+ specifications of the parts in which something can go
wrong that a test hardly reaches, TLC configurations that check them on small
instances, and proofs of the main results for every size. Paths below are
relative to `src/`; `app/` stands for `trustbot/backend/app/`.

To check: `tlc -config <run>.cfg <module>` for each row of the table of runs,
`tlapm <module>Proofs.tla` for the proofs. `PROJECT.json` maps every definition
to the lines it stands for and lists runs, mutants, findings, hazards and
theorems.

## The system

One FastAPI process (`app/main.py`) serves the API over one PostgreSQL
database and one object store; deployments may run two such processes
(`trustbot/README.md:133`). SQLAlchemy sessions are opened per request or per
worker thread with `autoflush=False, expire_on_commit=False`
(`app/db/__init__.py:15`): what a session loaded stays as it was loaded until a
rollback, an UPDATE writes only the columns whose value differs from the one
loaded, and isolation is READ COMMITTED without row locks. This is the source
of most of the interleavings below.

| component | state | operations | hard behaviour | modules |
|---|---|---|---|---|
| draft generation jobs (`app/questionnaires/jobs.py`, `start_generation` in `app/review_routes.py`, `lifespan` in `app/main.py`) | `generation_jobs` rows, worker threads | start, run, progress, done/failed, startup cleanup | check-then-insert, crash and restart, workers of another process, refused commits | Drafting, JobLifecycle |
| answer versions (`generate_drafts`, `_latest_answers` in `app/questionnaires/service.py`) | `answers.superseded_at`, `review_status` | draft, regenerate, preserve | decisions on values read minutes ago | Drafting, AnswerHistory |
| review (`review_answer`, `_save_to_library`, `_export_rows`) | `answers`, `answer_reviews`, `audit_log`, `approved_answers` | approve, edit, reject, request evidence, save, export | concurrent reviewers, columns written or not depending on what was loaded | Review |
| agent loop (`_gather*` of `app/answers/generate.py`, `agent_tools.py`, providers) | message history, evidence pool, tool-call count | next turn, execute tools, stop | two budgets, calls cut off in mid-batch, a changing corpus | AgentLoop |
| answer pipeline (`app/answers/generate.py`, `validate.py`, `confidence.py`) | a `GeneratedAnswer` passed through gates | screen, gather, validate, override, flag, recompose | order of the gates, falling back instead of guessing, partial failure of a compound question | Answering |
| documents (`attach_documents`, `prepare_document_download`) | `provided_documents`, `document_selection_required`, audit | attach, download | approval and attachment in any order, two analysts at a time, a download meanwhile | Documents |
| intake (`create_questionnaire`, `app/questionnaires/parse.py`), ad-hoc questions (`persist_answer`, `POST /answer`) | `questionnaires`, `questions`, stored file | upload, ask | header rows anywhere in a sheet; an object stored before the commit, get-or-create, the organisation replaced meanwhile | QuestionnaireRows, Provisioning |
| ingestion (`app/ingestion`) | `knowledge_chunks` | parse, route the header out, split, window, replace | windows that end at a boundary, headers of any shape | Chunking |
| retrieval (`app/retrieval`, tools of `agent_tools.py`) | - (reads) | filter, search, fuse, rerank, cut | two ways to the same evidence, ties, cutting before or after the second sort | Retrieval |
| seed (`app/seed.py`, `trustbot/backend/entrypoint.sh`) | every table | load or replace an organisation, retry | several containers, a forced seed next to requests, failures at every point | Corpus, Provisioning |
| quarantine (`app/security/quarantine.py`, `policy.py`) | `evidence.status`, chunks | flag or quarantine at ingestion, release | only the seed ingests; nothing but tests calls release | Provisioning (without release) |
| object storage (`app/storage`) | objects | put, get | not part of any transaction | Provisioning, Documents (its outcomes) |
| injection screen (`app/security/injection.py`) | - | screen, neutralize | regular expressions over decoded text | input of Answering and Provisioning |
| providers (`app/providers`) | - | draft, agent turn, decompose, embed, rerank | external services | nondeterminism of AgentLoop, inputs of Retrieval |
| configuration (`app/config.py`), web client (`trustbot/frontend`), evaluations (`trustbot/backend/evals`), migrations | - | - | - | not modelled |

How they interact: `POST /questionnaires/{id}/generate` commits a job row and
schedules a thread on the event loop; the thread's session reads the live
answers once, then for each question calls the answer pipeline, which gathers
evidence through retrieval (or lets the model do so through the agent loop)
and passes the draft through its gates; the answer is inserted, and its
predecessor superseded, in one commit. Reviewers decide on answers through
requests of their own, each in a thread and session of its own, also while a
job runs; exports and downloads read what both left behind. All of it hangs on
one organisation row, which containers seed when they start, and replace when
forced to, while requests of other containers may be writing.

What makes each part correct:

* jobs: at most one active job of a questionnaire, a settled job stays settled,
  every accepted job settles, progress and the final message are true;
* versions: a question that has an answer keeps having exactly one live answer,
  nothing is deleted or revived, and human decisions are not replaced by drafts;
* review: every status, cleared flag and edited text is explained by the trail,
  no reviewer's text is taken back, the library holds what the trail says was
  saved, an export names a reviewer for every decision it shows;
* agent loop: the budgets are kept, the model is made to draft in time, what is
  cited comes from recorded calls, the gathering ends;
* documents: what an answer provides is one recorded selection of shareable
  documents, a selection stays open until somebody makes it, a byte is served
  only if an approved answer granted it and a record of it is committed;
* pipeline: an answer that leaves without review is sound in all its parts;
  what affirms has a basis on record; a part without an answer is never covered
  up; no certification is affirmed that no attestation backs;
* ingestion: every line of a document that is not of its header is in a chunk, with
  its neighbours and without another section's; the metadata have the last pair of each
  key of the header;
* intake: an upload gives a question for each row that has one, all or none;
* retrieval: the best of all candidates, in an order that does not change from
  run to run, and nothing a filter keeps out, by search or by id;
* seed: one organisation, whole, with nothing outside it; it is never gone once
  it was there; a policy is reached by customers exactly when the first thing it
  declares of its classification opens it, other documents only if they may be attached.

## Modules

### Drafting

One questionnaire of one organisation, `NumQuestions` questions in row order,
the jobs and processes that may ever exist (`JobIds`, `Procs`).

| variable | in the code |
|---|---|
| `job_status`, `completed`, `error` | the columns of `generation_jobs` |
| `row`, `review_status` | `answers`: an answer is named by its question and the job that wrote it, since a job writes a question at most once; `live` is `superseded_at IS NULL` |
| `pc`, `host`, `regenerate`, `pos` | the thread of a job: where it is, its process, its flag, the question it is at |
| `live`, `cached`, `expired`, `failed` | the locals and session of `generate_drafts`: the map read once, the `review_status` loaded with it, whether a rollback has expired the session, the questions given up |
| `proc`, `orphans`, `creating` | a process: down, in its startup hook with the jobs it selected, serving; a start request between its SELECT and its COMMIT |

Each action is one commit or one read. `CheckNoActiveJob` and `CreateJob` are
the two halves of `create_generation_job`; `BeginJob`, `LoadLiveAnswers`,
`PassOver`, `StartDraft`, `PersistDraft`, `TickDrafted`, `FailQuestion`,
`FinishDrafting`, `CompleteJob` follow the worker; `AbortJob` is the handler of
`_execute_job`, `LoseWorker` an exception that gets past it; `SelectOrphans`,
`FailOrphans`, `SkipCleanup` are the startup hook; `Crash` may hit anywhere.
`ReviewAnswer` is what Review does to the one column drafting reads.
`CommitsMayFail` says whether the database may refuse a commit or a select
outside the handlers.

`JobLifecycle` and `AnswerHistory` are what the users of the two tables are
promised; Drafting implements both by the identity on `job_status` and on
`row`, `review_status`.

### Review

Answers are pairs of a question and a version. A request `r` is begun (its
transaction, and so the `created_at` of its rows, starts: `began`), has loaded
the answer (`seen`), and commits or is refused. `Flushed` is what an UPDATE of
SQLAlchemy does: of status, flag and text it writes those that differ from what
was loaded. The library's unique constraint on organisation, source and
external id is `LibraryTaken`; NULL external ids (`Questions \ Numbered`) never
conflict. An export reads the answers and the reviewers in two statements.
Superseding is left out: `review_answer` ignores it, so every version counts.

### AgentLoop

One call of `_gather`, on either path. `history` holds the completed rounds
with their calls and results, `pool` the chunks that can be cited, `audit` the
results of recorded calls (the code's trail records the call; what it returned
is kept here to compare with). The model is any sequence of turns: a draft,
calls, or neither; `obedient` ones draft when `tool_choice` forces them to.
`corpus` is what retrieval can return at the moment and may change at any time.
A failing request or query ends the gathering (`Fail`); no retry is in the code.

### Answering

`generate_answer` from the question to the answer. What a focused question
meets is one record: the draft as gathered, the claims with the verdict whether
their basis resolves, the database's verdicts on approvals and documents.
`AnswerOne` is `_answer_one` with its gates in the code's order, `Recompose`
is `_recompose`. Percentages replace the rounded floats of `confidence.py`; all
weights are multiples of 1/100, so a score in 1/10000 is exact for them. The
held certifications are read once, where the code reads them for each part.
`Register` is the table of findings: of which report each is, whether it is open,
has a target date, and may be shown to customers. `FindingsFor` is the query whose
result the gate for open findings sees: of the findings of the documents that are
provided, those that may be shown. `NothingUndatedProvided` speaks of these, and
not of all findings, of which it does not hold (see Findings).
Claims are those about certifications, the only type the code acts upon.

### Documents

The columns of an answer that say what it provides, and who may fetch it.
`PersistAnswer` is a draft with named documents, with a selection left to a
human, or, for a compound question, with both; drafts of a question's later
versions are further answers, since neither attaching nor downloading reads
`superseded_at`. An attach request loads the answer (`seen`), resolves its
documents, and commits: `Flushed` again, per column, and a list of the same
members in another order counts as a change, so that it may or may not be
written. A download authorizes, commits its audit row, and serves; the store or
the commit may fail in between. `ReviewAnswer` is what Review does to the one
column that downloads read. Nothing in the code withdraws `customer_shareable`.

### Provisioning

Processes over one database and one object store: containers that seed
(`entrypoint.sh` runs `seed` up to five times) and then serve, uploads, ad-hoc
questions and reviews. `org`, `rows` and `objects` are what is committed or
stored; each attempt and each request is one transaction, whose inserts are in
`tx` until it commits, and whose locks follow from where it is (`Inserting`,
`Deleting`, `Sharing`, `Updating`): the unique slug, foreign keys that cascade
and that make an insert wait for a delete of the organisation, rows being
updated that make the cascade wait. `LockOrg` and `Cascade` are the two halves
of the delete at `seed.py:775`, so that a review and a forced seed can wait for
each other; `ResolveDeadlock` is PostgreSQL. `read` is the organisation a
request was given by `get_current_org` and keeps, whatever happens to it.
`AttemptFails` and `RequestDies` are failures of the database, of the store or
of the process, at any point; an object that was put stays. `broken` are seed
data that cannot be read: no attempt of any container succeeds.

### Chunking, QuestionnaireRows, Retrieval, Corpus, Listing, Algorithms

The pure parts, as operators that follow the code, each with a property that
says in other words what it computes. Algorithms has one step per input:
`Ingest`, `Upload`, `Search`, `Seed`; its properties are those of the operators.
Its assumptions say what inputs there are: lines of a document are told apart by
their place (`TextOK`), an index returns rows of the corpus, each once, and the
reranker a number for each (`CorpusOK`), a CSV is one sheet (`FileOK`), a blank
line of a policy has no segments and a list of controls has its line for itself
(`DirectoryOK`).

* Listing: what is sorted, filtered or laid end to end, by what is in which place:
  in place k of a sorted set is the member that k - 1 others come before.
* Chunking: `chunk.py`, `structure.py`, `pipeline.py`. A text is a sequence of
  lines with a mark (heading, text, blank, quote), a place, and the segments its
  middots part, of which some are pairs of a key and a value; lengths count lines.
  The metadata are a function from keys to values, as the dict `front_matter` is: a key
  that comes again overwrites what was there (`MetadataOf`). `DocumentHeld` compares the
  chunks with a definition of the header by its lines, not by the code's scan, and the
  metadata with its pairs (`HasPairsOf`): each is there unless a later one has its key,
  and nothing else is. `ContextKept` says which lines must and must not share a chunk.
* QuestionnaireRows: `parse.py` on rows of normalised cells, against "the cells
  below the first question header".
* Retrieval: the filters, `reciprocal_rank_fusion` with exact fractions (the
  code adds floats; no two different sums of the ranks that occur are closer
  than their error), `retrieve`, and the tools. The orders of the two indexes
  and the reranker's scores are inputs. `RetrievalSound` says what fusion promises
  without a score: ahead in both searches is ahead, and found by both comes before
  found by one. The second holds as long as a search returns no more rows than
  k + 1 (`CandidateK <= RrfK + 1`; 20 and 60 by default, `app/config.py:98`,
  `fusion.py:18`): with more, the first place in one search can be worth as much
  as the last in both.
* Corpus: the seed's tables from a directory; on top of Chunking for the chunks
  and of Retrieval for what a customer-facing search reaches. A policy's header
  is read twice, by the seed and by the chunker. `Declared` is what a policy says of a
  key: the first statement of its header or, of a header that is silent, the first of its
  body. `SharedAsDeclared` says of every policy that customers reach it exactly when what
  it declares opens it, that it is linked to the controls it declares, that the metadata
  have a classification only from the header, and that they agree with the seed when the
  header has one pair of it, on a line of its own. When it has two, the seed has taken
  the first and the metadata the last. That only the header opens a policy, as
  `seed.py:313` has it, does not hold (see Findings).

## Runs

| run | instance | shows |
|---|---|---|
| `drafting_one` | 1 process, 2 jobs, 2 questions, refused commits, approve and reject | one live answer, true progress, settled jobs kept, decisions lost only to stale runs, both refinements |
| `drafting_fair` | 1 process, 2 jobs, 2 questions, commits succeed, fairness | an active job has a worker while a process is up; the fair lifecycle is implemented, in which every job settles |
| `drafting_protected` | 1 process, 2 jobs, 1 question | *violated*: an approved answer is superseded |
| `drafting_two_live` | 2 processes, 2 jobs, 1 question | *violated*: two live answers |
| `review_concurrent` | 1 question, 2 versions, 3 requests at a time, edit, reject, save | the trail explains everything, texts survive, the library matches, exports name reviewers; the trail chains and what is approved was seen, overlapping reviews of one answer aside |
| `review_save` | 1 question, 2 versions, 2 requests one at a time | *violated*: the second save is refused |
| `agent_loop` | 3 turns, 3 calls, batches of up to 4, 1 chunk, fairness | budgets, an obedient model's draft, the pool, the end |
| `agent_transcript` | 3 turns, 2 calls, batches of up to 2, 1 chunk | *violated*: calls without results in the transcript |
| `answering` | 3 chunks of three source types, 2 certifications, 3 documents (one with an open undated finding that is shown, one with one that is not), 2 parts | the gates and flags of simple and compound questions |
| `documents` | 1 answer, 3 documents (one may not be shared, one carries a finding), 2 attach requests at a time, 1 download, approve and reject | what is provided is one recorded selection, downloads are granted and recorded |
| `provisioning` | 2 containers (one forced), 1 upload, 1 ad-hoc question, 1 review, 2 documents (one injected, quarantined), 2 attempts, 1 fault of each container, fairness | one whole organisation, rows have their objects, a seeded database stays seeded, giving up is earned, everything settles |
| `algorithms` | texts of up to 5 lines (6 of headings and text, 7 of one heading level, text and blanks) with windows of 3 that overlap by 1; sheets of up to 3 rows of 2 cells, workbooks of two; 5 chunks, every keyword order of four, scores 0 and 1; policies of up to 4 lines, 16 kinds of line; headers of up to 3 quotes of up to two segments | documents held, context kept, rows become questions, retrieval sound, gates agree, shared as declared |

Why the bounds suffice to be interesting: two jobs are what a restart, a
regeneration and every race between workers need, two questions what a failure
in the middle needs; three requests at a time let one review commit between
another's load and its commit while a third waits; three turns with three
calls let a batch straddle the budget with and without a turn to spare, and let
the turns run out before the calls; one chunk that comes and goes is enough,
since no step relates two chunks; two parts are what every case of `_recompose` distinguishes (all, some, none answered); one
answer suffices for the documents, since no request touches two and a download
looks for any one that grants it, and two attach requests are a race.
In `provisioning` one forced and one ordinary container have every race of two
seeds (a third only waits longer), one request of each kind meets a forced seed
at every point, and two attempts with one fault have a retry after a rollback;
three attempts and two faults pass too, without the liveness (5.7 million
states). A text of five lines has a title, a header, two headings and what they
head; six lines of windows of three have a last window that is full and one
that is not; three quotes of two segments (`MaxQuotes`) repeat a key on one line, on
two, and on all three.
Every property of a passing run has a mutant: a plausible bug in a named
definition (marked `Mutant` in the modules) under which TLC finds it violated.

In `review_concurrent` three of the five actions are taken: "approve" and
"request_evidence" lead to the same columns as "save_to_library" and "reject".
`CHECK_DEADLOCK FALSE` is set where requests are a bounded supply and the
system may simply have served them all; AgentLoop and Answering stop in a
state that stutters explicitly, so a gathering that got stuck earlier would be
a deadlock.

Fairness. `drafting_fair` assumes that a scheduled thread
runs (weak fairness of `Worker`: it is a thread of a serving process, and calls
of providers have timeouts, `app/config.py:114-116`), that a process that is
down is started again, and that a process
started over and over gets through its startup at last (strong fairness, since
crashes may interrupt it any number of times). On Cloud Run, where
`deploy/gcp/deploy.sh:196-205` neither keeps an instance nor its CPU allocated
without requests, the first two hold as long as somebody asks for the state of
the job, which the page does every two seconds while it is open. No fairness
is assumed of requests, reviews or crashes. `agent_loop` assumes weak fairness of the loop's
own steps: each provider call returns or fails within its timeout.
`provisioning` assumes it of a container's attempt, of a request that has begun
(both run on a live process or die, which is a step of its own), and of
PostgreSQL's deadlock detection, and of nothing that fails: weak fairness
suffices because whoever is waited for either goes on or is in a deadlock.

## Findings

1. `drafting_protected`: `generate_drafts` tests `review_status` before the
   minutes of drafting and supersedes after them. An answer approved in between
   is replaced by the draft, against `service.py:432` and `ARCHITECTURE.md`.
   `ProtectedUnlessStale` is what does hold.
2. `drafting_two_live`: with the two instances the deployment allows, check and
   insert race, and each start fails the other's live jobs: two workers leave
   two live answers.
3. `review_save`: `_save_to_library` always inserts; a second save of one
   external id raises an IntegrityError and rolls the whole review back.
4. `agent_transcript`: a batch cut off by the budget leaves tool_use blocks
   without tool_result in the next request.

Seen while modelling, without a run of their own. `_findings_for` passes the gate
for open findings only those that may be shown to customers (`generate.py:283`): a
report with an open finding that is internal and has no target date is provided,
against `docs/05_TrustBot_Respond_Mode_Design.md:173` ("You cannot send a report
with an open finding and no plan") and the gate's own docstring
(`validate.py:128-129`). `NothingUndatedProvided` is what does hold; without
`f.shareable` in `PlannedAsShown` it fails, in the run `answering`. The seed looks
for a policy's header line by line to the end of the text (`seed.py:157-160`): a
policy whose header does not classify it is opened to customers by a line of its
body that begins with "Classification:", against `seed.py:125` and `:313`, which say
that the header decides. `SharedAsDeclared` is what does hold; with the header alone
in `Declared` it fails, in the run `algorithms`.

A job whose last commit is refused stays running, and its questionnaire refuses new
ones, until the process is restarted (with `CommitsMayFail = TRUE`,
`JobLifecycleFairSpec` fails). `AuditChain` and `ApprovedAsSeen` hold of all answers
but those two reviews of which `clashed`, and fail without that exception (an
approval that loaded the answer before an edit ends on the edited text; the
before_status of an audit row may be a state the answer no longer had). Two analysts
who attach to one answer at a time can leave it with the documents of one and the
findings of the other, since a session writes `finding_refs` only if it changed
them: `RemediationMatches` holds of all answers but those such a request has
`clashed` with, and fails without that exception. A compound question can come out
"qualified" without any basis: a "no", which needs none, beside a part without an
answer, or two times "no". A reject of an answer approved before does not set
`needs_human_review` again. A compound answer that is flagged only because it is
qualified has no `review_reason`. `_recompose` keeps only the first claim on a
subject, so an affirmation in one part hides a denial in another from the structured
claims.

Of the corpus: two ad-hoc questions at the same time, the first of an
organisation, leave two ad-hoc questionnaires. An upload or a seed that fails
after its objects were put leaves objects that no row names. A document that is
all header has no chunk, and its pairs are nowhere. Of other headers the pairs are kept
as metadata, but what is no pair (the disclaimer) is dropped, and so is the value of a key
that comes again (`structure.py:80`). The seed takes the first statement of a key and the
chunker the last, so that a policy whose header classifies it twice may be open to
customers while its metadata call it internal, or the reverse; and the seed takes the rest
of the line, so that a word of a second pair on the line counts for the first.
`SharedAsDeclared` has the seed's choice for all policies, and the agreement of the
two for headers with one pair of the key on a line of its own, as those of all
policies of the seed data are. A list of controls followed by another pair on its line loses
its last code to the seed: `DirectoryOK` leaves it out. A nested quote (`>>`) is part of
the header to both readers, but only the seed sees a pair in it: lines in the model read
the same to both, so it is left out too.
Quarantined evidence still counts as attesting its certifications
(`_available_certs`), can be attached and downloaded: only its chunks are gone.
A release and the next ingestion end in quarantine again, since the screen does
not know of the release. A questionnaire may have 2000 questions, a job 200.

## Proofs

TLAPS checks the following for every value of the constants, from nothing but
the named assumptions of the modules (`NumQuestions \in Nat`, `None` is no job,
the sets of containers and requests are disjoint, ...). Those of the state
machines are theorems `Spec => ...`. Every invariant and every action property
of a passing run, and both refinements, are such theorems; what they state
beyond the runs (types, `OneActiveJob`, `LiveAnswerKept`, `StepsRunOut`) is
implied by invariants proved for every size, and is in no run.

* `DraftingProofs`. `RunInv` is inductive for any number of questions, jobs and
  processes. TypeOK alone does not bound the progress counter, and neither
  progress nor the final message can be justified without knowing what the
  thread has done so far: `JobPhase` ties row, position and thread together,
  `JobRows` says that a job has written nothing it has yet to reach and that
  what its map names exists. From it follow `TypeOK`, `ProgressIsEarned`,
  `DoneMeansAnswered`, `LiveAnswerKept` and `ProtectedUnlessStale`.
  For a single process (`SingleProcess`, a hypothesis of these theorems)
  `OneWorkerInv` is inductive on top of it: every worker is alive, its job
  active, no request is past its check while a job is active, and a starting
  process holds exactly the active jobs as orphans; therefore the worker of the
  one active job is the only writer, its map stays current, and one answer per
  question is live. From it follow `OneLiveAnswer`, `OneActiveJob`,
  `SettledJobKept` and both refinements (initial states map to initial states,
  every action to an action or a stutter). `drafting_two_live` shows that the
  hypothesis is needed. `ActiveJobIsWorked` is inductive given both invariants,
  if commits succeed (`~CommitsMayFail`, as in `drafting_fair`): it is the one
  that says a job is never left running by nobody.
* `ReviewProofs`. `ReviewInv` is inductive for any number of answers, requests
  and concurrent reviewers. The stale copies are the point: a request may write
  columns it loaded long ago, so what it has `seen` must be explained by the
  trail as well, which holds because the trail only grows; and the requests
  recorded must be exactly those done, for the library to match. From it follow
  `TypeOK`, `DecisionsRecorded`, `LibraryMatchesTrail` and the action property
  `EditsSurvive`. `AuditChain` is inductive by itself, stated about neighbouring
  places of the trail instead of the filtered sequence of one answer's rows;
  `ApprovedAsSeen` needs that what a recorded request had loaded stays, and
  `ExportNamesReviewer` that the trail an export reads second has all that the
  answers it read first stand for, and that one of the reviewers in it began last
  (`BeganBounded`: a chosen maximum has to exist).
* `AgentLoopProofs`. `LoopInv` is inductive for any budgets, batch size and
  corpus: a turn that is the last, or follows an unanswered call, is forced, so
  that it cannot call again when the model obeys. From it follow `BudgetsKept`,
  `ObedientNeverExhausted` and `PoolIsAudited`.
  `LoopRunsOut` adds the half of termination that is a matter of safety: every
  step of the loop lowers `StepsLeft` (three a turn, one a tool call), and
  neither the corpus nor a failure raises it.
* `DocumentsProofs`. `DocumentsInv` is inductive for any answers, documents and
  requests. An attach request commits against a row that may have changed since
  it loaded it, and per column: `Written` is what then becomes of the row, and
  `ClosedStaysClosed` (a selection seen closed is still closed) is why a column
  that is left out is right to be left out. A download may be served after the
  answer that granted it has been rejected: `DownloadsGranted` therefore speaks
  of the trail of decisions and attachments, which only grows, and not of the
  answers as they are. From it follow `ProvidedInTrail`,
  `SelectionOpenUntilAttached`, `ServedWasGranted` and `RemediationMatches`.
* `AnsweringProofs`. `AnsweringInv` says that each part is `AnswerOne` of what
  was met and that what is emitted is the flagged whole of the parts. The rest
  are lemmas about the gates and `Recompose` for every draft, any chunks, documents
  and certifications and any number of parts: what the gates let pass (`Passed`),
  what falls back (`Fell`), which score reaches which band, what a recomposed
  answer has of its parts (`Sums`). From them follow `PartsGrounded`,
  `OnlyHeldCertsAffirmed`, `NothingUndatedProvided`, `UnsupportedFlagged`,
  `InjectionSurfaces` and `CleanMeansSound`.
* `ProvisioningProofs`, for any containers, forced or not, any uploads, questions,
  reviews and documents. `TypeInv` (phases; what a process that waits has read)
  gives `NeverUnseeded`; `AttemptsEarned` (each attempt used up is a fault of the
  container's own, but for one that lost the race for the slug to another
  container, whose organisation it then finds) gives `GiveUpEarned`; `PendingRows` (what is in
  each transaction at each point, and which objects are already stored) gives
  `RowsHaveObjects`. `OneWholeOrg` rests on all of them and on `LocksInv`: an
  organisation that was replaced never comes back (`OnlyMade`), two seeds are
  never both past the delete or the insert (`Exclusive`), and a request that holds
  the organisation's row, or a row of it, read the organisation that is there
  (`Referred`). On top of it `WholeInv`: the corpus is exactly what was screened
  and ingested, every row has its parent, and so will the rows of a transaction
  that has not committed, as long as the organisation it read is there.
* `AlgorithmsProofs`: every invariant of `algorithms`, for documents, files, corpora
  and directories of any size and for any limits. The invariant is only that an input
  is one of those given (`InputsAreGiven`); what there is to prove is about the
  operators.
  - `DocumentsAreHeld`, `ContextIsAlwaysKept`: the dict of a header has its pairs, the
    last of each key (`LastOfKey`, `DictHasPairs`: a greatest place and a greatest segment
    on it have to exist); windows fit, and any two lines that are
    no further apart than the overlap share one (`WindowsKeepContext`, arithmetic of
    the first window that reaches a line); the code's scan finds exactly the header as
    `InHeader` defines it (`HeaderRoutedOut`); sections are the parts of the text
    between the places it is split at, the title before each of them (`SplitAt`,
    `SectionsAre`), so that chunks are windows of these parts and no line is in
    two of them (`ChunksOfDocument`).
  - `RowsDoBecomeQuestions`: rows and questions are picked, in order, out of the sheet
    (`RowsAreRead`, `HeaderIsAt`, `QuestionsAreRead`), and how many rows are above each
    is how many were passed by.
  - `RetrievalIsSound`, `GatesDoAgree`: the orders of fusion and of the rerank are strict
    and total on the candidates (`FusedOrder`, `RerankOrder`), so each candidate has one
    place; the sums of 1/(k + rank) are compared by `GreaterSum`, `AheadFirst` and
    `BothFirst`.
  - `SeedsDoShareAsDeclared`: nothing above a header states anything, so the seed, which
    reads a policy to its end, takes what the header states first, and comes to the body
    only when the header is silent (`PolicyHeaderDecides`, `PolicySharedAsDeclared`, for
    every policy); the chunker, which strips the text first, has the same header in its
    metadata (`HeaderShifts`, `MetadataOfHeader`). That the body cannot open a policy is
    not proved: it can (see Findings). And what is reached of a document is of a row that
    may be attached.
* `FiniteNumbers` has what the others need of finite sets: the smallest and the
  greatest of a set (`Min`, `Max` and a confidence are defined by `CHOOSE`), that the
  members of a set in order are each in one place (`InOrder`), and what `Picked` and
  `Joined` of Listing hold of the sequences they are made of. Counting is by
  bijections, which the library has theorems about, and never by recursion.

Some formulas of the models are put so that they can be reasoned about: the
claims of a compound answer are listed by their places and not folded, the trail
of an answer is a set of places of the log, the windows of a text and the bounds
of its header have names of their own, and sequences are sorted, filtered and
joined by the operators of Listing, which say what is in which place, where the
recursive ones of the community modules compute it item by item.

Model-checked only:

* liveness (`JobLifecycleFairSpec`, `Ends`, `Settle`): fairness is about
  `ENABLED`, which the provers do not handle. `LoopRunsOut`, `ActiveJobIsWorked`
  and the safety part of the refinement are what is proved around them.
* that the violations are real (`drafting_protected`, `drafting_two_live`,
  `review_save`, `agent_transcript`): a counterexample needs no proof.

## Not modelled, and next

1. Review, Documents and Drafting composed over one answers table, with
   decisions on superseded versions: each models what the others do to its
   columns as an action of its own, and a decision on a version that is
   superseded meanwhile is in none of them.
2. What `release_evidence` would do to a corpus, once something calls it.

Not planned: regular expressions (the injection screen, the recognition of
certification names and requested documents), HTTP and storage adapters, the
hardening of keys, configuration, the web client, evaluations and migrations.
They keep no state that outlives a call, or are external services whose
outcomes are nondeterministic in the models. `release_evidence` and
`is_retrievable` are called by nothing but tests.
