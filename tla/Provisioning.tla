---------------------------- MODULE Provisioning ----------------------------
(***************************************************************************)
(* How the organisation and its corpus come to be, while requests already  *)
(* write to it: the containers that seed (entrypoint.sh, seed.py), uploads *)
(* of questionnaires (service.py), questions asked ad hoc (generate.py,    *)
(* main.py) and reviews, over one PostgreSQL database and one object store.*)
(*                                                                         *)
(* Each seed attempt and each request is one transaction (READ COMMITTED): *)
(* what it inserts is in tx until it commits, and the locks it holds       *)
(* follow from where it is.  Objects are stored at once.  Foreign keys to  *)
(* the organisation cascade (db/models.py:63-69) and make an insert wait   *)
(* for a transaction that is deleting it.                                  *)
(***************************************************************************)
EXTENDS Naturals

CONSTANTS
    Containers,   \* containers that seed and then serve: a bound
    Forced,       \* those started with RESEED
    Uploads, Asks, Reviews,  \* requests of each kind: a bound
    Docs,         \* seed documents: evidence and policies
    Injected,     \* those the screen finds something in
    Policy,       \* injection_policy_respond
    MaxAttempts,  \* attempts of entrypoint.sh
    MaxFaults,    \* transient failures per container: a bound
    None          \* no organisation, none read

Requests == Uploads \cup Asks \cup Reviews
Processes == Containers \cup Requests

ASSUME ForcedAssumption == Forced \subseteq Containers
ASSUME KindsAssumption ==
    /\ Uploads \cap Asks = {} /\ Uploads \cap Reviews = {} /\ Asks \cap Reviews = {}
    /\ Containers \cap Requests = {}
ASSUME PolicyAssumption == Policy \in {"flag_neutralize", "quarantine"}
ASSUME AttemptsAssumption == MaxAttempts \in Nat \ {0} /\ MaxFaults \in Nat

VARIABLES
    org,      \* the organisation with the seed's slug, as committed
    rows,     \* committed rows of the tables that belong to it
    objects,  \* what the object store holds: organisation and name of each
    pc,       \* where each process is
    read,     \* the organisation a process works on (one a seed is to delete)
    tx,       \* the rows a process will insert
    attempt,  \* the seed attempt a container is at
    faults,   \* attempts of a container that failed for reasons of their own
    broken    \* the seed data cannot be read

database == <<org, rows, objects>>
seeding == <<attempt, faults>>
vars == <<database, pc, read, tx, seeding, broken>>

-----------------------------------------------------------------------------
\* A row: its organisation, its key, and of what it is (the status of evidence, the
\* kind of a questionnaire, the parent of the others).
Row(table, o, key, of) == [table |-> table, org |-> o, key |-> key, of |-> of]

Earlier == <<"earlier", 0>>            \* seeded by an earlier deployment
NewOrg(c) == <<c, attempt[c]>>         \* a fresh id for each attempt
Organizations == {Earlier} \cup (Containers \X (1..MaxAttempts))
ASSUME NoneAssumption == None \notin Organizations

Names == Docs \cup Requests \cup {"inbound"}
Tables == {"evidence", "chunk", "questionnaire", "question", "answer", "review"}
Kinds == {"active", "flagged", "quarantined", "uploaded", "ad_hoc"}
Rows == [table : Tables, org : Organizations, key : Names, of : Names \cup Kinds]

\* The evidence row of a document once screened ("flagged" is active with
\* injection_flagged) and its chunks, none when quarantined.
ScreenAndIngest(d, o) ==
    LET quarantined == d \in Injected /\ Policy = "quarantine"
    IN {Row("evidence", o, d, IF quarantined THEN "quarantined"
                              ELSE IF d \in Injected THEN "flagged" ELSE "active")}
       \cup (IF quarantined THEN {} ELSE {Row("chunk", o, d, d)})

\* The inbound questionnaire, uploaded by the seed itself.
Inbound(o) == {Row("questionnaire", o, "inbound", "uploaded"),
               Row("question", o, "inbound", "inbound")}
SeedRows(o) == Inbound(o) \cup UNION {ScreenAndIngest(d, o) : d \in Docs}
SeedObjects(o) == {o} \X (Docs \cup {"inbound"})

\* An empty database, or one seeded before whose first question has an answer.
Init ==
    /\ \/ org = None /\ rows = {} /\ objects = {}
       \/ /\ org = Earlier
          /\ rows = SeedRows(Earlier) \cup {Row("answer", Earlier, "inbound", "inbound")}
          /\ objects = SeedObjects(Earlier)
    /\ pc = [p \in Processes |-> IF p \in Containers THEN "boot" ELSE "idle"]
    /\ read = [p \in Processes |-> None]
    /\ tx = [p \in Processes |-> {}]
    /\ attempt = [c \in Containers |-> 1]
    /\ faults = [c \in Containers |-> 0]
    /\ broken \in BOOLEAN

-----------------------------------------------------------------------------
(* Locks.                                                                  *)

\* An uncommitted insert of the slug.
Inserting(c) == pc[c] \in {"load", "ready"}
\* An uncommitted delete of the organisation, and of all its rows.
Deleting(c) == org # None /\ read[c] = org /\ pc[c] \in {"cascade", "insert", "load", "ready"}
Deleted(c) == Deleting(c) /\ pc[c] # "cascade"
\* A reference to the organisation, and the lock of an updated answer.
Sharing(r) == pc[r] \in {"flushed", "stored"}
Updating(r) == r \in Reviews /\ pc[r] \in {"updated", "stored"}

Waits(r) == \E c \in Containers : Deleting(c) /\ read[r] = org

-----------------------------------------------------------------------------
(* A seed attempt (seed.py:770-817).                                       *)

\* Mutant: the loop of attempts has no end.
FailedForever(c) ==
    /\ pc' = [pc EXCEPT ![c] = "boot"]
    /\ read' = [read EXCEPT ![c] = None]
    /\ tx' = [tx EXCEPT ![c] = {}]
    /\ UNCHANGED attempt

\* The attempt is rolled back; another follows, or the container exits.
FailedAttempt(c) ==
    /\ pc' = [pc EXCEPT ![c] = IF attempt[c] < MaxAttempts THEN "boot" ELSE "exited"]
    /\ read' = [read EXCEPT ![c] = None]
    /\ tx' = [tx EXCEPT ![c] = {}]
    /\ attempt' = [attempt EXCEPT ![c] = IF @ < MaxAttempts THEN @ + 1 ELSE @]

\* Counted for GiveUpEarned, as far as it matters there.
OwnFault(c) == faults' = [faults EXCEPT ![c] = IF @ < MaxAttempts THEN @ + 1 ELSE @]

\* Mutant: an organisation that exists does not end the seed.
CheckAndInsert(c) ==
    /\ pc[c] = "boot"
    /\ pc' = [pc EXCEPT ![c] = IF org # None /\ c \in Forced THEN "delete" ELSE "insert"]
    /\ read' = [read EXCEPT ![c] = IF c \in Forced THEN org ELSE None]
    /\ UNCHANGED <<database, tx, seeding, broken>>

\* Nothing to do when the organisation is there, unless forced to replace it.
CheckOrg(c) ==
    /\ pc[c] = "boot"
    /\ pc' = [pc EXCEPT ![c] = IF org = None THEN "insert"
                               ELSE IF c \in Forced THEN "delete" ELSE "serving"]
    /\ read' = [read EXCEPT ![c] = IF c \in Forced THEN org ELSE None]
    /\ UNCHANGED <<database, tx, seeding, broken>>

\* The delete takes the row of the organisation: it waits for every transaction that
\* refers to it or deletes it.  One replaced meanwhile is no row to delete.
LockOrg(c) ==
    /\ pc[c] = "delete"
    /\ \A o \in Containers : ~Deleting(o)
    /\ read[c] = org => \A r \in Requests : ~(Sharing(r) /\ read[r] = org)
    /\ pc' = [pc EXCEPT ![c] = IF read[c] = org THEN "cascade" ELSE "insert"]
    /\ UNCHANGED <<database, read, tx, seeding, broken>>

\* Mutant: the delete is committed on its own.
CascadeAndCommit(c) ==
    /\ pc[c] = "cascade"
    /\ \A r \in Reviews : ~(Updating(r) /\ read[r] = org)
    /\ pc' = [pc EXCEPT ![c] = "insert"]
    /\ org' = None
    /\ rows' = {}
    /\ UNCHANGED <<objects, read, tx, seeding, broken>>

\* Then the rows that belong to it: it waits for every one being updated.
Cascade(c) ==
    /\ pc[c] = "cascade"
    /\ \A r \in Reviews : ~(Updating(r) /\ read[r] = org)
    /\ pc' = [pc EXCEPT ![c] = "insert"]
    /\ UNCHANGED <<database, read, tx, seeding, broken>>

\* The slug is unique: the insert waits for another's insert or delete of it, and an
\* organisation that is there fails the attempt.
InsertOrg(c) ==
    /\ pc[c] = "insert"
    /\ \A o \in Containers \ {c} : ~Inserting(o) /\ ~Deleting(o)
    /\ IF org = None \/ Deleting(c)
       THEN pc' = [pc EXCEPT ![c] = "load"] /\ UNCHANGED <<read, tx, attempt>>
       ELSE FailedAttempt(c)
    /\ UNCHANGED <<database, faults, broken>>

\* A document's row is flushed for its id, then its object stored under it.
LoadDocument(c, d) ==
    /\ pc[c] = "load" /\ ~broken
    /\ \A row \in tx[c] : row.key # d
    /\ tx' = [tx EXCEPT ![c] = @ \cup {Row("evidence", NewOrg(c), d, "active")}]
    /\ objects' = objects \cup {<<NewOrg(c), d>>}
    /\ UNCHANGED <<org, rows, pc, read, seeding, broken>>

\* All loaded: each is screened and ingested, and the inbound questionnaire uploaded.
IngestCorpus(c) ==
    /\ pc[c] = "load" /\ ~broken
    /\ {row.key : row \in tx[c]} = Docs
    /\ tx' = [tx EXCEPT ![c] = Inbound(NewOrg(c))
                               \cup UNION {ScreenAndIngest(row.key, row.org) : row \in @}]
    /\ objects' = objects \cup {<<NewOrg(c), "inbound">>}
    /\ pc' = [pc EXCEPT ![c] = "ready"]
    /\ UNCHANGED <<org, rows, read, seeding, broken>>

\* The new organisation with all its rows, and the old one without any.
CommitSeed(c) ==
    /\ pc[c] = "ready"
    /\ org' = NewOrg(c)
    /\ rows' = {row \in rows : row.org # read[c]} \cup tx[c]
    /\ pc' = [pc EXCEPT ![c] = "serving"]
    /\ read' = [read EXCEPT ![c] = None]
    /\ tx' = [tx EXCEPT ![c] = {}]
    /\ UNCHANGED <<objects, seeding, broken>>

\* Seed data that cannot be read: every attempt ends there, after the delete.
SeedDataMissing(c) ==
    /\ pc[c] = "load" /\ broken
    /\ FailedAttempt(c) /\ OwnFault(c)
    /\ UNCHANGED <<database, broken>>

\* The database or the object store fails it, or the process dies.
AttemptFails(c) ==
    /\ pc[c] \notin {"serving", "exited"}
    /\ faults[c] < MaxFaults
    /\ FailedAttempt(c) /\ OwnFault(c)
    /\ UNCHANGED <<database, broken>>

-----------------------------------------------------------------------------
(* Requests.  Each asks for the organisation first (deps.py:19-23).        *)

Goes(r, to) == pc' = [pc EXCEPT ![r] = to]

Begin(r) ==
    /\ pc[r] = "idle"
    /\ read' = [read EXCEPT ![r] = org]
    /\ Goes(r, IF org = None THEN "failed" ELSE "asked")
    /\ UNCHANGED <<database, tx, seeding, broken>>

\* An upload that parses: the questionnaire's row is flushed for its id.
InsertQuestionnaire(r) ==
    /\ r \in Uploads /\ pc[r] = "asked"
    /\ ~Waits(r) /\ org = read[r]
    /\ tx' = [tx EXCEPT ![r] = {Row("questionnaire", org, r, "uploaded")}]
    /\ Goes(r, "flushed")
    /\ UNCHANGED <<database, read, seeding, broken>>

\* Mutant: a file that could not be stored does not stop the upload.
PutIfPossible(r) ==
    /\ r \in Uploads /\ pc[r] = "flushed"
    /\ objects' \in {objects, objects \cup {<<read[r], r>>}}
    /\ tx' = [tx EXCEPT ![r] = @ \cup {Row("question", read[r], r, r)}]
    /\ Goes(r, "stored")
    /\ UNCHANGED <<org, rows, read, seeding, broken>>

\* Its file is stored under that id, and its questions added.
PutFile(r) ==
    /\ r \in Uploads /\ pc[r] = "flushed"
    /\ objects' = objects \cup {<<read[r], r>>}
    /\ tx' = [tx EXCEPT ![r] = @ \cup {Row("question", read[r], r, r)}]
    /\ Goes(r, "stored")
    /\ UNCHANGED <<org, rows, read, seeding, broken>>

\* An ad-hoc question is drafted and the questionnaire of such questions looked up;
\* when there is none, one is to be inserted with the question and its answer.
LookUpAdHoc(r) ==
    /\ r \in Asks /\ pc[r] = "asked"
    /\ LET there == {row \in rows : row.table = "questionnaire" /\ row.of = "ad_hoc"
                                      /\ row.org = read[r]}
           new == Row("questionnaire", read[r], r, "ad_hoc")
       IN \E questionnaire \in IF there = {} THEN {new} ELSE there :
            tx' = [tx EXCEPT ![r] =
                      ({questionnaire} \ there)
                      \cup {Row("question", read[r], r, questionnaire.key),
                            Row("answer", read[r], r, r)}]
    /\ Goes(r, "looked")
    /\ UNCHANGED <<database, read, seeding, broken>>

\* Mutant: nothing ties the rows to an organisation that exists.
InsertUnchecked(r) ==
    /\ r \in Asks /\ pc[r] = "looked"
    /\ Goes(r, "stored")
    /\ UNCHANGED <<database, read, tx, seeding, broken>>

InsertAdHoc(r) ==
    /\ r \in Asks /\ pc[r] = "looked"
    /\ ~Waits(r) /\ org = read[r]
    /\ Goes(r, "stored")
    /\ UNCHANGED <<database, read, tx, seeding, broken>>

\* A review loads an answer; its commit updates the answer, then inserts rows that
\* refer to the organisation.
LoadAnswer(r) ==
    /\ r \in Reviews /\ pc[r] = "asked"
    /\ LET answers == {row \in rows : row.table = "answer" /\ row.org = read[r]}
       IN IF answers = {}
          THEN Goes(r, "failed") /\ UNCHANGED tx
          ELSE /\ \E answer \in answers :
                    tx' = [tx EXCEPT ![r] = {Row("review", read[r], r, answer.key)}]
               /\ Goes(r, "looked")
    /\ UNCHANGED <<database, read, seeding, broken>>

UpdateAnswer(r) ==
    /\ r \in Reviews /\ pc[r] = "looked"
    /\ org = read[r] /\ \A c \in Containers : ~Deleted(c)
    /\ Goes(r, "updated")
    /\ UNCHANGED <<database, read, tx, seeding, broken>>

InsertReview(r) ==
    /\ r \in Reviews /\ pc[r] = "updated"
    /\ ~Waits(r)
    /\ Goes(r, "stored")
    /\ UNCHANGED <<database, read, tx, seeding, broken>>

CommitRequest(r) ==
    /\ pc[r] = "stored"
    /\ rows' = rows \cup tx[r]
    /\ tx' = [tx EXCEPT ![r] = {}]
    /\ Goes(r, "done")
    /\ UNCHANGED <<org, objects, read, seeding, broken>>

Failed(r) == Goes(r, "failed") /\ tx' = [tx EXCEPT ![r] = {}] /\ UNCHANGED read

\* The organisation it refers to, with the answer it updates, is gone.
RequestRefused(r) ==
    /\ pc[r] = "looked" \/ (r \in Uploads /\ pc[r] = "asked")
    /\ org # read[r]
    /\ Failed(r)
    /\ UNCHANGED <<database, seeding, broken>>

\* The database, the object store or the process fails it.
RequestDies(r) ==
    /\ pc[r] \notin {"idle", "done", "failed"}
    /\ Failed(r)
    /\ UNCHANGED <<database, seeding, broken>>

\* The seed waits for the row a review has updated, the review for the organisation
\* the seed deletes: PostgreSQL aborts one of the two.
ResolveDeadlock(c, r) ==
    /\ Deleting(c) /\ pc[c] = "cascade"
    /\ Updating(r) /\ pc[r] = "updated" /\ read[r] = org
    /\ \/ Failed(r) /\ UNCHANGED attempt
       \/ FailedAttempt(c)
    /\ UNCHANGED <<database, faults, broken>>

-----------------------------------------------------------------------------
SeedStep(c) ==
    \/ CheckOrg(c)
    \/ LockOrg(c)
    \/ Cascade(c)
    \/ InsertOrg(c)
    \/ \E d \in Docs : LoadDocument(c, d)
    \/ IngestCorpus(c)
    \/ CommitSeed(c)
    \/ SeedDataMissing(c)

RequestStep(r) ==
    \/ InsertQuestionnaire(r)
    \/ PutFile(r)
    \/ LookUpAdHoc(r)
    \/ InsertAdHoc(r)
    \/ LoadAnswer(r)
    \/ UpdateAnswer(r)
    \/ InsertReview(r)
    \/ CommitRequest(r)
    \/ RequestRefused(r)

Next ==
    \/ \E c \in Containers : SeedStep(c) \/ AttemptFails(c)
    \/ \E r \in Requests : Begin(r) \/ RequestStep(r) \/ RequestDies(r)
    \/ \E c \in Containers, r \in Reviews : ResolveDeadlock(c, r)

Spec == Init /\ [][Next]_vars

\* Seeds and requests that have begun go on; PostgreSQL looks for deadlocks.
Fairness ==
    /\ \A c \in Containers : WF_vars(SeedStep(c))
    /\ \A r \in Requests : WF_vars(RequestStep(r))
    /\ \A c \in Containers, r \in Reviews : WF_vars(ResolveDeadlock(c, r))

FairSpec == Spec /\ Fairness

-----------------------------------------------------------------------------
(* Correctness.                                                            *)

PCs == {"boot", "delete", "cascade", "insert", "load", "ready", "serving", "exited", "idle",
        "asked", "flushed", "looked", "updated", "stored", "done", "failed"}

TypeOK ==
    /\ org \in Organizations \cup {None}
    /\ rows \subseteq Rows /\ objects \subseteq Organizations \X Names
    /\ pc \in [Processes -> PCs]
    /\ tx \in [Processes -> SUBSET Rows]
    /\ read \in [Processes -> Organizations \cup {None}]
    /\ attempt \in [Containers -> 1..MaxAttempts]
    /\ faults \in [Containers -> 0..MaxAttempts]
    /\ broken \in BOOLEAN

NamesObject(row) ==
    row.table = "evidence" \/ (row.table = "questionnaire" /\ row.of = "uploaded")

\* A committed row that names an object has it in the store, whatever failed between
\* the two writes and whichever seed or upload made it (service.py:106-110,
\* seed.py:250-254).
RowsHaveObjects ==
    \A row \in rows : NamesObject(row) => <<row.org, row.key>> \in objects

Keys(table) == {row.key : row \in {x \in rows : x.table = table}}

\* There is one organisation, whole, and nothing outside it (seed.py:1-11, cascades of
\* db/models.py): every row is of the organisation and its parent is there; every
\* seed document is there, and has chunks unless it was quarantined.
OneWholeOrg ==
    /\ \A row \in rows : row.org = org
    /\ org # None => Keys("evidence") = Docs /\ "inbound" \in Keys("questionnaire")
    /\ \A row \in rows :
        /\ row.table = "evidence" => (row.key \in Keys("chunk") <=> row.of # "quarantined")
        /\ row.table = "question" => row.of \in Keys("questionnaire")
        /\ row.table = "answer" => row.of \in Keys("question")
        /\ row.table = "review" => row.of \in Keys("answer")

\* A database that is seeded stays so: a seed that replaces the organisation does it in
\* one commit, and one that fails, at whatever point and however often, leaves the old
\* one; a container serves nothing before there is one (entrypoint.sh:20-41).
NeverUnseeded ==
    [][/\ org # None => org' # None
       /\ \A c \in Containers : pc'[c] = "serving" => org' # None]_vars

\* A container that is not forced gives up for reasons of its own: the seeds of others
\* cost it no more than one of its attempts (entrypoint.sh:22-34).
GiveUpEarned ==
    \A c \in Containers \ Forced : pc[c] = "exited" => faults[c] >= MaxAttempts - 1

\* Every container comes to serve or to exit, and every request that began to an end,
\* forced seeds and deadlocks notwithstanding.
Settle ==
    /\ \A c \in Containers : <>(pc[c] \in {"serving", "exited"})
    /\ \A r \in Requests : pc[r] = "asked" ~> pc[r] \in {"done", "failed"}
=============================================================================
