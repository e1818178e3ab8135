------------------------- MODULE ProvisioningProofs -------------------------
(***************************************************************************)
(* Proofs about Provisioning, for any containers, requests and documents,  *)
(* any number of attempts and either injection policy.                     *)
(***************************************************************************)
EXTENDS Provisioning, TLAPS

-----------------------------------------------------------------------------
(* Types and phases.                                                       *)

\* Containers and requests each have their own phases; those of a request depend on
\* its kind.
Phases ==
    /\ \A c \in Containers : pc[c] \in {"boot", "delete", "cascade", "insert", "load",
                                        "ready", "serving", "exited"}
    /\ \A r \in Requests : pc[r] \in {"idle", "asked", "stored", "done", "failed"} \cup
                              (IF r \in Uploads THEN {"flushed"}
                               ELSE IF r \in Asks THEN {"looked"} ELSE {"looked", "updated"})

\* What a process reads, and what a container that serves relies on.
ReadsOrg ==
    /\ \A c \in Containers : /\ pc[c] = "delete" => read[c] # None
                             /\ pc[c] = "serving" => org # None
                             /\ c \notin Forced => read[c] = None
    /\ \A r \in Requests : pc[r] \in {"asked", "flushed", "looked", "updated", "stored"} =>
                              read[r] # None

TypeInv == TypeOK /\ Phases /\ ReadsOrg

\* A step is one of a container, of a request, of both in a deadlock, or none.
LEMMA Steps ==
    ASSUME [Next]_vars
    PROVE  \/ \E c \in Containers :
                \/ CheckOrg(c) \/ LockOrg(c) \/ Cascade(c) \/ InsertOrg(c)
                \/ \E d \in Docs : LoadDocument(c, d)
                \/ IngestCorpus(c) \/ CommitSeed(c) \/ SeedDataMissing(c) \/ AttemptFails(c)
                \/ \E r \in Reviews : ResolveDeadlock(c, r)
           \/ \E r \in Requests :
                \/ Begin(r) \/ InsertQuestionnaire(r) \/ PutFile(r) \/ LookUpAdHoc(r)
                \/ InsertAdHoc(r) \/ LoadAnswer(r) \/ UpdateAnswer(r) \/ InsertReview(r)
                \/ CommitRequest(r) \/ RequestRefused(r) \/ RequestDies(r)
           \/ UNCHANGED vars
  BY DEF Next, SeedStep, RequestStep

\* Two processes are not the same.
LEMMA Disjoint ==
    /\ Containers \subseteq Processes /\ Requests \subseteq Processes
    /\ Uploads \subseteq Requests /\ Asks \subseteq Requests /\ Reviews \subseteq Requests
    /\ \A c \in Containers, r \in Requests : c # r
  BY KindsAssumption DEF Processes, Requests

\* What can be said of an organisation of a container.
LEMMA NewOrgType ==
    ASSUME TypeOK, NEW c \in Containers
    PROVE  NewOrg(c) \in Organizations
  BY DEF TypeOK, NewOrg, Organizations

\* A row of an organisation and a name is a row.
LEMMA RowType ==
    ASSUME NEW table \in Tables, NEW o \in Organizations, NEW key \in Names,
           NEW of \in Names \cup Kinds
    PROVE  /\ Row(table, o, key, of) \in Rows
           /\ Row(table, o, key, of).table = table /\ Row(table, o, key, of).org = o
           /\ Row(table, o, key, of).key = key /\ Row(table, o, key, of).of = of
  BY DEF Row, Rows

\* The rows of a document and of the inbound questionnaire are rows.
LEMMA SeedRowsType ==
    ASSUME NEW o \in Organizations
    PROVE  /\ \A d \in Docs : ScreenAndIngest(d, o) \subseteq Rows
           /\ Inbound(o) \subseteq Rows
           /\ SeedRows(o) \subseteq Rows
  <1>1. \A d \in Docs : ScreenAndIngest(d, o) \subseteq Rows
    <2> SUFFICES ASSUME NEW d \in Docs PROVE ScreenAndIngest(d, o) \subseteq Rows
      OBVIOUS
    <2>1. d \in Names
      BY DEF Names
    <2> QED
      BY <2>1 DEF ScreenAndIngest, Row, Rows, Tables, Kinds
  <1>2. Inbound(o) \subseteq Rows
    BY DEF Inbound, Row, Rows, Tables, Kinds, Names
  <1>3. UNION {ScreenAndIngest(d, o) : d \in Docs} \subseteq Rows
    <2> SUFFICES ASSUME NEW x \in UNION {ScreenAndIngest(d, o) : d \in Docs} PROVE x \in Rows
      OBVIOUS
    <2>1. PICK d \in Docs : x \in ScreenAndIngest(d, o)
      OBVIOUS
    <2> QED
      BY <1>1, <2>1
  <1> QED
    BY <1>1, <1>2, <1>3 DEF SeedRows

\* Types and phases before anything has happened.
LEMMA TypeInit == Init => TypeInv
  <1> SUFFICES ASSUME Init PROVE TypeInv
    OBVIOUS
  <1>1. Earlier \in Organizations /\ None \notin Organizations
    BY NoneAssumption DEF Organizations
  <1>2. rows \subseteq Rows /\ org \in Organizations \cup {None}
    <2>1. Row("answer", Earlier, "inbound", "inbound") \in Rows
      BY <1>1 DEF Row, Rows, Tables, Names
    <2>2. SeedRows(Earlier) \subseteq Rows
      BY <1>1, SeedRowsType
    <2> QED
      BY <1>1, <2>1, <2>2 DEF Init
  <1>3. objects \subseteq Organizations \X Names
    BY <1>1 DEF Init, SeedObjects, Names
  <1>4. /\ pc \in [Processes -> PCs] /\ tx \in [Processes -> SUBSET Rows]
        /\ read \in [Processes -> Organizations \cup {None}]
        /\ \A p \in Processes : read[p] = None
    BY DEF Init, PCs
  <1>5. /\ attempt \in [Containers -> 1..MaxAttempts]
        /\ faults \in [Containers -> 0..MaxAttempts] /\ broken \in BOOLEAN
    BY AttemptsAssumption DEF Init
  <1>6. Phases /\ ReadsOrg
    BY <1>4, Disjoint DEF Phases, ReadsOrg, Init
  <1> QED
    BY <1>2, <1>3, <1>4, <1>5, <1>6 DEF TypeInv, TypeOK

\* An attempt that fails.
LEMMA FailedEffect ==
    ASSUME TypeInv, NEW c \in Containers, FailedAttempt(c)
    PROVE  /\ pc' \in [Processes -> PCs] /\ read' \in [Processes -> Organizations \cup {None}]
           /\ tx' \in [Processes -> SUBSET Rows] /\ attempt' \in [Containers -> 1..MaxAttempts]
           /\ pc'[c] \in {"boot", "exited"} /\ read'[c] = None /\ tx'[c] = {}
           /\ \A p \in Processes \ {c} :
                pc'[p] = pc[p] /\ read'[p] = read[p] /\ tx'[p] = tx[p]
           /\ \A d \in Containers \ {c} : attempt'[d] = attempt[d]
           /\ IF attempt[c] < MaxAttempts
              THEN pc'[c] = "boot" /\ attempt'[c] = attempt[c] + 1
              ELSE pc'[c] = "exited" /\ attempt'[c] = attempt[c]
  <1> USE DEF TypeInv, TypeOK, FailedAttempt
  <1>1. c \in Processes
    BY Disjoint
  <1>2. pc' \in [Processes -> PCs] /\ read' \in [Processes -> Organizations \cup {None}]
        /\ tx' \in [Processes -> SUBSET Rows]
    BY <1>1 DEF PCs
  <1>3. attempt' \in [Containers -> 1..MaxAttempts]
    BY AttemptsAssumption
  <1> QED
    BY <1>1, <1>2, <1>3

\* A fault that is counted.
LEMMA FaultEffect ==
    ASSUME TypeInv, NEW c \in Containers, OwnFault(c)
    PROVE  /\ faults' \in [Containers -> 0..MaxAttempts]
           /\ \A d \in Containers \ {c} : faults'[d] = faults[d]
           /\ faults'[c] = IF faults[c] < MaxAttempts THEN faults[c] + 1 ELSE faults[c]
  BY AttemptsAssumption DEF TypeInv, TypeOK, OwnFault

\* Whatever a step changes, it is of one process, and what is committed grows or is
\* replaced: the frame of an action of process p that is no commit.
Local(p) ==
    /\ UNCHANGED <<org, rows>> /\ objects \subseteq objects'
    /\ \A q \in Processes \ {p} : pc'[q] = pc[q] /\ read'[q] = read[q] /\ tx'[q] = tx[q]
    /\ \A d \in Containers \ {p} : attempt'[d] = attempt[d] /\ faults'[d] = faults[d]

\* A failed attempt of a container, own fault or not.
LEMMA FailedType ==
    ASSUME TypeInv, NEW c \in Containers, FailedAttempt(c), UNCHANGED <<database, broken>>,
           OwnFault(c) \/ UNCHANGED faults
    PROVE  TypeInv' /\ Local(c)
  <1>1. TypeOK'
    BY FailedEffect, FaultEffect DEF TypeInv, TypeOK, database
  <1>2. Local(c)
    BY FailedEffect, FaultEffect DEF Local, database
  <1>3. Phases' /\ ReadsOrg'
    BY <1>2, FailedEffect, Disjoint DEF TypeInv, Phases, ReadsOrg, Local
  <1> QED
    BY <1>1, <1>2, <1>3 DEF TypeInv

\* The other steps of a container before it commits.
LEMMA SeedType ==
    ASSUME TypeInv, NEW c \in Containers,
           \/ CheckOrg(c) \/ LockOrg(c) \/ Cascade(c) \/ IngestCorpus(c)
           \/ InsertOrg(c) /\ ~FailedAttempt(c)
           \/ \E d \in Docs : LoadDocument(c, d)
    PROVE  TypeInv' /\ Local(c)
  <1> USE Disjoint DEF TypeInv, TypeOK, database, seeding
  <1>1. c \in Processes /\ NewOrg(c) \in Organizations /\ NewOrg(c)' = NewOrg(c)
    BY NewOrgType DEF CheckOrg, LockOrg, Cascade, IngestCorpus, InsertOrg, LoadDocument, NewOrg
  <1>2. CASE CheckOrg(c)
    <2>1. TypeOK' /\ Local(c)
      BY <1>1, <1>2 DEF CheckOrg, Local, PCs
    <2>2. Phases' /\ ReadsOrg'
      BY <1>1, <1>2 DEF CheckOrg, Phases, ReadsOrg
    <2> QED
      BY <2>1, <2>2
  <1>3. CASE LockOrg(c) \/ Cascade(c) \/ (InsertOrg(c) /\ ~FailedAttempt(c))
    <2>1. TypeOK' /\ Local(c)
      BY <1>1, <1>3 DEF LockOrg, Cascade, InsertOrg, Local, PCs
    <2>2. Phases' /\ ReadsOrg'
      BY <1>1, <1>3 DEF LockOrg, Cascade, InsertOrg, Phases, ReadsOrg
    <2> QED
      BY <2>1, <2>2
  <1>4. ASSUME NEW d \in Docs, LoadDocument(c, d)
        PROVE  TypeInv' /\ Local(c)
    <2>1. Row("evidence", NewOrg(c), d, "active") \in Rows
      BY <1>1, RowType DEF Tables, Names, Kinds
    <2>2. <<NewOrg(c), d>> \in Organizations \X Names
      BY <1>1 DEF Names
    <2>3. TypeOK' /\ Local(c)
      BY <1>1, <1>4, <2>1, <2>2 DEF LoadDocument, Local
    <2>4. Phases' /\ ReadsOrg'
      BY <1>1, <1>4 DEF LoadDocument, Phases, ReadsOrg
    <2> QED
      BY <2>3, <2>4
  <1>5. CASE IngestCorpus(c)
    <2>1. Inbound(NewOrg(c)) \cup UNION {ScreenAndIngest(row.key, row.org) : row \in tx[c]}
            \subseteq Rows
      <3>1. \A row \in tx[c] : row.key \in Docs /\ row.org \in Organizations
        BY <1>1, <1>5 DEF IngestCorpus, Rows
      <3>2. /\ \A row \in tx[c] : ScreenAndIngest(row.key, row.org) \subseteq Rows
            /\ Inbound(NewOrg(c)) \subseteq Rows
        BY <1>1, <3>1, SeedRowsType
      <3>3. UNION {ScreenAndIngest(row.key, row.org) : row \in tx[c]} \subseteq Rows
        <4> SUFFICES ASSUME NEW x \in UNION {ScreenAndIngest(row.key, row.org) : row \in tx[c]}
                     PROVE  x \in Rows
          OBVIOUS
        <4>1. PICK row \in tx[c] : x \in ScreenAndIngest(row.key, row.org)
          OBVIOUS
        <4> QED
          BY <3>2, <4>1
      <3> QED
        BY <3>2, <3>3
    <2>2. <<NewOrg(c), "inbound">> \in Organizations \X Names
      BY <1>1 DEF Names
    <2>3. TypeOK' /\ Local(c)
      BY <1>1, <1>5, <2>1, <2>2 DEF IngestCorpus, Local, PCs
    <2>4. Phases' /\ ReadsOrg'
      BY <1>1, <1>5 DEF IngestCorpus, Phases, ReadsOrg
    <2> QED
      BY <2>3, <2>4
  <1> QED
    BY <1>2, <1>3, <1>4, <1>5

\* The steps of a request before it commits.
LEMMA RequestType ==
    ASSUME TypeInv, NEW r \in Requests,
           \/ Begin(r) \/ InsertQuestionnaire(r) \/ PutFile(r) \/ LookUpAdHoc(r)
           \/ InsertAdHoc(r) \/ LoadAnswer(r) \/ UpdateAnswer(r) \/ InsertReview(r)
           \/ RequestRefused(r) \/ RequestDies(r)
    PROVE  TypeInv' /\ Local(r)
  <1> USE Disjoint, KindsAssumption DEF TypeInv, TypeOK, database, seeding, Goes, Local
  <1>1. r \in Processes /\ r \in Names /\ r \notin Containers
    BY DEF Names
  <1>2. pc[r] \in {"asked", "flushed", "looked", "updated", "stored"} =>
            read[r] \in Organizations
    BY <1>1 DEF ReadsOrg
  <1>3. CASE Begin(r)
    <2>1. TypeOK' /\ Local(r)
      BY <1>1, <1>3 DEF Begin, PCs
    <2>2. Phases' /\ ReadsOrg'
      BY <1>1, <1>3 DEF Begin, Phases, ReadsOrg
    <2> QED
      BY <2>1, <2>2
  <1>4. CASE InsertQuestionnaire(r)
    <2>1. Row("questionnaire", org, r, "uploaded") \in Rows /\ org = read[r]
      BY <1>1, <1>2, <1>4, RowType DEF InsertQuestionnaire, Tables, Kinds
    <2>2. TypeOK' /\ Local(r)
      BY <1>1, <1>4, <2>1 DEF InsertQuestionnaire, PCs
    <2>3. Phases' /\ ReadsOrg'
      BY <1>1, <1>4 DEF InsertQuestionnaire, Phases, ReadsOrg
    <2> QED
      BY <2>2, <2>3
  <1>5. CASE PutFile(r)
    <2>1. Row("question", read[r], r, r) \in Rows /\ <<read[r], r>> \in Organizations \X Names
      BY <1>1, <1>2, <1>5, RowType DEF PutFile, Tables
    <2>2. TypeOK' /\ Local(r)
      BY <1>1, <1>5, <2>1 DEF PutFile, PCs
    <2>3. Phases' /\ ReadsOrg'
      BY <1>1, <1>5 DEF PutFile, Phases, ReadsOrg
    <2> QED
      BY <2>2, <2>3
  <1>6. CASE LookUpAdHoc(r)
    <2> DEFINE there == {row \in rows : row.table = "questionnaire" /\ row.of = "ad_hoc"
                                        /\ row.org = read[r]}
               new == Row("questionnaire", read[r], r, "ad_hoc")
               of(q) == ({q} \ there) \cup {Row("question", read[r], r, q.key),
                                            Row("answer", read[r], r, r)}
    <2>1. PICK q \in IF there = {} THEN {new} ELSE there : tx' = [tx EXCEPT ![r] = of(q)]
      BY <1>6 DEF LookUpAdHoc
    <2>2. new \in Rows /\ Row("answer", read[r], r, r) \in Rows
      BY <1>1, <1>2, <1>6, RowType DEF LookUpAdHoc, Tables, Kinds
    <2>3. q \in Rows
      BY <2>1, <2>2
    <2>4. Row("question", read[r], r, q.key) \in Rows
      <3>1. q.key \in Names
        BY <2>3 DEF Rows
      <3> QED
        BY <1>1, <1>2, <1>6, <3>1, RowType DEF LookUpAdHoc, Tables
    <2>5. of(q) \in SUBSET Rows
      BY <2>2, <2>3, <2>4
    <2> HIDE DEF of
    <2>6. TypeOK' /\ Local(r)
      BY <1>1, <1>6, <2>1, <2>5 DEF LookUpAdHoc, PCs
    <2>7. Phases' /\ ReadsOrg'
      BY <1>1, <1>6 DEF LookUpAdHoc, Phases, ReadsOrg
    <2> QED
      BY <2>6, <2>7
  <1>7. CASE InsertAdHoc(r) \/ UpdateAnswer(r) \/ InsertReview(r)
    <2>1. TypeOK' /\ Local(r)
      BY <1>1, <1>7 DEF InsertAdHoc, UpdateAnswer, InsertReview, PCs
    <2>2. Phases' /\ ReadsOrg'
      BY <1>1, <1>7 DEF InsertAdHoc, UpdateAnswer, InsertReview, Phases, ReadsOrg
    <2> QED
      BY <2>1, <2>2
  <1>8. CASE LoadAnswer(r)
    <2>1. \A row \in rows : Row("review", read[r], r, row.key) \in Rows
      <3>1. \A row \in rows : row.key \in Names
        BY DEF Rows
      <3> QED
        BY <1>1, <1>2, <1>8, <3>1, RowType DEF LoadAnswer, Tables
    <2>2. \/ pc' = [pc EXCEPT ![r] = "failed"] /\ tx' = tx
          \/ /\ pc' = [pc EXCEPT ![r] = "looked"]
             /\ \E row \in rows : tx' = [tx EXCEPT ![r] = {Row("review", read[r], r, row.key)}]
      BY <1>8 DEF LoadAnswer
    <2>3. TypeOK' /\ Local(r)
      BY <1>1, <1>8, <2>1, <2>2 DEF LoadAnswer, PCs
    <2>4. Phases' /\ ReadsOrg'
      BY <1>1, <1>8, <2>2 DEF LoadAnswer, Phases, ReadsOrg
    <2> QED
      BY <2>3, <2>4
  <1>9. CASE RequestRefused(r) \/ RequestDies(r)
    <2>1. TypeOK' /\ Local(r)
      BY <1>1, <1>9 DEF RequestRefused, RequestDies, Failed, PCs
    <2>2. Phases' /\ ReadsOrg'
      BY <1>1, <1>9 DEF RequestRefused, RequestDies, Failed, Phases, ReadsOrg
    <2> QED
      BY <2>1, <2>2
  <1> QED
    BY <1>3, <1>4, <1>5, <1>6, <1>7, <1>8, <1>9

\* The request a deadlock is resolved against.
LEMMA VictimType ==
    ASSUME TypeInv, NEW r \in Requests, Failed(r), UNCHANGED <<database, seeding, broken>>
    PROVE  TypeInv' /\ Local(r)
  <1> USE Disjoint DEF TypeInv, TypeOK, database, seeding, Goes, Local, Failed
  <1>1. TypeOK' /\ Local(r)
    BY DEF PCs
  <1>2. Phases' /\ ReadsOrg'
    BY DEF Phases, ReadsOrg
  <1> QED
    BY <1>1, <1>2

\* What a commit changes.
LEMMA CommitSeedEffect ==
    ASSUME TypeInv, NEW c \in Containers, CommitSeed(c)
    PROVE  /\ TypeInv' /\ org' = NewOrg(c) /\ pc[c] = "ready"
           /\ rows' = {row \in rows : row.org # read[c]} \cup tx[c]
           /\ pc'[c] = "serving" /\ read'[c] = None /\ tx'[c] = {}
           /\ UNCHANGED <<objects, attempt, faults, broken>>
           /\ \A p \in Processes \ {c} :
                pc'[p] = pc[p] /\ read'[p] = read[p] /\ tx'[p] = tx[p]
  <1> USE Disjoint DEF TypeInv, TypeOK, seeding, CommitSeed
  <1>1. c \in Processes /\ NewOrg(c) \in Organizations /\ NewOrg(c) # None
    BY NewOrgType, NoneAssumption
  <1>2. TypeOK'
    BY <1>1 DEF PCs
  <1>3. Phases' /\ ReadsOrg'
    BY <1>1 DEF Phases, ReadsOrg
  <1> QED
    BY <1>1, <1>2, <1>3

\* The commit of a request.
LEMMA CommitRequestEffect ==
    ASSUME TypeInv, NEW r \in Requests, CommitRequest(r)
    PROVE  /\ TypeInv' /\ pc[r] = "stored" /\ pc'[r] = "done"
           /\ rows' = rows \cup tx[r] /\ tx'[r] = {} /\ read' = read
           /\ UNCHANGED <<org, objects, attempt, faults, broken>>
           /\ \A p \in Processes \ {r} : pc'[p] = pc[p] /\ tx'[p] = tx[p]
  <1> USE Disjoint DEF TypeInv, TypeOK, seeding, CommitRequest, Goes
  <1>1. r \in Processes
    OBVIOUS
  <1>2. TypeOK'
    BY <1>1 DEF PCs
  <1>3. Phases' /\ ReadsOrg'
    BY <1>1 DEF Phases, ReadsOrg
  <1> QED
    BY <1>1, <1>2, <1>3

\* A step is a commit, or is local to one process, or is none; types are kept.
LEMMA LocalSteps ==
    ASSUME TypeInv, [Next]_vars
    PROVE  /\ TypeInv'
           /\ \/ \E c \in Containers : CommitSeed(c)
              \/ \E r \in Requests : CommitRequest(r)
              \/ \E p \in Processes : Local(p)
              \/ UNCHANGED vars
  <1>1. ASSUME NEW c \in Containers, FailedAttempt(c), UNCHANGED <<database, broken>>,
               OwnFault(c) \/ UNCHANGED faults
        PROVE  TypeInv' /\ Local(c)
    BY <1>1, FailedType
  <1>2. ASSUME NEW c \in Containers, SeedDataMissing(c) \/ AttemptFails(c) \/ InsertOrg(c)
        PROVE  TypeInv' /\ Local(c)
    BY <1>1, <1>2, SeedType DEF SeedDataMissing, AttemptFails, InsertOrg, database
  <1>3. ASSUME NEW c \in Containers, NEW r \in Reviews, ResolveDeadlock(c, r)
        PROVE  TypeInv' /\ (Local(c) \/ Local(r))
    BY <1>1, <1>3, VictimType, Disjoint DEF ResolveDeadlock, Failed, database, seeding
  <1>4. CASE UNCHANGED vars
    BY <1>4 DEF vars, database, seeding, TypeInv, TypeOK, Phases, ReadsOrg
  <1> QED
    BY <1>2, <1>3, <1>4, Steps, SeedType, RequestType, CommitSeedEffect, CommitRequestEffect,
       Disjoint

\* TypeInv is an invariant.
LEMMA TypeInvariant == Spec => []TypeInv
  BY TypeInit, LocalSteps, PTL DEF Spec

\* Types: of what is committed, of what is pending and of where each process is.
THEOREM ProvisioningTypeCorrect == Spec => []TypeOK
  <1>1. TypeInv => TypeOK
    BY DEF TypeInv
  <1> QED
    BY <1>1, TypeInvariant, PTL

\* Once seeded, always seeded (NeverUnseeded): whichever seeds replace the organisation or
\* fail to, there is one at every step, and before any container serves.
THEOREM NeverUnseededHolds == Spec => NeverUnseeded
  <1>1. TypeInv /\ [Next]_vars =>
          [/\ org # None => org' # None
           /\ \A c \in Containers : pc'[c] = "serving" => org' # None]_vars
    <2> SUFFICES ASSUME TypeInv, [Next]_vars
                 PROVE  /\ org # None => org' # None
                        /\ \A c \in Containers : pc'[c] = "serving" => org' # None
      OBVIOUS
    <2>1. \A c \in Containers : pc'[c] = "serving" => org' # None
      BY LocalSteps DEF TypeInv, ReadsOrg
    <2>2. \A c \in Containers : CommitSeed(c) => org' # None
      BY NewOrgType, NoneAssumption DEF CommitSeed, TypeInv
    <2> QED
      BY <2>1, <2>2, LocalSteps, CommitRequestEffect DEF Local, vars, database
  <1> QED
    BY <1>1, TypeInvariant, PTL DEF Spec, NeverUnseeded

-----------------------------------------------------------------------------
(* The attempts of a container.                                            *)

\* A container that is not forced has earned its attempts but for one that it lost to
\* another's seed, after which it finds the organisation there.
Earned(c) ==
    IF pc[c] = "exited" THEN faults[c] >= MaxAttempts - 1
    ELSE \/ pc[c] = "serving"
         \/ faults[c] >= attempt[c] - 1
         \/ pc[c] = "boot" /\ org # None /\ faults[c] >= attempt[c] - 2

AttemptsEarned == \A c \in Containers \ Forced : Earned(c)

\* A container's own steps keep what it has earned.
LEMMA EarnedOwn ==
    ASSUME TypeInv, NEW c \in Containers \ Forced, Earned(c),
           \/ CheckOrg(c) \/ LockOrg(c) \/ Cascade(c) \/ InsertOrg(c)
           \/ \E d \in Docs : LoadDocument(c, d)
           \/ IngestCorpus(c) \/ CommitSeed(c) \/ SeedDataMissing(c) \/ AttemptFails(c)
           \/ \E r \in Reviews : ResolveDeadlock(c, r)
    PROVE  Earned(c)'
  <1>1. /\ c \in Containers /\ c \in Processes /\ read[c] = None
        /\ pc \in [Processes -> PCs]
        /\ attempt[c] \in 1..MaxAttempts /\ faults[c] \in 0..MaxAttempts
        /\ MaxAttempts \in Nat \ {0}
    BY Disjoint, AttemptsAssumption DEF TypeInv, TypeOK, ReadsOrg
  <1>2. ~Deleting(c)
    BY <1>1 DEF Deleting
  <1>3. CASE SeedDataMissing(c) \/ AttemptFails(c)
    <2>1. FailedAttempt(c) /\ OwnFault(c) /\ org' = org /\ pc[c] \notin {"serving", "exited"}
      BY <1>3 DEF SeedDataMissing, AttemptFails, database
    <2>2. faults'[c] = IF faults[c] < MaxAttempts THEN faults[c] + 1 ELSE faults[c]
      BY <1>1, <2>1, FaultEffect
    <2>3. IF attempt[c] < MaxAttempts
          THEN pc'[c] = "boot" /\ attempt'[c] = attempt[c] + 1
          ELSE pc'[c] = "exited" /\ attempt'[c] = attempt[c]
      BY <1>1, <2>1, FailedEffect
    <2> QED
      BY <1>1, <2>1, <2>2, <2>3 DEF Earned
  <1>4. CASE InsertOrg(c)
    <2>1. faults[c] >= attempt[c] - 1 /\ faults' = faults /\ org' = org
      BY <1>4 DEF InsertOrg, Earned, database
    <2>2. CASE org = None
      BY <1>1, <1>4, <2>1, <2>2 DEF InsertOrg, Earned
    <2>3. CASE org # None
      <3>1. FailedAttempt(c)
        BY <1>2, <1>4, <2>3 DEF InsertOrg
      <3>2. IF attempt[c] < MaxAttempts
            THEN pc'[c] = "boot" /\ attempt'[c] = attempt[c] + 1
            ELSE pc'[c] = "exited" /\ attempt'[c] = attempt[c]
        BY <1>1, <3>1, FailedEffect
      <3> QED
        BY <1>1, <2>1, <2>3, <3>2 DEF Earned
    <2> QED
      BY <2>2, <2>3
  <1>5. CASE CheckOrg(c)
    BY <1>1, <1>5 DEF CheckOrg, Earned, seeding
  <1>6. CASE LockOrg(c) \/ Cascade(c) \/ IngestCorpus(c) \/ CommitSeed(c)
             \/ \E d \in Docs : LoadDocument(c, d)
    <2>1. /\ pc[c] \in {"delete", "cascade", "load", "ready"}
          /\ pc'[c] \in {"cascade", "insert", "load", "ready", "serving"}
      BY <1>1, <1>6 DEF LockOrg, Cascade, IngestCorpus, CommitSeed, LoadDocument
    <2>2. attempt' = attempt /\ faults' = faults
      BY <1>6 DEF LockOrg, Cascade, IngestCorpus, CommitSeed, LoadDocument, seeding
    <2> QED
      BY <2>1, <2>2 DEF Earned
  <1>7. ~\E r \in Reviews : ResolveDeadlock(c, r)
    BY <1>2 DEF ResolveDeadlock
  <1> QED
    BY <1>3, <1>4, <1>5, <1>6, <1>7

\* Nobody takes from a container what it has earned.
LEMMA EarnedOther ==
    ASSUME TypeInv, NEW c \in Containers \ Forced, Earned(c), pc'[c] = pc[c],
           attempt'[c] = attempt[c], faults'[c] = faults[c], org # None => org' # None
    PROVE  Earned(c)'
  BY DEF Earned

\* Every step keeps it.
LEMMA EarnedStep == TypeInv /\ AttemptsEarned /\ [Next]_vars => AttemptsEarned'
  <1> SUFFICES ASSUME TypeInv, AttemptsEarned, [Next]_vars, NEW c \in Containers \ Forced
               PROVE  Earned(c)'
    BY DEF AttemptsEarned
  <1>1. Earned(c) /\ c \in Processes
    BY Disjoint DEF AttemptsEarned
  <1>2. ASSUME NEW p \in Processes \ {c}, Local(p)
        PROVE  Earned(c)'
    BY <1>1, <1>2, EarnedOther DEF Local
  <1>3. ASSUME NEW d \in Containers \ {c}, CommitSeed(d)
        PROVE  Earned(c)'
    <2>1. org' # None
      BY <1>3, NewOrgType, NoneAssumption DEF CommitSeed, TypeInv
    <2> QED
      BY <1>1, <1>3, <2>1, CommitSeedEffect, EarnedOther
  <1>4. ASSUME NEW r \in Requests, CommitRequest(r)
        PROVE  Earned(c)'
    BY <1>1, <1>4, CommitRequestEffect, EarnedOther, Disjoint
  <1>5. ASSUME NEW d \in Containers, NEW r \in Reviews, ResolveDeadlock(d, r), d # c
        PROVE  Earned(c)'
    <2>1. Local(d) \/ Local(r)
      BY <1>5, FailedType, VictimType, Disjoint
         DEF ResolveDeadlock, Failed, database, seeding
    <2> QED
      BY <1>2, <1>5, <2>1, Disjoint
  <1>6. ASSUME NEW d \in Containers, d # c,
               \/ CheckOrg(d) \/ LockOrg(d) \/ Cascade(d) \/ InsertOrg(d)
               \/ \E x \in Docs : LoadDocument(d, x)
               \/ IngestCorpus(d) \/ SeedDataMissing(d) \/ AttemptFails(d)
        PROVE  Earned(c)'
    <2>1. Local(d)
      BY <1>6, FailedType, SeedType DEF SeedDataMissing, AttemptFails, InsertOrg, database
    <2> QED
      BY <1>2, <1>6, <2>1, Disjoint
  <1>7. CASE UNCHANGED vars
    BY <1>1, <1>7, EarnedOther DEF vars, database, seeding
  <1> QED
    BY <1>1, <1>2, <1>3, <1>4, <1>5, <1>6, <1>7, Steps, EarnedOwn, RequestType, Disjoint

\* A container that is not forced gives up for faults of its own (GiveUpEarned), however
\* many others seed and however their transactions meet its own.
THEOREM GiveUpEarnedHolds == Spec => []GiveUpEarned
  <1>1. Init => AttemptsEarned
    <2> SUFFICES ASSUME Init, NEW c \in Containers PROVE Earned(c)
      BY DEF AttemptsEarned
    <2>1. pc[c] = "boot" /\ faults[c] = 0 /\ attempt[c] = 1
      BY Disjoint DEF Init
    <2> QED
      BY <2>1 DEF Earned
  <1>2. AttemptsEarned => GiveUpEarned
    BY DEF AttemptsEarned, Earned, GiveUpEarned
  <1> QED
    BY <1>1, <1>2, EarnedStep, TypeInvariant, PTL DEF Spec

-----------------------------------------------------------------------------
(* Rows and their objects.                                                 *)

\* A container's new rows are of its own organisation, and complete once it is ready.
SeedTx(c) ==
    /\ pc[c] \notin {"load", "ready"} => tx[c] = {}
    /\ pc[c] = "load" =>
          tx[c] \subseteq {Row("evidence", NewOrg(c), d, "active") : d \in Docs}
    /\ pc[c] = "ready" => tx[c] = SeedRows(NewOrg(c))
    /\ \A row \in tx[c] : NamesObject(row) => <<row.org, row.key>> \in objects

\* A request's rows are of the organisation it has read, and their file is stored before
\* they are complete.
RequestTx(r) ==
    /\ pc[r] \notin {"flushed", "looked", "updated", "stored"} => tx[r] = {}
    /\ pc[r] = "flushed" => tx[r] = {Row("questionnaire", read[r], r, "uploaded")}
    /\ \A row \in tx[r] :
        /\ row.org = read[r] /\ row.table \notin {"evidence", "chunk"}
        /\ NamesObject(row) => pc[r] = "flushed" \/ <<row.org, row.key>> \in objects

PendingRows ==
    (\A c \in Containers : SeedTx(c)) /\ (\A r \in Requests : RequestTx(r))
ObjectsInv == PendingRows /\ RowsHaveObjects

\* A row is what it is made of.
LEMMA RowFields ==
    ASSUME NEW table, NEW o, NEW key, NEW of
    PROVE  /\ Row(table, o, key, of).table = table /\ Row(table, o, key, of).org = o
           /\ Row(table, o, key, of).key = key /\ Row(table, o, key, of).of = of
  BY DEF Row

\* The rows of a document: one of evidence, and chunks unless that is quarantined.
LEMMA ScreenedRows ==
    ASSUME NEW d, NEW o, NEW row \in ScreenAndIngest(d, o)
    PROVE  row.org = o /\ row.key = d /\ row.table \in {"evidence", "chunk"}
  BY DEF ScreenAndIngest, Row

\* What a seed commits is of its organisation; the objects it names are those stored.
LEMMA SeedRowsObjects ==
    ASSUME NEW o, NEW row \in SeedRows(o)
    PROVE  row.org = o /\ (NamesObject(row) => <<row.org, row.key>> \in SeedObjects(o))
  <1>1. CASE row \in Inbound(o)
    BY <1>1, RowFields DEF Inbound, SeedObjects, NamesObject
  <1>2. CASE row \notin Inbound(o)
    <2>1. PICK d \in Docs : row \in ScreenAndIngest(d, o)
      BY <1>2 DEF SeedRows
    <2>2. row.org = o /\ row.key = d
      BY <2>1, ScreenedRows
    <2> QED
      BY <2>2 DEF SeedObjects
  <1> QED
    BY <1>1, <1>2

\* Before anything has happened.
LEMMA ObjectsInit == Init => ObjectsInv
  <1> SUFFICES ASSUME Init PROVE ObjectsInv
    OBVIOUS
  <1>1. \A p \in Processes : tx[p] = {}
    BY DEF Init
  <1>2. \A c \in Containers : SeedTx(c)
    BY <1>1, Disjoint DEF Init, SeedTx
  <1>3. \A r \in Requests : RequestTx(r)
    BY <1>1, Disjoint, KindsAssumption DEF Init, RequestTx
  <1>4. RowsHaveObjects
    <2>1. CASE rows = {}
      BY <2>1 DEF RowsHaveObjects
    <2>2. CASE rows # {}
      <3>1. /\ rows = SeedRows(Earlier) \cup {Row("answer", Earlier, "inbound", "inbound")}
            /\ objects = SeedObjects(Earlier)
        BY <2>2 DEF Init
      <3>2. ~NamesObject(Row("answer", Earlier, "inbound", "inbound"))
        BY RowFields DEF NamesObject
      <3> QED
        BY <3>1, <3>2, SeedRowsObjects DEF RowsHaveObjects
    <2> QED
      BY <2>1, <2>2
  <1> QED
    BY <1>2, <1>3, <1>4 DEF ObjectsInv, PendingRows

\* Others neither touch what is pending nor delete what is stored.
LEMMA PendingOther ==
    ASSUME NEW p \in Processes, pc'[p] = pc[p], read'[p] = read[p], tx'[p] = tx[p],
           objects \subseteq objects'
    PROVE  /\ p \in Containers /\ attempt'[p] = attempt[p] /\ SeedTx(p) => SeedTx(p)'
           /\ RequestTx(p) => RequestTx(p)'
  BY DEF SeedTx, RequestTx, NewOrg

\* A seed that loads and ingests ends up with all its rows.
LEMMA IngestEffect ==
    ASSUME TypeInv, NEW c \in Containers, SeedTx(c), IngestCorpus(c)
    PROVE  /\ tx'[c] = SeedRows(NewOrg(c)) /\ pc'[c] = "ready"
           /\ SeedObjects(NewOrg(c)) \subseteq objects'
  <1> DEFINE o == NewOrg(c)
  <1>1. /\ pc[c] = "load" /\ {row.key : row \in tx[c]} = Docs /\ c \in Processes
        /\ tx' = [tx EXCEPT ![c] =
                    Inbound(o) \cup UNION {ScreenAndIngest(row.key, row.org) : row \in tx[c]}]
        /\ objects' = objects \cup {<<o, "inbound">>} /\ pc' = [pc EXCEPT ![c] = "ready"]
    BY Disjoint DEF IngestCorpus, TypeInv, TypeOK
  <1>2. \A row \in tx[c] : row.org = o /\ row.table = "evidence"
    BY <1>1, RowFields DEF SeedTx
  <1>3. UNION {ScreenAndIngest(row.key, row.org) : row \in tx[c]}
          = UNION {ScreenAndIngest(d, o) : d \in Docs}
    <2> DEFINE loaded == {ScreenAndIngest(row.key, row.org) : row \in tx[c]}
               corpus == {ScreenAndIngest(d, o) : d \in Docs}
    <2>1. ASSUME NEW X \in loaded PROVE X \in corpus
      <3>1. PICK row \in tx[c] : X = ScreenAndIngest(row.key, row.org)
        OBVIOUS
      <3> QED
        BY <1>1, <1>2, <3>1
    <2>2. ASSUME NEW X \in corpus PROVE X \in loaded
      <3>1. PICK d \in Docs : X = ScreenAndIngest(d, o)
        OBVIOUS
      <3>2. PICK row \in tx[c] : row.key = d
        BY <1>1
      <3> QED
        BY <1>2, <3>1, <3>2
    <2>3. loaded = corpus
      BY <2>1, <2>2
    <2> QED
      BY <2>3
  <1>4. tx'[c] = SeedRows(o)
    BY <1>1, <1>3 DEF SeedRows, TypeInv, TypeOK
  <1>5. SeedObjects(o) \subseteq objects'
    <2>1. \A d \in Docs : <<o, d>> \in objects
      BY <1>1, <1>2 DEF SeedTx, NamesObject
    <2> QED
      BY <1>1, <2>1 DEF SeedObjects
  <1> QED
    BY <1>1, <1>4, <1>5 DEF TypeInv, TypeOK

\* A container's own steps keep what it has pending as it should be.
LEMMA SeedTxOwn ==
    ASSUME TypeInv, NEW c \in Containers, SeedTx(c),
           \/ CheckOrg(c) \/ LockOrg(c) \/ Cascade(c) \/ InsertOrg(c)
           \/ \E d \in Docs : LoadDocument(c, d)
           \/ IngestCorpus(c) \/ CommitSeed(c) \/ FailedAttempt(c)
    PROVE  SeedTx(c)'
  <1>1. c \in Processes /\ c \in DOMAIN pc /\ c \in DOMAIN tx
    BY Disjoint DEF TypeInv, TypeOK
  <1>2. CASE FailedAttempt(c)
    BY <1>2, FailedEffect DEF SeedTx
  <1>3. CASE CommitSeed(c)
    BY <1>3, CommitSeedEffect DEF SeedTx
  <1>4. CASE CheckOrg(c) \/ LockOrg(c) \/ Cascade(c)
    BY <1>1, <1>4 DEF CheckOrg, LockOrg, Cascade, SeedTx
  <1>5. CASE InsertOrg(c) /\ ~FailedAttempt(c)
    BY <1>1, <1>5 DEF InsertOrg, SeedTx
  <1>6. ASSUME NEW d \in Docs, LoadDocument(c, d)
        PROVE  SeedTx(c)'
    <2>1. /\ pc[c] = "load" /\ pc' = pc /\ NewOrg(c)' = NewOrg(c)
          /\ tx'[c] = tx[c] \cup {Row("evidence", NewOrg(c), d, "active")}
          /\ objects' = objects \cup {<<NewOrg(c), d>>}
      BY <1>1, <1>6 DEF LoadDocument, NewOrg, seeding
    <2> QED
      BY <2>1, RowFields DEF SeedTx
  <1>7. CASE IngestCorpus(c)
    <2>1. NewOrg(c)' = NewOrg(c)
      BY <1>7 DEF IngestCorpus, NewOrg, seeding
    <2>2. /\ tx'[c] = SeedRows(NewOrg(c)) /\ pc'[c] = "ready"
          /\ SeedObjects(NewOrg(c)) \subseteq objects'
      BY <1>7, IngestEffect
    <2>3. \A row \in SeedRows(NewOrg(c)) :
            NamesObject(row) => <<row.org, row.key>> \in SeedObjects(NewOrg(c))
      BY SeedRowsObjects
    <2>4. SeedRows(NewOrg(c))' = SeedRows(NewOrg(c))
      BY <2>1 DEF SeedRows, Inbound, ScreenAndIngest, Row
    <2> QED
      BY <2>1, <2>2, <2>3, <2>4 DEF SeedTx
  <1> QED
    BY <1>2, <1>3, <1>4, <1>5, <1>6, <1>7

\* What an ad-hoc question or a review has pending names no object.
LEMMA RequestTxOwn ==
    ASSUME TypeInv, NEW r \in Requests, RequestTx(r),
           \/ Begin(r) \/ InsertQuestionnaire(r) \/ PutFile(r) \/ LookUpAdHoc(r)
           \/ InsertAdHoc(r) \/ LoadAnswer(r) \/ UpdateAnswer(r) \/ InsertReview(r)
           \/ CommitRequest(r) \/ (Failed(r) /\ objects' = objects)
    PROVE  RequestTx(r)'
  <1>1. r \in Processes /\ r \in DOMAIN pc /\ r \in DOMAIN tx /\ r \in DOMAIN read
    BY Disjoint DEF TypeInv, TypeOK
  <1> USE DEF database, Goes
  <1>2. CASE Begin(r)
    BY <1>1, <1>2 DEF Begin, RequestTx
  <1>3. CASE InsertQuestionnaire(r)
    <2>1. /\ pc'[r] = "flushed" /\ read' = read /\ org = read[r]
          /\ tx'[r] = {Row("questionnaire", read[r], r, "uploaded")}
      BY <1>1, <1>3 DEF InsertQuestionnaire
    <2> QED
      BY <2>1, RowFields DEF RequestTx
  <1>4. CASE PutFile(r)
    <2>1. /\ pc'[r] = "stored" /\ read' = read /\ <<read[r], r>> \in objects'
          /\ tx'[r] = {Row("questionnaire", read[r], r, "uploaded"),
                       Row("question", read[r], r, r)}
      BY <1>1, <1>4 DEF PutFile, RequestTx
    <2> QED
      BY <2>1, RowFields DEF RequestTx
  <1>5. CASE LookUpAdHoc(r)
    <2> DEFINE there == {row \in rows : row.table = "questionnaire" /\ row.of = "ad_hoc"
                                        /\ row.org = read[r]}
               new == Row("questionnaire", read[r], r, "ad_hoc")
               of(q) == ({q} \ there) \cup {Row("question", read[r], r, q.key),
                                            Row("answer", read[r], r, r)}
    <2>1. PICK q \in IF there = {} THEN {new} ELSE there : tx' = [tx EXCEPT ![r] = of(q)]
      BY <1>5 DEF LookUpAdHoc
    <2>2. tx'[r] \subseteq {new, Row("question", read[r], r, q.key), Row("answer", read[r], r, r)}
      BY <1>1, <2>1
    <2>3. pc'[r] = "looked" /\ read' = read
      BY <1>1, <1>5 DEF LookUpAdHoc
    <2> QED
      BY <2>2, <2>3, RowFields DEF RequestTx, NamesObject
  <1>6. CASE InsertAdHoc(r) \/ UpdateAnswer(r) \/ InsertReview(r)
    BY <1>1, <1>6 DEF InsertAdHoc, UpdateAnswer, InsertReview, RequestTx
  <1>7. CASE LoadAnswer(r)
    <2>1. \/ pc'[r] = "failed" /\ tx' = tx
          \/ /\ pc'[r] = "looked"
             /\ \E row \in rows : tx'[r] = {Row("review", read[r], r, row.key)}
      BY <1>1, <1>7 DEF LoadAnswer
    <2>2. pc[r] = "asked" /\ read' = read
      BY <1>7 DEF LoadAnswer
    <2> QED
      BY <2>1, <2>2, RowFields DEF RequestTx, NamesObject
  <1>8. CASE CommitRequest(r) \/ (Failed(r) /\ objects' = objects)
    BY <1>1, <1>8 DEF CommitRequest, Failed, RequestTx
  <1> QED
    BY <1>2, <1>3, <1>4, <1>5, <1>6, <1>7, <1>8

\* Every step keeps what is pending as it should be.
LEMMA PendingStep ==
    ASSUME TypeInv, PendingRows, [Next]_vars
    PROVE  PendingRows'
  <1> SUFFICES ASSUME NEW p \in Processes
               PROVE  (p \in Containers => SeedTx(p)') /\ (p \in Requests => RequestTx(p)')
    BY Disjoint DEF PendingRows
  <1>1. /\ p \in Containers => SeedTx(p)
        /\ p \in Requests => RequestTx(p)
    BY DEF PendingRows
  <1>2. ASSUME NEW q \in Processes \ {p}, Local(q)
        PROVE  (p \in Containers => SeedTx(p)') /\ (p \in Requests => RequestTx(p)')
    BY <1>1, <1>2, PendingOther DEF Local
  <1>3. ASSUME NEW c \in Containers, CommitSeed(c), c # p
        PROVE  (p \in Containers => SeedTx(p)') /\ (p \in Requests => RequestTx(p)')
    BY <1>1, <1>3, PendingOther, CommitSeedEffect
  <1>4. ASSUME NEW r \in Requests, CommitRequest(r), r # p
        PROVE  (p \in Containers => SeedTx(p)') /\ (p \in Requests => RequestTx(p)')
    BY <1>1, <1>4, PendingOther, CommitRequestEffect
  <1>5. ASSUME NEW c \in Containers, FailedAttempt(c), UNCHANGED <<database, broken>>,
               OwnFault(c) \/ UNCHANGED faults
        PROVE  (p \in Containers => SeedTx(p)') /\ (p \in Requests => RequestTx(p)')
    <2>1. Local(c) /\ (p = c => SeedTx(p)')
      BY <1>1, <1>5, FailedType, SeedTxOwn
    <2> QED
      BY <1>2, <2>1, Disjoint
  <1>6. ASSUME NEW r \in Requests, Failed(r), UNCHANGED <<database, seeding, broken>>
        PROVE  (p \in Containers => SeedTx(p)') /\ (p \in Requests => RequestTx(p)')
    <2>1. Local(r) /\ (p = r => RequestTx(p)')
      BY <1>1, <1>6, VictimType, RequestTxOwn DEF database
    <2> QED
      BY <1>2, <2>1, Disjoint
  <1>7. ASSUME NEW c \in Containers, SeedDataMissing(c) \/ AttemptFails(c)
        PROVE  (p \in Containers => SeedTx(p)') /\ (p \in Requests => RequestTx(p)')
    BY <1>5, <1>7 DEF SeedDataMissing, AttemptFails
  <1>8. ASSUME NEW r \in Requests, RequestRefused(r) \/ RequestDies(r)
        PROVE  (p \in Containers => SeedTx(p)') /\ (p \in Requests => RequestTx(p)')
    BY <1>6, <1>8 DEF RequestRefused, RequestDies
  <1>9. ASSUME NEW c \in Containers, NEW r \in Reviews, ResolveDeadlock(c, r)
        PROVE  (p \in Containers => SeedTx(p)') /\ (p \in Requests => RequestTx(p)')
    BY <1>5, <1>6, <1>9, Disjoint DEF ResolveDeadlock, Failed, database, seeding
  <1>10. ASSUME NEW c \in Containers,
                \/ CheckOrg(c) \/ LockOrg(c) \/ Cascade(c) \/ IngestCorpus(c)
                \/ InsertOrg(c) \/ \E d \in Docs : LoadDocument(c, d)
         PROVE  (p \in Containers => SeedTx(p)') /\ (p \in Requests => RequestTx(p)')
    <2>1. InsertOrg(c) /\ FailedAttempt(c) =>
            UNCHANGED <<database, broken>> /\ UNCHANGED faults
      BY DEF InsertOrg
    <2>2. CASE ~FailedAttempt(c)
      <3>1. Local(c) /\ (p = c => SeedTx(p)')
        BY <1>1, <1>10, <2>2, SeedType, SeedTxOwn
      <3> QED
        BY <1>2, <3>1, Disjoint
    <2>3. CASE FailedAttempt(c)
      <3>1. Local(c) /\ (p = c => SeedTx(p)')
        BY <1>1, <1>10, <2>1, <2>3, FailedType, SeedType, SeedTxOwn
      <3> QED
        BY <1>2, <3>1, Disjoint
    <2> QED
      BY <2>2, <2>3
  <1>11. ASSUME NEW r \in Requests,
                \/ Begin(r) \/ InsertQuestionnaire(r) \/ PutFile(r) \/ LookUpAdHoc(r)
                \/ InsertAdHoc(r) \/ LoadAnswer(r) \/ UpdateAnswer(r) \/ InsertReview(r)
         PROVE  (p \in Containers => SeedTx(p)') /\ (p \in Requests => RequestTx(p)')
    <2>1. Local(r) /\ (p = r => RequestTx(p)')
      BY <1>1, <1>11, RequestType, RequestTxOwn
    <2> QED
      BY <1>2, <2>1, Disjoint
  <1>12. ASSUME NEW c \in Containers, CommitSeed(c)
         PROVE  (p \in Containers => SeedTx(p)') /\ (p \in Requests => RequestTx(p)')
    BY <1>1, <1>3, <1>12, SeedTxOwn, Disjoint
  <1>13. ASSUME NEW r \in Requests, CommitRequest(r)
         PROVE  (p \in Containers => SeedTx(p)') /\ (p \in Requests => RequestTx(p)')
    <2>1. RequestTx(r) => RequestTx(r)'
      BY <1>13, RequestTxOwn
    <2> QED
      BY <1>1, <1>4, <1>13, <2>1, Disjoint
  <1>14. CASE UNCHANGED vars
    <2>1. /\ pc' = pc /\ read' = read /\ tx' = tx /\ attempt' = attempt
          /\ objects \subseteq objects'
      BY <1>14 DEF vars, database, seeding
    <2> QED
      BY <1>1, <2>1, PendingOther
  <1> QED
    BY <1>7, <1>8, <1>9, <1>10, <1>11, <1>12, <1>13, <1>14, Steps

\* Every step keeps what is committed and what is pending in agreement with the store.
LEMMA ObjectsStep == TypeInv /\ ObjectsInv /\ [Next]_vars => ObjectsInv'
  <1> SUFFICES ASSUME TypeInv, ObjectsInv, [Next]_vars PROVE ObjectsInv'
    OBVIOUS
  <1>1. PendingRows /\ RowsHaveObjects
    BY DEF ObjectsInv
  <1>2. ASSUME rows' = rows, objects \subseteq objects'
        PROVE  RowsHaveObjects'
    BY <1>1, <1>2 DEF RowsHaveObjects, NamesObject
  <1>3. ASSUME NEW c \in Containers, CommitSeed(c)
        PROVE  RowsHaveObjects'
    <2>1. \A row \in tx[c] : NamesObject(row) => <<row.org, row.key>> \in objects
      BY <1>1 DEF PendingRows, SeedTx
    <2>2. rows' \subseteq rows \cup tx[c] /\ objects' = objects
      BY <1>3, CommitSeedEffect
    <2> QED
      BY <1>1, <2>1, <2>2 DEF RowsHaveObjects, NamesObject
  <1>4. ASSUME NEW r \in Requests, CommitRequest(r)
        PROVE  RowsHaveObjects'
    <2>1. rows' = rows \cup tx[r] /\ objects' = objects /\ pc[r] = "stored"
      BY <1>4, CommitRequestEffect
    <2>2. \A row \in tx[r] : NamesObject(row) => <<row.org, row.key>> \in objects
      BY <1>1, <2>1 DEF PendingRows, RequestTx
    <2> QED
      BY <1>1, <2>1, <2>2 DEF RowsHaveObjects, NamesObject
  <1>5. RowsHaveObjects'
    BY <1>2, <1>3, <1>4, LocalSteps DEF Local, vars, database
  <1> QED
    BY <1>1, <1>5, PendingStep DEF ObjectsInv

\* No row is committed whose object is missing (RowsHaveObjects), whatever failed between
\* the two writes and whoever made it.
THEOREM RowsHaveObjectsHolds == Spec => []RowsHaveObjects
  <1>1. ObjectsInv => RowsHaveObjects
    BY DEF ObjectsInv
  <1> QED
    BY <1>1, ObjectsInit, ObjectsStep, TypeInvariant, PTL DEF Spec

-----------------------------------------------------------------------------
(* One organisation: its identity and the locks on it.                     *)

\* An organisation that was ever committed is the earlier one or a server's, so that
\* one that was replaced never comes back.
Made(o) == o = Earlier \/ \E c \in Containers : pc[c] = "serving" /\ o = NewOrg(c)
OnlyMade ==
    /\ org # None => Made(org)
    /\ \A p \in Processes : read[p] # None => Made(read[p])

\* The locks exclude what they are there to exclude: two seeds of one slug,
Exclusive ==
    /\ \A c, d \in Containers : /\ Deleting(c) /\ Deleting(d) => c = d
                                /\ Inserting(c) /\ (Inserting(d) \/ Deleting(d)) => c = d
    /\ \A c \in Containers : Inserting(c) => org = None \/ read[c] = org

\* and a seed that deletes what a request refers to or updates.
Referred ==
    \A r \in Requests : /\ Sharing(r) \/ Updating(r) => read[r] = org
                        /\ Sharing(r) => \A c \in Containers : ~Deleting(c)
                        /\ Updating(r) => \A c \in Containers : ~Deleted(c)

LocksInv == OnlyMade /\ Exclusive /\ Referred

\* Nobody is anywhere before anything has happened.
LEMMA LocksInit == Init => LocksInv
  <1> SUFFICES ASSUME Init PROVE LocksInv
    OBVIOUS
  <1>1. /\ \A p \in Processes : read[p] = None /\ pc[p] \in {"boot", "idle"}
        /\ org \in {None, Earlier}
    BY DEF Init
  <1>2. OnlyMade
    BY <1>1 DEF OnlyMade, Made
  <1>3. Exclusive /\ Referred
    BY <1>1, Disjoint DEF Exclusive, Referred, Inserting, Deleting, Deleted, Sharing, Updating
  <1> QED
    BY <1>2, <1>3 DEF LocksInv

\* What a container is about to commit was never committed before.
LEMMA Fresh ==
    ASSUME TypeInv, NEW c \in Containers, pc[c] # "serving"
    PROVE  ~Made(NewOrg(c))
  <1>1. NewOrg(c) # Earlier
    <2>1. NewOrg(c)[2] = attempt[c] /\ Earlier[2] = 0
      BY DEF NewOrg, Earlier
    <2>2. attempt[c] # 0
      BY DEF TypeInv, TypeOK
    <2> QED
      BY <2>1, <2>2
  <1>2. ASSUME NEW d \in Containers, pc[d] = "serving" PROVE NewOrg(d) # NewOrg(c)
    <2>1. d # c
      BY <1>2
    <2>2. NewOrg(d)[1] = d /\ NewOrg(c)[1] = c
      BY DEF NewOrg
    <2> QED
      BY <2>1, <2>2
  <1> QED
    BY <1>1, <1>2 DEF Made

\* A container that serves stays where it is.
LEMMA ServesOn ==
    ASSUME TypeInv, [Next]_vars, NEW c \in Containers, pc[c] = "serving"
    PROVE  pc'[c] = "serving" /\ NewOrg(c)' = NewOrg(c)
  <1>1. c \in Processes
    BY Disjoint
  <1>2. ASSUME NEW d \in Containers, FailedAttempt(d), pc[d] # "serving"
        PROVE  pc'[c] = "serving" /\ attempt'[c] = attempt[c]
    BY <1>1, <1>2, FailedEffect
  <1>3. ASSUME NEW d \in Containers,
               \/ CheckOrg(d) \/ LockOrg(d) \/ Cascade(d) \/ InsertOrg(d)
               \/ \E x \in Docs : LoadDocument(d, x)
               \/ IngestCorpus(d) \/ CommitSeed(d) \/ SeedDataMissing(d) \/ AttemptFails(d)
        PROVE  pc'[c] = "serving" /\ attempt'[c] = attempt[c]
    <2>1. pc[d] # "serving"
      BY <1>3 DEF CheckOrg, LockOrg, Cascade, InsertOrg, LoadDocument, IngestCorpus,
                  CommitSeed, SeedDataMissing, AttemptFails
    <2>2. CASE FailedAttempt(d)
      BY <1>2, <2>1, <2>2
    <2>3. CASE ~FailedAttempt(d)
      <3>1. CommitSeed(d) \/ Local(d)
        BY <1>3, <2>3, SeedType DEF SeedDataMissing, AttemptFails
      <3>2. d # c
        BY <2>1
      <3> QED
        BY <1>1, <3>1, <3>2, CommitSeedEffect, Disjoint DEF Local
    <2> QED
      BY <2>2, <2>3
  <1>4. ASSUME NEW d \in Containers, NEW r \in Reviews, ResolveDeadlock(d, r)
        PROVE  pc'[c] = "serving" /\ attempt'[c] = attempt[c]
    <2>1. pc[d] # "serving"
      BY <1>4 DEF ResolveDeadlock
    <2>2. FailedAttempt(d) \/ Local(r)
      BY <1>4, VictimType, Disjoint DEF ResolveDeadlock, Failed, database, seeding
    <2> QED
      BY <1>1, <1>2, <2>1, <2>2, Disjoint DEF Local
  <1>5. ASSUME NEW r \in Requests,
               \/ Begin(r) \/ InsertQuestionnaire(r) \/ PutFile(r) \/ LookUpAdHoc(r)
               \/ InsertAdHoc(r) \/ LoadAnswer(r) \/ UpdateAnswer(r) \/ InsertReview(r)
               \/ CommitRequest(r) \/ RequestRefused(r) \/ RequestDies(r)
        PROVE  pc'[c] = "serving" /\ attempt'[c] = attempt[c]
    BY <1>1, <1>5, RequestType, CommitRequestEffect, Disjoint DEF Local
  <1>6. UNCHANGED vars => pc'[c] = "serving" /\ attempt'[c] = attempt[c]
    BY DEF vars, database, seeding
  <1>7. pc'[c] = "serving" /\ attempt'[c] = attempt[c]
    BY <1>3, <1>4, <1>5, <1>6, Steps
  <1> QED
    BY <1>7 DEF NewOrg

\* A process reads the organisation that is there, or forgets what it has read.
LEMMA ReadChange ==
    ASSUME TypeInv, [Next]_vars, NEW p \in Processes
    PROVE  read'[p] \in {read[p], org, None}
  <1>1. read \in [Processes -> Organizations \cup {None}]
    BY DEF TypeInv, TypeOK
  <1>2. ASSUME NEW c \in Containers, FailedAttempt(c)
        PROVE  read'[p] \in {read[p], org, None}
    BY <1>2, FailedEffect
  <1>3. ASSUME NEW c \in Containers,
               \/ CheckOrg(c) \/ LockOrg(c) \/ Cascade(c) \/ InsertOrg(c)
               \/ \E d \in Docs : LoadDocument(c, d)
               \/ IngestCorpus(c) \/ CommitSeed(c) \/ SeedDataMissing(c) \/ AttemptFails(c)
               \/ \E r \in Reviews : ResolveDeadlock(c, r)
        PROVE  read'[p] \in {read[p], org, None}
    <2>1. FailedAttempt(c) \/ CheckOrg(c) \/ CommitSeed(c) \/ read' = read
      BY <1>3 DEF LockOrg, Cascade, InsertOrg, LoadDocument, IngestCorpus, SeedDataMissing,
                  AttemptFails, ResolveDeadlock, Failed
    <2> QED
      BY <1>1, <1>2, <2>1 DEF CheckOrg, CommitSeed
  <1>4. ASSUME NEW r \in Requests,
               \/ Begin(r) \/ InsertQuestionnaire(r) \/ PutFile(r) \/ LookUpAdHoc(r)
               \/ InsertAdHoc(r) \/ LoadAnswer(r) \/ UpdateAnswer(r) \/ InsertReview(r)
               \/ CommitRequest(r) \/ RequestRefused(r) \/ RequestDies(r)
        PROVE  read'[p] \in {read[p], org, None}
    <2>1. Begin(r) \/ read' = read
      BY <1>4 DEF InsertQuestionnaire, PutFile, LookUpAdHoc, InsertAdHoc, LoadAnswer,
                  UpdateAnswer, InsertReview, CommitRequest, RequestRefused, RequestDies, Failed
    <2> QED
      BY <1>1, <2>1 DEF Begin
  <1>5. UNCHANGED vars => read' = read
    BY DEF vars, database, seeding
  <1> QED
    BY <1>3, <1>4, <1>5, Steps

\* What is read, or there, was committed at some time.
LEMMA MadeStep ==
    ASSUME TypeInv, OnlyMade, [Next]_vars
    PROVE  OnlyMade'
  <1>1. \A o : Made(o) => (o = Earlier \/ \E c \in Containers : pc'[c] = "serving" /\ o = NewOrg(c)')
    BY ServesOn DEF Made
  <1>2. org' # None => Made(org)'
    <2>1. CASE org' = org
      BY <1>1, <2>1 DEF OnlyMade, Made
    <2>2. ASSUME NEW c \in Containers, CommitSeed(c)
          PROVE  Made(org)'
      <3>1. org' = NewOrg(c) /\ pc'[c] = "serving" /\ attempt' = attempt
        BY <2>2, CommitSeedEffect
      <3> QED
        BY <3>1 DEF Made, NewOrg
    <2> QED
      BY <2>1, <2>2, LocalSteps, CommitRequestEffect DEF Local, vars, database
  <1>3. ASSUME NEW p \in Processes, read'[p] # None
        PROVE  Made(read[p])'
    <2>1. Made(read'[p])
      BY <1>3, ReadChange DEF OnlyMade
    <2> QED
      BY <1>1, <2>1 DEF Made
  <1> QED
    BY <1>2, <1>3 DEF OnlyMade

\* A step that only gives up locks, or none, keeps them exclusive.
LEMMA LocksReleased ==
    ASSUME TypeInv, LocksInv, UNCHANGED org, NEW c \in Containers,
           ~Inserting(c)', ~Deleting(c)',
           \A p \in Processes \ {c} : pc'[p] = pc[p] /\ read'[p] = read[p]
    PROVE  Exclusive' /\ Referred'
  <1>1. /\ \A d \in Containers \ {c} : (Inserting(d)' <=> Inserting(d))
                                      /\ (Deleting(d)' <=> Deleting(d))
                                      /\ (Deleted(d)' <=> Deleted(d)) /\ read'[d] = read[d]
        /\ ~Deleted(c)'
        /\ \A r \in Requests : (Sharing(r)' <=> Sharing(r)) /\ (Updating(r)' <=> Updating(r))
                               /\ read'[r] = read[r]
    BY Disjoint DEF Inserting, Deleting, Deleted, Sharing, Updating
  <1>2. Exclusive'
    BY <1>1 DEF LocksInv, Exclusive
  <1>3. Referred'
    BY <1>1 DEF LocksInv, Referred
  <1> QED
    BY <1>2, <1>3

\* A step that takes nothing away from its locks.
LEMMA LocksHeld ==
    ASSUME TypeInv, LocksInv, UNCHANGED <<org, read>>, NEW c \in Containers,
           Inserting(c)' => Inserting(c), Deleting(c)' => Deleting(c), Deleted(c)' => Deleted(c),
           \A p \in Processes \ {c} : pc'[p] = pc[p]
    PROVE  Exclusive' /\ Referred'
  <1>1. /\ \A d \in Containers : (Inserting(d)' => Inserting(d))
                                /\ (Deleting(d)' => Deleting(d)) /\ (Deleted(d)' => Deleted(d))
        /\ \A r \in Requests : (Sharing(r)' <=> Sharing(r)) /\ (Updating(r)' <=> Updating(r))
    BY Disjoint DEF Inserting, Deleting, Deleted, Sharing, Updating
  <1>2. Exclusive'
    BY <1>1 DEF LocksInv, Exclusive
  <1>3. Referred'
    BY <1>1 DEF LocksInv, Referred
  <1> QED
    BY <1>2, <1>3

\* The steps of a seed take its locks one by one.
LEMMA LocksSeed ==
    ASSUME TypeInv, LocksInv, NEW c \in Containers,
           \/ CheckOrg(c) \/ LockOrg(c) \/ Cascade(c)
           \/ InsertOrg(c)
           \/ \E d \in Docs : LoadDocument(c, d)
           \/ IngestCorpus(c)
           \/ (FailedAttempt(c) /\ org' = org)
    PROVE  Exclusive' /\ Referred'
  <1> USE DEF database
  <1>1. /\ c \in Processes /\ c \in DOMAIN pc /\ c \in DOMAIN read
        /\ Exclusive /\ Referred
    BY Disjoint DEF TypeInv, TypeOK, LocksInv
  <1>2. CASE FailedAttempt(c) /\ org' = org
    <2>1. ~Inserting(c)' /\ ~Deleting(c)'
      BY <1>2, FailedEffect DEF Inserting, Deleting
    <2> QED
      BY <1>2, <2>1, FailedEffect, LocksReleased
  <1>3. CASE CheckOrg(c)
    <2>1. ~Inserting(c)' /\ ~Deleting(c)' /\ org' = org
      BY <1>1, <1>3 DEF CheckOrg, Inserting, Deleting
    <2>2. \A p \in Processes \ {c} : pc'[p] = pc[p] /\ read'[p] = read[p]
      BY <1>1, <1>3 DEF CheckOrg, TypeInv, TypeOK
    <2> QED
      BY <2>1, <2>2, LocksReleased
  <1>4. CASE LockOrg(c) /\ read[c] # org
    <2>1. ~Inserting(c)' /\ ~Deleting(c)' /\ org' = org
      BY <1>1, <1>4 DEF LockOrg, Inserting, Deleting
    <2>2. \A p \in Processes \ {c} : pc'[p] = pc[p] /\ read'[p] = read[p]
      BY <1>1, <1>4 DEF LockOrg, TypeInv, TypeOK
    <2> QED
      BY <2>1, <2>2, LocksReleased
  <1>5. CASE LockOrg(c) /\ read[c] = org
    <2>1. /\ org # None /\ \A o \in Containers : ~Deleting(o) /\ ~Deleted(o)
          /\ \A r \in Requests : ~Sharing(r)
      BY <1>5 DEF LockOrg, TypeInv, ReadsOrg, LocksInv, Referred, Deleted
    <2>2. \A o \in Containers : ~Inserting(o)
      BY <1>1, <2>1 DEF Exclusive, Inserting, Deleting
    <2>3. /\ pc'[c] = "cascade" /\ read' = read /\ org' = org
          /\ \A p \in Processes \ {c} : pc'[p] = pc[p]
      BY <1>1, <1>5 DEF LockOrg, TypeInv, TypeOK
    <2>4. /\ \A o \in Containers : ~Inserting(o)' /\ (Deleting(o)' => o = c) /\ ~Deleted(o)'
          /\ \A r \in Requests : ~Sharing(r)' /\ (Updating(r)' <=> Updating(r))
      BY <2>1, <2>2, <2>3, Disjoint DEF Inserting, Deleting, Deleted, Sharing, Updating
    <2> QED
      BY <1>1, <2>3, <2>4 DEF Exclusive, Referred
  <1>6. CASE Cascade(c)
    <2>1. /\ pc[c] = "cascade" /\ pc'[c] = "insert" /\ read' = read /\ org' = org
          /\ \A p \in Processes \ {c} : pc'[p] = pc[p]
      BY <1>1, <1>6 DEF Cascade, TypeInv, TypeOK
    <2>2. \A r \in Requests : ~Updating(r)
      BY <1>1, <1>6 DEF Cascade, Referred, Updating
    <2>3. /\ \A o \in Containers : (Inserting(o)' => Inserting(o)) /\ (Deleting(o)' => Deleting(o))
          /\ \A r \in Requests : ~Updating(r)' /\ (Sharing(r)' <=> Sharing(r))
      BY <2>1, <2>2, Disjoint DEF Inserting, Deleting, Sharing, Updating
    <2> QED
      BY <1>1, <2>1, <2>3 DEF Exclusive, Referred
  <1>7. CASE InsertOrg(c) /\ ~FailedAttempt(c)
    <2>1. /\ pc[c] = "insert" /\ pc'[c] = "load" /\ read' = read /\ org' = org
          /\ \A p \in Processes \ {c} : pc'[p] = pc[p]
          /\ \A o \in Containers \ {c} : ~Inserting(o) /\ ~Deleting(o)
          /\ org = None \/ read[c] = org
      BY <1>1, <1>7 DEF InsertOrg, TypeInv, TypeOK, Deleting
    <2>2. /\ \A o \in Containers \ {c} : ~Inserting(o)' /\ ~Deleting(o)' /\ ~Deleted(o)'
          /\ (Deleting(c)' <=> Deleting(c)) /\ (Deleted(c)' <=> Deleted(c))
          /\ \A r \in Requests : (Sharing(r)' <=> Sharing(r)) /\ (Updating(r)' <=> Updating(r))
      BY <2>1, Disjoint DEF Inserting, Deleting, Deleted, Sharing, Updating
    <2> QED
      BY <1>1, <2>1, <2>2 DEF Exclusive, Referred
  <1>8. ASSUME NEW d \in Docs, LoadDocument(c, d)
        PROVE  Exclusive' /\ Referred'
    <2>1. pc' = pc /\ read' = read /\ org' = org
      BY <1>8 DEF LoadDocument
    <2> QED
      BY <2>1, LocksHeld DEF Inserting, Deleting, Deleted
  <1>9. CASE IngestCorpus(c)
    <2>1. /\ pc[c] = "load" /\ pc'[c] = "ready" /\ read' = read /\ org' = org
          /\ \A p \in Processes \ {c} : pc'[p] = pc[p]
      BY <1>1, <1>9 DEF IngestCorpus, TypeInv, TypeOK
    <2>2. Inserting(c) /\ (Deleting(c)' => Deleting(c)) /\ (Deleted(c)' => Deleted(c))
      BY <2>1 DEF Inserting, Deleting, Deleted
    <2> QED
      BY <2>1, <2>2, LocksHeld
  <1>10. InsertOrg(c) => org' = org
    BY DEF InsertOrg
  <1> QED
    BY <1>2, <1>3, <1>4, <1>5, <1>6, <1>7, <1>8, <1>9, <1>10

\* When a seed commits, no request holds the organisation that it replaces.
LEMMA CommitAlone ==
    ASSUME TypeInv, LocksInv, NEW c \in Containers, CommitSeed(c)
    PROVE  /\ org = None \/ read[c] = org
           /\ \A r \in Requests : ~Sharing(r) /\ ~Updating(r)
           /\ \A d \in Containers \ {c} : ~Inserting(d)
           /\ \A p \in Processes : read'[p] # org'
  <1>1. pc[c] = "ready" /\ org' = NewOrg(c)
    BY CommitSeedEffect
  <1>2. /\ org = None \/ read[c] = org
        /\ \A d \in Containers \ {c} : ~Inserting(d)
    BY <1>1 DEF LocksInv, Exclusive, Inserting
  <1>3. ASSUME NEW r \in Requests, Sharing(r) \/ Updating(r)
        PROVE  FALSE
    <2>1. read[r] # None /\ read[r] = org
      BY <1>3 DEF Sharing, Updating, TypeInv, ReadsOrg, LocksInv, Referred
    <2>2. Deleting(c) /\ Deleted(c)
      BY <1>1, <1>2, <2>1 DEF Deleting, Deleted
    <2> QED
      BY <1>3, <2>2 DEF LocksInv, Referred
  <1>4. ASSUME NEW p \in Processes
        PROVE  read'[p] # org'
    <2>1. NewOrg(c) # None
      BY NewOrgType, NoneAssumption DEF TypeInv
    <2>2. ~Made(NewOrg(c))
      BY <1>1, Fresh
    <2>3. read'[p] \in {read[p], None}
      BY CommitSeedEffect
    <2> QED
      BY <1>1, <2>1, <2>2, <2>3 DEF LocksInv, OnlyMade
  <1> QED
    BY <1>2, <1>3, <1>4

\* Its commit gives every lock back.
LEMMA LocksCommit ==
    ASSUME TypeInv, LocksInv, NEW c \in Containers, CommitSeed(c)
    PROVE  Exclusive' /\ Referred'
  <1>1. /\ pc'[c] = "serving" /\ \A p \in Processes \ {c} : pc'[p] = pc[p]
    BY CommitSeedEffect
  <1>2. \A d \in Containers : ~Inserting(d)' /\ ~Deleting(d)'
    BY <1>1, CommitAlone, Disjoint DEF Inserting, Deleting
  <1>3. \A r \in Requests : ~Sharing(r)' /\ ~Updating(r)'
    BY <1>1, CommitAlone, Disjoint DEF Sharing, Updating
  <1> QED
    BY <1>2, <1>3 DEF Exclusive, Referred

\* A step of a request takes no lock of a container; its own are of the organisation that
\* is there.
LEMMA LocksRequest ==
    ASSUME TypeInv, LocksInv, NEW r \in Requests, UNCHANGED org,
           \A p \in Processes \ {r} : pc'[p] = pc[p] /\ read'[p] = read[p],
           Sharing(r)' \/ Updating(r)' => read'[r] = org,
           Sharing(r)' => Sharing(r) \/ \A c \in Containers : ~Deleting(c),
           Updating(r)' => Updating(r) \/ \A c \in Containers : ~Deleted(c)
    PROVE  Exclusive' /\ Referred'
  <1>1. /\ \A c \in Containers : (Inserting(c)' <=> Inserting(c))
                                /\ (Deleting(c)' <=> Deleting(c))
                                /\ (Deleted(c)' <=> Deleted(c)) /\ read'[c] = read[c]
        /\ \A q \in Requests \ {r} : (Sharing(q)' <=> Sharing(q))
                                     /\ (Updating(q)' <=> Updating(q)) /\ read'[q] = read[q]
    BY Disjoint DEF Inserting, Deleting, Deleted, Sharing, Updating
  <1>2. Exclusive'
    BY <1>1 DEF LocksInv, Exclusive
  <1>3. Referred'
    BY <1>1 DEF LocksInv, Referred
  <1> QED
    BY <1>2, <1>3

\* The steps of a request.
LEMMA LocksAsked ==
    ASSUME TypeInv, LocksInv, NEW r \in Requests,
           \/ Begin(r) \/ InsertQuestionnaire(r) \/ PutFile(r) \/ LookUpAdHoc(r)
           \/ InsertAdHoc(r) \/ LoadAnswer(r) \/ UpdateAnswer(r) \/ InsertReview(r)
           \/ CommitRequest(r) \/ (Failed(r) /\ org' = org)
    PROVE  Exclusive' /\ Referred'
  <1> USE DEF database, Goes
  <1>1. /\ r \in Processes /\ r \in DOMAIN pc /\ r \in DOMAIN read
        /\ (Sharing(r) \/ Updating(r) => read[r] = org)
    BY Disjoint DEF TypeInv, TypeOK, LocksInv, Referred
  <1>2. /\ org' = org
        /\ \A p \in Processes \ {r} : pc'[p] = pc[p] /\ read'[p] = read[p]
    BY <1>1 DEF TypeInv, TypeOK, Begin, InsertQuestionnaire, PutFile, LookUpAdHoc, InsertAdHoc,
                LoadAnswer, UpdateAnswer, InsertReview, CommitRequest, Failed
  <1>3. CASE \/ Begin(r) \/ LookUpAdHoc(r) \/ LoadAnswer(r) \/ CommitRequest(r)
             \/ (Failed(r) /\ org' = org)
    <2>1. ~Sharing(r)' /\ ~Updating(r)'
      BY <1>1, <1>3 DEF Begin, LookUpAdHoc, LoadAnswer, CommitRequest, Failed, Sharing, Updating
    <2> QED
      BY <1>2, <2>1, LocksRequest
  <1>4. CASE InsertQuestionnaire(r) \/ InsertAdHoc(r)
    <2>1. /\ r \notin Reviews /\ read' = read /\ read[r] = org
          /\ \A c \in Containers : ~Deleting(c)
      BY <1>4, KindsAssumption DEF InsertQuestionnaire, InsertAdHoc, Waits
    <2>2. ~Updating(r)'
      BY <2>1 DEF Updating
    <2> QED
      BY <1>2, <2>1, <2>2, LocksRequest
  <1>5. CASE PutFile(r)
    <2>1. Sharing(r) /\ ~Updating(r)' /\ read' = read /\ read[r] = org
      BY <1>1, <1>5, KindsAssumption DEF PutFile, Sharing, Updating
    <2> QED
      BY <1>2, <2>1, LocksRequest
  <1>6. CASE UpdateAnswer(r)
    <2>1. /\ ~Sharing(r)' /\ read' = read /\ read[r] = org
          /\ \A c \in Containers : ~Deleted(c)
      BY <1>1, <1>6 DEF UpdateAnswer, Sharing
    <2> QED
      BY <1>2, <2>1, LocksRequest
  <1>7. CASE InsertReview(r)
    <2>1. Updating(r) /\ read' = read /\ read[r] = org
      BY <1>1, <1>7 DEF InsertReview, Updating
    <2>2. \A c \in Containers : ~Deleting(c)
      BY <1>7, <2>1 DEF InsertReview, Waits
    <2> QED
      BY <1>2, <2>1, <2>2, LocksRequest
  <1> QED
    BY <1>3, <1>4, <1>5, <1>6, <1>7

\* Every step keeps the locks.
LEMMA LocksStep == TypeInv /\ LocksInv /\ [Next]_vars => LocksInv'
  <1> SUFFICES ASSUME TypeInv, LocksInv, [Next]_vars PROVE Exclusive' /\ Referred'
    BY MadeStep DEF LocksInv
  <1>1. ASSUME NEW c \in Containers,
               \/ CheckOrg(c) \/ LockOrg(c) \/ Cascade(c) \/ InsertOrg(c)
               \/ \E d \in Docs : LoadDocument(c, d)
               \/ IngestCorpus(c)
        PROVE  Exclusive' /\ Referred'
    BY <1>1, LocksSeed
  <1>2. ASSUME NEW c \in Containers, SeedDataMissing(c) \/ AttemptFails(c)
        PROVE  Exclusive' /\ Referred'
    BY <1>2, LocksSeed DEF SeedDataMissing, AttemptFails, database
  <1>3. ASSUME NEW c \in Containers, NEW r \in Reviews, ResolveDeadlock(c, r)
        PROVE  Exclusive' /\ Referred'
    BY <1>3, LocksSeed, LocksAsked, Disjoint DEF ResolveDeadlock, database
  <1>4. ASSUME NEW r \in Requests,
               \/ Begin(r) \/ InsertQuestionnaire(r) \/ PutFile(r) \/ LookUpAdHoc(r)
               \/ InsertAdHoc(r) \/ LoadAnswer(r) \/ UpdateAnswer(r) \/ InsertReview(r)
               \/ CommitRequest(r)
        PROVE  Exclusive' /\ Referred'
    BY <1>4, LocksAsked
  <1>5. ASSUME NEW r \in Requests, RequestRefused(r) \/ RequestDies(r)
        PROVE  Exclusive' /\ Referred'
    BY <1>5, LocksAsked DEF RequestRefused, RequestDies, database
  <1>6. UNCHANGED vars => Exclusive' /\ Referred'
    <2> SUFFICES ASSUME UNCHANGED vars PROVE Exclusive' /\ Referred'
      OBVIOUS
    <2>1. org' = org /\ pc' = pc /\ read' = read
      BY DEF vars, database
    <2> QED
      BY <2>1 DEF LocksInv, Exclusive, Referred, Inserting, Deleting, Deleted, Sharing, Updating
  <1> QED
    BY <1>1, <1>2, <1>3, <1>4, <1>5, <1>6, Steps, LocksCommit

-----------------------------------------------------------------------------
(* One organisation: all of it, and nothing else.                          *)

OfCorpus(row) == row.table \in {"evidence", "chunk"}
Corpus(o) == UNION {ScreenAndIngest(d, o) : d \in Docs}

\* The row that a row is of is among these.
Has(table, key, among) == \E row \in among : row.table = table /\ row.key = key
HasParent(row, among) ==
    /\ row.table = "question" => Has("questionnaire", row.of, among)
    /\ row.table = "answer" => Has("question", row.of, among)
    /\ row.table = "review" => Has("answer", row.of, among)

\* Every row is of the organisation, which has its corpus as it was screened and ingested,
\* and every row has its parent.
Owned == \A row \in rows : row.org = org
Whole == org # None => {row \in rows : OfCorpus(row)} = Corpus(org) /\ Inbound(org) \subseteq rows
Parents == \A row \in rows : HasParent(row, rows)

\* So will the rows of a request, for as long as the organisation it read is there.
ParentsOf(r) == read[r] = org => \A row \in tx[r] : HasParent(row, rows \cup tx[r])

WholeInv == Owned /\ Whole /\ Parents /\ \A r \in Requests : ParentsOf(r)

\* More rows take no parent away.
LEMMA ParentsStay ==
    ASSUME NEW row, NEW S, NEW T, S \subseteq T, HasParent(row, S)
    PROVE  HasParent(row, T)
  BY DEF HasParent, Has

\* What a seed commits is one whole organisation.
LEMMA SeedRowsWhole ==
    ASSUME NEW o
    PROVE  /\ \A row \in SeedRows(o) : row.org = o /\ HasParent(row, SeedRows(o))
           /\ {row \in SeedRows(o) : OfCorpus(row)} = Corpus(o)
           /\ Inbound(o) \subseteq SeedRows(o)
  <1>1. SeedRows(o) = Inbound(o) \cup Corpus(o)
    BY DEF SeedRows, Corpus
  <1>2. \A row \in Corpus(o) : row.org = o /\ OfCorpus(row)
    <2> SUFFICES ASSUME NEW row \in Corpus(o) PROVE row.org = o /\ OfCorpus(row)
      OBVIOUS
    <2>1. PICK d \in Docs : row \in ScreenAndIngest(d, o)
      BY DEF Corpus
    <2> QED
      BY <2>1, ScreenedRows DEF OfCorpus
  <1>3. \A row \in Inbound(o) : row.org = o /\ ~OfCorpus(row) /\ HasParent(row, Inbound(o))
    BY RowFields DEF Inbound, OfCorpus, HasParent, Has
  <1>4. \A row \in Corpus(o) : HasParent(row, Corpus(o))
    BY <1>2 DEF OfCorpus, HasParent
  <1> QED
    BY <1>1, <1>2, <1>3, <1>4, ParentsStay

\* Whole to begin with.
LEMMA WholeInit == Init => WholeInv
  <1> SUFFICES ASSUME Init PROVE WholeInv
    OBVIOUS
  <1> DEFINE first == Row("answer", Earlier, "inbound", "inbound")
  <1>1. \A r \in Requests : ParentsOf(r)
    BY Disjoint DEF Init, ParentsOf
  <1>2. CASE org = None /\ rows = {}
    BY <1>1, <1>2 DEF WholeInv, Owned, Whole, Parents
  <1>3. CASE org = Earlier /\ rows = SeedRows(Earlier) \cup {first}
    <2>1. first.org = Earlier /\ ~OfCorpus(first)
      BY RowFields DEF OfCorpus
    <2>2. HasParent(first, SeedRows(Earlier))
      <3>1. Row("question", Earlier, "inbound", "inbound") \in SeedRows(Earlier)
        BY DEF SeedRows, Inbound
      <3> QED
        BY <3>1, RowFields DEF HasParent, Has
    <2>3. Owned /\ Whole
      BY <1>3, <2>1, SeedRowsWhole DEF Owned, Whole
    <2>4. Parents
      BY <1>3, <2>2, SeedRowsWhole, ParentsStay DEF Parents
    <2> QED
      BY <1>1, <2>3, <2>4 DEF WholeInv
  <1> QED
    BY <1>2, <1>3 DEF Init

\* A seed's commit leaves its own organisation and nothing of the one before.
LEMMA WholeSeed ==
    ASSUME TypeInv, LocksInv, PendingRows, WholeInv, NEW c \in Containers, CommitSeed(c)
    PROVE  WholeInv'
  <1>1. /\ org' = NewOrg(c) /\ pc[c] = "ready"
        /\ rows' = {row \in rows : row.org # read[c]} \cup tx[c]
    BY CommitSeedEffect
  <1>2. tx[c] = SeedRows(NewOrg(c))
    BY <1>1 DEF PendingRows, SeedTx
  <1>3. {row \in rows : row.org # read[c]} = {}
    <2>1. \A row \in rows : row.org = org /\ row.org # None
      BY NoneAssumption DEF WholeInv, Owned, TypeInv, TypeOK, Rows
    <2> QED
      BY <2>1, CommitAlone
  <1>4. rows' = SeedRows(org')
    BY <1>1, <1>2, <1>3
  <1>5. Owned' /\ Whole' /\ Parents'
    BY <1>4, SeedRowsWhole DEF Owned, Whole, Parents
  <1>6. \A r \in Requests : ParentsOf(r)'
    BY CommitAlone, Disjoint DEF ParentsOf
  <1> QED
    BY <1>5, <1>6 DEF WholeInv

\* What a request has pending keeps its parents while nothing is taken away.
LEMMA ParentsHeld ==
    ASSUME NEW r \in Requests, ParentsOf(r), org' = org, rows \subseteq rows',
           (tx'[r] = tx[r] /\ read'[r] = read[r]) \/ tx'[r] = {}
    PROVE  ParentsOf(r)'
  <1>1. rows \cup tx[r] \subseteq rows' \cup tx[r]
    OBVIOUS
  <1> QED
    BY <1>1, ParentsStay DEF ParentsOf

\* A request's commit adds rows of the organisation that is there, none of its corpus,
\* with their parents.
LEMMA WholeRequest ==
    ASSUME TypeInv, LocksInv, PendingRows, WholeInv, NEW r \in Requests, CommitRequest(r)
    PROVE  WholeInv'
  <1>1. /\ org' = org /\ rows' = rows \cup tx[r] /\ pc[r] = "stored" /\ tx'[r] = {}
        /\ read' = read /\ \A p \in Processes \ {r} : tx'[p] = tx[p]
    BY CommitRequestEffect
  <1>2. read[r] = org
    BY <1>1 DEF LocksInv, Referred, Sharing
  <1>3. \A row \in tx[r] : row.org = org /\ ~OfCorpus(row) /\ HasParent(row, rows')
    BY <1>1, <1>2 DEF PendingRows, RequestTx, OfCorpus, WholeInv, ParentsOf
  <1>4. Owned'
    BY <1>1, <1>3 DEF WholeInv, Owned
  <1>5. Whole'
    BY <1>1, <1>3 DEF WholeInv, Whole
  <1>6. Parents'
    BY <1>1, <1>3, ParentsStay DEF WholeInv, Parents
  <1>7. \A q \in Requests : ParentsOf(q)'
    BY <1>1, ParentsHeld, Disjoint DEF WholeInv
  <1> QED
    BY <1>4, <1>5, <1>6, <1>7 DEF WholeInv

\* What a request makes pending has its parents there, or pending with it.
LEMMA ParentsOwn ==
    ASSUME TypeInv, PendingRows, NEW r \in Requests, ParentsOf(r),
           \/ Begin(r) \/ InsertQuestionnaire(r) \/ PutFile(r) \/ LookUpAdHoc(r)
           \/ InsertAdHoc(r) \/ LoadAnswer(r) \/ UpdateAnswer(r) \/ InsertReview(r)
    PROVE  ParentsOf(r)'
  <1>1. /\ r \in Processes /\ r \in DOMAIN tx /\ RequestTx(r)
    BY Disjoint DEF TypeInv, TypeOK, PendingRows
  <1> USE DEF database
  <1>2. org' = org /\ rows' = rows
    BY DEF Begin, InsertQuestionnaire, PutFile, LookUpAdHoc, InsertAdHoc, LoadAnswer,
           UpdateAnswer, InsertReview
  <1>3. CASE Begin(r)
    <2>1. tx'[r] = {}
      BY <1>1, <1>3 DEF Begin, RequestTx
    <2> QED
      BY <1>2, <2>1, ParentsHeld
  <1>4. CASE InsertQuestionnaire(r)
    <2>1. tx'[r] = {Row("questionnaire", org, r, "uploaded")}
      BY <1>1, <1>4 DEF InsertQuestionnaire
    <2> QED
      BY <2>1, RowFields DEF ParentsOf, HasParent
  <1>5. CASE PutFile(r)
    <2>1. tx'[r] = {Row("questionnaire", read[r], r, "uploaded"), Row("question", read[r], r, r)}
      BY <1>1, <1>5 DEF PutFile, RequestTx
    <2> QED
      BY <2>1, RowFields DEF ParentsOf, HasParent, Has
  <1>6. CASE LookUpAdHoc(r)
    <2> DEFINE there == {row \in rows : row.table = "questionnaire" /\ row.of = "ad_hoc"
                                        /\ row.org = read[r]}
               new == Row("questionnaire", read[r], r, "ad_hoc")
               question(q) == Row("question", read[r], r, q.key)
               answer == Row("answer", read[r], r, r)
               of(q) == ({q} \ there) \cup {question(q), answer}
    <2>1. PICK q \in IF there = {} THEN {new} ELSE there : tx' = [tx EXCEPT ![r] = of(q)]
      BY <1>6 DEF LookUpAdHoc
    <2>2. tx'[r] = of(q)
      BY <1>1, <2>1
    <2>3. q \in rows' \cup of(q) /\ q.table = "questionnaire"
      BY <1>2, <2>1, RowFields
    <2>4. HasParent(q, rows' \cup of(q))
      BY <2>3 DEF HasParent
    <2>5. HasParent(question(q), rows' \cup of(q))
      BY <2>3, RowFields DEF HasParent, Has
    <2>6. HasParent(answer, rows' \cup of(q))
      BY RowFields DEF HasParent, Has
    <2> QED
      BY <2>2, <2>4, <2>5, <2>6 DEF ParentsOf
  <1>7. CASE LoadAnswer(r)
    <2>1. \/ tx' = tx /\ read' = read
          \/ \E row \in rows : /\ row.table = "answer"
                               /\ tx'[r] = {Row("review", read[r], r, row.key)}
      BY <1>1, <1>7 DEF LoadAnswer
    <2>2. CASE tx' = tx /\ read' = read
      BY <1>2, <2>2, ParentsHeld
    <2>3. CASE \E row \in rows : /\ row.table = "answer"
                                 /\ tx'[r] = {Row("review", read[r], r, row.key)}
      BY <1>2, <2>3, RowFields DEF ParentsOf, HasParent, Has
    <2> QED
      BY <2>1, <2>2, <2>3
  <1>8. CASE InsertAdHoc(r) \/ UpdateAnswer(r) \/ InsertReview(r)
    <2>1. tx' = tx /\ read' = read
      BY <1>8 DEF InsertAdHoc, UpdateAnswer, InsertReview
    <2> QED
      BY <1>2, <2>1, ParentsHeld
  <1> QED
    BY <1>3, <1>4, <1>5, <1>6, <1>7, <1>8

\* Of every request, whoever takes the step.
LEMMA ParentsStep ==
    ASSUME TypeInv, PendingRows, NEW r \in Requests, ParentsOf(r), [Next]_vars,
           ~\E c \in Containers : CommitSeed(c)
    PROVE  ParentsOf(r)'
  <1>1. r \in Processes
    BY Disjoint
  <1>2. ASSUME NEW q \in Processes \ {r}, Local(q)
        PROVE  ParentsOf(r)'
    BY <1>1, <1>2, ParentsHeld DEF Local
  <1>3. ASSUME NEW q \in Requests, CommitRequest(q)
        PROVE  ParentsOf(r)'
    BY <1>1, <1>3, CommitRequestEffect, ParentsHeld
  <1>4. ASSUME Failed(r), org' = org, rows' = rows
        PROVE  ParentsOf(r)'
    <2>1. tx'[r] = {}
      BY <1>1, <1>4 DEF Failed, TypeInv, TypeOK
    <2> QED
      BY <1>4, <2>1, ParentsHeld
  <1>5. ASSUME NEW q \in Requests,
               \/ Begin(q) \/ InsertQuestionnaire(q) \/ PutFile(q) \/ LookUpAdHoc(q)
               \/ InsertAdHoc(q) \/ LoadAnswer(q) \/ UpdateAnswer(q) \/ InsertReview(q)
               \/ RequestRefused(q) \/ RequestDies(q)
        PROVE  ParentsOf(r)'
    <2>1. CASE q # r
      BY <1>2, <1>5, <2>1, RequestType, Disjoint
    <2>2. CASE q = r
      BY <1>4, <1>5, <2>2, ParentsOwn DEF RequestRefused, RequestDies, database
    <2> QED
      BY <2>1, <2>2
  <1>6. ASSUME NEW c \in Containers, FailedAttempt(c), UNCHANGED <<database, broken>>,
               OwnFault(c) \/ UNCHANGED faults
        PROVE  ParentsOf(r)'
    BY <1>2, <1>6, FailedType, Disjoint
  <1>7. ASSUME NEW c \in Containers,
               \/ CheckOrg(c) \/ LockOrg(c) \/ Cascade(c) \/ InsertOrg(c)
               \/ \E d \in Docs : LoadDocument(c, d)
               \/ IngestCorpus(c) \/ SeedDataMissing(c) \/ AttemptFails(c)
        PROVE  ParentsOf(r)'
    BY <1>2, <1>6, <1>7, SeedType, Disjoint DEF InsertOrg, SeedDataMissing, AttemptFails
  <1>8. ASSUME NEW c \in Containers, NEW q \in Reviews, ResolveDeadlock(c, q)
        PROVE  ParentsOf(r)'
    <2>1. \/ Failed(q) /\ UNCHANGED <<database, seeding, broken>>
          \/ FailedAttempt(c) /\ UNCHANGED <<database, broken>> /\ UNCHANGED faults
      BY <1>8 DEF ResolveDeadlock, database, seeding
    <2>2. (Local(q) /\ Failed(q)) \/ Local(c)
      BY <2>1, FailedType, VictimType, Disjoint
    <2>3. UNCHANGED database /\ q \in Processes /\ c \in Processes \ {r}
      BY <1>8, Disjoint DEF ResolveDeadlock
    <2>4. CASE q = r /\ Failed(q)
      BY <1>4, <2>3, <2>4 DEF database
    <2>5. CASE q # r /\ Local(q)
      BY <1>2, <2>3, <2>5
    <2> QED
      BY <1>2, <2>2, <2>3, <2>4, <2>5
  <1>9. CASE UNCHANGED vars
    <2>1. org' = org /\ rows' = rows /\ tx' = tx /\ read' = read
      BY <1>9 DEF vars, database
    <2> QED
      BY <2>1, ParentsHeld
  <1> QED
    BY <1>3, <1>5, <1>7, <1>8, <1>9, Steps

\* Every step keeps the organisation whole.
LEMMA WholeStep ==
    TypeInv /\ LocksInv /\ ObjectsInv /\ WholeInv /\ [Next]_vars => WholeInv'
  <1> SUFFICES ASSUME TypeInv, LocksInv, PendingRows, WholeInv, [Next]_vars PROVE WholeInv'
    BY DEF ObjectsInv
  <1>1. CASE \E c \in Containers : CommitSeed(c)
    BY <1>1, WholeSeed
  <1>2. CASE \E r \in Requests : CommitRequest(r)
    BY <1>2, WholeRequest
  <1>3. CASE (~\E c \in Containers : CommitSeed(c)) /\ org' = org /\ rows' = rows
    <2>1. Owned' /\ Whole' /\ Parents'
      BY <1>3 DEF WholeInv, Owned, Whole, Parents
    <2>2. \A r \in Requests : ParentsOf(r)'
      BY <1>3, ParentsStep DEF WholeInv
    <2> QED
      BY <2>1, <2>2 DEF WholeInv
  <1>4. UNCHANGED vars => org' = org /\ rows' = rows
    BY DEF vars, database
  <1> QED
    BY <1>1, <1>2, <1>3, <1>4, LocalSteps DEF Local

\* The corpus of an organisation has a row of evidence for each document, and chunks for
\* those that were not quarantined.
LEMMA CorpusKeys ==
    ASSUME NEW o
    PROVE  /\ \A d \in Docs : \E row \in Corpus(o) : row.table = "evidence" /\ row.key = d
           /\ \A row \in Corpus(o) : row.key \in Docs
           /\ \A row \in Corpus(o) : row.table = "evidence" =>
                (row.of # "quarantined" <=>
                    \E chunk \in Corpus(o) : chunk.table = "chunk" /\ chunk.key = row.key)
  <1> DEFINE quarantined(d) == d \in Injected /\ Policy = "quarantine"
  <1>1. ASSUME NEW d \in Docs, NEW row \in ScreenAndIngest(d, o)
        PROVE  /\ row.key = d
               /\ row.table = "evidence" => (row.of # "quarantined" <=> ~quarantined(d))
               /\ row.table = "chunk" => ~quarantined(d)
    BY <1>1, RowFields DEF ScreenAndIngest
  <1>2. ASSUME NEW d \in Docs
        PROVE  /\ \E row \in ScreenAndIngest(d, o) : row.table = "evidence" /\ row.key = d
               /\ ~quarantined(d) =>
                    \E row \in ScreenAndIngest(d, o) : row.table = "chunk" /\ row.key = d
    BY <1>2, RowFields DEF ScreenAndIngest
  <1>3. \A d \in Docs : ScreenAndIngest(d, o) \subseteq Corpus(o)
    BY DEF Corpus
  <1>4. \A row \in Corpus(o) : \E d \in Docs : row \in ScreenAndIngest(d, o)
    BY DEF Corpus
  <1> HIDE DEF quarantined
  <1>5. \A row \in Corpus(o) : row.key \in Docs /\ row \in ScreenAndIngest(row.key, o)
    BY <1>1, <1>4
  <1>6. ASSUME NEW row \in Corpus(o), row.table = "evidence"
        PROVE  row.of # "quarantined" <=>
                 \E chunk \in Corpus(o) : chunk.table = "chunk" /\ chunk.key = row.key
    <2>1. row.key \in Docs /\ (row.of # "quarantined" <=> ~quarantined(row.key))
      BY <1>1, <1>5, <1>6
    <2>2. ASSUME NEW chunk \in Corpus(o), chunk.table = "chunk", chunk.key = row.key
          PROVE  ~quarantined(row.key)
      BY <1>1, <1>5, <2>2
    <2>3. ASSUME ~quarantined(row.key)
          PROVE  \E chunk \in Corpus(o) : chunk.table = "chunk" /\ chunk.key = row.key
      BY <1>2, <1>3, <2>1, <2>3
    <2> QED
      BY <2>1, <2>2, <2>3
  <1> QED
    BY <1>2, <1>3, <1>5, <1>6

\* There is one organisation, whole, and nothing outside it (OneWholeOrg), whichever seeds
\* replaced it while questions, uploads and reviews were being written to it.
THEOREM OneWholeOrgHolds == Spec => []OneWholeOrg
  <1>1. TypeInv /\ WholeInv => OneWholeOrg
    <2> SUFFICES ASSUME TypeInv, WholeInv PROVE OneWholeOrg
      OBVIOUS
    <2>1. \A table, key : Has(table, key, rows) <=> key \in Keys(table)
      BY DEF Has, Keys
    <2>2. \A row \in rows :
            /\ row.table = "question" => row.of \in Keys("questionnaire")
            /\ row.table = "answer" => row.of \in Keys("question")
            /\ row.table = "review" => row.of \in Keys("answer")
      BY <2>1 DEF WholeInv, Parents, HasParent
    <2>3. ASSUME org # None
          PROVE  /\ Keys("evidence") = Docs /\ "inbound" \in Keys("questionnaire")
                 /\ \A row \in rows : row.table = "evidence" =>
                        (row.key \in Keys("chunk") <=> row.of # "quarantined")
      <3>1. /\ \A row : row \in Corpus(org) <=> row \in rows /\ OfCorpus(row)
            /\ Inbound(org) \subseteq rows
        BY <2>3 DEF WholeInv, Whole
      <3>2. "inbound" \in Keys("questionnaire")
        BY <3>1, RowFields DEF Inbound, Keys
      <3>3. Keys("evidence") = Docs
        BY <3>1, CorpusKeys DEF Keys, OfCorpus
      <3>4. \A row \in rows : row.table = "evidence" =>
              (row.key \in Keys("chunk") <=> row.of # "quarantined")
        BY <3>1, CorpusKeys DEF Keys, OfCorpus
      <3> QED
        BY <3>2, <3>3, <3>4
    <2>4. \A row \in rows : row.org = org /\ row.org # None
      BY NoneAssumption DEF WholeInv, Owned, TypeInv, TypeOK, Rows
    <2> QED
      BY <2>2, <2>3, <2>4 DEF OneWholeOrg
  <1> QED
    BY <1>1, WholeInit, WholeStep, LocksInit, LocksStep, ObjectsInit, ObjectsStep, TypeInvariant,
       PTL DEF Spec
=============================================================================
