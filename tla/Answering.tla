----------------------------- MODULE Answering -----------------------------
(***************************************************************************)
(* From a question to the answer that is emitted for it (generate_answer,  *)
(* _answer_one, _answer_compound and _recompose of answers/generate.py,    *)
(* the gates and checks of validate.py, the composite of confidence.py).   *)
(*                                                                         *)
(* What one focused question meets on its way is an input: the draft that  *)
(* AgentLoop's gathering ended with, or none, and what the database holds  *)
(* for it.  Percentages are integers; a score is in units of 1/10000.      *)
(***************************************************************************)
EXTENDS Integers, Sequences, FiniteSetsExt

CONSTANTS
    Chunks,       \* chunks that can be cited, each of a document of its own
    SourceType,   \* their source_type
    Certs,        \* certifications
    Docs,         \* shareable documents
    Register,     \* the findings of the remediation register
    SimpleInputs, \* what a simple question may meet: a bound
    PartInputs,   \* what a part of a compound question may meet: a bound
    MaxParts,     \* agent_max_subquestions
    NoDraft       \* no draft: nothing retrieved, a malformed one, needs_input

SourceTypes == {"policy", "control", "evidence", "approved_answer", "company_profile"}
RESPOND_DRAFTED == {"attested", "qualified", "negative"}
Affirmative == {"attested", "qualified"}
CONTROLLING_SOURCE_TYPES == {"policy", "control", "evidence"}
ACCEPTABLE_BASIS_SOURCE_TYPES == CONTROLLING_SOURCE_TYPES \cup {"approved_answer"}

Claims == [subject : Certs, status : {"affirmed", "qualified", "denied", "unknown"},
           based : BOOLEAN]
Findings ==
    [document : Docs,      \* the report it is from
     open : BOOLEAN,       \* open or in_progress
     dated : BOOLEAN,      \* it has a target_remediation_date
     shareable : BOOLEAN]  \* customer_shareable

Inputs ==
    [outcome : RESPOND_DRAFTED, \* what the draft says
     cites : SUBSET Chunks,     \* its refs that resolve
     claims : Seq(Claims),      \* its claims; based: a basis ref resolves
     flawed : BOOLEAN,          \* a review check fails: fields, refs, leakage
     injected : SUBSET Chunks,  \* chunks whose raw text screens as injection
     resolves : BOOLEAN,        \* a cited approval is an approved record
     request : {"none", "named", "generic"}, \* of a document
     docs : SUBSET Docs,        \* the documents of the named kinds
     missing : BOOLEAN,         \* a named kind has no document
     relevance : 0..100, coverage : 0..100]

ASSUME ChunksAssumption == IsFiniteSet(Chunks)
ASSUME SourceTypeAssumption == SourceType \in [Chunks -> SourceTypes]
ASSUME RegisterAssumption == Register \subseteq Findings
ASSUME InputsAssumption ==
    NoDraft \notin Inputs /\ SimpleInputs \cup PartInputs \subseteq Inputs \cup {NoDraft}
ASSUME MaxPartsAssumption == MaxParts \in Nat \ {0}

VARIABLES
    question, \* injected: it screens as injection; substance: something is left of
              \* it (without the injection); compound
    held,     \* certifications the ingested attestations attest
    stage,    \* where the answering is
    wanted,   \* the number of sub-questions
    met,      \* what each of them has met
    parts,    \* its answers
    result    \* the answer emitted

vars == <<question, held, stage, wanted, met, parts, result>>

-----------------------------------------------------------------------------
(* The composite confidence.                                               *)

SOURCE_AUTHORITY == [policy |-> 100, evidence |-> 100, control |-> 85,
                     approved_answer |-> 90, company_profile |-> 70]

Authority(cites) == Max({SOURCE_AUTHORITY[SourceType[c]] : c \in cites})

Agreement(cites) == Min({100, 50 * Cardinality(cites)})

Score(x) ==
    IF x.cites = {} THEN 0
    ELSE 15 * x.relevance + 35 * Authority(x.cites) + 20 * Agreement(x.cites)
         + 30 * x.coverage

BandFor(score) ==
    CASE score >= 7000 -> "high"
      [] score \in 4500..6999 -> "medium"
      [] score \in 2000..4499 -> "low"
      [] OTHER -> "none"

-----------------------------------------------------------------------------
(* The gates and checks of one focused question.                           *)

ClaimsOf(x) == {x.claims[n] : n \in DOMAIN x.claims}
WithStatus(x, s) == {c \in ClaimsOf(x) : c.status = s}

\* Mutant: any attestation will do for an affirmed certification.
OverclaimsAny(x) == WithStatus(x, "affirmed") # {} /\ held = {}

Overclaims(x) == \E c \in WithStatus(x, "affirmed") : c.subject \notin held

\* derive_cert_outcome: the declared claims decide, not the prose.
Outcome(x) ==
    IF x.claims = <<>> THEN x.outcome
    ELSE IF Overclaims(x) THEN "needs_input"
    ELSE IF \/ WithStatus(x, "qualified") # {}
            \/ WithStatus(x, "affirmed") # {} /\ WithStatus(x, "denied") # {}
         THEN "qualified"
    ELSE IF WithStatus(x, "affirmed") # {} THEN "attested"
    ELSE IF \E c \in WithStatus(x, "denied") : c.based THEN "negative"
    ELSE "needs_input"

CitesOneOf(x, types) == \E c \in x.cites : SourceType[c] \in types
Controlled(x) == CitesOneOf(x, CONTROLLING_SOURCE_TYPES)
Reused(x) == CitesOneOf(x, {"approved_answer"}) /\ x.resolves
ReusedOnly(x) == Reused(x) /\ ~Controlled(x)

\* Mutant: an approval is taken for a basis without being looked up.
UngroundedOnFaith(x) ==
    Outcome(x) \in Affirmative /\ ~CitesOneOf(x, ACCEPTABLE_BASIS_SOURCE_TYPES)

\* acceptable_basis_gate and the resolution of approvals.
Ungrounded(x) ==
    /\ Outcome(x) \in Affirmative
    /\ \/ ~CitesOneOf(x, ACCEPTABLE_BASIS_SOURCE_TYPES)
       \/ ~Controlled(x) /\ ~Reused(x)

Provided(x) == IF x.request = "named" THEN x.docs ELSE {}

\* _findings_for: those of the documents that customers may be shown.
FindingsFor(docs) == {f \in Register : f.document \in docs /\ f.shareable}

Unplanned(f) == f.open /\ ~f.dated

\* Mutant: the dates are only looked at when every named kind has its document.
UndatedIfWhole(x) == ~x.missing /\ \E f \in FindingsFor(Provided(x)) : Unplanned(f)

\* open_findings_gate, which sees no other findings.
UndatedFinding(x) == \E f \in FindingsFor(Provided(x)) : Unplanned(f)

Refused(x) ==
    x = NoDraft \/ Outcome(x) = "needs_input" \/ Ungrounded(x) \/ UndatedFinding(x)

Because(reason, holds) == IF holds THEN {reason} ELSE {}

\* Mutant: the reuse of an approval is no reason to look again.
ReasonsTrusting(x) ==
    Because("checks", x.flawed) \cup Because("injection", x.cites \cap x.injected # {})
    \cup Because("missing", x.request = "named" /\ x.missing)
    \cup Because("selection", x.request = "generic")

\* Why a human must look at the answer.
Reasons(x) ==
    Because("checks", x.flawed) \cup Because("injection", x.cites \cap x.injected # {})
    \cup Because("missing", x.request = "named" /\ x.missing)
    \cup Because("selection", x.request = "generic") \cup Because("reused", ReusedOnly(x))

\* _needs_input_answer.
Fallback ==
    [outcome |-> "needs_input", refs |-> {}, claims |-> <<>>, provided |-> {},
     selection |-> FALSE, confidence |-> 0, band |-> "none", needs_review |-> TRUE,
     injection |-> FALSE]

AnswerOne(x) ==
    IF Refused(x) THEN Fallback
    ELSE [outcome      |-> Outcome(x),
          refs         |-> x.cites,
          claims       |-> x.claims,
          provided     |-> Provided(x),
          selection    |-> x.request = "generic",
          confidence   |-> Score(x),
          band         |-> BandFor(Score(x)),
          needs_review |-> Reasons(x) # {} \/ BandFor(Score(x)) # "high",
          injection    |-> x.cites \cap x.injected # {}]

-----------------------------------------------------------------------------
(* _recompose.                                                             *)

Answered(answers) == {n \in DOMAIN answers : answers[n].outcome # "needs_input"}
Unsupported(answers) == DOMAIN answers \ Answered(answers)

\* Mutant: the parts without an answer do not count.
CombinedOfAnswered(answers) ==
    IF Answered(answers) = {} THEN "needs_input"
    ELSE IF \E n \in Answered(answers) : answers[n].outcome # "attested" THEN "qualified"
    ELSE "attested"

Combined(answers) ==
    IF Answered(answers) = {} THEN "needs_input"
    ELSE IF \/ Unsupported(answers) # {}
            \/ \E n \in Answered(answers) : answers[n].outcome # "attested"
         THEN "qualified"
    ELSE "attested"

\* The claims of all parts, one after the other: claim p[2] of part p[1].
ClaimPlaces(answers) == UNION {{n} \X DOMAIN answers[n].claims : n \in DOMAIN answers}
ClaimAt(answers, p) == answers[p[1]].claims[p[2]]
Before(p, q) == p[1] < q[1] \/ (p[1] = q[1] /\ p[2] < q[2])

\* The list that keeps the first claim of each certification, by where it was.
UniteClaims(answers) ==
    [p \in {q \in ClaimPlaces(answers) : \A o \in ClaimPlaces(answers) : Before(o, q) =>
                ClaimAt(answers, o).subject # ClaimAt(answers, q).subject} |->
        ClaimAt(answers, p)]

LeastConfidence(answers) ==
    IF Answered(answers) = {} THEN 0
    ELSE Min({answers[n].confidence : n \in Answered(answers)})

Recompose(answers) ==
    [outcome      |-> Combined(answers),
     refs         |-> UNION {answers[n].refs : n \in DOMAIN answers},
     claims       |-> UniteClaims(answers),
     provided     |-> UNION {answers[n].provided : n \in DOMAIN answers},
     selection    |-> \E n \in DOMAIN answers : answers[n].selection,
     confidence   |-> LeastConfidence(answers),
     band         |-> IF Answered(answers) = {} THEN "none"
                      ELSE BandFor(LeastConfidence(answers)),
     needs_review |-> \/ Unsupported(answers) # {}
                      \/ \E n \in DOMAIN answers : answers[n].needs_review
                      \/ Combined(answers) # "attested",
     injection    |-> \E n \in DOMAIN answers : answers[n].injection]

-----------------------------------------------------------------------------
(* generate_answer.                                                        *)

Questions == [injected : BOOLEAN, substance : BOOLEAN, compound : BOOLEAN]

Init ==
    /\ question \in Questions
    /\ held \in SUBSET Certs
    /\ stage = "new"
    /\ wanted = 0
    /\ met = <<>>
    /\ parts = <<>>
    /\ result = Fallback

Emit(answer) == stage' = "done" /\ result' = answer

\* An empty question, or one with nothing but an injection, is not asked at all.
Screen ==
    /\ stage = "new"
    /\ IF question.substance THEN stage' = "screened" /\ UNCHANGED result
       ELSE Emit([Fallback EXCEPT !.injection = question.injected])
    /\ UNCHANGED <<question, held, wanted, met, parts>>

\* Mutant: the injection in a question is not carried over to its answer.
FlaggedNot(answer) == answer

\* What the screening of the question adds to its answer.
Flagged(answer) ==
    IF question.injected
    THEN [answer EXCEPT !.injection = TRUE, !.needs_review = TRUE] ELSE answer

AnswerSimple ==
    /\ stage = "screened" /\ ~question.compound
    /\ \E x \in SimpleInputs :
        /\ met' = <<x>>
        /\ parts' = <<AnswerOne(x)>>
        /\ Emit(Flagged(AnswerOne(x)))
    /\ UNCHANGED <<question, held, wanted>>

\* A split that fails, or finds nothing to split, leaves one question.
Decompose ==
    /\ stage = "screened" /\ question.compound
    /\ wanted' \in 1..MaxParts
    /\ stage' = "parts"
    /\ UNCHANGED <<question, held, met, parts, result>>

AnswerPart ==
    /\ stage = "parts" /\ Len(parts) < wanted
    /\ \E x \in PartInputs :
        /\ met' = Append(met, x)
        /\ parts' = Append(parts, AnswerOne(x))
    /\ UNCHANGED <<question, held, stage, wanted, result>>

\* One part is the answer; more are recomposed.
Finish ==
    /\ stage = "parts" /\ Len(parts) = wanted
    /\ Emit(Flagged(IF wanted = 1 THEN parts[1] ELSE Recompose(parts)))
    /\ UNCHANGED <<question, held, wanted, met, parts>>

\* An exception of the provider or the database leaves generate_answer: the parts
\* answered so far are lost with it.
Abandon ==
    /\ \/ stage = "screened" /\ ~question.compound
       \/ stage = "parts" /\ Len(parts) < wanted
    /\ stage' = "failed"
    /\ UNCHANGED <<question, held, wanted, met, parts, result>>

Stopped == stage \in {"done", "failed"} /\ UNCHANGED vars

Next ==
    Screen \/ AnswerSimple \/ Decompose \/ AnswerPart \/ Finish \/ Abandon \/ Stopped

Spec == Init /\ [][Next]_vars

-----------------------------------------------------------------------------
(* Properties.                                                             *)

Scores == 0..10000
Answers ==
    [outcome : RESPOND_DRAFTED \cup {"needs_input"}, refs : SUBSET Chunks, claims : Seq(Claims),
     provided : SUBSET Docs, selection : BOOLEAN, confidence : Scores,
     band : {"high", "medium", "low", "none"}, needs_review : BOOLEAN, injection : BOOLEAN]

\* The claims of an answer that is recomposed are listed by where they were.
Listed(answer) ==
    /\ [answer EXCEPT !.claims = <<>>] \in Answers
    /\ \A p \in DOMAIN answer.claims : answer.claims[p] \in Claims

TypeOK ==
    /\ question \in Questions
    /\ held \subseteq Certs
    /\ stage \in {"new", "screened", "parts", "done", "failed"}
    /\ wanted \in 0..MaxParts
    /\ met \in Seq(SimpleInputs \cup PartInputs)
    /\ parts \in Seq(Answers) /\ Len(parts) = Len(met)
    /\ Listed(result)

Emitted == stage = "done"

\* Polarity of an answer drawn from claims: nothing is affirmed that is denied or only
\* qualified, or that no attestation backs.
Faithful(x) ==
    \A c \in ClaimsOf(x) : c.status \in {"affirmed", "unknown"} /\
                           (c.status = "affirmed" => c.subject \in held)

\* Every finding of these reports that is open and that customers are shown has a date.
PlannedAsShown(docs) ==
    \A f \in Register : f.document \in docs /\ f.shareable /\ f.open => f.dated

\* An input no reviewer would object to: every claim backed, a basis that stands on its
\* own, nothing suspicious, nothing left to choose, or to date of what is shown.
Sound(x) ==
    /\ x # NoDraft
    /\ ~x.flawed
    /\ x.cites # {} /\ x.cites \cap x.injected = {}
    /\ x.request = "named" => ~x.missing /\ PlannedAsShown(x.docs)
    /\ x.request # "generic"
    /\ \A c \in ClaimsOf(x) : c.status = "affirmed" => c.subject \in held

\* Drafts are never auto-emitted: an answer that is not flagged for review is sound in every
\* part, rests on a controlling source when it affirms, and never on a reused approval alone.
CleanMeansSound ==
    Emitted /\ ~result.needs_review =>
        /\ ~question.injected /\ met # <<>>
        /\ result.confidence >= 7000
        /\ \A n \in DOMAIN met :
            /\ Sound(met[n])
            /\ Controlled(met[n]) \/ (parts[n].outcome = "negative" /\ ~ReusedOnly(met[n]))

\* Anti-fabrication: an affirmative part cites a controlling source, or an approval that
\* is on record.
PartsGrounded ==
    \A n \in DOMAIN parts : parts[n].outcome \in Affirmative =>
        Controlled(met[n]) \/ Reused(met[n])

\* "an unsupported part is flagged, never dropped": the answer is not affirmed as a whole,
\* and it goes to a human.
UnsupportedFlagged ==
    Emitted /\ (\E n \in DOMAIN parts : parts[n].outcome = "needs_input") =>
        /\ result.needs_review /\ result.outcome \in {"qualified", "needs_input"}
        /\ (\A n \in DOMAIN parts : parts[n].outcome = "needs_input") =>
                result.outcome = "needs_input"

\* No overclaim: every certification the answer affirms is held, and an
\* answer attested from its claims rests on claims that deny and qualify nothing.
OnlyHeldCertsAffirmed ==
    /\ \A n \in DOMAIN result.claims :
        result.claims[n].status = "affirmed" => result.claims[n].subject \in held
    /\ \A n \in DOMAIN parts :
        parts[n].outcome = "attested" /\ parts[n].claims # <<>> => Faithful(met[n])

\* A report is never provided when customers would be shown an open finding of it that
\* has no target date (validate.py:125-143), nor a document nobody named.  Of findings that
\* are not shown the gate knows nothing (generate.py:283), whatever docs/05 section 9 says.
NothingUndatedProvided ==
    /\ PlannedAsShown(result.provided)
    /\ \A d \in result.provided : \E n \in DOMAIN met :
        met[n] # NoDraft /\ met[n].request = "named" /\ d \in met[n].docs

\* An injection in the question, or in what an answered part cites, shows on the answer.
InjectionSurfaces ==
    Emitted /\ (\/ question.injected
                \/ \E n \in Answered(parts) : met[n].cites \cap met[n].injected # {}) =>
        result.injection /\ result.needs_review
=============================================================================
