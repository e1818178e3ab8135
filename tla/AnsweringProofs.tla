-------------------------- MODULE AnsweringProofs --------------------------
(***************************************************************************)
(* Proofs about Answering, for any chunks, certifications, documents and   *)
(* inputs, and any number of parts.                                        *)
(***************************************************************************)
EXTENDS Answering, FiniteNumbers

Met == SimpleInputs \cup PartInputs

-----------------------------------------------------------------------------
(* The composite confidence.                                               *)

\* The greatest of some numbers is one of them, when it exists.
LEMMA MaxOfNumbers ==
    ASSUME NEW S, S # {}, NEW bound \in Nat, \A n \in S : n \in 0..bound
    PROVE  Max(S) \in S
  <1> DEFINE id == [n \in S |-> n]
  <1>1. \E m \in S : \A n \in S : id[n] <= id[m]
    <2>1. \A n \in S : id[n] \in Nat /\ id[n] <= bound
      OBVIOUS
    <2> HIDE DEF id
    <2> QED
      BY <2>1, GreatestOf
  <1>2. \E m \in S : \A n \in S : m >= n
    BY <1>1
  <1> QED
    BY <1>2 DEF Max

\* The least of some numbers is one of them.
LEMMA MinOfNumbers ==
    ASSUME NEW S, S # {}, S \subseteq Nat
    PROVE  Min(S) \in S /\ \A n \in S : Min(S) <= n
  <1>1. \E m \in S : \A n \in S : m =< n
    BY LeastNumber
  <1> QED
    BY <1>1 DEF Min

\* A draft that cites something has a score between 0 and 10000.
LEMMA ScoreType ==
    ASSUME NEW x \in Inputs
    PROVE  Score(x) \in Scores
  <1>1. /\ x.cites \subseteq Chunks /\ x.relevance \in 0..100 /\ x.coverage \in 0..100
    BY DEF Inputs
  <1>2. CASE x.cites = {}
    BY <1>2 DEF Score, Scores
  <1>3. CASE x.cites # {}
    <2> DEFINE given == {SOURCE_AUTHORITY[SourceType[c]] : c \in x.cites}
    <2>1. \A c \in x.cites : SOURCE_AUTHORITY[SourceType[c]] \in 0..100
      <3>1. \A c \in x.cites : SourceType[c] \in SourceTypes
        BY <1>1, SourceTypeAssumption
      <3>2. \A s \in SourceTypes : SOURCE_AUTHORITY[s] \in 0..100
        BY DEF SourceTypes, SOURCE_AUTHORITY
      <3> QED
        BY <3>1, <3>2
    <2>2. given # {} /\ \A n \in given : n \in 0..100
      BY <1>3, <2>1
    <2>3. Authority(x.cites) \in 0..100
      <3>1. Authority(x.cites) = Max(given)
        BY DEF Authority
      <3>2. Max(given) \in given
        <4> HIDE DEF given
        <4> QED
          BY <2>2, MaxOfNumbers
      <3> QED
        BY <2>2, <3>1, <3>2
    <2>4. Agreement(x.cites) \in 0..100
      <3>1. Cardinality(x.cites) \in Nat
        BY <1>1, ChunksAssumption, FS_Subset, FS_CardinalityType
      <3>2. Min({100, 50 * Cardinality(x.cites)}) \in {100, 50 * Cardinality(x.cites)}
            /\ Min({100, 50 * Cardinality(x.cites)}) <= 100
        BY <3>1, MinOfNumbers
      <3> QED
        BY <3>1, <3>2 DEF Agreement
    <2>5. PICK p, q, r, s \in 0..100 : /\ p = x.relevance /\ q = Authority(x.cites)
                                       /\ r = Agreement(x.cites) /\ s = x.coverage
      BY <1>1, <2>3, <2>4, Zenon
    <2>6. Score(x) = 15 * x.relevance + 35 * Authority(x.cites) + 20 * Agreement(x.cites)
                     + 30 * x.coverage
      BY <1>3 DEF Score
    <2>7. Score(x) = 15 * p + 35 * q + 20 * r + 30 * s
      BY <2>5, <2>6
    <2>8. p \in 0..100 /\ q \in 0..100 /\ r \in 0..100 /\ s \in 0..100
      BY <2>5, Zenon
    <2> QED
      BY <2>7, <2>8 DEF Scores
  <1> QED
    BY <1>2, <1>3

-----------------------------------------------------------------------------
(* One focused question.                                                   *)

\* The gates refuse exactly what is answered with needs_input; what they let pass
\* keeps what the draft has of it.
Passed(x) ==
    /\ x \in Inputs
    /\ AnswerOne(x).outcome = Outcome(x) /\ Outcome(x) \in RESPOND_DRAFTED
    /\ AnswerOne(x).refs = x.cites /\ AnswerOne(x).claims = x.claims
    /\ AnswerOne(x).provided = Provided(x)
    /\ AnswerOne(x).selection = (x.request = "generic")
    /\ AnswerOne(x).confidence = Score(x) /\ AnswerOne(x).band = BandFor(Score(x))
    /\ AnswerOne(x).needs_review = (Reasons(x) # {} \/ BandFor(Score(x)) # "high")
    /\ AnswerOne(x).injection = (x.cites \cap x.injected # {})

\* What an answer without support looks like.
Fell(answer) ==
    /\ answer.outcome = "needs_input" /\ answer.refs = {} /\ answer.claims = <<>>
    /\ answer.provided = {} /\ answer.selection = FALSE /\ answer.confidence = 0
    /\ answer.band = "none" /\ answer.needs_review = TRUE

\* The claims decide on an outcome, or the prose does.
LEMMA OutcomeType ==
    ASSUME NEW x \in Inputs
    PROVE  Outcome(x) \in RESPOND_DRAFTED \cup {"needs_input"}
  <1>1. x.outcome \in RESPOND_DRAFTED
    BY DEF Inputs
  <1> QED
    BY <1>1 DEF Outcome, RESPOND_DRAFTED

\* An answer is a fallback or has passed every gate.
LEMMA PassedOrFell ==
    ASSUME NEW x \in Met
    PROVE  \/ Refused(x) /\ AnswerOne(x) = Fallback
           \/ ~Refused(x) /\ Passed(x)
  <1>1. CASE Refused(x)
    BY <1>1 DEF AnswerOne
  <1>2. CASE ~Refused(x)
    <2>1. x \in Inputs /\ Outcome(x) # "needs_input"
      BY <1>2, InputsAssumption DEF Refused, Met
    <2>2. Outcome(x) \in RESPOND_DRAFTED
      BY <2>1, OutcomeType
    <2>3. PICK generic, review, injection :
            /\ generic = (x.request = "generic")
            /\ review = (Reasons(x) # {} \/ BandFor(Score(x)) # "high")
            /\ injection = (x.cites \cap x.injected # {})
      BY Zenon
    <2>4. AnswerOne(x) =
            [outcome |-> Outcome(x), refs |-> x.cites, claims |-> x.claims,
             provided |-> Provided(x), selection |-> generic,
             confidence |-> Score(x), band |-> BandFor(Score(x)),
             needs_review |-> review, injection |-> injection]
      BY <1>2, <2>3, Zenon DEF AnswerOne
    <2>5. /\ AnswerOne(x).outcome = Outcome(x)
          /\ AnswerOne(x).refs = x.cites /\ AnswerOne(x).claims = x.claims
          /\ AnswerOne(x).provided = Provided(x)
          /\ AnswerOne(x).confidence = Score(x) /\ AnswerOne(x).band = BandFor(Score(x))
          /\ AnswerOne(x).selection = generic /\ AnswerOne(x).needs_review = review
          /\ AnswerOne(x).injection = injection
      BY <2>4
    <2> QED
      BY <1>2, <2>1, <2>2, <2>3, <2>5, Zenon DEF Passed
  <1> QED
    BY <1>1, <1>2

\* Fallback is what it is.
LEMMA FallbackFell == Fell(Fallback) /\ Fallback.injection = FALSE
  BY DEF Fell, Fallback

\* A part is unsupported exactly if it was refused.
LEMMA RefusedIsUnsupported ==
    ASSUME NEW x \in Met
    PROVE  AnswerOne(x).outcome = "needs_input" <=> Refused(x)
  BY PassedOrFell, FallbackFell DEF Passed, Fell, RESPOND_DRAFTED

\* What a part affirms rests on a controlling source or on an approval on record.
LEMMA PartGrounded ==
    ASSUME NEW x \in Met, AnswerOne(x).outcome \in Affirmative
    PROVE  Controlled(x) \/ Reused(x)
  <1>1. ~Refused(x) /\ Passed(x)
    BY PassedOrFell, RefusedIsUnsupported DEF Affirmative
  <1> QED
    BY <1>1 DEF Refused, Passed, Ungrounded

\* The draft of a part that passed overclaims nothing.
LEMMA PartHeld ==
    ASSUME NEW x \in Met, ~Refused(x)
    PROVE  \A c \in ClaimsOf(x) : c.status = "affirmed" => c.subject \in held
  <1>1. Outcome(x) # "needs_input"
    BY DEF Refused
  <1>2. CASE x.claims = <<>>
    BY <1>2 DEF ClaimsOf
  <1>3. CASE x.claims # <<>>
    <2>1. ~Overclaims(x)
      BY <1>1, <1>3 DEF Outcome
    <2> QED
      BY <2>1 DEF Overclaims, WithStatus
  <1> QED
    BY <1>2, <1>3

\* A status a claim can have.
LEMMA ClaimStatus ==
    ASSUME NEW x \in Inputs, NEW c \in ClaimsOf(x)
    PROVE  c \in Claims
  <1>1. x.claims \in Seq(Claims)
    BY DEF Inputs
  <1> QED
    BY <1>1 DEF ClaimsOf

\* A part attested from its claims has only affirmed ones and such as say nothing.
LEMMA PartFaithful ==
    ASSUME NEW x \in Met, AnswerOne(x).outcome = "attested", AnswerOne(x).claims # <<>>
    PROVE  Faithful(x)
  <1>1. ~Refused(x) /\ Passed(x)
    BY PassedOrFell, RefusedIsUnsupported
  <1>2. x.claims # <<>> /\ Outcome(x) = "attested"
    BY <1>1 DEF Passed
  <1>3. /\ WithStatus(x, "qualified") = {}
        /\ WithStatus(x, "affirmed") # {} => WithStatus(x, "denied") = {}
        /\ WithStatus(x, "affirmed") # {}
    BY <1>2 DEF Outcome
  <1>4. \A c \in ClaimsOf(x) : c.status \in {"affirmed", "qualified", "denied", "unknown"}
    BY <1>1, ClaimStatus DEF Passed, Claims
  <1>5. \A c \in ClaimsOf(x) : c.status \in {"affirmed", "unknown"}
    BY <1>3, <1>4 DEF WithStatus
  <1> QED
    BY <1>1, <1>5, PartHeld DEF Faithful

\* A part provides what was named and shows nothing open without a date.
LEMMA PartProvided ==
    ASSUME NEW x \in Met
    PROVE  /\ PlannedAsShown(AnswerOne(x).provided)
           /\ \A d \in AnswerOne(x).provided :
                x # NoDraft /\ x.request = "named" /\ d \in x.docs
  <1>1. CASE Refused(x)
    <2>1. AnswerOne(x).provided = {}
      BY <1>1, PassedOrFell, FallbackFell DEF Fell
    <2> QED
      BY <2>1 DEF PlannedAsShown
  <1>2. CASE ~Refused(x)
    <2>1. Passed(x)
      BY <1>2, PassedOrFell
    <2>2. AnswerOne(x).provided = Provided(x) /\ ~UndatedFinding(x)
      BY <1>2, <2>1 DEF Refused, Passed
    <2>3. PlannedAsShown(Provided(x))
      BY <2>2 DEF UndatedFinding, FindingsFor, Unplanned, PlannedAsShown
    <2>4. x # NoDraft
      BY <1>2 DEF Refused
    <2>5. \A d \in Provided(x) : x.request = "named" /\ d \in x.docs
      BY DEF Provided
    <2> QED
      BY <2>2, <2>3, <2>4, <2>5
  <1> QED
    BY <1>1, <1>2

\* An injection in what a part cites shows on it.
LEMMA PartInjection ==
    ASSUME NEW x \in Met, AnswerOne(x).outcome # "needs_input", x.cites \cap x.injected # {}
    PROVE  AnswerOne(x).injection /\ AnswerOne(x).needs_review
  <1>1. Passed(x)
    BY PassedOrFell, FallbackFell DEF Fell
  <1>2. Reasons(x) # {}
    BY DEF Reasons, Because
  <1> QED
    BY <1>1, <1>2 DEF Passed

\* A part that is not flagged for review is sound and scores high.
LEMMA PartClean ==
    ASSUME NEW x \in Met, ~AnswerOne(x).needs_review
    PROVE  /\ Sound(x) /\ AnswerOne(x).confidence >= 7000
           /\ Controlled(x) \/ (AnswerOne(x).outcome = "negative" /\ ~ReusedOnly(x))
  <1>1. ~Refused(x) /\ Passed(x)
    BY PassedOrFell, FallbackFell DEF Fell
  <1>2. Reasons(x) = {} /\ BandFor(Score(x)) = "high"
    BY <1>1, Zenon DEF Passed
  <1>3. /\ ~x.flawed /\ x.cites \cap x.injected = {}
        /\ ~(x.request = "named" /\ x.missing) /\ x.request # "generic" /\ ~ReusedOnly(x)
    BY <1>2 DEF Reasons, Because
  <1>4. Score(x) >= 7000
    <2>1. Score(x) \in Scores
      BY <1>1, ScoreType DEF Passed
    <2> QED
      BY <1>2, <2>1 DEF BandFor, Scores
  <1>5. x.cites # {}
    BY <1>4 DEF Score
  <1>6. x # NoDraft /\ ~UndatedFinding(x) /\ ~Ungrounded(x)
    BY <1>1 DEF Refused
  <1>7. Sound(x)
    <2>1. x.request = "named" => PlannedAsShown(x.docs)
      BY <1>6 DEF UndatedFinding, Provided, FindingsFor, Unplanned, PlannedAsShown
    <2> QED
      BY <1>1, <1>3, <1>5, <1>6, <2>1, PartHeld DEF Sound
  <1>8. Controlled(x) \/ AnswerOne(x).outcome = "negative"
    <2>1. CASE Outcome(x) \in Affirmative
      BY <1>3, <1>6, <2>1 DEF Ungrounded, ReusedOnly
    <2>2. CASE Outcome(x) \notin Affirmative
      BY <1>1, <2>2 DEF Passed, Affirmative, RESPOND_DRAFTED
    <2> QED
      BY <2>1, <2>2
  <1> QED
    BY <1>1, <1>3, <1>4, <1>7, <1>8 DEF Passed

\* The type of an answer whose claims are listed as C says.
Shape(C) ==
    [outcome : RESPOND_DRAFTED \cup {"needs_input"}, refs : SUBSET Chunks, claims : C,
     provided : SUBSET Docs, selection : BOOLEAN, confidence : Scores,
     band : {"high", "medium", "low", "none"}, needs_review : BOOLEAN, injection : BOOLEAN]

\* A band for every score.
LEMMA BandType ==
    ASSUME NEW n \in Scores
    PROVE  BandFor(n) \in {"high", "medium", "low", "none"}
  BY DEF BandFor

\* Parts have their type.
LEMMA PartType ==
    ASSUME NEW x \in Met
    PROVE  AnswerOne(x) \in Answers
  <1>1. CASE Refused(x)
    <2>1. Fallback \in Answers
      BY DEF Fallback, Answers, Scores
    <2> QED
      BY <1>1, <2>1, PassedOrFell
  <1>2. CASE ~Refused(x)
    <2>1. /\ x \in Inputs /\ Outcome(x) \in RESPOND_DRAFTED
      BY <1>2, PassedOrFell DEF Passed
    <2>2. /\ x.cites \in SUBSET Chunks /\ x.claims \in Seq(Claims) /\ x.docs \in SUBSET Docs
      BY <2>1 DEF Inputs
    <2>3. Provided(x) \in SUBSET Docs
      BY <2>2 DEF Provided
    <2>4. Score(x) \in Scores /\ BandFor(Score(x)) \in {"high", "medium", "low", "none"}
      BY <2>1, ScoreType, BandType
    <2>5. PICK generic \in BOOLEAN, review \in BOOLEAN, injection \in BOOLEAN :
            /\ generic = (x.request = "generic")
            /\ review = (Reasons(x) # {} \/ BandFor(Score(x)) # "high")
            /\ injection = (x.cites \cap x.injected # {})
      BY Zenon
    <2>6. AnswerOne(x) =
            [outcome |-> Outcome(x), refs |-> x.cites, claims |-> x.claims,
             provided |-> Provided(x), selection |-> generic,
             confidence |-> Score(x), band |-> BandFor(Score(x)),
             needs_review |-> review, injection |-> injection]
      BY <1>2, <2>5, Zenon DEF AnswerOne
    <2> QED
      BY <2>1, <2>2, <2>3, <2>4, <2>5, <2>6 DEF Answers
  <1> QED
    BY <1>1, <1>2

-----------------------------------------------------------------------------
(* Recomposition.                                                          *)

\* The claims of the parts, each where its part has it.
LEMMA UnitedClaims ==
    ASSUME NEW answers \in Seq(Answers), NEW p \in DOMAIN UniteClaims(answers)
    PROVE  \E n \in DOMAIN answers : \E m \in DOMAIN answers[n].claims :
              UniteClaims(answers)[p] = answers[n].claims[m]
  <1>1. p \in ClaimPlaces(answers) /\ UniteClaims(answers)[p] = ClaimAt(answers, p)
    BY DEF UniteClaims
  <1>2. PICK n \in DOMAIN answers : p \in {n} \X DOMAIN answers[n].claims
    BY <1>1 DEF ClaimPlaces
  <1>3. p[1] = n /\ p[2] \in DOMAIN answers[n].claims
    BY <1>2
  <1> QED
    BY <1>1, <1>2, <1>3 DEF ClaimAt

\* The confidence of the whole is that of one of the answered parts, if any is.
LEMMA LeastOfParts ==
    ASSUME NEW answers \in Seq(Answers), Answered(answers) # {}
    PROVE  \E n \in Answered(answers) : LeastConfidence(answers) = answers[n].confidence
  <1> DEFINE given == {answers[n].confidence : n \in Answered(answers)}
  <1>1. \A n \in DOMAIN answers : answers[n] \in Answers
    OBVIOUS
  <1>2. \A n \in Answered(answers) : answers[n].confidence \in Scores
    BY <1>1 DEF Answered, Answers
  <1>3. given # {} /\ given \subseteq Nat
    <2>1. given # {} /\ given \subseteq Scores
      BY <1>2
    <2>2. Scores \subseteq Nat
      BY DEF Scores
    <2> HIDE DEF given
    <2> QED
      BY <2>1, <2>2
  <1>4. Min(given) \in given
    <2> HIDE DEF given
    <2> QED
      BY <1>3, MinOfNumbers
  <1>5. LeastConfidence(answers) = Min(given)
    BY DEF LeastConfidence
  <1> QED
    BY <1>4, <1>5

\* What a recomposed answer has of its parts.
Recomposed(answers, whole) ==
    /\ whole.outcome = Combined(answers)
    /\ whole.claims = UniteClaims(answers)
    /\ whole.provided = UNION {answers[n].provided : n \in DOMAIN answers}
    /\ whole.confidence = LeastConfidence(answers)
    /\ whole.needs_review = (\/ Unsupported(answers) # {}
                             \/ \E n \in DOMAIN answers : answers[n].needs_review
                             \/ Combined(answers) # "attested")
    /\ whole.injection = (\E n \in DOMAIN answers : answers[n].injection)

\* Recomposition makes an answer of this kind, and of the type of answers.
LEMMA RecomposeEffect ==
    ASSUME NEW answers \in Seq(Answers)
    PROVE  /\ Recomposed(answers, Recompose(answers))
           /\ Recompose(answers) \in Shape({UniteClaims(answers)})
  <1> DEFINE refs == UNION {answers[n].refs : n \in DOMAIN answers}
             provided == UNION {answers[n].provided : n \in DOMAIN answers}
             band == IF Answered(answers) = {} THEN "none" ELSE BandFor(LeastConfidence(answers))
  <1>1. PICK selection \in BOOLEAN, review \in BOOLEAN, injection \in BOOLEAN :
          /\ selection = (\E n \in DOMAIN answers : answers[n].selection)
          /\ review = (\/ Unsupported(answers) # {}
                       \/ \E n \in DOMAIN answers : answers[n].needs_review
                       \/ Combined(answers) # "attested")
          /\ injection = (\E n \in DOMAIN answers : answers[n].injection)
    BY Zenon
  <1>2. Recompose(answers) =
          [outcome |-> Combined(answers), refs |-> refs, claims |-> UniteClaims(answers),
           provided |-> provided, selection |-> selection,
           confidence |-> LeastConfidence(answers), band |-> band,
           needs_review |-> review, injection |-> injection]
    BY <1>1, Zenon DEF Recompose
  <1>3. \A n \in DOMAIN answers : answers[n] \in Answers
    OBVIOUS
  <1>4. refs \subseteq Chunks /\ provided \subseteq Docs
    BY <1>3 DEF Answers
  <1>5. LeastConfidence(answers) \in Scores
    <2>1. CASE Answered(answers) = {}
      BY <2>1 DEF LeastConfidence, Scores
    <2>2. CASE Answered(answers) # {}
      <3>1. PICK n \in Answered(answers) : LeastConfidence(answers) = answers[n].confidence
        BY <2>2, LeastOfParts
      <3>2. n \in DOMAIN answers
        BY <3>1 DEF Answered
      <3> QED
        BY <1>3, <3>1, <3>2 DEF Answers
    <2> QED
      BY <2>1, <2>2
  <1>6. band \in {"high", "medium", "low", "none"}
    <2>1. BandFor(LeastConfidence(answers)) \in {"high", "medium", "low", "none"}
      BY <1>5, BandType
    <2> QED
      BY <2>1
  <1>7. Combined(answers) \in RESPOND_DRAFTED \cup {"needs_input"}
    BY DEF Combined, RESPOND_DRAFTED
  <1> HIDE DEF refs, provided, band
  <1>8. Recompose(answers) \in Shape({UniteClaims(answers)})
    BY <1>1, <1>2, <1>4, <1>5, <1>6, <1>7 DEF Shape
  <1>9. /\ Recompose(answers).outcome = Combined(answers)
        /\ Recompose(answers).claims = UniteClaims(answers)
        /\ Recompose(answers).provided = provided
        /\ Recompose(answers).confidence = LeastConfidence(answers)
        /\ Recompose(answers).needs_review = review
        /\ Recompose(answers).injection = injection
    BY <1>2
  <1>10. Recomposed(answers, Recompose(answers))
    BY <1>1, <1>9, Zenon DEF Recomposed, provided
  <1> QED
    BY <1>8, <1>10

\* What the screening of the question adds to an answer.
Marked(answer, after) ==
    /\ after.outcome = answer.outcome /\ after.claims = answer.claims
    /\ after.provided = answer.provided /\ after.confidence = answer.confidence
    /\ after.needs_review <=> question.injected \/ answer.needs_review
    /\ after.injection <=> question.injected \/ answer.injection

\* It adds no more than that.
LEMMA FlaggedEffect ==
    ASSUME NEW C, NEW answer \in Shape(C)
    PROVE  Flagged(answer) \in Shape(C) /\ Marked(answer, Flagged(answer))
  <1>1. CASE question.injected
    <2>1. Flagged(answer) = [answer EXCEPT !.injection = TRUE, !.needs_review = TRUE]
      BY <1>1 DEF Flagged
    <2>2. /\ Flagged(answer) \in Shape(C)
          /\ Flagged(answer).outcome = answer.outcome /\ Flagged(answer).claims = answer.claims
          /\ Flagged(answer).provided = answer.provided
          /\ Flagged(answer).confidence = answer.confidence
          /\ Flagged(answer).needs_review = TRUE /\ Flagged(answer).injection = TRUE
      BY <2>1 DEF Shape
    <2> QED
      BY <1>1, <2>2 DEF Marked
  <1>2. CASE ~question.injected
    <2>1. Flagged(answer) = answer
      BY <1>2 DEF Flagged
    <2> QED
      BY <1>2, <2>1 DEF Marked
  <1> QED
    BY <1>1, <1>2

-----------------------------------------------------------------------------
(* The inductive invariant: the answers of the parts are those of what they *)
(* have met, and the answer emitted is made of them.                        *)

\* The answer that the parts amount to.
Whole(answers) == IF Len(answers) = 1 THEN answers[1] ELSE Recompose(answers)

PartsAnswered ==
    /\ met \in Seq(Met) /\ parts \in Seq(Answers) /\ Len(parts) = Len(met)
    /\ \A n \in DOMAIN met : parts[n] = AnswerOne(met[n])

\* No part is met before the split, none beyond it, and nothing is emitted early.
Progress ==
    /\ stage \in {"new", "screened"} => parts = <<>>
    /\ stage = "parts" => wanted \in 1..MaxParts /\ Len(parts) <= wanted
    /\ stage # "done" => result = Fallback

EmittedWhole ==
    stage = "done" =>
        \/ parts = <<>> /\ result = [Fallback EXCEPT !.injection = question.injected]
        \/ parts # <<>> /\ result = Flagged(Whole(parts))

AnsweringInv ==
    /\ question \in Questions
    /\ held \subseteq Certs
    /\ stage \in {"new", "screened", "parts", "done", "failed"}
    /\ wanted \in 0..MaxParts
    /\ PartsAnswered
    /\ Progress
    /\ EmittedWhole

\* While nothing else is ingested, an answer stays what it is.
LEMMA AnswersKept ==
    ASSUME held' = held
    PROVE  \A x : AnswerOne(x)' = AnswerOne(x)
  BY DEF AnswerOne, Refused, Outcome, Overclaims, Ungrounded, UndatedFinding

\* The question does not change either.
LEMMA FlagKept ==
    ASSUME question' = question
    PROVE  \A answer : Flagged(answer)' = Flagged(answer)
  BY DEF Flagged

\* The invariant holds before anything is asked.
LEMMA AnsweringInit == Init => AnsweringInv
  <1> SUFFICES ASSUME Init PROVE AnsweringInv
    OBVIOUS
  <1> USE DEF Init
  <1>1. wanted \in 0..MaxParts
    BY MaxPartsAssumption
  <1>2. PartsAnswered
    BY DEF PartsAnswered
  <1>3. Progress /\ EmittedWhole
    BY DEF Progress, EmittedWhole
  <1> QED
    BY <1>1, <1>2, <1>3 DEF AnsweringInv

\* The parts grow with what they meet.
LEMMA PartAppended ==
    ASSUME PartsAnswered, held' = held, NEW x \in Met,
           met' = Append(met, x), parts' = Append(parts, AnswerOne(x))
    PROVE  PartsAnswered' /\ Len(parts') = Len(parts) + 1
  <1>1. AnswerOne(x) \in Answers
    BY PartType
  <1>2. met' \in Seq(Met) /\ parts' \in Seq(Answers) /\ Len(parts') = Len(met')
        /\ Len(parts') = Len(parts) + 1
    BY <1>1 DEF PartsAnswered
  <1>3. \A n \in DOMAIN met' : parts'[n] = AnswerOne(met'[n])
    <2> SUFFICES ASSUME NEW n \in DOMAIN met'
                 PROVE  parts'[n] = AnswerOne(met'[n])
      OBVIOUS
    <2>1. CASE n \in DOMAIN met
      <3>1. met'[n] = met[n] /\ parts'[n] = parts[n]
        BY <2>1, <1>1 DEF PartsAnswered
      <3> QED
        BY <2>1, <3>1 DEF PartsAnswered
    <2>2. CASE n \notin DOMAIN met
      <3>1. met'[n] = x /\ parts'[n] = AnswerOne(x)
        BY <2>2, <1>1 DEF PartsAnswered
      <3> QED
        BY <3>1
    <2> QED
      BY <2>1, <2>2
  <1> QED
    BY <1>2, <1>3, AnswersKept DEF PartsAnswered

\* Every step keeps the invariant.
LEMMA AnsweringStep == AnsweringInv /\ [Next]_vars => AnsweringInv'
  <1> SUFFICES ASSUME AnsweringInv, [Next]_vars PROVE AnsweringInv'
    OBVIOUS
  <1>1. question' = question /\ held' = held
    BY DEF Next, Screen, AnswerSimple, Decompose, AnswerPart, Finish, Abandon, Stopped, vars
  <1>2. /\ question' \in Questions /\ held' \subseteq Certs
        /\ PartsAnswered /\ Progress /\ EmittedWhole
        /\ wanted \in 0..MaxParts
        /\ stage \in {"new", "screened", "parts", "done", "failed"}
    BY <1>1 DEF AnsweringInv
  <1>3. met' = met /\ parts' = parts => PartsAnswered'
    BY <1>1, <1>2, AnswersKept DEF PartsAnswered
  <1>4. CASE Screen
    <2>1. PartsAnswered' /\ parts' = <<>> /\ wanted' = wanted
      BY <1>2, <1>3, <1>4 DEF Screen, Progress
    <2>2. stage' \in {"screened", "done"} /\ Progress' /\ EmittedWhole'
      BY <1>1, <1>2, <1>4, <2>1 DEF Screen, Emit, Progress, EmittedWhole
    <2> QED
      BY <1>2, <2>1, <2>2 DEF AnsweringInv
  <1>5. CASE AnswerSimple
    <2>1. PICK x \in SimpleInputs : /\ met' = <<x>> /\ parts' = <<AnswerOne(x)>>
                                    /\ Emit(Flagged(AnswerOne(x)))
      BY <1>5 DEF AnswerSimple
    <2>2. x \in Met /\ AnswerOne(x) \in Answers
      BY PartType DEF Met
    <2>3. met = <<>> /\ parts = <<>>
      BY <1>2, <1>5 DEF AnswerSimple, Progress, PartsAnswered
    <2>4. met' = Append(met, x) /\ parts' = Append(parts, AnswerOne(x))
      BY <2>1, <2>3
    <2>5. PartsAnswered'
      BY <1>1, <1>2, <2>2, <2>4, PartAppended
    <2>6. stage' = "done" /\ result' = Flagged(AnswerOne(x)) /\ wanted' = wanted
      BY <1>5, <2>1 DEF AnswerSimple, Emit
    <2>7. parts' # <<>> /\ Whole(parts') = AnswerOne(x)
      BY <2>1, <2>2 DEF Whole
    <2>8. EmittedWhole'
      BY <1>1, <2>6, <2>7, FlagKept DEF EmittedWhole
    <2>9. Progress'
      BY <2>6 DEF Progress
    <2> QED
      BY <1>2, <2>5, <2>6, <2>8, <2>9 DEF AnsweringInv
  <1>6. CASE Decompose
    <2>1. PartsAnswered' /\ parts' = <<>> /\ wanted' \in 1..MaxParts /\ stage' = "parts"
          /\ result' = Fallback
      BY <1>2, <1>3, <1>6 DEF Decompose, Progress
    <2>2. Progress' /\ EmittedWhole' /\ wanted' \in 0..MaxParts
      BY <2>1, MaxPartsAssumption DEF Progress, EmittedWhole
    <2> QED
      BY <1>2, <2>1, <2>2 DEF AnsweringInv
  <1>7. CASE AnswerPart
    <2>1. PICK x \in PartInputs : met' = Append(met, x) /\ parts' = Append(parts, AnswerOne(x))
      BY <1>7 DEF AnswerPart
    <2>2. x \in Met
      BY DEF Met
    <2>3. PartsAnswered' /\ Len(parts') = Len(parts) + 1
      BY <1>1, <1>2, <2>1, <2>2, PartAppended
    <2>4. stage = "parts" /\ stage' = stage /\ wanted' = wanted /\ result' = result
          /\ Len(parts) < wanted
      BY <1>7 DEF AnswerPart
    <2>5. Len(parts) \in Nat
      BY <1>2 DEF PartsAnswered
    <2>6. Progress' /\ EmittedWhole'
      BY <1>2, <2>3, <2>4, <2>5 DEF Progress, EmittedWhole
    <2> QED
      BY <1>2, <2>3, <2>4, <2>6 DEF AnsweringInv
  <1>8. CASE Finish
    <2>1. PartsAnswered' /\ wanted' = wanted /\ parts' = parts /\ stage' = "done"
      BY <1>3, <1>8 DEF Finish, Emit
    <2>2. Len(parts) = wanted /\ wanted \in 1..MaxParts
      BY <1>2, <1>8 DEF Finish, Progress
    <2>3. parts # <<>> /\ result' = Flagged(Whole(parts))
      BY <1>8, <2>2 DEF Finish, Emit, Whole
    <2>4. EmittedWhole'
      BY <1>1, <2>1, <2>3, FlagKept DEF EmittedWhole
    <2>5. Progress'
      BY <2>1 DEF Progress
    <2> QED
      BY <1>2, <2>1, <2>4, <2>5 DEF AnsweringInv
  <1>9. CASE Abandon
    <2>1. PartsAnswered' /\ wanted' = wanted /\ stage' = "failed" /\ result' = Fallback
      BY <1>2, <1>3, <1>9 DEF Abandon, Progress
    <2> QED
      BY <1>2, <2>1 DEF AnsweringInv, Progress, EmittedWhole
  <1>10. CASE UNCHANGED vars
    <2>1. PartsAnswered' /\ wanted' = wanted /\ stage' = stage /\ parts' = parts
          /\ result' = result
      BY <1>3, <1>10 DEF vars
    <2>2. Progress'
      BY <1>2, <2>1 DEF Progress
    <2>3. EmittedWhole'
      BY <1>1, <1>2, <2>1, FlagKept DEF EmittedWhole
    <2> QED
      BY <1>2, <2>1, <2>2, <2>3 DEF AnsweringInv
  <1> QED
    BY <1>4, <1>5, <1>6, <1>7, <1>8, <1>9, <1>10 DEF Next, Stopped

\* AnsweringInv is an invariant.
LEMMA AnsweringInvariant == Spec => []AnsweringInv
  BY AnsweringInit, AnsweringStep, PTL DEF Spec

-----------------------------------------------------------------------------
(* What the invariant implies of the whole.                                *)

\* The whole has its type; each of its claims is one of a part.
LEMMA WholeType ==
    ASSUME NEW answers \in Seq(Answers), answers # <<>>
    PROVE  /\ \E C : Whole(answers) \in Shape(C)
           /\ \A p \in DOMAIN Whole(answers).claims :
                \E n \in DOMAIN answers : \E m \in DOMAIN answers[n].claims :
                    Whole(answers).claims[p] = answers[n].claims[m]
  <1>1. CASE Len(answers) = 1
    <2>1. 1 \in DOMAIN answers /\ Whole(answers) = answers[1] /\ answers[1] \in Answers
      BY <1>1 DEF Whole
    <2>2. Answers = Shape(Seq(Claims))
      BY DEF Answers, Shape
    <2> QED
      BY <2>1, <2>2
  <1>2. CASE Len(answers) # 1
    <2>1. Whole(answers) = Recompose(answers)
      BY <1>2 DEF Whole
    <2>2. /\ Recomposed(answers, Recompose(answers))
          /\ Recompose(answers) \in Shape({UniteClaims(answers)})
      BY RecomposeEffect
    <2>3. Recompose(answers).claims = UniteClaims(answers)
      BY <2>2 DEF Recomposed
    <2> QED
      BY <2>1, <2>2, <2>3, UnitedClaims
  <1> QED
    BY <1>1, <1>2

\* What the parts have in common with the whole of them.
Sums(answers, whole) ==
    /\ \A d \in whole.provided : \E n \in DOMAIN answers : d \in answers[n].provided
    /\ \A n \in DOMAIN answers : /\ answers[n].needs_review => whole.needs_review
                                 /\ answers[n].injection => whole.injection
    /\ (\E n \in DOMAIN answers : answers[n].outcome = "needs_input") =>
            whole.outcome \in {"qualified", "needs_input"}
    /\ (\A n \in DOMAIN answers : answers[n].outcome = "needs_input") =>
            whole.outcome = "needs_input"
    /\ whole.needs_review \/ \E n \in DOMAIN answers : whole.confidence = answers[n].confidence

\* Recomposed or alone, the parts sum up.
LEMMA WholeSums ==
    ASSUME NEW answers \in Seq(Answers), answers # <<>>
    PROVE  Sums(answers, Whole(answers))
  <1>1. CASE Len(answers) = 1
    <2>1. Whole(answers) = answers[1] /\ DOMAIN answers = {1}
      BY <1>1 DEF Whole
    <2> QED
      BY <2>1 DEF Sums
  <1>2. CASE Len(answers) # 1
    <2> DEFINE whole == Whole(answers)
    <2>1. Recomposed(answers, whole)
      BY <1>2, RecomposeEffect DEF Whole
    <2>2. whole.provided = UNION {answers[n].provided : n \in DOMAIN answers}
      BY <2>1 DEF Recomposed
    <2>3. /\ whole.outcome = Combined(answers)
          /\ whole.confidence = LeastConfidence(answers)
      BY <2>1 DEF Recomposed
    <2>4. /\ (\E n \in DOMAIN answers : answers[n].needs_review) => whole.needs_review
          /\ Unsupported(answers) # {} => whole.needs_review
          /\ (\E n \in DOMAIN answers : answers[n].injection) => whole.injection
      BY <2>1, Zenon DEF Recomposed
    <2>5. Unsupported(answers) # {} => whole.outcome \in {"qualified", "needs_input"}
      BY <2>3 DEF Combined
    <2>6. (\E n \in DOMAIN answers : answers[n].outcome = "needs_input")
            => Unsupported(answers) # {}
      BY DEF Unsupported, Answered
    <2>7. Answered(answers) = {} => whole.outcome = "needs_input"
      BY <2>3 DEF Combined
    <2>8. (\A n \in DOMAIN answers : answers[n].outcome = "needs_input")
            => Answered(answers) = {}
      BY DEF Answered
    <2>9. Unsupported(answers) # {}
          \/ \E n \in DOMAIN answers : whole.confidence = answers[n].confidence
      <3>1. CASE Answered(answers) = {}
        BY <3>1 DEF Unsupported
      <3>2. CASE Answered(answers) # {}
        BY <2>3, <3>2, LeastOfParts DEF Answered
      <3> QED
        BY <3>1, <3>2
    <2> HIDE DEF whole
    <2>10. Sums(answers, whole)
      BY <2>2, <2>4, <2>5, <2>6, <2>7, <2>8, <2>9, Zenon DEF Sums
    <2> QED
      BY <2>10 DEF whole
  <1> QED
    BY <1>1, <1>2

\* Something listed in this way is an answer.
LEMMA ListedShape ==
    ASSUME NEW C, NEW answer \in Shape(C),
           \A p \in DOMAIN answer.claims : answer.claims[p] \in Claims
    PROVE  Listed(answer)
  <1>1. <<>> \in Seq(Claims)
    OBVIOUS
  <1>2. [answer EXCEPT !.claims = <<>>] \in Answers
    BY <1>1 DEF Shape, Answers
  <1> QED
    BY <1>2 DEF Listed

\* What is emitted is the whole of the parts, marked if the question was suspicious.
Delivered ==
    /\ parts # <<>>
    /\ Marked(Whole(parts), result)
    /\ \E C : result \in Shape(C)
    /\ \A p \in DOMAIN result.claims :
        \E n \in DOMAIN parts : \E m \in DOMAIN parts[n].claims :
            result.claims[p] = parts[n].claims[m]

\* Before it, and for a question that is not asked, there is the fallback.
Declined ==
    /\ Fell(result) /\ Listed(result)
    /\ stage = "done" => parts = <<>> /\ (question.injected <=> result.injection)

\* One or the other.
LEMMA DeclinedOrDelivered ==
    ASSUME AnsweringInv
    PROVE  Declined \/ (stage = "done" /\ Delivered)
  <1>1. question \in Questions /\ PartsAnswered /\ Progress /\ EmittedWhole
    BY DEF AnsweringInv
  <1>2. question.injected \in BOOLEAN
    BY <1>1 DEF Questions
  <1>3. /\ Fallback \in Shape({<<>>}) /\ Fallback.claims = <<>> /\ Fell(Fallback)
        /\ Listed(Fallback)
    <2>1. Fallback \in Shape({<<>>}) /\ Fallback.claims = <<>>
      BY DEF Fallback, Shape, Scores
    <2>2. \A p \in DOMAIN Fallback.claims : Fallback.claims[p] \in Claims
      BY <2>1
    <2> QED
      BY <2>1, <2>2, FallbackFell, ListedShape
  <1>4. CASE stage # "done"
    BY <1>1, <1>3, <1>4 DEF Declined, Progress
  <1>5. CASE stage = "done" /\ parts = <<>>
    <2>1. result = [Fallback EXCEPT !.injection = question.injected]
      BY <1>1, <1>5 DEF EmittedWhole
    <2>2. Fell(result) /\ result.injection = question.injected
      BY <2>1 DEF Fell, Fallback
    <2>3. Listed(result)
      <3>1. result \in Shape({<<>>}) /\ result.claims = <<>>
        BY <1>2, <1>3, <2>1 DEF Shape
      <3>2. \A p \in DOMAIN result.claims : result.claims[p] \in Claims
        BY <3>1
      <3> QED
        BY <3>1, <3>2, ListedShape
    <2> QED
      BY <1>5, <2>2, <2>3 DEF Declined
  <1>6. CASE stage = "done" /\ parts # <<>>
    <2>1. result = Flagged(Whole(parts)) /\ parts \in Seq(Answers)
      BY <1>1, <1>6 DEF EmittedWhole, PartsAnswered
    <2>2. PICK C : Whole(parts) \in Shape(C)
      BY <1>6, <2>1, WholeType
    <2>3. result \in Shape(C) /\ Marked(Whole(parts), result)
      BY <2>1, <2>2, FlaggedEffect
    <2>4. \A p \in DOMAIN Whole(parts).claims :
            \E n \in DOMAIN parts : \E m \in DOMAIN parts[n].claims :
                Whole(parts).claims[p] = parts[n].claims[m]
      BY <1>6, <2>1, WholeType
    <2>5. result.claims = Whole(parts).claims
      BY <2>3 DEF Marked
    <2> QED
      BY <1>6, <2>3, <2>4, <2>5 DEF Delivered
  <1> QED
    BY <1>4, <1>5, <1>6

\* A part is what is answered to what it has met.
LEMMA PartOfMet ==
    ASSUME AnsweringInv
    PROVE  /\ DOMAIN parts = DOMAIN met
           /\ parts \in Seq(Answers)
           /\ \A n \in DOMAIN parts : met[n] \in Met /\ parts[n] = AnswerOne(met[n])
  BY DEF AnsweringInv, PartsAnswered

\* What a part claims is what the draft it passed with claims.
LEMMA PartClaims ==
    ASSUME NEW x \in Met, NEW m \in DOMAIN AnswerOne(x).claims
    PROVE  /\ AnswerOne(x).claims[m] \in Claims
           /\ AnswerOne(x).claims[m].status = "affirmed" =>
                AnswerOne(x).claims[m].subject \in held
  <1>1. CASE Refused(x)
    <2>1. AnswerOne(x).claims = <<>>
      BY <1>1, PassedOrFell, FallbackFell DEF Fell
    <2> QED
      BY <2>1
  <1>2. CASE ~Refused(x)
    <2>1. x \in Inputs /\ AnswerOne(x).claims = x.claims
      BY <1>2, PassedOrFell DEF Passed
    <2>2. x.claims[m] \in ClaimsOf(x)
      BY <2>1 DEF ClaimsOf
    <2> QED
      BY <1>2, <2>1, <2>2, ClaimStatus, PartHeld
  <1> QED
    BY <1>1, <1>2

-----------------------------------------------------------------------------
(* The theorems.                                                           *)

\* Types: what is emitted is an answer, its parts are, and no more parts than wanted
\* are kept.
THEOREM AnsweringTypeCorrect == Spec => []TypeOK
  <1>1. AnsweringInv => TypeOK
    <2> SUFFICES ASSUME AnsweringInv PROVE TypeOK
      OBVIOUS
    <2>1. Listed(result)
      <3>1. CASE Declined
        BY <3>1 DEF Declined
      <3>2. CASE Delivered
        <4>1. \A p \in DOMAIN result.claims : result.claims[p] \in Claims
          BY <3>2, PartOfMet, PartClaims DEF Delivered
        <4> QED
          BY <3>2, <4>1, ListedShape DEF Delivered
      <3> QED
        BY <3>1, <3>2, DeclinedOrDelivered
    <2> QED
      BY <2>1 DEF TypeOK, AnsweringInv, PartsAnswered, Met
  <1> QED
    BY <1>1, AnsweringInvariant, PTL

\* Anti-fabrication (PartsGrounded): what is affirmed rests on a controlling source or on
\* an approval on record, whatever the drafts say.
THEOREM AffirmedIsGrounded == Spec => []PartsGrounded
  <1>1. AnsweringInv => PartsGrounded
    BY PartOfMet, PartGrounded DEF PartsGrounded
  <1> QED
    BY <1>1, AnsweringInvariant, PTL

\* No overclaim (OnlyHeldCertsAffirmed): recomposition adds no claim the parts do not make.
THEOREM NothingOverclaimed == Spec => []OnlyHeldCertsAffirmed
  <1>1. AnsweringInv => OnlyHeldCertsAffirmed
    <2> SUFFICES ASSUME AnsweringInv PROVE OnlyHeldCertsAffirmed
      OBVIOUS
    <2>1. \A n \in DOMAIN parts :
            parts[n].outcome = "attested" /\ parts[n].claims # <<>> => Faithful(met[n])
      BY PartOfMet, PartFaithful
    <2>2. \A n \in DOMAIN result.claims :
            result.claims[n].status = "affirmed" => result.claims[n].subject \in held
      <3>1. CASE Declined
        BY <3>1 DEF Declined, Fell
      <3>2. CASE Delivered
        BY <3>2, PartOfMet, PartClaims DEF Delivered
      <3> QED
        BY <3>1, <3>2, DeclinedOrDelivered
    <2> QED
      BY <2>1, <2>2 DEF OnlyHeldCertsAffirmed
  <1> QED
    BY <1>1, AnsweringInvariant, PTL

\* Nothing of what is provided was not named, nor has an open finding without a date
\* that customers would be shown (NothingUndatedProvided): also of what the parts provide
\* together.  Of findings they are not shown the gate knows nothing.
THEOREM ProvidedAreDated == Spec => []NothingUndatedProvided
  <1>1. AnsweringInv => NothingUndatedProvided
    <2> SUFFICES ASSUME AnsweringInv PROVE NothingUndatedProvided
      OBVIOUS
    <2>1. \A d \in result.provided : \E n \in DOMAIN parts : d \in parts[n].provided
      <3>1. CASE Declined
        BY <3>1 DEF Declined, Fell
      <3>2. CASE Delivered
        <4>1. result.provided = Whole(parts).provided /\ parts # <<>>
          BY <3>2 DEF Delivered, Marked
        <4>2. Sums(parts, Whole(parts))
          BY <4>1, PartOfMet, WholeSums
        <4> QED
          BY <4>1, <4>2 DEF Sums
      <3> QED
        BY <3>1, <3>2, DeclinedOrDelivered
    <2>2. \A n \in DOMAIN parts : \A d \in parts[n].provided :
            met[n] # NoDraft /\ met[n].request = "named" /\ d \in met[n].docs
      BY PartOfMet, PartProvided
    <2>3. \A n \in DOMAIN parts : PlannedAsShown(parts[n].provided)
      BY PartOfMet, PartProvided
    <2>4. PlannedAsShown(result.provided)
      BY <2>1, <2>3 DEF PlannedAsShown
    <2>5. DOMAIN parts = DOMAIN met
      BY PartOfMet
    <2> QED
      BY <2>1, <2>2, <2>4, <2>5 DEF NothingUndatedProvided
  <1> QED
    BY <1>1, AnsweringInvariant, PTL

\* A part without support is never lost in the whole (UnsupportedFlagged).
THEOREM UnsupportedAreFlagged == Spec => []UnsupportedFlagged
  <1>1. AnsweringInv => UnsupportedFlagged
    <2> SUFFICES ASSUME AnsweringInv, stage = "done", NEW n \in DOMAIN parts,
                        parts[n].outcome = "needs_input"
                 PROVE  /\ result.needs_review /\ result.outcome \in {"qualified", "needs_input"}
                        /\ (\A m \in DOMAIN parts : parts[m].outcome = "needs_input") =>
                                result.outcome = "needs_input"
      BY DEF UnsupportedFlagged, Emitted
    <2>1. parts # <<>>
      OBVIOUS
    <2>2. Marked(Whole(parts), result)
      BY <2>1, DeclinedOrDelivered DEF Declined, Delivered
    <2>3. Sums(parts, Whole(parts))
      BY <2>1, PartOfMet, WholeSums
    <2>4. parts[n].needs_review
      BY PartOfMet, RefusedIsUnsupported, PassedOrFell, FallbackFell DEF Fell
    <2> QED
      BY <2>2, <2>3, <2>4 DEF Marked, Sums
  <1> QED
    BY <1>1, AnsweringInvariant, PTL

\* An injection shows on the answer and sends it to a human (InjectionSurfaces).
THEOREM InjectionIsSurfaced == Spec => []InjectionSurfaces
  <1>1. AnsweringInv => InjectionSurfaces
    <2> SUFFICES ASSUME AnsweringInv, stage = "done",
                        \/ question.injected
                        \/ \E n \in Answered(parts) : met[n].cites \cap met[n].injected # {}
                 PROVE  result.injection /\ result.needs_review
      BY DEF InjectionSurfaces, Emitted
    <2>1. CASE Declined
      <3>1. parts = <<>> /\ (question.injected <=> result.injection) /\ result.needs_review
        BY <2>1 DEF Declined, Fell
      <3>2. question.injected
        BY <3>1 DEF Answered
      <3> QED
        BY <3>1, <3>2
    <2>2. CASE Delivered
      <3>1. Marked(Whole(parts), result) /\ parts # <<>>
        BY <2>2 DEF Delivered
      <3>2. CASE question.injected
        BY <3>1, <3>2 DEF Marked
      <3>3. CASE \E n \in Answered(parts) : met[n].cites \cap met[n].injected # {}
        <4>1. PICK n \in DOMAIN parts : /\ parts[n].outcome # "needs_input"
                                        /\ met[n].cites \cap met[n].injected # {}
          BY <3>3 DEF Answered
        <4>2. parts[n].injection /\ parts[n].needs_review
          BY <4>1, PartOfMet, PartInjection
        <4>3. Sums(parts, Whole(parts))
          BY <3>1, PartOfMet, WholeSums
        <4> QED
          BY <3>1, <4>2, <4>3 DEF Marked, Sums
      <3> QED
        BY <3>2, <3>3
    <2> QED
      BY <2>1, <2>2, DeclinedOrDelivered
  <1> QED
    BY <1>1, AnsweringInvariant, PTL

\* Drafts are never auto-emitted (CleanMeansSound): an answer that no human has to look at
\* is sound in every part.
THEOREM CleanAnswersAreSound == Spec => []CleanMeansSound
  <1>1. AnsweringInv => CleanMeansSound
    <2> SUFFICES ASSUME AnsweringInv, stage = "done", ~result.needs_review
                 PROVE  /\ ~question.injected /\ met # <<>>
                        /\ result.confidence >= 7000
                        /\ \A n \in DOMAIN met :
                            /\ Sound(met[n])
                            /\ \/ Controlled(met[n])
                               \/ parts[n].outcome = "negative" /\ ~ReusedOnly(met[n])
      BY DEF CleanMeansSound, Emitted
    <2>1. Marked(Whole(parts), result) /\ parts # <<>>
      BY DeclinedOrDelivered DEF Declined, Fell, Delivered
    <2>2. Sums(parts, Whole(parts))
      BY <2>1, PartOfMet, WholeSums
    <2>3. /\ ~question.injected /\ ~Whole(parts).needs_review
          /\ result.confidence = Whole(parts).confidence
      BY <2>1 DEF Marked
    <2>4. \A n \in DOMAIN parts : ~parts[n].needs_review
      BY <2>2, <2>3 DEF Sums
    <2>5. \A n \in DOMAIN parts :
            /\ Sound(met[n]) /\ parts[n].confidence >= 7000
            /\ Controlled(met[n]) \/ (parts[n].outcome = "negative" /\ ~ReusedOnly(met[n]))
      BY <2>4, PartOfMet, PartClean
    <2>6. PICK n \in DOMAIN parts : Whole(parts).confidence = parts[n].confidence
      BY <2>2, <2>3 DEF Sums
    <2>7. result.confidence >= 7000
      BY <2>3, <2>5, <2>6
    <2>8. DOMAIN parts = DOMAIN met /\ met # <<>>
      BY <2>1, PartOfMet DEF AnsweringInv, PartsAnswered
    <2> QED
      BY <2>3, <2>5, <2>7, <2>8
  <1> QED
    BY <1>1, AnsweringInvariant, PTL
=============================================================================
