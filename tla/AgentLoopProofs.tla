-------------------------- MODULE AgentLoopProofs --------------------------
(***************************************************************************)
(* Proofs about AgentLoop, for any budgets, batches and corpus.            *)
(***************************************************************************)
EXTENDS AgentLoop, TLAPS

\* In the initial state everything holds.
LEMMA LoopInvInit == Init => LoopInv
  <1> SUFFICES ASSUME Init
               PROVE  LoopInv
    OBVIOUS
  <1>1. /\ history = <<>> /\ audit = <<>> /\ turn = <<>> /\ results = <<>>
        /\ DOMAIN history = {} /\ DOMAIN audit = {}
        /\ Len(history) = 0 /\ Len(audit) = 0 /\ Len(turn) = 0 /\ Len(results) = 0
    BY DEF Init
  <1>2. 0 \in 0..MaxIterations /\ 0 \in 0..MaxToolCalls /\ 0 # MaxIterations
    BY BudgetAssumption
  <1>3. /\ history \in Seq(Rounds) /\ audit \in Seq(SUBSET Chunks) /\ turn \in Seq(Calls)
        /\ results \in Seq(SUBSET Chunks)
    BY <1>1
  <1>5. pool \subseteq Chunks /\ draft \subseteq Refs
    BY DEF Init
  <1>6. TypeOK
    BY <1>2, <1>3, <1>5 DEF Init, TypeOK
  <1>4. PoolIsAudited
    BY <1>1 DEF Init, PoolIsAudited
  <1> QED
    BY <1>1, <1>2, <1>6, <1>4 DEF Init, LoopInv, BudgetsKept, LastTurnsForced,
                                  ObedientNeverExhausted

\* The end of a gathering, or a step of the corpus, leaves the rounds alone.
LEMMA QuietStep ==
    ASSUME LoopInv, UNCHANGED <<given, i, forced, turn, results, history, calls_used, pool,
                                audit>>,
           corpus' \subseteq Chunks, draft' \subseteq Refs,
           \/ stage' = "done" /\ outcome' \in {"drafted", "needs_input", "error"}
           \/ stage' = stage /\ outcome' = outcome
    PROVE  LoopInv'
  BY DEF given, LoopInv, TypeOK, BudgetsKept, LastTurnsForced, ObedientNeverExhausted,
         PoolIsAudited, TranscriptComplete, Answered

\* A call that was run is counted, recorded and pooled.
LEMMA ExecuteToolStep == LoopInv /\ ExecuteTool => LoopInv'
  <1> SUFFICES ASSUME LoopInv, ExecuteTool
               PROVE  LoopInv'
    OBVIOUS
  <1> USE DEF LoopInv
  <1>1. PICK found \in Found(turn[Len(results) + 1]) :
            /\ audit' = Append(audit, found)
            /\ results' = Append(results, found)
            /\ pool' = pool \cup found
    BY DEF ExecuteTool, Pooled
  <1>2. found \subseteq Chunks
    BY <1>1 DEF Found, TypeOK
  <1>3. /\ audit \in Seq(SUBSET Chunks) /\ results \in Seq(SUBSET Chunks) /\ turn \in Seq(Calls)
        /\ Len(audit) = calls_used /\ calls_used < MaxToolCalls /\ calls_used \in Nat
        /\ Len(results) < Len(turn)
    BY BudgetAssumption DEF TypeOK, BudgetsKept, ExecuteTool, CallsLeft
  <1>4. /\ audit' \in Seq(SUBSET Chunks) /\ Len(audit') = calls_used + 1
        /\ results' \in Seq(SUBSET Chunks) /\ Len(results') = Len(results) + 1
    BY <1>1, <1>2, <1>3
  <1>5. calls_used' = calls_used + 1 /\ calls_used' \in 0..MaxToolCalls
    BY <1>3, BudgetAssumption DEF ExecuteTool
  <1>6. \A n \in DOMAIN history : Answered(history[n])
    BY <1>3 DEF LastTurnsForced
  <1>7. (UNION {audit'[n] : n \in DOMAIN audit'}) =
          (UNION {audit[n] : n \in DOMAIN audit}) \cup found
    <2>1. /\ DOMAIN audit = 1..calls_used /\ DOMAIN audit' = 1..(calls_used + 1)
          /\ \A n \in 1..calls_used : audit'[n] = audit[n]
          /\ audit'[calls_used + 1] = found
      BY <1>1, <1>2, <1>3
    <2>2. DOMAIN audit' = DOMAIN audit \cup {calls_used + 1}
      BY <2>1, <1>3
    <2>3. \A n \in 1..calls_used : n # calls_used + 1
      BY <1>3
    <2>4. \A x : (\E n \in DOMAIN audit' : x \in audit'[n])
                  <=> (\E n \in DOMAIN audit : x \in audit[n]) \/ x \in found
      BY <2>1, <2>2, <2>3
    <2> QED
      BY <2>4
  <1>8. TypeOK'
    BY <1>1, <1>2, <1>4, <1>5 DEF TypeOK, ExecuteTool, given
  <1>9. BudgetsKept'
    BY <1>4, <1>5 DEF BudgetsKept, ExecuteTool
  <1>10. LastTurnsForced' /\ TranscriptComplete' /\ (stage' = "calls")
    BY <1>6 DEF LastTurnsForced, ExecuteTool, Answered, TranscriptComplete
  <1>11. PoolIsAudited'
    BY <1>1, <1>7 DEF PoolIsAudited, ExecuteTool, given
  <1>12. Len(results') <= Len(turn')
    BY <1>3, <1>4 DEF ExecuteTool
  <1> QED
    BY <1>8, <1>9, <1>10, <1>11, <1>12
       DEF ExecuteTool, given, ObedientNeverExhausted

\* A completed round goes on record; it only lacks results if the budget is spent.
LEMMA EndRoundStep == LoopInv /\ EndRound => LoopInv'
  <1> SUFFICES ASSUME LoopInv, EndRound
               PROVE  LoopInv'
    OBVIOUS
  <1> USE DEF LoopInv
  <1> DEFINE round == [calls |-> turn, results |-> results, forced |-> forced]
  <1>1. /\ history \in Seq(Rounds) /\ turn \in Seq(Calls) /\ results \in Seq(SUBSET Chunks)
        /\ forced \in BOOLEAN /\ Len(history) = i /\ i \in Nat /\ MaxIterations \in Nat
        /\ i < MaxIterations /\ calls_used \in Nat /\ calls_used <= MaxToolCalls
        /\ MaxToolCalls \in Nat /\ Len(results) <= Len(turn)
    BY BudgetAssumption DEF TypeOK, BudgetsKept, EndRound
  <1>2. round \in Rounds
    BY <1>1 DEF Rounds
  <1>3. history' = Append(history, round) /\ i' = i + 1
    BY DEF EndRound
  <1> HIDE DEF round
  <1>4. /\ history' \in Seq(Rounds) /\ Len(history') = i + 1
        /\ DOMAIN history = 1..i /\ DOMAIN history' = 1..(i + 1)
        /\ \A n \in 1..i : history'[n] = history[n]
        /\ history'[i + 1] = round
    BY <1>1, <1>2, <1>3
  <1>5. Answered(round) \/ calls_used = MaxToolCalls
    BY <1>1 DEF Answered, round, EndRound, CallsLeft
  <1>6. round.forced = forced
    BY DEF round
  <1>7. ~TranscriptComplete => forced
    BY DEF EndRound
  <1>8. LastTurnsForced'
    <2>1. ASSUME NEW n \in 1..(i + 1), ~Answered(history'[n])
          PROVE  calls_used = MaxToolCalls /\ \A m \in 1..(i + 1) : n < m => history'[m].forced
      <3>1. CASE n = i + 1
        BY <3>1, <2>1, <1>1, <1>4, <1>5
      <3>2. CASE n # i + 1
        <4>1. n \in 1..i /\ ~Answered(history[n])
          BY <3>2, <2>1, <1>1, <1>4
        <4>2. calls_used = MaxToolCalls /\ \A m \in 1..i : n < m => history[m].forced
          BY <4>1, <1>4 DEF LastTurnsForced
        <4>3. forced
          BY <4>1, <1>4, <1>7 DEF TranscriptComplete
        <4>4. ASSUME NEW m \in 1..(i + 1), n < m
              PROVE  history'[m].forced
          <5>1. CASE m = i + 1
            BY <5>1, <4>3, <1>4, <1>6
          <5>2. CASE m # i + 1
            <6>1. m \in 1..i
              BY <5>2, <1>1
            <6> QED
              BY <6>1, <4>2, <4>4, <1>4
          <5> QED
            BY <5>1, <5>2
        <4> QED
          BY <4>2, <4>4
      <3> QED
        BY <3>1, <3>2
    <2>2. i + 1 = MaxIterations => history'[i + 1].forced
      BY <1>1, <1>4, <1>6 DEF EndRound
    <2> QED
      BY <2>1, <2>2, <1>3, <1>4 DEF LastTurnsForced, EndRound, Answered
  <1>9. TypeOK'
    BY <1>1, <1>3, <1>4 DEF TypeOK, EndRound, given
  <1>10. BudgetsKept'
    BY <1>1, <1>3, <1>4 DEF BudgetsKept, EndRound
  <1>11. ObedientNeverExhausted'
    BY <1>1, <1>3 DEF ObedientNeverExhausted, EndRound, given
  <1>12. PoolIsAudited'
    BY DEF PoolIsAudited, EndRound, given
  <1>13. stage' = "asking" /\ Len(results') <= Len(turn')
    BY DEF EndRound
  <1> QED
    BY <1>8, <1>9, <1>10, <1>11, <1>12, <1>13

\* The next turn is asked for while there is one.
LEMMA AskModelStep == LoopInv /\ AskModel => LoopInv'
  <1> SUFFICES ASSUME LoopInv, AskModel
               PROVE  LoopInv'
    OBVIOUS
  <1> USE DEF LoopInv
  <1>1. i = MaxIterations - 1 => forced'
    BY DEF AskModel, ForceFinal
  <1>2. ~TranscriptComplete => forced'
    <2>1. calls_used \in Nat /\ MaxToolCalls \in Nat
      BY BudgetAssumption DEF TypeOK
    <2>2. ~TranscriptComplete => calls_used = MaxToolCalls
      BY DEF LastTurnsForced, TranscriptComplete
    <2>3. calls_used = MaxToolCalls => ForceFinal
      BY <2>1 DEF ForceFinal
    <2>4. forced' = ForceFinal
      BY DEF AskModel
    <2> QED
      BY <2>2, <2>3, <2>4
  <1>3. TypeOK'
    BY DEF TypeOK, AskModel, ForceFinal, given
  <1> QED
    BY <1>1, <1>2, <1>3 DEF AskModel, given, BudgetsKept, LastTurnsForced,
       ObedientNeverExhausted, PoolIsAudited, TranscriptComplete, Answered

\* The calls of a turn are those of a turn that need not have been a draft.
LEMMA TurnCallsStep == LoopInv /\ TurnCalls => LoopInv'
  <1> SUFFICES ASSUME LoopInv, TurnCalls
               PROVE  LoopInv'
    OBVIOUS
  <1> USE DEF LoopInv
  <1>1. turn' \in Seq(Calls) /\ results' = <<>> /\ Len(results') <= Len(turn')
    <2>1. PICK n \in 1..MaxBatch : turn' \in [1..n -> Calls]
      BY DEF TurnCalls
    <2>2. n \in Nat
      BY <2>1, BudgetAssumption
    <2> QED
      BY <2>1, <2>2 DEF TurnCalls
  <1> QED
    BY <1>1 DEF TurnCalls, given, TypeOK, BudgetsKept, LastTurnsForced,
       ObedientNeverExhausted, PoolIsAudited, TranscriptComplete, Answered

\* Budgets, forced turns and the trail are right in every state.
THEOREM LoopInvHolds == Spec => []LoopInv
  <1>1. LoopInv /\ [Next]_vars => LoopInv'
    <2> SUFFICES ASSUME LoopInv, [Next]_vars
                 PROVE  LoopInv'
      OBVIOUS
    <2>1. CASE SearchOnce
      <3>1. history = <<>> /\ path = "fixed"
        BY <2>1 DEF LoopInv, SearchOnce
      <3>2. TypeOK'
        BY <2>1 DEF LoopInv, TypeOK, SearchOnce, End, given
      <3> QED
        BY <2>1, <3>1, <3>2 DEF LoopInv, SearchOnce, End, given, BudgetsKept, LastTurnsForced,
           ObedientNeverExhausted, PoolIsAudited
    <2>2. CASE DraftOnce \/ TurnDrafts \/ TurnStops \/ Exhaust \/ Fail \/ CorpusChanges \/ Finished
                 \/ UNCHANGED vars
      <3>1. corpus \subseteq Chunks /\ draft \subseteq Refs
        BY DEF LoopInv, TypeOK
      <3>2. corpus' \subseteq Chunks /\ draft' \subseteq Refs
        BY <2>2, <3>1 DEF DraftOnce, TurnDrafts, TurnStops, Exhaust, Fail, CorpusChanges, Finished,
           vars, Accept
      <3> QED
        BY <2>2, <3>2, QuietStep DEF DraftOnce, TurnDrafts, TurnStops, Exhaust, Fail,
           CorpusChanges, Finished, vars, Accept, End, given
    <2>3. CASE StartLoop
      <3>1. history = <<>> /\ i = 0
        BY <2>3 DEF LoopInv, StartLoop, BudgetsKept
      <3> QED
        BY <2>3, <3>1, BudgetAssumption DEF LoopInv, StartLoop, given, TypeOK, BudgetsKept,
           LastTurnsForced, ObedientNeverExhausted, PoolIsAudited
    <2> QED
      BY <2>1, <2>2, <2>3, AskModelStep, TurnCallsStep, ExecuteToolStep, EndRoundStep
         DEF Next, Loop
  <1> QED
    BY LoopInvInit, <1>1, PTL DEF Spec

\* Neither budget is overrun, whatever the model does with its turns.
THEOREM BudgetsAreKept == Spec => []BudgetsKept
  <1>1. LoopInv => BudgetsKept
    BY DEF LoopInv
  <1> QED
    BY <1>1, LoopInvHolds, PTL

\* A model that drafts when forced to always gets to draft.
THEOREM ObedientGetsToDraft == Spec => []ObedientNeverExhausted
  <1>1. LoopInv => ObedientNeverExhausted
    BY DEF LoopInv
  <1> QED
    BY <1>1, LoopInvHolds, PTL

\* What can be cited is what audited calls returned.
THEOREM PoolIsAuditedHolds == Spec => []PoolIsAudited
  <1>1. LoopInv => PoolIsAudited
    BY DEF LoopInv
  <1> QED
    BY <1>1, LoopInvHolds, PTL

\* Every variable of a gathering keeps to its type.
THEOREM AgentLoopTypeCorrect == Spec => []TypeOK
  <1>1. LoopInv => TypeOK
    BY DEF LoopInv
  <1> QED
    BY <1>1, LoopInvHolds, PTL

-----------------------------------------------------------------------------
(* Termination: what Ends needs besides fairness.                          *)

\* How many steps the gathering can still take: three a turn, and one a tool call.
StepsLeft ==
    (MaxToolCalls - calls_used)
    + (CASE stage = "start" -> 3 * MaxIterations + 2
         [] stage = "asking" -> 3 * (MaxIterations - i) + 1
         [] stage = "turn" -> 3 * (MaxIterations - i)
         [] stage = "calls" -> 3 * (MaxIterations - i) - 1
         [] stage = "drafting" -> 1
         [] OTHER -> 0)

\* The numbers of it, and where they start.
LEMMA StepsCounted ==
    ASSUME LoopInv
    PROVE  /\ calls_used \in 0..MaxToolCalls /\ i \in 0..MaxIterations
           /\ MaxToolCalls \in Nat /\ MaxIterations \in Nat \ {0}
           /\ stage \in {"turn", "calls"} => i < MaxIterations
           /\ stage = "start" => i = 0
  <1>1. /\ stage = "start" => history = <<>>
        /\ Len(history) = i
    BY DEF LoopInv, BudgetsKept
  <1> QED
    BY <1>1, BudgetAssumption DEF LoopInv, TypeOK

\* It is never negative.
LEMMA StepsAreNat == LoopInv => StepsLeft \in 0..3 * MaxIterations + 2 + MaxToolCalls
  <1> SUFFICES ASSUME LoopInv
               PROVE  StepsLeft \in 0..3 * MaxIterations + 2 + MaxToolCalls
    OBVIOUS
  <1>1. stage \in {"start", "drafting", "asking", "turn", "calls", "done"}
    BY DEF LoopInv, TypeOK
  <1> QED
    BY <1>1, StepsCounted DEF StepsLeft

\* Every step of the loop uses one up, and nothing gives one back.
LEMMA StepsUsed ==
    ASSUME LoopInv, [Next]_vars
    PROVE  (Loop => StepsLeft' < StepsLeft) /\ StepsLeft' <= StepsLeft
  <1>1. /\ calls_used \in 0..MaxToolCalls /\ i \in 0..MaxIterations
        /\ MaxToolCalls \in Nat /\ MaxIterations \in Nat \ {0}
        /\ stage \in {"turn", "calls"} => i < MaxIterations
        /\ stage = "start" => i = 0
        /\ stage \in {"start", "drafting", "asking", "turn", "calls", "done"}
    BY StepsCounted DEF LoopInv, TypeOK
  <1>2. CASE SearchOnce
    <2>1. /\ stage = "start" /\ stage' \in {"done", "drafting"}
          /\ calls_used' = calls_used /\ i' = i
      BY <1>2 DEF SearchOnce, End
    <2> QED
      BY <1>1, <2>1 DEF StepsLeft
  <1>3. CASE DraftOnce \/ TurnDrafts \/ TurnStops \/ Exhaust
    <2>1. /\ stage \in {"drafting", "turn", "asking"} /\ stage' = "done"
          /\ calls_used' = calls_used
      BY <1>3 DEF DraftOnce, TurnDrafts, TurnStops, Exhaust, Accept, End
    <2> QED
      BY <1>1, <2>1 DEF StepsLeft
  <1>4. CASE StartLoop
    <2>1. /\ stage = "start" /\ stage' = "asking"
          /\ calls_used' = calls_used /\ i' = i
      BY <1>4 DEF StartLoop
    <2> QED
      BY <1>1, <2>1 DEF StepsLeft
  <1>5. CASE AskModel
    <2>1. /\ stage = "asking" /\ stage' = "turn"
          /\ calls_used' = calls_used /\ i' = i
      BY <1>5 DEF AskModel
    <2> QED
      BY <1>1, <2>1 DEF StepsLeft
  <1>6. CASE TurnCalls
    <2>1. /\ stage = "turn" /\ stage' = "calls"
          /\ calls_used' = calls_used /\ i' = i
      BY <1>6 DEF TurnCalls
    <2> QED
      BY <1>1, <2>1 DEF StepsLeft
  <1>7. CASE ExecuteTool
    <2>1. /\ stage = "calls" /\ stage' = "calls"
          /\ calls_used' = calls_used + 1 /\ i' = i
      BY <1>7 DEF ExecuteTool
    <2> QED
      BY <1>1, <2>1 DEF StepsLeft
  <1>8. CASE EndRound
    <2>1. /\ stage = "calls" /\ stage' = "asking"
          /\ calls_used' = calls_used /\ i' = i + 1
      BY <1>8 DEF EndRound
    <2> QED
      BY <1>1, <2>1 DEF StepsLeft
  <1>9. CASE Fail
    <2>1. /\ stage \in {"start", "drafting", "turn", "calls"} /\ stage' = "done"
          /\ calls_used' = calls_used
      BY <1>9 DEF Fail, End
    <2>2. StepsLeft' < StepsLeft
      BY <1>1, <2>1 DEF StepsLeft
    <2> QED
      BY <1>1, <2>1, <2>2 DEF StepsLeft
  <1>10. CASE ~Loop /\ (CorpusChanges \/ Finished \/ UNCHANGED vars)
    <2>1. stage' = stage /\ calls_used' = calls_used /\ i' = i
      BY <1>10 DEF CorpusChanges, Finished, vars
    <2>2. StepsLeft' = StepsLeft
      BY <2>1 DEF StepsLeft
    <2>3. StepsLeft \in Nat
      BY <1>1, StepsAreNat
    <2> QED
      BY <1>10, <2>2, <2>3
  <1> QED
    BY <1>2, <1>3, <1>4, <1>5, <1>6, <1>7, <1>8, <1>9, <1>10 DEF Next, Loop

\* Every step of the loop brings its end nearer, and neither the corpus nor a failure
\* puts it off: a gathering takes at most three steps for each turn, one for each tool
\* call and two more, whatever the model answers (generate.py:596-640).
StepsRunOut == [][(Loop => StepsLeft' < StepsLeft) /\ StepsLeft' <= StepsLeft]_vars

\* The loop runs out of steps.  Since it can take one until it is done, which TLC
\* checks with Ends, a fair loop ends.
THEOREM LoopRunsOut ==
    Spec => StepsRunOut /\ [](StepsLeft \in 0..3 * MaxIterations + 2 + MaxToolCalls)
  <1>1. LoopInv /\ [Next]_vars => (Loop => StepsLeft' < StepsLeft) /\ StepsLeft' <= StepsLeft
    BY StepsUsed
  <1> QED
    BY <1>1, StepsAreNat, LoopInvHolds, PTL DEF Spec, StepsRunOut
=============================================================================
