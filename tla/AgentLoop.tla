----------------------------- MODULE AgentLoop -----------------------------
(***************************************************************************)
(* How evidence is gathered and a draft obtained for one focused question  *)
(* (_gather, _gather_fixed and _gather_via_loop of answers/generate.py,    *)
(* execute_tool of answers/agent_tools.py, agent_turn of the providers).   *)
(*                                                                         *)
(* The loop asks the model for a turn, runs the tool calls the turn makes  *)
(* and sends the results back with the next turn, under two budgets: the   *)
(* turns asked for and the tool calls run, over all turns.  The corpus     *)
(* may change while the loop runs: each tool call reads it anew.           *)
(***************************************************************************)
EXTENDS Naturals, Sequences

CONSTANTS
    MaxIterations,  \* agent_max_iterations
    MaxToolCalls,   \* agent_max_tool_calls
    MaxBatch,       \* calls a model makes in one turn: a bound
    Chunks,         \* chunks of the corpus
    Unknown         \* a ref no chunk has: what a model may make up

ASSUME BudgetAssumption ==
    MaxIterations \in Nat \ {0} /\ MaxToolCalls \in Nat \ {0} /\ MaxBatch \in Nat
ASSUME UnknownAssumption == Unknown \notin Chunks

VARIABLES
    path,       \* "fixed" or "loop": settings, provider and question decide
    obedient,   \* a forced turn of this provider always returns a draft
    corpus,     \* the customer-shareable chunks, as of now
    stage,      \* where the gathering is
    i,          \* turns asked for
    forced,     \* the current turn is a forced one
    turn,       \* the tool calls of the current turn
    results,    \* the results of those run: the chunks each returned
    history,    \* completed rounds: calls made, results returned, forced
    calls_used,
    pool,       \* gathered chunks by ref; a chunk keeps its first text
    audit,      \* the trail: the chunks each recorded call returned
    draft,      \* the refs the draft cites
    outcome     \* "none" yet, "drafted", "needs_input", "error"

given == <<path, obedient>>
vars == <<given, corpus, stage, i, forced, turn, results, history, calls_used, pool, audit,
          draft, outcome>>

-----------------------------------------------------------------------------
\* What a tool call is for: chunks (search_evidence, get_policy, get_control) or
\* none (get_findings, an unknown tool, bad arguments).
Calls == {"chunks", "other"}
Refs == Chunks \cup {Unknown}
Rounds == [calls : Seq(Calls), results : Seq(SUBSET Chunks), forced : BOOLEAN]

Init ==
    /\ path \in {"fixed", "loop"}
    /\ obedient \in BOOLEAN
    /\ corpus \in SUBSET Chunks
    /\ stage = "start"
    /\ i = 0
    /\ forced = FALSE
    /\ turn = <<>>
    /\ results = <<>>
    /\ history = <<>>
    /\ calls_used = 0
    /\ pool = {}
    /\ audit = <<>>
    /\ draft = {}
    /\ outcome = "none"

\* Ingestion, a release or a withdrawal changes what can be retrieved.
CorpusChanges ==
    /\ stage # "done"
    /\ \E c \in Chunks : corpus' = IF c \in corpus THEN corpus \ {c} ELSE corpus \cup {c}
    /\ UNCHANGED <<given, stage, i, forced, turn, results, history, calls_used, pool, audit,
                   draft, outcome>>

End(o) == stage' = "done" /\ outcome' = o

-----------------------------------------------------------------------------
(* _gather_fixed: one search, one draft.                                    *)

\* The search; nothing found ends it before the model is asked.
SearchOnce ==
    /\ stage = "start" /\ path = "fixed"
    /\ \E found \in SUBSET corpus :
        /\ pool' = found
        /\ IF found = {} THEN End("needs_input") ELSE stage' = "drafting" /\ UNCHANGED outcome
    /\ UNCHANGED <<given, corpus, i, forced, turn, results, history, calls_used, audit, draft>>

\* The model's draft, if it parses and does not ask for input itself (_parse_draft).
Accept ==
    \/ \E refs \in SUBSET Refs : draft' = refs /\ End("drafted")
    \/ UNCHANGED draft /\ End("needs_input")

DraftOnce ==
    /\ stage = "drafting"
    /\ Accept
    /\ UNCHANGED <<given, corpus, i, forced, turn, results, history, calls_used, pool, audit>>

-----------------------------------------------------------------------------
(* _gather_via_loop.                                                       *)

StartLoop ==
    /\ stage = "start" /\ path = "loop"
    /\ stage' = "asking"
    /\ UNCHANGED <<given, corpus, i, forced, turn, results, history, calls_used, pool, audit,
                   draft, outcome>>

\* Mutant: the last turn is only forced once the call budget is spent.
ForceFinalLate == calls_used >= MaxToolCalls

ForceFinal == i = MaxIterations - 1 \/ calls_used >= MaxToolCalls

\* agent_turn begins: range(max_iters) has a turn left.
AskModel ==
    /\ stage = "asking" /\ i < MaxIterations
    /\ stage' = "turn"
    /\ forced' = ForceFinal
    /\ UNCHANGED <<given, corpus, i, turn, results, history, calls_used, pool, audit, draft, outcome>>

\* The turn is a draft: the loop breaks, whatever other calls the turn made.
TurnDrafts ==
    /\ stage = "turn"
    /\ Accept
    /\ UNCHANGED <<given, corpus, i, forced, turn, results, history, calls_used, pool, audit>>

\* Mutant: a turn that is neither a draft nor a call is asked for again.
TurnStopsRetry ==
    /\ stage = "turn" /\ ~(forced /\ obedient)
    /\ stage' = "asking"
    /\ UNCHANGED <<given, corpus, i, forced, turn, results, history, calls_used, pool, audit,
                   draft, outcome>>

\* The turn is neither a draft nor a call: the loop breaks.
TurnStops ==
    /\ stage = "turn" /\ ~(forced /\ obedient)
    /\ End("needs_input")
    /\ UNCHANGED <<given, corpus, i, forced, turn, results, history, calls_used, pool, audit, draft>>

\* The turn makes tool calls.
TurnCalls ==
    /\ stage = "turn" /\ ~(forced /\ obedient)
    /\ \E n \in 1..MaxBatch : turn' \in [1..n -> Calls]
    /\ results' = <<>>
    /\ stage' = "calls"
    /\ UNCHANGED <<given, corpus, i, forced, history, calls_used, pool, audit, draft, outcome>>

\* The results of the rounds sent with a turn answer every call (_agent_messages).
Answered(round) == Len(round.results) = Len(round.calls)
TranscriptComplete == \A n \in DOMAIN history : Answered(history[n])

\* Mutant: the call budget is only looked at between turns.
CallsLeftUnbounded == Len(results) < Len(turn)

\* The next call of the turn is run, unless the budget is spent.
CallsLeft == Len(results) < Len(turn) /\ calls_used < MaxToolCalls

\* The request of a turn or of a search fails: the exception leaves _gather.  The
\* Messages API refuses a transcript with a call that has no result.
Fail ==
    /\ \/ stage = "start" /\ path = "fixed"
       \/ stage \in {"drafting", "turn"}
       \/ stage = "calls" /\ CallsLeft
    /\ End("error")
    /\ UNCHANGED <<given, corpus, i, forced, turn, results, history, calls_used, pool, audit, draft>>

\* What a tool call may return: chunks that are shareable when it runs.
Found(call) == IF call = "chunks" THEN SUBSET corpus ELSE {{}}

\* Mutant: what a later call returns replaces what was gathered.
PooledLast(found) == found

\* pool.setdefault: what was gathered stays.
Pooled(found) == pool \cup found

ExecuteTool ==
    /\ stage = "calls" /\ CallsLeft
    /\ \E found \in Found(turn[Len(results) + 1]) :
        /\ audit' = Append(audit, found)
        /\ results' = Append(results, found)
        /\ pool' = Pooled(found)
    /\ calls_used' = calls_used + 1
    /\ UNCHANGED <<given, corpus, stage, i, forced, turn, history, draft, outcome>>

\* The round is appended to the history, and the loop goes round.
EndRound ==
    /\ stage = "calls" /\ ~CallsLeft
    /\ history' = Append(history, [calls |-> turn, results |-> results, forced |-> forced])
    /\ i' = i + 1
    /\ stage' = "asking"
    /\ turn' = <<>>
    /\ results' = <<>>
    /\ UNCHANGED <<given, corpus, forced, calls_used, pool, audit, draft, outcome>>

\* No turn is left and no draft was made.
Exhaust ==
    /\ stage = "asking" /\ i = MaxIterations
    /\ End("needs_input")
    /\ UNCHANGED <<given, corpus, i, forced, turn, results, history, calls_used, pool, audit, draft>>

Loop ==
    \/ SearchOnce \/ DraftOnce
    \/ StartLoop \/ AskModel \/ TurnDrafts \/ TurnStops \/ TurnCalls
    \/ ExecuteTool \/ EndRound \/ Exhaust

Finished == stage = "done" /\ UNCHANGED vars

Next == CorpusChanges \/ Loop \/ Fail \/ Finished

Spec == Init /\ [][Next]_vars

\* The provider and the database answer or fail within their timeouts.
FairSpec == Spec /\ WF_vars(Loop)

\* The citations that resolve: what a model makes up is dropped.
Cited == draft \cap pool

-----------------------------------------------------------------------------
(* Properties.                                                             *)

TypeOK ==
    /\ path \in {"fixed", "loop"}
    /\ obedient \in BOOLEAN
    /\ corpus \subseteq Chunks
    /\ stage \in {"start", "drafting", "asking", "turn", "calls", "done"}
    /\ i \in 0..MaxIterations
    /\ forced \in BOOLEAN
    /\ turn \in Seq(Calls)
    /\ results \in Seq(SUBSET Chunks)
    /\ history \in Seq(Rounds)
    /\ calls_used \in 0..MaxToolCalls
    /\ pool \subseteq Chunks
    /\ audit \in Seq(SUBSET Chunks)
    /\ draft \subseteq Refs
    /\ outcome \in {"none", "drafted", "needs_input", "error"}

\* The two budgets are never overrun, however many calls a turn makes, and every
\* call that was run, and no other, is in the audit trail.
BudgetsKept ==
    /\ Len(history) = i /\ i <= MaxIterations
    /\ Len(audit) = calls_used /\ calls_used <= MaxToolCalls

\* A call only goes unanswered when the call budget is spent, and from then on
\* every turn is forced to be the draft; so is the last turn there is.
LastTurnsForced ==
    /\ \A n \in DOMAIN history : ~Answered(history[n]) =>
        /\ calls_used = MaxToolCalls
        /\ \A m \in DOMAIN history : n < m => history[m].forced
    /\ i = MaxIterations => history[i].forced

\* "on exhaustion without a draft": a model that drafts when it is forced to is never
\* left without a turn.
ObedientNeverExhausted == obedient /\ stage = "asking" => i < MaxIterations

\* "every gathered chunk joins the citeable pool; every tool call is recorded": what an
\* answer can cite is what recorded calls returned, all of it, even if the corpus has
\* lost it or a later call did not return it again.
PoolIsAudited == path = "loop" => pool = UNION {audit[n] : n \in DOMAIN audit}

\* Every question gets its draft, its fallback or its error.
Ends == <>(stage = "done")

\* "tool_use blocks and our tool_result blocks are echoed back as the API requires":
\* no turn is asked for with a call left unanswered.
TranscriptsAnswered == stage = "turn" => TranscriptComplete

\* The inductive invariant behind the theorems of AgentLoopProofs.
LoopInv ==
    /\ TypeOK /\ BudgetsKept /\ LastTurnsForced /\ ObedientNeverExhausted /\ PoolIsAudited
    /\ Len(results) <= Len(turn)
    /\ stage \in {"turn", "calls"} =>
        /\ i < MaxIterations
        /\ i = MaxIterations - 1 => forced
        /\ ~TranscriptComplete => forced
    /\ stage = "calls" => ~(forced /\ obedient)
    /\ stage \in {"start", "drafting"} => history = <<>>
=============================================================================
