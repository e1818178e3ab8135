--------------------------- MODULE AnswerHistory ----------------------------
(***************************************************************************)
(* What the answers table promises (models.py, Answer.superseded_at;       *)
(* ARCHITECTURE.md, "Regenerate supersedes drafts"): the versions of an    *)
(* answer form a history in which nothing is deleted or revived, a         *)
(* question that has an answer keeps having exactly one live answer, and a *)
(* review decides on one version and moves no row.                         *)
(***************************************************************************)
CONSTANTS Questions, Drafts, Statuses

VARIABLES row, review

vars == <<row, review>>

Init ==
    /\ row = [q \in Questions |-> [d \in Drafts |-> "absent"]]
    /\ review = [q \in Questions |-> [d \in Drafts |-> "pending"]]

\* The first answer of a question.
Answer(q, d) ==
    /\ \A e \in Drafts : row[q][e] # "live"
    /\ row[q][d] = "absent"
    /\ row' = [row EXCEPT ![q][d] = "live"]
    /\ review' = [review EXCEPT ![q][d] = "pending"]

\* A new version takes the place of the live one, in one step.
Replace(q, old, d) ==
    /\ row[q][old] = "live"
    /\ row[q][d] = "absent"
    /\ row' = [row EXCEPT ![q] = [@ EXCEPT ![old] = "superseded", ![d] = "live"]]
    /\ review' = [review EXCEPT ![q][d] = "pending"]

Decide(q, d, s) ==
    /\ row[q][d] # "absent"
    /\ s \in Statuses
    /\ review' = [review EXCEPT ![q][d] = s]
    /\ UNCHANGED row

Next ==
    \E q \in Questions, d \in Drafts :
        \/ Answer(q, d)
        \/ \E old \in Drafts : Replace(q, old, d)
        \/ \E s \in Statuses : Decide(q, d, s)

Spec == Init /\ [][Next]_vars
=============================================================================
