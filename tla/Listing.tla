------------------------------ MODULE Listing ------------------------------
(***************************************************************************)
(* Sequences that are sorted, filtered or laid end to end, each said by    *)
(* what is in which place.  Nothing here is recursive, so that what they   *)
(* hold can be proved for sequences of any length (FiniteNumbers).         *)
(***************************************************************************)
EXTENDS Naturals, FiniteSets, Sequences

\* The members of a finite set in order, before being the pairs of a strict total
\* order: in place k is the one that k - 1 others come before.
InOrder(S, before) ==
    [k \in 1..Cardinality(S) |->
        CHOOSE x \in S : Cardinality({y \in S : <<y, x>> \in before}) = k - 1]

\* Numbers, from the smallest.
Ascending(S) == InOrder(S, {p \in S \X S : p[1] < p[2]})

\* The items of a sequence that are in the places given, in the order they have there.
Picked(s, places) ==
    LET order == Ascending(places) IN [k \in DOMAIN order |-> s[order[k]]]

\* Sequences, one after the other.
Joined(seqs) ==
    LET places == UNION {{n} \X DOMAIN seqs[n] : n \in DOMAIN seqs}
        before == {p \in places \X places : \/ p[1][1] < p[2][1]
                                            \/ p[1][1] = p[2][1] /\ p[1][2] < p[2][2]}
        order == InOrder(places, before)
    IN [k \in DOMAIN order |-> seqs[order[k][1]][order[k][2]]]
=============================================================================
