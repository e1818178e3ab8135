------------------------------ MODULE MCReview ------------------------------
(* Instances of Review for TLC.  Requests are interchangeable when all of them *)
(* are signed, and so are the versions of a question.                          *)
EXTENDS Review, TLC

SymmetryReview == Permutations(Requests) \cup Permutations(Versions)
=============================================================================
