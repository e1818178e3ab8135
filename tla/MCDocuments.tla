----------------------------- MODULE MCDocuments ----------------------------
(* Instances of Documents for TLC.  Answers are interchangeable, and so are  *)
(* the requests of a kind.                                                   *)
EXTENDS Documents, TLC

SymmetryDocuments == Permutations(Answers) \cup Permutations(Attaches)
=============================================================================
