----------------------------- MODULE MCDrafting -----------------------------
(* Instances of Drafting for TLC.  Jobs are interchangeable.                *)
EXTENDS Drafting, TLC

SymmetryJobs == Permutations(JobIds)
=============================================================================
