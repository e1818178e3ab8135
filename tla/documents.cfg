SPECIFICATION Spec
CONSTANTS
    Answers = {a1}
    Docs = {d1, d2, d3}
    Shareable = {d1, d2}
    Carrying = {d1}
    Decisions = {"approved", "rejected"}
    Attaches = {r1, r2}
    Downloads = {s1}
    None = None
SYMMETRY SymmetryDocuments
CHECK_DEADLOCK FALSE
INVARIANTS ProvidedInTrail SelectionOpenUntilAttached ServedWasGranted RemediationMatches
