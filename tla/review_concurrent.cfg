SPECIFICATION Spec
CONSTANTS
    Questions = {q1}
    Versions = {v1, v2}
    Numbered = {q1}
    Texts = {t0, t1}
    Draft = t0
    Requests = {r1, r2, r3}
    Signed = {r1, r2, r3}
    Actions = {"edit", "reject", "save_to_library"}
    NoText = NoText
    None = None
    MaxInFlight = 3
SYMMETRY SymmetryReview
CHECK_DEADLOCK FALSE
INVARIANTS DecisionsRecorded LibraryMatchesTrail ExportNamesReviewer AuditChain ApprovedAsSeen
PROPERTY EditsSurvive
