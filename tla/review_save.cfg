SPECIFICATION Spec
CONSTANTS
    Questions = {q1}
    Versions = {v1, v2}
    Numbered = {q1}
    Texts = {t0, t1}
    Draft = t0
    Requests = {r1, r2}
    Signed = {r1, r2}
    Actions = {"approve", "edit", "reject", "request_evidence", "save_to_library"}
    NoText = NoText
    None = None
    MaxInFlight = 1
CHECK_DEADLOCK FALSE
INVARIANT SavesLand
