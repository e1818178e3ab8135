SPECIFICATION Spec
CONSTANTS
    NumQuestions = 1
    MaxGenerationBatch = 2
    JobIds = {j1, j2}
    Procs = {p1}
    ReviewActions = {"approve", "edit", "reject", "request_evidence", "save_to_library"}
    CommitsMayFail = FALSE
    None = None
PROPERTY ProtectedNeverSuperseded
