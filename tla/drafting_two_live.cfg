SPECIFICATION Spec
CONSTANTS
    NumQuestions = 1
    MaxGenerationBatch = 2
    JobIds = {j1, j2}
    Procs = {p1, p2}
    ReviewActions = {"approve"}
    CommitsMayFail = FALSE
    None = None
INVARIANT OneLiveAnswer
