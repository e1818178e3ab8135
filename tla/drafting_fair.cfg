SPECIFICATION FairSpec
CONSTANTS
    NumQuestions = 2
    MaxGenerationBatch = 2
    JobIds = {j1, j2}
    Procs = {p1}
    ReviewActions = {"approve"}
    CommitsMayFail = FALSE
    None = None
INVARIANT ActiveJobIsWorked
PROPERTY JobLifecycleFairSpec
