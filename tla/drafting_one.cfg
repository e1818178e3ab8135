SPECIFICATION Spec
CONSTANTS
    NumQuestions = 2
    MaxGenerationBatch = 2
    JobIds = {j1, j2}
    Procs = {p1}
    ReviewActions = {"approve", "reject"}
    CommitsMayFail = TRUE
    None = None
SYMMETRY SymmetryJobs
INVARIANTS OneLiveAnswer DoneMeansAnswered ProgressIsEarned
PROPERTIES SettledJobKept ProtectedUnlessStale JobLifecycleSpec AnswerHistorySpec
