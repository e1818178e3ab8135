SPECIFICATION Spec
CONSTANTS
    MaxIterations = 3
    MaxToolCalls = 2
    MaxBatch = 2
    Chunks = {c1}
    Unknown = Unknown
INVARIANT TranscriptsAnswered
