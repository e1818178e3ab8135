SPECIFICATION FairSpec
CONSTANTS
    MaxIterations = 3
    MaxToolCalls = 3
    MaxBatch = 4
    Chunks = {c1}
    Unknown = Unknown
INVARIANTS BudgetsKept ObedientNeverExhausted PoolIsAudited
PROPERTY Ends
