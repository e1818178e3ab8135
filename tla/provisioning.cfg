SPECIFICATION FairSpec
CONSTANTS
    Containers = {c1, c2}
    Forced = {c1}
    Uploads = {u1}
    Asks = {q1}
    Reviews = {v1}
    Docs = {d1, d2}
    Injected = {d1}
    Policy = "quarantine"
    MaxAttempts = 2
    MaxFaults = 1
    None = None
CHECK_DEADLOCK FALSE
INVARIANTS RowsHaveObjects OneWholeOrg GiveUpEarned
PROPERTIES NeverUnseeded Settle
