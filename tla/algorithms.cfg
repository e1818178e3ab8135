SPECIFICATION Spec
CONSTANTS
    Size = 3
    Overlap = 1
    MaxQuestions = 2
    HeaderScan = 2
    CandidateK = 3
    MaxResults = 3
    RrfK = 60
    MaxLines = 5
    MaxLongLines = 6
    MaxQuotes = 3
    MaxRows = 3
    MaxHeaderLines = 4
    Documents <- MCDocuments
    Stored <- MCStored
    Source <- MCSource
    Files <- MCFiles
    Searches <- MCSearches
    Directories <- MCDirectories
CHECK_DEADLOCK FALSE
INVARIANTS DocumentHeld ContextKept RowsBecomeQuestions RetrievalSound GatesAgree SharedAsDeclared
