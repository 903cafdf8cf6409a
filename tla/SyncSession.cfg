\* One run under every fault: two data types of up to two chunks, two tries
\* each, one restart.
SPECIFICATION LiveSpec
CONSTANTS
    Runs = {r1}
    NumTypes = 2
    MaxChunks = 2
    MaxRetries = 2
    MaxCrashes = 1
    Faulty = TRUE
INVARIANTS
    TypeOK
    WholeUploadProcessed
    ProcessedOnce
    AckedChunkIsKept
    CompletedSessionIsGone
    FailsOnlyWithCause
PROPERTIES
    UploadIsAtomic
    EverySyncEnds
CHECK_DEADLOCK FALSE
