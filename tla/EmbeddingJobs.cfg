\* Two processes and two chunks, one from before the queue and one unreadable.
CONSTANTS
    NoOwner = NoOwner
    Chunks = {c1, c2}
    Legacy = {c1}
    Unreadable = {c2}
    Procs = {p1, p2}
    MaxAttempts = 2
    BatchSize = 1
    Concurrency = 1
    MaxDisturbances = 2
    Focus = {"disturbed", "batches", "backfill"}
    Threads = {t1, t2}
    Processes = {p1}
    ProcessOf <- ProcessOfDef
    Count = 2
    PageSize = 1
    MaxEvents = 2
SPECIFICATION MCSpec
INVARIANTS
    JobsAreConsistent
    BackfillIsConsistent
PROPERTIES
    ProgressIsKept
    EveryStoredChunkSettles
    ImplementsQueue
    BackfillSettles
