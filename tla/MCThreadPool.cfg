SPECIFICATION FairSpec
CONSTANTS
    Jobs = {j1, j2, j3, j4}
    max_threads = 2
    CreateMayFail = TRUE
CHECK_DEADLOCK FALSE
INVARIANTS
    NumThreadsExact
    QueueOutlivesThreads
    JobsKeptOnce
PROPERTIES
    ImplementsPool
    JobServed
