\* Three threads share one disk, or one console.
CONSTANTS
    Threads = {t1, t2, t3}
    LockSem = lock
    Done = done
    Semaphores = {lock, done}
    Lengths = {1, 2}
    MaxCalls = 2
    None = None
SPECIFICATION FairSpec
INVARIANTS CompletionsMatch CallsNotInterleaved
PROPERTIES EveryCallReturns
\* When every thread has made its calls.
CHECK_DEADLOCK FALSE
