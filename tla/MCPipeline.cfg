\* The whole program on four lines with a pool of at most two consumers.
CONSTANTS
    ExpectedLines = 4
    Producers = {p1, p2}
    MaxConsumers = 2
    ReaderQueueSize = 1
    WorkerQueueSize = 3
    WriterQueueSize = 1
    LowThreshold = 1
    HighThreshold = 1
    None = None
SPECIFICATION FairSpec
INVARIANTS TypeOK EachLineInOnePlace ShutdownComplete ConsumersServe
PROPERTIES JoinWaitsOneIteration ProgramTerminates
\* The behaviour ends with main.
CHECK_DEADLOCK FALSE
