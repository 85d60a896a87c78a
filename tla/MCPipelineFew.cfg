\* Fewer lines than the high threshold: the first consumer is never started.
CONSTANTS
    ExpectedLines = 3
    Producers = {p1, p2}
    MaxConsumers = 2
    ReaderQueueSize = 1
    WorkerQueueSize = 4
    WriterQueueSize = 2
    LowThreshold = 1
    HighThreshold = 3
    None = None
SPECIFICATION FairSpec
PROPERTIES WriterFinishes
\* The violation is that everything stops.
CHECK_DEADLOCK FALSE
