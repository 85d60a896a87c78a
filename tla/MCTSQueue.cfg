\* The ring buffer under two enqueuers, two dequeuers and one size reader.
CONSTANTS
    Enqueuers = {e1, e2}
    Dequeuers = {d1, d2}
    Sizers = {s1}
    Items = {i1, i2, i3}
    BufferSize = 2
    MaxPolls = 1
    MaxSpurious = 1
    None = None
SPECIFICATION FairSpec
INVARIANTS TypeOK RingCoherent NoLostWakeup
PROPERTIES ImplementsFIFO EverythingDelivered
\* When every item is delivered the dequeuers block for good: the code has no
\* end-of-stream mark.
CHECK_DEADLOCK FALSE
