\* Two appenders, two removers, three items.
CONSTANTS
    Appenders = {a1, a2}
    Removers = {r1, r2}
    Threads = {a1, a2, r1, r2}
    Semaphores = {r1, r2, lock}
    LockSem = lock
    Items = {i1, i2, i3}
    None = None
SPECIFICATION FairSpec
INVARIANTS TypeOK MonitorHeld NoSleeperForgotten NoMissedSignal
PROPERTIES ImplementsFIFO EverythingDelivered
\* When every item is delivered the removers wait for good.
CHECK_DEADLOCK FALSE
