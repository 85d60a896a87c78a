\* Three user threads in five mixes of levels, and main, with and without -ee.
CONSTANTS
    ExecNum = 3
    CommandLines <- ThreePrograms
    LevelSize = 3
    AgingStep = 2
    AgingLimit = 2
    TimerTicks = 2
    MaxBurst = 2
    MaxSleeps = 1
SPECIFICATION FairSpec
INVARIANTS TypeOK AgingKeepsUp ReadyExactlyListed ListsSorted RunningCounted
PROPERTIES TimerLeavesBestRunning EveryThreadEnds
\* -ee: the machine halts.
CHECK_DEADLOCK FALSE
