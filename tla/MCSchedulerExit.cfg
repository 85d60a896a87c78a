\* Two user threads under -ee; halting is checked against kernel.cc's comment.
CONSTANTS
    ExecNum = 2
    CommandLines <- TwoPrograms
    LevelSize = 2
    AgingStep = 1
    AgingLimit = 2
    TimerTicks = 2
    MaxBurst = 3
    MaxSleeps = 1
CHECK_DEADLOCK FALSE
SPECIFICATION Spec
INVARIANT HaltsWhenAllDone
