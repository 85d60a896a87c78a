----------------------------- MODULE Scheduler ------------------------------
(***************************************************************************)
(* The multilevel feedback queue of NachOS-4.0_MP3_correct: Scheduler      *)
(* (threads/scheduler.cc), the state changes of Thread (threads/thread.cc) *)
(* and the time slice of Alarm and Interrupt.                              *)
(*                                                                         *)
(* Priorities 100..149 are level 1 (shortest remaining burst first),       *)
(* 50..99 level 2 (highest priority first, not preempted by its own        *)
(* level) and 0..49 level 3 (round robin).  A ready thread is promoted by  *)
(* Aging, which runs in Yield, which the timer interrupt causes.           *)
(*                                                                         *)
(* Time is counted in units of a fraction of the timer period (TimerTicks, *)
(* 100 ticks).  Kernel code runs with interrupts off, so a whole Yield,    *)
(* Sleep or Finish is one step; Thread::Begin turns them on, so a new      *)
(* thread can be preempted before it has counted itself.  Thread 0 is      *)
(* main, which starts the others (Kernel::ExecAll).                        *)
(***************************************************************************)
EXTENDS Integers, Sequences, SequencesExt, FiniteSets

CONSTANTS
    ExecNum,            \* execfileNum: user threads 1 .. ExecNum
    CommandLines,       \* what -ep and -ee say: a priority for each thread, and execExit
    LevelSize,          \* 50 priorities to a level
    AgingStep,          \* IncPriority: 10
    AgingLimit,         \* 1500 ticks, in units
    TimerTicks,         \* 100 ticks, in units; also the round-robin slice
    MaxBurst,           \* bound: units a thread runs before it blocks or ends
    MaxSleeps           \* bound: times a thread blocks

Threads == 0 .. ExecNum
ExecThreads == 1 .. ExecNum
MaxPriority == 3 * LevelSize - 1

ASSUME SchedulerAssumption ==
    /\ {ExecNum, LevelSize, AgingStep, AgingLimit, TimerTicks, MaxBurst} \subseteq Nat \ {0}
    /\ MaxSleeps \in Nat
    /\ CommandLines \subseteq [ep : [ExecThreads -> 0 .. MaxPriority], ee : BOOLEAN]

\* approxBurstTime is halved at each sleep: with this factor it stays an integer.
Scale == 2 ^ MaxSleeps

VARIABLES
    ready,          \* ready[1], ready[2], ready[3]: the lists L1, L2, L3
    status, priority,
    waited,         \* totalTicks - startReadyTime of a ready thread (0 for others)
    estimate,       \* approxBurstTime, times Scale
    accuRunTime,
    sleeps,         \* times the thread has blocked
    currentThread,
    ran,            \* totalTicks - startRunTime of the current thread
    cpu,            \* "run", or the current thread is in Sleep's idle loop
    execExit,       \* Kernel's copy of the option -ee
    begun,          \* threads that are past Begin, as main is from the start
    execRunningNum, halted,
    clock,          \* time since the last timer interrupt
    yieldOnReturn

lists == <<ready, priority, waited>>
burst == <<estimate, accuRunTime, sleeps>>
exec == <<begun, execRunningNum, halted>>
timer == <<clock, yieldOnReturn>>
vars == <<lists, status, burst, currentThread, ran, cpu, exec, execExit, timer>>

WaitCap == AgingLimit + TimerTicks + 1

\* Thread::getQueueLevel
QueueLevel(p) == 3 - p \div LevelSize
\* Thread::getRemainingTime, scaled, of the running and of a ready thread
Remaining(t) == estimate[t] - Scale * (accuRunTime[t] + IF t = currentThread /\ cpu = "run" THEN ran ELSE 0)

\* L1Compare and L2Compare return -1
L1Before(t, u) == \/ Remaining(t) < Remaining(u)
                  \/ Remaining(t) = Remaining(u) /\ t < u
L2Before(t, u, prio) == \/ prio[t] > prio[u]
                        \/ prio[t] = prio[u] /\ t < u

\* SortedList::Insert: before the first larger element
InsertBefore(list, t, larger) ==
    IF larger = {} THEN Append(list, t) ELSE InsertAt(list, CHOOSE i \in larger : \A j \in larger : i <= j, t)
InsertL1(list, t) == InsertBefore(list, t, {i \in 1 .. Len(list) : L1Before(t, list[i])})
InsertL2(list, t, prio) == InsertBefore(list, t, {i \in 1 .. Len(list) : L2Before(t, list[i], prio)})

\* Mutant: threads of level 2 are appended, not sorted.
InsertReadyUnsorted(r, t, prio) ==
    CASE QueueLevel(prio[t]) \in {2, 3} -> [r EXCEPT ![QueueLevel(prio[t])] = Append(@, t)]
      [] QueueLevel(prio[t]) = 1 -> [r EXCEPT ![1] = InsertL1(r[1], t)]
      [] OTHER -> r

\* Scheduler::InsertThreadToReadyList; a priority above level 1 is in no list.
InsertReady(r, t, prio) ==
    CASE QueueLevel(prio[t]) = 3 -> [r EXCEPT ![3] = Append(r[3], t)]
      [] QueueLevel(prio[t]) = 2 -> [r EXCEPT ![2] = InsertL2(r[2], t, prio)]
      [] QueueLevel(prio[t]) = 1 -> [r EXCEPT ![1] = InsertL1(r[1], t)]
      [] OTHER -> r

\* Scheduler::FindNextToRun looks at L1, then L2, then L3.
NoneReady(r) == r[1] = << >> /\ r[2] = << >> /\ r[3] = << >>
FirstLevel(r) == CHOOSE l \in 1 .. 3 : r[l] # << >> /\ \A k \in 1 .. l - 1 : r[k] = << >>
NextToRun(r) == Head(r[FirstLevel(r)])
\* Mutant: the first thread is looked at, not removed.
WithoutNextPeek(r) == r
WithoutNext(r) == [r EXCEPT ![FirstLevel(r)] = Tail(@)]

EmptyLists == [l \in 1 .. 3 |-> << >>]

Init == /\ ready = EmptyLists
        /\ status = [t \in Threads |-> IF t = 0 THEN "RUNNING" ELSE "JUST_CREATED"]
        /\ \E c \in CommandLines :
              /\ priority = [t \in Threads |-> IF t = 0 THEN 0 ELSE c.ep[t]]
              /\ execExit = c.ee
        /\ waited = [t \in Threads |-> 0]
        /\ estimate = [t \in Threads |-> 0]
        /\ accuRunTime = [t \in Threads |-> 0]
        /\ sleeps = [t \in Threads |-> 0]
        /\ currentThread = 0 /\ ran = 0 /\ cpu = "run"
        /\ begun = {0} /\ execRunningNum = 0 /\ halted = FALSE
        /\ clock = 0 /\ yieldOnReturn = FALSE

Running == ~ halted /\ cpu = "run"
Thinking == Running /\ ~ yieldOnReturn

\* Thread::Begin, the first thing a new thread does.  Its Enable may take a
\* tick (Advance) and Yield (TimerYield) before the thread is counted.
Begin ==
    /\ Thinking
    /\ currentThread \notin begun
    /\ begun' = begun \cup {currentThread}
    /\ execRunningNum' = IF execExit THEN execRunningNum + 1 ELSE execRunningNum
    /\ UNCHANGED <<lists, status, burst, currentThread, ran, cpu, halted, execExit, timer>>

\* Scheduler::Run.  st is the status of the threads once the old one gave up
\* the CPU; a finished one is deleted by the new one.
Dispatch(next, st) ==
    /\ currentThread' = next
    /\ status' = [st EXCEPT ![next] = "RUNNING"]
    /\ ran' = 0
    /\ cpu' = "run"

-----------------------------------------------------------------------------
(* Yield                                                                   *)

\* Mutant: only level 3 ages.
AgesLowOnly(t) == waited[t] > AgingLimit /\ priority[t] < LevelSize
Ages(t) == waited[t] > AgingLimit /\ priority[t] < MaxPriority

\* Mutant: IncPriority without its limit.
IncPriorityUnlimited(p) == p + AgingStep
\* Thread::IncPriority
IncPriority(p) == IF p + AgingStep > MaxPriority THEN MaxPriority ELSE p + AgingStep

\* Scheduler::Aging empties L3, L2 and L1 in this order and inserts every thread again.
Emptied == ready[3] \o ready[2] \o ready[1]
AgedPriority ==
    [t \in Threads |-> IF t \in ToSet(Emptied) /\ Ages(t) THEN IncPriority(priority[t]) ELSE priority[t]]
AgedWaited == [t \in Threads |-> IF t \in ToSet(Emptied) /\ Ages(t) THEN 0 ELSE waited[t]]
Reinserted[n \in 0 .. Len(Emptied)] ==
    IF n = 0 THEN EmptyLists ELSE InsertReady(Reinserted[n - 1], Emptied[n], AgedPriority)
AgedReady == Reinserted[Len(Emptied)]

\* Mutant: a level 3 thread is only preempted by round robin.
PreemptMissingL2(r, t) ==
    CASE r[1] # << >> -> QueueLevel(priority[t]) # 1 \/ L1Before(Head(r[1]), t)
      [] r[1] = << >> /\ r[2] # << >> -> FALSE
      [] OTHER -> r[3] # << >> /\ QueueLevel(priority[t]) = 3 /\ ran >= TimerTicks

\* Scheduler::Preempt with the ready lists r and the current thread t
Preempt(r, t) ==
    \/ /\ r[1] # << >>
       /\ QueueLevel(priority[t]) = 1 => L1Before(Head(r[1]), t)
    \/ /\ r[1] = << >> /\ r[2] # << >>
       /\ QueueLevel(priority[t]) = 3
    \/ /\ r[1] = << >> /\ r[3] # << >>
       /\ QueueLevel(priority[t]) = 3
       /\ ran >= TimerTicks

\* Thread::Yield of the current thread: Aging, then Preempt and, if it says so,
\* the switch.  updateAccuRunTime comes before ReadyToRun.
Yield ==
    LET t == currentThread
        r == AgedReady
    IN  /\ priority' = AgedPriority
        /\ IF Preempt(r, t)
             THEN /\ accuRunTime' = [accuRunTime EXCEPT ![t] = @ + ran]
                  /\ ready' = InsertReady(WithoutNext(r), t, AgedPriority)
                  /\ waited' = [AgedWaited EXCEPT ![NextToRun(r)] = 0]
                  /\ Dispatch(NextToRun(r), [status EXCEPT ![t] = "READY"])
             ELSE /\ ready' = r
                  /\ waited' = AgedWaited
                  /\ UNCHANGED <<accuRunTime, currentThread, status, ran, cpu>>
        /\ UNCHANGED <<estimate, sleeps, exec, execExit, clock>>

\* Interrupt::OneTick: the timer handler asked for a Yield on return.
TimerYield == /\ Running
              /\ yieldOnReturn
              /\ yieldOnReturn' = FALSE
              /\ Yield

-----------------------------------------------------------------------------
(* Time and threads                                                        *)

Tick == /\ clock' = (clock + 1) % TimerTicks
        /\ waited' = [t \in Threads |-> IF status[t] = "READY" /\ waited[t] < WaitCap
                                          THEN waited[t] + 1 ELSE waited[t]]

\* The current thread computes for a unit; the timer interrupt at the end of a
\* period runs Alarm::CallBack.  Inside Begin only SetLevel's tick passes, which
\* is shorter than a unit: it ends at most one each time the thread is dispatched.
Advance ==
    /\ Thinking
    /\ currentThread \in begun \/ ran = 0
    /\ accuRunTime[currentThread] + ran < MaxBurst
    /\ ran' = ran + 1
    /\ Tick
    /\ yieldOnReturn' = (clock' = 0)
    /\ UNCHANGED <<ready, priority, status, burst, currentThread, cpu, exec, execExit>>

\* Scheduler::ReadyToRun
ReadyToRun(t) == /\ status' = [status EXCEPT ![t] = "READY"]
                 /\ ready' = InsertReady(ready, t, priority)
                 /\ waited' = [waited EXCEPT ![t] = 0]
                 /\ UNCHANGED priority

\* Kernel::ExecAll, run by main: Kernel::Exec forks the threads in order.
Exec(t) == /\ Thinking
           /\ currentThread = 0
           /\ status[t] = "JUST_CREATED"
           /\ \A u \in 1 .. t - 1 : status[u] # "JUST_CREATED"
           /\ ReadyToRun(t)
           /\ UNCHANGED <<burst, currentThread, ran, cpu, exec, execExit, timer>>

\* A semaphore's V, by the running thread or by an interrupt handler, wakes a
\* thread.  (A finished thread whose CPU is idle is BLOCKED too, but no
\* semaphore has it in its queue.)
WakeUp(t) == /\ ~ halted
             /\ status[t] = "BLOCKED"
             /\ ~ (t = currentThread /\ cpu = "idleFinishing")
             /\ ReadyToRun(t)
             /\ UNCHANGED <<burst, currentThread, ran, cpu, exec, execExit, timer>>

\* Thread::Sleep.  While no thread is ready the current one stays in the loop
\* around Interrupt::Idle, which is cpu # "run".
Sleep(finishing) ==
    LET t == currentThread
    IN  /\ estimate' = [estimate EXCEPT ![t] = (Scale * (accuRunTime[t] + ran) + @) \div 2]
        /\ accuRunTime' = [accuRunTime EXCEPT ![t] = 0]
        /\ IF NoneReady(ready)
             THEN /\ cpu' = IF finishing THEN "idleFinishing" ELSE "idle"
                  /\ status' = [status EXCEPT ![t] = "BLOCKED"]
                  /\ ran' = 0
                  /\ UNCHANGED <<ready, waited, currentThread>>
             ELSE /\ ready' = WithoutNext(ready)
                  /\ waited' = [waited EXCEPT ![NextToRun(ready)] = 0]
                  /\ Dispatch(NextToRun(ready),
                              [status EXCEPT ![t] = IF finishing THEN "DELETED" ELSE "BLOCKED"])
        /\ UNCHANGED <<priority, execExit, timer>>

\* The current thread waits on a semaphore.
Block == /\ Thinking
         /\ currentThread \in begun \ {0}
         /\ sleeps[currentThread] < MaxSleeps
         /\ sleeps' = [sleeps EXCEPT ![currentThread] = @ + 1]
         /\ Sleep(FALSE)
         /\ UNCHANGED exec

\* A thread -ee counts.
Counted == execExit /\ currentThread \in ExecThreads

\* Mutant: the count is taken off after Sleep(TRUE), which does not return.
FinishSleepsFirst ==
    /\ Thinking
    /\ currentThread \in begun
    /\ currentThread = 0 => \A t \in ExecThreads : status[t] # "JUST_CREATED"
    /\ Sleep(TRUE)
    /\ UNCHANGED <<sleeps, exec>>

\* Thread::Finish.  Main finishes when ExecAll has started every thread; with
\* -ee the machine halts when no thread that has begun is left.
Finish == /\ Thinking
          /\ currentThread \in begun
          /\ currentThread = 0 => \A t \in ExecThreads : status[t] # "JUST_CREATED"
          /\ ~ (Counted /\ execRunningNum = 1)
          /\ execRunningNum' = IF Counted THEN execRunningNum - 1 ELSE execRunningNum
          /\ Sleep(TRUE)
          /\ UNCHANGED <<sleeps, begun, halted>>

FinishAndHalt == /\ Thinking
                 /\ currentThread \in begun
                 /\ Counted /\ execRunningNum = 1
                 /\ execRunningNum' = 0
                 /\ halted' = TRUE
                 /\ UNCHANGED <<lists, status, burst, currentThread, ran, cpu, begun, execExit, timer>>

\* Sleep's loop finds a ready thread after an interrupt, perhaps its own.
LeaveIdle ==
    /\ ~ halted /\ cpu # "run"
    /\ ~ NoneReady(ready)
    /\ ready' = WithoutNext(ready)
    /\ waited' = [waited EXCEPT ![NextToRun(ready)] = 0]
    /\ Dispatch(NextToRun(ready),
                IF cpu = "idleFinishing" THEN [status EXCEPT ![currentThread] = "DELETED"] ELSE status)
    /\ UNCHANGED <<priority, burst, exec, execExit, timer>>

\* Interrupt::Idle moves the clock to the next interrupt; Alarm::CallBack asks
\* for no Yield in IdleMode.
IdleTick == /\ ~ halted /\ cpu # "run"
            /\ NoneReady(ready)
            /\ clock' = (clock + 1) % TimerTicks
            /\ UNCHANGED <<lists, status, burst, currentThread, ran, cpu, exec, execExit, yieldOnReturn>>

Compute == Begin \/ Advance \/ Block \/ Finish \/ FinishAndHalt \/ \E t \in ExecThreads : Exec(t)

Next == \/ Compute
        \/ TimerYield
        \/ LeaveIdle
        \/ IdleTick
        \/ \E t \in ExecThreads : WakeUp(t)

\* The CPU runs the current thread, whose bursts are finite, and every
\* semaphore is signalled in the end.
Fairness == /\ WF_vars(Compute)
            /\ WF_vars(TimerYield)
            /\ WF_vars(LeaveIdle)
            /\ \A t \in ExecThreads : WF_vars(WakeUp(t))

Spec == Init /\ [][Next]_vars
FairSpec == Spec /\ Fairness
-----------------------------------------------------------------------------
\* The type invariant.
TypeOK ==
    /\ ready \in [1 .. 3 -> Seq(Threads)]
    /\ status \in [Threads -> {"JUST_CREATED", "RUNNING", "READY", "BLOCKED", "DELETED"}]
    /\ priority \in [Threads -> 0 .. MaxPriority]
    /\ waited \in [Threads -> 0 .. WaitCap]
    /\ estimate \in [Threads -> 0 .. Scale * MaxBurst]
    /\ accuRunTime \in [Threads -> 0 .. MaxBurst]
    /\ sleeps \in [Threads -> 0 .. MaxSleeps]
    /\ currentThread \in Threads
    /\ ran \in 0 .. MaxBurst
    /\ cpu \in {"run", "idle", "idleFinishing"}
    /\ execExit \in BOOLEAN
    /\ begun \subseteq Threads
    /\ execRunningNum \in 0 .. ExecNum
    /\ halted \in BOOLEAN
    /\ clock \in 0 .. TimerTicks - 1
    /\ yieldOnReturn \in BOOLEAN

\* A thread is READY exactly when it is in the list of its level, once, and in
\* no other; the current thread is the only RUNNING one (none while idling).
ReadyExactlyListed ==
    /\ \A l \in 1 .. 3 :
         /\ IsInjective(ready[l])
         /\ ToSet(ready[l]) = {t \in Threads : status[t] = "READY" /\ QueueLevel(priority[t]) = l}
    /\ {t \in Threads : status[t] = "READY"} = UNION {ToSet(ready[l]) : l \in 1 .. 3}
    /\ {t \in Threads : status[t] = "RUNNING"} = IF cpu = "run" THEN {currentThread} ELSE {}

\* L1 is sorted by remaining burst and L2 by priority although bursts and
\* priorities change after a thread was inserted.
ListsSorted ==
    /\ \A i, j \in 1 .. Len(ready[1]) : i < j => L1Before(ready[1][i], ready[1][j])
    /\ \A i, j \in 1 .. Len(ready[2]) : i < j => L2Before(ready[2][i], ready[2][j], priority)

\* After the Yield of a timer interrupt nothing that ought to preempt the
\* running thread is still waiting: no higher level, no shorter remaining burst
\* within level 1, and within level 3 nobody once the slice is used up.
Outranks(t, u) ==
    \/ QueueLevel(priority[t]) < QueueLevel(priority[u])
    \/ QueueLevel(priority[t]) = 1 /\ QueueLevel(priority[u]) = 1 /\ L1Before(t, u)
    \/ QueueLevel(priority[t]) = 3 /\ QueueLevel(priority[u]) = 3 /\ ran >= TimerTicks
NobodyOutranks == \A t \in Threads : status[t] = "READY" => ~ Outranks(t, currentThread)
TimerLeavesBestRunning == [][yieldOnReturn /\ ~ yieldOnReturn' => NobodyOutranks']_vars

\* Aging keeps up: a ready thread below the highest priority is promoted before
\* it has waited a timer period longer than the limit.
AgingKeepsUp ==
    \A t \in Threads : status[t] = "READY" /\ priority[t] < MaxPriority =>
                          waited[t] <= AgingLimit + TimerTicks

\* With -ee execRunningNum is the number of user threads that are past Begin and
\* not ended, across preemption, sleep and the idle loop.  A thread the timer
\* preempts inside Begin, between Enable and the count, is in no count yet; it
\* can only be new, ready or running: nobody sleeps, ends or halts the machine
\* uncounted.
Ended(t) == status[t] = "DELETED" \/ (cpu = "idleFinishing" /\ currentThread = t)
Halting(t) == halted /\ t = currentThread
RunningCounted ==
    /\ execExit => execRunningNum = Cardinality({t \in begun \cap ExecThreads : ~ Ended(t) /\ ~ Halting(t)})
    /\ \A t \in Threads \ begun :
          status[t] \in {"JUST_CREATED", "READY", "RUNNING"} /\ ~ Halting(t)

\* With -ee the machine halts only when every thread is done (kernel.cc: "To
\* end the program after all the threads are done").
HaltsWhenAllDone == halted => \A t \in ExecThreads \ {currentThread} : status[t] = "DELETED"

\* Every thread runs to its end, whatever its level: the bursts being finite,
\* neither preemption nor the fixed precedence of the levels starves a thread.
\* With -ee the machine halts: the count comes back to 0.
EveryThreadEnds == <>(IF execExit THEN halted ELSE \A t \in Threads : Ended(t))
=============================================================================
