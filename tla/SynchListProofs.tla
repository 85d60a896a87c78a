-------------------------- MODULE SynchListProofs ---------------------------
(***************************************************************************)
(* Theorems about SynchList, for every set of appending and removing       *)
(* threads and every finite set of items.                                  *)
(***************************************************************************)
EXTENDS SynchList, FiniteSetTheorems, TLAPS

-----------------------------------------------------------------------------
(* What P and V do to semaphores that never exceed 1.                      *)

\* V on a semaphore that is down raises it to 1 and keeps its queue one of threads.
LEMMA VRaises ==
    ASSUME SynchTypeOK, NEW s \in Semaphores, value[s] = 0, V(s)
    PROVE  /\ value' = [value EXCEPT ![s] = 1]
           /\ queue' \in [Semaphores -> Seq(Threads)]
<1>1. value' = [value EXCEPT ![s] = 1]
  BY DEF SynchTypeOK, V
<1>2. queue[s] # << >> => Tail(queue[s]) \in Seq(Threads)
  BY DEF SynchTypeOK
<1> QED
  BY <1>1, <1>2 DEF SynchTypeOK, V

\* A thread passes P only on a raised semaphore, and leaves it down.
LEMMA PassTakes ==
    ASSUME SynchTypeOK, NEW t \in Threads, NEW s \in Semaphores, PPass(t, s)
    PROVE  /\ value[s] = 1
           /\ value' = [value EXCEPT ![s] = 0]
           /\ queue' = queue
<1>1. value[s] = 1
  BY DEF SynchTypeOK, PPass
<1> QED
  BY <1>1 DEF PPass

\* A thread that sleeps in P leaves the values alone.
LEMMA SleepQueues ==
    ASSUME SynchTypeOK, NEW t \in Threads, NEW s \in Semaphores, PSleep(t, s)
    PROVE  /\ value' = value
           /\ queue' \in [Semaphores -> Seq(Threads)]
<1>1. Append(queue[s], t) \in Seq(Threads)
  BY DEF SynchTypeOK
<1> QED
  BY <1>1 DEF SynchTypeOK, PSleep

-----------------------------------------------------------------------------
\* The condition's queue holds threads that have not been signalled, each once;
\* a thread's semaphore is up only between the signal and the end of its wait.
WaitersUnsignalled ==
    /\ \A i, j \in 1 .. Len(waitQueue) : waitQueue[i] = waitQueue[j] => i = j
    /\ \A i \in 1 .. Len(waitQueue) :
           pc[waitQueue[i]] = "wait" /\ value[waitQueue[i]] = 0
    /\ \A t \in Removers : value[t] = 1 => pc[t] = "wait"

\* Each thread is in its own method.
InMethod == /\ \A t \in Appenders : pc[t] # "wait"
            /\ \A t \in Removers : pc[t] # "signal"

IInv == TypeOK /\ MonitorHeld /\ WaitersUnsignalled /\ InMethod

\* Every item is pending, in the hand of one appender, in one place of the list,
\* or has been removed.
Carries(t) == pc[t] \in {"acquire", "locked", "body"}
ItemsHeldOnce ==
    /\ \A t \in Appenders : Carries(t) => /\ local[t] \in Items \ pending
                                          /\ \A i \in 1 .. Len(list) : list[i] # local[t]
    /\ \A t, u \in Appenders : Carries(t) /\ Carries(u) /\ local[t] = local[u] => t = u
    /\ \A i \in 1 .. Len(list) : list[i] \notin pending
    /\ \A i, j \in 1 .. Len(list) : list[i] = list[j] => i = j

-----------------------------------------------------------------------------
\* The monitor as constructed satisfies the invariant.
LEMMA InitHolds == Init => IInv /\ ItemsHeldOnce
<1> SUFFICES ASSUME Init PROVE IInv /\ ItemsHeldOnce
  OBVIOUS
<1> USE SynchAssumption, ListAssumption
<1>1. << >> \in Seq(Threads) /\ << >> \in Seq(Removers) /\ << >> \in Seq(Items)
  OBVIOUS
<1>2. SynchTypeOK
  BY <1>1 DEF Init, SynchInit, SynchTypeOK
<1>3. TypeOK
  BY <1>1, <1>2 DEF Init, TypeOK
<1>4. MonitorHeld
  BY DEF Init, SynchInit, MonitorHeld, Inside
<1>5. WaitersUnsignalled /\ InMethod
  BY DEF Init, SynchInit, WaitersUnsignalled, InMethod
<1>6. ItemsHeldOnce
  BY DEF Init, ItemsHeldOnce, Carries
<1> QED
  BY <1>3, <1>4, <1>5, <1>6 DEF IInv

\* A thread on its way to the lock: it sleeps, or is the only one inside.
LEMMA AcquirePreserves ==
    ASSUME IInv, NEW t \in Threads, Acquire(t) PROVE IInv'
<1> USE SynchAssumption, ListAssumption
<1>0. SynchTypeOK
  BY DEF IInv, TypeOK
<1>1. CASE PSleep(t, LockSem) /\ UNCHANGED pc
  <2>1. value' = value /\ queue' \in [Semaphores -> Seq(Threads)]
    BY <1>0, <1>1, SleepQueues
  <2>2. TypeOK'
    BY <1>1, <2>1 DEF IInv, TypeOK, SynchTypeOK, Acquire
  <2>3. MonitorHeld'
    BY <1>1, <2>1 DEF IInv, MonitorHeld, Inside, Acquire
  <2>4. WaitersUnsignalled' /\ InMethod'
    BY <1>1, <2>1 DEF IInv, WaitersUnsignalled, InMethod, Acquire
  <2> QED
    BY <2>2, <2>3, <2>4 DEF IInv
<1>2. CASE PPass(t, LockSem) /\ Goto(t, "locked")
  <2>1. value[LockSem] = 1 /\ value' = [value EXCEPT ![LockSem] = 0] /\ queue' = queue
    BY <1>0, <1>2, PassTakes
  <2>2. \A u \in Threads : ~ Inside(u)
    BY <2>1 DEF IInv, MonitorHeld
  <2>3. TypeOK'
    BY <1>2, <2>1 DEF IInv, TypeOK, SynchTypeOK, Acquire, Goto
  <2>4. MonitorHeld'
    BY <1>2, <2>1, <2>2
    DEF IInv, TypeOK, SynchTypeOK, MonitorHeld, Inside, Acquire, Goto
  <2>5. WaitersUnsignalled'
    BY <1>2, <2>1
    DEF IInv, TypeOK, SynchTypeOK, WaitersUnsignalled, Acquire, Goto
  <2>6. InMethod'
    BY <1>2 DEF IInv, TypeOK, InMethod, Goto
  <2> QED
    BY <2>3, <2>4, <2>5, <2>6 DEF IInv
<1> QED
  BY <1>1, <1>2 DEF Acquire

\* A waiting thread: it sleeps, or consumes the signal it was sent.
LEMMA WaiterPreserves ==
    ASSUME IInv, NEW t \in Removers, Waiter(t) PROVE IInv'
<1> USE SynchAssumption, ListAssumption
<1>0. SynchTypeOK
  BY DEF IInv, TypeOK
<1>1. CASE PSleep(t, t) /\ UNCHANGED pc
  <2>1. value' = value /\ queue' \in [Semaphores -> Seq(Threads)]
    BY <1>0, <1>1, SleepQueues
  <2>2. TypeOK'
    BY <1>1, <2>1 DEF IInv, TypeOK, SynchTypeOK, Waiter
  <2>3. MonitorHeld'
    BY <1>1, <2>1 DEF IInv, MonitorHeld, Inside, Waiter
  <2>4. WaitersUnsignalled' /\ InMethod'
    BY <1>1, <2>1 DEF IInv, WaitersUnsignalled, InMethod, Waiter
  <2> QED
    BY <2>2, <2>3, <2>4 DEF IInv
<1>2. CASE PPass(t, t) /\ Goto(t, "acquire")
  <2>1. value[t] = 1 /\ value' = [value EXCEPT ![t] = 0] /\ queue' = queue
    BY <1>0, <1>2, PassTakes
  <2>2. \A i \in 1 .. Len(waitQueue) : waitQueue[i] # t
    BY <2>1 DEF IInv, WaitersUnsignalled
  <2>3. TypeOK'
    BY <1>2, <2>1 DEF IInv, TypeOK, SynchTypeOK, Waiter, Goto
  <2>4. MonitorHeld'
    BY <1>2, <2>1 DEF IInv, TypeOK, SynchTypeOK, MonitorHeld, Inside, Waiter, Goto
  <2>5. WaitersUnsignalled'
    BY <1>2, <2>1, <2>2
    DEF IInv, TypeOK, SynchTypeOK, WaitersUnsignalled, Waiter, Goto
  <2>6. InMethod'
    BY <1>2 DEF IInv, TypeOK, InMethod, Goto
  <2> QED
    BY <2>3, <2>4, <2>5, <2>6 DEF IInv
<1> QED
  BY <1>1, <1>2 DEF Waiter

\* Signal takes the first waiter out of the queue and raises its semaphore.
LEMMA SignalPreserves ==
    ASSUME IInv, NEW t \in Appenders, Signal(t) PROVE IInv'
<1> USE SynchAssumption, ListAssumption
<1>0. SynchTypeOK
  BY DEF IInv, TypeOK
<1>1. CASE waitQueue = << >>
  BY <1>1 DEF IInv, TypeOK, SynchTypeOK, MonitorHeld, Inside, WaitersUnsignalled, InMethod,
              Signal, Goto, semaphores
<1>2. CASE waitQueue # << >>
  <2> DEFINE w == Head(waitQueue)
  <2>1. /\ w \in Removers /\ w = waitQueue[1]
        /\ Tail(waitQueue) \in Seq(Removers)
        /\ Len(Tail(waitQueue)) = Len(waitQueue) - 1
        /\ \A i \in 1 .. Len(waitQueue) - 1 : Tail(waitQueue)[i] = waitQueue[i + 1]
        /\ Len(waitQueue) \in Nat /\ Len(waitQueue) > 0
    BY <1>2 DEF IInv, TypeOK
  <2>2. value[w] = 0 /\ pc[w] = "wait" /\ w # t
    BY <2>1 DEF IInv, WaitersUnsignalled, Signal
  <2>3. value' = [value EXCEPT ![w] = 1] /\ queue' \in [Semaphores -> Seq(Threads)]
    BY <1>0, <1>2, <2>1, <2>2, VRaises DEF Signal
  <2>4. waitQueue' = Tail(waitQueue) /\ pc' = [pc EXCEPT ![t] = "release"]
    BY <1>2 DEF Signal, Goto
  <2>5. TypeOK'
    BY <2>1, <2>3, <2>4 DEF IInv, TypeOK, SynchTypeOK, Signal
  <2>6. MonitorHeld'
    BY <2>1, <2>3, <2>4 DEF IInv, TypeOK, SynchTypeOK, MonitorHeld, Inside, Signal
  <2>7. WaitersUnsignalled'
    <3>1. \A i, j \in 1 .. Len(waitQueue') : waitQueue'[i] = waitQueue'[j] => i = j
      BY <2>1, <2>4 DEF IInv, WaitersUnsignalled
    <3>2. \A i \in 1 .. Len(waitQueue') : waitQueue'[i] # w /\ waitQueue'[i] \in Removers
      BY <2>1, <2>4 DEF IInv, TypeOK, WaitersUnsignalled
    <3>3. \A i \in 1 .. Len(waitQueue') :
              pc[waitQueue'[i]] = "wait" /\ value[waitQueue'[i]] = 0
      BY <2>1, <2>4 DEF IInv, WaitersUnsignalled
    <3>4. \A i \in 1 .. Len(waitQueue') :
              pc'[waitQueue'[i]] = "wait" /\ value'[waitQueue'[i]] = 0
      BY <2>1, <2>3, <2>4, <3>2, <3>3 DEF IInv, TypeOK, SynchTypeOK
    <3>5. \A u \in Removers : value'[u] = 1 => pc'[u] = "wait"
      BY <2>1, <2>2, <2>3, <2>4 DEF IInv, TypeOK, SynchTypeOK, WaitersUnsignalled
    <3> QED
      BY <3>1, <3>4, <3>5 DEF WaitersUnsignalled
  <2>8. InMethod'
    BY <2>4 DEF IInv, TypeOK, InMethod
  <2> QED
    BY <2>5, <2>6, <2>7, <2>8 DEF IInv
<1> QED
  BY <1>1, <1>2

\* Whoever releases the lock is the one thread inside.
LEMMA HolderReleases ==
    ASSUME IInv, NEW t \in Threads, Inside(t), LockRelease
    PROVE  /\ value[LockSem] = 0 /\ \A u \in Threads : Inside(u) => u = t
           /\ value' = [value EXCEPT ![LockSem] = 1]
           /\ queue' \in [Semaphores -> Seq(Threads)]
           /\ lockHolder' = None
<1>1. value[LockSem] = 0 /\ \A u \in Threads : Inside(u) => u = t
  BY DEF IInv, MonitorHeld
<1> QED
  BY <1>1, VRaises, SynchAssumption DEF IInv, TypeOK, LockRelease

\* Condition::Wait queues a thread that was not queued and leaves the lock free.
LEMMA WaitPreserves ==
    ASSUME IInv, NEW t \in Removers, Wait(t) PROVE IInv'
<1> USE SynchAssumption, ListAssumption
<1>1. /\ value[LockSem] = 0 /\ \A u \in Threads : Inside(u) => u = t
      /\ value' = [value EXCEPT ![LockSem] = 1]
      /\ queue' \in [Semaphores -> Seq(Threads)]
      /\ lockHolder' = None
  BY HolderReleases DEF Wait, Inside
<1>2. waitQueue' = Append(waitQueue, t) /\ pc' = [pc EXCEPT ![t] = "wait"] /\ pc[t] = "body"
  BY DEF Wait, Goto
<1>3. /\ waitQueue' \in Seq(Removers)
      /\ Len(waitQueue') = Len(waitQueue) + 1
      /\ \A i \in 1 .. Len(waitQueue) : waitQueue'[i] = waitQueue[i]
      /\ waitQueue'[Len(waitQueue) + 1] = t
      /\ Len(waitQueue) \in Nat
  BY <1>2 DEF IInv, TypeOK
<1>4. TypeOK'
  BY <1>1, <1>2, <1>3 DEF IInv, TypeOK, SynchTypeOK, Wait
<1>5. MonitorHeld'
  BY <1>1, <1>2 DEF IInv, TypeOK, SynchTypeOK, MonitorHeld, Inside
<1>6. WaitersUnsignalled'
  <2>1. \A i \in 1 .. Len(waitQueue) : waitQueue[i] # t /\ waitQueue[i] \in Removers
    BY <1>2 DEF IInv, TypeOK, WaitersUnsignalled
  <2>2. value[t] = 0
    BY <1>2 DEF IInv, TypeOK, SynchTypeOK, WaitersUnsignalled
  <2>3. \A i, j \in 1 .. Len(waitQueue') : waitQueue'[i] = waitQueue'[j] => i = j
    BY <1>3, <2>1 DEF IInv, WaitersUnsignalled
  <2>4. \A i \in 1 .. Len(waitQueue) : pc[waitQueue[i]] = "wait" /\ value[waitQueue[i]] = 0
    BY DEF IInv, WaitersUnsignalled
  <2>5. \A u \in Removers : (pc[u] = "wait" /\ value[u] = 0) \/ u = t
                            => pc'[u] = "wait" /\ value'[u] = 0
    BY <1>1, <1>2, <2>2 DEF IInv, TypeOK, SynchTypeOK
  <2>6. \A i \in 1 .. Len(waitQueue') : pc'[waitQueue'[i]] = "wait" /\ value'[waitQueue'[i]] = 0
    BY <1>3, <2>1, <2>4, <2>5
  <2>7. \A u \in Removers : value'[u] = 1 => pc'[u] = "wait"
    BY <1>1, <1>2 DEF IInv, TypeOK, SynchTypeOK, WaitersUnsignalled
  <2> QED
    BY <2>3, <2>6, <2>7 DEF WaitersUnsignalled
<1>7. InMethod'
  BY <1>2 DEF IInv, TypeOK, InMethod
<1> QED
  BY <1>4, <1>5, <1>6, <1>7 DEF IInv

\* Lock::Release by the thread inside leaves nobody inside.
LEMMA ReleasePreserves ==
    ASSUME IInv, NEW t \in Threads, Release(t) PROVE IInv'
<1> USE SynchAssumption, ListAssumption
<1>1. /\ value[LockSem] = 0 /\ \A u \in Threads : Inside(u) => u = t
      /\ value' = [value EXCEPT ![LockSem] = 1]
      /\ queue' \in [Semaphores -> Seq(Threads)]
      /\ lockHolder' = None
  BY HolderReleases DEF Release, Inside
<1>2. pc' = [pc EXCEPT ![t] = "idle"] /\ pc[t] = "release"
  BY DEF Release, Goto
<1>3. TypeOK'
  BY <1>1, <1>2 DEF IInv, TypeOK, SynchTypeOK, Release
<1>4. MonitorHeld'
  BY <1>1, <1>2 DEF IInv, TypeOK, SynchTypeOK, MonitorHeld, Inside
<1>5. WaitersUnsignalled'
  BY <1>1, <1>2 DEF IInv, TypeOK, SynchTypeOK, WaitersUnsignalled, Release
<1>6. InMethod'
  BY <1>2 DEF IInv, TypeOK, InMethod
<1> QED
  BY <1>3, <1>4, <1>5, <1>6 DEF IInv

\* The invariant of the monitor is preserved by every action.
LEMMA NextPreserves == IInv /\ ItemsHeldOnce /\ [Next]_vars => IInv'
<1> SUFFICES ASSUME IInv, ItemsHeldOnce, [Next]_vars PROVE IInv'
  OBVIOUS
<1> USE SynchAssumption, ListAssumption
<1>1. ASSUME NEW t \in Appenders, CallAppend(t) PROVE IInv'
  <2>1. PICK item \in pending : /\ local' = [local EXCEPT ![t] = item]
                                /\ pending' = pending \ {item}
    BY <1>1 DEF CallAppend
  <2>2. /\ pc[t] = "idle" /\ pc' = [pc EXCEPT ![t] = "acquire"]
        /\ UNCHANGED <<value, queue, lockHolder, waitQueue, list>>
    BY <1>1 DEF CallAppend, Goto, semaphores
  <2>3. TypeOK'
    BY <2>1, <2>2 DEF IInv, TypeOK, SynchTypeOK
  <2>4. MonitorHeld'
    BY <2>2 DEF IInv, TypeOK, MonitorHeld, Inside
  <2>5. WaitersUnsignalled' /\ InMethod'
    BY <2>2 DEF IInv, TypeOK, WaitersUnsignalled, InMethod
  <2> QED
    BY <2>3, <2>4, <2>5 DEF IInv
<1>2. ASSUME NEW t \in Removers, CallRemoveFront(t) PROVE IInv'
  <2>1. /\ pc[t] = "idle" /\ pc' = [pc EXCEPT ![t] = "acquire"]
        /\ UNCHANGED <<value, queue, lockHolder, waitQueue, list, local, pending>>
    BY <1>2 DEF CallRemoveFront, Goto, semaphores
  <2>2. TypeOK'
    BY <2>1 DEF IInv, TypeOK, SynchTypeOK
  <2>3. MonitorHeld'
    BY <2>1 DEF IInv, TypeOK, MonitorHeld, Inside
  <2>4. WaitersUnsignalled' /\ InMethod'
    BY <2>1 DEF IInv, TypeOK, WaitersUnsignalled, InMethod
  <2> QED
    BY <2>2, <2>3, <2>4 DEF IInv
<1>3. ASSUME NEW t \in Threads, Hold(t) PROVE IInv'
  <2>1. /\ pc[t] = "locked" /\ pc' = [pc EXCEPT ![t] = "body"] /\ lockHolder' = t
        /\ UNCHANGED <<value, queue, waitQueue, list, local, pending>>
    BY <1>3 DEF Hold, Goto, semaphores
  <2>2. TypeOK'
    BY <2>1 DEF IInv, TypeOK, SynchTypeOK
  <2>3. MonitorHeld'
    BY <2>1 DEF IInv, TypeOK, MonitorHeld, Inside
  <2>4. WaitersUnsignalled' /\ InMethod'
    BY <2>1 DEF IInv, TypeOK, WaitersUnsignalled, InMethod
  <2> QED
    BY <2>2, <2>3, <2>4 DEF IInv
<1>4. ASSUME NEW t \in Appenders, Put(t) PROVE IInv'
  <2>1. /\ pc[t] = "body" /\ pc' = [pc EXCEPT ![t] = "signal"]
        /\ list' = Append(list, local[t])
        /\ UNCHANGED <<value, queue, lockHolder, waitQueue, local, pending>>
    BY <1>4 DEF Put, Goto, semaphores
  <2>2. TypeOK'
    BY <2>1 DEF IInv, TypeOK, SynchTypeOK, ItemsHeldOnce, Carries
  <2>3. MonitorHeld'
    BY <2>1 DEF IInv, TypeOK, MonitorHeld, Inside
  <2>4. WaitersUnsignalled' /\ InMethod'
    BY <2>1 DEF IInv, TypeOK, WaitersUnsignalled, InMethod
  <2> QED
    BY <2>2, <2>3, <2>4 DEF IInv
<1>5. ASSUME NEW t \in Removers, Take(t) PROVE IInv'
  <2>1. /\ pc[t] = "body" /\ pc' = [pc EXCEPT ![t] = "release"]
        /\ list # << >> /\ list' = Tail(list) /\ local' = [local EXCEPT ![t] = Head(list)]
        /\ UNCHANGED <<value, queue, lockHolder, waitQueue, pending>>
    BY <1>5 DEF Take, Goto, semaphores
  <2>2. TypeOK'
    BY <2>1 DEF IInv, TypeOK, SynchTypeOK
  <2>3. MonitorHeld'
    BY <2>1 DEF IInv, TypeOK, MonitorHeld, Inside
  <2>4. WaitersUnsignalled' /\ InMethod'
    BY <2>1 DEF IInv, TypeOK, WaitersUnsignalled, InMethod
  <2> QED
    BY <2>2, <2>3, <2>4 DEF IInv
<1>6. CASE UNCHANGED vars
  BY <1>6 DEF IInv, TypeOK, SynchTypeOK, MonitorHeld, Inside, WaitersUnsignalled, InMethod,
              vars, semaphores
<1> QED
  BY <1>1, <1>2, <1>3, <1>4, <1>5, <1>6, AcquirePreserves, WaiterPreserves,
     SignalPreserves, WaitPreserves, ReleasePreserves
  DEF Next, AppendStep, RemoveFrontStep

\* No action drops or doubles an item.
LEMMA NextHoldsOnce == IInv /\ ItemsHeldOnce /\ [Next]_vars => ItemsHeldOnce'
<1> SUFFICES ASSUME IInv, ItemsHeldOnce, [Next]_vars PROVE ItemsHeldOnce'
  OBVIOUS
<1> USE SynchAssumption, ListAssumption
<1>0. /\ list \in Seq(Items) /\ Len(list) \in Nat
      /\ pc \in [Threads -> {"idle", "acquire", "locked", "body", "signal", "wait", "release"}]
      /\ local \in [Threads -> Items \cup {None}]
      /\ pending \subseteq Items
  BY DEF IInv, TypeOK
<1>1. ASSUME NEW t \in Appenders, CallAppend(t) PROVE ItemsHeldOnce'
  <2>1. PICK item \in pending : /\ local' = [local EXCEPT ![t] = item]
                                /\ pending' = pending \ {item}
    BY <1>1 DEF CallAppend
  <2>2. pc[t] = "idle" /\ pc' = [pc EXCEPT ![t] = "acquire"] /\ list' = list
    BY <1>1 DEF CallAppend, Goto
  <2> QED
    BY <1>0, <2>1, <2>2 DEF ItemsHeldOnce, Carries
<1>2. ASSUME NEW t \in Threads,
             \/ Acquire(t) \/ Hold(t) \/ Signal(t) \/ Release(t)
             \/ t \in Removers /\ (CallRemoveFront(t) \/ Wait(t) \/ Waiter(t))
      PROVE  ItemsHeldOnce'
  <2>1. /\ list' = list /\ local' = local /\ pending' = pending
        /\ \A u \in Appenders : Carries(u)' => Carries(u)
    BY <1>0, <1>2
    DEF Carries, CallRemoveFront, Acquire, Hold, Signal, Wait, Waiter, Release, Goto
  <2> QED
    BY <2>1 DEF ItemsHeldOnce
<1>3. ASSUME NEW t \in Appenders, Put(t) PROVE ItemsHeldOnce'
  <2>1. /\ pc[t] = "body" /\ pc' = [pc EXCEPT ![t] = "signal"]
        /\ list' = Append(list, local[t])
        /\ UNCHANGED <<local, pending>>
    BY <1>3 DEF Put, Goto
  <2>2. local[t] \in Items \ pending /\ \A i \in 1 .. Len(list) : list[i] # local[t]
    BY <2>1 DEF ItemsHeldOnce, Carries
  <2>3. /\ Len(list') = Len(list) + 1 /\ list'[Len(list) + 1] = local[t]
        /\ \A i \in 1 .. Len(list) : list'[i] = list[i]
    BY <1>0, <2>1, <2>2
  <2>4. \A u \in Appenders : Carries(u)' => Carries(u) /\ u # t
    BY <1>0, <2>1 DEF Carries
  <2>5. \A u \in Appenders : Carries(u)' => /\ local'[u] \in Items \ pending'
                                            /\ \A i \in 1 .. Len(list') : list'[i] # local'[u]
    <3> SUFFICES ASSUME NEW u \in Appenders, Carries(u)'
                 PROVE  /\ local'[u] \in Items \ pending'
                        /\ \A i \in 1 .. Len(list') : list'[i] # local'[u]
      OBVIOUS
    <3>1. Carries(u) /\ u # t /\ Carries(t)
      BY <2>1, <2>4 DEF Carries
    <3>2. local[u] # local[t] /\ local[u] \in Items \ pending
          /\ \A i \in 1 .. Len(list) : list[i] # local[u]
      BY <3>1 DEF ItemsHeldOnce
    <3> QED
      BY <1>0, <2>1, <2>3, <3>2
  <2>6. \A u, w \in Appenders : Carries(u)' /\ Carries(w)' /\ local'[u] = local'[w] => u = w
    BY <2>1, <2>4 DEF ItemsHeldOnce
  <2>7. \A i \in 1 .. Len(list') : list'[i] \notin pending'
    BY <1>0, <2>1, <2>2, <2>3 DEF ItemsHeldOnce
  <2>8. \A i, j \in 1 .. Len(list') : list'[i] = list'[j] => i = j
    BY <1>0, <2>2, <2>3 DEF ItemsHeldOnce
  <2> QED
    BY <2>5, <2>6, <2>7, <2>8 DEF ItemsHeldOnce
<1>4. ASSUME NEW t \in Removers, Take(t) PROVE ItemsHeldOnce'
  <2>1. /\ pc[t] = "body" /\ pc' = [pc EXCEPT ![t] = "release"]
        /\ list # << >> /\ list' = Tail(list) /\ local' = [local EXCEPT ![t] = Head(list)]
        /\ pending' = pending
    BY <1>4 DEF Take, Goto
  <2>2. /\ Len(list') = Len(list) - 1
        /\ \A i \in 1 .. Len(list') : list'[i] = list[i + 1] /\ i + 1 \in 1 .. Len(list)
    BY <1>0, <2>1
  <2>3. \A u \in Appenders : local'[u] = local[u] /\ (Carries(u)' => Carries(u))
    BY <1>0, <2>1 DEF Carries
  <2>4. \A i \in 1 .. Len(list') : list'[i] \notin pending'
    BY <2>1, <2>2 DEF ItemsHeldOnce
  <2>5. \A i, j \in 1 .. Len(list') : list'[i] = list'[j] => i = j
    <3> SUFFICES ASSUME NEW i \in 1 .. Len(list'), NEW j \in 1 .. Len(list'),
                        list'[i] = list'[j]
                 PROVE  i = j
      OBVIOUS
    <3>1. i + 1 = j + 1
      BY <2>2 DEF ItemsHeldOnce
    <3> QED
      BY <1>0, <2>2, <3>1
  <2>6. \A u \in Appenders : Carries(u)' => /\ local'[u] \in Items \ pending'
                                            /\ \A i \in 1 .. Len(list') : list'[i] # local'[u]
    BY <2>1, <2>2, <2>3 DEF ItemsHeldOnce
  <2>7. \A u, w \in Appenders : Carries(u)' /\ Carries(w)' /\ local'[u] = local'[w] => u = w
    BY <2>3 DEF ItemsHeldOnce
  <2> QED
    BY <2>4, <2>5, <2>6, <2>7 DEF ItemsHeldOnce
<1>5. CASE UNCHANGED vars
  BY <1>5 DEF ItemsHeldOnce, Carries, vars
<1> QED
  BY <1>1, <1>2, <1>3, <1>4, <1>5 DEF Next, AppendStep, RemoveFrontStep

-----------------------------------------------------------------------------
\* The inductive invariant.
THEOREM InvariantHolds == Spec => [](IInv /\ ItemsHeldOnce)
  BY InitHolds, NextPreserves, NextHoldsOnce, PTL DEF Spec

\* The types, and that no semaphore of the monitor exceeds 1.
THEOREM TypeCorrect == Spec => []TypeOK
<1>1. IInv => TypeOK
  BY DEF IInv
<1> QED
  BY <1>1, InvariantHolds, PTL

\* Mutual exclusion: one thread at most is inside the monitor, and lockHolder
\* names it, whatever the order in which woken threads and new callers compete.
THEOREM MutualExclusion == Spec => []MonitorHeld
<1>1. IInv => MonitorHeld
  BY DEF IInv
<1> QED
  BY <1>1, InvariantHolds, PTL

-----------------------------------------------------------------------------
(* No sleeper is forgotten.  A thread sleeps only in the queue of the      *)
(* semaphore it waits on, and only once, so the thread that V wakes is     *)
(* awake afterwards and on its way to the value V made.                    *)

InQueue(q, t) == \E i \in 1 .. Len(q) : q[i] = t
Distinct(q) == \A i, j \in 1 .. Len(q) : q[i] = q[j] => i = j

SleepersQueued ==
    \A s \in Semaphores : /\ \A t \in Threads : InQueue(queue[s], t) => WaitsOn(t) = s
                          /\ Distinct(queue[s])

SInv == SleepersQueued /\ NoSleeperForgotten

\* Asleep in terms of the queues.
LEMMA AsleepMeans ==
    \A t : Asleep(t) <=> \E s \in Semaphores : InQueue(queue[s], t)
  BY DEF Asleep, InQueue

\* A thread that waits on no semaphore is in no queue.
LEMMA NotWaitingIsAwake ==
    ASSUME SInv, NEW t \in Threads, WaitsOn(t) = None
    PROVE  \A s \in Semaphores : ~ InQueue(queue[s], t)
  BY ListAssumption, SynchAssumption DEF SInv, SleepersQueued

\* The head of a queue leaves it for good; the others stay.
LEMMA TailQueue ==
    ASSUME NEW q \in Seq(Threads), q # << >>, Distinct(q)
    PROVE  /\ Head(q) \in Threads /\ InQueue(q, Head(q))
           /\ Tail(q) \in Seq(Threads) /\ Distinct(Tail(q))
           /\ ~ InQueue(Tail(q), Head(q))
           /\ \A t : InQueue(Tail(q), t) => InQueue(q, t)
<1>1. /\ Head(q) \in Threads /\ Head(q) = q[1]
      /\ Tail(q) \in Seq(Threads) /\ Len(Tail(q)) = Len(q) - 1
      /\ \A i \in 1 .. Len(q) - 1 : Tail(q)[i] = q[i + 1]
      /\ Len(q) \in Nat /\ Len(q) > 0
  OBVIOUS
<1>2. \A i \in 1 .. Len(q) - 1 : i + 1 \in 1 .. Len(q) /\ i + 1 # 1
  BY <1>1
<1>3. 1 \in 1 .. Len(q)
  BY <1>1
<1>4. InQueue(q, Head(q)) /\ \A t : InQueue(Tail(q), t) => InQueue(q, t)
  BY <1>1, <1>2, <1>3 DEF InQueue
<1>5. ~ InQueue(Tail(q), Head(q))
  BY <1>1, <1>2, <1>3 DEF InQueue, Distinct
<1>6. Distinct(Tail(q))
  <2> SUFFICES ASSUME NEW i \in 1 .. Len(q) - 1, NEW j \in 1 .. Len(q) - 1,
                      Tail(q)[i] = Tail(q)[j]
               PROVE  i = j
    BY <1>1 DEF Distinct
  <2>1. i + 1 = j + 1
    BY <1>1, <1>2 DEF Distinct
  <2> QED
    BY <1>1, <2>1
<1> QED
  BY <1>1, <1>4, <1>5, <1>6

\* A thread not in a queue joins it at the end.
LEMMA AppendQueue ==
    ASSUME NEW q \in Seq(Threads), NEW t \in Threads, Distinct(q), ~ InQueue(q, t)
    PROVE  /\ Append(q, t) \in Seq(Threads) /\ Distinct(Append(q, t))
           /\ \A u : InQueue(Append(q, t), u) <=> InQueue(q, u) \/ u = t
<1>1. /\ Append(q, t) \in Seq(Threads) /\ Len(Append(q, t)) = Len(q) + 1
      /\ \A i \in 1 .. Len(q) : Append(q, t)[i] = q[i]
      /\ Append(q, t)[Len(q) + 1] = t
      /\ Len(q) \in Nat
  OBVIOUS
<1>2. 1 .. Len(q) + 1 = (1 .. Len(q)) \cup {Len(q) + 1}
  BY <1>1
<1>3. \A u : InQueue(Append(q, t), u) <=> InQueue(q, u) \/ u = t
  BY <1>1, <1>2 DEF InQueue
<1>4. Distinct(Append(q, t))
  BY <1>1, <1>2 DEF Distinct, InQueue
<1> QED
  BY <1>1, <1>3, <1>4

\* A thread that waits on no semaphore moves on; no semaphore changes.
LEMMA MovePreserves ==
    ASSUME SInv, NEW t \in Threads, WaitsOn(t) = None,
           \A u \in Threads \ {t} : WaitsOn(u)' = WaitsOn(u),
           UNCHANGED <<value, queue>>
    PROVE  SInv'
<1>1. \A s \in Semaphores : ~ InQueue(queue[s], t)
  BY NotWaitingIsAwake
<1>2. None \notin Semaphores
  BY ListAssumption, SynchAssumption
<1>3. SleepersQueued'
  BY <1>1 DEF SInv, SleepersQueued
<1>4. \A u : Asleep(u)' <=> Asleep(u)
  BY DEF Asleep
<1>5. NoSleeperForgotten'
  BY <1>2, <1>4 DEF SInv, NoSleeperForgotten
<1> QED
  BY <1>3, <1>5 DEF SInv

\* A thread that waits on no semaphore raises one and moves on.
LEMMA RaisePreserves ==
    ASSUME SInv, SynchTypeOK, NEW t \in Threads, WaitsOn(t) = None,
           \A u \in Threads \ {t} : WaitsOn(u)' = WaitsOn(u),
           NEW s \in Semaphores, V(s)
    PROVE  SInv'
<1>1. \A r \in Semaphores : ~ InQueue(queue[r], t)
  BY NotWaitingIsAwake
<1>2. None \notin Semaphores
  BY ListAssumption, SynchAssumption
<1>3. /\ queue[s] \in Seq(Threads)
      /\ queue'[s] = (IF queue[s] = << >> THEN << >> ELSE Tail(queue[s]))
      /\ \A r \in Semaphores \ {s} : queue'[r] = queue[r] /\ value'[r] = value[r]
  BY DEF SynchTypeOK, V
<1>4. \A r \in Semaphores : /\ Distinct(queue'[r])
                            /\ \A u \in Threads : InQueue(queue'[r], u) => InQueue(queue[r], u)
  BY <1>3, TailQueue DEF SInv, SleepersQueued
<1>5. SleepersQueued'
  BY <1>1, <1>4 DEF SInv, SleepersQueued
<1>6. \A u \in Threads : Asleep(u)' => Asleep(u)
  <2>1. \A u \in Threads : Asleep(u)' <=> \E r \in Semaphores : InQueue(queue'[r], u)
    BY DEF Asleep, InQueue
  <2> QED
    BY <1>4, <2>1, AsleepMeans
<1>7. ASSUME NEW r \in Semaphores, queue'[r] # << >>, value'[r] > 0
      PROVE  \E u \in Threads : WaitsOn(u)' = r /\ ~ Asleep(u)'
  <2>1. CASE r # s
    <3>1. PICK u \in Threads : WaitsOn(u) = r /\ ~ Asleep(u)
      BY <1>3, <1>7, <2>1 DEF SInv, NoSleeperForgotten
    <3>2. u # t
      BY <1>2, <3>1
    <3> QED
      BY <1>6, <3>1, <3>2
  <2>2. CASE r = s
    <3>1. queue[s] # << >> /\ queue'[s] = Tail(queue[s])
      BY <1>3, <1>7, <2>2
    <3>2. Distinct(queue[s])
      BY DEF SInv, SleepersQueued
    <3>3. PICK h \in Threads : InQueue(queue[s], h) /\ ~ InQueue(queue'[s], h)
      BY <1>3, <3>1, <3>2, TailQueue
    <3>4. WaitsOn(h) = s
      BY <3>3 DEF SInv, SleepersQueued
    <3>5. h # t
      BY <1>2, <3>4
    <3>6. \A q \in Semaphores : ~ InQueue(queue'[q], h)
      BY <1>3, <3>3, <3>4 DEF SInv, SleepersQueued
    <3>7. ~ Asleep(h)'
      BY <3>6 DEF Asleep, InQueue
    <3> QED
      BY <2>2, <3>3, <3>4, <3>5, <3>7
  <2> QED
    BY <2>1, <2>2
<1> QED
  BY <1>5, <1>7 DEF SInv, NoSleeperForgotten

\* A thread goes to sleep on the semaphore it waits on, which is down.
LEMMA SleepPreserves ==
    ASSUME SInv, SynchTypeOK, NEW t \in Threads, NEW s \in Semaphores, WaitsOn(t) = s,
           \A u \in Threads : WaitsOn(u)' = WaitsOn(u),
           PSleep(t, s)
    PROVE  SInv'
<1>1. /\ queue[s] \in Seq(Threads) /\ queue'[s] = Append(queue[s], t)
      /\ \A r \in Semaphores \ {s} : queue'[r] = queue[r]
      /\ value' = value /\ value[s] = 0
      /\ Distinct(queue[s])
  BY DEF SynchTypeOK, PSleep, SInv, SleepersQueued
<1>2. \A r \in Semaphores : ~ InQueue(queue[r], t)
  BY AsleepMeans DEF PSleep
<1>3. Distinct(queue'[s]) /\ \A u : InQueue(queue'[s], u) <=> InQueue(queue[s], u) \/ u = t
  BY <1>1, <1>2, AppendQueue
<1>4. SleepersQueued'
  BY <1>1, <1>3 DEF SInv, SleepersQueued
<1>5. \A u \in Threads : u # t => (Asleep(u)' <=> Asleep(u))
  <2>1. \A u \in Threads : Asleep(u)' <=> \E r \in Semaphores : InQueue(queue'[r], u)
    BY DEF Asleep, InQueue
  <2> QED
    BY <1>1, <1>3, <2>1, AsleepMeans
<1>6. ASSUME NEW r \in Semaphores, queue'[r] # << >>, value'[r] > 0
      PROVE  \E u \in Threads : WaitsOn(u)' = r /\ ~ Asleep(u)'
  <2>1. r # s /\ queue[r] # << >> /\ value[r] > 0
    BY <1>1, <1>6
  <2>2. PICK u \in Threads : WaitsOn(u) = r /\ ~ Asleep(u)
    BY <2>1 DEF SInv, NoSleeperForgotten
  <2> QED
    BY <1>5, <2>1, <2>2
<1> QED
  BY <1>4, <1>6 DEF SInv, NoSleeperForgotten

\* A thread takes the value of the semaphore it waits on, which is down then.
LEMMA PassPreserves ==
    ASSUME SInv, SynchTypeOK, NEW t \in Threads, NEW s \in Semaphores, WaitsOn(t) = s,
           \A u \in Threads \ {t} : WaitsOn(u)' = WaitsOn(u),
           PPass(t, s)
    PROVE  SInv'
<1>1. /\ queue' = queue /\ value'[s] = 0
      /\ \A r \in Semaphores \ {s} : value'[r] = value[r]
  BY PassTakes DEF SynchTypeOK
<1>2. \A r \in Semaphores : ~ InQueue(queue[r], t)
  BY AsleepMeans DEF PPass
<1>3. SleepersQueued'
  BY <1>1, <1>2 DEF SInv, SleepersQueued
<1>4. \A u : Asleep(u)' <=> Asleep(u)
  BY <1>1 DEF Asleep
<1>5. ASSUME NEW r \in Semaphores, queue'[r] # << >>, value'[r] > 0
      PROVE  \E u \in Threads : WaitsOn(u)' = r /\ ~ Asleep(u)'
  <2>1. r # s /\ queue[r] # << >> /\ value[r] > 0
    BY <1>1, <1>5
  <2>2. PICK u \in Threads : WaitsOn(u) = r /\ ~ Asleep(u)
    BY <2>1 DEF SInv, NoSleeperForgotten
  <2> QED
    BY <1>4, <2>1, <2>2
<1> QED
  BY <1>3, <1>5 DEF SInv, NoSleeperForgotten

\* Initially nobody sleeps.
LEMMA InitSInv == Init => SInv
<1> SUFFICES ASSUME Init PROVE SInv
  OBVIOUS
<1>1. \A s \in Semaphores : queue[s] = << >>
  BY DEF Init, SynchInit
<1>2. \A t : ~ InQueue(<< >>, t)
  BY DEF InQueue
<1>3. Distinct(<< >>)
  BY DEF Distinct
<1> QED
  BY <1>1, <1>2, <1>3 DEF SInv, SleepersQueued, NoSleeperForgotten

\* Every action keeps every sleeper served.
LEMMA NextSInv == IInv /\ SInv /\ [Next]_vars => SInv'
<1> SUFFICES ASSUME IInv, SInv, [Next]_vars PROVE SInv'
  OBVIOUS
<1> USE SynchAssumption, ListAssumption
<1>1. /\ SynchTypeOK
      /\ pc \in [Threads -> {"idle", "acquire", "locked", "body", "signal", "wait", "release"}]
  BY DEF IInv, TypeOK
<1>2. ASSUME NEW t \in Threads, NEW label, pc' = [pc EXCEPT ![t] = label]
      PROVE  \A u \in Threads \ {t} : WaitsOn(u)' = WaitsOn(u)
  BY <1>1, <1>2 DEF WaitsOn
<1>3. ASSUME NEW t \in Threads, pc[t] \notin {"acquire", "wait"}
      PROVE  WaitsOn(t) = None
  BY <1>3 DEF WaitsOn
<1>4. ASSUME NEW t \in Threads,
             \/ CallAppend(t) \/ CallRemoveFront(t) \/ Hold(t) \/ Put(t) \/ Take(t)
             \/ Signal(t) /\ waitQueue = << >>
      PROVE  SInv'
  <2>1. /\ pc[t] \notin {"acquire", "wait"} /\ UNCHANGED <<value, queue>>
        /\ \E label : pc' = [pc EXCEPT ![t] = label]
    BY <1>4 DEF CallAppend, CallRemoveFront, Hold, Put, Take, Signal, Goto, semaphores
  <2> QED
    BY <1>2, <1>3, <2>1, MovePreserves
<1>5. ASSUME NEW t \in Threads, Wait(t) \/ Release(t) PROVE SInv'
  <2>1. /\ pc[t] \notin {"acquire", "wait"} /\ V(LockSem)
        /\ \E label : pc' = [pc EXCEPT ![t] = label]
    BY <1>5 DEF Wait, Release, LockRelease, Goto
  <2> QED
    BY <1>1, <1>2, <1>3, <2>1, RaisePreserves
<1>6. ASSUME NEW t \in Appenders, Signal(t), waitQueue # << >> PROVE SInv'
  <2>1. /\ pc[t] \notin {"acquire", "wait"} /\ V(Head(waitQueue))
        /\ \E label : pc' = [pc EXCEPT ![t] = label]
    BY <1>6 DEF Signal, Goto
  <2>2. Head(waitQueue) \in Semaphores
    BY <1>6 DEF IInv, TypeOK
  <2> QED
    BY <1>1, <1>2, <1>3, <2>1, <2>2, RaisePreserves
<1>7. ASSUME NEW t \in Threads, Acquire(t) PROVE SInv'
  <2>1. WaitsOn(t) = LockSem
    BY <1>7 DEF Acquire, WaitsOn
  <2>2. CASE PSleep(t, LockSem) /\ UNCHANGED pc
    <3>1. \A u \in Threads : WaitsOn(u)' = WaitsOn(u)
      BY <2>2 DEF WaitsOn
    <3> QED
      BY <1>1, <2>1, <2>2, <3>1, SleepPreserves
  <2>3. CASE PPass(t, LockSem) /\ Goto(t, "locked")
    BY <1>1, <1>2, <2>1, <2>3, PassPreserves DEF Goto
  <2> QED
    BY <1>7, <2>2, <2>3 DEF Acquire
<1>8. ASSUME NEW t \in Removers, Waiter(t) PROVE SInv'
  <2>1. WaitsOn(t) = t /\ t \in Semaphores
    BY <1>8 DEF Waiter, WaitsOn
  <2>2. CASE PSleep(t, t) /\ UNCHANGED pc
    <3>1. \A u \in Threads : WaitsOn(u)' = WaitsOn(u)
      BY <2>2 DEF WaitsOn
    <3> QED
      BY <1>1, <2>1, <2>2, <3>1, SleepPreserves
  <2>3. CASE PPass(t, t) /\ Goto(t, "acquire")
    BY <1>1, <1>2, <2>1, <2>3, PassPreserves DEF Goto
  <2> QED
    BY <1>8, <2>2, <2>3 DEF Waiter
<1>9. CASE UNCHANGED vars
  BY <1>9 DEF vars, semaphores, SInv, SleepersQueued, NoSleeperForgotten, WaitsOn, Asleep
<1> QED
  BY <1>4, <1>5, <1>6, <1>7, <1>8, <1>9 DEF Next, AppendStep, RemoveFrontStep

\* While a thread sleeps on a semaphore that is up, another one that is awake
\* is on its way to take it: P puts a woken thread back into competition with
\* every caller, and still no value is left over with only sleepers to use it.
THEOREM NobodyForgotten == Spec => []NoSleeperForgotten
<1>1. Spec => [](IInv /\ SInv)
  <2>1. Spec => []IInv
    BY InvariantHolds, PTL
  <2> QED
    BY <2>1, InitSInv, NextSInv, PTL DEF Spec
<1>2. SInv => NoSleeperForgotten
  BY DEF SInv
<1> QED
  BY <1>1, <1>2, PTL

-----------------------------------------------------------------------------
(* No signal is missed.                                                    *)

Signallers == {t \in Appenders : pc[t] = "signal"}
Served == {t \in Removers : Notified(t)}

\* The threads counted by NoMissedSignal are finitely many.
LEMMA CountsFinite ==
    /\ IsFiniteSet(Signallers) /\ Cardinality(Signallers) \in Nat
    /\ IsFiniteSet(Served) /\ Cardinality(Served) \in Nat
<1>1. IsFiniteSet(Appenders) /\ IsFiniteSet(Removers)
  BY ListAssumption, FS_Subset
<1>2. IsFiniteSet(Signallers) /\ IsFiniteSet(Served)
  BY <1>1, FS_Subset DEF Signallers, Served
<1> QED
  BY <1>2, FS_CardinalityType

\* Every action keeps each item accounted for.
LEMMA NextNoMissedSignal == IInv /\ NoMissedSignal /\ [Next]_vars => NoMissedSignal'
<1> SUFFICES ASSUME IInv, NoMissedSignal, [Next]_vars PROVE NoMissedSignal'
  OBVIOUS
<1> USE SynchAssumption, ListAssumption
<1>1. /\ waitQueue # << >> => Len(list) <= Cardinality(Signallers) + Cardinality(Served)
      /\ IsFiniteSet(Signallers) /\ Cardinality(Signallers) \in Nat
      /\ IsFiniteSet(Served) /\ Cardinality(Served) \in Nat
      /\ IsFiniteSet(Signallers') /\ Cardinality(Signallers') \in Nat
      /\ IsFiniteSet(Served') /\ Cardinality(Served') \in Nat
  <2>1. IsFiniteSet(Appenders) /\ IsFiniteSet(Removers)
    BY FS_Subset
  <2>2. IsFiniteSet(Signallers') /\ IsFiniteSet(Served')
    BY <2>1, FS_Subset DEF Signallers, Served
  <2>3. Cardinality(Signallers') \in Nat /\ Cardinality(Served') \in Nat
    BY <2>2, FS_CardinalityType
  <2> QED
    BY <2>2, <2>3, CountsFinite DEF NoMissedSignal, Signallers, Served
<1>2. SUFFICES waitQueue' # << >> => Len(list') <= Cardinality(Signallers') + Cardinality(Served')
  BY DEF NoMissedSignal, Signallers, Served
<1>3. /\ list \in Seq(Items) /\ Len(list) \in Nat /\ waitQueue \in Seq(Removers)
      /\ pc \in [Threads -> {"idle", "acquire", "locked", "body", "signal", "wait", "release"}]
      /\ \A t \in Appenders : pc[t] # "wait"
      /\ \A t \in Removers : pc[t] # "signal"
  BY DEF IInv, TypeOK, InMethod
\* An action that neither appends, signals nor removes loses nobody.
<1>4. ASSUME list' = list, waitQueue' # << >> => waitQueue # << >>,
             Signallers \subseteq Signallers', Served \subseteq Served'
      PROVE  waitQueue' # << >> => Len(list') <= Cardinality(Signallers') + Cardinality(Served')
  <2>1. /\ Cardinality(Signallers) <= Cardinality(Signallers')
        /\ Cardinality(Served) <= Cardinality(Served')
    BY <1>1, <1>4, FS_Subset
  <2> QED
    BY <1>1, <1>3, <1>4, <2>1
<1>5. ASSUME NEW t \in Threads,
             \/ t \in Appenders /\ (CallAppend(t) \/ Release(t))
             \/ t \in Removers /\ (CallRemoveFront(t) \/ Release(t) \/ Waiter(t))
             \/ Acquire(t) \/ Hold(t)
      PROVE  waitQueue' # << >> => Len(list') <= Cardinality(Signallers') + Cardinality(Served')
  <2>1. /\ list' = list /\ waitQueue' = waitQueue
        /\ \A u \in Threads \ {t} : pc'[u] = pc[u]
        /\ (pc[t] # "signal" /\ pc'[t] \notin {"signal", "wait"}) \/ pc'[t] = pc[t]
        /\ pc[t] \in {"acquire", "locked", "body"} => pc'[t] \in {"acquire", "locked", "body"}
        /\ pc[t] = "wait" => pc'[t] \in {"wait", "acquire"}
    BY <1>3, <1>5
    DEF CallAppend, CallRemoveFront, Release, Waiter, Acquire, Hold, Goto
  <2>2. Signallers \subseteq Signallers'
    BY <2>1 DEF Signallers
  <2>3. Served \subseteq Served'
    BY <2>1 DEF Served, Notified
  <2> QED
    BY <1>4, <2>1, <2>2, <2>3
<1>6. ASSUME NEW t \in Appenders, Put(t)
      PROVE  waitQueue' # << >> => Len(list') <= Cardinality(Signallers') + Cardinality(Served')
  <2>1. /\ pc[t] = "body" /\ pc' = [pc EXCEPT ![t] = "signal"]
        /\ list' = Append(list, local[t]) /\ waitQueue' = waitQueue
    BY <1>6 DEF Put, Goto
  <2>2. Len(list') = Len(list) + 1
    BY <1>3, <2>1
  <2>3. Signallers' = Signallers \cup {t} /\ t \notin Signallers
    BY <1>3, <2>1 DEF Signallers
  <2>4. Cardinality(Signallers') = Cardinality(Signallers) + 1
    BY <1>1, <2>3, FS_AddElement
  <2>5. Served' = Served
    BY <1>3, <2>1 DEF Served, Notified
  <2> QED
    BY <1>1, <1>3, <2>1, <2>2, <2>4, <2>5
<1>7. ASSUME NEW t \in Appenders, Signal(t)
      PROVE  waitQueue' # << >> => Len(list') <= Cardinality(Signallers') + Cardinality(Served')
  <2>1. pc[t] = "signal" /\ pc' = [pc EXCEPT ![t] = "release"] /\ list' = list
    BY <1>7 DEF Signal, Goto
  <2>2. CASE waitQueue = << >>
    BY <1>7, <2>2 DEF Signal
  <2>3. CASE waitQueue # << >>
    <3>1. PICK w \in Removers : w = Head(waitQueue)
      BY <1>3, <2>3
    <3>2. /\ waitQueue' = Tail(waitQueue) /\ w = waitQueue[1]
          /\ Len(waitQueue) \in Nat /\ Len(waitQueue) > 0
          /\ Len(Tail(waitQueue)) = Len(waitQueue) - 1
          /\ \A i \in 1 .. Len(waitQueue) - 1 : Tail(waitQueue)[i] = waitQueue[i + 1]
      BY <1>3, <1>7, <2>3, <3>1 DEF Signal
    <3>3. pc[w] = "wait" /\ w # t /\ w \notin Served
      BY <2>1, <3>2 DEF IInv, WaitersUnsignalled, Served, Notified
    <3>4. \A i \in 1 .. Len(waitQueue') : waitQueue'[i] # w
      BY <3>2 DEF IInv, WaitersUnsignalled
    <3>5. \A u \in Removers : Notified(u) \/ u = w => Notified(u)'
      <4>1. \A u \in Removers : pc'[u] = pc[u]
        BY <1>3, <2>1
      <4>2. \A i \in 1 .. Len(waitQueue') :
              /\ i + 1 \in 1 .. Len(waitQueue) /\ waitQueue'[i] = waitQueue[i + 1]
        BY <3>2
      <4> QED
        BY <3>3, <3>4, <4>1, <4>2 DEF Notified
    <3>6. Served \cup {w} \subseteq Served'
      BY <3>5 DEF Served
    <3>7. Cardinality(Served) + 1 <= Cardinality(Served')
      <4>1. IsFiniteSet(Served \cup {w}) /\ Cardinality(Served \cup {w}) = Cardinality(Served) + 1
        BY <1>1, <3>3, FS_AddElement
      <4> QED
        BY <1>1, <3>6, <4>1, FS_Subset
    <3>8. Signallers' = Signallers \ {t} /\ t \in Signallers
      BY <1>3, <2>1 DEF Signallers
    <3>9. Cardinality(Signallers') = Cardinality(Signallers) - 1
      BY <1>1, <3>8, FS_RemoveElement
    <3> QED
      BY <1>1, <1>3, <2>1, <2>3, <3>7, <3>9
  <2> QED
    BY <2>2, <2>3
<1>8. ASSUME NEW t \in Removers, Wait(t)
      PROVE  waitQueue' # << >> => Len(list') <= Cardinality(Signallers') + Cardinality(Served')
  <2>1. Len(list') = 0
    BY <1>8 DEF Wait
  <2> QED
    BY <1>1, <2>1
<1>9. ASSUME NEW t \in Removers, Take(t)
      PROVE  waitQueue' # << >> => Len(list') <= Cardinality(Signallers') + Cardinality(Served')
  <2>1. /\ pc[t] = "body" /\ pc' = [pc EXCEPT ![t] = "release"]
        /\ list # << >> /\ list' = Tail(list) /\ waitQueue' = waitQueue
    BY <1>9 DEF Take, Goto
  <2>2. Len(list') = Len(list) - 1
    BY <1>3, <2>1
  <2>3. Signallers' = Signallers
    BY <1>3, <2>1 DEF Signallers
  <2>4. Served' = Served \ {t} /\ t \in Served
    BY <1>3, <2>1 DEF Served, Notified
  <2>5. Cardinality(Served') = Cardinality(Served) - 1
    BY <1>1, <2>4, FS_RemoveElement
  <2> QED
    BY <1>1, <1>3, <2>1, <2>2, <2>3, <2>5
<1>10. CASE UNCHANGED vars
  BY <1>1, <1>10 DEF vars, Signallers, Served, Notified
<1> QED
  BY <1>5, <1>6, <1>7, <1>8, <1>9, <1>10 DEF Next, AppendStep, RemoveFrontStep

\* A waiter does not miss the signal although the lock is released before its
\* P: while somebody waits for the condition, each item of the list has an
\* appender about to signal for it or a remover on its way to it.
THEOREM NoSignalMissed == Spec => []NoMissedSignal
<1>1. Spec => []IInv
  BY InvariantHolds, PTL
<1>2. Init => NoMissedSignal
  BY DEF Init, NoMissedSignal
<1> QED
  BY <1>1, <1>2, NextNoMissedSignal, PTL DEF Spec

-----------------------------------------------------------------------------
\* The list and the items in the appenders' hands fit in the number of items:
\* the FIFO the monitor implements is never full when one is appended.
LEMMA ListHasRoom ==
    ASSUME IInv, ItemsHeldOnce, NEW t \in Appenders, Carries(t)
    PROVE  Len(list) < Cardinality(Items)
<1> DEFINE S == 1 .. Len(list)
           T == Items \ {local[t]}
           f == [i \in S |-> list[i]]
<1>1. list \in Seq(Items) /\ Len(list) \in Nat
  BY DEF IInv, TypeOK
<1>2. IsFiniteSet(S) /\ Cardinality(S) = Len(list)
  BY <1>1, FS_Interval
<1>3. local[t] \in Items /\ \A i \in S : list[i] # local[t]
  BY DEF ItemsHeldOnce
<1>4. /\ IsFiniteSet(T) /\ Cardinality(T) = Cardinality(Items) - 1
      /\ Cardinality(Items) \in Nat
  BY <1>3, FS_RemoveElement, FS_CardinalityType, ListAssumption
<1>5. f \in [S -> T]
  BY <1>1, <1>3
<1>6. ~ \E i, j \in S : i # j /\ f[i] = f[j]
  BY DEF ItemsHeldOnce
<1>7. ~ (Cardinality(T) < Cardinality(S))
  <2> HIDE DEF S, T, f
  <2> QED
    BY <1>2, <1>4, <1>5, <1>6, FS_PigeonHole
<1> QED
  BY <1>1, <1>2, <1>4, <1>7

\* The constructed list is an empty FIFO with every item still to be stored.
LEMMA InitRefines == Init => FIFO!Init
<1> SUFFICES ASSUME Init PROVE FIFO!Init
  OBVIOUS
<1>1. Unstored = Items
  BY ListAssumption DEF Init, Unstored
<1>2. [t \in Removers |-> local[t]] = [t \in Removers \cup {} |-> None]
  BY ListAssumption DEF Init
<1> QED
  BY <1>1, <1>2 DEF Init, FIFO!Init

\* A step is an append, a removal, or invisible to the callers.
LEMMA NextRefines == IInv /\ ItemsHeldOnce /\ [Next]_vars => [FIFO!Next]_FIFO!qvars
<1> SUFFICES ASSUME IInv, ItemsHeldOnce, [Next]_vars PROVE [FIFO!Next]_FIFO!qvars
  OBVIOUS
<1> DEFINE result == [t \in Removers |-> local[t]]
<1> USE SynchAssumption, ListAssumption
<1>0. /\ list \in Seq(Items)
      /\ pc \in [Threads -> {"idle", "acquire", "locked", "body", "signal", "wait", "release"}]
      /\ local \in [Threads -> Items \cup {None}]
      /\ pending \subseteq Items
  BY DEF IInv, TypeOK
<1>1. ASSUME NEW t \in Appenders, CallAppend(t) PROVE UNCHANGED FIFO!qvars
  <2>1. PICK item \in pending : /\ local' = [local EXCEPT ![t] = item]
                                /\ pending' = pending \ {item}
    BY <1>1 DEF CallAppend
  <2>2. pc[t] = "idle" /\ pc' = [pc EXCEPT ![t] = "acquire"] /\ list' = list
    BY <1>1 DEF CallAppend, Goto
  <2>3. Unstored' = Unstored
    BY <1>0, <2>1, <2>2 DEF Unstored
  <2>4. result' = result
    BY <1>0, <2>1
  <2> QED
    BY <2>2, <2>3, <2>4 DEF FIFO!qvars
<1>2. ASSUME NEW t \in Threads,
             \/ Acquire(t) \/ Hold(t) \/ Signal(t) \/ Release(t)
             \/ t \in Removers /\ (CallRemoveFront(t) \/ Wait(t) \/ Waiter(t))
      PROVE  UNCHANGED FIFO!qvars
  <2>1. /\ list' = list /\ local' = local /\ pending' = pending
        /\ \A u \in Appenders : pc'[u] \in {"acquire", "locked", "body"}
                                <=> pc[u] \in {"acquire", "locked", "body"}
    BY <1>0, <1>2
    DEF CallRemoveFront, Acquire, Hold, Signal, Wait, Waiter, Release, Goto
  <2>2. Unstored' = Unstored
    BY <2>1 DEF Unstored
  <2> QED
    BY <2>1, <2>2 DEF FIFO!qvars
<1>3. ASSUME NEW t \in Appenders, Put(t) PROVE FIFO!Next
  <2>1. /\ pc[t] = "body" /\ pc' = [pc EXCEPT ![t] = "signal"]
        /\ list' = Append(list, local[t])
        /\ UNCHANGED <<local, pending>>
    BY <1>3 DEF Put, Goto
  <2>2. Carries(t) /\ local[t] \in Items \ pending
    BY <2>1 DEF ItemsHeldOnce, Carries
  <2>3. local[t] \in Unstored
    BY <2>1 DEF Unstored
  <2>4. \A u \in Appenders : u # t /\ Carries(u) => local[u] # local[t]
    BY <2>2 DEF ItemsHeldOnce
  <2>5. Unstored' = Unstored \ {local[t]}
    BY <1>0, <2>1, <2>2, <2>4 DEF Unstored, Carries
  <2>6. Len(list) < Cardinality(Items)
    BY <2>2, ListHasRoom
  <2>7. FIFO!Enqueue(local[t])
    BY <2>1, <2>3, <2>5, <2>6 DEF FIFO!Enqueue
  <2> QED
    BY <2>2, <2>7 DEF FIFO!Next
<1>4. ASSUME NEW t \in Removers, Take(t) PROVE FIFO!Next
  <2>1. /\ pc[t] = "body" /\ pc' = [pc EXCEPT ![t] = "release"]
        /\ list # << >> /\ list' = Tail(list) /\ local' = [local EXCEPT ![t] = Head(list)]
        /\ pending' = pending
    BY <1>4 DEF Take, Goto
  <2>2. Unstored' = Unstored
    BY <1>0, <2>1 DEF Unstored
  <2>3. result' = [result EXCEPT ![t] = Head(list)]
    BY <1>0, <2>1
  <2>4. FIFO!Dequeue(t)
    BY <2>1, <2>2, <2>3 DEF FIFO!Dequeue
  <2> QED
    BY <2>4 DEF FIFO!Next
<1>5. CASE UNCHANGED vars
  <2>1. list' = list /\ local' = local /\ pending' = pending /\ pc' = pc
    BY <1>5 DEF vars
  <2>2. Unstored' = Unstored
    BY <2>1 DEF Unstored
  <2> QED
    BY <2>1, <2>2 DEF FIFO!qvars
<1> QED
  BY <1>1, <1>2, <1>3, <1>4, <1>5 DEF Next, AppendStep, RemoveFrontStep

\* Lock, Condition and the loop in RemoveFront make of the list one FIFO with
\* atomic operations: no item is lost, doubled or overtaken.
THEOREM ListImplementsFIFO == Spec => ImplementsFIFO
  BY InvariantHolds, InitRefines, NextRefines, PTL DEF ImplementsFIFO, FIFO!Spec, Spec
=============================================================================
