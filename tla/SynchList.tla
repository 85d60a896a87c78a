----------------------------- MODULE SynchList ------------------------------
(***************************************************************************)
(* The monitor of NachOS: SynchList (threads/synchlist.cc) with its Lock   *)
(* and its Condition (threads/synch.cc), used by threads that append items *)
(* and threads that remove them.                                           *)
(*                                                                         *)
(* A Condition gives each waiting thread a semaphore of its own; a thread  *)
(* waits once at a time, so that semaphore is named after the thread.      *)
(*                                                                         *)
(* pc[t] is the next statement of thread t:                                *)
(*   idle     outside the list                                             *)
(*   acquire  at semaphore->P() of Lock::Acquire                           *)
(*   locked   at lockHolder = currentThread                                *)
(*   body     at list->Append, or at the test of the loop in RemoveFront   *)
(*   signal   at Condition::Signal                                         *)
(*   wait     at waiter->P() of Condition::Wait                            *)
(*   release  at Lock::Release                                             *)
(***************************************************************************)
EXTENDS Synch

CONSTANTS
    Appenders, Removers,
    Items         \* each appended once

ASSUME ListAssumption ==
    /\ Threads = Appenders \cup Removers
    /\ Appenders \cap Removers = {}
    /\ Semaphores = Removers \cup {LockSem}
    /\ LockSem \notin Threads \cup {None}
    /\ IsFiniteSet(Threads)
    /\ IsFiniteSet(Items) /\ None \notin Items

VARIABLES
    waitQueue,   \* Condition::waitQueue, of the threads' semaphores
    list, pc,
    local,       \* Append's argument, RemoveFront's item
    pending      \* items not yet passed to Append

vars == <<semaphores, lockHolder, waitQueue, list, pc, local, pending>>

Init == /\ SynchInit
        /\ waitQueue = << >> /\ list = << >>
        /\ pc = [t \in Threads |-> "idle"]
        /\ local = [t \in Threads |-> None]
        /\ pending = Items

Goto(t, label) == pc' = [pc EXCEPT ![t] = label]

CallAppend(t) == /\ pc[t] = "idle"
                 /\ \E item \in pending : /\ local' = [local EXCEPT ![t] = item]
                                          /\ pending' = pending \ {item}
                 /\ Goto(t, "acquire")
                 /\ UNCHANGED <<semaphores, lockHolder, waitQueue, list>>

CallRemoveFront(t) == /\ pc[t] = "idle"
                      /\ Goto(t, "acquire")
                      /\ UNCHANGED <<semaphores, lockHolder, waitQueue, list, local, pending>>

Acquire(t) == /\ pc[t] = "acquire"
              /\ \/ PSleep(t, LockSem) /\ UNCHANGED pc
                 \/ PPass(t, LockSem) /\ Goto(t, "locked")
              /\ UNCHANGED <<lockHolder, waitQueue, list, local, pending>>

Hold(t) == /\ pc[t] = "locked"
           /\ lockHolder' = t
           /\ Goto(t, "body")
           /\ UNCHANGED <<semaphores, waitQueue, list, local, pending>>

Put(t) == /\ pc[t] = "body"
          /\ list' = Append(list, local[t])
          /\ Goto(t, "signal")
          /\ UNCHANGED <<semaphores, lockHolder, waitQueue, local, pending>>

\* Mutant: a waiter is woken only by the append to an empty list.
SignalFirstOnly(t) ==
    /\ pc[t] = "signal"
    /\ IF waitQueue = << >> \/ Len(list) # 1
         THEN UNCHANGED <<semaphores, waitQueue>>
         ELSE waitQueue' = Tail(waitQueue) /\ V(Head(waitQueue))
    /\ Goto(t, "release")
    /\ UNCHANGED <<lockHolder, list, local, pending>>

\* Condition::Signal
Signal(t) == /\ pc[t] = "signal"
             /\ IF waitQueue = << >>
                  THEN UNCHANGED <<semaphores, waitQueue>>
                  ELSE waitQueue' = Tail(waitQueue) /\ V(Head(waitQueue))
             /\ Goto(t, "release")
             /\ UNCHANGED <<lockHolder, list, local, pending>>

\* Condition::Wait up to the end of the V in Release: the thread's semaphore is
\* in the queue before the lock is free.
Wait(t) == /\ pc[t] = "body"
           /\ list = << >>
           /\ waitQueue' = Append(waitQueue, t)
           /\ LockRelease
           /\ Goto(t, "wait")
           /\ UNCHANGED <<list, local, pending>>

\* waiter->P(), after which Wait acquires the lock again.
Waiter(t) == /\ pc[t] = "wait"
             /\ \/ PSleep(t, t) /\ UNCHANGED pc
                \/ PPass(t, t) /\ Goto(t, "acquire")
             /\ UNCHANGED <<lockHolder, waitQueue, list, local, pending>>

\* Mutant: the last element is removed.
TakeLast(t) == /\ pc[t] = "body"
               /\ list # << >>
               /\ local' = [local EXCEPT ![t] = list[Len(list)]]
               /\ list' = SubSeq(list, 1, Len(list) - 1)
               /\ Goto(t, "release")
               /\ UNCHANGED <<semaphores, lockHolder, waitQueue, pending>>
Take(t) == /\ pc[t] = "body"
           /\ list # << >>
           /\ local' = [local EXCEPT ![t] = Head(list)]
           /\ list' = Tail(list)
           /\ Goto(t, "release")
           /\ UNCHANGED <<semaphores, lockHolder, waitQueue, pending>>

Release(t) == /\ pc[t] = "release"
              /\ LockRelease
              /\ Goto(t, "idle")
              /\ UNCHANGED <<waitQueue, list, local, pending>>

AppendStep(t) == CallAppend(t) \/ Acquire(t) \/ Hold(t) \/ Put(t) \/ Signal(t) \/ Release(t)
RemoveFrontStep(t) ==
    CallRemoveFront(t) \/ Acquire(t) \/ Hold(t) \/ Wait(t) \/ Waiter(t) \/ Take(t) \/ Release(t)

Next == \/ \E t \in Appenders : AppendStep(t)
        \/ \E t \in Removers : RemoveFrontStep(t)

\* The scheduler runs every ready thread (aging, in Scheduler.tla).
Fairness == /\ \A t \in Appenders : WF_vars(AppendStep(t))
            /\ \A t \in Removers : WF_vars(RemoveFrontStep(t))

Spec == Init /\ [][Next]_vars
FairSpec == Spec /\ Fairness
-----------------------------------------------------------------------------
\* The type invariant; no semaphore of this monitor ever exceeds 1.
TypeOK == /\ SynchTypeOK
          /\ waitQueue \in Seq(Removers)
          /\ list \in Seq(Items)
          /\ pc \in [Threads -> {"idle", "acquire", "locked", "body", "signal", "wait", "release"}]
          /\ local \in [Threads -> Items \cup {None}]
          /\ pending \subseteq Items

\* The lock admits one thread although a woken thread competes for it, and
\* lockHolder names that thread wherever the code asserts
\* IsHeldByCurrentThread (synch.cc 190, 235, 263).
Inside(t) == pc[t] \in {"locked", "body", "signal", "release"}
MonitorHeld ==
    /\ value[LockSem] = IF \E t \in Threads : Inside(t) THEN 0 ELSE 1
    /\ \A t, u \in Threads : Inside(t) /\ Inside(u) => t = u
    /\ \A t \in Threads : pc[t] \in {"body", "signal", "release"} <=> lockHolder = t

\* No sleeper is forgotten: while a thread sleeps on a semaphore whose value is
\* not 0, another one that is awake is on its way to take that value.
WaitsOn(t) == CASE pc[t] = "acquire" -> LockSem
                [] pc[t] = "wait" -> t
                [] OTHER -> None
NoSleeperForgotten ==
    \A s \in Semaphores : queue[s] # << >> /\ value[s] > 0 =>
        \E t \in Threads : WaitsOn(t) = s /\ ~ Asleep(t)

\* "There is no chance the waiter will miss the signal, even though the lock is
\* released before calling P()" (synch.cc 222): while a thread waits for the
\* condition, each item in the list has an appender about to signal for it or a
\* remover on its way to it.
Notified(t) == \/ pc[t] \in {"acquire", "locked", "body"}
               \/ pc[t] = "wait" /\ \A i \in 1 .. Len(waitQueue) : waitQueue[i] # t
NoMissedSignal ==
    waitQueue # << >> =>
        Len(list) <= Cardinality({t \in Appenders : pc[t] = "signal"})
                     + Cardinality({t \in Removers : Notified(t)})

\* Every item appended is removed by some thread.
EverythingDelivered ==
    <>[](pending = {} /\ list = << >> /\ \A t \in Appenders : pc[t] = "idle")

\* The monitor implements a FIFO that never fills.
Unstored == pending \cup {local[t] : t \in {a \in Appenders : pc[a] \in {"acquire", "locked", "body"}}}
FIFO == INSTANCE BoundedQueue WITH
            queue <- list,
            pending <- Unstored,
            result <- [t \in Removers |-> local[t]],
            Dequeuers <- Removers,
            Sizers <- {},
            Capacity <- Cardinality(Items)
ImplementsFIFO == FIFO!Spec
=============================================================================
