------------------------------- MODULE Synch --------------------------------
(***************************************************************************)
(* Semaphore and Lock of NachOS (threads/synch.cc), as operators on the    *)
(* state the modules that use them share: every semaphore's value and its  *)
(* queue of sleeping threads, and the holder of the one lock.              *)
(*                                                                         *)
(* P and V run with interrupts off; a thread can be interrupted only when  *)
(* they turn interrupts on again, so a step is a stretch of code up to the *)
(* end of a P or V or finer.  P tests the value in a loop: a woken thread  *)
(* competes with every other caller and may have to sleep again, at the    *)
(* tail of the queue.                                                      *)
(***************************************************************************)
EXTENDS Integers, Sequences, FiniteSets

CONSTANTS
    Threads,
    Semaphores,  \* all semaphores, the lock's among them
    LockSem,     \* the semaphore of the lock
    None         \* no thread / no item

ASSUME SynchAssumption == LockSem \in Semaphores /\ None \notin Threads

VARIABLES value, queue, lockHolder

semaphores == <<value, queue>>

SynchInit == /\ value = [s \in Semaphores |-> IF s = LockSem THEN 1 ELSE 0]
             /\ queue = [s \in Semaphores |-> << >>]
             /\ lockHolder = None

Asleep(t) == \E s \in Semaphores : \E i \in 1 .. Len(queue[s]) : queue[s][i] = t

\* One turn of the loop in P: the thread sleeps, or takes the value and leaves.
PSleep(t, s) == /\ ~ Asleep(t)
                /\ value[s] = 0
                /\ queue' = [queue EXCEPT ![s] = Append(@, t)]
                /\ UNCHANGED value

\* Mutant: the test of the value is dropped.
PPassUntested(t, s) == /\ ~ Asleep(t)
                       /\ value' = [value EXCEPT ![s] = IF @ > 0 THEN @ - 1 ELSE 0]
                       /\ UNCHANGED queue
\* Mutant: the value is not consumed.
PPassKeeping(t, s) == /\ ~ Asleep(t)
                      /\ value[s] > 0
                      /\ UNCHANGED semaphores
PPass(t, s) == /\ ~ Asleep(t)
               /\ value[s] > 0
               /\ value' = [value EXCEPT ![s] = @ - 1]
               /\ UNCHANGED queue

\* Mutant: nobody is woken.
VSilent(s) == /\ value' = [value EXCEPT ![s] = @ + 1]
              /\ UNCHANGED queue
\* Mutant: a woken thread is meant to own the value already, but P tests again.
VHandsOver(s) == IF queue[s] = << >>
                   THEN value' = [value EXCEPT ![s] = @ + 1] /\ UNCHANGED queue
                   ELSE queue' = [queue EXCEPT ![s] = Tail(@)] /\ UNCHANGED value
V(s) == /\ queue' = [queue EXCEPT ![s] = IF @ = << >> THEN @ ELSE Tail(@)]
        /\ value' = [value EXCEPT ![s] = @ + 1]

\* Lock::Release after its assertion that the caller holds the lock.
LockRelease == /\ lockHolder' = None
               /\ V(LockSem)
-----------------------------------------------------------------------------
SynchTypeOK == /\ value \in [Semaphores -> 0 .. 1]
               /\ queue \in [Semaphores -> Seq(Threads)]
               /\ lockHolder \in Threads \cup {None}
=============================================================================
