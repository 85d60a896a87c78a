------------------------------ MODULE TSQueue -------------------------------
(***************************************************************************)
(* src/NTHU-OS-Pthreads/ts_queue.hpp: a ring buffer guarded by one mutex   *)
(* and two condition variables.  Every thread runs its operation as the    *)
(* code does: lock, test in a while loop around pthread_cond_wait, change  *)
(* the ring, unlock, and only then signal the other side.                  *)
(*                                                                         *)
(* pc[t] names the next statement of thread t:                             *)
(*   idle    outside the queue                                             *)
(*   lock    at pthread_mutex_lock, or woken and reacquiring the mutex     *)
(*   test    at the condition of the while loop (mutex held)               *)
(*   body    at the statements after the loop (mutex held)                 *)
(*   wait    blocked in pthread_cond_wait (mutex released)                 *)
(*   unlock  at pthread_mutex_unlock (mutex held)                          *)
(*   signal  at pthread_cond_signal (mutex released)                       *)
(*                                                                         *)
(* In the program a thread uses one queue in one role: the reader and the  *)
(* producers enqueue, producers, consumers and the writer dequeue, and the *)
(* controller reads the size.                                              *)
(***************************************************************************)
EXTENDS Integers, Sequences, FiniteSets

CONSTANTS
    Enqueuers,   \* threads that call enqueue
    Dequeuers,   \* threads that call dequeue
    Sizers,      \* threads that call get_size
    Items,       \* the items (pointers), each enqueued once
    BufferSize,  \* buffer_size
    MaxPolls,    \* bound: get_size calls of one sizer
    MaxSpurious, \* bound: returns of pthread_cond_wait without a signal
    None         \* no item / no thread

Threads == Enqueuers \cup Dequeuers \cup Sizers

ASSUME BufferSizeAssumption == BufferSize \in Nat \ {0}
ASSUME BoundsAssumption == MaxPolls \in Nat /\ MaxSpurious \in Nat
ASSUME RolesAssumption == /\ Enqueuers \cap Dequeuers = {}
                          /\ Enqueuers \cap Sizers = {}
                          /\ Dequeuers \cap Sizers = {}
ASSUME ThreadsAssumption == IsFiniteSet(Threads)
ASSUME NoneAssumption == None \notin Threads /\ None \notin Items

VARIABLES
    buffer, size, head, tail,  \* the ring
    mutex,                     \* the thread that holds the mutex, or None
    condEnqueue, condDequeue,  \* the threads blocked on each condition variable
    pc,
    local,                     \* enqueue's argument, dequeue's item, current_size
    pending,                   \* items no thread has passed to enqueue yet
    polls,                     \* get_size calls made by each sizer
    spurious                   \* spurious wake-ups so far

ring == <<buffer, size, head, tail>>
vars == <<ring, mutex, condEnqueue, condDequeue, pc, local, pending, polls, spurious>>

Holding == {"test", "body", "unlock"}

Init == /\ buffer = [i \in 0 .. BufferSize - 1 |-> None]
        /\ size = 0 /\ head = 0 /\ tail = 0
        /\ mutex = None
        /\ condEnqueue = {} /\ condDequeue = {}
        /\ pc = [t \in Threads |-> "idle"]
        /\ local = [t \in Threads |-> None]
        /\ pending = Items
        /\ polls = [t \in Sizers |-> 0]
        /\ spurious = 0

Goto(t, label) == pc' = [pc EXCEPT ![t] = label]

CallEnqueue(t) == /\ pc[t] = "idle"
                  /\ \E item \in pending : /\ local' = [local EXCEPT ![t] = item]
                                           /\ pending' = pending \ {item}
                  /\ Goto(t, "lock")
                  /\ UNCHANGED <<ring, mutex, condEnqueue, condDequeue, polls, spurious>>

CallDequeue(t) == /\ pc[t] = "idle"
                  /\ Goto(t, "lock")
                  /\ UNCHANGED <<ring, mutex, condEnqueue, condDequeue, local, pending, polls, spurious>>

CallGetSize(t) == /\ pc[t] = "idle"
                  /\ polls[t] < MaxPolls
                  /\ polls' = [polls EXCEPT ![t] = @ + 1]
                  /\ Goto(t, "lock")
                  /\ UNCHANGED <<ring, mutex, condEnqueue, condDequeue, local, pending, spurious>>

\* Mutant: a mutex that lets a second thread in.
LockUnguarded(t) == /\ pc[t] = "lock"
                    /\ mutex' = t
                    /\ Goto(t, "test")
                    /\ UNCHANGED <<ring, condEnqueue, condDequeue, local, pending, polls, spurious>>

Lock(t) == /\ pc[t] = "lock"
           /\ mutex = None
           /\ mutex' = t
           /\ Goto(t, "test")
           /\ UNCHANGED <<ring, condEnqueue, condDequeue, local, pending, polls, spurious>>

MustWait(t) == \/ t \in Enqueuers /\ size >= BufferSize
               \/ t \in Dequeuers /\ size = 0

\* pthread_cond_wait releases the mutex and blocks in one step.
Wait(t) == /\ pc[t] = "test"
           /\ MustWait(t)
           /\ mutex' = None
           /\ condEnqueue' = IF t \in Enqueuers THEN condEnqueue \cup {t} ELSE condEnqueue
           /\ condDequeue' = IF t \in Dequeuers THEN condDequeue \cup {t} ELSE condDequeue
           /\ Goto(t, "wait")
           /\ UNCHANGED <<ring, local, pending, polls, spurious>>

Pass(t) == /\ pc[t] = "test"
           /\ ~ MustWait(t)
           /\ Goto(t, "body")
           /\ UNCHANGED <<ring, mutex, condEnqueue, condDequeue, local, pending, polls, spurious>>

\* Mutant: the tail is wrapped one slot too late.
PutNoWrap(t) == /\ pc[t] = "body"
                /\ buffer' = [buffer EXCEPT ![tail] = local[t]]
                /\ tail' = (tail + 1) % (BufferSize + 1)
                /\ size' = size + 1
                /\ Goto(t, "unlock")
                /\ UNCHANGED <<head, mutex, condEnqueue, condDequeue, local, pending, polls, spurious>>

Put(t) == /\ pc[t] = "body"
          /\ buffer' = [buffer EXCEPT ![tail] = local[t]]
          /\ tail' = (tail + 1) % BufferSize
          /\ size' = size + 1
          /\ Goto(t, "unlock")
          /\ UNCHANGED <<head, mutex, condEnqueue, condDequeue, local, pending, polls, spurious>>

\* Mutant: the newest item is taken instead of the oldest.
TakeNewest(t) == /\ pc[t] = "body"
                 /\ local' = [local EXCEPT ![t] = buffer[(head + size - 1) % BufferSize]]
                 /\ head' = (head + 1) % BufferSize
                 /\ size' = size - 1
                 /\ Goto(t, "unlock")
                 /\ UNCHANGED <<buffer, tail, mutex, condEnqueue, condDequeue, pending, polls, spurious>>

Take(t) == /\ pc[t] = "body"
           /\ local' = [local EXCEPT ![t] = buffer[head]]
           /\ head' = (head + 1) % BufferSize
           /\ size' = size - 1
           /\ Goto(t, "unlock")
           /\ UNCHANGED <<buffer, tail, mutex, condEnqueue, condDequeue, pending, polls, spurious>>

Sample(t) == /\ pc[t] = "body"
             /\ local' = [local EXCEPT ![t] = size]
             /\ Goto(t, "unlock")
             /\ UNCHANGED <<ring, mutex, condEnqueue, condDequeue, pending, polls, spurious>>

\* enqueue and dequeue signal after the unlock; get_size returns.
Unlock(t) == /\ pc[t] = "unlock"
             /\ mutex' = None
             /\ Goto(t, IF t \in Sizers THEN "idle" ELSE "signal")
             /\ UNCHANGED <<ring, condEnqueue, condDequeue, local, pending, polls, spurious>>

\* The signalling thread t goes idle and the blocked thread w is woken.
Wake(t, w) == pc' = [pc EXCEPT ![t] = "idle", ![w] = "lock"]

\* Mutant: signalling only when the queue was empty before.
SignalDequeueIfFirst(t) ==
    /\ pc[t] = "signal"
    /\ IF size # 1 \/ condDequeue = {}
         THEN Goto(t, "idle") /\ UNCHANGED condDequeue
         ELSE \E w \in condDequeue : condDequeue' = condDequeue \ {w} /\ Wake(t, w)
    /\ UNCHANGED <<ring, mutex, condEnqueue, local, pending, polls, spurious>>

SignalDequeue(t) ==
    /\ pc[t] = "signal"
    /\ IF condDequeue = {}
         THEN Goto(t, "idle") /\ UNCHANGED condDequeue
         ELSE \E w \in condDequeue : condDequeue' = condDequeue \ {w} /\ Wake(t, w)
    /\ UNCHANGED <<ring, mutex, condEnqueue, local, pending, polls, spurious>>

\* Mutant: dequeue forgets to signal the blocked enqueuers.
SignalEnqueueMissing(t) ==
    /\ pc[t] = "signal"
    /\ Goto(t, "idle")
    /\ UNCHANGED <<ring, mutex, condEnqueue, condDequeue, local, pending, polls, spurious>>

SignalEnqueue(t) ==
    /\ pc[t] = "signal"
    /\ IF condEnqueue = {}
         THEN Goto(t, "idle") /\ UNCHANGED condEnqueue
         ELSE \E w \in condEnqueue : condEnqueue' = condEnqueue \ {w} /\ Wake(t, w)
    /\ UNCHANGED <<ring, mutex, condDequeue, local, pending, polls, spurious>>

\* pthread_cond_wait may return with no signal sent.
SpuriousWake(t) == /\ pc[t] = "wait"
                   /\ spurious < MaxSpurious
                   /\ spurious' = spurious + 1
                   /\ condEnqueue' = condEnqueue \ {t}
                   /\ condDequeue' = condDequeue \ {t}
                   /\ Goto(t, "lock")
                   /\ UNCHANGED <<ring, mutex, local, pending, polls>>

Shared(t) == Lock(t) \/ Wait(t) \/ Pass(t) \/ Unlock(t)
EnqueueStep(t) == CallEnqueue(t) \/ Shared(t) \/ Put(t) \/ SignalDequeue(t)
DequeueStep(t) == CallDequeue(t) \/ Shared(t) \/ Take(t) \/ SignalEnqueue(t)
GetSizeStep(t) == CallGetSize(t) \/ Lock(t) \/ Pass(t) \/ Unlock(t) \/ Sample(t)

Next == \/ \E t \in Enqueuers : EnqueueStep(t)
        \/ \E t \in Dequeuers : DequeueStep(t)
        \/ \E t \in Sizers : GetSizeStep(t)
        \/ \E t \in Threads : SpuriousWake(t)

\* Every thread is scheduled; nobody promises a spurious wake-up,
\* and there are at most MaxSpurious of them.
Fairness == /\ \A t \in Enqueuers : WF_vars(EnqueueStep(t))
            /\ \A t \in Dequeuers : WF_vars(DequeueStep(t))
            /\ \A t \in Sizers : WF_vars(GetSizeStep(t))

Spec == Init /\ [][Next]_vars
FairSpec == Spec /\ Fairness
-----------------------------------------------------------------------------
\* The type invariant.
TypeOK == /\ buffer \in [0 .. BufferSize - 1 -> Items \cup {None}]
          /\ size \in Int
          /\ head \in 0 .. BufferSize - 1
          /\ tail \in 0 .. BufferSize - 1
          /\ mutex \in Threads \cup {None}
          /\ condEnqueue \subseteq Enqueuers
          /\ condDequeue \subseteq Dequeuers
          /\ pc \in [Threads -> {"idle", "lock", "test", "body", "wait", "unlock", "signal"}]
          /\ local \in [Threads -> Items \cup {None} \cup Int]
          /\ \A t \in Enqueuers \cup Dequeuers : local[t] \in Items \cup {None}
          /\ pending \subseteq Items
          /\ polls \in [Sizers -> 0 .. MaxPolls]
          /\ spurious \in 0 .. MaxSpurious

\* A thread is inside the critical section exactly when it owns the mutex, so
\* lines 74-79, 88-93 and 103 of ts_queue.hpp never run in two threads at once.
MutexOwned == \A t \in Threads : pc[t] \in Holding <=> mutex = t

\* The condition variables hold exactly the blocked threads of their side.
WaitersBlocked == \A t \in Threads :
    pc[t] = "wait" <=> t \in condEnqueue \cup condDequeue

\* Ring coherence: the occupied slots are the `size` slots from head on and end
\* before tail, a thread past its test has room (or an item) to work on, and
\* the number of items is never negative or over the capacity.
RingCoherent ==
    /\ size \in 0 .. BufferSize
    /\ tail = (head + size) % BufferSize
    /\ \A t \in Threads : pc[t] = "body" => ~ MustWait(t)

\* No wake-up is lost although the signal is sent after the unlock: while
\* somebody is blocked, every item (every free slot) is accounted for by a
\* thread that is on its way to use it or to signal.
Awake == {"lock", "test", "body"}
Leaving == {"unlock", "signal"}
NoLostWakeup ==
    /\ condDequeue # {} =>
         size <= Cardinality({t \in Enqueuers : pc[t] \in Leaving})
                 + Cardinality({t \in Dequeuers : pc[t] \in Awake})
    /\ condEnqueue # {} =>
         BufferSize - size <= Cardinality({t \in Dequeuers : pc[t] \in Leaving})
                              + Cardinality({t \in Enqueuers : pc[t] \in Awake})

\* Every item some thread has to enqueue reaches a dequeuing thread: when the
\* program is quiet, nothing is left in the ring or in a blocked enqueue.
EverythingDelivered ==
    <>[](/\ pending = {} /\ size = 0
         /\ \A t \in Enqueuers : pc[t] = "idle")

\* The ring, the mutex and the signals implement the bounded FIFO: an enqueue
\* takes effect when it stores the item, a dequeue when it removes one.
Contents == [i \in 1 .. size |-> buffer[(head + i - 1) % BufferSize]]
Unstored == pending \cup {local[t] : t \in {e \in Enqueuers : pc[e] \in Awake \cup {"wait"}}}
FIFO == INSTANCE BoundedQueue WITH
            queue <- Contents,
            pending <- Unstored,
            result <- [t \in Dequeuers \cup Sizers |-> local[t]],
            Capacity <- BufferSize
ImplementsFIFO == FIFO!Spec
=============================================================================
