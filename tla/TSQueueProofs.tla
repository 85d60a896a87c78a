---------------------------- MODULE TSQueueProofs ---------------------------
(***************************************************************************)
(* The ring of ts_queue.hpp stays coherent, no signal is lost and the      *)
(* queue is a bounded FIFO, for every buffer size and number of threads.   *)
(*                                                                         *)
(* The inductive invariant adds to ring coherence who owns the mutex (two  *)
(* threads past their test would both use the last slot) and which threads *)
(* are blocked (a signal must not move a thread out of its critical        *)
(* section).                                                               *)
(***************************************************************************)
EXTENDS TSQueue, SequenceTheorems, FiniteSetTheorems, TLAPS

IInv == TypeOK /\ MutexOwned /\ WaitersBlocked /\ RingCoherent

-----------------------------------------------------------------------------
(* Arithmetic of ring indices.                                             *)

\* An index below the ring size is left alone by the modulus.
LEMMA ModSmall ==
    ASSUME NEW N \in Nat \ {0}, NEW x \in 0 .. N - 1
    PROVE  x % N = x
  OBVIOUS

\* An index less than one turn beyond the ring wraps by one turn.
LEMMA ModWrap ==
    ASSUME NEW N \in Nat \ {0}, NEW x \in N .. 2 * N - 1
    PROVE  x % N = x - N
  OBVIOUS

\* Storing an item moves tail and the end of the occupied slots together.
LEMMA PutIndex ==
    ASSUME NEW N \in Nat \ {0}, NEW h \in 0 .. N - 1, NEW s \in 0 .. N - 1
    PROVE  (((h + s) % N) + 1) % N = (h + (s + 1)) % N
<1>1. CASE h + s < N - 1
  <2>1. (h + s) % N = h + s  BY <1>1, ModSmall
  <2>2. QED  BY <2>1
<1>2. CASE h + s = N - 1
  <2>1. (h + s) % N = N - 1  BY <1>2, ModSmall
  <2>2. QED  BY <1>2, <2>1
<1>3. CASE h + s \in N .. 2 * N - 2
  <2>1. (h + s) % N = h + s - N  BY <1>3, ModWrap
  <2>2. (h + s - N + 1) % N = h + s - N + 1  BY <1>3, ModSmall
  <2>3. CASE h + s + 1 < 2 * N
    <3>1. (h + (s + 1)) % N = h + s + 1 - N  BY <1>3, <2>3, ModWrap
    <3>2. QED  BY <2>1, <2>2, <3>1
  <2>4. QED  BY <1>3, <2>3
<1>4. QED  BY <1>1, <1>2, <1>3

\* Removing an item moves head on and leaves the end of the occupied slots.
LEMMA TakeIndex ==
    ASSUME NEW N \in Nat \ {0}, NEW h \in 0 .. N - 1, NEW s \in 1 .. N
    PROVE  (((h + 1) % N) + (s - 1)) % N = (h + s) % N
<1>1. CASE h + 1 < N
  <2>1. (h + 1) % N = h + 1  BY <1>1, ModSmall
  <2>2. QED  BY <2>1
<1>2. CASE h + 1 = N
  <2>1. (h + 1) % N = 0  BY <1>2, ModWrap
  <2>2. (s - 1) % N = s - 1  BY ModSmall
  <2>3. (h + s) % N = s - 1  BY <1>2, ModWrap
  <2>4. QED  BY <2>1, <2>2, <2>3
<1>3. QED  BY <1>1, <1>2

\* The indices stay inside the buffer.
LEMMA ModRange ==
    ASSUME NEW N \in Nat \ {0}, NEW x \in Nat
    PROVE  x % N \in 0 .. N - 1
  OBVIOUS

-----------------------------------------------------------------------------
(* The inductive invariant.                                                *)

\* The initial state satisfies the invariant.
LEMMA InitIInv == Init => IInv
<1> SUFFICES ASSUME Init PROVE IInv
  OBVIOUS
<1> USE BufferSizeAssumption, BoundsAssumption, NoneAssumption DEF Init
<1>1. TypeOK  BY DEF TypeOK, Threads
<1>2. MutexOwned /\ WaitersBlocked  BY DEF MutexOwned, WaitersBlocked, Holding, Threads
<1>3. RingCoherent
  <2>1. 0 % BufferSize = 0  BY ModSmall
  <2>2. QED  BY <2>1 DEF RingCoherent
<1>4. QED  BY <1>1, <1>2, <1>3 DEF IInv

\* Every statement of the three methods keeps the invariant.
LEMMA NextIInv == IInv /\ [Next]_vars => IInv'
<1> SUFFICES ASSUME IInv, [Next]_vars PROVE IInv'
  OBVIOUS
<1> USE BufferSizeAssumption, BoundsAssumption, RolesAssumption, NoneAssumption
        DEF IInv, Threads, Holding, ring, Goto, Wake, MustWait,
            TypeOK, MutexOwned, WaitersBlocked, RingCoherent
<1>1. ASSUME NEW t \in Enqueuers, CallEnqueue(t)  PROVE IInv'
  BY <1>1 DEF CallEnqueue
<1>2. ASSUME NEW t \in Dequeuers, CallDequeue(t)  PROVE IInv'
  BY <1>2 DEF CallDequeue
<1>3. ASSUME NEW t \in Sizers, CallGetSize(t)  PROVE IInv'
  <2>1. t \in Threads /\ t \notin Enqueuers \cup Dequeuers  OBVIOUS
  <2>2. TypeOK'
    <3>1. pc' \in [Threads -> {"idle", "lock", "test", "body", "wait", "unlock", "signal"}]
      BY <1>3, <2>1 DEF CallGetSize
    <3>2. polls' \in [Sizers -> 0 .. MaxPolls]  BY <1>3 DEF CallGetSize
    <3>3. QED  BY <1>3, <3>1, <3>2 DEF CallGetSize
  <2>3. MutexOwned' /\ WaitersBlocked'  BY <1>3, <2>1 DEF CallGetSize
  <2>4. RingCoherent'  BY <1>3, <2>1 DEF CallGetSize
  <2>5. QED  BY <2>2, <2>3, <2>4
<1>4. ASSUME NEW t \in Threads, Lock(t)  PROVE IInv'
  BY <1>4 DEF Lock
<1>5. ASSUME NEW t \in Threads, Wait(t)  PROVE IInv'
  <2>1. TypeOK' /\ RingCoherent'  BY <1>5 DEF Wait
  <2>2. MutexOwned'  BY <1>5 DEF Wait
  <2>3. WaitersBlocked'  BY <1>5 DEF Wait
  <2>4. QED  BY <2>1, <2>2, <2>3
<1>6. ASSUME NEW t \in Threads, Pass(t)  PROVE IInv'
  BY <1>6 DEF Pass
<1>7. ASSUME NEW t \in Enqueuers, Put(t)  PROVE IInv'
  <2>1. size \in 0 .. BufferSize - 1 /\ mutex = t  BY <1>7 DEF Put
  <2>2. tail' \in 0 .. BufferSize - 1  BY <1>7, ModRange DEF Put
  <2>3. tail' = (head' + size') % BufferSize  BY <1>7, <2>1, PutIndex DEF Put
  <2>4. TypeOK'  BY <1>7, <2>2 DEF Put
  <2>5. MutexOwned' /\ WaitersBlocked'  BY <1>7 DEF Put
  <2>6. \A u \in Threads : pc'[u] # "body"  BY <1>7, <2>1 DEF Put
  <2>7. size' \in 0 .. BufferSize  BY <1>7, <2>1 DEF Put
  <2>8. RingCoherent'  BY <2>3, <2>6, <2>7
  <2>9. QED  BY <2>4, <2>5, <2>8
<1>8. ASSUME NEW t \in Dequeuers, Take(t)  PROVE IInv'
  <2>1. size \in 1 .. BufferSize /\ mutex = t  BY <1>8 DEF Take
  <2>2. head' \in 0 .. BufferSize - 1  BY <1>8, ModRange DEF Take
  <2>3. tail' = (head' + size') % BufferSize  BY <1>8, <2>1, TakeIndex DEF Take
  <2>4. TypeOK'  BY <1>8, <2>2 DEF Take
  <2>5. MutexOwned' /\ WaitersBlocked'  BY <1>8 DEF Take
  <2>6. \A u \in Threads : pc'[u] # "body"  BY <1>8, <2>1 DEF Take
  <2>7. size' \in 0 .. BufferSize  BY <1>8, <2>1 DEF Take
  <2>8. RingCoherent'  BY <2>3, <2>6, <2>7
  <2>9. QED  BY <2>4, <2>5, <2>8
<1>9. ASSUME NEW t \in Sizers, Sample(t)  PROVE IInv'
  BY <1>9 DEF Sample
<1>10. ASSUME NEW t \in Threads, Unlock(t)  PROVE IInv'
  BY <1>10 DEF Unlock
<1>11. ASSUME NEW t \in Enqueuers, SignalDequeue(t)  PROVE IInv'
  <2>1. CASE condDequeue = {}
    BY <1>11, <2>1 DEF SignalDequeue
  <2>2. CASE condDequeue # {}
    <3>1. PICK w \in condDequeue : condDequeue' = condDequeue \ {w} /\ Wake(t, w)
      BY <1>11, <2>2 DEF SignalDequeue
    <3>2. pc[w] = "wait" /\ w # t /\ w \notin condEnqueue  BY <1>11, <3>1 DEF SignalDequeue
    <3>3. QED  BY <1>11, <3>1, <3>2 DEF SignalDequeue
  <2>3. QED  BY <2>1, <2>2
<1>12. ASSUME NEW t \in Dequeuers, SignalEnqueue(t)  PROVE IInv'
  <2>1. CASE condEnqueue = {}
    BY <1>12, <2>1 DEF SignalEnqueue
  <2>2. CASE condEnqueue # {}
    <3>1. PICK w \in condEnqueue : condEnqueue' = condEnqueue \ {w} /\ Wake(t, w)
      BY <1>12, <2>2 DEF SignalEnqueue
    <3>2. pc[w] = "wait" /\ w # t /\ w \notin condDequeue  BY <1>12, <3>1 DEF SignalEnqueue
    <3>3. QED  BY <1>12, <3>1, <3>2 DEF SignalEnqueue
  <2>3. QED  BY <2>1, <2>2
<1>13. ASSUME NEW t \in Threads, SpuriousWake(t)  PROVE IInv'
  BY <1>13 DEF SpuriousWake
<1>14. CASE UNCHANGED vars
  BY <1>14 DEF vars
<1>15. QED
  BY <1>1, <1>2, <1>3, <1>4, <1>5, <1>6, <1>7, <1>8, <1>9, <1>10, <1>11, <1>12, <1>13, <1>14
  DEF Next, EnqueueStep, DequeueStep, GetSizeStep, Shared

-----------------------------------------------------------------------------
(* What every behaviour of the queue satisfies.                            *)

\* The inductive invariant holds of every behaviour.
THEOREM InvariantHolds == Spec => []IInv
  BY InitIInv, NextIInv, PTL DEF Spec

\* Type correctness of the queue and its threads.
THEOREM TypeCorrect == Spec => []TypeOK
  BY InvariantHolds, PTL DEF IInv

\* For every capacity and every number of threads: the occupied slots are
\* `size` consecutive ones ending before tail, size never leaves
\* 0 .. buffer_size, and a thread that passed its test still has its slot or
\* its item although other threads ran in between.
THEOREM RingStaysCoherent == Spec => []RingCoherent
  BY InvariantHolds, PTL DEF IInv

-----------------------------------------------------------------------------
(* No wake-up is lost.  Every step moves one thread, or a signaller and    *)
(* the thread it wakes, between the groups that NoLostWakeup counts.       *)

\* How many threads of T are at a label in L when f gives the labels.
Count(f, T, L) == Cardinality({t \in T : f[t] \in L})

\* The same threads are at a label in L, but for t.
SameBut(f, g, T, L, t) == \A u \in T \ {t} : f[u] \in L <=> g[u] \in L

\* A count is a number.
LEMMA CountType ==
    ASSUME NEW T, IsFiniteSet(T), NEW f, NEW L
    PROVE  Count(f, T, L) \in Nat
<1>1. IsFiniteSet({t \in T : f[t] \in L})  BY FS_Subset
<1>2. QED  BY <1>1, FS_CardinalityType DEF Count

\* A group that nobody enters or leaves keeps its size.
LEMMA CountKept ==
    ASSUME NEW T, NEW f, NEW g, NEW L, \A u \in T : f[u] \in L <=> g[u] \in L
    PROVE  Count(g, T, L) = Count(f, T, L)
<1>1. {t \in T : f[t] \in L} = {t \in T : g[t] \in L}  OBVIOUS
<1>2. QED  BY <1>1 DEF Count

\* One thread enters a group.
LEMMA CountEnters ==
    ASSUME NEW T, IsFiniteSet(T), NEW f, NEW g, NEW L, NEW t \in T,
           SameBut(f, g, T, L, t), f[t] \notin L, g[t] \in L
    PROVE  Count(g, T, L) = Count(f, T, L) + 1
<1>1. /\ {u \in T : g[u] \in L} = {u \in T : f[u] \in L} \cup {t}
      /\ t \notin {u \in T : f[u] \in L}
  BY DEF SameBut
<1>2. IsFiniteSet({u \in T : f[u] \in L})  BY FS_Subset
<1>3. QED  BY <1>1, <1>2, FS_AddElement DEF Count

\* One thread leaves a group.
LEMMA CountLeaves ==
    ASSUME NEW T, IsFiniteSet(T), NEW f, NEW g, NEW L, NEW t \in T,
           SameBut(f, g, T, L, t), f[t] \in L, g[t] \notin L
    PROVE  Count(g, T, L) = Count(f, T, L) - 1
<1>1. /\ {u \in T : g[u] \in L} = {u \in T : f[u] \in L} \ {t}
      /\ t \in {u \in T : f[u] \in L}
  BY DEF SameBut
<1>2. IsFiniteSet({u \in T : f[u] \in L})  BY FS_Subset
<1>3. QED  BY <1>1, <1>2, FS_RemoveElement DEF Count

\* NoLostWakeup in terms of the four counts.
Wakeups(sz, waitingD, waitingE, eLeaving, dAwake, dLeaving, eAwake) ==
    /\ waitingD # {} => sz <= eLeaving + dAwake
    /\ waitingE # {} => BufferSize - sz <= dLeaving + eAwake

\* NoLostWakeup counts these groups.
LEMMA WakeupsMeaning ==
    NoLostWakeup <=> Wakeups(size, condDequeue, condEnqueue,
                             Count(pc, Enqueuers, Leaving), Count(pc, Dequeuers, Awake),
                             Count(pc, Dequeuers, Leaving), Count(pc, Enqueuers, Awake))
  BY DEF NoLostWakeup, Wakeups, Count

\* Initially nobody is blocked.
LEMMA InitNoLostWakeup == Init => NoLostWakeup
  BY DEF Init, NoLostWakeup

\* Every step keeps the account.
LEMMA NextNoLostWakeup == IInv /\ NoLostWakeup /\ [Next]_vars => NoLostWakeup'
<1> SUFFICES ASSUME IInv, NoLostWakeup, [Next]_vars PROVE NoLostWakeup'
  OBVIOUS
<1> DEFINE EL == Count(pc, Enqueuers, Leaving)
           EA == Count(pc, Enqueuers, Awake)
           DL == Count(pc, Dequeuers, Leaving)
           DA == Count(pc, Dequeuers, Awake)
           EL2 == Count(pc', Enqueuers, Leaving)
           EA2 == Count(pc', Enqueuers, Awake)
           DL2 == Count(pc', Dequeuers, Leaving)
           DA2 == Count(pc', Dequeuers, Awake)
<1>1. /\ IsFiniteSet(Enqueuers) /\ IsFiniteSet(Dequeuers)
      /\ EL \in Nat /\ EA \in Nat /\ DL \in Nat /\ DA \in Nat
      /\ size \in 0 .. BufferSize /\ BufferSize \in Nat
  BY ThreadsAssumption, BufferSizeAssumption, FS_Subset, CountType DEF Threads, IInv, RingCoherent
<1>2. Wakeups(size, condDequeue, condEnqueue, EL, DA, DL, EA)
  BY WakeupsMeaning
<1>3. SUFFICES Wakeups(size', condDequeue', condEnqueue', EL2, DA2, DL2, EA2)
  BY DEF NoLostWakeup, Wakeups, Count
<1>4. /\ DOMAIN pc = Threads /\ condEnqueue \subseteq Enqueuers /\ condDequeue \subseteq Dequeuers
      /\ \A t \in condEnqueue \cup condDequeue : pc[t] = "wait"
      /\ Enqueuers \subseteq Threads /\ Dequeuers \subseteq Threads
      /\ Enqueuers \cap Dequeuers = {}
  BY RolesAssumption DEF IInv, TypeOK, WaitersBlocked, Threads
<1> HIDE DEF EL, EA, DL, DA, EL2, EA2, DL2, DA2
<1>5. ASSUME UNCHANGED <<size, condDequeue, condEnqueue>>,
             \A u \in Threads : /\ pc[u] \in Awake <=> pc'[u] \in Awake
                                /\ pc[u] \in Leaving <=> pc'[u] \in Leaving
      PROVE  Wakeups(size', condDequeue', condEnqueue', EL2, DA2, DL2, EA2)
  <2>1. EL2 = EL /\ EA2 = EA /\ DL2 = DL /\ DA2 = DA
    BY <1>4, <1>5, CountKept DEF EL, EA, DL, DA, EL2, EA2, DL2, DA2
  <2>2. QED  BY <1>2, <1>5, <2>1
<1>6. ASSUME NEW t \in Enqueuers, CallEnqueue(t)
      PROVE  Wakeups(size', condDequeue', condEnqueue', EL2, DA2, DL2, EA2)
  <2>1. /\ pc[t] = "idle" /\ pc'[t] = "lock" /\ \A u \in Threads \ {t} : pc'[u] = pc[u]
        /\ UNCHANGED <<size, condDequeue, condEnqueue>>
    BY <1>4, <1>6 DEF CallEnqueue, Goto, ring
  <2>2. EA2 = EA + 1
    <3>1. /\ SameBut(pc, pc', Enqueuers, Awake, t)
          /\ pc[t] \notin Awake /\ pc'[t] \in Awake
      BY <1>4, <2>1 DEF SameBut, Awake
    <3>2. QED  BY <1>1, <3>1, CountEnters DEF EA, EA2
  <2>3. EL2 = EL /\ DL2 = DL /\ DA2 = DA
    BY <1>4, <2>1, CountKept DEF EL, DL, DA, EL2, DL2, DA2, Leaving
  <2>4. QED  BY <1>1, <1>2, <2>1, <2>2, <2>3 DEF Wakeups
<1>7. ASSUME NEW t \in Dequeuers, CallDequeue(t)
      PROVE  Wakeups(size', condDequeue', condEnqueue', EL2, DA2, DL2, EA2)
  <2>1. /\ pc[t] = "idle" /\ pc'[t] = "lock" /\ \A u \in Threads \ {t} : pc'[u] = pc[u]
        /\ UNCHANGED <<size, condDequeue, condEnqueue>>
    BY <1>4, <1>7 DEF CallDequeue, Goto, ring
  <2>2. DA2 = DA + 1
    <3>1. /\ SameBut(pc, pc', Dequeuers, Awake, t)
          /\ pc[t] \notin Awake /\ pc'[t] \in Awake
      BY <1>4, <2>1 DEF SameBut, Awake
    <3>2. QED  BY <1>1, <3>1, CountEnters DEF DA, DA2
  <2>3. EL2 = EL /\ DL2 = DL /\ EA2 = EA
    BY <1>4, <2>1, CountKept DEF EL, DL, EA, EL2, DL2, EA2, Leaving
  <2>4. QED  BY <1>1, <1>2, <2>1, <2>2, <2>3 DEF Wakeups
<1>8. ASSUME NEW t \in Enqueuers, Wait(t)
      PROVE  Wakeups(size', condDequeue', condEnqueue', EL2, DA2, DL2, EA2)
  <2>1. /\ pc[t] = "test" /\ pc'[t] = "wait" /\ \A u \in Threads \ {t} : pc'[u] = pc[u]
        /\ UNCHANGED <<size, condDequeue>> /\ size = BufferSize
    BY <1>1, <1>4, <1>8 DEF Wait, MustWait, Goto, ring
  <2>2. EA2 = EA - 1
    <3>1. /\ SameBut(pc, pc', Enqueuers, Awake, t)
          /\ pc[t] \in Awake /\ pc'[t] \notin Awake
      BY <1>4, <2>1 DEF SameBut, Awake
    <3>2. QED  BY <1>1, <3>1, CountLeaves DEF EA, EA2
  <2>3. EL2 = EL /\ DL2 = DL /\ DA2 = DA
    BY <1>4, <2>1, CountKept DEF EL, DL, DA, EL2, DL2, DA2, Leaving
  <2>4. EA2 \in Nat
    BY <1>1, CountType DEF EA2
  <2>5. QED  BY <1>1, <1>2, <2>1, <2>2, <2>3, <2>4 DEF Wakeups
<1>9. ASSUME NEW t \in Dequeuers, Wait(t)
      PROVE  Wakeups(size', condDequeue', condEnqueue', EL2, DA2, DL2, EA2)
  <2>1. /\ pc[t] = "test" /\ pc'[t] = "wait" /\ \A u \in Threads \ {t} : pc'[u] = pc[u]
        /\ UNCHANGED <<size, condEnqueue>> /\ size = 0
    BY <1>1, <1>4, <1>9 DEF Wait, MustWait, Goto, ring
  <2>2. DA2 = DA - 1
    <3>1. /\ SameBut(pc, pc', Dequeuers, Awake, t)
          /\ pc[t] \in Awake /\ pc'[t] \notin Awake
      BY <1>4, <2>1 DEF SameBut, Awake
    <3>2. QED  BY <1>1, <3>1, CountLeaves DEF DA, DA2
  <2>3. EL2 = EL /\ DL2 = DL /\ EA2 = EA
    BY <1>4, <2>1, CountKept DEF EL, DL, EA, EL2, DL2, EA2, Leaving
  <2>4. DA2 \in Nat
    BY <1>1, CountType DEF DA2
  <2>5. QED  BY <1>1, <1>2, <2>1, <2>2, <2>3, <2>4 DEF Wakeups
<1>10. ASSUME NEW t \in Enqueuers, Put(t)
       PROVE  Wakeups(size', condDequeue', condEnqueue', EL2, DA2, DL2, EA2)
  <2>1. /\ pc[t] = "body" /\ pc'[t] = "unlock" /\ \A u \in Threads \ {t} : pc'[u] = pc[u]
        /\ UNCHANGED <<condDequeue, condEnqueue>> /\ size' = size + 1
    BY <1>4, <1>10 DEF Put, Goto
  <2>2. EL2 = EL + 1
    <3>1. /\ SameBut(pc, pc', Enqueuers, Leaving, t)
          /\ pc[t] \notin Leaving /\ pc'[t] \in Leaving
      BY <1>4, <2>1 DEF SameBut, Leaving
    <3>2. QED  BY <1>1, <3>1, CountEnters DEF EL, EL2
  <2>3. EA2 = EA - 1
    <3>1. /\ SameBut(pc, pc', Enqueuers, Awake, t)
          /\ pc[t] \in Awake /\ pc'[t] \notin Awake
      BY <1>4, <2>1 DEF SameBut, Awake
    <3>2. QED  BY <1>1, <3>1, CountLeaves DEF EA, EA2
  <2>4. DL2 = DL /\ DA2 = DA
    BY <1>4, <2>1, CountKept DEF DL, DA, DL2, DA2
  <2>5. QED  BY <1>1, <1>2, <2>1, <2>2, <2>3, <2>4 DEF Wakeups
<1>11. ASSUME NEW t \in Dequeuers, Take(t)
       PROVE  Wakeups(size', condDequeue', condEnqueue', EL2, DA2, DL2, EA2)
  <2>1. /\ pc[t] = "body" /\ pc'[t] = "unlock" /\ \A u \in Threads \ {t} : pc'[u] = pc[u]
        /\ UNCHANGED <<condDequeue, condEnqueue>> /\ size' = size - 1
    BY <1>4, <1>11 DEF Take, Goto
  <2>2. DL2 = DL + 1
    <3>1. /\ SameBut(pc, pc', Dequeuers, Leaving, t)
          /\ pc[t] \notin Leaving /\ pc'[t] \in Leaving
      BY <1>4, <2>1 DEF SameBut, Leaving
    <3>2. QED  BY <1>1, <3>1, CountEnters DEF DL, DL2
  <2>3. DA2 = DA - 1
    <3>1. /\ SameBut(pc, pc', Dequeuers, Awake, t)
          /\ pc[t] \in Awake /\ pc'[t] \notin Awake
      BY <1>4, <2>1 DEF SameBut, Awake
    <3>2. QED  BY <1>1, <3>1, CountLeaves DEF DA, DA2
  <2>4. EL2 = EL /\ EA2 = EA
    BY <1>4, <2>1, CountKept DEF EL, EA, EL2, EA2
  <2>5. QED  BY <1>1, <1>2, <2>1, <2>2, <2>3, <2>4 DEF Wakeups
<1>12. ASSUME NEW t \in Enqueuers, SignalDequeue(t)
       PROVE  Wakeups(size', condDequeue', condEnqueue', EL2, DA2, DL2, EA2)
  <2>1. /\ pc[t] = "signal" /\ UNCHANGED <<size, condEnqueue>>
    BY <1>12 DEF SignalDequeue, ring
  <2>2. CASE condDequeue = {}
    <3>1. /\ pc'[t] = "idle" /\ condDequeue' = {}
          /\ \A u \in Threads \ {t} : pc'[u] = pc[u]
      BY <1>4, <1>12, <2>2 DEF SignalDequeue, Goto
    <3>2. DL2 = DL /\ EA2 = EA
      BY <1>4, <2>1, <3>1, CountKept DEF DL, EA, DL2, EA2, Awake
    <3>3. QED  BY <1>2, <2>1, <3>1, <3>2 DEF Wakeups
  <2>3. CASE condDequeue # {}
    <3>1. PICK w \in condDequeue : condDequeue' = condDequeue \ {w} /\ Wake(t, w)
      BY <1>12, <2>3 DEF SignalDequeue
    <3>2. w \in Dequeuers /\ w # t /\ w \in Threads /\ t \in Threads /\ pc[w] = "wait"
      BY <1>4, <2>1
    <3>3. pc'[t] = "idle" /\ pc'[w] = "lock" /\ \A u \in Threads \ {t, w} : pc'[u] = pc[u]
      BY <1>4, <3>1, <3>2 DEF Wake
    <3>4. EL2 = EL - 1
      <4>1. /\ SameBut(pc, pc', Enqueuers, Leaving, t)
            /\ pc[t] \in Leaving /\ pc'[t] \notin Leaving
        BY <1>4, <2>1, <3>2, <3>3 DEF SameBut, Leaving
      <4>2. QED  BY <1>1, <4>1, CountLeaves DEF EL, EL2
    <3>5. DA2 = DA + 1
      <4>1. /\ SameBut(pc, pc', Dequeuers, Awake, w)
            /\ pc[w] \notin Awake /\ pc'[w] \in Awake
        BY <1>4, <2>1, <3>2, <3>3 DEF SameBut, Awake
      <4>2. QED  BY <1>1, <4>1, <3>2, CountEnters DEF DA, DA2
    <3>6. DL2 = DL /\ EA2 = EA
      BY <1>4, <2>1, <3>2, <3>3, CountKept DEF DL, EA, DL2, EA2, Awake, Leaving
    <3>7. QED  BY <1>1, <1>2, <2>1, <2>3, <3>4, <3>5, <3>6 DEF Wakeups
  <2>4. QED  BY <2>2, <2>3
<1>13. ASSUME NEW t \in Dequeuers, SignalEnqueue(t)
       PROVE  Wakeups(size', condDequeue', condEnqueue', EL2, DA2, DL2, EA2)
  <2>1. /\ pc[t] = "signal" /\ UNCHANGED <<size, condDequeue>>
    BY <1>13 DEF SignalEnqueue, ring
  <2>2. CASE condEnqueue = {}
    <3>1. /\ pc'[t] = "idle" /\ condEnqueue' = {}
          /\ \A u \in Threads \ {t} : pc'[u] = pc[u]
      BY <1>4, <1>13, <2>2 DEF SignalEnqueue, Goto
    <3>2. EL2 = EL /\ DA2 = DA
      BY <1>4, <2>1, <3>1, CountKept DEF EL, DA, EL2, DA2, Awake
    <3>3. QED  BY <1>2, <2>1, <3>1, <3>2 DEF Wakeups
  <2>3. CASE condEnqueue # {}
    <3>1. PICK w \in condEnqueue : condEnqueue' = condEnqueue \ {w} /\ Wake(t, w)
      BY <1>13, <2>3 DEF SignalEnqueue
    <3>2. w \in Enqueuers /\ w # t /\ w \in Threads /\ t \in Threads /\ pc[w] = "wait"
      BY <1>4, <2>1
    <3>3. pc'[t] = "idle" /\ pc'[w] = "lock" /\ \A u \in Threads \ {t, w} : pc'[u] = pc[u]
      BY <1>4, <3>1, <3>2 DEF Wake
    <3>4. DL2 = DL - 1
      <4>1. /\ SameBut(pc, pc', Dequeuers, Leaving, t)
            /\ pc[t] \in Leaving /\ pc'[t] \notin Leaving
        BY <1>4, <2>1, <3>2, <3>3 DEF SameBut, Leaving
      <4>2. QED  BY <1>1, <4>1, CountLeaves DEF DL, DL2
    <3>5. EA2 = EA + 1
      <4>1. /\ SameBut(pc, pc', Enqueuers, Awake, w)
            /\ pc[w] \notin Awake /\ pc'[w] \in Awake
        BY <1>4, <2>1, <3>2, <3>3 DEF SameBut, Awake
      <4>2. QED  BY <1>1, <4>1, <3>2, CountEnters DEF EA, EA2
    <3>6. EL2 = EL /\ DA2 = DA
      BY <1>4, <2>1, <3>2, <3>3, CountKept DEF EL, DA, EL2, DA2, Awake, Leaving
    <3>7. QED  BY <1>1, <1>2, <2>1, <2>3, <3>4, <3>5, <3>6 DEF Wakeups
  <2>4. QED  BY <2>2, <2>3
<1>14. ASSUME NEW t \in Threads, SpuriousWake(t)
       PROVE  Wakeups(size', condDequeue', condEnqueue', EL2, DA2, DL2, EA2)
  <2>1. /\ pc[t] = "wait" /\ pc'[t] = "lock" /\ \A u \in Threads \ {t} : pc'[u] = pc[u]
        /\ size' = size /\ condDequeue' \subseteq condDequeue /\ condEnqueue' \subseteq condEnqueue
    BY <1>4, <1>14 DEF SpuriousWake, Goto, ring
  <2>2. EL2 = EL /\ DL2 = DL
    BY <1>4, <2>1, CountKept DEF EL, DL, EL2, DL2, Leaving
  <2>3. DA2 \in {DA, DA + 1}
    <3>1. CASE t \in Dequeuers
      <4>1. SameBut(pc, pc', Dequeuers, Awake, t) /\ pc[t] \notin Awake /\ pc'[t] \in Awake
        BY <1>4, <2>1 DEF SameBut, Awake
      <4>2. QED  BY <1>1, <3>1, <4>1, CountEnters DEF DA, DA2
    <3>2. CASE t \notin Dequeuers
      BY <1>4, <2>1, <3>2, CountKept DEF DA, DA2
    <3>3. QED  BY <3>1, <3>2
  <2>4. EA2 \in {EA, EA + 1}
    <3>1. CASE t \in Enqueuers
      <4>1. SameBut(pc, pc', Enqueuers, Awake, t) /\ pc[t] \notin Awake /\ pc'[t] \in Awake
        BY <1>4, <2>1 DEF SameBut, Awake
      <4>2. QED  BY <1>1, <3>1, <4>1, CountEnters DEF EA, EA2
    <3>2. CASE t \notin Enqueuers
      BY <1>4, <2>1, <3>2, CountKept DEF EA, EA2
    <3>3. QED  BY <3>1, <3>2
  <2>5. (condDequeue' # {} => condDequeue # {}) /\ (condEnqueue' # {} => condEnqueue # {})
    BY <2>1
  <2>6. QED  BY <1>1, <1>2, <2>1, <2>2, <2>3, <2>4, <2>5 DEF Wakeups
<1>15. ASSUME NEW t \in Threads, Lock(t) \/ Pass(t) \/ Unlock(t)
       PROVE  Wakeups(size', condDequeue', condEnqueue', EL2, DA2, DL2, EA2)
  <2>1. /\ UNCHANGED <<size, condDequeue, condEnqueue>> /\ \A u \in Threads \ {t} : pc'[u] = pc[u]
        /\ \/ pc[t] \in Awake /\ pc'[t] \in Awake
           \/ pc[t] \in Leaving /\ pc'[t] \in Leaving
           \/ t \in Sizers
    BY <1>4, <1>15 DEF Lock, Pass, Unlock, Goto, ring, Awake, Leaving
  <2>2. t \in Sizers => t \notin Enqueuers /\ t \notin Dequeuers
    BY RolesAssumption
  <2>3. \A u \in Enqueuers \cup Dequeuers : /\ pc[u] \in Awake <=> pc'[u] \in Awake
                                            /\ pc[u] \in Leaving <=> pc'[u] \in Leaving
    BY <1>4, <2>1, <2>2 DEF Awake, Leaving
  <2>4. EL2 = EL /\ EA2 = EA /\ DL2 = DL /\ DA2 = DA
    BY <2>3, CountKept DEF EL, EA, DL, DA, EL2, EA2, DL2, DA2
  <2>5. QED  BY <1>2, <2>1, <2>4
<1>16. ASSUME NEW t \in Sizers, CallGetSize(t) \/ Sample(t)
       PROVE  Wakeups(size', condDequeue', condEnqueue', EL2, DA2, DL2, EA2)
  <2>1. /\ UNCHANGED <<size, condDequeue, condEnqueue>> /\ \A u \in Threads \ {t} : pc'[u] = pc[u]
        /\ t \notin Enqueuers /\ t \notin Dequeuers
    BY <1>4, <1>16, RolesAssumption DEF CallGetSize, Sample, Goto, ring
  <2>2. EL2 = EL /\ EA2 = EA /\ DL2 = DL /\ DA2 = DA
    BY <1>4, <2>1, CountKept DEF EL, EA, DL, DA, EL2, EA2, DL2, DA2
  <2>3. QED  BY <1>2, <2>1, <2>2
<1>17. CASE UNCHANGED vars
  BY <1>5, <1>17 DEF vars, ring
<1>18. QED
  BY <1>6, <1>7, <1>8, <1>9, <1>10, <1>11, <1>12, <1>13, <1>14, <1>15, <1>16, <1>17
  DEF Next, EnqueueStep, DequeueStep, GetSizeStep, Shared, Threads

\* For every capacity and every number of threads: while a thread is blocked on
\* a full (an empty) queue, every free slot (every item) is accounted for by a
\* thread about to signal or about to use it, although enqueue and dequeue
\* signal only after they have released the mutex.
THEOREM NoWakeupLost == Spec => []NoLostWakeup
<1>1. Spec => [](IInv /\ NoLostWakeup)
  BY InitIInv, NextIInv, InitNoLostWakeup, NextNoLostWakeup, PTL DEF Spec
<1>2. QED  BY <1>1, PTL

-----------------------------------------------------------------------------
(* The queue implements the bounded FIFO.                                  *)

\* A thread that has called enqueue and not yet stored its item holds an item
\* nobody else holds.
Storing(t) == pc[t] \in Awake \cup {"wait"}
ItemsHeldOnce ==
    /\ \A t \in Enqueuers : Storing(t) => local[t] \in Items \ pending
    /\ \A t, u \in Enqueuers : Storing(t) /\ Storing(u) /\ t # u => local[t] # local[u]

\* The free slot behind the occupied ones is not one of them.
LEMMA FreeSlot ==
    ASSUME NEW N \in Nat \ {0}, NEW h \in 0 .. N - 1, NEW s \in 0 .. N - 1, NEW i \in 1 .. s
    PROVE  (h + i - 1) % N # (h + s) % N
<1>1. CASE h + s < N
  <2>1. (h + s) % N = h + s /\ (h + i - 1) % N = h + i - 1  BY <1>1, ModSmall
  <2>2. QED  BY <2>1
<1>2. CASE h + s >= N
  <2>1. (h + s) % N = h + s - N  BY <1>2, ModWrap
  <2>2. CASE h + i - 1 < N
    <3>1. (h + i - 1) % N = h + i - 1  BY <2>2, ModSmall
    <3>2. QED  BY <2>1, <3>1
  <2>3. CASE h + i - 1 >= N
    <3>1. (h + i - 1) % N = h + i - 1 - N  BY <2>3, ModWrap
    <3>2. QED  BY <2>1, <3>1
  <2>4. QED  BY <2>2, <2>3
<1>3. QED  BY <1>1, <1>2

\* After head has moved on, slot i is what slot i + 1 was.
LEMMA NextSlot ==
    ASSUME NEW N \in Nat \ {0}, NEW h \in 0 .. N - 1, NEW i \in 1 .. N - 1
    PROVE  (((h + 1) % N) + i - 1) % N = (h + (i + 1) - 1) % N
<1>1. CASE h + 1 < N
  <2>1. (h + 1) % N = h + 1  BY <1>1, ModSmall
  <2>2. QED  BY <2>1
<1>2. CASE h + 1 = N
  <2>1. (h + 1) % N = 0  BY <1>2, ModWrap
  <2>2. (i - 1) % N = i - 1  BY ModSmall
  <2>3. (h + (i + 1) - 1) % N = i - 1  BY <1>2, ModWrap
  <2>4. QED  BY <2>1, <2>2, <2>3
<1>3. QED  BY <1>1, <1>2

\* The contents of the ring are a sequence of length size.
LEMMA ContentsSeq ==
    ASSUME IInv
    PROVE  /\ Contents \in Seq(Items \cup {None})
           /\ Len(Contents) = size
<1>1. size \in Nat  BY DEF IInv, RingCoherent
<1>2. \A i \in 1 .. size : (head + i - 1) % BufferSize \in 0 .. BufferSize - 1
  BY BufferSizeAssumption, <1>1, ModRange DEF IInv, TypeOK
<1>3. Contents \in [1 .. size -> Items \cup {None}]
  BY <1>2 DEF IInv, TypeOK, Contents
<1>4. QED  BY <1>1, <1>3

\* Storing an item appends it.
LEMMA PutAppends ==
    ASSUME IInv, NEW t \in Enqueuers, Put(t)
    PROVE  Len(Contents) < BufferSize /\ Contents' = Append(Contents, local[t])
<1>1. size \in 0 .. BufferSize - 1 /\ tail = (head + size) % BufferSize
  BY BufferSizeAssumption DEF IInv, RingCoherent, Put, MustWait, Threads
<1>2. Contents \in Seq(Items \cup {None}) /\ Len(Contents) = size  BY ContentsSeq
<1>3. head' = head /\ size' = size + 1 /\ buffer' = [buffer EXCEPT ![tail] = local[t]]
  BY DEF Put
<1>4. head \in 0 .. BufferSize - 1 /\ buffer \in [0 .. BufferSize - 1 -> Items \cup {None}]
      /\ tail \in 0 .. BufferSize - 1 /\ local[t] \in Items \cup {None}
  BY DEF IInv, TypeOK
<1>5. ASSUME NEW i \in 1 .. size
      PROVE  buffer'[(head + i - 1) % BufferSize] = buffer[(head + i - 1) % BufferSize]
  <2>1. (head + i - 1) % BufferSize # tail
    BY <1>1, <1>4, BufferSizeAssumption, FreeSlot
  <2>2. (head + i - 1) % BufferSize \in 0 .. BufferSize - 1
    <3>1. head + i - 1 \in Nat  BY <1>1, <1>4, BufferSizeAssumption
    <3>2. QED  BY <3>1, BufferSizeAssumption, ModRange
  <2>3. QED  BY <1>3, <1>4, <2>1, <2>2
<1>6. buffer'[(head + (size + 1) - 1) % BufferSize] = local[t]
  <2>1. head + (size + 1) - 1 = head + size  BY <1>1, <1>4, BufferSizeAssumption
  <2>2. QED  BY <1>1, <1>3, <1>4, <2>1
<1>7. Contents' = [i \in 1 .. size + 1 |-> buffer'[(head + i - 1) % BufferSize]]
  BY <1>3 DEF Contents
<1>8. Append(Contents, local[t]) = [i \in 1 .. size + 1 |-> IF i <= size THEN Contents[i] ELSE local[t]]
  BY <1>1, <1>2, <1>4
<1>9. \A i \in 1 .. size : Contents[i] = buffer[(head + i - 1) % BufferSize]
  BY DEF Contents
<1>10. \A i \in 1 .. size + 1 : buffer'[(head + i - 1) % BufferSize] = IF i <= size THEN Contents[i] ELSE local[t]
  <2>1. \A i \in 1 .. size + 1 : i \in 1 .. size \/ i = size + 1  BY <1>1
  <2>2. \A i \in 1 .. size : i <= size  BY <1>1
  <2>3. ~ (size + 1 <= size)  BY <1>1
  <2>4. QED  BY <1>5, <1>6, <1>9, <2>1, <2>2, <2>3
<1>11. Len(Contents) < BufferSize  BY <1>1, <1>2, BufferSizeAssumption
<1>12. QED  BY <1>7, <1>8, <1>10, <1>11

\* The tail of a sequence, as a function.
LEMMA TailFunction ==
    ASSUME NEW S, NEW s \in Seq(S), s # << >>
    PROVE  Tail(s) = [i \in 1 .. Len(s) - 1 |-> s[i + 1]]
<1>1. /\ Tail(s) \in Seq(S) /\ Len(Tail(s)) = Len(s) - 1
      /\ \A i \in 1 .. Len(s) - 1 : Tail(s)[i] = s[i + 1]
  BY HeadTailProperties
<1>2. Tail(s) \in [1 .. Len(s) - 1 -> S]  BY <1>1, LenProperties
<1>3. QED  BY <1>1, <1>2

\* Removing an item takes the first one.
LEMMA TakeDequeues ==
    ASSUME IInv, NEW t \in Dequeuers, Take(t)
    PROVE  /\ Contents # << >>
           /\ local'[t] = Head(Contents)
           /\ Contents' = Tail(Contents)
<1>1. size \in 1 .. BufferSize
  BY BufferSizeAssumption, RolesAssumption DEF IInv, RingCoherent, Take, MustWait, Threads
<1>2. Contents \in Seq(Items \cup {None}) /\ Len(Contents) = size  BY ContentsSeq
<1>3. head' = (head + 1) % BufferSize /\ size' = size - 1 /\ buffer' = buffer
      /\ local' = [local EXCEPT ![t] = buffer[head]]
  BY DEF Take
<1>4. head \in 0 .. BufferSize - 1 /\ local \in [Threads -> Items \cup {None} \cup Int]
  BY DEF IInv, TypeOK
<1>5. Contents # << >>  BY <1>1, <1>2
<1>6. Head(Contents) = buffer[head]
  <2>1. (head + 1 - 1) % BufferSize = head  BY <1>4, BufferSizeAssumption, ModSmall
  <2>2. Contents[1] = buffer[(head + 1 - 1) % BufferSize]  BY <1>1 DEF Contents
  <2>3. QED  BY <1>2, <1>5, <2>1, <2>2
<1>7. Contents' = [i \in 1 .. size - 1 |-> buffer[(((head + 1) % BufferSize) + i - 1) % BufferSize]]
  BY <1>3 DEF Contents
<1>8. Tail(Contents) = [i \in 1 .. size - 1 |-> Contents[i + 1]]
  BY <1>2, <1>5, TailFunction
<1>9. \A i \in 1 .. size - 1 :
        Contents[i + 1] = buffer[(((head + 1) % BufferSize) + i - 1) % BufferSize]
  <2>1. \A i \in 1 .. size - 1 : i + 1 \in 1 .. size /\ i \in 1 .. BufferSize - 1
    BY <1>1, BufferSizeAssumption
  <2>2. \A i \in 1 .. size - 1 : Contents[i + 1] = buffer[(head + (i + 1) - 1) % BufferSize]
    BY <2>1 DEF Contents
  <2>3. \A i \in 1 .. size - 1 :
          (((head + 1) % BufferSize) + i - 1) % BufferSize = (head + (i + 1) - 1) % BufferSize
    BY <2>1, <1>4, BufferSizeAssumption, NextSlot
  <2>4. QED  BY <2>2, <2>3
<1>10. t \in Threads  BY DEF Threads
<1>11. QED  BY <1>3, <1>4, <1>5, <1>6, <1>7, <1>8, <1>9, <1>10

\* At first every item is still to be enqueued.
LEMMA InitItemsHeldOnce == Init => ItemsHeldOnce
  BY DEF Init, ItemsHeldOnce, Storing, Awake, Threads

\* No statement doubles an item.
LEMMA NextItemsHeldOnce == IInv /\ ItemsHeldOnce /\ [Next]_vars => ItemsHeldOnce'
<1> SUFFICES ASSUME IInv, ItemsHeldOnce, [Next]_vars PROVE ItemsHeldOnce'
  OBVIOUS
<1> USE RolesAssumption DEF ItemsHeldOnce, Storing, Awake, Threads, Goto, Wake
<1>1. /\ pc \in [Threads -> {"idle", "lock", "test", "body", "wait", "unlock", "signal"}]
      /\ local \in [Threads -> Items \cup {None} \cup Int]
      /\ condEnqueue \subseteq Enqueuers /\ condDequeue \subseteq Dequeuers
      /\ \A t \in condEnqueue : pc[t] = "wait"
  BY DEF IInv, TypeOK, WaitersBlocked
<1>2. ASSUME NEW t \in Enqueuers, CallEnqueue(t)  PROVE ItemsHeldOnce'
  <2>1. PICK item \in pending : /\ local' = [local EXCEPT ![t] = item]
                                /\ pending' = pending \ {item}
    BY <1>2 DEF CallEnqueue
  <2>2. item \in Items  BY <2>1 DEF IInv, TypeOK
  <2>3. QED  BY <1>1, <1>2, <2>1, <2>2 DEF CallEnqueue
<1>3. ASSUME NEW t \in Dequeuers, CallDequeue(t)  PROVE ItemsHeldOnce'
  BY <1>1, <1>3 DEF CallDequeue
<1>4. ASSUME NEW t \in Sizers, CallGetSize(t)  PROVE ItemsHeldOnce'
  BY <1>1, <1>4 DEF CallGetSize
<1>5. ASSUME NEW t \in Threads, Lock(t)  PROVE ItemsHeldOnce'
  BY <1>1, <1>5 DEF Lock
<1>6. ASSUME NEW t \in Threads, Wait(t)  PROVE ItemsHeldOnce'
  BY <1>1, <1>6 DEF Wait
<1>7. ASSUME NEW t \in Threads, Pass(t)  PROVE ItemsHeldOnce'
  BY <1>1, <1>7 DEF Pass
<1>8. ASSUME NEW t \in Enqueuers, Put(t)  PROVE ItemsHeldOnce'
  BY <1>1, <1>8 DEF Put
<1>9. ASSUME NEW t \in Dequeuers, Take(t)  PROVE ItemsHeldOnce'
  BY <1>1, <1>9 DEF Take
<1>10. ASSUME NEW t \in Sizers, Sample(t)  PROVE ItemsHeldOnce'
  BY <1>1, <1>10 DEF Sample
<1>11. ASSUME NEW t \in Threads, Unlock(t)  PROVE ItemsHeldOnce'
  BY <1>1, <1>11 DEF Unlock
<1>12. ASSUME NEW t \in Enqueuers, SignalDequeue(t)  PROVE ItemsHeldOnce'
  BY <1>1, <1>12 DEF SignalDequeue
<1>13. ASSUME NEW t \in Dequeuers, SignalEnqueue(t)  PROVE ItemsHeldOnce'
  BY <1>1, <1>13 DEF SignalEnqueue
<1>14. ASSUME NEW t \in Threads, SpuriousWake(t)  PROVE ItemsHeldOnce'
  BY <1>1, <1>14 DEF SpuriousWake
<1>15. CASE UNCHANGED vars
  BY <1>15 DEF vars
<1>16. QED
  BY <1>2, <1>3, <1>4, <1>5, <1>6, <1>7, <1>8, <1>9, <1>10, <1>11, <1>12, <1>13, <1>14, <1>15
  DEF Next, EnqueueStep, DequeueStep, GetSizeStep, Shared

\* The initial ring is the empty queue.
LEMMA InitRefines == Init => FIFO!Init
<1> SUFFICES ASSUME Init PROVE FIFO!Init
  OBVIOUS
<1>1. Contents = << >>  BY DEF Init, Contents
<1>2. Unstored = Items  BY DEF Init, Unstored, Awake, Threads
<1>3. QED  BY <1>1, <1>2 DEF Init, FIFO!Init, Threads

\* A step of the threads is one operation of the FIFO or leaves it alone.
LEMMA NextRefines == IInv /\ ItemsHeldOnce /\ [Next]_vars => [FIFO!Next]_FIFO!qvars
<1> SUFFICES ASSUME IInv, ItemsHeldOnce, [Next]_vars PROVE [FIFO!Next]_FIFO!qvars
  OBVIOUS
<1> DEFINE result == [t \in Dequeuers \cup Sizers |-> local[t]]
<1> USE RolesAssumption DEF Threads, Goto, Wake, Awake
<1>1. /\ pc \in [Threads -> {"idle", "lock", "test", "body", "wait", "unlock", "signal"}]
      /\ local \in [Threads -> Items \cup {None} \cup Int]
      /\ condEnqueue \subseteq Enqueuers /\ condDequeue \subseteq Dequeuers
      /\ \A t \in condEnqueue : pc[t] = "wait"
      /\ pending \subseteq Items
  BY DEF IInv, TypeOK, WaitersBlocked
<1>2. ASSUME UNCHANGED ring  PROVE Contents' = Contents
  BY <1>2 DEF ring, Contents
<1>3. ASSUME UNCHANGED <<local, pending>>,
             \A e \in Enqueuers : (pc'[e] \in Awake \cup {"wait"}) <=> (pc[e] \in Awake \cup {"wait"})
      PROVE  Unstored' = Unstored /\ result' = result
  BY <1>3 DEF Unstored
<1>4. ASSUME NEW t \in Enqueuers, CallEnqueue(t)  PROVE UNCHANGED FIFO!qvars
  <2>1. PICK item \in pending : /\ local' = [local EXCEPT ![t] = item]
                                /\ pending' = pending \ {item}
    BY <1>4 DEF CallEnqueue
  <2>2. pc[t] = "idle" /\ pc' = [pc EXCEPT ![t] = "lock"]  BY <1>4 DEF CallEnqueue
  <2>3. Unstored' = Unstored  BY <1>1, <2>1, <2>2 DEF Unstored
  <2>4. result' = result  BY <1>1, <2>1
  <2>5. Contents' = Contents  BY <1>2, <1>4 DEF CallEnqueue
  <2>6. QED  BY <2>3, <2>4, <2>5 DEF FIFO!qvars
<1>5. ASSUME NEW t \in Dequeuers, CallDequeue(t)  PROVE UNCHANGED FIFO!qvars
  BY <1>1, <1>2, <1>3, <1>5 DEF CallDequeue, FIFO!qvars
<1>6. ASSUME NEW t \in Sizers, CallGetSize(t)  PROVE UNCHANGED FIFO!qvars
  BY <1>1, <1>2, <1>3, <1>6 DEF CallGetSize, FIFO!qvars
<1>7. ASSUME NEW t \in Threads, Lock(t)  PROVE UNCHANGED FIFO!qvars
  BY <1>1, <1>2, <1>3, <1>7 DEF Lock, FIFO!qvars
<1>8. ASSUME NEW t \in Threads, Wait(t)  PROVE UNCHANGED FIFO!qvars
  BY <1>1, <1>2, <1>3, <1>8 DEF Wait, FIFO!qvars
<1>9. ASSUME NEW t \in Threads, Pass(t)  PROVE UNCHANGED FIFO!qvars
  BY <1>1, <1>2, <1>3, <1>9 DEF Pass, FIFO!qvars
<1>10. ASSUME NEW t \in Enqueuers, Put(t)  PROVE FIFO!Enqueue(local[t])
  <2>1. Len(Contents) < BufferSize /\ Contents' = Append(Contents, local[t])
    BY <1>10, PutAppends
  <2>2. /\ pc[t] = "body" /\ pc' = [pc EXCEPT ![t] = "unlock"]
        /\ local' = local /\ pending' = pending
    BY <1>10 DEF Put
  <2>3. local[t] \in Unstored  BY <2>2 DEF Unstored
  <2>4. \A e \in Enqueuers : e # t /\ pc[e] \in Awake \cup {"wait"} => local[e] # local[t]
    BY <2>2 DEF ItemsHeldOnce, Storing
  <2>5. local[t] \notin pending  BY <2>2 DEF ItemsHeldOnce, Storing
  <2>6. Unstored' = Unstored \ {local[t]}  BY <1>1, <2>2, <2>4, <2>5 DEF Unstored
  <2>7. QED  BY <2>1, <2>2, <2>3, <2>6 DEF FIFO!Enqueue
<1>11. ASSUME NEW t \in Dequeuers, Take(t)  PROVE FIFO!Dequeue(t)
  <2>1. Contents # << >> /\ local'[t] = Head(Contents) /\ Contents' = Tail(Contents)
    BY <1>11, TakeDequeues
  <2>2. /\ pc[t] = "body" /\ pc' = [pc EXCEPT ![t] = "unlock"]
        /\ local' = [local EXCEPT ![t] = buffer[head]] /\ pending' = pending
    BY <1>11 DEF Take
  <2>3. Unstored' = Unstored  BY <1>1, <2>2 DEF Unstored
  <2>4. result' = [result EXCEPT ![t] = Head(Contents)]  BY <1>1, <2>1, <2>2
  <2>5. QED  BY <2>1, <2>3, <2>4 DEF FIFO!Dequeue
<1>12. ASSUME NEW t \in Sizers, Sample(t)  PROVE FIFO!GetSize(t)
  <2>1. /\ pc[t] = "body" /\ pc' = [pc EXCEPT ![t] = "unlock"]
        /\ local' = [local EXCEPT ![t] = size] /\ pending' = pending
    BY <1>12 DEF Sample
  <2>2. Len(Contents) = size  BY ContentsSeq
  <2>3. Unstored' = Unstored  BY <1>1, <2>1 DEF Unstored
  <2>4. result' = [result EXCEPT ![t] = Len(Contents)]  BY <1>1, <2>1, <2>2
  <2>5. Contents' = Contents  BY <1>2, <1>12 DEF Sample
  <2>6. QED  BY <2>3, <2>4, <2>5 DEF FIFO!GetSize
<1>13. ASSUME NEW t \in Threads, Unlock(t)  PROVE UNCHANGED FIFO!qvars
  BY <1>1, <1>2, <1>3, <1>13 DEF Unlock, FIFO!qvars
<1>14. ASSUME NEW t \in Enqueuers, SignalDequeue(t)  PROVE UNCHANGED FIFO!qvars
  BY <1>1, <1>2, <1>3, <1>14 DEF SignalDequeue, FIFO!qvars
<1>15. ASSUME NEW t \in Dequeuers, SignalEnqueue(t)  PROVE UNCHANGED FIFO!qvars
  BY <1>1, <1>2, <1>3, <1>15 DEF SignalEnqueue, FIFO!qvars
<1>16. ASSUME NEW t \in Threads, SpuriousWake(t)  PROVE UNCHANGED FIFO!qvars
  BY <1>1, <1>2, <1>3, <1>16 DEF SpuriousWake, FIFO!qvars
<1>17. CASE UNCHANGED vars
  BY <1>2, <1>3, <1>17 DEF vars, FIFO!qvars
<1>18. ASSUME NEW t \in Enqueuers, Put(t)  PROVE FIFO!Next
  <2>1. local[t] \in Items
    BY <1>18 DEF ItemsHeldOnce, Storing, Put
  <2>2. QED  BY <1>10, <1>18, <2>1 DEF FIFO!Next
<1>19. QED
  BY <1>4, <1>5, <1>6, <1>7, <1>8, <1>9, <1>11, <1>12, <1>13, <1>14, <1>15, <1>16, <1>17, <1>18
  DEF Next, EnqueueStep, DequeueStep, GetSizeStep, Shared, FIFO!Next

\* For every capacity and all sets of threads and items, the mutex, the ring
\* and the condition variables of ts_queue.hpp behave as one bounded FIFO with
\* atomic enqueue, dequeue and get_size: no item is lost, duplicated or
\* overtaken, and get_size returns a length the queue really had.
THEOREM QueueImplementsFIFO == Spec => ImplementsFIFO
<1>1. Spec => [](IInv /\ ItemsHeldOnce)
  BY InitIInv, NextIInv, InitItemsHeldOnce, NextItemsHeldOnce, PTL DEF Spec
<1>2. QED
  BY <1>1, InitRefines, NextRefines, PTL DEF Spec, ImplementsFIFO, FIFO!Spec
=============================================================================
