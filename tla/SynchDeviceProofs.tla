------------------------- MODULE SynchDeviceProofs --------------------------
(***************************************************************************)
(* Theorems about SynchDevice, for every set of threads, every set of      *)
(* request counts and every number of calls.                               *)
(***************************************************************************)
EXTENDS SynchDevice, TLAPS

-----------------------------------------------------------------------------
(* What P and V do to semaphores that never exceed 1.                      *)

\* V on a semaphore that is down raises it to 1 and keeps its queue one of threads.
LEMMA VRaises ==
    ASSUME SynchTypeOK, NEW s \in Semaphores, value[s] = 0, V(s)
    PROVE  /\ value' = [value EXCEPT ![s] = 1]
           /\ queue' \in [Semaphores -> Seq(Threads)]
<1>1. value' = [value EXCEPT ![s] = 1]
  BY DEF SynchTypeOK, V
<1>2. queue[s] # << >> => Tail(queue[s]) \in Seq(Threads)
  BY DEF SynchTypeOK
<1> QED
  BY <1>1, <1>2 DEF SynchTypeOK, V

\* A thread passes P only on a raised semaphore, and leaves it down.
LEMMA PassTakes ==
    ASSUME SynchTypeOK, NEW t \in Threads, NEW s \in Semaphores, PPass(t, s)
    PROVE  /\ value[s] = 1
           /\ value' = [value EXCEPT ![s] = 0]
           /\ queue' = queue
<1>1. value[s] = 1
  BY DEF SynchTypeOK, PPass
<1> QED
  BY <1>1 DEF PPass

\* A thread that sleeps in P leaves the values alone.
LEMMA SleepQueues ==
    ASSUME SynchTypeOK, NEW t \in Threads, NEW s \in Semaphores, PSleep(t, s)
    PROVE  /\ value' = value
           /\ queue' \in [Semaphores -> Seq(Threads)]
<1>1. Append(queue[s], t) \in Seq(Threads)
  BY DEF SynchTypeOK
<1> QED
  BY <1>1 DEF SynchTypeOK, PSleep

-----------------------------------------------------------------------------
\* The lock's semaphore is down exactly while a thread is between Acquire and
\* Release, and there is one such thread at most.
LockOwned ==
    /\ value[LockSem] = IF \E t \in Threads : Inside(t) THEN 0 ELSE 1
    /\ \A t, u \in Threads : Inside(t) /\ Inside(u) => t = u

\* How far each call is.
Progress ==
    \A t \in Threads :
        /\ pc[t] \in {"idle", "release"} => sent[t] = length[t]
        /\ pc[t] \in {"acquire", "locked"} => sent[t] = 0 /\ length[t] > 0
        /\ pc[t] = "request" => sent[t] < length[t]
        /\ pc[t] = "wait" => sent[t] > 0

IInv == TypeOK /\ LockOwned /\ CompletionsMatch /\ Progress

-----------------------------------------------------------------------------
\* What a call has to send and has sent are natural numbers.
LEMMA CountsAreNumbers ==
    ASSUME TypeOK PROVE \A t \in Threads : sent[t] \in Nat /\ length[t] \in Nat
<1> SUFFICES ASSUME NEW t \in Threads PROVE sent[t] \in Nat /\ length[t] \in Nat
  OBVIOUS
<1>1. Lengths \cup {0} \subseteq Nat
  BY DeviceAssumption
<1>2. length[t] \in Lengths \cup {0} /\ sent[t] \in Nat
  BY DEF TypeOK
<1> QED
  BY <1>1, <1>2

\* The freshly constructed device satisfies the invariant.
LEMMA InitHolds == Init => IInv
<1> SUFFICES ASSUME Init PROVE IInv
  OBVIOUS
<1> USE SynchAssumption, DeviceAssumption
<1>1. TypeOK
  <2>1. SynchTypeOK
    <3>1. << >> \in Seq(Threads)
      OBVIOUS
    <3> QED
      BY <3>1 DEF Init, SynchInit, SynchTypeOK
  <2>2. length \in [Threads -> Lengths \cup {0}]
    BY DEF Init
  <2>3. sent \in [Threads -> Nat] /\ calls \in [Threads -> 0 .. MaxCalls]
    BY DEF Init
  <2>4. \A t \in Threads : sent[t] <= length[t]
    BY DEF Init
  <2>5. /\ active \in BOOLEAN
        /\ pc \in [Threads -> {"idle", "acquire", "locked", "request", "wait", "release"}]
    BY DEF Init
  <2> QED
    BY <2>1, <2>2, <2>3, <2>4, <2>5 DEF TypeOK
<1>2. LockOwned
  BY DEF Init, SynchInit, LockOwned, Inside
<1>3. CompletionsMatch
  BY DEF Init, SynchInit, CompletionsMatch, Inside
<1>4. Progress
  BY DEF Init, Progress
<1> QED
  BY <1>1, <1>2, <1>3, <1>4 DEF IInv

\* The next-state relation preserves the invariant, action by action.
LEMMA NextPreserves == IInv /\ [Next]_vars => IInv'
<1> SUFFICES ASSUME IInv, [Next]_vars PROVE IInv'
  OBVIOUS
<1> USE SynchAssumption, DeviceAssumption
<1>0. SynchTypeOK
  BY DEF IInv, TypeOK
<1>1. ASSUME NEW t \in Threads, Call(t) PROVE IInv'
  <2>1. PICK n \in Lengths : length' = [length EXCEPT ![t] = n]
    BY <1>1 DEF Call
  <2>2. TypeOK'
    BY <1>1, <2>1 DEF IInv, TypeOK, SynchTypeOK, Call, Goto, semaphores
  <2>3. LockOwned'
    BY <1>1 DEF IInv, TypeOK, LockOwned, Inside, Call, Goto, semaphores
  <2>4. CompletionsMatch'
    BY <1>1 DEF IInv, TypeOK, CompletionsMatch, Inside, Call, Goto, semaphores
  <2>5. Progress'
    BY <1>1, <2>1 DEF IInv, TypeOK, Progress, Call, Goto
  <2> QED
    BY <2>2, <2>3, <2>4, <2>5 DEF IInv
<1>2. ASSUME NEW t \in Threads, Acquire(t) PROVE IInv'
  <2>1. CASE PSleep(t, LockSem) /\ UNCHANGED pc
    BY <1>0, <1>2, <2>1, SleepQueues
    DEF IInv, TypeOK, SynchTypeOK, LockOwned, CompletionsMatch, Progress, Inside, Acquire
  <2>2. CASE PPass(t, LockSem) /\ Goto(t, "locked")
    <3>1. value[LockSem] = 1 /\ value' = [value EXCEPT ![LockSem] = 0] /\ queue' = queue
      BY <1>0, <2>2, PassTakes
    <3>2. \A u \in Threads : ~ Inside(u)
      BY <3>1 DEF IInv, LockOwned
    <3>3. TypeOK'
      BY <1>2, <2>2, <3>1 DEF IInv, TypeOK, SynchTypeOK, Acquire, Goto
    <3>4. LockOwned'
      BY <2>2, <3>1, <3>2 DEF IInv, TypeOK, SynchTypeOK, LockOwned, Inside, Goto
    <3>5. CompletionsMatch'
      BY <1>2, <2>2, <3>1, <3>2
      DEF IInv, TypeOK, SynchTypeOK, CompletionsMatch, Inside, Acquire, Goto
    <3>6. Progress'
      BY <1>2, <2>2 DEF IInv, TypeOK, Progress, Acquire, Goto
    <3> QED
      BY <3>3, <3>4, <3>5, <3>6 DEF IInv
  <2> QED
    BY <1>2, <2>1, <2>2 DEF Acquire
<1>3. ASSUME NEW t \in Threads, Hold(t) PROVE IInv'
  <2>1. TypeOK'
    BY <1>3 DEF IInv, TypeOK, SynchTypeOK, Hold, Goto, semaphores
  <2>2. LockOwned'
    BY <1>3 DEF IInv, TypeOK, LockOwned, Inside, Hold, Goto, semaphores
  <2>3. CompletionsMatch'
    BY <1>3 DEF IInv, TypeOK, CompletionsMatch, Inside, Hold, Goto, semaphores
  <2>4. Progress'
    BY <1>3 DEF IInv, TypeOK, Progress, Hold, Goto
  <2> QED
    BY <2>1, <2>2, <2>3, <2>4 DEF IInv
<1>4. ASSUME NEW t \in Threads, Request(t) PROVE IInv'
  <2>1. ~ active /\ value[Done] = 0
    BY <1>4 DEF IInv, TypeOK, SynchTypeOK, CompletionsMatch, Inside, Request
  <2>2. TypeOK'
    <3>1. sent' \in [Threads -> Nat] /\ \A u \in Threads : sent'[u] <= length[u]
      BY <1>4, CountsAreNumbers DEF IInv, TypeOK, Progress, Request
    <3> QED
      BY <1>4, <3>1 DEF IInv, TypeOK, SynchTypeOK, Request, Goto, semaphores
  <2>3. LockOwned'
    BY <1>4 DEF IInv, TypeOK, LockOwned, Inside, Request, Goto, semaphores
  <2>4. CompletionsMatch'
    BY <1>4, <2>1 DEF IInv, TypeOK, CompletionsMatch, Inside, Request, Goto, semaphores
  <2>5. Progress'
    BY <1>4, CountsAreNumbers DEF IInv, TypeOK, Progress, Request, Goto
  <2> QED
    BY <2>2, <2>3, <2>4, <2>5 DEF IInv
<1>5. ASSUME NEW t \in Threads, Await(t) PROVE IInv'
  <2>1. CASE PSleep(t, Done) /\ UNCHANGED pc
    BY <1>0, <1>5, <2>1, SleepQueues
    DEF IInv, TypeOK, SynchTypeOK, LockOwned, CompletionsMatch, Progress, Inside, Await
  <2>2. CASE /\ PPass(t, Done)
             /\ Goto(t, IF sent[t] < length[t] THEN "request" ELSE "release")
    <3>1. value[Done] = 1 /\ value' = [value EXCEPT ![Done] = 0] /\ queue' = queue
      BY <1>0, <2>2, PassTakes
    <3>2. ~ active /\ \A u \in Threads : Inside(u) => u = t
      BY <1>5, <3>1 DEF IInv, CompletionsMatch, Inside, Await
    <3>3. TypeOK'
      BY <1>5, <2>2, <3>1 DEF IInv, TypeOK, SynchTypeOK, Await, Goto
    <3>4. LockOwned'
      BY <1>5, <2>2, <3>1 DEF IInv, TypeOK, SynchTypeOK, LockOwned, Inside, Await, Goto
    <3>5. CompletionsMatch'
      BY <1>5, <2>2, <3>1, <3>2
      DEF IInv, TypeOK, SynchTypeOK, CompletionsMatch, Inside, Await, Goto
    <3>6. Progress'
      BY <1>5, <2>2, CountsAreNumbers DEF IInv, TypeOK, Progress, Await, Goto
    <3> QED
      BY <3>3, <3>4, <3>5, <3>6 DEF IInv
  <2> QED
    BY <1>5, <2>1, <2>2 DEF Await
<1>6. ASSUME NEW t \in Threads, Release(t) PROVE IInv'
  <2>1. value[LockSem] = 0 /\ \A u \in Threads : Inside(u) => u = t
    BY <1>6 DEF IInv, LockOwned, Inside, Release
  <2>2. /\ value' = [value EXCEPT ![LockSem] = 1]
        /\ queue' \in [Semaphores -> Seq(Threads)]
    BY <1>0, <1>6, <2>1, VRaises DEF Release, LockRelease
  <2>3. TypeOK'
    BY <1>6, <2>2 DEF IInv, TypeOK, SynchTypeOK, Release, LockRelease, Goto
  <2>4. LockOwned'
    BY <1>6, <2>1, <2>2 DEF IInv, TypeOK, SynchTypeOK, LockOwned, Inside, Release, Goto
  <2>5. CompletionsMatch'
    BY <1>6, <2>2 DEF IInv, TypeOK, SynchTypeOK, CompletionsMatch, Inside, Release, Goto
  <2>6. Progress'
    BY <1>6 DEF IInv, TypeOK, Progress, Release, Goto
  <2> QED
    BY <2>3, <2>4, <2>5, <2>6 DEF IInv
<1>7. ASSUME Interrupt PROVE IInv'
  <2>1. value[Done] = 0
    BY <1>7 DEF IInv, TypeOK, SynchTypeOK, CompletionsMatch, Interrupt
  <2>2. /\ value' = [value EXCEPT ![Done] = 1]
        /\ queue' \in [Semaphores -> Seq(Threads)]
    BY <1>0, <1>7, <2>1, VRaises DEF Interrupt, CallBack
  <2>3. TypeOK'
    <3>1. SynchTypeOK'
      BY <1>0, <1>7, <2>2 DEF SynchTypeOK, Interrupt
    <3> QED
      BY <1>7, <3>1 DEF IInv, TypeOK, Interrupt
  <2>4. LockOwned'
    BY <1>7, <2>2 DEF IInv, TypeOK, SynchTypeOK, LockOwned, Inside, Interrupt
  <2>5. CompletionsMatch'
    BY <1>7, <2>2 DEF IInv, TypeOK, SynchTypeOK, CompletionsMatch, Inside, Interrupt
  <2>6. Progress'
    BY <1>7 DEF IInv, Progress, Interrupt
  <2> QED
    BY <2>3, <2>4, <2>5, <2>6 DEF IInv
<1>8. CASE UNCHANGED vars
  BY <1>8 DEF IInv, TypeOK, SynchTypeOK, LockOwned, CompletionsMatch, Progress, Inside,
              vars, semaphores
<1> QED
  BY <1>1, <1>2, <1>3, <1>4, <1>5, <1>6, <1>7, <1>8 DEF Next, Step

\* The inductive invariant.
THEOREM InvariantHolds == Spec => []IInv
  BY InitHolds, NextPreserves, PTL DEF Spec

-----------------------------------------------------------------------------
\* The types, and that no semaphore exceeds 1.
THEOREM TypeCorrect == Spec => []TypeOK
<1>1. IInv => TypeOK
  BY DEF IInv
<1> QED
  BY <1>1, InvariantHolds, PTL

\* Each completion belongs to the one thread that waits for it.
THEOREM CompletionsAlwaysMatch == Spec => []CompletionsMatch
<1>1. IInv => CompletionsMatch
  BY DEF IInv
<1> QED
  BY <1>1, InvariantHolds, PTL

\* The assertions of the device models hold: it is never asked while busy, and
\* no stale completion is left for the next caller.
THEOREM DeviceNeverBusyAtRequest == Spec => []DeviceFreeAtRequest
<1>1. IInv => DeviceFreeAtRequest
  BY DeviceAssumption
  DEF IInv, TypeOK, SynchTypeOK, CompletionsMatch, DeviceFreeAtRequest, Inside
<1> QED
  BY <1>1, InvariantHolds, PTL

\* Two calls never have their requests mixed (the characters of PutInt).
THEOREM CallsStayWhole == Spec => []CallsNotInterleaved
<1>1. IInv => CallsNotInterleaved
  <2> SUFFICES ASSUME IInv, NEW t \in Threads, NEW u \in Threads, Partial(t), Partial(u)
               PROVE  t = u
    BY DEF CallsNotInterleaved
  <2>1. \A x \in Threads : Partial(x) => Inside(x)
    <3> SUFFICES ASSUME NEW x \in Threads, Partial(x) PROVE Inside(x)
      OBVIOUS
    <3>1. sent[x] \in Nat /\ length[x] \in Nat
      BY CountsAreNumbers DEF IInv
    <3> QED
      BY <3>1 DEF IInv, TypeOK, Progress, Partial, Inside
  <2> QED
    BY <2>1 DEF IInv, LockOwned
<1> QED
  BY <1>1, InvariantHolds, PTL
=============================================================================
