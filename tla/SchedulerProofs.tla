--------------------------- MODULE SchedulerProofs ---------------------------
(***************************************************************************)
(* What the MLFQ scheduler does for every number of programs, every        *)
(* command line, every size of a level, timer period, aging limit and step *)
(* and every bound on bursts and sleeps: no ready thread is lost or listed *)
(* twice, L1 and L2 stay sorted although their keys change, aging is       *)
(* prompt, the timer leaves the best thread running, the count of -ee is   *)
(* exact.                                                                  *)
(*                                                                         *)
(* The lists come first: what InsertThreadToReadyList, FindNextToRun and   *)
(* Aging do to lists that hold a set of threads (Listed) in order (Sorted).*)
(* The inductive invariant IInv says that the lists hold the ready threads *)
(* and adds what keeps their keys still: only the current thread runs, and *)
(* it is in no list (StatusOK), its burst is bounded (BurstOK), a yield is *)
(* asked for at a timer tick only (TimerOK), waiting times keep step with  *)
(* the clock (WaitOK).  Each conjunct has a lemma Next... of its own.      *)
(***************************************************************************)
EXTENDS Scheduler, FiniteSetTheorems, WellFoundedInduction, TLAPS

-----------------------------------------------------------------------------
(* Numbers.                                                                *)

\* The factor of the estimates, a power of two, is a number: so many subsets
\* has a set of MaxSleeps elements.
LEMMA ScaleIsNatural == Scale \in Nat
<1>1. IsFiniteSet(1 .. MaxSleeps) /\ Cardinality(1 .. MaxSleeps) = MaxSleeps
  <2>1. MaxSleeps \in Nat /\ MaxSleeps \in Int /\ 1 \in Int
    BY SchedulerAssumption
  <2>2. /\ IsFiniteSet(1 .. MaxSleeps)
        /\ Cardinality(1 .. MaxSleeps) = IF 1 > MaxSleeps THEN 0 ELSE MaxSleeps - 1 + 1
    BY <2>1, FS_Interval
  <2> QED
    BY <2>1, <2>2
<1>2. IsFiniteSet(SUBSET (1 .. MaxSleeps)) /\ Cardinality(SUBSET (1 .. MaxSleeps)) = 2 ^ MaxSleeps
  BY <1>1, FS_SUBSET
<1>3. Cardinality(SUBSET (1 .. MaxSleeps)) \in Nat
  BY <1>2, FS_CardinalityType
<1> QED
  BY <1>2, <1>3 DEF Scale

\* A set of natural numbers has a least one: the sets {0 .. n - 1} are ordered
\* by inclusion, which is well-founded on finite sets.
LEMMA LeastNumber ==
    ASSUME NEW T, T \subseteq Nat, T # {}
    PROVE  \E n \in T : \A m \in T : n <= m
<1> DEFINE U == {0 .. n - 1 : n \in T}
<1>1. U \subseteq FiniteSubsetsOf(Nat) /\ U # {}
  <2>1. \A n \in T : IsFiniteSet(0 .. n - 1) /\ 0 .. n - 1 \subseteq Nat
    BY FS_Interval
  <2>2. \A n \in T : 0 .. n - 1 \in FiniteSubsetsOf(Nat)
    BY <2>1 DEF FiniteSubsetsOf
  <2>3. PICK n : n \in T
    OBVIOUS
  <2>4. 0 .. n - 1 \in U
    BY <2>3
  <2> QED
    BY <2>2, <2>4
<1>2. PICK x \in U : \A y \in U : <<y, x>> \notin StrictSubsetOrdering(Nat)
  <2> HIDE DEF U
  <2> QED
    BY <1>1, FS_StrictSubsetOrderingWellFounded, WFMin
<1>3. PICK n \in T : x = 0 .. n - 1
  OBVIOUS
<1>4. ASSUME NEW m \in T, m < n PROVE FALSE
  <2>1. 0 .. m - 1 \in U
    OBVIOUS
  <2>2. /\ 0 .. m - 1 \subseteq 0 .. n - 1 /\ 0 .. m - 1 # 0 .. n - 1
        /\ 0 .. m - 1 \subseteq Nat /\ 0 .. n - 1 \subseteq Nat
    BY <1>4
  <2> QED
    BY <1>2, <1>3, <2>1, <2>2 DEF StrictSubsetOrdering
<1> QED
  BY <1>4

\* A priority belongs to one of the three levels.
LEMMA Levels ==
    ASSUME NEW p \in 0 .. MaxPriority
    PROVE  QueueLevel(p) \in 1 .. 3
<1>1. LevelSize \in Nat \ {0} /\ p \in Nat /\ p < 3 * LevelSize
  BY SchedulerAssumption DEF MaxPriority
<1>2. PICK d \in Int, m \in Int : p = LevelSize * d + m /\ 0 <= m /\ m < LevelSize /\ d = p \div LevelSize
  BY <1>1
<1>3. d < 3 /\ d >= 0
  BY <1>1, <1>2
<1> QED
  BY <1>2, <1>3 DEF QueueLevel

\* The clock runs through a timer period.
LEMMA ClockTicks ==
    ASSUME NEW c \in 0 .. TimerTicks - 1
    PROVE  (c + 1) % TimerTicks = IF c + 1 = TimerTicks THEN 0 ELSE c + 1
BY SchedulerAssumption

\* The new estimate, the mean of the last burst and the old estimate, keeps its bound.
LEMMA EstimateBounded ==
    ASSUME NEW b \in Nat, b <= MaxBurst, NEW e \in 0 .. Scale * MaxBurst
    PROVE  (Scale * b + e) \div 2 \in 0 .. Scale * MaxBurst
<1>1. MaxBurst \in Nat /\ Scale \in Nat
  BY SchedulerAssumption, ScaleIsNatural
<1> HIDE DEF Scale
<1>2. Scale * b <= Scale * MaxBurst /\ Scale * b \in Nat /\ Scale * MaxBurst \in Nat
  BY <1>1
<1> QED
  BY <1>2

-----------------------------------------------------------------------------
(* Insertion into a list.                                                  *)

\* B, a set of pairs, is a strict total order of the threads.
IsOrder(B) ==
    /\ \A t, u \in Threads : t # u => <<t, u>> \in B \/ <<u, t>> \in B
    /\ \A t, u, v \in Threads : <<t, u>> \in B /\ <<u, v>> \in B => <<t, v>> \in B
    /\ \A t \in Threads : <<t, t>> \notin B

SortedBy(s, B) == \A i, j \in 1 .. Len(s) : i < j => <<s[i], s[j]>> \in B

\* q is s with t inserted at position p.
InsertedAt(q, s, p, t) ==
    /\ q \in Seq(Threads) /\ Len(q) = Len(s) + 1
    /\ p \in 1 .. Len(s) + 1 /\ q[p] = t
    /\ \A i \in 1 .. p - 1 : q[i] = s[i]
    /\ \A i \in p .. Len(s) : q[i + 1] = s[i]

\* SortedList::Insert puts the thread before the first larger element, at the end if there is none.
LEMMA InsertBeforePlaces ==
    ASSUME NEW s \in Seq(Threads), NEW t \in Threads, NEW larger, larger \subseteq 1 .. Len(s)
    PROVE  \E p \in 1 .. Len(s) + 1 :
              /\ InsertedAt(InsertBefore(s, t, larger), s, p, t)
              /\ p \in larger \/ p = Len(s) + 1
              /\ \A j \in larger : p <= j
<1>1. CASE larger = {}
  BY <1>1 DEF InsertBefore, InsertedAt
<1>2. CASE larger # {}
  <2>1. \E n \in larger : \A m \in larger : n <= m
    <3>1. larger \subseteq Nat
      OBVIOUS
    <3> QED
      BY <1>2, <3>1, LeastNumber
  <2>2. PICK p : p = CHOOSE i \in larger : \A j \in larger : i <= j
    OBVIOUS
  <2>3. p \in larger /\ \A j \in larger : p <= j
    BY <2>1, <2>2
  <2>4. InsertBefore(s, t, larger) = SubSeq(s, 1, p - 1) \o <<t>> \o SubSeq(s, p, Len(s))
    BY <1>2, <2>2 DEF InsertBefore, InsertAt
  <2>5. p \in 1 .. Len(s) /\ Len(s) \in Nat
    BY <2>3
  <2>6. /\ SubSeq(s, 1, p - 1) \in Seq(Threads) /\ Len(SubSeq(s, 1, p - 1)) = p - 1
        /\ \A i \in 1 .. p - 1 : SubSeq(s, 1, p - 1)[i] = s[i]
    BY <2>5
  <2>7. /\ SubSeq(s, p, Len(s)) \in Seq(Threads) /\ Len(SubSeq(s, p, Len(s))) = Len(s) - p + 1
        /\ \A i \in 1 .. Len(s) - p + 1 : SubSeq(s, p, Len(s))[i] = s[p + i - 1]
    BY <2>5
  <2>8. /\ SubSeq(s, 1, p - 1) \o <<t>> \in Seq(Threads) /\ Len(SubSeq(s, 1, p - 1) \o <<t>>) = p
        /\ (SubSeq(s, 1, p - 1) \o <<t>>)[p] = t
        /\ \A i \in 1 .. p - 1 : (SubSeq(s, 1, p - 1) \o <<t>>)[i] = s[i]
    BY <2>5, <2>6
  <2> DEFINE a == SubSeq(s, 1, p - 1) \o <<t>>
             b == SubSeq(s, p, Len(s))
  <2>9. /\ a \o b \in Seq(Threads) /\ Len(a \o b) = Len(s) + 1
        /\ \A i \in 1 .. p : (a \o b)[i] = a[i]
        /\ \A i \in p .. Len(s) : (a \o b)[i + 1] = b[i + 1 - p]
    <3> HIDE DEF a, b
    <3>1. a \in Seq(Threads) /\ b \in Seq(Threads) /\ Len(a) = p /\ Len(b) = Len(s) - p + 1
      BY <2>7, <2>8 DEF a, b
    <3> QED
      BY <2>5, <3>1
  <2>10. \A i \in p .. Len(s) : i + 1 - p \in 1 .. Len(s) - p + 1 /\ p + (i + 1 - p) - 1 = i
    BY <2>5
  <2>11. InsertedAt(a \o b, s, p, t)
    BY <2>5, <2>7, <2>8, <2>9, <2>10 DEF InsertedAt
  <2>12. InsertedAt(InsertBefore(s, t, larger), s, p, t)
    BY <2>4, <2>11
  <2>13. p \in 1 .. Len(s) + 1
    BY <2>5
  <2> QED
    BY <2>3, <2>12, <2>13, Zenon
<1> QED
  BY <1>1, <1>2

\* Inserted into a sorted list this way, a thread leaves it sorted.
LEMMA InsertBeforeSorts ==
    ASSUME NEW s \in Seq(Threads), NEW t \in Threads, NEW B, IsOrder(B), SortedBy(s, B),
           \A i \in 1 .. Len(s) : s[i] # t,
           NEW larger, larger \subseteq 1 .. Len(s),
           \A i \in 1 .. Len(s) : i \in larger <=> <<t, s[i]>> \in B
    PROVE  /\ \E p \in 1 .. Len(s) + 1 : InsertedAt(InsertBefore(s, t, larger), s, p, t)
           /\ SortedBy(InsertBefore(s, t, larger), B)
<1> DEFINE q == InsertBefore(s, t, larger)
<1>1. PICK p \in 1 .. Len(s) + 1 : /\ InsertedAt(q, s, p, t)
                                   /\ p \in larger \/ p = Len(s) + 1
                                   /\ \A j \in larger : p <= j
  BY InsertBeforePlaces, Zenon
<1> HIDE DEF q
<1>2. /\ Len(s) \in Nat /\ \A i \in 1 .. Len(s) : s[i] \in Threads
      /\ Len(q) = Len(s) + 1 /\ q[p] = t
      /\ \A i \in 1 .. p - 1 : q[i] = s[i]
      /\ \A i \in p .. Len(s) : q[i + 1] = s[i]
  BY <1>1 DEF InsertedAt
<1>3. \A i \in 1 .. p - 1 : <<s[i], t>> \in B
  <2> TAKE i \in 1 .. p - 1
  <2>1. i \in 1 .. Len(s) /\ i \notin larger
    BY <1>1, <1>2
  <2> QED
    BY <1>2, <2>1 DEF IsOrder
<1>4. \A i \in p .. Len(s) : <<t, s[i]>> \in B
  <2> TAKE i \in p .. Len(s)
  <2>1. p \in 1 .. Len(s) /\ <<t, s[p]>> \in B /\ i \in 1 .. Len(s)
    BY <1>1, <1>2
  <2>2. p < i => <<s[p], s[i]>> \in B
    BY <1>2, <2>1 DEF SortedBy
  <2>3. CASE i = p
    BY <2>1, <2>3
  <2>4. CASE p < i
    <3>1. s[p] \in Threads /\ s[i] \in Threads
      BY <1>2, <2>1
    <3> QED
      BY <2>1, <2>2, <2>4, <3>1 DEF IsOrder
  <2> QED
    BY <1>2, <2>3, <2>4
<1>5. ASSUME NEW i \in 1 .. Len(q), NEW j \in 1 .. Len(q), i < j PROVE <<q[i], q[j]>> \in B
  <2>1. CASE i < p /\ j < p
    <3>1. i \in 1 .. p - 1 /\ j \in 1 .. p - 1 /\ i \in 1 .. Len(s) /\ j \in 1 .. Len(s)
      BY <1>2, <2>1
    <3>2. q[i] = s[i] /\ q[j] = s[j]
      BY <1>2, <3>1
    <3> QED
      BY <1>5, <3>1, <3>2 DEF SortedBy
  <2>2. CASE i < p /\ j = p
    BY <1>2, <1>3, <1>5, <2>2
  <2>3. CASE i < p /\ j > p
    <3>1. j - 1 \in p .. Len(s) /\ q[j] = s[j - 1]
      BY <1>2, <2>3
    <3>2. i \in 1 .. Len(s) /\ j - 1 \in 1 .. Len(s) /\ i < j - 1
      BY <1>2, <2>3
    <3> QED
      BY <1>2, <2>3, <3>1, <3>2 DEF SortedBy
  <2>4. CASE i >= p
    <3>1. j - 1 \in p .. Len(s) /\ q[j] = s[j - 1]
      BY <1>2, <1>5, <2>4
    <3>2. CASE i = p
      BY <1>2, <1>4, <3>1, <3>2
    <3>3. CASE i > p
      <4>1. i - 1 \in p .. Len(s) /\ q[i] = s[i - 1]
        BY <1>2, <3>3
      <4> QED
        <5>1. i - 1 \in 1 .. Len(s) /\ j - 1 \in 1 .. Len(s) /\ i - 1 < j - 1
          BY <1>2, <1>5, <3>1, <4>1
        <5> QED
          BY <3>1, <4>1, <5>1 DEF SortedBy
    <3> QED
      BY <1>2, <2>4, <3>2, <3>3
  <2> QED
    BY <1>2, <2>1, <2>2, <2>3, <2>4
<1> QED
  BY <1>1, <1>5 DEF SortedBy, q

-----------------------------------------------------------------------------
(* The three lists.                                                        *)

BurstTypes ==
    /\ estimate \in [Threads -> 0 .. Scale * MaxBurst]
    /\ accuRunTime \in [Threads -> 0 .. MaxBurst]
    /\ ran \in 0 .. MaxBurst

Priorities == [Threads -> 0 .. MaxPriority]

L1Order == {p \in Threads \X Threads : L1Before(p[1], p[2])}
L2Order(prio) == {p \in Threads \X Threads : L2Before(p[1], p[2], prio)}

\* The lists r hold the threads of S, each once, in the list of its level.
Listed(r, prio, S) ==
    /\ r \in [1 .. 3 -> Seq(Threads)]
    /\ \A l \in 1 .. 3 : \A i \in 1 .. Len(r[l]) : r[l][i] \in S /\ QueueLevel(prio[r[l][i]]) = l
    /\ \A l \in 1 .. 3 : \A i, j \in 1 .. Len(r[l]) : r[l][i] = r[l][j] => i = j
    /\ \A t \in S : \E i \in 1 .. Len(r[QueueLevel(prio[t])]) : r[QueueLevel(prio[t])][i] = t

Sorted(r, prio) == SortedBy(r[1], L1Order) /\ SortedBy(r[2], L2Order(prio))

\* The remaining time of a thread is a number.
LEMMA RemainingType ==
    ASSUME BurstTypes, NEW t \in Threads
    PROVE  Remaining(t) \in Int
<1>1. MaxBurst \in Nat /\ Scale \in Nat
  BY SchedulerAssumption, ScaleIsNatural
<1> HIDE DEF Scale
<1>2. Scale * MaxBurst \in Nat
  BY <1>1
<1>3. estimate[t] \in Int /\ accuRunTime[t] \in Int /\ ran \in Int
  BY <1>1, <1>2 DEF BurstTypes
<1>4. accuRunTime[t] + (IF t = currentThread /\ cpu = "run" THEN ran ELSE 0) \in Int
  BY <1>3
<1>5. Scale * (accuRunTime[t] + (IF t = currentThread /\ cpu = "run" THEN ran ELSE 0)) \in Int
  BY <1>1, <1>4
<1> QED
  BY <1>3, <1>5 DEF Remaining

\* L1Compare orders the threads, by remaining time.
LEMMA L1IsOrder == BurstTypes => IsOrder(L1Order)
<1> SUFFICES ASSUME BurstTypes PROVE IsOrder(L1Order)
  OBVIOUS
<1>1. \A t \in Threads : Remaining(t) \in Int /\ t \in Int
  BY RemainingType, SchedulerAssumption DEF Threads
<1>2. \A t, u \in Threads : <<t, u>> \in L1Order <=> L1Before(t, u)
  BY DEF L1Order
<1> HIDE DEF L1Order
<1> QED
  BY <1>1, <1>2 DEF IsOrder, L1Before

\* L2Compare orders the threads, by priority.
LEMMA L2IsOrder ==
    ASSUME NEW prio \in Priorities
    PROVE  IsOrder(L2Order(prio))
<1>1. \A t \in Threads : prio[t] \in Int /\ t \in Int
  BY SchedulerAssumption DEF Threads, Priorities, MaxPriority
<1>2. \A t, u \in Threads : <<t, u>> \in L2Order(prio) <=> L2Before(t, u, prio)
  BY DEF L2Order
<1> QED
  BY <1>1, <1>2 DEF IsOrder, L2Before

\* Insertion into L1 keeps it sorted by remaining time.
LEMMA InsertL1Sorts ==
    ASSUME BurstTypes, NEW s \in Seq(Threads), SortedBy(s, L1Order),
           NEW t \in Threads, \A i \in 1 .. Len(s) : s[i] # t
    PROVE  /\ \E p \in 1 .. Len(s) + 1 : InsertedAt(InsertL1(s, t), s, p, t)
           /\ SortedBy(InsertL1(s, t), L1Order)
<1>1. PICK larger : larger = {i \in 1 .. Len(s) : L1Before(t, s[i])}
  OBVIOUS
<1>2. InsertL1(s, t) = InsertBefore(s, t, larger)
  BY <1>1 DEF InsertL1
<1>3. \A i \in 1 .. Len(s) : i \in larger <=> <<t, s[i]>> \in L1Order
  BY <1>1 DEF L1Order
<1>4. larger \subseteq 1 .. Len(s) /\ IsOrder(L1Order)
  BY <1>1, L1IsOrder
<1> HIDE DEF L1Order
<1> QED
  BY <1>2, <1>3, <1>4, InsertBeforeSorts

\* Insertion into L2 keeps it sorted by priority.
LEMMA InsertL2Sorts ==
    ASSUME NEW prio \in Priorities, NEW s \in Seq(Threads), SortedBy(s, L2Order(prio)),
           NEW t \in Threads, \A i \in 1 .. Len(s) : s[i] # t
    PROVE  /\ \E p \in 1 .. Len(s) + 1 : InsertedAt(InsertL2(s, t, prio), s, p, t)
           /\ SortedBy(InsertL2(s, t, prio), L2Order(prio))
<1>1. PICK larger : larger = {i \in 1 .. Len(s) : L2Before(t, s[i], prio)}
  OBVIOUS
<1>2. InsertL2(s, t, prio) = InsertBefore(s, t, larger)
  BY <1>1 DEF InsertL2
<1>3. \A i \in 1 .. Len(s) : i \in larger <=> <<t, s[i]>> \in L2Order(prio)
  BY <1>1 DEF L2Order
<1>4. larger \subseteq 1 .. Len(s) /\ IsOrder(L2Order(prio))
  BY <1>1, L2IsOrder
<1> QED
  BY <1>2, <1>3, <1>4, InsertBeforeSorts

\* InsertThreadToReadyList changes the list of the thread's level only, and
\* inserts it there in order.
LEMMA InsertReadyPlaces ==
    ASSUME BurstTypes, NEW prio \in Priorities, NEW t \in Threads,
           NEW r \in [1 .. 3 -> Seq(Threads)], Sorted(r, prio),
           \A l \in 1 .. 3 : \A i \in 1 .. Len(r[l]) : r[l][i] # t
    PROVE  \E q \in Seq(Threads) :
              /\ InsertReady(r, t, prio) = [r EXCEPT ![QueueLevel(prio[t])] = q]
              /\ \E p \in 1 .. Len(r[QueueLevel(prio[t])]) + 1 :
                    InsertedAt(q, r[QueueLevel(prio[t])], p, t)
              /\ QueueLevel(prio[t]) = 1 => SortedBy(q, L1Order)
              /\ QueueLevel(prio[t]) = 2 => SortedBy(q, L2Order(prio))
<1>1. PICK k : k = QueueLevel(prio[t])
  OBVIOUS
<1>2. k \in 1 .. 3 /\ \A l \in 1 .. 3 : r[l] \in Seq(Threads) /\ Len(r[l]) \in Nat
  <2>1. prio[t] \in 0 .. MaxPriority
    BY DEF Priorities
  <2> QED
    BY <1>1, <2>1, Levels
<1>3. SortedBy(r[1], L1Order) /\ SortedBy(r[2], L2Order(prio))
  BY DEF Sorted
<1>4. \A q, p : InsertedAt(q, r[k], p, t) => q \in Seq(Threads)
  BY DEF InsertedAt
<1> SUFFICES \E q : /\ InsertReady(r, t, prio) = [r EXCEPT ![k] = q]
                    /\ \E p \in 1 .. Len(r[k]) + 1 : InsertedAt(q, r[k], p, t)
                    /\ k = 1 => SortedBy(q, L1Order)
                    /\ k = 2 => SortedBy(q, L2Order(prio))
  BY <1>1, <1>4
<1>5. CASE k = 1
  <2>1. PICK q : q = InsertL1(r[1], t)
    OBVIOUS
  <2>2. InsertReady(r, t, prio) = [r EXCEPT ![k] = q]
    BY <1>1, <1>5, <2>1 DEF InsertReady
  <2>3. (\E p \in 1 .. Len(r[1]) + 1 : InsertedAt(q, r[1], p, t)) /\ SortedBy(q, L1Order)
    BY <1>2, <1>3, <2>1, InsertL1Sorts
  <2>4. (\E p \in 1 .. Len(r[k]) + 1 : InsertedAt(q, r[k], p, t)) /\ k # 2
    BY <1>5, <2>3
  <2> QED
    BY <2>2, <2>3, <2>4, Zenon
<1>6. CASE k = 2
  <2>1. PICK q : q = InsertL2(r[2], t, prio)
    OBVIOUS
  <2>2. InsertReady(r, t, prio) = [r EXCEPT ![k] = q]
    BY <1>1, <1>6, <2>1 DEF InsertReady
  <2>3. (\E p \in 1 .. Len(r[2]) + 1 : InsertedAt(q, r[2], p, t)) /\ SortedBy(q, L2Order(prio))
    BY <1>2, <1>3, <2>1, InsertL2Sorts
  <2>4. (\E p \in 1 .. Len(r[k]) + 1 : InsertedAt(q, r[k], p, t)) /\ k # 1
    BY <1>6, <2>3
  <2> QED
    BY <2>2, <2>3, <2>4, Zenon
<1>7. CASE k = 3
  <2>1. PICK q : q = Append(r[3], t)
    OBVIOUS
  <2>2. InsertReady(r, t, prio) = [r EXCEPT ![k] = q]
    BY <1>1, <1>7, <2>1 DEF InsertReady
  <2>3. InsertedAt(q, r[3], Len(r[3]) + 1, t) /\ Len(r[3]) + 1 \in 1 .. Len(r[3]) + 1
    BY <1>2, <2>1 DEF InsertedAt
  <2>4. (\E p \in 1 .. Len(r[k]) + 1 : InsertedAt(q, r[k], p, t)) /\ k # 1 /\ k # 2
    BY <1>7, <2>3
  <2> QED
    BY <2>2, <2>4, Zenon
<1> QED
  BY <1>2, <1>5, <1>6, <1>7

\* What a list with a thread inserted holds.
LEMMA InsertedHolds ==
    ASSUME NEW s \in Seq(Threads), NEW q, NEW p, NEW t \in Threads, InsertedAt(q, s, p, t),
           \A i \in 1 .. Len(s) : s[i] # t,
           \A i, j \in 1 .. Len(s) : s[i] = s[j] => i = j
    PROVE  /\ \A i \in 1 .. Len(q) : q[i] = t \/ \E j \in 1 .. Len(s) : q[i] = s[j]
           /\ \A j \in 1 .. Len(s) : \E i \in 1 .. Len(q) : q[i] = s[j]
           /\ \E i \in 1 .. Len(q) : q[i] = t
           /\ \A i, j \in 1 .. Len(q) : q[i] = q[j] => i = j
<1>1. /\ q \in Seq(Threads) /\ Len(s) \in Nat /\ Len(q) = Len(s) + 1 /\ q[p] = t /\ p \in 1 .. Len(s) + 1
      /\ \A i \in 1 .. p - 1 : q[i] = s[i]
      /\ \A i \in p .. Len(s) : q[i + 1] = s[i]
  BY DEF InsertedAt
<1>2. ASSUME NEW i \in 1 .. Len(q), i > p PROVE i - 1 \in 1 .. Len(s) /\ q[i] = s[i - 1]
  <2>1. i - 1 \in p .. Len(s) /\ i - 1 \in 1 .. Len(s) /\ (i - 1) + 1 = i
    BY <1>1, <1>2
  <2> QED
    BY <1>1, <2>1
<1>3. ASSUME NEW i \in 1 .. Len(q), i < p PROVE i \in 1 .. Len(s) /\ q[i] = s[i]
  BY <1>1, <1>3
<1>4. \A i \in 1 .. Len(q) : q[i] = t \/ \E j \in 1 .. Len(s) : q[i] = s[j]
  BY <1>1, <1>2, <1>3
<1>5. ASSUME NEW j \in 1 .. Len(s) PROVE \E i \in 1 .. Len(q) : q[i] = s[j]
  <2>1. CASE j < p
    BY <1>1, <2>1
  <2>2. CASE j >= p
    BY <1>1, <2>2
  <2> QED
    BY <1>1, <2>1, <2>2
<1>6. ASSUME NEW i \in 1 .. Len(q), NEW j \in 1 .. Len(q), q[i] = q[j], i < j PROVE FALSE
  <2>1. i \in Int /\ j \in Int /\ p \in Int
    BY <1>1
  <2>2. CASE j < p
    <3>1. i \in 1 .. Len(s) /\ j \in 1 .. Len(s) /\ q[i] = s[i] /\ q[j] = s[j]
      BY <1>3, <1>6, <2>1, <2>2
    <3>2. i = j
      BY <3>1, <1>6
    <3> QED
      BY <1>6, <2>1, <3>2
  <2>3. CASE j = p
    BY <1>1, <1>3, <1>6, <2>3
  <2>4. CASE j > p /\ i < p
    <3>1. i \in 1 .. Len(s) /\ j - 1 \in 1 .. Len(s) /\ q[i] = s[i] /\ q[j] = s[j - 1]
      BY <1>2, <1>3, <1>6, <2>1, <2>4
    <3>2. i = j - 1
      BY <3>1, <1>6
    <3> QED
      BY <2>1, <2>4, <3>2
  <2>5. CASE j > p /\ i = p
    BY <1>1, <1>2, <1>6, <2>5
  <2>6. CASE j > p /\ i > p
    <3>1. i - 1 \in 1 .. Len(s) /\ j - 1 \in 1 .. Len(s) /\ q[i] = s[i - 1] /\ q[j] = s[j - 1]
      BY <1>2, <1>6, <2>1, <2>6
    <3>2. i - 1 = j - 1
      BY <3>1, <1>6
    <3> QED
      BY <1>6, <2>1, <3>2
  <2> QED
    BY <2>1, <2>2, <2>3, <2>4, <2>5, <2>6
<1>7. \A i, j \in 1 .. Len(q) : q[i] = q[j] => i = j
  BY <1>1, <1>6
<1> QED
  BY <1>1, <1>4, <1>5, <1>7

\* InsertThreadToReadyList puts a thread into the list of its level and nowhere
\* else, and keeps L1 and L2 sorted.
LEMMA InsertReadyKeeps ==
    ASSUME BurstTypes, NEW prio \in Priorities, NEW S, S \subseteq Threads,
           NEW t \in Threads, t \notin S, NEW r, Listed(r, prio, S), Sorted(r, prio)
    PROVE  /\ Listed(InsertReady(r, t, prio), prio, S \cup {t})
           /\ Sorted(InsertReady(r, t, prio), prio)
<1>1. PICK k : k = QueueLevel(prio[t])
  OBVIOUS
<1>2. PICK R : R = InsertReady(r, t, prio)
  OBVIOUS
<1>3. /\ r \in [1 .. 3 -> Seq(Threads)]
      /\ \A u \in S : QueueLevel(prio[u]) \in 1 .. 3
      /\ k \in 1 .. 3
  BY <1>1, Levels DEF Listed, Priorities
<1>4. \A l \in 1 .. 3 : \A i \in 1 .. Len(r[l]) : r[l][i] # t
  BY DEF Listed
<1>5. PICK q \in Seq(Threads) :
              /\ R = [r EXCEPT ![k] = q]
              /\ \E p \in 1 .. Len(r[k]) + 1 : InsertedAt(q, r[k], p, t)
              /\ k = 1 => SortedBy(q, L1Order)
              /\ k = 2 => SortedBy(q, L2Order(prio))
  <2>1. \E q \in Seq(Threads) :
              /\ InsertReady(r, t, prio) = [r EXCEPT ![QueueLevel(prio[t])] = q]
              /\ \E p \in 1 .. Len(r[QueueLevel(prio[t])]) + 1 :
                    InsertedAt(q, r[QueueLevel(prio[t])], p, t)
              /\ QueueLevel(prio[t]) = 1 => SortedBy(q, L1Order)
              /\ QueueLevel(prio[t]) = 2 => SortedBy(q, L2Order(prio))
    BY <1>3, <1>4, InsertReadyPlaces
  <2> QED
    BY <1>1, <1>2, <2>1
<1>6. /\ R \in [1 .. 3 -> Seq(Threads)] /\ R[k] = q
      /\ \A l \in 1 .. 3 : l # k => R[l] = r[l]
  BY <1>3, <1>5
<1>7. /\ \A i \in 1 .. Len(q) : q[i] = t \/ \E j \in 1 .. Len(r[k]) : q[i] = r[k][j]
      /\ \A j \in 1 .. Len(r[k]) : \E i \in 1 .. Len(q) : q[i] = r[k][j]
      /\ \E i \in 1 .. Len(q) : q[i] = t
      /\ \A i, j \in 1 .. Len(q) : q[i] = q[j] => i = j
  <2>1. PICK p : InsertedAt(q, r[k], p, t)
    BY <1>5
  <2>2. r[k] \in Seq(Threads) /\ \A i, j \in 1 .. Len(r[k]) : r[k][i] = r[k][j] => i = j
    BY <1>3 DEF Listed
  <2>3. \A i \in 1 .. Len(r[k]) : r[k][i] # t
    BY <1>3, <1>4
  <2>4. PICK s \in Seq(Threads) : s = r[k]
    BY <2>2
  <2>5. InsertedAt(q, s, p, t)
    BY <2>1, <2>4
  <2>6. /\ \A i, j \in 1 .. Len(s) : s[i] = s[j] => i = j
        /\ \A i \in 1 .. Len(s) : s[i] # t
    BY <2>2, <2>3, <2>4
  <2>7. /\ \A i \in 1 .. Len(q) : q[i] = t \/ \E j \in 1 .. Len(s) : q[i] = s[j]
        /\ \A j \in 1 .. Len(s) : \E i \in 1 .. Len(q) : q[i] = s[j]
        /\ \E i \in 1 .. Len(q) : q[i] = t
        /\ \A i, j \in 1 .. Len(q) : q[i] = q[j] => i = j
    BY <2>5, <2>6, InsertedHolds
  <2> QED
    BY <2>4, <2>7
<1>8. ASSUME NEW l \in 1 .. 3, NEW i \in 1 .. Len(R[l])
      PROVE  R[l][i] \in S \cup {t} /\ QueueLevel(prio[R[l][i]]) = l
  <2>1. CASE l = k
    <3>1. R[l] = q /\ i \in 1 .. Len(q)
      BY <1>6, <2>1
    <3>2. CASE q[i] = t
      BY <1>1, <2>1, <3>1, <3>2
    <3>3. CASE \E j \in 1 .. Len(r[k]) : q[i] = r[k][j]
      BY <1>3, <2>1, <3>1, <3>3 DEF Listed
    <3> QED
      BY <1>7, <3>1, <3>2, <3>3
  <2>2. CASE l # k
    BY <1>6, <2>2 DEF Listed
  <2> QED
    BY <2>1, <2>2
<1>9. ASSUME NEW l \in 1 .. 3 PROVE \A i, j \in 1 .. Len(R[l]) : R[l][i] = R[l][j] => i = j
  <2>1. CASE l = k
    BY <1>6, <1>7, <2>1
  <2>2. CASE l # k
    BY <1>6, <2>2 DEF Listed
  <2> QED
    BY <2>1, <2>2
<1>10. ASSUME NEW u \in S \cup {t}
       PROVE  \E i \in 1 .. Len(R[QueueLevel(prio[u])]) : R[QueueLevel(prio[u])][i] = u
  <2>1. CASE u = t
    BY <1>1, <1>6, <1>7, <2>1
  <2>2. CASE u \in S /\ QueueLevel(prio[u]) # k
    BY <1>3, <1>6, <2>2 DEF Listed
  <2>3. CASE u \in S /\ QueueLevel(prio[u]) = k
    <3>1. PICK i \in 1 .. Len(r[k]) : r[k][i] = u
      BY <2>3 DEF Listed
    <3>2. \E a \in 1 .. Len(q) : q[a] = u
      BY <1>7, <3>1
    <3> QED
      BY <1>6, <2>3, <3>2
  <2> QED
    BY <2>1, <2>2, <2>3
<1>11. Listed(R, prio, S \cup {t})
  BY <1>6, <1>8, <1>9, <1>10 DEF Listed
<1>12. Sorted(R, prio)
  BY <1>3, <1>5, <1>6 DEF Sorted
<1> QED
  BY <1>2, <1>11, <1>12

-----------------------------------------------------------------------------
(* FindNextToRun.                                                          *)

\* When a thread is ready, there is a first list that is not empty.
LEMMA FirstLevelIs ==
    ASSUME NEW r, ~ NoneReady(r)
    PROVE  /\ FirstLevel(r) \in 1 .. 3
           /\ r[FirstLevel(r)] # << >>
           /\ \A k \in 1 .. 3 : k < FirstLevel(r) => r[k] = << >>
<1>1. \E l \in 1 .. 3 : r[l] # << >> /\ \A k \in 1 .. l - 1 : r[k] = << >>
  <2>1. CASE r[1] # << >>
    <3>1. \A k \in 1 .. 1 - 1 : r[k] = << >>
      OBVIOUS
    <3> QED
      BY <2>1, <3>1
  <2>2. CASE r[1] = << >> /\ r[2] # << >>
    <3>1. \A k \in 1 .. 2 - 1 : r[k] = << >>
      BY <2>2
    <3> QED
      BY <2>2, <3>1
  <2>3. CASE r[1] = << >> /\ r[2] = << >> /\ r[3] # << >>
    <3>1. \A k \in 1 .. 3 - 1 : k = 1 \/ k = 2
      OBVIOUS
    <3>2. \A k \in 1 .. 3 - 1 : r[k] = << >>
      BY <2>3, <3>1
    <3> QED
      BY <2>3, <3>2
  <2> QED
    BY <2>1, <2>2, <2>3 DEF NoneReady
<1>2. PICK f : f = FirstLevel(r)
  OBVIOUS
<1>3. f \in 1 .. 3 /\ r[f] # << >> /\ \A k \in 1 .. f - 1 : r[k] = << >>
  BY <1>1, <1>2 DEF FirstLevel
<1>4. \A k \in 1 .. 3 : k < f => k \in 1 .. f - 1
  BY <1>3
<1> QED
  BY <1>2, <1>3, <1>4

\* FindNextToRun takes a thread off the first list, the best of the ready ones.
LEMMA RemoveKeeps ==
    ASSUME NEW prio \in Priorities, NEW S, S \subseteq Threads, NEW r,
           Listed(r, prio, S), Sorted(r, prio), ~ NoneReady(r)
    PROVE  /\ NextToRun(r) \in S
           /\ Listed(WithoutNext(r), prio, S \ {NextToRun(r)})
           /\ Sorted(WithoutNext(r), prio)
           /\ QueueLevel(prio[NextToRun(r)]) = FirstLevel(r)
           /\ \A u \in S : FirstLevel(r) <= QueueLevel(prio[u])
           /\ \A u \in S \ {NextToRun(r)} : QueueLevel(prio[u]) = 1 => <<NextToRun(r), u>> \in L1Order
<1>1. PICK f \in 1 .. 3 : /\ f = FirstLevel(r) /\ r[f] # << >>
                          /\ \A k \in 1 .. 3 : k < f => r[k] = << >>
  BY FirstLevelIs
<1>2. PICK s \in Seq(Threads) : s = r[f]
  BY DEF Listed
<1>3. PICK n : n = NextToRun(r)
  OBVIOUS
<1>4. PICK R : R = WithoutNext(r)
  OBVIOUS
<1>5. /\ Len(s) \in Nat \ {0} /\ n = s[1] /\ Tail(s) \in Seq(Threads) /\ Len(Tail(s)) = Len(s) - 1
      /\ \A i \in 1 .. Len(s) - 1 : Tail(s)[i] = s[i + 1]
  BY <1>1, <1>2, <1>3 DEF NextToRun
<1>6. /\ R \in [1 .. 3 -> Seq(Threads)] /\ R[f] = Tail(s)
      /\ \A l \in 1 .. 3 : l # f => R[l] = r[l]
  <2>1. R = [r EXCEPT ![f] = Tail(s)]
    BY <1>1, <1>2, <1>4 DEF WithoutNext
  <2> QED
    BY <1>5, <2>1 DEF Listed
<1>7. /\ \A i \in 1 .. Len(s) : s[i] \in S /\ QueueLevel(prio[s[i]]) = f
      /\ \A i, j \in 1 .. Len(s) : s[i] = s[j] => i = j
  BY <1>2 DEF Listed
<1>8. n \in S /\ QueueLevel(prio[n]) = f
  BY <1>5, <1>7
<1>9. \A i \in 1 .. Len(s) - 1 : i + 1 \in 1 .. Len(s) /\ s[i + 1] # n
  BY <1>5, <1>7
<1>10. ASSUME NEW l \in 1 .. 3, NEW i \in 1 .. Len(R[l])
       PROVE  R[l][i] \in S \ {n} /\ QueueLevel(prio[R[l][i]]) = l
  <2>1. CASE l = f
    <3>1. i \in 1 .. Len(s) - 1 /\ R[l][i] = s[i + 1]
      BY <1>5, <1>6, <2>1
    <3> QED
      BY <1>7, <1>9, <2>1, <3>1
  <2>2. CASE l # f
    <3>1. R[l] = r[l]
      BY <1>6, <2>2
    <3>2. i \in 1 .. Len(r[l])
      BY <3>1
    <3>3. r[l][i] \in S /\ QueueLevel(prio[r[l][i]]) = l
      BY <3>2 DEF Listed
    <3>4. r[l][i] # n
      BY <1>8, <2>2, <3>3
    <3> QED
      BY <3>1, <3>3, <3>4
  <2> QED
    BY <2>1, <2>2
<1>11. ASSUME NEW l \in 1 .. 3, NEW i \in 1 .. Len(R[l]), NEW j \in 1 .. Len(R[l]), R[l][i] = R[l][j]
       PROVE  i = j
  <2>1. CASE l = f
    <3>1. s[i + 1] = s[j + 1] /\ i + 1 \in 1 .. Len(s) /\ j + 1 \in 1 .. Len(s)
      BY <1>5, <1>6, <1>9, <1>11, <2>1
    <3>2. i + 1 = j + 1
      BY <1>7, <3>1
    <3> QED
      BY <3>2
  <2>2. CASE l # f
    BY <1>6, <1>11, <2>2 DEF Listed
  <2> QED
    BY <2>1, <2>2
<1>12. ASSUME NEW u \in S \ {n}
       PROVE  \E i \in 1 .. Len(R[QueueLevel(prio[u])]) : R[QueueLevel(prio[u])][i] = u
  <2>1. QueueLevel(prio[u]) \in 1 .. 3
    BY Levels DEF Priorities
  <2>2. PICK i \in 1 .. Len(r[QueueLevel(prio[u])]) : r[QueueLevel(prio[u])][i] = u
    BY DEF Listed
  <2>3. CASE QueueLevel(prio[u]) = f
    <3>1. i \in 1 .. Len(s) /\ s[i] = u /\ i # 1
      BY <1>2, <1>5, <2>2, <2>3
    <3>2. i - 1 \in 1 .. Len(s) - 1 /\ (i - 1) + 1 = i
      BY <1>5, <3>1
    <3>3. Tail(s)[i - 1] = u /\ i - 1 \in 1 .. Len(Tail(s))
      BY <1>5, <3>1, <3>2
    <3> QED
      BY <1>6, <2>3, <3>3
  <2>4. CASE QueueLevel(prio[u]) # f
    BY <1>6, <2>1, <2>2, <2>4
  <2> QED
    BY <2>3, <2>4
<1>13. Listed(R, prio, S \ {n})
  BY <1>6, <1>10, <1>11, <1>12 DEF Listed
<1>14. ASSUME NEW B, SortedBy(s, B) PROVE SortedBy(Tail(s), B)
  BY <1>5, <1>9, <1>14 DEF SortedBy
<1>15. Sorted(R, prio)
  <2>1. CASE f = 1
    <3>1. SortedBy(s, L1Order)
      BY <1>2, <2>1 DEF Sorted
    <3>2. SortedBy(Tail(s), L1Order)
      BY <1>14, <3>1
    <3>3. R[1] = Tail(s) /\ R[2] = r[2]
      BY <1>6, <2>1
    <3>4. SortedBy(r[2], L2Order(prio))
      BY DEF Sorted
    <3> QED
      BY <3>2, <3>3, <3>4, Zenon DEF Sorted
  <2>2. CASE f = 2
    <3>1. SortedBy(s, L2Order(prio))
      BY <1>2, <2>2 DEF Sorted
    <3>2. SortedBy(Tail(s), L2Order(prio))
      BY <1>14, <3>1
    <3>3. R[2] = Tail(s) /\ R[1] = r[1]
      BY <1>6, <2>2
    <3>4. SortedBy(r[1], L1Order)
      BY DEF Sorted
    <3> QED
      BY <3>2, <3>3, <3>4, Zenon DEF Sorted
  <2>3. CASE f = 3
    BY <1>2, <1>6, <2>3 DEF Sorted
  <2> QED
    BY <2>1, <2>2, <2>3
<1>16. ASSUME NEW u \in S
       PROVE  /\ f <= QueueLevel(prio[u])
              /\ u # n /\ QueueLevel(prio[u]) = 1 => <<n, u>> \in L1Order
  <2>1. PICK k \in 1 .. 3 : k = QueueLevel(prio[u])
    BY Levels DEF Priorities
  <2>2. PICK i \in 1 .. Len(r[k]) : r[k][i] = u
    BY <2>1 DEF Listed
  <2>3. r[k] # << >>
    BY <2>2
  <2>4. f <= k
    BY <1>1, <2>3
  <2>5. ASSUME u # n, k = 1 PROVE <<n, u>> \in L1Order
    <3>1. f = 1 /\ s = r[1]
      BY <1>2, <2>4, <2>5
    <3>2. i \in 1 .. Len(s) /\ s[i] = u /\ 1 < i /\ 1 \in 1 .. Len(s)
      BY <1>5, <2>2, <2>5, <3>1
    <3>3. SortedBy(s, L1Order)
      BY <3>1 DEF Sorted
    <3> QED
      BY <1>5, <3>2, <3>3 DEF SortedBy
  <2> QED
    BY <2>1, <2>4, <2>5
<1> QED
  BY <1>1, <1>3, <1>4, <1>8, <1>13, <1>15, <1>16

-----------------------------------------------------------------------------
(* Aging.                                                                  *)

\* s holds no thread twice; a and b have none in common; c holds those of a and of b.
Once(s) == \A i, j \in 1 .. Len(s) : s[i] = s[j] => i = j
Apart(a, b) == \A i \in 1 .. Len(a) : \A j \in 1 .. Len(b) : a[i] # b[j]
HoldsBoth(c, a, b) ==
    /\ \A i \in 1 .. Len(c) : (\E j \in 1 .. Len(a) : c[i] = a[j]) \/ \E j \in 1 .. Len(b) : c[i] = b[j]
    /\ \A j \in 1 .. Len(a) : \E i \in 1 .. Len(c) : c[i] = a[j]
    /\ \A j \in 1 .. Len(b) : \E i \in 1 .. Len(c) : c[i] = b[j]

\* Two lists, one behind the other, hold the threads of both.
LEMMA ConcatHolds ==
    ASSUME NEW a \in Seq(Threads), NEW b \in Seq(Threads), Once(a), Once(b), Apart(a, b)
    PROVE  a \o b \in Seq(Threads) /\ Once(a \o b) /\ HoldsBoth(a \o b, a, b)
<1>0. PICK c : c = a \o b
  OBVIOUS
<1>1. /\ c \in Seq(Threads) /\ Len(a) \in Nat /\ Len(b) \in Nat /\ Len(c) = Len(a) + Len(b)
      /\ \A i \in 1 .. Len(a) : c[i] = a[i]
      /\ \A i \in 1 .. Len(b) : c[i + Len(a)] = b[i]
  BY <1>0
<1>2. ASSUME NEW i \in 1 .. Len(c), i > Len(a)
      PROVE  i - Len(a) \in 1 .. Len(b) /\ c[i] = b[i - Len(a)]
  <2>1. i - Len(a) \in 1 .. Len(b) /\ (i - Len(a)) + Len(a) = i
    BY <1>1, <1>2
  <2> QED
    BY <1>1, <2>1
<1>3. ASSUME NEW i \in 1 .. Len(c), i <= Len(a) PROVE i \in 1 .. Len(a) /\ c[i] = a[i]
  BY <1>1, <1>3
<1>4. ASSUME NEW i \in 1 .. Len(c), NEW j \in 1 .. Len(c), c[i] = c[j] PROVE i = j
  <2>1. i \in Int /\ j \in Int /\ Len(a) \in Int
    BY <1>1
  <2>2. CASE i <= Len(a) /\ j <= Len(a)
    BY <1>3, <1>4, <2>2 DEF Once
  <2>3. CASE i > Len(a) /\ j > Len(a)
    <3>1. i - Len(a) = j - Len(a)
      BY <1>2, <1>4, <2>3 DEF Once
    <3> QED
      BY <2>1, <3>1
  <2>4. CASE i <= Len(a) /\ j > Len(a)
    BY <1>2, <1>3, <1>4, <2>4 DEF Apart
  <2>5. CASE i > Len(a) /\ j <= Len(a)
    BY <1>2, <1>3, <1>4, <2>5 DEF Apart
  <2> QED
    BY <2>1, <2>2, <2>3, <2>4, <2>5
<1>5. ASSUME NEW i \in 1 .. Len(c)
      PROVE  (\E j \in 1 .. Len(a) : c[i] = a[j]) \/ \E j \in 1 .. Len(b) : c[i] = b[j]
  <2>1. CASE i <= Len(a)
    BY <1>3, <2>1
  <2>2. CASE i > Len(a)
    BY <1>2, <2>2
  <2> QED
    BY <1>1, <2>1, <2>2
<1>6. ASSUME NEW j \in 1 .. Len(a) PROVE \E i \in 1 .. Len(c) : c[i] = a[j]
  <2>1. j \in 1 .. Len(c)
    BY <1>1
  <2> QED
    BY <1>1, <2>1
<1>7. ASSUME NEW j \in 1 .. Len(b) PROVE \E i \in 1 .. Len(c) : c[i] = b[j]
  <2>1. j + Len(a) \in 1 .. Len(c)
    BY <1>1
  <2> QED
    BY <1>1, <2>1
<1>8. Once(c)
  BY <1>4 DEF Once
<1>9. HoldsBoth(c, a, b)
  BY <1>5, <1>6, <1>7 DEF HoldsBoth
<1> HIDE DEF Once, HoldsBoth
<1>10. c \in Seq(Threads)
  BY <1>1
<1> QED
  BY <1>0, <1>8, <1>9, <1>10

\* Aging empties the three lists into one that holds each ready thread once.
LEMMA EmptiedHolds ==
    ASSUME NEW S, S \subseteq Threads, priority \in Priorities, Listed(ready, priority, S)
    PROVE  /\ Emptied \in Seq(Threads)
           /\ \A i, j \in 1 .. Len(Emptied) : Emptied[i] = Emptied[j] => i = j
           /\ \A i \in 1 .. Len(Emptied) : Emptied[i] \in S
           /\ \A t \in S : \E i \in 1 .. Len(Emptied) : Emptied[i] = t
<1>1. PICK a \in Seq(Threads), b \in Seq(Threads), c \in Seq(Threads) :
          a = ready[3] /\ b = ready[2] /\ c = ready[1]
  BY DEF Listed
<1>2. /\ \A i \in 1 .. Len(a) : a[i] \in S /\ QueueLevel(priority[a[i]]) = 3
      /\ \A i \in 1 .. Len(b) : b[i] \in S /\ QueueLevel(priority[b[i]]) = 2
      /\ \A i \in 1 .. Len(c) : c[i] \in S /\ QueueLevel(priority[c[i]]) = 1
  BY <1>1 DEF Listed
<1>3. Once(a) /\ Once(b) /\ Once(c) /\ Apart(a, b)
  BY <1>1, <1>2 DEF Listed, Once, Apart
<1>4. PICK d : d = a \o b
  OBVIOUS
<1>5. d \in Seq(Threads) /\ Once(d) /\ HoldsBoth(d, a, b)
  BY <1>3, <1>4, ConcatHolds
<1>6. \A i \in 1 .. Len(d) : d[i] \in S /\ QueueLevel(priority[d[i]]) \in {2, 3}
  <2> TAKE i \in 1 .. Len(d)
  <2>1. CASE \E j \in 1 .. Len(a) : d[i] = a[j]
    BY <1>2, <2>1
  <2>2. CASE \E j \in 1 .. Len(b) : d[i] = b[j]
    BY <1>2, <2>2
  <2> QED
    BY <1>5, <2>1, <2>2 DEF HoldsBoth
<1>7. PICK e : e = d \o c
  OBVIOUS
<1>8. e \in Seq(Threads) /\ Once(e) /\ HoldsBoth(e, d, c)
  <2>1. Apart(d, c)
    BY <1>2, <1>6 DEF Apart
  <2> QED
    BY <1>3, <1>5, <1>7, <2>1, ConcatHolds
<1>9. e = Emptied
  <2>1. Emptied = (a \o b) \o c
    BY <1>1 DEF Emptied
  <2> QED
    BY <1>4, <1>7, <2>1
<1>10. \A i \in 1 .. Len(e) : e[i] \in S
  BY <1>2, <1>6, <1>8 DEF HoldsBoth
<1>11. ASSUME NEW t \in S PROVE \E i \in 1 .. Len(e) : e[i] = t
  <2>1. PICK k \in 1 .. 3 : k = QueueLevel(priority[t])
    BY Levels DEF Priorities
  <2>2. PICK i \in 1 .. Len(ready[k]) : ready[k][i] = t
    BY <2>1 DEF Listed
  <2>3. CASE k = 1
    BY <1>1, <1>8, <2>2, <2>3 DEF HoldsBoth
  <2>4. CASE k = 2
    <3>1. PICK j \in 1 .. Len(d) : d[j] = t
      BY <1>1, <1>5, <2>2, <2>4 DEF HoldsBoth
    <3> QED
      BY <1>8, <3>1 DEF HoldsBoth
  <2>5. CASE k = 3
    <3>1. PICK j \in 1 .. Len(d) : d[j] = t
      BY <1>1, <1>5, <2>2, <2>5 DEF HoldsBoth
    <3> QED
      BY <1>8, <3>1 DEF HoldsBoth
  <2> QED
    BY <2>3, <2>4, <2>5
<1> QED
  BY <1>8, <1>9, <1>10, <1>11 DEF Once

\* The lists while Aging inserts the threads again, one after another.
LEMMA ReinsertedIs ==
    ASSUME Len(Emptied) \in Nat
    PROVE  /\ Reinserted[0] = EmptyLists
           /\ \A n \in 1 .. Len(Emptied) :
                 Reinserted[n] = InsertReady(Reinserted[n - 1], Emptied[n], AgedPriority)
<1> DEFINE Is(f, m) == f = [n \in 0 .. m |-> IF n = 0 THEN EmptyLists
                                             ELSE InsertReady(f[n - 1], Emptied[n], AgedPriority)]
           Bad == {m \in Nat : ~ \E f : Is(f, m)}
<1>1. Bad = {}
  <2> SUFFICES ASSUME Bad # {} PROVE FALSE
    OBVIOUS
  <2>1. Bad \subseteq Nat
    OBVIOUS
  <2>2. PICK m \in Bad : \A k \in Bad : m <= k
    <3> HIDE DEF Bad
    <3> QED
      BY <2>1, LeastNumber
  <2>3. m \in Nat /\ ~ \E f : Is(f, m)
    OBVIOUS
  <2>4. CASE m = 0
    <3> DEFINE f == [n \in 0 .. 0 |-> EmptyLists]
    <3>1. Is(f, 0)
      OBVIOUS
    <3> QED
      BY <2>3, <2>4, <3>1
  <2>5. CASE m > 0
    <3>1. m - 1 \in Nat /\ m - 1 \notin Bad
      <4> HIDE DEF Bad
      <4> QED
        BY <2>1, <2>2, <2>5
    <3>2. PICK f : Is(f, m - 1)
      BY <3>1
    <3> DEFINE g == [n \in 0 .. m |-> IF n = m THEN InsertReady(f[m - 1], Emptied[m], AgedPriority) ELSE f[n]]
    <3>3. ASSUME NEW n \in 0 .. m
          PROVE  g[n] = IF n = 0 THEN EmptyLists ELSE InsertReady(g[n - 1], Emptied[n], AgedPriority)
      <4>1. CASE n = m
        <5>1. g[m - 1] = f[m - 1] /\ g[m] = InsertReady(f[m - 1], Emptied[m], AgedPriority)
          BY <2>3, <2>5
        <5> QED
          BY <2>5, <4>1, <5>1
      <4>2. CASE n # m /\ n = 0
        <5>1. g[0] = f[0] /\ f[0] = EmptyLists
          BY <2>3, <2>5, <3>2
        <5> QED
          BY <4>2, <5>1
      <4>3. CASE n # m /\ n # 0
        <5>1. n \in 0 .. m - 1 /\ n - 1 \in 0 .. m - 1
          BY <2>3, <4>3
        <5>2. g[n] = f[n] /\ g[n - 1] = f[n - 1]
          BY <2>3, <4>3, <5>1
        <5>3. f[n] = InsertReady(f[n - 1], Emptied[n], AgedPriority)
          BY <3>2, <4>3, <5>1
        <5> QED
          BY <4>3, <5>2, <5>3
      <4> QED
        BY <4>1, <4>2, <4>3
    <3>4. Is(g, m)
      <4>1. g = [n \in 0 .. m |-> g[n]]
        OBVIOUS
      <4> HIDE DEF g
      <4> QED
        BY <3>3, <4>1
    <3> QED
      BY <2>3, <3>4
  <2> QED
    BY <2>3, <2>4, <2>5
<1>2. PICK f : Is(f, Len(Emptied))
  BY <1>1
<1>3. Reinserted = [n \in 0 .. Len(Emptied) |->
                      IF n = 0 THEN EmptyLists ELSE InsertReady(Reinserted[n - 1], Emptied[n], AgedPriority)]
  BY <1>2 DEF Reinserted
<1> QED
  BY <1>3

\* A promoted priority is a priority.
LEMMA AgedPriorityType ==
    ASSUME priority \in Priorities
    PROVE  AgedPriority \in Priorities
<1>1. AgingStep \in Nat /\ MaxPriority \in Int
  BY SchedulerAssumption DEF MaxPriority
<1>2. \A p \in 0 .. MaxPriority : IncPriority(p) \in 0 .. MaxPriority
  BY <1>1 DEF IncPriority
<1> QED
  BY <1>2 DEF Priorities, AgedPriority

\* Aging lists the same threads by their new priorities, L1 and L2 sorted.
LEMMA AgedReadyKeeps ==
    ASSUME BurstTypes, NEW S, S \subseteq Threads, priority \in Priorities, Listed(ready, priority, S)
    PROVE  Listed(AgedReady, AgedPriority, S) /\ Sorted(AgedReady, AgedPriority)
<1>1. PICK e \in Seq(Threads) : e = Emptied
  BY EmptiedHolds
<1>2. /\ \A i, j \in 1 .. Len(e) : e[i] = e[j] => i = j
      /\ \A i \in 1 .. Len(e) : e[i] \in S
      /\ \A t \in S : \E i \in 1 .. Len(e) : e[i] = t
  BY <1>1, EmptiedHolds
<1>3. PICK prio \in Priorities : prio = AgedPriority
  BY AgedPriorityType
<1>4. PICK R : R = Reinserted
  OBVIOUS
<1>5. /\ R[0] = EmptyLists
      /\ \A n \in 1 .. Len(e) : R[n] = InsertReady(R[n - 1], e[n], prio)
  BY <1>1, <1>3, <1>4, ReinsertedIs
<1> DEFINE Before(n) == {e[i] : i \in 1 .. n}
           Bad == {n \in 0 .. Len(e) : ~ (Listed(R[n], prio, Before(n)) /\ Sorted(R[n], prio))}
<1>6. Bad = {}
  <2> SUFFICES ASSUME Bad # {} PROVE FALSE
    OBVIOUS
  <2>1. Bad \subseteq Nat
    OBVIOUS
  <2>2. PICK n \in Bad : \A k \in Bad : n <= k
    <3> HIDE DEF Bad
    <3> QED
      BY <2>1, LeastNumber
  <2>3. n \in 0 .. Len(e) /\ ~ (Listed(R[n], prio, Before(n)) /\ Sorted(R[n], prio))
    OBVIOUS
  <2>4. CASE n = 0
    <3>1. /\ R[0] \in [1 .. 3 -> Seq(Threads)]
          /\ \A l \in 1 .. 3 : R[0][l] = << >> /\ Len(R[0][l]) = 0
      BY <1>5 DEF EmptyLists
    <3>2. Before(0) = {}
      OBVIOUS
    <3>3. \A l \in 1 .. 3 : 1 .. Len(R[0][l]) = {}
      BY <3>1
    <3>4. Listed(R[0], prio, Before(0))
      <4> HIDE DEF Before
      <4> QED
        BY <3>1, <3>2, <3>3 DEF Listed
    <3>5. Sorted(R[0], prio)
      BY <3>3 DEF Sorted, SortedBy
    <3> QED
      BY <2>3, <2>4, <3>4, <3>5
  <2>5. CASE n > 0
    <3>1. n \in 1 .. Len(e) /\ n - 1 \in 0 .. Len(e) /\ n - 1 \notin Bad
      <4> HIDE DEF Bad
      <4> QED
        BY <2>1, <2>2, <2>3, <2>5
    <3>2. Listed(R[n - 1], prio, Before(n - 1)) /\ Sorted(R[n - 1], prio)
      BY <3>1
    <3>3. /\ Before(n - 1) \subseteq Threads
          /\ e[n] \in Threads /\ e[n] \notin Before(n - 1)
          /\ Before(n) = Before(n - 1) \cup {e[n]}
      <4>1. \A i \in 1 .. n - 1 : i \in 1 .. Len(e) /\ i # n
        BY <3>1
      <4>2. \A i : i \in 1 .. n <=> i \in 1 .. n - 1 \/ i = n
        BY <3>1
      <4>3. Before(n - 1) \subseteq Threads /\ e[n] \in Threads
        BY <3>1, <4>1
      <4>4. e[n] \notin Before(n - 1)
        BY <1>2, <3>1, <4>1
      <4>5. Before(n) = Before(n - 1) \cup {e[n]}
        BY <4>2
      <4> QED
        BY <4>3, <4>4, <4>5
    <3>4. R[n] = InsertReady(R[n - 1], e[n], prio)
      BY <1>5, <3>1
    <3> HIDE DEF Before, Bad
    <3>5. Listed(R[n], prio, Before(n)) /\ Sorted(R[n], prio)
      BY <3>2, <3>3, <3>4, InsertReadyKeeps
    <3> QED
      BY <2>3, <3>5
  <2> QED
    BY <2>3, <2>4, <2>5
<1>7. Len(e) \in 0 .. Len(e)
  OBVIOUS
<1>8. Listed(R[Len(e)], prio, Before(Len(e))) /\ Sorted(R[Len(e)], prio)
  BY <1>6, <1>7
<1>9. Before(Len(e)) = S
  BY <1>2
<1> HIDE DEF Before
<1> QED
  BY <1>1, <1>3, <1>4, <1>8, <1>9 DEF AgedReady

-----------------------------------------------------------------------------
(* The inductive invariant.                                                *)

ReadyThreads == {t \in Threads : status[t] = "READY"}

\* The types, the lists' excepted.
Types ==
    /\ status \in [Threads -> {"JUST_CREATED", "RUNNING", "READY", "BLOCKED", "DELETED"}]
    /\ priority \in Priorities
    /\ waited \in [Threads -> 0 .. WaitCap]
    /\ BurstTypes
    /\ sleeps \in [Threads -> 0 .. MaxSleeps]
    /\ currentThread \in Threads
    /\ cpu \in {"run", "idle", "idleFinishing"}
    /\ begun \subseteq Threads
    /\ execRunningNum \in Nat
    /\ clock \in 0 .. TimerTicks - 1

Flags == execExit \in BOOLEAN /\ halted \in BOOLEAN /\ yieldOnReturn \in BOOLEAN

\* The lists hold the ready threads, each once, in the list of its level.
ListsOK == Listed(ready, priority, ReadyThreads) /\ Sorted(ready, priority)

\* Only the current thread runs, and while the CPU is idle it waits: for good
\* when it has finished, perhaps already woken when it has not.
StatusOK ==
    /\ \A t \in Threads : status[t] = "RUNNING" <=> cpu = "run" /\ t = currentThread
    /\ cpu = "idle" => status[currentThread] \in {"BLOCKED", "READY"}
    /\ cpu = "idleFinishing" => status[currentThread] = "BLOCKED"

\* A burst is not longer than its bound, counting what the thread has run of its slice.
BurstOK ==
    /\ cpu = "run" => accuRunTime[currentThread] + ran <= MaxBurst
    /\ cpu # "run" => ran = 0

\* The timer asks for a Yield of a running thread, at a tick.
TimerOK == yieldOnReturn => clock = 0 /\ cpu = "run"

\* After a promotion a thread has waited no longer than the limit, and from one
\* timer interrupt to the next no longer than the clock shows.
WaitOK ==
    /\ \A t \in Threads : status[t] # "READY" => waited[t] = 0
    /\ \A t \in Threads : status[t] = "READY" /\ priority[t] < MaxPriority =>
          waited[t] <= AgingLimit + IF yieldOnReturn THEN TimerTicks ELSE clock

\* A thread that is not past Begin is new, ready or running; main is past it.
BegunOK ==
    /\ 0 \in begun
    /\ \A t \in Threads \ begun : status[t] \in {"JUST_CREATED", "READY", "RUNNING"}
    /\ ~ execExit => execRunningNum = 0
    /\ halted => cpu = "run" /\ currentThread \in begun

\* The programs RunningCounted counts.
Alive == {t \in begun \cap ExecThreads : ~ Ended(t) /\ ~ Halting(t)}
CountOK == execExit => execRunningNum = Cardinality(Alive)

IInv == /\ Types /\ Flags /\ ListsOK /\ StatusOK /\ BurstOK /\ TimerOK /\ WaitOK /\ BegunOK
        /\ CountOK

\* What the constants say.
LEMMA Constants ==
    /\ {ExecNum, LevelSize, AgingStep, AgingLimit, TimerTicks, MaxBurst} \subseteq Nat \ {0}
    /\ MaxSleeps \in Nat /\ Scale \in Nat
    /\ WaitCap \in Nat /\ WaitCap > AgingLimit + TimerTicks
    /\ Threads \subseteq Nat /\ 0 \in Threads
    /\ ExecThreads = Threads \ {0}
    /\ MaxPriority \in Nat
BY SchedulerAssumption, ScaleIsNatural DEF WaitCap, Threads, ExecThreads, MaxPriority

\* The initial state satisfies the invariant.
LEMMA InitIInv == Init => IInv
<1> SUFFICES ASSUME Init PROVE IInv
  OBVIOUS
<1>1. Types /\ Flags
  <2>1. /\ 0 .. MaxBurst # {} /\ 0 \in 0 .. MaxBurst /\ 0 \in 0 .. MaxSleeps /\ 0 \in 0 .. WaitCap
        /\ 0 \in 0 .. TimerTicks - 1 /\ 0 \in 0 .. MaxPriority
    BY Constants
  <2>2. 0 \in 0 .. Scale * MaxBurst
    <3> HIDE DEF Scale
    <3>1. Scale * MaxBurst \in Nat
      BY Constants
    <3> QED
      BY <3>1
  <2>3. PICK c \in CommandLines : /\ priority = [t \in Threads |-> IF t = 0 THEN 0 ELSE c.ep[t]]
                                  /\ execExit = c.ee
    BY DEF Init
  <2>4. c.ep \in [ExecThreads -> 0 .. MaxPriority] /\ c.ee \in BOOLEAN
    BY SchedulerAssumption
  <2>5. priority \in Priorities
    BY <2>1, <2>3, <2>4, Constants DEF Priorities
  <2>6. BurstTypes
    BY <2>1, <2>2 DEF Init, BurstTypes
  <2>7. Flags
    BY <2>3, <2>4 DEF Init, Flags
  <2> QED
    BY <2>1, <2>5, <2>6, <2>7, Constants DEF Init, Types
<1>2. ListsOK
  <2>1. ReadyThreads = {}
    BY DEF Init, ReadyThreads
  <2>2. /\ ready \in [1 .. 3 -> Seq(Threads)]
        /\ \A l \in 1 .. 3 : ready[l] = << >> /\ 1 .. Len(ready[l]) = {}
    BY DEF Init, EmptyLists
  <2>3. Listed(ready, priority, ReadyThreads)
    BY <2>1, <2>2 DEF Listed
  <2>4. Sorted(ready, priority)
    BY <2>2 DEF Sorted, SortedBy
  <2> QED
    BY <2>3, <2>4 DEF ListsOK
<1>3. StatusOK /\ BurstOK /\ TimerOK /\ WaitOK /\ BegunOK
  BY Constants DEF Init, StatusOK, BurstOK, TimerOK, WaitOK, BegunOK
<1>4. CountOK
  <2>1. Alive = {}
    BY DEF Init, Alive, ExecThreads
  <2> QED
    BY <2>1, FS_EmptySet DEF Init, CountOK
<1> QED
  BY <1>1, <1>2, <1>3, <1>4 DEF IInv

\* Whether a list is empty decides which of Yield's and Sleep's branches is taken.
LEMMA PreemptReady ==
    ASSUME NEW r, NEW t, Preempt(r, t)
    PROVE  ~ NoneReady(r)
BY DEF Preempt, NoneReady

\* The thread FindNextToRun takes is ready, and so is not the running one.
LEMMA NextIsReady ==
    ASSUME Types, ListsOK, ~ NoneReady(ready)
    PROVE  NextToRun(ready) \in Threads /\ status[NextToRun(ready)] = "READY"
<1>1. ReadyThreads \subseteq Threads /\ priority \in Priorities
  BY DEF ReadyThreads, Types
<1>2. NextToRun(ready) \in ReadyThreads
  BY <1>1, RemoveKeeps DEF ListsOK
<1> QED
  BY <1>2 DEF ReadyThreads

\* So is the thread FindNextToRun takes after Aging has rearranged the lists.
LEMMA AgedNextIsReady ==
    ASSUME Types, ListsOK, ~ NoneReady(AgedReady)
    PROVE  NextToRun(AgedReady) \in Threads /\ status[NextToRun(AgedReady)] = "READY"
<1>1. ReadyThreads \subseteq Threads /\ priority \in Priorities /\ BurstTypes
  BY DEF ReadyThreads, Types
<1>2. Listed(AgedReady, AgedPriority, ReadyThreads) /\ Sorted(AgedReady, AgedPriority)
  BY <1>1, AgedReadyKeeps DEF ListsOK
<1>3. AgedPriority \in Priorities
  BY <1>1, AgedPriorityType
<1>4. NextToRun(AgedReady) \in ReadyThreads
  BY <1>1, <1>2, <1>3, RemoveKeeps
<1> QED
  BY <1>4 DEF ReadyThreads

\* Aging touches ready threads only.
LEMMA AgedOthers ==
    ASSUME Types, ListsOK
    PROVE  /\ ToSet(Emptied) = ReadyThreads
           /\ AgedWaited \in [Threads -> 0 .. WaitCap]
           /\ \A t \in Threads : status[t] # "READY" =>
                 AgedPriority[t] = priority[t] /\ AgedWaited[t] = waited[t]
<1>1. ReadyThreads \subseteq Threads /\ priority \in Priorities
  BY DEF ReadyThreads, Types
<1>2. /\ Emptied \in Seq(Threads)
      /\ \A i \in 1 .. Len(Emptied) : Emptied[i] \in ReadyThreads
      /\ \A t \in ReadyThreads : \E i \in 1 .. Len(Emptied) : Emptied[i] = t
  BY <1>1, EmptiedHolds DEF ListsOK
<1>3. ToSet(Emptied) = ReadyThreads
  <2> HIDE DEF Emptied, ReadyThreads
  <2> QED
    BY <1>2 DEF ToSet
<1>4. \A t \in Threads : status[t] # "READY" => t \notin ToSet(Emptied)
  BY <1>3 DEF ReadyThreads
<1>5. AgedWaited \in [Threads -> 0 .. WaitCap]
  BY Constants DEF AgedWaited, Types
<1> QED
  BY <1>3, <1>4, <1>5 DEF AgedWaited, AgedPriority

-----------------------------------------------------------------------------
(* Every step keeps the types.                                             *)


\* The values of Thread::status.
Statuses == {"JUST_CREATED", "RUNNING", "READY", "BLOCKED", "DELETED"}

\* The numbers, Yield and Sleep keep within their bounds.
LEMMA NextTypes == IInv /\ [Next]_vars => Types' /\ Flags'
<1> SUFFICES ASSUME IInv, [Next]_vars PROVE Types' /\ Flags'
  OBVIOUS
<1> USE Constants
<1>1. /\ status \in [Threads -> Statuses]
      /\ priority \in Priorities
      /\ waited \in [Threads -> 0 .. WaitCap]
      /\ estimate \in [Threads -> 0 .. Scale * MaxBurst]
      /\ accuRunTime \in [Threads -> 0 .. MaxBurst]
      /\ ran \in 0 .. MaxBurst
      /\ sleeps \in [Threads -> 0 .. MaxSleeps]
      /\ currentThread \in Threads
      /\ cpu \in {"run", "idle", "idleFinishing"}
      /\ begun \subseteq Threads
      /\ execRunningNum \in Nat
      /\ clock \in 0 .. TimerTicks - 1
  BY DEF IInv, Types, BurstTypes, Statuses
<1>2. Flags /\ Types /\ ListsOK
  BY DEF IInv
<1>3. Flags'
  <2>1. CASE UNCHANGED vars
    BY <1>2, <2>1 DEF Flags, vars, exec, timer
  <2>2. CASE Next
    <3>1. execExit' = execExit
      BY <2>2 DEF Next, Compute, Begin, Advance, Block, Finish, FinishAndHalt, Exec, TimerYield, Yield,
                  LeaveIdle, IdleTick, WakeUp, Sleep
    <3>2. halted' \in BOOLEAN
      BY <1>2, <2>2 DEF Next, Compute, Begin, Advance, Block, Finish, FinishAndHalt, Exec, TimerYield, Yield,
                  LeaveIdle, IdleTick, WakeUp, Sleep, exec, Flags
    <3>3. yieldOnReturn' \in BOOLEAN
      BY <1>2, <2>2 DEF Next, Compute, Begin, Advance, Block, Finish, FinishAndHalt, Exec, TimerYield,
                  LeaveIdle, IdleTick, WakeUp, Sleep, timer, Flags
    <3> QED
      BY <1>2, <3>1, <3>2, <3>3 DEF Flags
  <2> QED
    BY <2>1, <2>2
<1>4. SUFFICES Types'
  BY <1>3
\* A dispatch, whatever the statuses st the other threads got.
<1>5. ASSUME NEW n \in Threads, NEW st \in [Threads -> Statuses], Dispatch(n, st)
      PROVE  /\ status' \in [Threads -> Statuses] /\ currentThread' \in Threads
             /\ ran' \in 0 .. MaxBurst /\ cpu' \in {"run", "idle", "idleFinishing"}
  BY <1>1, <1>5 DEF Dispatch, Statuses
<1>6. CASE UNCHANGED vars
  BY <1>1, <1>6 DEF vars, lists, burst, exec, timer, Types, BurstTypes, Statuses
<1>16. CASE Begin
  BY <1>1, <1>16 DEF Begin, lists, burst, timer, Types, BurstTypes, Statuses
<1>7. CASE Advance
  <2>1. ran' \in 0 .. MaxBurst
    <3>1. accuRunTime[currentThread] \in Nat
      BY <1>1
    <3> QED
      BY <1>1, <1>7, <3>1 DEF Advance
  <2>2. waited' \in [Threads -> 0 .. WaitCap]
    BY <1>1, <1>7 DEF Advance, Tick
  <2>3. clock' \in 0 .. TimerTicks - 1
    BY <1>1, <1>7, ClockTicks DEF Advance, Tick
  <2> QED
    BY <1>1, <1>7, <2>1, <2>2, <2>3 DEF Advance, burst, exec, Types, BurstTypes, Statuses
<1>8. ASSUME NEW f \in BOOLEAN, Sleep(f), sleeps' \in [Threads -> 0 .. MaxSleeps], cpu = "run",
             begun' \subseteq Threads, execRunningNum' \in Nat
      PROVE  Types'
  <2>1. (Scale * (accuRunTime[currentThread] + ran) + estimate[currentThread]) \div 2 \in 0 .. Scale * MaxBurst
    <3>1. /\ accuRunTime[currentThread] + ran \in Nat /\ accuRunTime[currentThread] + ran <= MaxBurst
          /\ estimate[currentThread] \in 0 .. Scale * MaxBurst
      BY <1>1, <1>8 DEF IInv, BurstOK
    <3> QED
      BY <3>1, EstimateBounded
  <2> HIDE DEF Scale
  <2>2. estimate' \in [Threads -> 0 .. Scale * MaxBurst]
    <3>1. estimate' = [estimate EXCEPT ![currentThread] =
                         (Scale * (accuRunTime[currentThread] + ran) + estimate[currentThread]) \div 2]
      BY <1>1, <1>8 DEF Sleep
    <3> QED
      BY <1>1, <2>1, <3>1
  <2>3. accuRunTime' \in [Threads -> 0 .. MaxBurst]
    BY <1>1, <1>8 DEF Sleep
  <2>4. priority' = priority /\ clock' = clock
    BY <1>8 DEF Sleep, timer
  <2>5. CASE NoneReady(ready)
    <3>1. /\ status' \in [Threads -> Statuses] /\ currentThread' \in Threads
          /\ ran' \in 0 .. MaxBurst /\ cpu' \in {"run", "idle", "idleFinishing"}
          /\ waited' = waited
      <4>1. /\ status' = [status EXCEPT ![currentThread] = "BLOCKED"] /\ currentThread' = currentThread
            /\ ran' = 0 /\ waited' = waited
            /\ cpu' = IF f THEN "idleFinishing" ELSE "idle"
        BY <1>8, <2>5 DEF Sleep
      <4> QED
        BY <1>1, <1>8, <4>1 DEF Statuses
    <3> QED
      BY <1>1, <1>8, <2>2, <2>3, <2>4, <3>1 DEF Types, BurstTypes, Statuses
  <2>6. CASE ~ NoneReady(ready)
    <3>1. NextToRun(ready) \in Threads
      BY <1>2, <2>6, NextIsReady
    <3>2. [status EXCEPT ![currentThread] = IF f THEN "DELETED" ELSE "BLOCKED"] \in [Threads -> Statuses]
      BY <1>1 DEF Statuses
    <3>3. Dispatch(NextToRun(ready), [status EXCEPT ![currentThread] = IF f THEN "DELETED" ELSE "BLOCKED"])
      BY <1>8, <2>6 DEF Sleep
    <3>4. waited' \in [Threads -> 0 .. WaitCap]
      BY <1>1, <1>8, <2>6 DEF Sleep
    <3>5. /\ status' \in [Threads -> Statuses] /\ currentThread' \in Threads
          /\ ran' \in 0 .. MaxBurst /\ cpu' \in {"run", "idle", "idleFinishing"}
      BY <1>5, <1>8, <3>1, <3>2, <3>3
    <3> QED
      BY <1>1, <1>8, <2>2, <2>3, <2>4, <3>4, <3>5 DEF Types, BurstTypes, Statuses
  <2> QED
    BY <2>5, <2>6
<1>9. CASE Block
  <2>1. sleeps' \in [Threads -> 0 .. MaxSleeps]
    <3>1. sleeps[currentThread] + 1 \in 0 .. MaxSleeps
      BY <1>1, <1>9 DEF Block
    <3>2. sleeps' = [sleeps EXCEPT ![currentThread] = sleeps[currentThread] + 1]
      BY <1>1, <1>9 DEF Block
    <3> QED
      BY <1>1, <3>1, <3>2
  <2> QED
    BY <1>1, <1>8, <1>9, <2>1 DEF Block, Thinking, Running, exec
<1>10. CASE Finish
  <2>1. Counted => execRunningNum # 0
    <3>1. Counted => currentThread \in Alive
      BY <1>1, <1>10 DEF IInv, StatusOK, Counted, Alive, Ended, Halting, Finish, Thinking, Running
    <3>2. IsFiniteSet(Alive)
      <4>1. IsFiniteSet(ExecThreads)
        BY FS_Interval DEF ExecThreads
      <4> QED
        BY <4>1, FS_Subset DEF Alive
    <3>3. Counted => execRunningNum = Cardinality(Alive)
      BY DEF IInv, CountOK, Counted
    <3>4. Alive # {} => Cardinality(Alive) # 0
      BY <3>2, FS_EmptySet
    <3> QED
      BY <3>1, <3>3, <3>4
  <2>2. execRunningNum' \in Nat /\ begun' \subseteq Threads /\ sleeps' \in [Threads -> 0 .. MaxSleeps]
    BY <1>1, <1>10, <2>1 DEF Finish
  <2> QED
    BY <1>8, <1>10, <2>2 DEF Finish, Thinking, Running
<1>11. CASE FinishAndHalt
  BY <1>1, <1>11 DEF FinishAndHalt, lists, burst, timer, Types, BurstTypes, Statuses
<1>12. ASSUME NEW t \in ExecThreads, Exec(t) \/ WakeUp(t) PROVE Types'
  <2>1. status' \in [Threads -> Statuses] /\ waited' \in [Threads -> 0 .. WaitCap] /\ priority' = priority
    BY <1>1, <1>12 DEF Exec, WakeUp, ReadyToRun, Statuses
  <2> QED
    BY <1>1, <1>12, <2>1 DEF Exec, WakeUp, burst, exec, timer, Types, BurstTypes, Statuses
<1>13. CASE TimerYield
  <2>1. Yield /\ cpu = "run"
    BY <1>13 DEF TimerYield, Running
  <2>2. priority' \in Priorities /\ AgedWaited \in [Threads -> 0 .. WaitCap]
    BY <1>1, <1>2, <2>1, AgedPriorityType, AgedOthers DEF Yield
  <2>3. /\ estimate' = estimate /\ sleeps' = sleeps /\ clock' = clock
        /\ begun' \subseteq Threads /\ execRunningNum' \in Nat
    BY <1>1, <2>1 DEF Yield, exec
  <2>4. CASE Preempt(AgedReady, currentThread)
    <3>1. NextToRun(AgedReady) \in Threads
      BY <1>2, <2>4, PreemptReady, AgedNextIsReady
    <3>2. [status EXCEPT ![currentThread] = "READY"] \in [Threads -> Statuses]
      BY <1>1 DEF Statuses
    <3>3. Dispatch(NextToRun(AgedReady), [status EXCEPT ![currentThread] = "READY"])
      BY <2>1, <2>4 DEF Yield
    <3>4. waited' \in [Threads -> 0 .. WaitCap]
      BY <2>1, <2>2, <2>4 DEF Yield
    <3>5. accuRunTime' \in [Threads -> 0 .. MaxBurst]
      <4>1. accuRunTime[currentThread] + ran \in 0 .. MaxBurst
        BY <1>1, <2>1 DEF IInv, BurstOK
      <4>2. accuRunTime' = [accuRunTime EXCEPT ![currentThread] = accuRunTime[currentThread] + ran]
        BY <1>1, <2>1, <2>4 DEF Yield
      <4> QED
        BY <1>1, <4>1, <4>2
    <3>6. /\ status' \in [Threads -> Statuses] /\ currentThread' \in Threads
          /\ ran' \in 0 .. MaxBurst /\ cpu' \in {"run", "idle", "idleFinishing"}
      BY <1>1, <1>5, <3>1, <3>2, <3>3
    <3> QED
      BY <1>1, <2>2, <2>3, <3>4, <3>5, <3>6 DEF Types, BurstTypes, Statuses
  <2>5. CASE ~ Preempt(AgedReady, currentThread)
    BY <1>1, <2>1, <2>2, <2>3, <2>5 DEF Yield, Types, BurstTypes, Statuses
  <2> QED
    BY <2>4, <2>5
<1>14. CASE LeaveIdle
  <2>1. NextToRun(ready) \in Threads
    BY <1>2, <1>14, NextIsReady DEF LeaveIdle
  <2>2. PICK st \in [Threads -> Statuses] : Dispatch(NextToRun(ready), st)
    BY <1>1, <1>14 DEF LeaveIdle, Statuses
  <2>3. /\ status' \in [Threads -> Statuses] /\ currentThread' \in Threads
        /\ ran' \in 0 .. MaxBurst /\ cpu' \in {"run", "idle", "idleFinishing"}
    BY <1>1, <1>5, <2>1, <2>2
  <2>4. waited' \in [Threads -> 0 .. WaitCap]
    <3>1. waited' = [waited EXCEPT ![NextToRun(ready)] = 0]
      BY <1>14 DEF LeaveIdle
    <3>2. 0 \in 0 .. WaitCap
      OBVIOUS
    <3>3. \A t \in Threads : waited'[t] \in 0 .. WaitCap
      BY <1>1, <2>1, <3>1, <3>2
    <3> QED
      BY <1>1, <3>1, <3>3
  <2> QED
    BY <1>1, <1>14, <2>3, <2>4 DEF LeaveIdle, burst, exec, timer, Types, BurstTypes, Statuses
<1>15. CASE IdleTick
  <2>1. clock' \in 0 .. TimerTicks - 1
    BY <1>1, <1>15, ClockTicks DEF IdleTick
  <2> QED
    BY <1>1, <1>15, <2>1 DEF IdleTick, lists, burst, exec, Types, BurstTypes, Statuses
<1> QED
  BY <1>6, <1>7, <1>9, <1>10, <1>11, <1>12, <1>13, <1>14, <1>15, <1>16 DEF Next, Compute

-----------------------------------------------------------------------------
(* What a step does to the statuses and to the count of threads.           *)

KeepsStatusOf(T) == \A u \in T : status'[u] = status[u]

\* The step leaves the statuses alone.
Stays == /\ KeepsStatusOf(Threads)
         /\ currentThread' = currentThread /\ cpu' = cpu
         /\ begun' = begun /\ execRunningNum' = execRunningNum /\ halted' = halted

\* The running thread gets past Begin.
Begins == /\ KeepsStatusOf(Threads)
          /\ cpu = "run" /\ currentThread' = currentThread /\ cpu' = cpu
          /\ currentThread \notin begun /\ begun' = begun \cup {currentThread}
          /\ execRunningNum' = (IF execExit THEN execRunningNum + 1 ELSE execRunningNum)
          /\ ~ halted /\ ~ halted'

\* The last counted thread finishes and halts the machine.
Halts == /\ KeepsStatusOf(Threads)
         /\ currentThread \in begun
         /\ cpu = "run" /\ currentThread' = currentThread /\ cpu' = cpu
         /\ Counted /\ execRunningNum = 1
         /\ begun' = begun /\ execRunningNum' = 0 /\ ~ halted /\ halted'

\* A new or a blocked thread becomes ready.
Awakes(t) == /\ status[t] \in {"JUST_CREATED", "BLOCKED"}
             /\ ~ (t = currentThread /\ cpu = "idleFinishing")
             /\ status'[t] = "READY" /\ KeepsStatusOf(Threads \ {t})
             /\ currentThread' = currentThread /\ cpu' = cpu
             /\ begun' = begun /\ execRunningNum' = execRunningNum /\ ~ halted /\ ~ halted'

\* What is left of the count when the running thread gives up the CPU.
CountWithout(finished) == IF finished /\ Counted THEN execRunningNum - 1 ELSE execRunningNum

\* The running thread stops, having finished or not, and no other one is ready.
Rests(finished) ==
    /\ currentThread \in begun
    /\ cpu = "run" /\ cpu' = IF finished THEN "idleFinishing" ELSE "idle"
    /\ currentThread' = currentThread
    /\ status'[currentThread] = "BLOCKED" /\ KeepsStatusOf(Threads \ {currentThread})
    /\ begun' = begun /\ execRunningNum' = CountWithout(finished) /\ ~ halted /\ ~ halted'

\* The ready thread n is dispatched; the current one gets the status st.
Switches(n, st) ==
    /\ status[n] = "READY" /\ status'[n] = "RUNNING"
    /\ KeepsStatusOf(Threads \ {n, currentThread})
    /\ currentThread # n => status'[currentThread] = st
    /\ \/ cpu = "run" /\ st \in {"READY", "BLOCKED", "DELETED"}
       \/ cpu = "idleFinishing" /\ st = "DELETED"
       \/ cpu = "idle" /\ st = status[currentThread]
    /\ cpu' = "run" /\ currentThread' = n
    /\ cpu = "run" /\ st # "READY" => currentThread \in begun
    /\ begun' = begun /\ execRunningNum' = CountWithout(cpu = "run" /\ st = "DELETED")
    /\ ~ halted /\ ~ halted'

\* A step is one of these.
LEMMA Steps ==
    IInv /\ [Next]_vars =>
        /\ execExit' = execExit
        /\ \/ Stays \/ Begins \/ Halts
           \/ \E t \in Threads : Awakes(t)
           \/ \E finished \in BOOLEAN : Rests(finished)
           \/ \E n \in Threads, st \in Statuses : Switches(n, st)
<1> SUFFICES ASSUME IInv, [Next]_vars
             PROVE  /\ execExit' = execExit
                    /\ \/ Stays \/ Begins \/ Halts
                       \/ \E t \in Threads : Awakes(t)
                       \/ \E finished \in BOOLEAN : Rests(finished)
                       \/ \E n \in Threads, st \in Statuses : Switches(n, st)
  OBVIOUS
<1>1. execExit' = execExit
  BY DEF Next, Compute, Begin, Advance, Block, Finish, FinishAndHalt, Exec, TimerYield, Yield,
         LeaveIdle, IdleTick, WakeUp, Sleep, vars
<1>2. /\ status \in [Threads -> Statuses] /\ currentThread \in Threads /\ Types /\ ListsOK
      /\ cpu \in {"run", "idle", "idleFinishing"} /\ ExecThreads \subseteq Threads
  BY Constants DEF IInv, Types, Statuses
<1>3. CASE UNCHANGED vars
  BY <1>1, <1>3 DEF vars, exec, Stays, KeepsStatusOf
<1>4. CASE Advance
  BY <1>1, <1>4 DEF Advance, exec, Stays, KeepsStatusOf
<1>14. CASE Begin
  BY <1>1, <1>14 DEF Begin, Thinking, Running, Begins, KeepsStatusOf
<1>5. CASE IdleTick
  BY <1>1, <1>5 DEF IdleTick, exec, Stays, KeepsStatusOf
<1>6. CASE FinishAndHalt
  BY <1>1, <1>6 DEF FinishAndHalt, Thinking, Running, Halts, KeepsStatusOf
<1>7. ASSUME NEW t \in ExecThreads, Exec(t) \/ WakeUp(t)
      PROVE  Awakes(t)
  <2>1. /\ status[t] \in {"JUST_CREATED", "BLOCKED"} /\ ~ (t = currentThread /\ cpu = "idleFinishing")
        /\ currentThread' = currentThread /\ cpu' = cpu
        /\ begun' = begun /\ execRunningNum' = execRunningNum /\ ~ halted /\ ~ halted'
    BY <1>7 DEF Exec, WakeUp, Thinking, Running, exec
  <2>2. status' = [status EXCEPT ![t] = "READY"]
    BY <1>7 DEF Exec, WakeUp, ReadyToRun
  <2>3. status'[t] = "READY" /\ KeepsStatusOf(Threads \ {t})
    BY <1>2, <2>2 DEF KeepsStatusOf
  <2> QED
    BY <2>1, <2>3 DEF Awakes
\* A dispatch of n when the statuses of the others are s.
<1>8. ASSUME NEW n \in Threads, NEW s \in [Threads -> Statuses], Dispatch(n, s)
      PROVE  /\ status'[n] = "RUNNING" /\ \A u \in Threads \ {n} : status'[u] = s[u]
             /\ currentThread' = n /\ cpu' = "run"
  BY <1>8 DEF Dispatch
<1>9. ASSUME NEW f \in BOOLEAN, Sleep(f), Thinking, currentThread \in begun,
             execRunningNum' = CountWithout(f), begun' = begun, halted' = halted
      PROVE  Rests(f) \/ \E n \in Threads, st \in Statuses : Switches(n, st)
  <2>1. ~ halted /\ ~ halted' /\ cpu = "run"
    BY <1>9 DEF Thinking, Running
  <2>2. CASE NoneReady(ready)
    <3>1. /\ status' = [status EXCEPT ![currentThread] = "BLOCKED"] /\ currentThread' = currentThread
          /\ cpu' = IF f THEN "idleFinishing" ELSE "idle"
      BY <1>9, <2>2 DEF Sleep
    <3>2. status'[currentThread] = "BLOCKED" /\ KeepsStatusOf(Threads \ {currentThread})
      BY <1>2, <3>1 DEF KeepsStatusOf
    <3> QED
      BY <1>9, <2>1, <3>1, <3>2 DEF Rests
  <2>3. CASE ~ NoneReady(ready)
    <3>1. PICK st \in Statuses : st = IF f THEN "DELETED" ELSE "BLOCKED"
      BY DEF Statuses
    <3>2. PICK n \in Threads : n = NextToRun(ready) /\ status[n] = "READY"
      BY <1>2, <2>3, NextIsReady
    <3>3. PICK s \in [Threads -> Statuses] : s = [status EXCEPT ![currentThread] = st]
      BY <1>2
    <3>4. Dispatch(n, s)
      BY <1>9, <2>3, <3>1, <3>2, <3>3 DEF Sleep
    <3>5. /\ status'[n] = "RUNNING" /\ \A u \in Threads \ {n} : status'[u] = s[u]
          /\ currentThread' = n /\ cpu' = "run"
      BY <1>8, <3>4
    <3>6. s[currentThread] = st /\ \A u \in Threads \ {currentThread} : s[u] = status[u]
      BY <1>2, <3>3
    <3>7. KeepsStatusOf(Threads \ {n, currentThread}) /\ (currentThread # n => status'[currentThread] = st)
      BY <1>2, <3>5, <3>6 DEF KeepsStatusOf
    <3>8. f <=> cpu = "run" /\ st = "DELETED"
      BY <2>1, <3>1
    <3>9. execRunningNum' = CountWithout(cpu = "run" /\ st = "DELETED")
      <4>1. CountWithout(cpu = "run" /\ st = "DELETED") = CountWithout(f)
        BY <3>8 DEF CountWithout
      <4> QED
        BY <1>9, <4>1
    <3>10. st \in {"READY", "BLOCKED", "DELETED"}
      BY <3>1
    <3>11. Switches(n, st)
      BY <1>9, <2>1, <3>2, <3>5, <3>7, <3>9, <3>10 DEF Switches
    <3> QED
      BY <3>11
  <2> QED
    BY <2>2, <2>3
<1>10. CASE Block
  <2>1. CountWithout(FALSE) = execRunningNum
    BY DEF CountWithout
  <2>2. /\ Sleep(FALSE) /\ Thinking /\ currentThread \in begun
        /\ execRunningNum' = CountWithout(FALSE) /\ begun' = begun /\ halted' = halted
    BY <1>10, <2>1 DEF Block, exec
  <2> QED
    BY <1>1, <1>9, <2>2
<1>11. CASE Finish
  <2>1. CountWithout(TRUE) = IF Counted THEN execRunningNum - 1 ELSE execRunningNum
    BY DEF CountWithout
  <2>2. /\ Sleep(TRUE) /\ Thinking /\ currentThread \in begun
        /\ execRunningNum' = CountWithout(TRUE) /\ begun' = begun /\ halted' = halted
    BY <1>11, <2>1 DEF Finish
  <2> QED
    BY <1>1, <1>9, <2>2
<1>12. CASE TimerYield
  <2>1. /\ Yield /\ ~ halted /\ ~ halted' /\ halted' = halted /\ cpu = "run"
        /\ begun' = begun /\ execRunningNum' = execRunningNum
    BY <1>12 DEF TimerYield, Running, Yield, exec
  <2>2. CASE Preempt(AgedReady, currentThread)
    <3>1. PICK n \in Threads : n = NextToRun(AgedReady) /\ status[n] = "READY"
      BY <1>2, <2>2, PreemptReady, AgedNextIsReady
    <3>2. PICK s \in [Threads -> Statuses] : s = [status EXCEPT ![currentThread] = "READY"]
      BY <1>2 DEF Statuses
    <3>3. Dispatch(n, s)
      BY <2>1, <2>2, <3>1, <3>2 DEF Yield
    <3>4. /\ status'[n] = "RUNNING" /\ \A u \in Threads \ {n} : status'[u] = s[u]
          /\ currentThread' = n /\ cpu' = "run"
      BY <1>8, <3>3
    <3>5. s[currentThread] = "READY" /\ \A u \in Threads \ {currentThread} : s[u] = status[u]
      BY <1>2, <3>2
    <3>6. KeepsStatusOf(Threads \ {n, currentThread}) /\ (currentThread # n => status'[currentThread] = "READY")
      BY <1>2, <3>4, <3>5 DEF KeepsStatusOf
    <3>7. CountWithout(cpu = "run" /\ "READY" = "DELETED") = execRunningNum
      BY DEF CountWithout
    <3>8. Switches(n, "READY")
      BY <2>1, <3>1, <3>4, <3>6, <3>7 DEF Switches
    <3> QED
      BY <1>1, <3>8 DEF Statuses
  <2>3. CASE ~ Preempt(AgedReady, currentThread)
    <3>1. status' = status /\ currentThread' = currentThread /\ cpu' = cpu
      BY <2>1, <2>3 DEF Yield
    <3>2. Stays
      BY <2>1, <3>1 DEF Stays, KeepsStatusOf
    <3> QED
      BY <1>1, <3>2
  <2> QED
    BY <2>2, <2>3
<1>13. CASE LeaveIdle
  <2>1. /\ ~ halted /\ ~ halted' /\ cpu # "run" /\ ~ NoneReady(ready)
        /\ begun' = begun /\ execRunningNum' = execRunningNum
    BY <1>13 DEF LeaveIdle, exec
  <2>2. PICK n \in Threads : n = NextToRun(ready) /\ status[n] = "READY"
    BY <1>2, <2>1, NextIsReady
  <2>3. PICK st \in Statuses : st = IF cpu = "idleFinishing" THEN "DELETED" ELSE status[currentThread]
    BY <1>2 DEF Statuses
  <2>4. PICK s \in [Threads -> Statuses] :
           s = IF cpu = "idleFinishing" THEN [status EXCEPT ![currentThread] = "DELETED"] ELSE status
    BY <1>2 DEF Statuses
  <2>5. Dispatch(n, s)
    BY <1>13, <2>2, <2>4 DEF LeaveIdle
  <2>6. /\ status'[n] = "RUNNING" /\ \A u \in Threads \ {n} : status'[u] = s[u]
        /\ currentThread' = n /\ cpu' = "run"
    BY <1>8, <2>5
  <2>7. s[currentThread] = st /\ \A u \in Threads \ {currentThread} : s[u] = status[u]
    BY <1>2, <2>3, <2>4
  <2>8. KeepsStatusOf(Threads \ {n, currentThread}) /\ (currentThread # n => status'[currentThread] = st)
    BY <1>2, <2>6, <2>7 DEF KeepsStatusOf
  <2>9. CountWithout(cpu = "run" /\ st = "DELETED") = execRunningNum
    BY <2>1 DEF CountWithout
  <2>10. \/ cpu = "idleFinishing" /\ st = "DELETED"
         \/ cpu = "idle" /\ st = status[currentThread]
    BY <1>2, <2>1, <2>3
  <2>11. Switches(n, st)
    BY <2>1, <2>2, <2>6, <2>8, <2>9, <2>10 DEF Switches
  <2> QED
    BY <1>1, <2>11
<1> QED
  BY <1>1, <1>3, <1>4, <1>5, <1>6, <1>7, <1>10, <1>11, <1>12, <1>13, <1>14, <1>2 DEF Next, Compute

\* The statuses stay consistent with the current thread.
LEMMA NextStatus == IInv /\ [Next]_vars => StatusOK' /\ BegunOK'
<1> SUFFICES ASSUME IInv, [Next]_vars PROVE StatusOK' /\ BegunOK'
  OBVIOUS
<1>1. /\ status \in [Threads -> Statuses] /\ currentThread \in Threads
      /\ cpu \in {"run", "idle", "idleFinishing"} /\ begun \subseteq Threads /\ ExecThreads = Threads \ {0}
      /\ StatusOK /\ BegunOK /\ execExit' = execExit
  BY Steps, Constants DEF IInv, Types, Statuses
<1>2. CASE Stays
  BY <1>1, <1>2 DEF Stays, KeepsStatusOf, StatusOK, BegunOK
<1>7. CASE Begins
  BY <1>1, <1>7 DEF Begins, KeepsStatusOf, StatusOK, BegunOK
<1>3. CASE Halts
  BY <1>1, <1>3 DEF Halts, Counted, KeepsStatusOf, StatusOK, BegunOK
<1>4. ASSUME NEW t \in Threads, Awakes(t) PROVE StatusOK' /\ BegunOK'
  <2>1. \A u \in Threads : status'[u] = IF u = t THEN "READY" ELSE status[u]
    BY <1>4 DEF Awakes, KeepsStatusOf
  <2> QED
    BY <1>1, <1>4, <2>1 DEF Awakes, StatusOK, BegunOK
<1>5. ASSUME NEW f \in BOOLEAN, Rests(f) PROVE StatusOK' /\ BegunOK'
  <2>1. \A u \in Threads : status'[u] = IF u = currentThread THEN "BLOCKED" ELSE status[u]
    BY <1>5 DEF Rests, KeepsStatusOf
  <2>2. StatusOK'
    BY <1>1, <1>5, <2>1 DEF Rests, StatusOK
  <2>3. currentThread \in begun
    BY <1>5 DEF Rests
  <2>4. ~ execExit => execRunningNum' = 0
    BY <1>1, <1>5 DEF Rests, CountWithout, Counted, BegunOK
  <2> QED
    BY <1>1, <1>5, <2>1, <2>2, <2>3, <2>4 DEF Rests, BegunOK
<1>6. ASSUME NEW n \in Threads, NEW st \in Statuses, Switches(n, st) PROVE StatusOK' /\ BegunOK'
  <2>1. /\ status[n] = "READY" /\ status'[n] = "RUNNING" /\ cpu' = "run" /\ currentThread' = n
        /\ \A u \in Threads \ {n, currentThread} : status'[u] = status[u]
        /\ currentThread # n => status'[currentThread] = st
        /\ begun' = begun
        /\ ~ halted'
    BY <1>6 DEF Switches, KeepsStatusOf
  <2>2. currentThread # n => st # "RUNNING"
    BY <1>1, <1>6 DEF Switches, StatusOK
  <2>3. StatusOK'
    BY <1>1, <2>1, <2>2 DEF StatusOK
  <2>4. currentThread # n /\ st # "READY" => currentThread \in begun
    BY <1>1, <1>6 DEF Switches, StatusOK, BegunOK
  <2>5. ~ execExit => execRunningNum' = 0
    BY <1>1, <1>6 DEF Switches, CountWithout, Counted, BegunOK
  <2>6. \A u \in Threads \ begun' : status'[u] \in {"JUST_CREATED", "READY", "RUNNING"}
    BY <1>1, <2>1, <2>4 DEF BegunOK
  <2> QED
    BY <1>1, <2>1, <2>3, <2>5, <2>6 DEF BegunOK
<1> QED
  BY <1>2, <1>3, <1>4, <1>5, <1>6, <1>7, Steps

\* The threads counted are finitely many.
LEMMA AliveFinite == IsFiniteSet(Alive) /\ Cardinality(Alive) \in Nat
<1>1. IsFiniteSet(ExecThreads)
  BY FS_Interval, Constants DEF ExecThreads
<1>2. IsFiniteSet(Alive)
  BY <1>1, FS_Subset DEF Alive
<1> QED
  BY <1>2, FS_CardinalityType

\* The count follows the threads that begin and end.
LEMMA NextCount == IInv /\ [Next]_vars => CountOK'
<1> SUFFICES ASSUME IInv, [Next]_vars, execExit PROVE execRunningNum' = Cardinality(Alive')
  BY Steps DEF CountOK
<1>1. /\ status \in [Threads -> Statuses] /\ currentThread \in Threads
      /\ cpu \in {"run", "idle", "idleFinishing"} /\ begun \subseteq Threads /\ ExecThreads = Threads \ {0}
      /\ StatusOK /\ BegunOK
  BY Constants DEF IInv, Types, Statuses
<1>2. execRunningNum = Cardinality(Alive) /\ IsFiniteSet(Alive) /\ Cardinality(Alive) \in Nat
  BY AliveFinite DEF IInv, CountOK
\* The current thread, if it is counted, is among them as long as it runs.
<1>3. cpu = "run" /\ ~ halted /\ currentThread \in begun \cap ExecThreads => currentThread \in Alive
  BY <1>1 DEF StatusOK, Alive, Ended, Halting
<1>4. CASE Stays
  <2>1. Alive' = Alive
    BY <1>1, <1>4 DEF Stays, KeepsStatusOf, Alive, Ended, Halting
  <2> QED
    BY <1>2, <1>4, <2>1 DEF Stays
<1>9. CASE Begins
  <2>1. currentThread \in ExecThreads \ Alive
    BY <1>1, <1>9 DEF Begins, BegunOK, Alive
  <2>2. Alive' = Alive \cup {currentThread}
    <3>1. /\ \A u \in ExecThreads : status'[u] = status[u]
          /\ currentThread' = currentThread /\ cpu' = cpu /\ cpu = "run" /\ ~ halted /\ ~ halted'
          /\ begun' = begun \cup {currentThread}
      BY <1>1, <1>9 DEF Begins, KeepsStatusOf
    <3>2. \A u \in ExecThreads : (Ended(u)' <=> Ended(u)) /\ ~ Halting(u) /\ ~ Halting(u)'
      BY <3>1 DEF Ended, Halting
    <3>3. ~ Ended(currentThread)
      BY <1>1, <3>1 DEF StatusOK, Ended
    <3>4. \A u \in ExecThreads : u \in Alive' <=> u \in Alive \cup {currentThread}
      BY <3>1, <3>2, <3>3 DEF Alive
    <3>5. Alive \subseteq ExecThreads /\ Alive' \subseteq ExecThreads /\ currentThread \in ExecThreads
      BY <2>1 DEF Alive
    <3> QED
      BY <3>4, <3>5
  <2>3. Cardinality(Alive') = Cardinality(Alive) + 1
    BY <1>2, <2>1, <2>2, FS_AddElement
  <2> QED
    BY <1>2, <1>9, <2>3 DEF Begins
<1>5. CASE Halts
  <2>1. Alive' = Alive \ {currentThread} /\ currentThread \in Alive
    BY <1>1, <1>3, <1>5 DEF Halts, Counted, KeepsStatusOf, Alive, Ended, Halting
  <2>2. Cardinality(Alive') = Cardinality(Alive) - 1
    BY <1>2, <2>1, FS_RemoveElement
  <2>3. execRunningNum = 1 /\ execRunningNum' = 0
    BY <1>5 DEF Halts
  <2> QED
    BY <1>2, <2>2, <2>3
<1>6. ASSUME NEW t \in Threads, Awakes(t) PROVE execRunningNum' = Cardinality(Alive')
  <2>1. \A u \in Threads : Ended(u)' <=> Ended(u)
    BY <1>1, <1>6 DEF Awakes, KeepsStatusOf, Ended
  <2>2. Alive' = Alive
    BY <1>1, <1>6, <2>1 DEF Awakes, Alive, Halting
  <2> QED
    BY <1>2, <1>6, <2>2 DEF Awakes
<1>7. ASSUME NEW f \in BOOLEAN, Rests(f) PROVE execRunningNum' = Cardinality(Alive')
  <2>1. \A u \in Threads : Ended(u)' <=> Ended(u) \/ (f /\ u = currentThread)
    BY <1>1, <1>7 DEF Rests, KeepsStatusOf, StatusOK, Ended
  <2>2. Alive' = IF f THEN Alive \ {currentThread} ELSE Alive
    BY <1>1, <1>7, <2>1 DEF Rests, Alive, Halting
  <2>3. CASE f /\ currentThread \in ExecThreads
    <3>1. Cardinality(Alive') = Cardinality(Alive) - 1
      BY <1>2, <1>3, <1>7, <2>2, <2>3, FS_RemoveElement DEF Rests
    <3>2. execRunningNum' = execRunningNum - 1
      BY <1>7, <2>3 DEF Rests, CountWithout, Counted
    <3> QED
      BY <1>2, <3>1, <3>2
  <2>4. CASE ~ (f /\ currentThread \in ExecThreads)
    <3>1. Alive' = Alive
      BY <2>2, <2>4 DEF Alive
    <3>2. execRunningNum' = execRunningNum
      BY <1>7, <2>4 DEF Rests, CountWithout, Counted
    <3> QED
      BY <1>2, <3>1, <3>2
  <2> QED
    BY <2>3, <2>4
<1>8. ASSUME NEW n \in Threads, NEW st \in Statuses, Switches(n, st)
      PROVE  execRunningNum' = Cardinality(Alive')
  <2> DEFINE finished == cpu = "run" /\ st = "DELETED"
  <2>1. /\ status[n] = "READY" /\ status'[n] = "RUNNING" /\ cpu' = "run" /\ currentThread' = n
        /\ \A u \in Threads \ {n, currentThread} : status'[u] = status[u]
        /\ currentThread # n => status'[currentThread] = st
        /\ begun' = begun /\ (finished => currentThread \in begun)
        /\ ~ halted /\ ~ halted'
        /\ \/ cpu = "run" /\ st \in {"READY", "BLOCKED", "DELETED"}
           \/ cpu = "idleFinishing" /\ st = "DELETED"
           \/ cpu = "idle" /\ st = status[currentThread]
    BY <1>8 DEF Switches, KeepsStatusOf
  <2>2. finished => currentThread # n
    BY <1>1, <2>1 DEF StatusOK
  <2>3. \A u \in Threads : Ended(u)' <=> Ended(u) \/ (finished /\ u = currentThread)
    <3>1. ~ Ended(n) /\ ~ Ended(n)'
      BY <1>1, <2>1 DEF StatusOK, Ended
    <3>2. ASSUME NEW c \in Threads, c = currentThread, c # n PROVE Ended(c)' <=> Ended(c) \/ finished
      <4>1. Ended(c)' <=> st = "DELETED"
        BY <2>1, <3>2 DEF Ended
      <4>2. CASE cpu = "run"
        <5>1. ~ Ended(c)
          BY <1>1, <3>2, <4>2 DEF StatusOK, Ended
        <5> QED
          BY <4>1, <4>2, <5>1
      <4>3. CASE cpu = "idle"
        <5>1. Ended(c) <=> st = "DELETED"
          BY <2>1, <3>2, <4>3 DEF Ended
        <5> QED
          BY <4>1, <4>3, <5>1
      <4>4. CASE cpu = "idleFinishing"
        <5>1. Ended(c) /\ st = "DELETED"
          BY <2>1, <3>2, <4>4 DEF Ended
        <5> QED
          BY <4>1, <4>4, <5>1
      <4> QED
        BY <1>1, <4>2, <4>3, <4>4
    <3>3. \A u \in Threads \ {n, currentThread} : Ended(u)' <=> Ended(u)
      BY <2>1 DEF Ended
    <3> HIDE DEF finished
    <3> TAKE u \in Threads
    <3>4. CASE u = n
      BY <2>2, <3>1, <3>4
    <3>5. CASE u = currentThread /\ u # n
      BY <3>2, <3>5
    <3>6. CASE u \in Threads \ {n, currentThread}
      BY <3>3, <3>6
    <3> QED
      BY <3>4, <3>5, <3>6
  <2>4. Alive' = IF finished THEN Alive \ {currentThread} ELSE Alive
    <3> HIDE DEF finished
    <3>1. \A u \in ExecThreads : u \in Alive' <=> u \in begun /\ ~ (Ended(u) \/ (finished /\ u = currentThread))
      BY <1>1, <2>1, <2>3 DEF Alive, Halting
    <3>2. \A u \in ExecThreads : u \in Alive <=> u \in begun /\ ~ Ended(u)
      BY <1>1, <2>1 DEF Alive, Halting
    <3>3. Alive \subseteq ExecThreads /\ Alive' \subseteq ExecThreads
      BY DEF Alive
    <3> QED
      BY <3>1, <3>2, <3>3
  <2>5. execRunningNum' = CountWithout(finished)
    BY <1>8 DEF Switches
  <2>6. CASE finished /\ currentThread \in ExecThreads
    <3>1. currentThread \in Alive
      BY <1>3, <2>1, <2>6
    <3> HIDE DEF finished
    <3>2. Cardinality(Alive') = Cardinality(Alive) - 1
      BY <1>2, <2>4, <2>6, <3>1, FS_RemoveElement
    <3> QED
      BY <1>2, <2>5, <2>6, <3>2 DEF CountWithout, Counted
  <2>7. CASE ~ (finished /\ currentThread \in ExecThreads)
    <3> HIDE DEF finished
    <3>1. Alive' = Alive
      BY <2>4, <2>7 DEF Alive
    <3> QED
      BY <1>2, <2>5, <2>7, <3>1 DEF CountWithout, Counted
  <2> QED
    BY <2>6, <2>7
<1> QED
  BY <1>4, <1>5, <1>6, <1>7, <1>8, <1>9, Steps

-----------------------------------------------------------------------------
(* Every step keeps the lists.                                             *)

\* The remaining time of a thread that does not run stands still.
LEMMA RemainingKept ==
    ASSUME NEW t \in Threads, estimate'[t] = estimate[t], accuRunTime'[t] = accuRunTime[t],
           ~ (t = currentThread /\ cpu = "run"), ~ (t = currentThread' /\ cpu' = "run")
    PROVE  Remaining(t)' = Remaining(t)
BY DEF Remaining

\* Lists r of the threads S stay sorted in the new state if the remaining times do not change.
LEMMA ListsCarryOver ==
    ASSUME NEW r, NEW prio, NEW S, S \subseteq Threads, Listed(r, prio, S), Sorted(r, prio),
           ready' = r, priority' = prio, ReadyThreads' = S,
           \A t \in S : Remaining(t)' = Remaining(t)
    PROVE  ListsOK'
<1>1. Listed(ready, priority, ReadyThreads)'
  BY DEF Listed
<1>2. \A i \in 1 .. Len(r[1]) : r[1][i] \in S
  BY DEF Listed
<1>3. SortedBy(ready[1], L1Order)'
  <2> SUFFICES ASSUME NEW i \in 1 .. Len(r[1]), NEW j \in 1 .. Len(r[1]), i < j
               PROVE  <<r[1][i], r[1][j]>> \in L1Order'
    BY DEF SortedBy
  <2>1. PICK t \in S, u \in S : t = r[1][i] /\ u = r[1][j]
    BY <1>2
  <2>2. L1Before(t, u)
    BY <2>1 DEF Sorted, SortedBy, L1Order
  <2>3. L1Before(t, u)'
    BY <2>2 DEF L1Before
  <2> QED
    BY <2>1, <2>3 DEF L1Order
<1>4. SortedBy(ready[2], L2Order(priority))'
  <2>1. SortedBy(r[2], L2Order(prio))
    BY DEF Sorted
  <2> QED
    BY <2>1 DEF SortedBy, L2Order, L2Before
<1> QED
  BY <1>1, <1>3, <1>4 DEF ListsOK, Sorted

\* FindNextToRun and Run together: the thread taken off the lists no longer is ready.
LEMMA DispatchLists ==
    ASSUME IInv, ~ NoneReady(ready), ready' = WithoutNext(ready), priority' = priority,
           NEW s \in [Threads -> Statuses], \A u \in Threads : s[u] = "READY" <=> status[u] = "READY",
           Dispatch(NextToRun(ready), s),
           \A t \in ReadyThreads : estimate'[t] = estimate[t] /\ accuRunTime'[t] = accuRunTime[t]
    PROVE  ListsOK'
<1>1. /\ ReadyThreads \subseteq Threads /\ priority \in Priorities /\ StatusOK
      /\ Listed(ready, priority, ReadyThreads) /\ Sorted(ready, priority)
  BY DEF ReadyThreads, IInv, Types, ListsOK
<1>2. PICK n \in ReadyThreads : n = NextToRun(ready)
  BY <1>1, RemoveKeeps
<1>3. PICK r : r = WithoutNext(ready)
  OBVIOUS
<1>4. Listed(r, priority, ReadyThreads \ {n}) /\ Sorted(r, priority)
  BY <1>1, <1>2, <1>3, RemoveKeeps
<1>5. /\ status' = [s EXCEPT ![n] = "RUNNING"] /\ currentThread' = n
  BY <1>2 DEF Dispatch
<1>6. ReadyThreads' = ReadyThreads \ {n}
  <2>1. \A u \in Threads : status'[u] = IF u = n THEN "RUNNING" ELSE s[u]
    BY <1>5
  <2> QED
    BY <1>1, <2>1 DEF ReadyThreads
<1>7. ASSUME NEW t \in ReadyThreads \ {n} PROVE Remaining(t)' = Remaining(t)
  <2>1. t \in Threads /\ ~ (t = currentThread /\ cpu = "run") /\ ~ (t = currentThread' /\ cpu' = "run")
    BY <1>1, <1>5 DEF ReadyThreads, StatusOK
  <2> QED
    BY <2>1, RemainingKept
<1>8. PICK prio : prio = priority
  OBVIOUS
<1>9. Listed(r, prio, ReadyThreads \ {n}) /\ Sorted(r, prio) /\ ready' = r /\ priority' = prio
  BY <1>3, <1>4, <1>8
<1>10. PICK S : S = ReadyThreads \ {n}
  OBVIOUS
<1> QED
  BY <1>1, <1>6, <1>7, <1>9, <1>10, ListsCarryOver

\* Every step keeps the lists exact and sorted.
LEMMA NextLists == IInv /\ [Next]_vars => ListsOK'
<1> SUFFICES ASSUME IInv, [Next]_vars PROVE ListsOK'
  OBVIOUS
<1>1. /\ status \in [Threads -> Statuses] /\ currentThread \in Threads
      /\ estimate \in [Threads -> 0 .. Scale * MaxBurst] /\ accuRunTime \in [Threads -> 0 .. MaxBurst]
      /\ ReadyThreads \subseteq Threads /\ priority \in Priorities /\ StatusOK /\ BurstTypes /\ Types /\ ListsOK
      /\ Listed(ready, priority, ReadyThreads) /\ Sorted(ready, priority)
      /\ ExecThreads \subseteq Threads
  BY Constants DEF ReadyThreads, IInv, Types, ListsOK, BurstTypes, Statuses
<1>2. PICK r, prio, S : r = ready /\ prio = priority /\ S = ReadyThreads
  OBVIOUS
\* The lists and the bursts of ready threads do not change.
<1>3. ASSUME ready' = ready, priority' = priority, ReadyThreads' = ReadyThreads,
             \A t \in ReadyThreads : estimate'[t] = estimate[t] /\ accuRunTime'[t] = accuRunTime[t],
             currentThread' = currentThread, cpu' = "run" => cpu = "run"
      PROVE  ListsOK'
  <2>1. ASSUME NEW t \in S PROVE Remaining(t)' = Remaining(t)
    <3>1. t \in Threads /\ ~ (t = currentThread /\ cpu = "run") /\ ~ (t = currentThread' /\ cpu' = "run")
      BY <1>1, <1>2, <1>3 DEF ReadyThreads, StatusOK
    <3>2. estimate'[t] = estimate[t] /\ accuRunTime'[t] = accuRunTime[t]
      BY <1>2, <1>3
    <3> QED
      BY <3>1, <3>2, RemainingKept
  <2>2. /\ S \subseteq Threads /\ Listed(r, prio, S) /\ Sorted(r, prio)
        /\ ready' = r /\ priority' = prio /\ ReadyThreads' = S
    BY <1>1, <1>2, <1>3
  <2> QED
    BY <2>1, <2>2, ListsCarryOver
<1>4. CASE UNCHANGED vars
  BY <1>3, <1>4 DEF vars, lists, burst, ReadyThreads
<1>5. CASE Begin \/ Advance \/ FinishAndHalt \/ IdleTick
  <2>1. ready' = ready /\ priority' = priority /\ ReadyThreads' = ReadyThreads
    BY <1>5 DEF Begin, Advance, FinishAndHalt, IdleTick, lists, ReadyThreads
  <2>2. estimate' = estimate /\ accuRunTime' = accuRunTime /\ currentThread' = currentThread /\ cpu' = cpu
    BY <1>5 DEF Begin, Advance, FinishAndHalt, IdleTick, burst
  <2> QED
    BY <1>3, <2>1, <2>2
<1>6. ASSUME NEW t \in ExecThreads, Exec(t) \/ WakeUp(t) PROVE ListsOK'
  <2>1. /\ status[t] # "READY" /\ ready' = InsertReady(ready, t, priority) /\ priority' = priority
        /\ status' = [status EXCEPT ![t] = "READY"]
        /\ estimate' = estimate /\ accuRunTime' = accuRunTime /\ currentThread' = currentThread
        /\ cpu' = cpu /\ ran' = ran
    BY <1>6 DEF Exec, WakeUp, ReadyToRun, burst, timer
  <2>2. t \in Threads /\ t \notin ReadyThreads /\ ReadyThreads' = ReadyThreads \cup {t}
    BY <1>1, <2>1 DEF ReadyThreads
  <2>3. PICK q : q = InsertReady(ready, t, priority)
    OBVIOUS
  <2>4. Listed(q, priority, ReadyThreads \cup {t}) /\ Sorted(q, priority)
    BY <1>1, <2>2, <2>3, InsertReadyKeeps
  <2>5. ASSUME NEW u \in Threads PROVE Remaining(u)' = Remaining(u)
    BY <2>1 DEF Remaining
  <2>6. PICK T : T = ReadyThreads \cup {t}
    OBVIOUS
  <2>7. /\ T \subseteq Threads /\ Listed(q, prio, T) /\ Sorted(q, prio)
        /\ ready' = q /\ priority' = prio /\ ReadyThreads' = T
    BY <1>1, <1>2, <2>1, <2>2, <2>3, <2>4, <2>6
  <2> QED
    BY <2>5, <2>7, ListsCarryOver
<1>7. ASSUME NEW f \in BOOLEAN, Sleep(f), cpu = "run" PROVE ListsOK'
  <2>1. priority' = priority
    BY <1>7 DEF Sleep
  <2>2. ASSUME NEW t \in ReadyThreads PROVE estimate'[t] = estimate[t] /\ accuRunTime'[t] = accuRunTime[t]
    <3>1. t \in Threads /\ t # currentThread
      BY <1>1, <1>7 DEF ReadyThreads, StatusOK
    <3> QED
      BY <1>1, <1>7, <3>1 DEF Sleep
  <2>3. CASE NoneReady(ready)
    <3>1. /\ ready' = ready /\ currentThread' = currentThread /\ cpu' # "run"
          /\ status' = [status EXCEPT ![currentThread] = "BLOCKED"]
      BY <1>7, <2>3 DEF Sleep
    <3>2. ReadyThreads' = ReadyThreads
      BY <1>1, <1>7, <3>1 DEF ReadyThreads, StatusOK
    <3> QED
      BY <1>3, <2>1, <2>2, <3>1, <3>2
  <2>4. CASE ~ NoneReady(ready)
    <3>1. PICK s \in [Threads -> Statuses] : s = [status EXCEPT ![currentThread] = IF f THEN "DELETED" ELSE "BLOCKED"]
      BY <1>1 DEF Statuses
    <3>2. \A u \in Threads : s[u] = "READY" <=> status[u] = "READY"
      BY <1>1, <1>7, <3>1 DEF StatusOK
    <3>3. ready' = WithoutNext(ready) /\ Dispatch(NextToRun(ready), s)
      BY <1>7, <2>4, <3>1 DEF Sleep
    <3> QED
      BY <2>1, <2>2, <2>4, <3>2, <3>3, DispatchLists
  <2> QED
    BY <2>3, <2>4
<1>8. CASE LeaveIdle
  <2>1. /\ ~ NoneReady(ready) /\ cpu # "run" /\ ready' = WithoutNext(ready) /\ priority' = priority
        /\ estimate' = estimate /\ accuRunTime' = accuRunTime
    BY <1>8 DEF LeaveIdle, burst
  <2>2. PICK s \in [Threads -> Statuses] :
           s = IF cpu = "idleFinishing" THEN [status EXCEPT ![currentThread] = "DELETED"] ELSE status
    BY <1>1 DEF Statuses
  <2>3. \A u \in Threads : s[u] = "READY" <=> status[u] = "READY"
    BY <1>1, <2>2 DEF StatusOK
  <2>4. Dispatch(NextToRun(ready), s)
    BY <1>8, <2>2 DEF LeaveIdle
  <2> QED
    BY <2>1, <2>3, <2>4, DispatchLists
<1>9. CASE TimerYield
  <2>1. Yield /\ cpu = "run"
    BY <1>9 DEF TimerYield, Running
  <2>2. PICK a, p : a = AgedReady /\ p = AgedPriority /\ p \in Priorities
    BY <1>1, AgedPriorityType
  <2>3. Listed(a, p, S) /\ Sorted(a, p) /\ S \subseteq Threads
    BY <1>1, <1>2, <2>2, AgedReadyKeeps
  <2>4. CASE ~ Preempt(AgedReady, currentThread)
    <3>1. /\ ready' = a /\ priority' = p /\ status' = status /\ currentThread' = currentThread /\ cpu' = cpu
          /\ ran' = ran /\ accuRunTime' = accuRunTime /\ estimate' = estimate
      BY <2>1, <2>2, <2>4 DEF Yield
    <3>2. ReadyThreads' = S
      BY <1>2, <3>1 DEF ReadyThreads
    <3>3. ASSUME NEW t \in S PROVE Remaining(t)' = Remaining(t)
      BY <3>1 DEF Remaining
    <3> QED
      BY <2>3, <3>1, <3>2, <3>3, ListsCarryOver
  <2>5. CASE Preempt(AgedReady, currentThread)
    <3>1. ~ NoneReady(a)
      BY <2>2, <2>5, PreemptReady
    <3>2. PICK n \in S : n = NextToRun(a)
      BY <2>2, <2>3, <3>1, RemoveKeeps
    <3>3. PICK b : b = WithoutNext(a)
      OBVIOUS
    <3>4. Listed(b, p, S \ {n}) /\ Sorted(b, p)
      BY <2>2, <2>3, <3>1, <3>2, <3>3, RemoveKeeps
    <3>5. PICK t \in Threads : t = currentThread
      BY <1>1
    <3>6. t \notin S /\ t # n /\ n \in Threads
      BY <1>1, <1>2, <2>1, <3>2, <3>5 DEF ReadyThreads, StatusOK
    <3>7. PICK q : q = InsertReady(b, t, p)
      OBVIOUS
    <3>8. PICK T : T = (S \ {n}) \cup {t}
      OBVIOUS
    <3>9. Listed(q, p, T) /\ Sorted(q, p) /\ T \subseteq Threads
      BY <1>1, <2>2, <2>3, <3>4, <3>6, <3>7, <3>8, InsertReadyKeeps
    <3>10. /\ ready' = q /\ priority' = p
      BY <2>1, <2>2, <2>5, <3>3, <3>5, <3>7 DEF Yield
    <3>11. /\ status' = [[status EXCEPT ![t] = "READY"] EXCEPT ![n] = "RUNNING"]
           /\ currentThread' = n /\ cpu' = "run" /\ estimate' = estimate
           /\ accuRunTime' = [accuRunTime EXCEPT ![t] = accuRunTime[t] + ran]
      BY <1>1, <2>1, <2>2, <2>5, <3>2, <3>5 DEF Yield, Dispatch
    <3>12. ReadyThreads' = T
      <4>1. \A u \in Threads : status'[u] = IF u = n THEN "RUNNING" ELSE IF u = t THEN "READY" ELSE status[u]
        BY <1>1, <3>6, <3>11
      <4> QED
        BY <1>2, <3>6, <3>8, <4>1 DEF ReadyThreads
    <3>13. ASSUME NEW u \in T PROVE Remaining(u)' = Remaining(u)
      <4>1. CASE u = t
        <5>1. Remaining(t) = estimate[t] - Scale * (accuRunTime[t] + ran)
          BY <2>1, <3>5 DEF Remaining
        <5>2. accuRunTime'[t] = accuRunTime[t] + ran
          BY <1>1, <3>11
        <5>3. Remaining(t)' = estimate[t] - Scale * (accuRunTime'[t] + 0)
          BY <3>6, <3>11 DEF Remaining
        <5>4. accuRunTime'[t] + 0 = accuRunTime'[t]
          <6>1. accuRunTime[t] \in Int /\ ran \in Int
            BY <1>1, Constants DEF BurstTypes
          <6> QED
            BY <5>2, <6>1
        <5> QED
          BY <4>1, <5>1, <5>2, <5>3, <5>4
      <4>2. CASE u # t
        <5>1. u \in Threads /\ u # n
          BY <2>3, <3>6, <3>8, <4>2
        <5>2. estimate'[u] = estimate[u] /\ accuRunTime'[u] = accuRunTime[u]
          BY <1>1, <3>11, <4>2, <5>1
        <5>3. ~ (u = currentThread /\ cpu = "run") /\ ~ (u = currentThread' /\ cpu' = "run")
          BY <3>5, <3>11, <4>2, <5>1
        <5> QED
          BY <5>1, <5>2, <5>3, RemainingKept
      <4> QED
        BY <4>1, <4>2
    <3> QED
      BY <3>9, <3>10, <3>12, <3>13, ListsCarryOver
  <2> QED
    BY <2>4, <2>5
<1>10. CASE Block
  BY <1>7, <1>10 DEF Block, Thinking, Running
<1>11. CASE Finish
  BY <1>7, <1>11 DEF Finish, Thinking, Running
<1> QED
  BY <1>4, <1>5, <1>6, <1>8, <1>9, <1>10, <1>11 DEF Next, Compute

-----------------------------------------------------------------------------
(* Every step keeps the bounds on bursts and waiting times.                *)

\* A burst is bounded, and the timer asks for a Yield of a running thread only.
LEMMA NextBurst == IInv /\ [Next]_vars => BurstOK' /\ TimerOK'
<1> SUFFICES ASSUME IInv, [Next]_vars PROVE BurstOK' /\ TimerOK'
  OBVIOUS
<1>1. /\ currentThread \in Threads
      /\ accuRunTime \in [Threads -> 0 .. MaxBurst] /\ ran \in 0 .. MaxBurst
      /\ MaxBurst \in Nat /\ BurstOK /\ TimerOK /\ Types /\ ListsOK
  BY Constants DEF IInv, Types, BurstTypes
<1>2. CASE UNCHANGED vars
  BY <1>1, <1>2 DEF vars, burst, timer, BurstOK, TimerOK
<1>3. CASE Advance
  <2>1. /\ cpu = "run" /\ cpu' = cpu /\ currentThread' = currentThread /\ accuRunTime' = accuRunTime
        /\ ran' = ran + 1 /\ accuRunTime[currentThread] + ran < MaxBurst
        /\ yieldOnReturn' = (clock' = 0)
    BY <1>3 DEF Advance, Thinking, Running, burst
  <2>2. accuRunTime[currentThread] \in Int /\ ran \in Int
    BY <1>1
  <2>3. BurstOK'
    BY <1>1, <2>1, <2>2 DEF BurstOK
  <2>4. yieldOnReturn' => clock' = 0
    BY <2>1
  <2> QED
    BY <2>1, <2>3, <2>4 DEF TimerOK
<1>4. CASE Begin \/ FinishAndHalt \/ IdleTick
  <2>1. /\ cpu' = cpu /\ currentThread' = currentThread /\ accuRunTime' = accuRunTime /\ ran' = ran
        /\ yieldOnReturn' = yieldOnReturn /\ (clock' = clock \/ cpu # "run")
    BY <1>4 DEF Begin, FinishAndHalt, IdleTick, burst, timer
  <2> QED
    BY <1>1, <2>1 DEF BurstOK, TimerOK
<1>5. ASSUME NEW t \in ExecThreads, Exec(t) \/ WakeUp(t) PROVE BurstOK' /\ TimerOK'
  <2>1. /\ cpu' = cpu /\ currentThread' = currentThread /\ accuRunTime' = accuRunTime /\ ran' = ran
        /\ yieldOnReturn' = yieldOnReturn /\ clock' = clock
    BY <1>5 DEF Exec, WakeUp, burst, timer
  <2> QED
    BY <1>1, <2>1 DEF BurstOK, TimerOK
\* A dispatched thread starts a new slice.
<1>6. ASSUME NEW n \in Threads, NEW s, Dispatch(n, s),
             accuRunTime' \in [Threads -> 0 .. MaxBurst]
      PROVE  BurstOK'
  <2>1. ran' = 0 /\ cpu' = "run" /\ currentThread' = n
    BY <1>6 DEF Dispatch
  <2>2. accuRunTime'[n] \in 0 .. MaxBurst
    BY <1>6
  <2> QED
    BY <1>1, <2>1, <2>2 DEF BurstOK
<1>7. accuRunTime' \in [Threads -> 0 .. MaxBurst]
  BY NextTypes DEF Types, BurstTypes
<1>8. ASSUME NEW f \in BOOLEAN, Sleep(f), Thinking PROVE BurstOK' /\ TimerOK'
  <2>1. ~ yieldOnReturn'
    BY <1>8 DEF Sleep, Thinking, timer
  <2>2. CASE NoneReady(ready)
    <3>1. ran' = 0 /\ cpu' # "run"
      BY <1>8, <2>2 DEF Sleep
    <3> QED
      BY <2>1, <3>1 DEF BurstOK, TimerOK
  <2>3. CASE ~ NoneReady(ready)
    <3>1. NextToRun(ready) \in Threads
      BY <1>1, <2>3, NextIsReady
    <3>2. PICK n \in Threads : n = NextToRun(ready)
      BY <3>1
    <3>3. Dispatch(n, [status EXCEPT ![currentThread] = IF f THEN "DELETED" ELSE "BLOCKED"])
      BY <1>8, <2>3, <3>2 DEF Sleep
    <3>4. BurstOK'
      BY <1>6, <1>7, <3>3
    <3> QED
      BY <2>1, <3>4 DEF TimerOK
  <2> QED
    BY <2>2, <2>3
<1>9. CASE Block
  BY <1>8, <1>9 DEF Block
<1>10. CASE Finish
  BY <1>8, <1>10 DEF Finish
<1>11. CASE LeaveIdle
  <2>1. PICK n \in Threads : n = NextToRun(ready)
    BY <1>1, <1>11, NextIsReady DEF LeaveIdle
  <2>2. \E s : Dispatch(n, s)
    BY <1>11, <2>1 DEF LeaveIdle
  <2>3. BurstOK'
    BY <1>6, <1>7, <2>2
  <2>4. cpu' = "run" /\ clock' = clock /\ yieldOnReturn' = yieldOnReturn
    BY <1>11 DEF LeaveIdle, Dispatch, timer
  <2> QED
    BY <1>1, <2>3, <2>4 DEF TimerOK
<1>12. CASE TimerYield
  <2>1. Yield /\ ~ yieldOnReturn'
    BY <1>12 DEF TimerYield
  <2>2. CASE Preempt(AgedReady, currentThread)
    <3>1. PICK n \in Threads : n = NextToRun(AgedReady)
      BY <1>1, <2>2, PreemptReady, AgedNextIsReady
    <3>2. Dispatch(n, [status EXCEPT ![currentThread] = "READY"])
      BY <2>1, <2>2, <3>1 DEF Yield
    <3>3. BurstOK'
      BY <1>6, <1>7, <3>2
    <3> QED
      BY <2>1, <3>3 DEF TimerOK
  <2>3. CASE ~ Preempt(AgedReady, currentThread)
    BY <1>1, <2>1, <2>3 DEF Yield, BurstOK, TimerOK
  <2> QED
    BY <2>2, <2>3
<1> QED
  BY <1>2, <1>3, <1>4, <1>5, <1>9, <1>10, <1>11, <1>12 DEF Next, Compute

\* Aging promotes every thread that has waited longer than the limit.
LEMMA AgedWaits ==
    ASSUME Types, ListsOK, NEW t \in Threads, status[t] = "READY", AgedPriority[t] < MaxPriority
    PROVE  AgedWaited[t] <= AgingLimit
<1>1. t \in ToSet(Emptied)
  BY AgedOthers DEF ReadyThreads
<1>2. /\ AgedPriority[t] = IF Ages(t) THEN IncPriority(priority[t]) ELSE priority[t]
      /\ AgedWaited[t] = IF Ages(t) THEN 0 ELSE waited[t]
  BY <1>1 DEF AgedPriority, AgedWaited
<1>3. AgingLimit \in Nat /\ waited[t] \in Nat
  BY Constants DEF Types
<1>4. CASE Ages(t)
  BY <1>2, <1>3, <1>4
<1>5. CASE ~ Ages(t)
  BY <1>2, <1>3, <1>5 DEF Ages
<1> QED
  BY <1>4, <1>5

\* No thread is ready while the idle loop finds none.
LEMMA NoneReadyThen ==
    ASSUME Types, ListsOK, NoneReady(ready), NEW t \in Threads
    PROVE  status[t] # "READY"
<1> SUFFICES ASSUME t \in ReadyThreads PROVE FALSE
  BY DEF ReadyThreads
<1>1. priority[t] \in 0 .. MaxPriority
  BY DEF Types, Priorities
<1>2. PICK l \in 1 .. 3 : l = QueueLevel(priority[t])
  BY <1>1, Levels
<1>3. ready[l] = << >>
  BY <1>2 DEF NoneReady
<1> QED
  BY <1>2, <1>3 DEF ListsOK, Listed

\* The waiting times keep within the limit and the clock.
LEMMA NextWait == IInv /\ [Next]_vars => WaitOK'
<1> SUFFICES ASSUME IInv, [Next]_vars PROVE WaitOK'
  OBVIOUS
<1>1. /\ status \in [Threads -> Statuses] /\ currentThread \in Threads
      /\ waited \in [Threads -> 0 .. WaitCap] /\ priority \in Priorities
      /\ clock \in 0 .. TimerTicks - 1 /\ ExecThreads \subseteq Threads
      /\ Types /\ ListsOK /\ StatusOK /\ WaitOK /\ TimerOK
      /\ AgingLimit \in Nat /\ TimerTicks \in Nat \ {0}
  BY Constants DEF IInv, Types, Statuses
<1>2. CASE UNCHANGED vars \/ Begin \/ FinishAndHalt
  <2>1. /\ status' = status /\ waited' = waited /\ priority' = priority
        /\ clock' = clock /\ yieldOnReturn' = yieldOnReturn
    BY <1>2 DEF vars, Begin, FinishAndHalt, lists, timer
  <2> QED
    BY <1>1, <2>1 DEF WaitOK
<1>3. CASE IdleTick
  <2>1. status' = status /\ waited' = waited /\ \A t \in Threads : status[t] # "READY"
    BY <1>1, <1>3, NoneReadyThen DEF IdleTick, lists
  <2> QED
    BY <1>1, <2>1 DEF WaitOK
<1>4. CASE Advance
  <2>1. /\ status' = status /\ priority' = priority /\ ~ yieldOnReturn
        /\ clock' = IF clock + 1 = TimerTicks THEN 0 ELSE clock + 1
        /\ yieldOnReturn' = (clock' = 0)
        /\ \A t \in Threads : waited'[t] = IF status[t] = "READY" /\ waited[t] < WaitCap THEN waited[t] + 1 ELSE waited[t]
    BY <1>1, <1>4, ClockTicks DEF Advance, Thinking, Tick
  <2>2. \A t \in Threads : waited'[t] <= waited[t] + 1 /\ waited[t] \in Nat
    BY <1>1, <2>1, Constants
  <2>3. (IF yieldOnReturn' THEN TimerTicks ELSE clock') = clock + 1
    <3>1. CASE clock' = 0
      <4>1. yieldOnReturn' = TRUE
        BY <2>1, <3>1, Zenon
      <4>2. clock + 1 = TimerTicks
        BY <1>1, <2>1, <3>1
      <4> QED
        BY <4>1, <4>2
    <3>2. CASE clock' # 0
      <4>1. yieldOnReturn' = FALSE
        BY <2>1, <3>2, Zenon
      <4>2. clock' = clock + 1
        BY <1>1, <2>1, <3>2
      <4> QED
        BY <4>1, <4>2
    <3> QED
      BY <3>1, <3>2
  <2>4. ASSUME NEW t \in Threads, status[t] = "READY", priority[t] < MaxPriority
        PROVE  waited'[t] <= AgingLimit + (clock + 1)
    <3>1. waited[t] <= AgingLimit + clock
      BY <1>1, <2>1, <2>4 DEF WaitOK
    <3>2. waited'[t] \in Int
      BY <1>1, <2>1
    <3> QED
      BY <1>1, <2>2, <3>1, <3>2
  <2>5. \A t \in Threads : status'[t] # "READY" => waited'[t] = 0
    BY <1>1, <2>1 DEF WaitOK
  <2> QED
    BY <2>1, <2>3, <2>4, <2>5 DEF WaitOK
\* Ready threads are the ones of before, or have just become ready.
<1>5. ASSUME clock' = clock, yieldOnReturn' = yieldOnReturn, priority' = priority,
             \A t \in Threads : \/ waited'[t] = 0
                                \/ waited'[t] = waited[t] /\ (status'[t] = "READY" <=> status[t] = "READY")
      PROVE  WaitOK'
  <2>1. ASSUME NEW t \in Threads, status'[t] # "READY" PROVE waited'[t] = 0
    BY <1>1, <1>5, <2>1 DEF WaitOK
  <2>2. ASSUME NEW t \in Threads, status'[t] = "READY", priority'[t] < MaxPriority
        PROVE  waited'[t] <= AgingLimit + IF yieldOnReturn' THEN TimerTicks ELSE clock'
    <3>1. CASE waited'[t] = 0
      BY <1>1, <1>5, <3>1
    <3>2. CASE waited'[t] # 0
      BY <1>1, <1>5, <2>2, <3>2 DEF WaitOK
    <3> QED
      BY <3>1, <3>2
  <2> QED
    BY <2>1, <2>2 DEF WaitOK
<1>6. ASSUME NEW t \in ExecThreads, Exec(t) \/ WakeUp(t) PROVE WaitOK'
  <2>1. /\ clock' = clock /\ yieldOnReturn' = yieldOnReturn /\ priority' = priority
        /\ waited' = [waited EXCEPT ![t] = 0] /\ status' = [status EXCEPT ![t] = "READY"]
    BY <1>6 DEF Exec, WakeUp, ReadyToRun, timer
  <2>2. /\ waited'[t] = 0
        /\ \A u \in Threads \ {t} : waited'[u] = waited[u] /\ status'[u] = status[u]
    BY <1>1, <2>1
  <2> QED
    BY <1>5, <2>1, <2>2
\* A dispatched thread no longer waits.
<1>7. ASSUME NEW n \in Threads, NEW s \in [Threads -> Statuses], Dispatch(n, s),
             NEW w \in [Threads -> 0 .. WaitCap], waited' = [w EXCEPT ![n] = 0]
      PROVE  /\ waited'[n] = 0 /\ status'[n] = "RUNNING"
             /\ \A u \in Threads \ {n} : waited'[u] = w[u] /\ status'[u] = s[u]
  <2>1. status' = [s EXCEPT ![n] = "RUNNING"]
    BY <1>7 DEF Dispatch
  <2> QED
    BY <1>7, <2>1
<1>8. ASSUME NEW f \in BOOLEAN, Sleep(f), cpu = "run" PROVE WaitOK'
  <2>1. clock' = clock /\ yieldOnReturn' = yieldOnReturn /\ priority' = priority
    BY <1>8 DEF Sleep, timer
  <2>2. status[currentThread] = "RUNNING" /\ waited[currentThread] = 0
    BY <1>1, <1>8 DEF StatusOK, WaitOK
  <2>3. CASE NoneReady(ready)
    <3>1. status' = [status EXCEPT ![currentThread] = "BLOCKED"] /\ waited' = waited
      BY <1>8, <2>3 DEF Sleep
    <3>2. \A u \in Threads : waited'[u] = waited[u] /\ (status'[u] = "READY" <=> status[u] = "READY")
      BY <1>1, <2>2, <3>1
    <3> QED
      BY <1>5, <2>1, <3>2
  <2>4. CASE ~ NoneReady(ready)
    <3>1. PICK n \in Threads : n = NextToRun(ready)
      BY <1>1, <2>4, NextIsReady
    <3>2. PICK s \in [Threads -> Statuses] : s = [status EXCEPT ![currentThread] = IF f THEN "DELETED" ELSE "BLOCKED"]
      BY <1>1 DEF Statuses
    <3>3. waited' = [waited EXCEPT ![n] = 0] /\ Dispatch(n, s)
      BY <1>8, <2>4, <3>1, <3>2 DEF Sleep
    <3>4. /\ waited'[n] = 0
          /\ \A u \in Threads \ {n} : waited'[u] = waited[u] /\ status'[u] = s[u]
      BY <1>1, <1>7, <3>3
    <3>5. \A u \in Threads : s[u] = "READY" <=> status[u] = "READY"
      BY <1>1, <2>2, <3>2
    <3>6. \A u \in Threads : \/ waited'[u] = 0
                             \/ waited'[u] = waited[u] /\ (status'[u] = "READY" <=> status[u] = "READY")
      BY <3>4, <3>5
    <3> QED
      BY <1>5, <2>1, <3>6
  <2> QED
    BY <2>3, <2>4
<1>9. CASE LeaveIdle
  <2>1. clock' = clock /\ yieldOnReturn' = yieldOnReturn /\ priority' = priority
    BY <1>9 DEF LeaveIdle, timer
  <2>2. PICK n \in Threads : n = NextToRun(ready)
    BY <1>1, <1>9, NextIsReady DEF LeaveIdle
  <2>3. PICK s \in [Threads -> Statuses] :
           s = IF cpu = "idleFinishing" THEN [status EXCEPT ![currentThread] = "DELETED"] ELSE status
    BY <1>1 DEF Statuses
  <2>4. waited' = [waited EXCEPT ![n] = 0] /\ Dispatch(n, s)
    BY <1>9, <2>2, <2>3 DEF LeaveIdle
  <2>5. /\ waited'[n] = 0
        /\ \A u \in Threads \ {n} : waited'[u] = waited[u] /\ status'[u] = s[u]
    BY <1>1, <1>7, <2>4
  <2>6. \A u \in Threads : s[u] = "READY" <=> status[u] = "READY"
    BY <1>1, <2>3 DEF StatusOK
  <2>7. \A u \in Threads : \/ waited'[u] = 0
                           \/ waited'[u] = waited[u] /\ (status'[u] = "READY" <=> status[u] = "READY")
    BY <2>5, <2>6
  <2> QED
    BY <1>5, <2>1, <2>7
<1>10. CASE TimerYield
  <2>1. Yield /\ cpu = "run" /\ yieldOnReturn /\ ~ yieldOnReturn' /\ clock' = clock /\ priority' = AgedPriority
    BY <1>10 DEF TimerYield, Running, Yield
  <2>2. clock = 0 /\ status[currentThread] = "RUNNING" /\ waited[currentThread] = 0
    BY <1>1, <2>1 DEF TimerOK, StatusOK, WaitOK
  <2>3. PICK w \in [Threads -> 0 .. WaitCap] : w = AgedWaited
    BY <1>1, AgedOthers
  <2>4. /\ \A t \in Threads : status[t] = "READY" /\ priority'[t] < MaxPriority => w[t] <= AgingLimit
        /\ \A t \in Threads : status[t] # "READY" => w[t] = 0
    BY <1>1, <2>1, <2>3, AgedWaits, AgedOthers DEF WaitOK
  <2>5. ASSUME \A u \in Threads : \/ waited'[u] = 0
                                  \/ waited'[u] = w[u] /\ (status'[u] = "READY" <=> status[u] = "READY")
        PROVE  WaitOK'
    <3>1. ASSUME NEW t \in Threads, status'[t] # "READY" PROVE waited'[t] = 0
      BY <2>4, <2>5, <3>1
    <3>2. ASSUME NEW t \in Threads, status'[t] = "READY", priority'[t] < MaxPriority
          PROVE  waited'[t] <= AgingLimit + IF yieldOnReturn' THEN TimerTicks ELSE clock'
      <4>1. waited'[t] <= AgingLimit
        BY <1>1, <2>4, <2>5, <3>2
      <4>2. waited'[t] \in Int
        BY <2>3, <2>5
      <4> QED
        BY <1>1, <2>1, <2>2, <4>1, <4>2
    <3> QED
      BY <3>1, <3>2 DEF WaitOK
  <2>6. CASE Preempt(AgedReady, currentThread)
    <3>1. PICK n \in Threads : n = NextToRun(AgedReady)
      BY <1>1, <2>6, PreemptReady, AgedNextIsReady
    <3>2. PICK s \in [Threads -> Statuses] : s = [status EXCEPT ![currentThread] = "READY"]
      BY <1>1 DEF Statuses
    <3>3. waited' = [w EXCEPT ![n] = 0] /\ Dispatch(n, s)
      BY <2>1, <2>3, <2>6, <3>1, <3>2 DEF Yield
    <3>4. /\ waited'[n] = 0
          /\ \A u \in Threads \ {n} : waited'[u] = w[u] /\ status'[u] = s[u]
      BY <1>7, <3>3
    <3>5. w[currentThread] = 0
      BY <1>1, <2>2, <2>4
    <3>6. \A u \in Threads \ {currentThread} : s[u] = status[u]
      BY <1>1, <3>2
    <3>7. \A u \in Threads : \/ waited'[u] = 0
                             \/ waited'[u] = w[u] /\ (status'[u] = "READY" <=> status[u] = "READY")
      BY <3>4, <3>5, <3>6
    <3> QED
      BY <2>5, <3>7
  <2>7. CASE ~ Preempt(AgedReady, currentThread)
    <3>1. waited' = w /\ status' = status
      BY <2>1, <2>3, <2>7 DEF Yield
    <3> QED
      BY <2>5, <3>1
  <2> QED
    BY <2>6, <2>7
<1>11. CASE Block
  BY <1>8, <1>11 DEF Block, Thinking, Running
<1>12. CASE Finish
  BY <1>8, <1>12 DEF Finish, Thinking, Running
<1> QED
  BY <1>2, <1>3, <1>4, <1>6, <1>9, <1>10, <1>11, <1>12 DEF Next, Compute

-----------------------------------------------------------------------------
(* The theorems.                                                           *)

\* The invariant holds in every reachable state.
THEOREM InvariantHolds == Spec => []IInv
<1>1. IInv /\ [Next]_vars => IInv'
  BY NextTypes, NextStatus, NextCount, NextLists, NextBurst, NextWait DEF IInv
<1> QED
  BY <1>1, InitIInv, PTL DEF Spec

\* Every variable keeps its type; the count of -ee stays between 0 and the
\* number of programs.
THEOREM TypesCorrect == Spec => []TypeOK
<1>1. IInv => TypeOK
  <2> SUFFICES ASSUME IInv PROVE TypeOK
    OBVIOUS
  <2>1. ready \in [1 .. 3 -> Seq(Threads)]
    BY DEF IInv, ListsOK, Listed
  <2>2. execRunningNum \in 0 .. ExecNum
    <3>1. IsFiniteSet(ExecThreads) /\ Cardinality(ExecThreads) = ExecNum
      <4>1. ExecNum \in Nat /\ 1 \in Int /\ ExecThreads = 1 .. ExecNum
        BY Constants DEF ExecThreads
      <4>2. IsFiniteSet(1 .. ExecNum) /\ Cardinality(1 .. ExecNum) = ExecNum - 1 + 1
        BY <4>1, FS_Interval
      <4> QED
        BY <4>1, <4>2
    <3>2. Cardinality(Alive) <= ExecNum /\ Cardinality(Alive) \in Nat
      BY <3>1, FS_Subset, AliveFinite DEF Alive
    <3>3. CASE execExit
      <4>1. execRunningNum = Cardinality(Alive)
        BY <3>3 DEF IInv, CountOK
      <4> QED
        BY <3>2, <4>1, Constants
    <3>4. CASE ~ execExit
      BY <3>4, Constants DEF IInv, BegunOK
    <3> QED
      BY <3>3, <3>4
  <2>3. /\ execExit \in BOOLEAN /\ halted \in BOOLEAN /\ yieldOnReturn \in BOOLEAN
    BY DEF IInv, Flags
  <2> QED
    BY <2>1, <2>2, <2>3 DEF IInv, Types, BurstTypes, Priorities, TypeOK
<1> QED
  BY <1>1, InvariantHolds, PTL

\* Every ready thread is in the list of its level, once, and nothing else is in
\* any list: ReadyToRun, FindNextToRun, Aging and Yield neither lose a thread nor
\* list it twice, whatever the priorities become.
THEOREM ReadyListed == Spec => []ReadyExactlyListed
<1>1. IInv => ReadyExactlyListed
  <2> SUFFICES ASSUME IInv PROVE ReadyExactlyListed
    OBVIOUS
  <2>1. /\ ready \in [1 .. 3 -> Seq(Threads)] /\ Listed(ready, priority, ReadyThreads)
        /\ StatusOK /\ currentThread \in Threads
    BY DEF IInv, ListsOK, Listed, Types
  <2>2. \A t \in ReadyThreads : QueueLevel(priority[t]) \in 1 .. 3
    BY Levels DEF IInv, Types, Priorities, ReadyThreads
  <2>3. ASSUME NEW l \in 1 .. 3
        PROVE  /\ IsInjective(ready[l])
               /\ ToSet(ready[l]) = {t \in ReadyThreads : QueueLevel(priority[t]) = l}
    <3>1. PICK s \in Seq(Threads) : s = ready[l]
      BY <2>1
    <3>2. /\ \A i \in 1 .. Len(s) : s[i] \in ReadyThreads /\ QueueLevel(priority[s[i]]) = l
          /\ \A i, j \in 1 .. Len(s) : s[i] = s[j] => i = j
          /\ \A t \in ReadyThreads : QueueLevel(priority[t]) = l => \E i \in 1 .. Len(s) : s[i] = t
      BY <2>1, <3>1 DEF Listed
    <3>3. DOMAIN s = 1 .. Len(s)
      OBVIOUS
    <3>4. IsInjective(s)
      BY <3>2, <3>3 DEF IsInjective
    <3>5. ToSet(s) = {t \in ReadyThreads : QueueLevel(priority[t]) = l}
      <4> HIDE DEF ReadyThreads, QueueLevel
      <4> QED
        BY <3>2, <3>3 DEF ToSet
    <3> QED
      BY <3>1, <3>4, <3>5
  <2>4. ASSUME NEW l \in 1 .. 3
        PROVE  ToSet(ready[l]) = {t \in Threads : status[t] = "READY" /\ QueueLevel(priority[t]) = l}
    BY <2>3 DEF ReadyThreads
  <2>5. {t \in Threads : status[t] = "READY"} = UNION {ToSet(ready[l]) : l \in 1 .. 3}
    <3> SUFFICES ReadyThreads = UNION {ToSet(ready[l]) : l \in 1 .. 3}
      BY DEF ReadyThreads
    <3>1. ASSUME NEW t \in ReadyThreads PROVE t \in UNION {ToSet(ready[l]) : l \in 1 .. 3}
      BY <2>2, <2>3
    <3>2. ASSUME NEW t \in UNION {ToSet(ready[l]) : l \in 1 .. 3} PROVE t \in ReadyThreads
      BY <2>3
    <3> QED
      BY <3>1, <3>2
  <2>6. {t \in Threads : status[t] = "RUNNING"} = IF cpu = "run" THEN {currentThread} ELSE {}
    BY <2>1 DEF StatusOK
  <2> QED
    BY <2>3, <2>4, <2>5, <2>6 DEF ReadyExactlyListed
<1> QED
  BY <1>1, InvariantHolds, PTL

\* L1 and L2 stay sorted although bursts and priorities change.
THEOREM StaySorted == Spec => []ListsSorted
<1>1. IInv => ListsSorted
  BY DEF IInv, ListsOK, Sorted, SortedBy, L1Order, L2Order, ListsSorted
<1> QED
  BY <1>1, InvariantHolds, PTL

\* A ready thread below the highest priority is promoted within a timer period
\* after the limit.
THEOREM AgingPrompt == Spec => []AgingKeepsUp
<1>1. IInv => AgingKeepsUp
  <2> SUFFICES ASSUME IInv, NEW t \in Threads, status[t] = "READY", priority[t] < MaxPriority
               PROVE  waited[t] <= AgingLimit + TimerTicks
    BY DEF AgingKeepsUp
  <2>1. /\ AgingLimit \in Nat /\ TimerTicks \in Nat /\ clock \in 0 .. TimerTicks - 1
        /\ waited[t] \in Int
    BY Constants DEF IInv, Types
  <2>2. waited[t] <= AgingLimit + IF yieldOnReturn THEN TimerTicks ELSE clock
    BY DEF IInv, WaitOK
  <2> QED
    BY <2>1, <2>2
<1> QED
  BY <1>1, InvariantHolds, PTL

\* With -ee execRunningNum is the number of programs that are past Begin and have
\* not ended, and a thread preempted inside Begin, which is not counted, neither
\* sleeps nor ends nor halts the machine before it is.
THEOREM CountExact == Spec => []RunningCounted
<1>1. IInv => RunningCounted
  BY DEF IInv, CountOK, BegunOK, Alive, Halting, RunningCounted
<1> QED
  BY <1>1, InvariantHolds, PTL

-----------------------------------------------------------------------------
(* What a timer interrupt leaves running.                                  *)

\* A Yield that preempts: the best ready thread runs, and the remaining times
\* are what they were.
LEMMA PreemptingYield ==
    ASSUME IInv, Yield, cpu = "run", Preempt(AgedReady, currentThread),
           NEW n, n = NextToRun(AgedReady)
    PROVE  /\ n \in ReadyThreads /\ n # currentThread /\ currentThread' = n /\ ran' = 0
           /\ priority' = AgedPriority
           /\ \A u \in Threads : status'[u] = "READY" => u \in (ReadyThreads \ {n}) \cup {currentThread}
           /\ \A u \in Threads : Remaining(u)' = Remaining(u)
<1>1. /\ status \in [Threads -> Statuses] /\ currentThread \in Threads
      /\ accuRunTime \in [Threads -> 0 .. MaxBurst] /\ ran \in 0 .. MaxBurst /\ MaxBurst \in Nat
      /\ Types /\ ListsOK /\ StatusOK
  BY Constants DEF IInv, Types, BurstTypes, Statuses
<1>2. n \in ReadyThreads
  BY <1>1, PreemptReady, AgedNextIsReady DEF ReadyThreads
<1>3. PICK t \in Threads : t = currentThread
  BY <1>1
<1>4. n \in Threads /\ n # t
  BY <1>1, <1>2, <1>3 DEF ReadyThreads, StatusOK
<1>5. /\ status' = [[status EXCEPT ![t] = "READY"] EXCEPT ![n] = "RUNNING"]
      /\ currentThread' = n /\ cpu' = "run" /\ ran' = 0 /\ estimate' = estimate /\ priority' = AgedPriority
      /\ accuRunTime' = [accuRunTime EXCEPT ![t] = accuRunTime[t] + ran]
  BY <1>1, <1>3 DEF Yield, Dispatch
<1>6. \A u \in Threads : status'[u] = IF u = n THEN "RUNNING" ELSE IF u = t THEN "READY" ELSE status[u]
  BY <1>1, <1>4, <1>5
<1>7. ASSUME NEW u \in Threads PROVE Remaining(u)' = Remaining(u)
  <2>1. Remaining(u) = estimate[u] - Scale * (accuRunTime[u] + IF u = t THEN ran ELSE 0)
    BY <1>3 DEF Remaining
  <2>2. Remaining(u)' = estimate[u] - Scale * (accuRunTime'[u] + 0)
    BY <1>5 DEF Remaining
  <2>3. accuRunTime'[u] + 0 = accuRunTime[u] + IF u = t THEN ran ELSE 0
    <3>1. accuRunTime'[u] = IF u = t THEN accuRunTime[u] + ran ELSE accuRunTime[u]
      BY <1>1, <1>5
    <3>2. accuRunTime[u] \in Int /\ ran \in Int
      BY <1>1
    <3> QED
      BY <3>1, <3>2
  <2> QED
    BY <2>1, <2>2, <2>3
<1>8. \A u \in Threads : status'[u] = "READY" => u \in (ReadyThreads \ {n}) \cup {currentThread}
  BY <1>3, <1>6 DEF ReadyThreads
<1> QED
  BY <1>2, <1>3, <1>4, <1>5, <1>7, <1>8

\* Outranks in the new state, when the remaining times are those of the old one.
LEMMA OutranksThen ==
    ASSUME NEW t \in Threads, NEW u \in Threads,
           Remaining(t)' = Remaining(t), Remaining(u)' = Remaining(u)
    PROVE  Outranks(t, u)' <=>
             \/ QueueLevel(priority'[t]) < QueueLevel(priority'[u])
             \/ QueueLevel(priority'[t]) = 1 /\ QueueLevel(priority'[u]) = 1 /\ L1Before(t, u)
             \/ QueueLevel(priority'[t]) = 3 /\ QueueLevel(priority'[u]) = 3 /\ ran' >= TimerTicks
BY DEF Outranks, L1Before, QueueLevel

\* Yield leaves nobody waiting who outranks the thread that runs.
LEMMA YieldRunsBest == IInv /\ TimerYield => NobodyOutranks'
<1> SUFFICES ASSUME IInv, TimerYield PROVE NobodyOutranks'
  OBVIOUS
<1>1. /\ Yield /\ cpu = "run"
      /\ status \in [Threads -> Statuses] /\ currentThread \in Threads
      /\ priority \in Priorities /\ AgedPriority \in Priorities
      /\ BurstTypes /\ Types /\ ListsOK /\ StatusOK /\ ReadyThreads \subseteq Threads
      /\ TimerTicks \in Nat \ {0}
  BY Constants, AgedPriorityType DEF IInv, Types, Statuses, TimerYield, Running, ReadyThreads
<1>2. PICK a, p, S, t : a = AgedReady /\ p = AgedPriority /\ S = ReadyThreads /\ t = currentThread
  OBVIOUS
<1>3. Listed(a, p, S) /\ Sorted(a, p) /\ S \subseteq Threads /\ p \in Priorities /\ t \in Threads
  BY <1>1, <1>2, AgedReadyKeeps DEF ListsOK
<1>4. IsOrder(L1Order) /\ \A u, v \in Threads : <<u, v>> \in L1Order <=> L1Before(u, v)
  BY <1>1, L1IsOrder DEF L1Order
<1>5. \A u \in Threads : QueueLevel(p[u]) \in 1 .. 3
  BY <1>3, Levels DEF Priorities
<1>6. t \notin S /\ p[t] = priority[t]
  BY <1>1, <1>2, AgedOthers DEF StatusOK, ReadyThreads
\* A list that holds a thread is not empty; the first of L1 is before the others.
<1>7. ASSUME NEW u \in S
      PROVE  /\ a[QueueLevel(p[u])] # << >>
             /\ QueueLevel(p[u]) = 1 => Head(a[1]) = u \/ L1Before(Head(a[1]), u)
             /\ QueueLevel(p[u]) = 1 => Head(a[1]) \in Threads
  <2>1. PICK k \in 1 .. 3 : k = QueueLevel(p[u])
    BY <1>3, <1>5
  <2>2. PICK i \in 1 .. Len(a[k]) : a[k][i] = u
    BY <1>3, <2>1 DEF Listed
  <2>3. a[k] # << >>
    BY <2>2
  <2>4. ASSUME k = 1 PROVE (Head(a[1]) = u \/ L1Before(Head(a[1]), u)) /\ Head(a[1]) \in Threads
    <3>1. PICK s \in Seq(Threads) : s = a[1]
      BY <1>3 DEF Listed
    <3>2. i \in 1 .. Len(s) /\ s[i] = u /\ Head(s) = s[1] /\ 1 \in 1 .. Len(s) /\ s[1] \in Threads
      BY <2>2, <2>4, <3>1
    <3>3. SortedBy(s, L1Order)
      BY <1>3, <3>1 DEF Sorted
    <3>4. 1 < i => <<s[1], s[i]>> \in L1Order
      BY <3>2, <3>3 DEF SortedBy
    <3> QED
      BY <1>3, <1>4, <3>1, <3>2, <3>4
  <2> QED
    BY <2>1, <2>3, <2>4
<1>8. CASE ~ Preempt(AgedReady, currentThread)
  <2>1. /\ priority' = p /\ status' = status /\ currentThread' = t /\ cpu' = cpu
        /\ ran' = ran /\ accuRunTime' = accuRunTime /\ estimate' = estimate
    BY <1>1, <1>2, <1>8 DEF Yield
  <2>2. \A u \in Threads : Remaining(u)' = Remaining(u)
    BY <1>2, <2>1 DEF Remaining
  <2>3. /\ a[1] # << >> => QueueLevel(p[t]) = 1 /\ ~ L1Before(Head(a[1]), t)
        /\ a[1] = << >> /\ a[2] # << >> => QueueLevel(p[t]) # 3
        /\ a[1] = << >> /\ a[3] # << >> => QueueLevel(p[t]) # 3 \/ ~ (ran >= TimerTicks)
    BY <1>2, <1>6, <1>8 DEF Preempt
  <2>4. ASSUME NEW u \in S, Outranks(u, t)' PROVE FALSE
    <3>1. PICK k \in 1 .. 3, m \in 1 .. 3 : k = QueueLevel(p[u]) /\ m = QueueLevel(p[t])
      BY <1>3, <1>5
    <3>2. \/ k < m
          \/ k = 1 /\ m = 1 /\ L1Before(u, t)
          \/ k = 3 /\ m = 3 /\ ran >= TimerTicks
      BY <1>3, <2>1, <2>2, <2>4, <3>1, OutranksThen
    <3>3. a[k] # << >>
      BY <1>7, <3>1
    <3>4. CASE k < m
      BY <2>3, <3>1, <3>3, <3>4
    <3>5. CASE k = 1 /\ m = 1 /\ L1Before(u, t)
      <4>1. PICK h \in Threads : h = Head(a[1]) /\ (h = u \/ L1Before(h, u))
        BY <1>7, <3>1, <3>5
      <4>2. L1Before(h, t)
        <5>1. h = u \/ <<h, u>> \in L1Order
          BY <1>3, <1>4, <4>1
        <5>2. <<u, t>> \in L1Order
          BY <1>3, <1>4, <3>5
        <5>3. <<h, t>> \in L1Order
          BY <1>3, <1>4, <5>1, <5>2 DEF IsOrder
        <5> QED
          BY <1>3, <1>4, <5>3
      <4> QED
        BY <2>3, <3>3, <3>5, <4>1, <4>2
    <3>6. CASE k = 3 /\ m = 3 /\ ran >= TimerTicks
      BY <2>3, <3>1, <3>3, <3>6
    <3> QED
      BY <3>2, <3>4, <3>5, <3>6
  <2>5. \A u \in Threads : status'[u] = "READY" => u \in S
    BY <1>2, <2>1 DEF ReadyThreads
  <2> QED
    BY <2>1, <2>4, <2>5 DEF NobodyOutranks
<1>9. CASE Preempt(AgedReady, currentThread)
  <2>1. PICK n : n = NextToRun(a)
    OBVIOUS
  <2>2. /\ n \in S /\ n # t /\ currentThread' = n /\ ran' = 0 /\ priority' = p
        /\ \A u \in Threads : status'[u] = "READY" => u \in (S \ {n}) \cup {t}
        /\ \A u \in Threads : Remaining(u)' = Remaining(u)
    BY <1>1, <1>2, <1>9, <2>1, PreemptingYield
  <2>3. PICK f \in 1 .. 3 : /\ f = FirstLevel(a) /\ a[f] # << >>
                            /\ \A k \in 1 .. 3 : k < f => a[k] = << >>
    BY <1>2, <1>9, PreemptReady, FirstLevelIs
  <2>4. /\ QueueLevel(p[n]) = f
        /\ \A u \in S : f <= QueueLevel(p[u])
        /\ \A u \in S \ {n} : QueueLevel(p[u]) = 1 => <<n, u>> \in L1Order
    BY <1>2, <1>3, <1>9, <2>1, <2>3, PreemptReady, RemoveKeeps
  <2>5. ~ (ran' >= TimerTicks)
    BY <1>1, <2>2
  <2>6. ASSUME NEW u \in S \ {n}, Outranks(u, n)' PROVE FALSE
    <3>1. \/ QueueLevel(p[u]) < QueueLevel(p[n])
          \/ QueueLevel(p[u]) = 1 /\ L1Before(u, n)
      BY <1>3, <2>2, <2>5, <2>6, OutranksThen
    <3>2. f <= QueueLevel(p[u]) /\ QueueLevel(p[u]) \in 1 .. 3
      BY <1>3, <1>5, <2>4
    <3>3. <<n, u>> \in L1Order /\ <<u, n>> \in L1Order
      BY <1>3, <1>4, <2>2, <2>3, <2>4, <3>1, <3>2
    <3> QED
      BY <1>3, <1>4, <2>2, <3>3 DEF IsOrder
  <2>7. ASSUME Outranks(t, n)' PROVE FALSE
    <3>1. \/ QueueLevel(p[t]) < f
          \/ QueueLevel(p[t]) = 1 /\ f = 1 /\ L1Before(t, n)
      BY <1>3, <2>2, <2>4, <2>5, <2>7, OutranksThen
    <3>2. QueueLevel(p[t]) \in 1 .. 3
      BY <1>3, <1>5
    <3>3. CASE a[1] # << >>
      <4>1. f = 1 /\ n = Head(a[1])
        BY <2>1, <2>3, <3>3 DEF NextToRun
      <4>2. QueueLevel(p[t]) = 1 => L1Before(n, t)
        BY <1>2, <1>6, <1>9, <3>3, <4>1 DEF Preempt
      <4>3. L1Before(t, n) /\ L1Before(n, t)
        BY <3>1, <3>2, <4>1, <4>2
      <4>4. <<t, n>> \in L1Order /\ <<n, t>> \in L1Order
        BY <1>3, <1>4, <2>2, <4>3
      <4> QED
        BY <1>3, <1>4, <2>2, <4>4 DEF IsOrder
    <3>4. CASE a[1] = << >>
      <4>1. QueueLevel(p[t]) = 3
        BY <1>2, <1>6, <1>9, <3>4 DEF Preempt
      <4> QED
        BY <2>3, <3>1, <4>1
    <3> QED
      BY <3>3, <3>4
  <2> SUFFICES ASSUME NEW u \in Threads, status'[u] = "READY", Outranks(u, n)' PROVE FALSE
    BY <2>2 DEF NobodyOutranks
  <2>8. CASE u = t
    BY <2>7, <2>8
  <2>9. CASE u \in S \ {n}
    BY <2>6, <2>9
  <2> QED
    BY <2>2, <2>8, <2>9
<1> QED
  BY <1>8, <1>9

\* After the Yield of a timer interrupt nothing that ought to preempt the
\* running thread waits.
THEOREM TimerRunsBest == Spec => TimerLeavesBestRunning
<1>1. IInv /\ [Next]_vars => (yieldOnReturn /\ ~ yieldOnReturn' => NobodyOutranks')
  <2> SUFFICES ASSUME IInv, [Next]_vars, yieldOnReturn, ~ yieldOnReturn' PROVE NobodyOutranks'
    OBVIOUS
  <2>1. TimerYield
    BY DEF Next, Compute, Begin, Advance, Block, Finish, FinishAndHalt, Exec, WakeUp, LeaveIdle, IdleTick,
           Thinking, timer, vars
  <2> QED
    BY <2>1, YieldRunsBest
<1> QED
  BY <1>1, InvariantHolds, PTL DEF Spec, TimerLeavesBestRunning

=============================================================================
