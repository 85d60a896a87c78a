--------------------------- MODULE PipelineProofs ---------------------------
(***************************************************************************)
(* What the Pthreads program does with every line, for every number of     *)
(* lines and producers, every bound of the pool, every queue size and      *)
(* every threshold: no line is lost or doubled, main frees nothing that    *)
(* still holds work, and the consumers in the vector run.                  *)
(*                                                                         *)
(* The inductive invariant has three parts: what each place may hold       *)
(* (PlacesOK, HandsOK), where the lines are (Accounted) and which consumer *)
(* the controller waits for (PoolOK, VictimOK).                            *)
(***************************************************************************)
EXTENDS Pipeline, SequenceTheorems, FiniteSetTheorems, TLAPS

-----------------------------------------------------------------------------
(* Sequences and sets of hands.                                            *)

\* Appending adds one element to those of a sequence.
LEMMA ToSetAppend ==
    ASSUME NEW S, NEW s \in Seq(S), NEW e \in S
    PROVE  /\ Append(s, e) \in Seq(S)
           /\ Len(Append(s, e)) = Len(s) + 1
           /\ ToSet(Append(s, e)) = ToSet(s) \cup {e}
<1>1. /\ DOMAIN s = 1 .. Len(s) /\ DOMAIN Append(s, e) = 1 .. Len(s) + 1
      /\ Len(s) \in Nat
      /\ Append(s, e)[Len(s) + 1] = e
      /\ \A i \in 1 .. Len(s) : Append(s, e)[i] = s[i]
  BY AppendProperties, LenProperties
<1>2. 1 .. Len(s) + 1 = (1 .. Len(s)) \cup {Len(s) + 1}
  BY <1>1
<1>3. QED  BY <1>1, <1>2, AppendProperties DEF ToSet

\* The head and the tail together hold what a sequence holds.
LEMMA ToSetTail ==
    ASSUME NEW S, NEW s \in Seq(S), s # << >>
    PROVE  /\ Head(s) \in S /\ Tail(s) \in Seq(S)
           /\ Len(Tail(s)) = Len(s) - 1
           /\ ToSet(s) = {Head(s)} \cup ToSet(Tail(s))
<1>1. /\ Head(s) \in S /\ Tail(s) \in Seq(S) /\ Head(s) = s[1]
      /\ Len(Tail(s)) = Len(s) - 1 /\ Len(s) \in Nat \ {0}
      /\ DOMAIN s = 1 .. Len(s) /\ DOMAIN Tail(s) = 1 .. Len(s) - 1
      /\ \A i \in 1 .. Len(s) - 1 : Tail(s)[i] = s[i + 1]
  BY HeadTailProperties, LenProperties, EmptySeq
<1>2. ASSUME NEW x \in ToSet(s)  PROVE x \in {Head(s)} \cup ToSet(Tail(s))
  <2>1. PICK i \in 1 .. Len(s) : x = s[i]  BY <1>1, <1>2 DEF ToSet
  <2>2. CASE i = 1  BY <1>1, <2>1, <2>2
  <2>3. CASE i # 1
    <3>1. i - 1 \in 1 .. Len(s) - 1 /\ Tail(s)[i - 1] = s[i]  BY <1>1, <2>3
    <3>2. QED  BY <1>1, <2>1, <3>1 DEF ToSet
  <2>4. QED  BY <2>2, <2>3
<1>3. ASSUME NEW x \in ToSet(Tail(s))  PROVE x \in ToSet(s)
  <2>1. PICK i \in 1 .. Len(s) - 1 : x = Tail(s)[i]  BY <1>1, <1>3 DEF ToSet
  <2>2. i + 1 \in 1 .. Len(s) /\ x = s[i + 1]  BY <1>1, <2>1
  <2>3. QED  BY <1>1, <2>2 DEF ToSet
<1>4. Head(s) \in ToSet(s)  BY <1>1 DEF ToSet
<1>5. QED  BY <1>1, <1>2, <1>3, <1>4

\* What pop_back leaves, and that the removed element is not among it.
LEMMA ToSetFront ==
    ASSUME NEW S, NEW s \in Seq(S), Len(s) > 0, IsInjective(s)
    PROVE  /\ Last(s) \in S /\ Front(s) \in Seq(S)
           /\ IsInjective(Front(s))
           /\ ToSet(s) = ToSet(Front(s)) \cup {Last(s)}
           /\ Last(s) \notin ToSet(Front(s))
<1> DEFINE n == Len(s)
<1>1. n \in Nat \ {0} /\ DOMAIN s = 1 .. n /\ \A i \in 1 .. n : s[i] \in S
  BY LenProperties
<1>2. /\ Front(s) \in Seq(S) /\ Len(Front(s)) = n - 1
      /\ \A i \in 1 .. n - 1 : Front(s)[i] = s[i]
  <2>1. \A i \in 1 .. n - 1 : s[i] \in S  BY <1>1
  <2>2. QED  BY <1>1, <2>1, SubSeqProperties DEF Front
<1>3. DOMAIN Front(s) = 1 .. n - 1
  BY <1>2, LenProperties
<1>4. 1 .. n = (1 .. n - 1) \cup {n} /\ n \notin 1 .. n - 1
  BY <1>1
<1>5. Last(s) = s[n]
  BY DEF Last
<1>6. \A i, j \in 1 .. n : s[i] = s[j] => i = j
  BY <1>1 DEF IsInjective
<1>7. ToSet(s) = ToSet(Front(s)) \cup {Last(s)}
  BY <1>1, <1>2, <1>3, <1>4, <1>5 DEF ToSet
<1>8. Last(s) \notin ToSet(Front(s))
  BY <1>2, <1>3, <1>4, <1>5, <1>6 DEF ToSet
<1>9. IsInjective(Front(s))
  BY <1>2, <1>3, <1>4, <1>6 DEF IsInjective
<1>10. QED  BY <1>1, <1>2, <1>4, <1>5, <1>7, <1>8, <1>9

\* An element not yet in a sequence may be appended to distinct elements.
LEMMA InjectiveAppend ==
    ASSUME NEW S, NEW s \in Seq(S), NEW e \in S, IsInjective(s), e \notin ToSet(s)
    PROVE  IsInjective(Append(s, e))
<1>1. /\ DOMAIN s = 1 .. Len(s) /\ DOMAIN Append(s, e) = 1 .. Len(s) + 1
      /\ Len(s) \in Nat
      /\ Append(s, e)[Len(s) + 1] = e
      /\ \A i \in 1 .. Len(s) : Append(s, e)[i] = s[i]
  BY AppendProperties, LenProperties
<1>2. 1 .. Len(s) + 1 = (1 .. Len(s)) \cup {Len(s) + 1}
  BY <1>1
<1>3. \A i \in 1 .. Len(s) : s[i] # e
  BY <1>1 DEF ToSet
<1>4. QED  BY <1>1, <1>2, <1>3 DEF IsInjective

\* The threads of T that carry something, and what they carry.
Holders(f, T) == {t \in T : f[t] # None}
Hands(f, T) == {f[t] : t \in Holders(f, T)}

\* Only thread t's hand differs between f and g.
ChangesHand(f, g, T, t) == DOMAIN g = T /\ \A u \in T \ {t} : g[u] = f[u]

\* An empty hand is filled.
LEMMA FillHand ==
    ASSUME NEW T, IsFiniteSet(T), NEW f, NEW g, NEW t \in T,
           ChangesHand(f, g, T, t), f[t] = None, g[t] # None
    PROVE  /\ Hands(g, T) = Hands(f, T) \cup {g[t]}
           /\ Cardinality(Holders(f, T)) \in Nat
           /\ Cardinality(Holders(g, T)) = Cardinality(Holders(f, T)) + 1
<1>1. Holders(g, T) = Holders(f, T) \cup {t} /\ t \notin Holders(f, T)
  BY DEF Holders, ChangesHand
<1>2. Hands(g, T) = Hands(f, T) \cup {g[t]}
  BY <1>1 DEF Hands, Holders, ChangesHand
<1>3. IsFiniteSet(Holders(f, T))
  BY FS_Subset DEF Holders
<1>4. QED  BY <1>1, <1>2, <1>3, FS_AddElement, FS_CardinalityType

\* A full hand is emptied.
LEMMA EmptyHand ==
    ASSUME NEW T, IsFiniteSet(T), NEW f, NEW g, NEW t \in T,
           ChangesHand(f, g, T, t), f[t] # None, g[t] = None
    PROVE  /\ Hands(f, T) = Hands(g, T) \cup {f[t]}
           /\ Cardinality(Holders(f, T)) \in Nat
           /\ Cardinality(Holders(g, T)) = Cardinality(Holders(f, T)) - 1
<1>1. Holders(g, T) = Holders(f, T) \ {t} /\ t \in Holders(f, T)
  BY DEF Holders, ChangesHand
<1>2. Hands(f, T) = Hands(g, T) \cup {f[t]}
  BY <1>1 DEF Hands, Holders, ChangesHand
<1>3. IsFiniteSet(Holders(f, T))
  BY FS_Subset DEF Holders
<1>4. QED  BY <1>1, <1>2, <1>3, FS_RemoveElement, FS_CardinalityType

\* Nobody carries anything when nobody is counted.
LEMMA NoHands ==
    ASSUME NEW T, IsFiniteSet(T), NEW f
    PROVE  /\ Cardinality(Holders(f, T)) \in Nat
           /\ Cardinality(Holders(f, T)) = 0 => Hands(f, T) = {}
<1>1. IsFiniteSet(Holders(f, T))
  BY FS_Subset DEF Holders
<1>2. QED  BY <1>1, FS_CardinalityType, FS_EmptySet DEF Hands

\* The same lines are present after a line moved from x to y.
LEMMA SameKeys ==
    ASSUME NEW A, NEW B, NEW x \in A, NEW y \in B, x.key = y.key,
           A \subseteq B \cup {x}, B \subseteq A \cup {y}
    PROVE  {item.key : item \in A} = {item.key : item \in B}
  OBVIOUS

-----------------------------------------------------------------------------
(* The inductive invariant.                                                *)

Stage(done) == [key : 1 .. ExpectedLines, done : {done}]
Fresh == Stage(<< >>)
Produced == Stage(<<"producer">>)
Consumed == Stage(<<"producer", "consumer">>)

\* What each place may hold: the history of an item tells where it is.
PlacesOK ==
    /\ readerQueue \in Seq(Fresh) /\ workerQueue \in Seq(Produced) /\ writerQueue \in Seq(Consumed)
    /\ readerItem \in Fresh \cup {None}
    /\ producerItem \in [Producers -> Produced \cup {None}]
    /\ consumerItem \in [ConsumerIds -> Consumed \cup {None}]
    /\ output \subseteq Consumed

\* The counters of the reader and the writer, and how far main has come.
ProgressOK ==
    /\ linesRead \in 0 .. ExpectedLines /\ linesWritten \in 0 .. ExpectedLines
    /\ mainPc \in {"joinReader", "joinWriter", "delete"}
    /\ mainPc # "joinReader" => ReaderDone
    /\ mainPc = "delete" => WriterDone

Present == Carried(readerItem) \cup Hands(producerItem, Producers) \cup Hands(consumerItem, ConsumerIds)
           \cup ToSet(readerQueue) \cup ToSet(workerQueue) \cup ToSet(writerQueue) \cup output

\* The two halves of EachLineInOnePlace.
KeysOK == {item.key : item \in Present} = 1 .. linesRead
CountOK ==
    linesRead = Len(readerQueue) + Len(workerQueue) + Len(writerQueue) + linesWritten
                + Cardinality(Carried(readerItem))
                + Cardinality(Holders(producerItem, Producers))
                + Cardinality(Holders(consumerItem, ConsumerIds))
Accounted == KeysOK /\ CountOK

\* The controller's variables have their types; a sampled length is one that
\* the worker queue can have.
PoolOK ==
    /\ consumers \in Seq(ConsumerIds)
    /\ consumerPc \in [ConsumerIds -> {"none", "check", "dequeue", "enqueue", "done"}]
    /\ isCancel \in [ConsumerIds -> BOOLEAN]
    /\ controllerPc \in {"sleep", "grow", "shrink", "join"}

LengthsOK == /\ Len(workerQueue) <= WorkerQueueSize
             /\ queueSize \in 0 .. WorkerQueueSize

\* A consumer carries an item exactly between its dequeue and its enqueue.
HandsOK == \A c \in ConsumerIds : consumerItem[c] # None <=> consumerPc[c] = "enqueue"

\* The controller in join waits for a running consumer that is out of the
\* vector and whose flag is set; otherwise it waits for nobody.
VictimOK ==
    /\ controllerPc # "join" => victim = 0
    /\ controllerPc = "join" => /\ victim \in ConsumerIds
                                /\ victim \notin ToSet(consumers)
                                /\ isCancel[victim]
                                /\ consumerPc[victim] # "none"

\* The vector holds the consumers that run, but for the one being joined.
VectorOK ==
    /\ IsInjective(consumers)
    /\ \A c \in ToSet(consumers) : consumerPc[c] \notin {"none", "done"} /\ ~ isCancel[c]
    /\ \A c \in ConsumerIds : consumerPc[c] # "none" => c \in ToSet(consumers) \cup {victim}

Core == /\ PlacesOK /\ ProgressOK /\ Accounted
        /\ PoolOK /\ LengthsOK /\ HandsOK /\ VictimOK /\ VectorOK

\* Once started, consumers are never all taken away.
ServedOK == consumers = << >> => NeverStarted

\* The reader's and the writer's queue are within their capacities.
RoomOK == Len(readerQueue) <= ReaderQueueSize /\ Len(writerQueue) <= WriterQueueSize

IInv == Core /\ ServedOK /\ RoomOK

-----------------------------------------------------------------------------
(* What the invariant says.                                                *)

\* An item is never the empty hand.
LEMMA ItemsNotNone ==
    ASSUME NEW d \in {<< >>, <<"producer">>, <<"producer", "consumer">>}
    PROVE  Stage(d) \subseteq Items /\ None \notin Stage(d)
  BY NoneAssumption DEF Stage, Items

\* The pool of consumers and the set of producers are finite.
LEMMA FiniteThreads ==
    IsFiniteSet(Producers) /\ IsFiniteSet(ConsumerIds)
  BY ProducersAssumption, SizesAssumption, FS_Interval DEF ConsumerIds

\* The invariant implies the type invariant.
LEMMA IInvTypes ==
    ASSUME IInv  PROVE TypeOK
<1>1. /\ readerQueue \in Seq(Items) /\ workerQueue \in Seq(Items) /\ writerQueue \in Seq(Items)
  BY ItemsNotNone, SeqMonotonic DEF IInv, Core, PlacesOK, Fresh, Produced, Consumed
<1>2. /\ readerItem \in Items \cup {None} /\ output \subseteq Items
      /\ producerItem \in [Producers -> Items \cup {None}]
      /\ consumerItem \in [ConsumerIds -> Items \cup {None}]
  BY ItemsNotNone DEF IInv, Core, PlacesOK, Fresh, Produced, Consumed
<1>3. victim \in ConsumerIds \cup {0}
  BY DEF IInv, Core, PoolOK, VictimOK
<1>4. QED  BY <1>1, <1>2, <1>3 DEF IInv, Core, RoomOK, TypeOK, ProgressOK, PoolOK, LengthsOK

\* Accounted is EachLineInOnePlace.
LEMMA AccountedMeans ==
    Accounted <=> EachLineInOnePlace
  BY DEF Accounted, KeysOK, CountOK, Present, EachLineInOnePlace, InHand, Queued, Hands, Holders

\* When main deletes, every count but that of the written lines is zero.
LEMMA IInvShutdown ==
    ASSUME IInv  PROVE ShutdownComplete
<1> SUFFICES ASSUME mainPc = "delete"  
             PROVE  /\ output = {[key |-> k, done |-> <<"producer", "consumer">>] : k \in 1 .. ExpectedLines}
                    /\ InHand = {} /\ Queued = {}
  BY DEF ShutdownComplete
<1>1. linesRead = ExpectedLines /\ readerItem = None /\ linesWritten = ExpectedLines
  BY DEF IInv, Core, ProgressOK, ReaderDone, WriterDone
<1>2. Carried(readerItem) = {}
  BY <1>1 DEF Carried
<1>3. /\ Len(readerQueue) = 0 /\ Len(workerQueue) = 0 /\ Len(writerQueue) = 0
      /\ Cardinality(Holders(producerItem, Producers)) = 0
      /\ Cardinality(Holders(consumerItem, ConsumerIds)) = 0
  <2>1. /\ Cardinality(Holders(producerItem, Producers)) \in Nat
        /\ Cardinality(Holders(consumerItem, ConsumerIds)) \in Nat
    BY FiniteThreads, NoHands
  <2>2. Cardinality(Carried(readerItem)) = 0
    BY <1>2, FS_EmptySet
  <2>3. Len(readerQueue) \in Nat /\ Len(workerQueue) \in Nat /\ Len(writerQueue) \in Nat
    BY LenProperties DEF IInv, Core, PlacesOK
  <2>4. QED  BY <1>1, <2>1, <2>2, <2>3, SizesAssumption DEF IInv, Core, Accounted, CountOK
<1>4. ToSet(readerQueue) = {} /\ ToSet(workerQueue) = {} /\ ToSet(writerQueue) = {}
  <2>1. DOMAIN readerQueue = {} /\ DOMAIN workerQueue = {} /\ DOMAIN writerQueue = {}
    BY <1>3, LenProperties DEF IInv, Core, PlacesOK
  <2>2. QED  BY <2>1 DEF ToSet
<1>5. Hands(producerItem, Producers) = {} /\ Hands(consumerItem, ConsumerIds) = {}
  BY <1>3, FiniteThreads, NoHands
<1>6. InHand = {} /\ Queued = {}
  BY <1>2, <1>4, <1>5 DEF InHand, Queued, Hands, Holders
<1>7. {item.key : item \in output} = 1 .. ExpectedLines
  BY <1>1, <1>2, <1>4, <1>5 DEF IInv, Core, Accounted, KeysOK, Present
<1>8. output \subseteq [key : 1 .. ExpectedLines, done : {<<"producer", "consumer">>}]
  BY DEF IInv, Core, PlacesOK, Consumed, Stage
<1>9. \A item \in output : item = [key |-> item.key, done |-> <<"producer", "consumer">>]
  BY <1>8
<1>10. QED  BY <1>6, <1>7, <1>8, <1>9

-----------------------------------------------------------------------------
(* Initially every place is empty.                                         *)

\* The initial state satisfies the invariant.
LEMMA InitIInv ==
    ASSUME Init  PROVE IInv
<1>1. PlacesOK
  BY EmptySeq DEF Init, PlacesOK
<1>2. ProgressOK
  BY SizesAssumption DEF Init, ProgressOK
<1>3. Accounted
  <2>1. /\ Carried(readerItem) = {} /\ Holders(producerItem, Producers) = {}
        /\ Holders(consumerItem, ConsumerIds) = {}
    BY DEF Init, Carried, Holders
  <2>2. ToSet(<< >>) = {}
    BY DEF ToSet
  <2>3. Present = {}
    BY <2>1, <2>2 DEF Init, Present, Hands
  <2>4. KeysOK
    BY <2>3 DEF Init, KeysOK
  <2>5. CountOK
    <3>1. Len(readerQueue) = 0 /\ Len(workerQueue) = 0 /\ Len(writerQueue) = 0
      BY EmptySeq DEF Init
    <3>2. linesRead = 0 /\ linesWritten = 0
      BY DEF Init
    <3>3. QED  BY <2>1, <3>1, <3>2, FS_EmptySet DEF CountOK
  <2>6. QED  BY <2>4, <2>5 DEF Accounted
<1>4. PoolOK
  BY EmptySeq DEF Init, PoolOK
<1>5. LengthsOK
  BY EmptySeq, SizesAssumption DEF Init, LengthsOK
<1>6. HandsOK /\ VictimOK
  BY DEF Init, HandsOK, VictimOK
<1>7. VectorOK
  <2>1. ToSet(<< >>) = {} /\ IsInjective(<< >>)
    BY DEF ToSet, IsInjective
  <2>2. QED  BY <2>1 DEF Init, VectorOK
<1>8. ServedOK /\ RoomOK
  BY EmptySeq, SizesAssumption DEF Init, ServedOK, NeverStarted, RoomOK
<1>9. QED  BY <1>1, <1>2, <1>3, <1>4, <1>5, <1>6, <1>7, <1>8 DEF IInv, Core

-----------------------------------------------------------------------------
(* Each step keeps the invariant.                                          *)

\* The reader makes line linesRead + 1 present, or moves its item to a queue.
LEMMA ReaderStep ==
    ASSUME IInv, Reader  PROVE Core'
<1> USE DEF IInv, Core
<1>1. CASE ReaderRead
  <2> DEFINE line == NewItem(linesRead + 1)
  <2>1. line \in Fresh /\ line # None /\ line.key = linesRead + 1
    <3>1. linesRead + 1 \in 1 .. ExpectedLines
      BY <1>1, SizesAssumption DEF ReaderRead, ProgressOK
    <3>2. line \in Fresh /\ line.key = linesRead + 1
      BY <3>1 DEF NewItem, Fresh, Stage
    <3>3. QED  BY <3>2, ItemsNotNone DEF Fresh
  <2>2. PlacesOK'
    BY <1>1, <2>1 DEF ReaderRead, PlacesOK, queues, consumerVars, writerVars
  <2>3. ProgressOK'
    BY <1>1, SizesAssumption DEF ReaderRead, ProgressOK, ReaderDone, WriterDone, writerVars
  <2>4. Carried(readerItem) = {} /\ Carried(readerItem)' = {line}
    BY <1>1, <2>1 DEF ReaderRead, Carried
  <2>5. Present' = Present \cup {line}
    BY <1>1, <2>4 DEF ReaderRead, Present, queues, consumerVars, writerVars
  <2>6. KeysOK'
    <3>1. {item.key : item \in Present'} = (1 .. linesRead) \cup {linesRead + 1}
      BY <2>1, <2>5 DEF Accounted, KeysOK
    <3>2. linesRead' = linesRead + 1 /\ linesRead \in Nat
      BY <1>1 DEF ReaderRead, ProgressOK
    <3>3. QED  BY <3>1, <3>2 DEF KeysOK
  <2>7. CountOK'
    <3>1. Cardinality(Carried(readerItem)) = 0 /\ Cardinality(Carried(readerItem)') = 1
      BY <2>4, FS_EmptySet, FS_Singleton
    <3>2. /\ linesRead' = linesRead + 1
          /\ UNCHANGED <<readerQueue, workerQueue, writerQueue, linesWritten,
                         producerItem, consumerItem>>
      BY <1>1 DEF ReaderRead, queues, consumerVars, writerVars
    <3>3. /\ Len(readerQueue) \in Nat /\ Len(workerQueue) \in Nat /\ Len(writerQueue) \in Nat
          /\ Cardinality(Holders(producerItem, Producers)) \in Nat
          /\ Cardinality(Holders(consumerItem, ConsumerIds)) \in Nat
      BY LenProperties, FiniteThreads, NoHands DEF PlacesOK
    <3>4. QED  BY <3>1, <3>2, <3>3 DEF Accounted, CountOK, ProgressOK
  <2>8. /\ PoolOK' /\ LengthsOK' /\ HandsOK' /\ VictimOK' /\ VectorOK'
    BY <1>1 DEF ReaderRead, queues, consumerVars, controllerVars,
                PoolOK, LengthsOK, HandsOK, VictimOK, VectorOK
  <2>9. QED  BY <2>2, <2>3, <2>6, <2>7, <2>8 DEF Accounted
<1>2. CASE ReaderEnqueue
  <2>1. /\ readerItem \in Fresh /\ readerItem # None /\ readerItem' = None
        /\ readerQueue' = Append(readerQueue, readerItem)
    BY <1>2 DEF ReaderEnqueue, PlacesOK
  <2>2. /\ readerQueue' \in Seq(Fresh) /\ Len(readerQueue') = Len(readerQueue) + 1
        /\ ToSet(readerQueue') = ToSet(readerQueue) \cup {readerItem}
    BY <2>1, ToSetAppend DEF PlacesOK
  <2>3. PlacesOK'
    BY <1>2, <2>1, <2>2 DEF ReaderEnqueue, PlacesOK, consumerVars, writerVars
  <2>4. ProgressOK'
    BY <1>2 DEF ReaderEnqueue, ProgressOK, ReaderDone, WriterDone, writerVars
  <2>5. Carried(readerItem) = {readerItem} /\ Carried(readerItem)' = {}
    BY <2>1 DEF Carried
  <2>6. Present' = Present
    BY <1>2, <2>2, <2>5 DEF ReaderEnqueue, Present, consumerVars, writerVars
  <2>7. KeysOK'
    BY <1>2, <2>6 DEF ReaderEnqueue, Accounted, KeysOK
  <2>8. CountOK'
    <3>1. Cardinality(Carried(readerItem)) = 1 /\ Cardinality(Carried(readerItem)') = 0
      BY <2>5, FS_EmptySet, FS_Singleton
    <3>2. UNCHANGED <<workerQueue, writerQueue, linesRead, linesWritten, producerItem, consumerItem>>
      BY <1>2 DEF ReaderEnqueue, consumerVars, writerVars
    <3>3. /\ Len(readerQueue) \in Nat /\ Len(workerQueue) \in Nat /\ Len(writerQueue) \in Nat
          /\ Cardinality(Holders(producerItem, Producers)) \in Nat
          /\ Cardinality(Holders(consumerItem, ConsumerIds)) \in Nat
      BY LenProperties, FiniteThreads, NoHands DEF PlacesOK
    <3>4. QED  BY <2>2, <3>1, <3>2, <3>3 DEF Accounted, CountOK, ProgressOK
  <2>9. /\ PoolOK' /\ LengthsOK' /\ HandsOK' /\ VictimOK' /\ VectorOK'
    BY <1>2 DEF ReaderEnqueue, consumerVars, controllerVars,
                PoolOK, LengthsOK, HandsOK, VictimOK, VectorOK
  <2>10. QED  BY <2>3, <2>4, <2>7, <2>8, <2>9 DEF Accounted
<1>3. QED  BY <1>1, <1>2 DEF Reader

\* The history that each transformation leaves.
LEMMA AppendStage ==
    /\ Append(<< >>, "producer") = <<"producer">>
    /\ Append(<<"producer">>, "consumer") = <<"producer", "consumer">>
<1>1. ASSUME NEW S, NEW s \in Seq(S), NEW e \in S
      PROVE  /\ Append(s, e) \in Seq(S) /\ Len(Append(s, e)) = Len(s) + 1
             /\ \A i \in 1 .. Len(s) : Append(s, e)[i] = s[i]
             /\ Append(s, e)[Len(s) + 1] = e
  BY AppendProperties
<1>2. ASSUME NEW S, NEW e \in S, NEW f \in S
      PROVE  Append(<< >>, e) = <<e>> /\ Append(<<e>>, f) = <<e, f>>
  <2>1. << >> \in Seq(S) /\ <<e>> \in Seq(S) /\ <<e, f>> \in Seq(S)
    OBVIOUS
  <2>2. Append(<< >>, e) = <<e>>
    BY <2>1, AppendProperties, SeqEqual
  <2>3. /\ Append(<<e>>, f) \in Seq(S) /\ Len(Append(<<e>>, f)) = 2
        /\ Append(<<e>>, f)[1] = e /\ Append(<<e>>, f)[2] = f
    BY <1>1, <2>1
  <2>4. \A i \in 1 .. 2 : Append(<<e>>, f)[i] = <<e, f>>[i]
    BY <2>3
  <2>5. QED  BY <2>1, <2>2, <2>3, <2>4, SeqEqual
<1>3. "producer" \in {"producer", "consumer"} /\ "consumer" \in {"producer", "consumer"}
  OBVIOUS
<1>4. QED  BY <1>2, <1>3

\* A transformed item has the line it had and the next history.
LEMMA TransformProduced ==
    ASSUME NEW item \in Fresh
    PROVE  /\ Transform(item, "producer") \in Produced
           /\ Transform(item, "producer").key = item.key
  BY AppendStage DEF Fresh, Produced, Stage, Transform

\* Likewise for a consumer.
LEMMA TransformConsumed ==
    ASSUME NEW item \in Produced
    PROVE  /\ Transform(item, "consumer") \in Consumed
           /\ Transform(item, "consumer").key = item.key
  BY AppendStage DEF Produced, Consumed, Stage, Transform

\* Every term of the account is a natural number.
LEMMA CountsTyped ==
    ASSUME IInv
    PROVE  /\ Len(readerQueue) \in Nat /\ Len(workerQueue) \in Nat /\ Len(writerQueue) \in Nat
           /\ linesRead \in Nat /\ linesWritten \in Nat
           /\ Cardinality(Carried(readerItem)) \in Nat
           /\ Cardinality(Holders(producerItem, Producers)) \in Nat
           /\ Cardinality(Holders(consumerItem, ConsumerIds)) \in Nat
<1>1. Len(readerQueue) \in Nat /\ Len(workerQueue) \in Nat /\ Len(writerQueue) \in Nat
  BY LenProperties DEF IInv, Core, PlacesOK
<1>2. Cardinality(Carried(readerItem)) \in Nat
  <2>1. CASE readerItem = None
    BY <2>1, FS_EmptySet DEF Carried
  <2>2. CASE readerItem # None
    <3>1. Cardinality({readerItem}) = 1
      BY FS_Singleton
    <3>2. QED  BY <2>2, <3>1 DEF Carried
  <2>3. QED  BY <2>1, <2>2
<1>3. /\ Cardinality(Holders(producerItem, Producers)) \in Nat
      /\ Cardinality(Holders(consumerItem, ConsumerIds)) \in Nat
  BY FiniteThreads, NoHands
<1>4. linesRead \in Nat /\ linesWritten \in Nat
  BY DEF IInv, Core, ProgressOK
<1>5. QED  BY <1>1, <1>2, <1>3, <1>4

\* A producer moves a line from the reader queue through its hand to the
\* worker queue and transforms it on the way.
LEMMA ProducerStep ==
    ASSUME IInv, NEW p \in Producers, Producer(p)  PROVE Core'
<1> USE DEF IInv, Core
<1>1. /\ Len(readerQueue) \in Nat /\ Len(workerQueue) \in Nat /\ Len(writerQueue) \in Nat
      /\ linesRead \in Nat /\ linesWritten \in Nat
      /\ Cardinality(Carried(readerItem)) \in Nat
      /\ Cardinality(Holders(consumerItem, ConsumerIds)) \in Nat
  BY CountsTyped
<1>2. DOMAIN producerItem = Producers
  BY DEF PlacesOK
<1>3. CASE ProducerDequeue(p)
  <2> DEFINE item == Head(readerQueue)
             made == Transform(item, "producer")
  <2>1. /\ producerItem[p] = None /\ producerItem' = [producerItem EXCEPT ![p] = made]
        /\ readerQueue # << >> /\ readerQueue' = Tail(readerQueue)
    BY <1>3 DEF ProducerDequeue
  <2>2. /\ item \in Fresh /\ readerQueue' \in Seq(Fresh)
        /\ Len(readerQueue') = Len(readerQueue) - 1
        /\ ToSet(readerQueue) = {item} \cup ToSet(readerQueue')
    BY <2>1, ToSetTail DEF PlacesOK
  <2>3. made \in Produced /\ made # None /\ made.key = item.key
    BY <2>2, TransformProduced, ItemsNotNone DEF Produced
  <2> HIDE DEF made, item
  <2>4. PlacesOK'
    BY <1>3, <2>1, <2>2, <2>3 DEF ProducerDequeue, PlacesOK, readerVars, consumerVars, writerVars
  <2>5. /\ Hands(producerItem', Producers) = Hands(producerItem, Producers) \cup {made}
        /\ Cardinality(Holders(producerItem, Producers)) \in Nat
        /\ Cardinality(Holders(producerItem', Producers)) = Cardinality(Holders(producerItem, Producers)) + 1
    <3>1. /\ producerItem[p] = None /\ producerItem'[p] = made /\ made # None
          /\ ChangesHand(producerItem, producerItem', Producers, p)
      BY <1>2, <2>1, <2>3 DEF ChangesHand
    <3>2. QED  BY <3>1, FiniteThreads, FillHand
  <2>6. KeysOK'
    <3>1. /\ Present' \subseteq Present \cup {made} /\ Present \subseteq Present' \cup {item}
          /\ item \in Present /\ made \in Present'
      BY <1>3, <2>2, <2>5 DEF ProducerDequeue, Present, readerVars, consumerVars, writerVars
    <3>2. QED  BY <1>3, <2>3, <3>1, SameKeys DEF ProducerDequeue, Accounted, KeysOK, readerVars
  <2>7. CountOK'
    <3>1. UNCHANGED <<workerQueue, writerQueue, linesRead, readerItem, linesWritten, consumerItem>>
      BY <1>3 DEF ProducerDequeue, readerVars, consumerVars, writerVars
    <3>2. QED  BY <1>1, <2>2, <2>5, <3>1 DEF Accounted, CountOK
  <2>8. /\ ProgressOK' /\ PoolOK' /\ LengthsOK' /\ HandsOK' /\ VictimOK' /\ VectorOK'
    BY <1>3 DEF ProducerDequeue, readerVars, consumerVars, controllerVars, writerVars, ReaderDone,
                WriterDone, ProgressOK, PoolOK, LengthsOK, HandsOK, VictimOK, VectorOK
  <2>9. QED  BY <2>4, <2>6, <2>7, <2>8 DEF Accounted
<1>4. CASE ProducerEnqueue(p)
  <2> DEFINE item == producerItem[p]
  <2>1. /\ item # None /\ producerItem' = [producerItem EXCEPT ![p] = None]
        /\ workerQueue' = Append(workerQueue, item) /\ Len(workerQueue) < WorkerQueueSize
    BY <1>4 DEF ProducerEnqueue
  <2>2. item \in Produced
    BY <2>1 DEF PlacesOK
  <2>3. /\ workerQueue' \in Seq(Produced) /\ Len(workerQueue') = Len(workerQueue) + 1
        /\ ToSet(workerQueue') = ToSet(workerQueue) \cup {item}
    BY <2>1, <2>2, ToSetAppend DEF PlacesOK
  <2>4. /\ Hands(producerItem, Producers) = Hands(producerItem', Producers) \cup {item}
        /\ Cardinality(Holders(producerItem, Producers)) \in Nat
        /\ Cardinality(Holders(producerItem', Producers)) = Cardinality(Holders(producerItem, Producers)) - 1
    <3>1. /\ producerItem[p] # None /\ producerItem'[p] = None
          /\ ChangesHand(producerItem, producerItem', Producers, p)
      BY <1>2, <2>1 DEF ChangesHand
    <3>2. QED  BY <3>1, FiniteThreads, EmptyHand
  <2> HIDE DEF item
  <2>5. PlacesOK'
    BY <1>4, <2>1, <2>3 DEF ProducerEnqueue, PlacesOK, readerVars, consumerVars, writerVars
  <2>6. KeysOK'
    <3>1. Present' = Present
      BY <1>4, <2>3, <2>4 DEF ProducerEnqueue, Present, readerVars, consumerVars, writerVars
    <3>2. QED  BY <1>4, <3>1 DEF ProducerEnqueue, Accounted, KeysOK, readerVars
  <2>7. CountOK'
    <3>1. UNCHANGED <<readerQueue, writerQueue, linesRead, readerItem, linesWritten, consumerItem>>
      BY <1>4 DEF ProducerEnqueue, readerVars, consumerVars, writerVars
    <3>2. QED  BY <1>1, <2>3, <2>4, <3>1 DEF Accounted, CountOK
  <2>8. LengthsOK'
    BY <1>1, <1>4, <2>1, <2>3, SizesAssumption DEF ProducerEnqueue, controllerVars, LengthsOK
  <2>9. /\ ProgressOK' /\ PoolOK' /\ HandsOK' /\ VictimOK' /\ VectorOK'
    BY <1>4 DEF ProducerEnqueue, readerVars, consumerVars, controllerVars, writerVars, ReaderDone,
                WriterDone, ProgressOK, PoolOK, HandsOK, VictimOK, VectorOK
  <2>10. QED  BY <2>5, <2>6, <2>7, <2>8, <2>9 DEF Accounted
<1>5. QED  BY <1>3, <1>4 DEF Producer

\* A consumer checks its flag, moves a line from the worker queue through its
\* hand to the writer queue, and never ends with a line in its hand.
LEMMA ConsumerStep ==
    ASSUME IInv, NEW c \in ConsumerIds, Consumer(c)  PROVE Core'
<1> USE DEF IInv, Core
<1>1. /\ Len(readerQueue) \in Nat /\ Len(workerQueue) \in Nat /\ Len(writerQueue) \in Nat
      /\ linesRead \in Nat /\ linesWritten \in Nat
      /\ Cardinality(Carried(readerItem)) \in Nat
      /\ Cardinality(Holders(producerItem, Producers)) \in Nat
  BY CountsTyped
<1>2. /\ DOMAIN consumerItem = ConsumerIds /\ DOMAIN consumerPc = ConsumerIds
      /\ c \notin ToSet(consumers) \/ consumerPc[c] \notin {"none", "done"}
  BY DEF PlacesOK, PoolOK, VectorOK
<1>3. CASE ConsumerCheck(c)
  <2>1. PlacesOK' /\ ProgressOK' /\ Accounted'
    BY <1>3 DEF ConsumerCheck, queues, readerVars, writerVars, PlacesOK, ProgressOK, ReaderDone,
                WriterDone, Accounted, KeysOK, CountOK, Present
  <2>2. PoolOK' /\ LengthsOK'
    BY <1>3 DEF ConsumerCheck, queues, controllerVars, PoolOK, LengthsOK
  <2>3. consumerPc[c] = "check" /\ consumerPc'[c] \in {"done", "dequeue"}
    BY <1>2, <1>3 DEF ConsumerCheck
  <2>4. \A d \in ConsumerIds \ {c} : consumerPc'[d] = consumerPc[d]
    BY <1>2, <1>3 DEF ConsumerCheck
  <2>5. HandsOK'
    BY <1>3, <2>3, <2>4 DEF ConsumerCheck, HandsOK
  <2>6. VictimOK'
    BY <1>3, <2>3, <2>4 DEF ConsumerCheck, VictimOK, controllerVars
  <2>7. VectorOK'
    <3>1. UNCHANGED <<consumers, isCancel, victim>>
      BY <1>3 DEF ConsumerCheck, controllerVars
    <3>2. c \in ToSet(consumers) => consumerPc'[c] = "dequeue"
      BY <1>2, <1>3 DEF ConsumerCheck, VectorOK
    <3>3. ToSet(consumers) \subseteq ConsumerIds
      BY LenProperties DEF PoolOK, ToSet
    <3>4. QED  BY <2>3, <2>4, <3>1, <3>2, <3>3 DEF VectorOK
  <2>8. QED  BY <2>1, <2>2, <2>5, <2>6, <2>7
<1>4. CASE ConsumerDequeue(c)
  <2> DEFINE item == Head(workerQueue)
             made == Transform(item, "consumer")
  <2>1. /\ consumerPc[c] = "dequeue" /\ consumerItem[c] = None
        /\ consumerItem' = [consumerItem EXCEPT ![c] = made]
        /\ consumerPc' = [consumerPc EXCEPT ![c] = "enqueue"]
        /\ workerQueue # << >> /\ workerQueue' = Tail(workerQueue)
    BY <1>4 DEF ConsumerDequeue, HandsOK
  <2>2. /\ item \in Produced /\ workerQueue' \in Seq(Produced)
        /\ Len(workerQueue') = Len(workerQueue) - 1
        /\ ToSet(workerQueue) = {item} \cup ToSet(workerQueue')
    BY <2>1, ToSetTail DEF PlacesOK
  <2>3. made \in Consumed /\ made # None /\ made.key = item.key
    BY <2>2, TransformConsumed, ItemsNotNone DEF Consumed
  <2> HIDE DEF made, item
  <2>4. PlacesOK'
    BY <1>4, <2>1, <2>2, <2>3 DEF ConsumerDequeue, PlacesOK, readerVars, writerVars
  <2>5. /\ Hands(consumerItem', ConsumerIds) = Hands(consumerItem, ConsumerIds) \cup {made}
        /\ Cardinality(Holders(consumerItem, ConsumerIds)) \in Nat
        /\ Cardinality(Holders(consumerItem', ConsumerIds))
             = Cardinality(Holders(consumerItem, ConsumerIds)) + 1
    <3>1. /\ consumerItem[c] = None /\ consumerItem'[c] = made /\ made # None
          /\ ChangesHand(consumerItem, consumerItem', ConsumerIds, c)
      BY <1>2, <2>1, <2>3 DEF ChangesHand
    <3>2. QED  BY <3>1, FiniteThreads, FillHand
  <2>6. KeysOK'
    <3>1. /\ Present' \subseteq Present \cup {made} /\ Present \subseteq Present' \cup {item}
          /\ item \in Present /\ made \in Present'
      BY <1>4, <2>2, <2>5 DEF ConsumerDequeue, Present, readerVars, writerVars
    <3>2. QED  BY <1>4, <2>3, <3>1, SameKeys DEF ConsumerDequeue, Accounted, KeysOK, readerVars
  <2>7. CountOK'
    <3>1. UNCHANGED <<readerQueue, writerQueue, linesRead, readerItem, linesWritten, producerItem>>
      BY <1>4 DEF ConsumerDequeue, readerVars, writerVars
    <3>2. QED  BY <1>1, <2>2, <2>5, <3>1 DEF Accounted, CountOK
  <2>8. LengthsOK'
    BY <1>1, <1>4, <2>2, SizesAssumption DEF ConsumerDequeue, controllerVars, LengthsOK
  <2>9. HandsOK'
    BY <1>2, <2>1, <2>3 DEF HandsOK
  <2>10. ProgressOK' /\ PoolOK'
    BY <1>4, <2>1 DEF ConsumerDequeue, readerVars, controllerVars, writerVars, ReaderDone,
                      WriterDone, ProgressOK, PoolOK
  <2>11. VictimOK' /\ VectorOK'
    BY <1>2, <1>4, <2>1 DEF ConsumerDequeue, controllerVars, VictimOK, VectorOK
  <2>12. QED  BY <2>4, <2>6, <2>7, <2>8, <2>9, <2>10, <2>11 DEF Accounted
<1>5. CASE ConsumerEnqueue(c)
  <2> DEFINE item == consumerItem[c]
  <2>1. /\ consumerPc[c] = "enqueue" /\ item # None
        /\ consumerItem' = [consumerItem EXCEPT ![c] = None]
        /\ consumerPc' = [consumerPc EXCEPT ![c] = "check"]
        /\ writerQueue' = Append(writerQueue, item)
    BY <1>5 DEF ConsumerEnqueue, HandsOK
  <2>2. item \in Consumed
    BY <2>1 DEF PlacesOK
  <2>3. /\ writerQueue' \in Seq(Consumed) /\ Len(writerQueue') = Len(writerQueue) + 1
        /\ ToSet(writerQueue') = ToSet(writerQueue) \cup {item}
    BY <2>1, <2>2, ToSetAppend DEF PlacesOK
  <2>4. /\ Hands(consumerItem, ConsumerIds) = Hands(consumerItem', ConsumerIds) \cup {item}
        /\ Cardinality(Holders(consumerItem, ConsumerIds)) \in Nat
        /\ Cardinality(Holders(consumerItem', ConsumerIds))
             = Cardinality(Holders(consumerItem, ConsumerIds)) - 1
    <3>1. /\ consumerItem[c] # None /\ consumerItem'[c] = None
          /\ ChangesHand(consumerItem, consumerItem', ConsumerIds, c)
      BY <1>2, <2>1 DEF ChangesHand
    <3>2. QED  BY <3>1, FiniteThreads, EmptyHand
  <2> HIDE DEF item
  <2>5. PlacesOK'
    BY <1>5, <2>1, <2>3 DEF ConsumerEnqueue, PlacesOK, readerVars, writerVars
  <2>6. KeysOK'
    <3>1. Present' = Present
      BY <1>5, <2>3, <2>4 DEF ConsumerEnqueue, Present, readerVars, writerVars
    <3>2. QED  BY <1>5, <3>1 DEF ConsumerEnqueue, Accounted, KeysOK, readerVars
  <2>7. CountOK'
    <3>1. UNCHANGED <<readerQueue, workerQueue, linesRead, readerItem, linesWritten, producerItem>>
      BY <1>5 DEF ConsumerEnqueue, readerVars, writerVars
    <3>2. QED  BY <1>1, <2>3, <2>4, <3>1 DEF Accounted, CountOK
  <2>8. HandsOK'
    BY <1>2, <2>1 DEF HandsOK
  <2>9. ProgressOK' /\ PoolOK' /\ LengthsOK'
    BY <1>5, <2>1 DEF ConsumerEnqueue, readerVars, controllerVars, writerVars, ReaderDone,
                      WriterDone, ProgressOK, PoolOK, LengthsOK
  <2>10. VictimOK' /\ VectorOK'
    BY <1>2, <1>5, <2>1 DEF ConsumerEnqueue, controllerVars, VictimOK, VectorOK
  <2>11. QED  BY <2>5, <2>6, <2>7, <2>8, <2>9, <2>10 DEF Accounted
<1>6. QED  BY <1>3, <1>4, <1>5 DEF Consumer

\* The controller moves no line; it starts a consumer, or takes the last one
\* out of the vector, sets its flag and waits for it.
LEMMA ControllerStep ==
    ASSUME IInv, Controller  PROVE Core'
<1> USE DEF IInv, Core
<1>1. /\ ToSet(consumers) \subseteq ConsumerIds /\ 0 \notin ConsumerIds
      /\ DOMAIN consumerPc = ConsumerIds /\ DOMAIN isCancel = ConsumerIds
  BY LenProperties, SizesAssumption DEF PoolOK, ToSet, ConsumerIds
<1>2. PlacesOK' /\ ProgressOK' /\ Accounted'
  <2>1. UNCHANGED <<queues, readerVars, producerItem, consumerItem, writerVars, mainPc>>
    BY DEF Controller, ControllerSample, ControllerGrow, ControllerShrink, ControllerJoin, consumerVars
  <2>2. QED  BY <2>1 DEF queues, readerVars, writerVars, PlacesOK, ProgressOK, ReaderDone,
                         WriterDone, Accounted, KeysOK, CountOK, Present
<1>3. CASE ControllerSample
  <2>1. Len(workerQueue) \in 0 .. WorkerQueueSize
    BY LenProperties DEF PlacesOK, LengthsOK
  <2>2. QED
    BY <1>2, <1>3, <2>1 DEF ControllerSample, queues, consumerVars, PoolOK, LengthsOK, HandsOK,
                            VictimOK, VectorOK
<1>4. CASE ControllerGrow /\ consumers' # consumers
  <2>1. PICK c \in Unused : /\ consumers' = Append(consumers, c)
                            /\ consumerPc' = [consumerPc EXCEPT ![c] = "check"]
                            /\ isCancel' = [isCancel EXCEPT ![c] = FALSE]
    BY <1>4 DEF ControllerGrow
  <2>2. /\ c \in ConsumerIds /\ consumerPc[c] = "none" /\ c \notin ToSet(consumers)
        /\ controllerPc = "grow" /\ controllerPc' = "shrink" /\ victim = 0
        /\ UNCHANGED <<queues, queueSize, victim, consumerItem>>
    BY <1>4, <2>1 DEF ControllerGrow, Unused, VectorOK, VictimOK
  <2>3. /\ consumers' \in Seq(ConsumerIds) /\ ToSet(consumers') = ToSet(consumers) \cup {c}
        /\ IsInjective(consumers')
    BY <2>1, <2>2, ToSetAppend, InjectiveAppend DEF PoolOK, VectorOK
  <2>4. PoolOK'
    BY <2>1, <2>2, <2>3 DEF PoolOK
  <2>5. LengthsOK' /\ VictimOK'
    BY <2>2 DEF LengthsOK, VictimOK, queues
  <2>6. HandsOK'
    BY <1>1, <2>1, <2>2 DEF HandsOK
  <2>7. VectorOK'
    BY <1>1, <2>1, <2>2, <2>3 DEF VectorOK
  <2>8. QED  BY <1>2, <2>4, <2>5, <2>6, <2>7
<1>5. CASE ControllerGrow /\ consumers' = consumers
  <2>1. ~ (queueSize > HighThreshold /\ Unused # {})
    <3>1. ASSUME NEW c \in Unused, consumers' = Append(consumers, c)  PROVE FALSE
      <4>1. c \in ConsumerIds  BY DEF Unused
      <4>2. Len(consumers') = Len(consumers) + 1 /\ Len(consumers) \in Nat
        BY <3>1, <4>1, AppendProperties, LenProperties DEF PoolOK
      <4>3. QED  BY <1>5, <4>2
    <3>2. QED  BY <1>5, <3>1 DEF ControllerGrow
  <2>2. QED
    BY <1>2, <1>5, <2>1 DEF ControllerGrow, queues, PoolOK, LengthsOK, HandsOK, VictimOK, VectorOK
<1>6. CASE ControllerShrink /\ MustShrink
  <2> DEFINE last == Last(consumers)
  <2>1. /\ victim' = last /\ consumers' = Front(consumers)
        /\ isCancel' = [isCancel EXCEPT ![last] = TRUE]
        /\ controllerPc' = "join" /\ UNCHANGED <<queues, queueSize, consumerVars>>
        /\ controllerPc = "shrink"
    BY <1>6 DEF ControllerShrink, PopBack, Cancel
  <2>2. Len(consumers) > 0
    BY <1>6, LenProperties DEF MustShrink, PoolOK
  <2>3. /\ last \in ConsumerIds /\ consumers' \in Seq(ConsumerIds) /\ IsInjective(consumers')
        /\ ToSet(consumers) = ToSet(consumers') \cup {last} /\ last \notin ToSet(consumers')
    BY <2>1, <2>2, ToSetFront DEF PoolOK, VectorOK
  <2> HIDE DEF last
  <2>4. PoolOK'
    BY <2>1, <2>3 DEF PoolOK, consumerVars
  <2>5. LengthsOK' /\ HandsOK'
    BY <2>1 DEF LengthsOK, HandsOK, queues, consumerVars
  <2>6. VictimOK'
    BY <1>1, <2>1, <2>3 DEF VictimOK, VectorOK, consumerVars
  <2>7. VectorOK'
    <3>1. \A d \in ToSet(consumers') : d # last /\ isCancel'[d] = isCancel[d]
      BY <1>1, <2>1, <2>3
    <3>2. victim \notin ConsumerIds
      BY <1>1, <2>1 DEF VictimOK
    <3>3. QED  BY <2>1, <2>3, <3>1, <3>2 DEF VectorOK, consumerVars
  <2>8. QED  BY <1>2, <2>4, <2>5, <2>6, <2>7
<1>7. CASE ControllerShrink /\ ~ MustShrink
  BY <1>2, <1>7 DEF ControllerShrink, queues, consumerVars, PoolOK, LengthsOK, HandsOK, VictimOK,
                    VectorOK
<1>8. CASE ControllerJoin
  <2>1. /\ controllerPc = "join" /\ controllerPc' = "sleep" /\ victim' = 0
        /\ consumerPc[victim] = "done" /\ consumerPc' = [consumerPc EXCEPT ![victim] = "none"]
        /\ UNCHANGED <<queues, queueSize, consumerItem, consumers, isCancel>>
        /\ victim \in ConsumerIds /\ victim \notin ToSet(consumers)
    BY <1>8 DEF ControllerJoin, VictimOK
  <2>2. PoolOK' /\ LengthsOK' /\ VictimOK'
    BY <2>1 DEF PoolOK, LengthsOK, VictimOK, queues
  <2>3. HandsOK'
    BY <1>1, <2>1 DEF HandsOK
  <2>4. VectorOK'
    BY <1>1, <2>1 DEF VectorOK
  <2>5. QED  BY <1>2, <2>2, <2>3, <2>4
<1>9. QED  BY <1>3, <1>4, <1>5, <1>6, <1>7, <1>8 DEF Controller

\* The writer moves a line from its queue to the file and counts it.
LEMMA WriterStep ==
    ASSUME IInv, WriterDequeue  PROVE Core'
<1> USE DEF IInv, Core
<1> DEFINE item == Head(writerQueue)
<1>1. /\ writerQueue # << >> /\ writerQueue' = Tail(writerQueue)
      /\ output' = output \cup {item} /\ linesWritten' = linesWritten + 1
      /\ linesWritten < ExpectedLines
      /\ UNCHANGED <<readerQueue, workerQueue, linesRead, readerItem, producerItem, consumerPc,
                     consumerItem, consumers, isCancel, controllerPc, queueSize, victim, mainPc>>
  BY DEF WriterDequeue, readerVars, consumerVars, controllerVars
<1>2. /\ item \in Consumed /\ writerQueue' \in Seq(Consumed)
      /\ Len(writerQueue') = Len(writerQueue) - 1
      /\ ToSet(writerQueue) = {item} \cup ToSet(writerQueue')
  BY <1>1, ToSetTail DEF PlacesOK
<1> HIDE DEF item
<1>3. PlacesOK'
  BY <1>1, <1>2 DEF PlacesOK
<1>4. ProgressOK'
  BY <1>1, SizesAssumption DEF ProgressOK, ReaderDone, WriterDone
<1>5. Present' = Present
  BY <1>1, <1>2 DEF Present
<1>6. Accounted'
  <2>1. KeysOK'
    BY <1>1, <1>5 DEF Accounted, KeysOK
  <2>2. CountOK'
    BY <1>1, <1>2, CountsTyped DEF Accounted, CountOK
  <2>3. QED  BY <2>1, <2>2 DEF Accounted
<1>7. PoolOK' /\ LengthsOK' /\ HandsOK' /\ VictimOK' /\ VectorOK'
  BY <1>1 DEF PoolOK, LengthsOK, HandsOK, VictimOK, VectorOK
<1>8. QED  BY <1>3, <1>4, <1>6, <1>7

\* main moves on when the reader, then the writer, has ended.
LEMMA MainStep ==
    ASSUME IInv, MainJoinReader \/ MainJoinWriter  PROVE Core'
<1>1. UNCHANGED <<queues, readerVars, producerItem, consumerVars, controllerVars, writerVars>>
  BY DEF MainJoinReader, MainJoinWriter
<1>2. ProgressOK'
  BY <1>1 DEF IInv, Core, MainJoinReader, MainJoinWriter, ProgressOK, ReaderDone, WriterDone,
              readerVars, writerVars
<1>3. PlacesOK' /\ Accounted' /\ PoolOK' /\ LengthsOK' /\ HandsOK' /\ VictimOK' /\ VectorOK'
  BY <1>1 DEF IInv, Core, queues, readerVars, consumerVars, controllerVars, writerVars, PlacesOK, Accounted,
              KeysOK, CountOK, Present, PoolOK, LengthsOK, HandsOK, VictimOK, VectorOK
<1>4. QED  BY <1>2, <1>3 DEF IInv, Core

\* The last consumer of the vector is never taken out of it, and lines reach the
\* writer only through a consumer.
LEMMA NextServed ==
    ASSUME IInv, [Next]_vars  PROVE ServedOK'
<1> USE DEF IInv, Core
<1>1. CASE consumers = << >>
  <2>1. NeverStarted
    BY <1>1 DEF ServedOK
  <2>2. \A c \in ConsumerIds : consumerPc[c] = "none"
    BY <2>1 DEF NeverStarted
  <2>3. CASE UNCHANGED <<consumers, consumerPc, writerQueue, output>>
    BY <2>1, <2>3 DEF ServedOK, NeverStarted
  <2>4. CASE \E c \in ConsumerIds : Consumer(c)
    BY <2>2, <2>4 DEF Consumer, ConsumerCheck, ConsumerDequeue, ConsumerEnqueue
  <2>5. CASE WriterDequeue
    BY <2>1, <2>5 DEF NeverStarted, WriterDequeue
  <2>6. CASE ControllerGrow
    <3>1. CASE UNCHANGED <<consumers, consumerPc>>
      BY <2>3, <2>6, <3>1 DEF ControllerGrow, queues, writerVars
    <3>2. ASSUME NEW c \in Unused, consumers' = Append(consumers, c)  PROVE consumers' # << >>
      BY <1>1, <3>2
    <3>3. QED  BY <2>6, <3>1, <3>2 DEF ControllerGrow, ServedOK
  <2>7. CASE ControllerShrink
    <3>1. ~ MustShrink
      BY <1>1, EmptySeq DEF MustShrink
    <3>2. QED  BY <2>3, <2>7, <3>1 DEF ControllerShrink, queues, consumerVars, writerVars
  <2>8. CASE ControllerJoin
    BY <2>2, <2>8 DEF ControllerJoin, VictimOK
  <2>9. CASE UNCHANGED vars
    BY <2>3, <2>9 DEF vars, queues, consumerVars, controllerVars, writerVars
  <2>10. CASE Reader \/ (\E p \in Producers : Producer(p)) \/ ControllerSample \/ MainJoinReader \/ MainJoinWriter
    BY <2>3, <2>10 DEF Reader, ReaderRead, ReaderEnqueue, Producer, ProducerDequeue, ProducerEnqueue,
                       ControllerSample, MainJoinReader, MainJoinWriter, queues, consumerVars,
                       controllerVars, writerVars
  <2>11. QED
    BY <2>4, <2>5, <2>6, <2>7, <2>8, <2>9, <2>10 DEF Next, Controller
<1>2. CASE consumers # << >>
  <2>1. CASE consumers' = consumers
    BY <1>2, <2>1 DEF ServedOK
  <2>2. CASE ControllerGrow /\ consumers' # consumers
    <3>1. PICK c \in Unused : consumers' = Append(consumers, c)
      BY <2>2 DEF ControllerGrow
    <3>2. c \in ConsumerIds
      BY DEF Unused
    <3>3. Len(consumers') = Len(consumers) + 1 /\ Len(consumers) \in Nat
      BY <3>1, <3>2, AppendProperties, LenProperties DEF PoolOK
    <3>4. consumers' # << >>
      BY <3>3, EmptySeq
    <3>5. QED  BY <3>4 DEF ServedOK
  <2>3. CASE ControllerShrink /\ MustShrink
    <3>1. Len(consumers) \in Nat /\ Len(consumers) > 1
      BY <2>3, LenProperties DEF MustShrink, PoolOK
    <3>2. consumers' = [i \in 1 .. Len(consumers) - 1 |-> consumers[i]]
      BY <2>3 DEF ControllerShrink, PopBack, Front
    <3>3. consumers' # << >>
      <4>1. 1 \in DOMAIN consumers' /\ DOMAIN << >> = {}
        BY <3>1, <3>2
      <4>2. QED  BY <4>1
    <3>4. QED  BY <3>3 DEF ServedOK
  <2>4. QED
    BY <2>1, <2>2, <2>3 DEF Next, vars, controllerVars, Reader, ReaderRead, ReaderEnqueue, Producer,
           ProducerDequeue, ProducerEnqueue, Consumer, ConsumerCheck, ConsumerDequeue, ConsumerEnqueue,
           Controller, ControllerSample, ControllerShrink, ControllerJoin, WriterDequeue,
           MainJoinReader, MainJoinWriter
<1>3. QED  BY <1>1, <1>2

\* An enqueue waits for room.
LEMMA NextRoom ==
    ASSUME IInv, [Next]_vars  PROVE RoomOK'
<1> USE DEF IInv, Core
<1>1. Len(readerQueue) \in Nat /\ Len(writerQueue) \in Nat
  BY LenProperties DEF PlacesOK
<1>2. CASE ReaderEnqueue
  <2>1. Len(readerQueue') = Len(readerQueue) + 1
    BY <1>2, ToSetAppend DEF ReaderEnqueue, PlacesOK
  <2>2. QED  BY <1>1, <1>2, <2>1, SizesAssumption DEF ReaderEnqueue, RoomOK
<1>3. ASSUME NEW p \in Producers, ProducerDequeue(p)  PROVE RoomOK'
  <2>1. Len(readerQueue') = Len(readerQueue) - 1
    BY <1>3, ToSetTail DEF ProducerDequeue, PlacesOK
  <2>2. QED  BY <1>1, <1>3, <2>1, SizesAssumption DEF ProducerDequeue, RoomOK
<1>4. ASSUME NEW c \in ConsumerIds, ConsumerEnqueue(c)  PROVE RoomOK'
  <2>1. consumerItem[c] \in Consumed
    BY <1>4 DEF ConsumerEnqueue, HandsOK, PlacesOK
  <2>2. Len(writerQueue') = Len(writerQueue) + 1
    BY <1>4, <2>1, ToSetAppend DEF ConsumerEnqueue, PlacesOK
  <2>3. QED  BY <1>1, <1>4, <2>2, SizesAssumption DEF ConsumerEnqueue, RoomOK
<1>5. CASE WriterDequeue
  <2>1. Len(writerQueue') = Len(writerQueue) - 1
    BY <1>5, ToSetTail DEF WriterDequeue, PlacesOK
  <2>2. QED  BY <1>1, <1>5, <2>1, SizesAssumption DEF WriterDequeue, RoomOK
<1>6. CASE readerQueue' = readerQueue /\ writerQueue' = writerQueue
  BY <1>6 DEF RoomOK
<1>7. QED
  BY <1>2, <1>3, <1>4, <1>5, <1>6 DEF Next, vars, queues, Reader, ReaderRead, Producer, ProducerEnqueue,
         Consumer, ConsumerCheck, ConsumerDequeue, Controller, ControllerSample, ControllerGrow,
         ControllerShrink, ControllerJoin, MainJoinReader, MainJoinWriter

\* Every step keeps the account of the lines and of the pool.
LEMMA NextCore ==
    ASSUME IInv, [Next]_vars  PROVE Core'
<1>1. CASE Reader  BY <1>1, ReaderStep
<1>2. CASE \E p \in Producers : Producer(p)  BY <1>2, ProducerStep
<1>3. CASE \E c \in ConsumerIds : Consumer(c)  BY <1>3, ConsumerStep
<1>4. CASE Controller  BY <1>4, ControllerStep
<1>5. CASE WriterDequeue  BY <1>5, WriterStep
<1>6. CASE MainJoinReader \/ MainJoinWriter  BY <1>6, MainStep
<1>7. CASE UNCHANGED vars
  BY <1>7 DEF IInv, Core, vars, queues, readerVars, consumerVars, controllerVars, writerVars, PlacesOK,
              ProgressOK, ReaderDone, WriterDone, Accounted, KeysOK, CountOK, Present, PoolOK,
              LengthsOK, HandsOK, VictimOK, VectorOK
<1>8. QED  BY <1>1, <1>2, <1>3, <1>4, <1>5, <1>6, <1>7 DEF Next

\* The invariant holds in every reachable state.
LEMMA Invariance == Spec => []IInv
<1>1. Init => IInv  BY InitIInv
<1>2. IInv /\ [Next]_vars => IInv'  BY NextCore, NextServed, NextRoom DEF IInv
<1>3. QED  BY <1>1, <1>2, PTL DEF Spec

-----------------------------------------------------------------------------
(* The theorems.                                                           *)

\* Every variable of the program keeps its type, and no queue grows beyond its
\* capacity.
THEOREM Types == Spec => []TypeOK
<1>1. IInv => TypeOK  BY IInvTypes
<1>2. QED  BY <1>1, Invariance, PTL

\* Every line read from the input file is in exactly one place, however many
\* producers work and whatever consumers are started and cancelled meanwhile.
THEOREM LinesAccounted == Spec => []EachLineInOnePlace
<1>1. IInv => EachLineInOnePlace  BY AccountedMeans DEF IInv, Core
<1>2. QED  BY <1>1, Invariance, PTL

\* When main starts to delete the queues the file is complete and the threads
\* that still run carry nothing.
THEOREM Shutdown == Spec => []ShutdownComplete
<1>1. IInv => ShutdownComplete  BY IInvShutdown
<1>2. QED  BY <1>1, Invariance, PTL

\* The worker queue is never left without a consumer once one was started, and the
\* controller's vector holds distinct, running, uncancelled consumers.
THEOREM PoolServes == Spec => []ConsumersServe
<1>1. IInv => ConsumersServe  BY DEF IInv, Core, VectorOK, ServedOK, ConsumersServe
<1>2. QED  BY <1>1, Invariance, PTL

\* While the controller waits in join, its victim begins no further iteration.
THEOREM JoinIsShort == Spec => JoinWaitsOneIteration
<1> DEFINE Step == controllerPc = "join" /\ consumerPc'[victim] = "dequeue"
                     => consumerPc[victim] = "dequeue"
<1>1. IInv /\ [Next]_vars => [Step]_vars
  <2> SUFFICES ASSUME IInv, Next, controllerPc = "join", consumerPc'[victim] = "dequeue",
                      consumerPc[victim] # "dequeue"
               PROVE  FALSE
    OBVIOUS
  <2>1. /\ victim \in ConsumerIds /\ isCancel[victim] /\ DOMAIN consumerPc = ConsumerIds
    BY DEF IInv, Core, VictimOK, PoolOK
  <2>2. CASE \E c \in ConsumerIds : ConsumerCheck(c)
    BY <2>1, <2>2 DEF ConsumerCheck
  <2>3. CASE \E c \in ConsumerIds : ConsumerDequeue(c) \/ ConsumerEnqueue(c)
    BY <2>1, <2>3 DEF ConsumerDequeue, ConsumerEnqueue
  <2>4. CASE Controller
    BY <2>1, <2>4 DEF Controller, ControllerSample, ControllerGrow, ControllerShrink, ControllerJoin
  <2>5. CASE consumerPc' = consumerPc
    BY <2>5
  <2>6. QED
    BY <2>2, <2>3, <2>4, <2>5
       DEF Next, Reader, ReaderRead, ReaderEnqueue, Producer, ProducerDequeue, ProducerEnqueue,
           Consumer, WriterDequeue, MainJoinReader, MainJoinWriter, consumerVars
<1>2. QED  BY <1>1, Invariance, PTL DEF Spec, JoinWaitsOneIteration

=============================================================================
