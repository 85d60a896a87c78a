----------------------------- MODULE Pipeline -------------------------------
(***************************************************************************)
(* The program of src/NTHU-OS-Pthreads/main.cpp: a reader, several         *)
(* producers, a varying number of consumers and a writer joined by three   *)
(* bounded queues, and a controller that starts and cancels consumers by   *)
(* the length of the worker queue.                                         *)
(*                                                                         *)
(* Every queue operation is one step here; TSQueue.tla shows that          *)
(* ts_queue.hpp implements such a FIFO.  An item records which             *)
(* transformations it has been through; what they compute is left out.     *)
(*                                                                         *)
(* The behaviour ends when main starts deleting the objects: producers,    *)
(* consumers and controller still run then, on memory that is being freed. *)
(***************************************************************************)
EXTENDS Integers, Sequences, SequencesExt, FiniteSets

CONSTANTS
    ExpectedLines,   \* argv[1]: lines to read and to write
    Producers,       \* the producer threads
    MaxConsumers,    \* bound: consumer threads alive at once
    ReaderQueueSize, WorkerQueueSize, WriterQueueSize,
    LowThreshold, HighThreshold,
    None             \* no item

ConsumerIds == 1 .. MaxConsumers

\* A line's item, before and after the two transformations.
Items == [key : 1 .. ExpectedLines, done : {<< >>, <<"producer">>, <<"producer", "consumer">>}]

ASSUME SizesAssumption ==
    /\ ExpectedLines \in Nat
    /\ MaxConsumers \in Nat \ {0}
    /\ {ReaderQueueSize, WorkerQueueSize, WriterQueueSize} \subseteq Nat \ {0}
ASSUME ThresholdsAssumption ==
    /\ LowThreshold \in Nat /\ HighThreshold \in Nat
    /\ LowThreshold <= HighThreshold
ASSUME ProducersAssumption == IsFiniteSet(Producers)
ASSUME NoneAssumption == None \notin Items

VARIABLES
    readerQueue, workerQueue, writerQueue,
    linesRead, readerItem,       \* Reader::process: lines read, item to enqueue
    producerItem,                \* the item each producer carries
    consumers,                   \* the controller's vector of running consumers
    consumerPc, consumerItem, isCancel,
    controllerPc, queueSize, victim,
    output, linesWritten,        \* the output file and Writer::process's counter
    mainPc

readerVars == <<linesRead, readerItem>>
consumerVars == <<consumerPc, consumerItem>>
controllerVars == <<consumers, isCancel, controllerPc, queueSize, victim>>
writerVars == <<output, linesWritten>>
queues == <<readerQueue, workerQueue, writerQueue>>
vars == <<queues, readerVars, producerItem, consumerVars, controllerVars, writerVars, mainPc>>

NewItem(key) == [key |-> key, done |-> << >>]
Transform(item, by) == [item EXCEPT !.done = Append(@, by)]

Init == /\ readerQueue = << >> /\ workerQueue = << >> /\ writerQueue = << >>
        /\ linesRead = 0 /\ readerItem = None
        /\ producerItem = [p \in Producers |-> None]
        /\ consumers = << >>
        /\ consumerPc = [c \in ConsumerIds |-> "none"]
        /\ consumerItem = [c \in ConsumerIds |-> None]
        /\ isCancel = [c \in ConsumerIds |-> FALSE]
        /\ controllerPc = "sleep" /\ queueSize = 0 /\ victim = 0
        /\ output = {} /\ linesWritten = 0
        /\ mainPc = "joinReader"

-----------------------------------------------------------------------------
(* Reader                                                                  *)

\* Mutant: one line too many.
ReaderReadOneMore ==
    /\ readerItem = None
    /\ linesRead <= ExpectedLines
    /\ linesRead' = linesRead + 1
    /\ readerItem' = NewItem(linesRead + 1)
    /\ UNCHANGED <<queues, producerItem, consumerVars, controllerVars, writerVars, mainPc>>

ReaderRead == /\ readerItem = None
              /\ linesRead < ExpectedLines
              /\ linesRead' = linesRead + 1
              /\ readerItem' = NewItem(linesRead + 1)
              /\ UNCHANGED <<queues, producerItem, consumerVars, controllerVars, writerVars, mainPc>>

ReaderEnqueue == /\ readerItem # None
                 /\ Len(readerQueue) < ReaderQueueSize
                 /\ readerQueue' = Append(readerQueue, readerItem)
                 /\ readerItem' = None
                 /\ UNCHANGED <<workerQueue, writerQueue, linesRead, producerItem, consumerVars,
                                controllerVars, writerVars, mainPc>>

ReaderDone == linesRead = ExpectedLines /\ readerItem = None
Reader == ReaderRead \/ ReaderEnqueue

-----------------------------------------------------------------------------
(* Producers: dequeue, transform, enqueue, forever                         *)

ProducerDequeue(p) ==
    /\ producerItem[p] = None
    /\ readerQueue # << >>
    /\ producerItem' = [producerItem EXCEPT ![p] = Transform(Head(readerQueue), "producer")]
    /\ readerQueue' = Tail(readerQueue)
    /\ UNCHANGED <<workerQueue, writerQueue, readerVars, consumerVars, controllerVars, writerVars, mainPc>>

ProducerEnqueue(p) ==
    /\ producerItem[p] # None
    /\ Len(workerQueue) < WorkerQueueSize
    /\ workerQueue' = Append(workerQueue, producerItem[p])
    /\ producerItem' = [producerItem EXCEPT ![p] = None]
    /\ UNCHANGED <<readerQueue, writerQueue, readerVars, consumerVars, controllerVars, writerVars, mainPc>>

Producer(p) == ProducerDequeue(p) \/ ProducerEnqueue(p)

-----------------------------------------------------------------------------
(* Consumers: pc none (no thread), check, dequeue, enqueue, done (returned) *)

\* Cancellation is disabled from here to the end of the iteration, and between
\* two iterations there is no cancellation point: a consumer ends only when it
\* reads is_cancel.
ConsumerCheck(c) ==
    /\ consumerPc[c] = "check"
    /\ consumerPc' = [consumerPc EXCEPT ![c] = IF isCancel[c] THEN "done" ELSE "dequeue"]
    /\ UNCHANGED <<queues, readerVars, producerItem, consumerItem, controllerVars, writerVars, mainPc>>

ConsumerDequeue(c) ==
    /\ consumerPc[c] = "dequeue"
    /\ workerQueue # << >>
    /\ consumerItem' = [consumerItem EXCEPT ![c] = Transform(Head(workerQueue), "consumer")]
    /\ workerQueue' = Tail(workerQueue)
    /\ consumerPc' = [consumerPc EXCEPT ![c] = "enqueue"]
    /\ UNCHANGED <<readerQueue, writerQueue, readerVars, producerItem, controllerVars, writerVars, mainPc>>

\* Mutant: the cancellation acts on a consumer that carries an item.
ConsumerEnqueueCancellable(c) ==
    /\ consumerPc[c] = "enqueue"
    /\ \/ /\ Len(writerQueue) < WriterQueueSize
          /\ writerQueue' = Append(writerQueue, consumerItem[c])
          /\ consumerPc' = [consumerPc EXCEPT ![c] = "check"]
       \/ /\ isCancel[c]
          /\ consumerPc' = [consumerPc EXCEPT ![c] = "done"]
          /\ UNCHANGED writerQueue
    /\ consumerItem' = [consumerItem EXCEPT ![c] = None]
    /\ UNCHANGED <<readerQueue, workerQueue, readerVars, producerItem, controllerVars, writerVars, mainPc>>

ConsumerEnqueue(c) ==
    /\ consumerPc[c] = "enqueue"
    /\ Len(writerQueue) < WriterQueueSize
    /\ writerQueue' = Append(writerQueue, consumerItem[c])
    /\ consumerItem' = [consumerItem EXCEPT ![c] = None]
    /\ consumerPc' = [consumerPc EXCEPT ![c] = "check"]
    /\ UNCHANGED <<readerQueue, workerQueue, readerVars, producerItem, controllerVars, writerVars, mainPc>>

Consumer(c) == ConsumerCheck(c) \/ ConsumerDequeue(c) \/ ConsumerEnqueue(c)

-----------------------------------------------------------------------------
(* Controller: usleep, get_size, grow, shrink and join, forever.  Both     *)
(* tests use the length read by get_size, which may be stale by then.      *)

ControllerSample ==
    /\ controllerPc = "sleep"
    /\ queueSize' = Len(workerQueue)
    /\ controllerPc' = "grow"
    /\ UNCHANGED <<queues, readerVars, producerItem, consumerVars, consumers, isCancel, victim,
                   writerVars, mainPc>>

Unused == {c \in ConsumerIds : consumerPc[c] = "none"}

\* new Consumer, start, push_back; none is started beyond the bound MaxConsumers.
ControllerGrow ==
    /\ controllerPc = "grow"
    /\ controllerPc' = "shrink"
    /\ IF queueSize > HighThreshold /\ Unused # {}
         THEN \E c \in Unused : /\ \A d \in Unused : c <= d
                                /\ consumers' = Append(consumers, c)
                                /\ consumerPc' = [consumerPc EXCEPT ![c] = "check"]
                                /\ isCancel' = [isCancel EXCEPT ![c] = FALSE]
         ELSE UNCHANGED <<consumers, consumerPc, isCancel>>
    /\ UNCHANGED <<queues, readerVars, producerItem, consumerItem, queueSize, victim, writerVars, mainPc>>

\* Mutant: the last consumer may be removed too.
MustShrinkToZero == queueSize < LowThreshold /\ Len(consumers) > 0
MustShrink == queueSize < LowThreshold /\ Len(consumers) > 1

\* Mutant: no flag is set; pthread_cancel alone never ends a consumer.
CancelByRequestOnly(c) == isCancel' = isCancel
Cancel(c) == isCancel' = [isCancel EXCEPT ![c] = TRUE]

PopBack == consumers' = Front(consumers)

ControllerShrink ==
    /\ controllerPc = "shrink"
    /\ IF MustShrink
         THEN /\ victim' = Last(consumers)
              /\ PopBack
              /\ Cancel(Last(consumers))
              /\ controllerPc' = "join"
         ELSE /\ controllerPc' = "sleep"
              /\ UNCHANGED <<victim, consumers, isCancel>>
    /\ UNCHANGED <<queues, readerVars, producerItem, consumerVars, queueSize, writerVars, mainPc>>

\* join returns when the cancelled thread has ended; the object is deleted.
ControllerJoin ==
    /\ controllerPc = "join"
    /\ consumerPc[victim] = "done"
    /\ consumerPc' = [consumerPc EXCEPT ![victim] = "none"]
    /\ controllerPc' = "sleep"
    /\ victim' = 0
    /\ UNCHANGED <<queues, readerVars, producerItem, consumerItem, consumers, isCancel, queueSize,
                   writerVars, mainPc>>

Controller == ControllerSample \/ ControllerGrow \/ ControllerShrink \/ ControllerJoin

-----------------------------------------------------------------------------
(* Writer and main                                                         *)

WriterDequeue ==
    /\ linesWritten < ExpectedLines
    /\ writerQueue # << >>
    /\ output' = output \cup {Head(writerQueue)}
    /\ writerQueue' = Tail(writerQueue)
    /\ linesWritten' = linesWritten + 1
    /\ UNCHANGED <<readerQueue, workerQueue, readerVars, producerItem, consumerVars, controllerVars, mainPc>>

WriterDone == linesWritten = ExpectedLines

MainJoinReader == /\ mainPc = "joinReader"
                  /\ ReaderDone
                  /\ mainPc' = "joinWriter"
                  /\ UNCHANGED <<queues, readerVars, producerItem, consumerVars, controllerVars, writerVars>>

\* Mutant: main goes on to the deletes after the reader alone has ended.
MainSkipsWriter == /\ mainPc = "joinWriter"
                   /\ mainPc' = "delete"
                   /\ UNCHANGED <<queues, readerVars, producerItem, consumerVars, controllerVars, writerVars>>

MainJoinWriter == /\ mainPc = "joinWriter"
                  /\ WriterDone
                  /\ mainPc' = "delete"
                  /\ UNCHANGED <<queues, readerVars, producerItem, consumerVars, controllerVars, writerVars>>

Running == mainPc # "delete"

Next == /\ Running
        /\ \/ Reader
           \/ \E p \in Producers : Producer(p)
           \/ \E c \in ConsumerIds : Consumer(c)
           \/ Controller
           \/ WriterDequeue
           \/ MainJoinReader
           \/ MainJoinWriter

\* Every thread of the process is scheduled.
Fairness == /\ WF_vars(Running /\ Reader)
            /\ \A p \in Producers : WF_vars(Running /\ Producer(p))
            /\ \A c \in ConsumerIds : WF_vars(Running /\ Consumer(c))
            /\ WF_vars(Running /\ Controller)
            /\ WF_vars(Running /\ WriterDequeue)
            /\ WF_vars(MainJoinReader) /\ WF_vars(MainJoinWriter)

Spec == Init /\ [][Next]_vars
FairSpec == Spec /\ Fairness
-----------------------------------------------------------------------------
\* The type invariant.
TypeOK ==
    /\ {readerQueue, workerQueue, writerQueue} \subseteq Seq(Items)
    /\ Len(readerQueue) <= ReaderQueueSize
    /\ Len(workerQueue) <= WorkerQueueSize
    /\ Len(writerQueue) <= WriterQueueSize
    /\ linesRead \in 0 .. ExpectedLines
    /\ readerItem \in Items \cup {None}
    /\ producerItem \in [Producers -> Items \cup {None}]
    /\ consumers \in Seq(ConsumerIds)
    /\ consumerPc \in [ConsumerIds -> {"none", "check", "dequeue", "enqueue", "done"}]
    /\ consumerItem \in [ConsumerIds -> Items \cup {None}]
    /\ isCancel \in [ConsumerIds -> BOOLEAN]
    /\ controllerPc \in {"sleep", "grow", "shrink", "join"}
    /\ queueSize \in 0 .. WorkerQueueSize
    /\ victim \in ConsumerIds \cup {0}
    /\ output \subseteq Items
    /\ linesWritten \in 0 .. ExpectedLines
    /\ mainPc \in {"joinReader", "joinWriter", "delete"}

Carried(item) == IF item = None THEN {} ELSE {item}
InHand == Carried(readerItem)
          \cup {producerItem[p] : p \in {q \in Producers : producerItem[q] # None}}
          \cup {consumerItem[c] : c \in {d \in ConsumerIds : consumerItem[d] # None}}
Queued == ToSet(readerQueue) \cup ToSet(workerQueue) \cup ToSet(writerQueue)

\* Every line read is in exactly one place: a thread's hand, one queue or the
\* output file, whatever consumers are cancelled meanwhile (scripts/verify.py
\* compares the sorted files, so a lost or doubled line fails).
EachLineInOnePlace ==
    LET present == InHand \cup Queued \cup output
    IN  /\ {item.key : item \in present} = 1 .. linesRead
        /\ linesRead = Len(readerQueue) + Len(workerQueue) + Len(writerQueue) + linesWritten
                       + Cardinality(Carried(readerItem))
                       + Cardinality({p \in Producers : producerItem[p] # None})
                       + Cardinality({c \in ConsumerIds : consumerItem[c] # None})

\* When main begins to free the queues, the file holds every line transformed
\* once by a producer and then once by a consumer, and the threads that still
\* run have no work left that the deletes could destroy.
ShutdownComplete ==
    mainPc = "delete" =>
        /\ output = {[key |-> k, done |-> <<"producer", "consumer">>] : k \in 1 .. ExpectedLines}
        /\ InHand = {} /\ Queued = {}

\* The controller never leaves the worker queue without a consumer once it has
\* started one (consumer_controller.hpp: size() > 1): an empty vector means that
\* no consumer runs and none has ever passed a line on.  The vector holds
\* distinct, running, uncancelled consumers, and every other running consumer is
\* the one being joined.
NeverStarted == /\ \A c \in ConsumerIds : consumerPc[c] = "none"
                /\ writerQueue = << >> /\ output = {}
ConsumersServe ==
    /\ consumers = << >> => NeverStarted
    /\ IsInjective(consumers)
    /\ \A c \in ToSet(consumers) : consumerPc[c] \notin {"none", "done"} /\ ~ isCancel[c]
    /\ \A c \in ConsumerIds : consumerPc[c] # "none" => c \in ToSet(consumers) \cup {victim}

\* The controller serves nobody while it is blocked in join, so the victim must
\* not begin another iteration: it finishes the item it carries, or the dequeue
\* it is blocked in, and ends at the loop test.
JoinWaitsOneIteration ==
    [][controllerPc = "join" /\ consumerPc'[victim] = "dequeue"
           => consumerPc[victim] = "dequeue"]_vars

\* The writer thread finishes (writer.hpp: after output of the expected lines).
WriterFinishes == <>WriterDone

\* The program terminates.
ProgramTerminates == <>(mainPc = "delete")
=============================================================================
