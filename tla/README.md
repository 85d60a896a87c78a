# TLA+ models of the NTHU operating system homework

The repository holds one stand-alone program, `NTHU-OS-Pthreads` (a multithreaded
pipeline), and five stages of the NachOS 4.0 teaching kernel (`NachOS-4.0_MP1` ...
`_MP4`, with two variants of MP3), each adding one subsystem.  This directory models the
parts of it in which the repository's own code makes threads, interrupts and shared data
work together.  All paths below are relative to `src/`.

## The system

| Component | Code | State | Operations | What makes it correct |
|---|---|---|---|---|
| Thread-safe queue | `NTHU-OS-Pthreads/ts_queue.hpp` | ring (`buffer`, `size`, `head`, `tail`), one mutex, two condition variables | `enqueue`, `dequeue`, `get_size` | it is a bounded FIFO; no wake-up is lost |
| Pipeline | the other files of `NTHU-OS-Pthreads` | three queues, an item in each thread's hand, the consumer pool, `is_cancel` | loops of reader, 4 producers, consumers, controller, writer; `cancel`, `join` | every line is written once, fully transformed; the program ends |
| MLFQ scheduler | `NachOS-4.0_MP3_correct/code/threads/scheduler.cc`, `thread.cc`, `alarm.cc`; `machine/interrupt.cc`, `timer.cc` | lists L1, L2, L3, per-thread status, priority, burst estimate | `ReadyToRun`, `FindNextToRun`, `Run`, `Aging`, `Preempt`, `Yield`, `Sleep`, `Begin`, `Finish` | each ready thread is in one right, sorted list; the right thread runs; nobody starves |
| Kernel start-up | `.../MP3_correct/code/threads/kernel.cc` | program table, `-ee` count | `ExecAll`, `Exec` | the machine halts when all programs are done |
| Synchronisation | `threads/synch.cc`, `threads/synchlist.cc` | semaphore value and queue; lock holder; condition queue; list | `P`, `V`, `Acquire`, `Release`, `Wait`, `Signal`, `Broadcast`; `Append`, `RemoveFront`, `Apply` | no `V` is lost, mutual exclusion, no missed signal; the list is a FIFO |
| Synchronous devices | `filesys/synchdisk.cc`, `userprog/synchconsole.cc` | lock, completion semaphore, the device's busy flag | `ReadSector`, `WriteSector`, `PutChar`, `PutInt`, `GetChar`; the completion interrupt | a completion goes to its requester; calls do not mix; every call returns |
| Mail | `network/post.cc` | mailboxes, acknowledgement semaphore | `Send`, `Receive`, the network's interrupts | each message reaches its mailbox |
| User programs | `.../MP3_correct/code/userprog/addrspace.cc`, `userprog/exception.cc`, `threads/kernel.h` (`FrameTable`), `filesys/filesys.h`, `filesys/openfile.h` | free frames and their count, a page table for each thread, the machine's page table register, main memory, a table of 20 open files | `Load`, `Execute`, `~AddrSpace`, `RestoreState`, `Translate`; the calls `Halt`, `Create`, `Open`, `Write`, `Read`, `Close` | frames are owned once; a program finds its own memory; an id names one file until it is closed |
| File system (MP4) | `NachOS-4.0_MP4/code/filesys/` | free map, directories, chained file headers, open file table | `Create`, `CreateDirectory`, `Open`, `Remove`, `Read`, `Write`, `List` | sectors are owned once, names resolve to their header, what was written is read back |

Producers, consumers and the controller of the pipeline share the queues; they exchange
items through `TSQueue` only, the controller additionally sets a consumer's `is_cancel` and
joins it.  In NachOS all kernel code runs with simulated interrupts disabled: a thread gives
up the CPU in `Sleep` (from `Semaphore::P` or `Finish`) or in the `Yield` that
`Interrupt::OneTick` performs after the timer handler asked for it; the devices' interrupt
handlers call `Semaphore::V`, and that calls `ReadyToRun`.  User programs share main memory,
its frames and the open file table; a thread that has finished is deleted, and gives its
frames back, in the thread that runs next.

What is hard in this code: signalling after the unlock, cancelling a thread that carries an
item while the canceller is blocked in `join`, decisions taken on a length that is stale,
lists sorted by keys that change, a thread that idles on its own stack and wakes itself, and
counts that must survive all of it; memory that changes hands while a thread that has ended
still holds its frames and the table of open files still points at a name in them; requests
that begin and end in the middle of a disk sector, in a file whose headers form a chain.
`PROJECT.json` lists each hazard at its line with the properties that cover it.

## The modules

| Module | Models | Role |
|---|---|---|
| `BoundedQueue` | what `TSQueue` promises | abstract specification: a FIFO with three atomic operations |
| `TSQueue` | `ts_queue.hpp`, statement by statement | detailed specification, implements `BoundedQueue` |
| `TSQueueProofs` | | theorems about `TSQueue`, for all constants |
| `Pipeline` | all threads of the program, queue operations atomic | composition; the atomicity is what `TSQueue` establishes |
| `Scheduler` | scheduler, thread states, timer, `ExecAll` of MP3_correct | the kernel's scheduling |
| `Synch` | `Semaphore` and `Lock` of `synch.cc`, as operators | shared by the next two |
| `SynchList` | `synchlist.cc` with `Lock` and `Condition` | detailed specification, implements `BoundedQueue` as well |
| `SynchDevice` | `synchdisk.cc` and the output side of `synchconsole.cc` | a lock, a semaphore and a completion interrupt |
| `FileTree` | what the file system promises | abstract specification: a tree of files with atomic operations |
| `FileHeader` | `filehdr.cc` and `bitmap.cc` of MP4, as operators | used by the next two |
| `OpenFile` | `ReadAt` and `WriteAt` of MP4's `openfile.cc`, as operators | used by the next one |
| `FileSystem` | `filesys.cc` and `directory.cc` of MP4 | detailed specification, implements `FileTree` |
| `UnixFiles` | the host's files behind MP3_correct's stub file system, as operators | used by the next two |
| `UserMachine` | what the system calls promise user programs | abstract specification: private memories, shared files |
| `Programs` | address spaces, frames, page table register, system calls of MP3_correct | detailed specification, implements `UserMachine` |
| `PipelineProofs`, `SchedulerProofs`, `SynchListProofs`, `SynchDeviceProofs`, `ProgramsProofs`, `FileSystemProofs`, `FileTreeProofs` | | theorems about them, for all constants |
| `MCTSQueue`, `MCPipeline`, `MCScheduler`, `MCSynchList`, `MCSynchDevice`, `MCFileSystem`, `MCPrograms` | | the instances TLC checks |

**TSQueue.**  `pc[t]` is the next statement of thread `t`.  `Lock`, `Wait` / `Pass` (the
`while` test), `Put` / `Take` / `Sample` (the critical section), `Unlock` and
`SignalDequeue` / `SignalEnqueue` are the statements of the three methods.
`pthread_cond_wait` releases the mutex and joins the set `condEnqueue` or `condDequeue` in
one step; a signal removes any one member, which must take the mutex again and repeats the
test; `SpuriousWake` lets a waiter return unasked.  Each thread plays one role, as in the
program.  An item is a model value and is enqueued once (it is a heap pointer).

**Pipeline.**  An item is its line number and the list of transformations it has been
through; what `Transformer` computes is left out.  Each queue operation is one step, guarded
by "not full" or "not empty".  A consumer ends only at the loop test on `is_cancel`:
cancellation is deferred and disabled from the start of an iteration to its end, and there
is no cancellation point between two iterations, so `pthread_cancel` never ends it
elsewhere.  `ControllerSample`, `ControllerGrow`, `ControllerShrink`, `ControllerJoin` are
the four parts of the controller's loop and use the length sampled in the first.  The
behaviour stops (`Running` is false) where `main` starts its deletes: from there the other
threads use memory that is being freed, which has no defined meaning to model;
`ShutdownComplete` says that nothing is left for them to damage.

**Scheduler.**  `ready[1..3]` are L1, L2, L3.  A `Yield`, `Sleep` or `Finish` is one action
since interrupts are off inside it; `Dispatch`, a part of them, is `Scheduler::Run`. `Begin`
is `Thread::Begin`, an action of its own in a thread that has not run before: its `Enable`
lets a tick pass (`Advance`, one at most each time the thread is dispatched), which may find
the timer due and yield (`TimerYield`) before the thread is counted for `-ee`.  `AgedReady`
is `Aging`, which empties L3, L2 and L1 and inserts all threads again through
`InsertThreadToReadyList`; a priority above level 1 is then in no list, as in the code.
While no thread is ready the old thread stays current inside `Sleep`'s loop (`cpu` is `idle`
or `idleFinishing`), and `LeaveIdle` may switch it to itself.  Time is counted in a fraction
of the timer period; the estimate (halved at each sleep) is kept scaled by `2^MaxSleeps` so
that it remains an integer. `CommandLines` are the values of `-ep` for each program and
whether `-ee` is given; `Init` picks one.  `waited` stops at `WaitCap`, above every value a
comparison tells apart.  A timer of fixed period is modelled (not `-rs`).

**Synch, SynchList, SynchDevice.**  NachOS turns interrupts off in `P` and `V`, so each
turn of the loop in `P` is one step: `PSleep` joins the semaphore's queue, `PPass` takes the
value.  `V` raises the value and makes the first sleeper ready; that thread tests the value
again and may find that another caller took it.  `Lock` is a semaphore of value 1 and
`lockHolder`, which is set a step after the `P`.  `Condition::Wait` queues a semaphore of
the waiting thread before it releases the lock (`Wait`), sleeps on it (`Waiter`), and
acquires the lock again; `RemoveFront` then repeats its test.  `SynchDevice` is the pattern
of both device files: under the lock, a request (`Request`) and a `P` on the completion
semaphore (`Await`) that the device's interrupt raises (`Interrupt`, possibly before the
`P`).  A disk call makes one request; `PutInt` makes one a character and keeps the lock in
between.  What is written or read is left out.

**FileHeader, FileSystem.**  `Allocate` takes sectors from a free map for a file and the
chain of headers it needs.  A call computes its result in memory; when it succeeds,
`Create`, `CreateDirectory` and `Remove` put into `writes` the sequence of disk writes they
make, in the order of the code, and `WriteNext` performs one.  A call that fails has written
nothing and is no step; whether it should have failed is `CreateSucceedsIffRoom`.  `Crash`
drops the writes that are left (ctl-C ends the program, and the simulated disk is a UNIX
file that the next run opens); the free map may be half written, in the order of its
sectors, while the write of a directory, whose changed entry usually lies in one sector, is
assumed to happen at once.  Three history variables say what the calls have come to: `call`
holds the entries the current call is on (an entry is known by its directory and its name)
and the file it makes, `completed` what the calls that returned TRUE have made and not
removed, `stopped` the entries on disk that a call which never returned was on.  After a
stop the calls leave the `stopped` entries alone (`Untouched`): such an entry may by then
lead to the sectors of another file, and the code promises nothing of it
(`filesys.cc:38-40`).  Calls do not overlap, which `filesys.cc:181-182` assumes.  Only calls
whose directory exists are modelled: `GetDirSector` indexes the table with -1 for a missing
name and does not test `isDir` (`directory.cc:203-212`).  `Remove` takes a name of the root,
the only kind it ever finds; removing a directory abandons what is below it. Stale headers
and tables stay on the disk, as in the code, and `Exists` reads them only where the code
would.

**OpenFile.**  `ReadAt` and `WriteAt` take the chain of headers, the bytes of the disk and a
range, and give what is copied to the caller and the disk afterwards: the range is cut off at
the end of the file and widened to sectors, and `WriteAt` first reads the sectors at its two
ends if it covers them only in part.  What is in the files is no part of `FileSystem`'s state:
`WritesReadBack` applies the two operators to every file of every state, on a disk of which
each byte is different.

**UserMachine, Programs.**  A page holds one word, a word is the name of a file or a datum.
`Load` is `AddrSpace::Load` with `Execute`: it takes the lowest free frames
(`acquireThreadFrame`) and sets the page table register; `MemoryLimit` is the assertion in the
handler of `MemoryLimitException`.  `Dispatch` is `Scheduler::Run` between any two threads, as
`Scheduler` is about which: `CheckToBeDestroyed` deletes the thread that has just finished,
with its address space (`DestroySpace`), and a thread that comes back restores the register
while a new one does not.  A thread whose executable is missing finishes without pages.
`Store` is a user instruction, which goes through `Translate`; `Create`, `Open`, `Write` and
`Read` use `Buffer`, which as in `exception.cc` takes the virtual address for a physical one.
An entry of the open file table holds the file, the position and, as a pointer to the name,
the frame it was in.  `UserMachine` knows neither frames nor threads: a program is waiting,
running or ended, has an image of its own while it runs, and is refused memory only when the
running programs use too much of it.  `Programs` implements it (`ImplementsUserMachine`) for
programs that are `Careful`: they pass buffers and names only in pages whose frame has the
page's number, and do not overwrite the name of an open file or end before it is closed.

## The runs

| Run | Instance | Shows |
|---|---|---|
| `tsqueue` | 2 enqueuers, 2 dequeuers, 1 sizer, 3 items, capacity 2, 1 spurious wake-up | `RingCoherent`, `NoLostWakeup`, `ImplementsFIFO`, `EverythingDelivered` |
| `pipeline` | 4 lines, 2 producers, up to 2 consumers, queues of 1, 3 and 1, thresholds 1 and 1 | `EachLineInOnePlace`, `ShutdownComplete`, `ConsumersServe`, `JoinWaitsOneIteration`, `ProgramTerminates` |
| `pipeline_few` | 3 lines, high threshold 3 | **violation** of `WriterFinishes` |
| `scheduler` | 3 programs in five mixes of levels, two without and three with `-ee`, 3 priorities a level, 1 sleep, 2 units of burst | `AgingKeepsUp`, `ReadyExactlyListed`, `ListsSorted`, `RunningCounted`, `TimerLeavesBestRunning`, `EveryThreadEnds` |
| `scheduler_exit` | 2 programs, `-ee` | **violation** of `HaltsWhenAllDone` |
| `synchlist` | 2 appenders, 2 removers, 3 items | `MonitorHeld`, `NoSleeperForgotten`, `NoMissedSignal`, `ImplementsFIFO`, `EverythingDelivered` |
| `synchdevice` | 3 threads, 2 calls each, of 1 or 2 requests | `CompletionsMatch`, `CallsNotInterleaved`, `EveryCallReturns` |
| `filesystem` | 7 free sectors of 2 bytes, 2 sectors a header, files of 4 and 5 bytes, 3 names, depth 2, 2 entries a directory | `SectorsOwnedOnce`, `WritesReadBack`, `CreateSucceedsIffRoom`, `ImplementsTree` |
| `filesystem_crash` | 7 free sectors of 2 bytes, 2 sectors a header, files of 5 bytes, 3 names, depth 2, 2 entries a directory, 2 stops | `CompletedFilesIntact` |
| `filesystem_leak` | one file of 4 or 5 bytes | **violation** of `RemoveFreesAll` |
| `programs` | programs of 1, 1 and 2 pages and one without executable, 3 frames, 2 file names, 2 open files, 4 stores or calls | `FramesOwnedOnce`, `ImplementsUserMachine` |
| `programs_buffers` | the same, not `Careful`, 3 stores or calls | **violation** of `MemoryIsPrivate` |

The type invariants are checked in the same runs (that of `SynchDevice` is proved).  Every
property of a passing run has a mutant of the modelled code (the definitions marked "Mutant"
in the modules) that breaks it.

*The four violations.*  (1) The pool starts empty and the first consumer is started only when
the controller samples more than 160 items in the worker queue, so a file of 160 lines or
fewer is never consumed and `main` waits in `writer->join()` for ever; `writer.hpp:19-20`
promises the writer finishes after its expected lines.  With more lines than the high
threshold the `pipeline` run shows that the program does end: with nobody to consume, the
reader and the producers fill the worker queue past the threshold.  (2) `-ee` counts a
program when it *begins*; when the first program ends before the second has been dispatched
the count is 0 and the machine halts with the second still ready, against `kernel.cc:54`
("To end the program after all the threads are done").  (3) `Deallocate` frees the data of
all the headers in a chain but not the sectors of the headers after the first, so removing a
file longer than one header leaks a sector for each, although `Remove` is to "Delete the
space for its header / Delete the space for its data blocks" (`filesys.cc:284-285`).  Files of
one header leave nothing behind.  (4) The kernel uses the address of a buffer or a name, which
is virtual, as an index into main memory (`exception.cc:83,92,106,122,138`).  A program whose
pages are not in the frames of their numbers, which every program but the first one loaded may
be, has `Read` deliver the bytes to another program's page, against `syscall.h:134` ("Read
"size" bytes from the open file into "buffer"").

*Why the bounds are enough.*  A ring of two slots wraps in both indices, is full, empty and
in between, and with two threads a side both condition variables hold several waiters and a
woken thread competes with a new caller.  Four lines fill all three queues of the pipeline
at once; two consumers are the least for the pool to shrink, and the thresholds are such
that it grows, shrinks while both consumers carry items, and grows again.  In the scheduler
three programs and main meet in every level and give sorted lists of three; the mixes put
two programs at a time in each level, with the third above or below them; each burst spans
one or more timer periods and each thread can block once, so that estimates, remaining times
and the idle loop all occur, and a new thread is preempted inside `Begin`.  With two threads
a side the monitor has several sleepers on its lock and several waiters on its condition,
and a woken thread meets a new caller and a second remover; three items outnumber each
side.  Three threads at a device give a holder, a thread that has just been woken and one
that overtakes it.  Seven free sectors hold a chained file in a directory, or three objects
of the root, and run out in each of `Allocate`'s places; two entries make a directory full;
four bytes fill a header exactly and five need a second one.  Two sectors a header and
requests of up to five bytes at any position give every combination of aligned and unaligned
ends, in one header and across two.  The order in which sectors are freed and taken again is
explored until the leak of (3) has used the disk up.  `WritesReadBack` has one case that two
bytes a sector do not give, a request that begins and ends in the middle of the same sector;
the theorem `ReadBack` is for sectors of any size.

`filesystem_crash` creates and removes files of two headers and directories, in the root and
below it, with two stops at any write, so that a stopped call meets completed files of
earlier and later calls.  What the calls that returned have made has its entry, its size and
sectors of its own at every moment, in the middle of calls too.  After a stop between the
write of a directory and that of the free map (`filesys.cc:238-241`) the half-made entry
points at sectors that the next `Create` takes: it then leads to the header and the data of
a completed file.  This is what the code does, and `CompletedFilesIntact` does not deny it.
It says that nothing else is shared: apart from what lies on an entry of a call that was
stopped (`Settled`), the files and directories on disk are exactly those that completed
calls have made, and no sector of one is unmarked or another one's.  The workload leaves the
entries of stopped calls alone (`Untouched`), since removing a half-made name frees the
sectors of the file it leads to; the code does not claim to recover from this.

On three frames the program of two pages is refused beside both others and gets frames that
are not adjacent once the first of them has ended; four calls are enough to create, open,
write and read or close, or to fill the table; two one-page programs are interchangeable,
hence the symmetry.  `Careful` is a restriction on what programs do, not of the kernel, and
`programs_buffers` is what happens without it.  `Careful` also rules out that the name of an
open file is overwritten, or its program ends, before the file is closed: `OpenAFile` then
compares with what has become of the name and may open the file a second time, and no
property is about that. `MaxCalls` counts stores and calls of all programs together in
`Programs`, and `MaxLength` bounds a file.  `MaxCrashes`, `MaxDepth`, `MaxCalls`,
`MaxConsumers`, `MaxPolls`, `MaxSpurious`, `MaxBurst` and `MaxSleeps` bound what the code
leaves unbounded: for consumers it stops the growth of the pool, for bursts, sleeps and
calls it makes the programs finite.

*Fairness.*  Every process thread is scheduled by the operating system, hence weak fairness
of each thread's step (`TSQueue`, `Pipeline`).  The mutex needs no more than this here,
since the threads' work is finite.  Nothing is assumed of spurious wake-ups.  In the
scheduler the CPU executes the current thread (`Compute`, `TimerYield`, `LeaveIdle`), and
every blocked program is woken in the end (`WakeUp`: the device it waits for completes).  In
`SynchList` and `SynchDevice` every ready thread is run (this is what `EveryThreadEnds` of
`Scheduler` is about) and a scheduled interrupt comes.  With finitely many calls that is
enough; without that bound a thread can be overtaken at the lock for ever, since the test in
`P` is repeated and the sleeper goes to the tail of the queue.  The code does not promise
otherwise.  Deadlock is not checked where the program really stops: dequeuing threads block
for good when the input is exhausted (there is no end mark), as do removers of an empty
`SynchList`, threads at a device are done after their calls, the pipeline ends in `main`,
`-ee` halts the machine, all programs end or one of them halts the machine, and a full disk
with nothing to remove admits no call.

## The proofs

`TSQueueProofs` proves, for every capacity, finite set of threads and set of items that
satisfy the module's assumptions (a positive capacity, disjoint roles, `None` outside both):

- `TypeCorrect`: `Spec => []TypeOK`;
- `RingStaysCoherent`: `Spec => []RingCoherent`;
- `NoWakeupLost`: `Spec => []NoLostWakeup`;
- `QueueImplementsFIFO`: `Spec => ImplementsFIFO`, that is, mutex, condition variables and
  ring implement the FIFO with atomic operations that `Pipeline` relies on.

The argument is one inductive invariant, `InvariantHolds`: `IInv` is `TypeOK` with
`MutexOwned` (a thread is inside the critical section exactly when it owns the mutex),
`WaitersBlocked` (the condition variables hold exactly the blocked threads) and
`RingCoherent`.  Ring coherence is not inductive alone: that a thread past its test still
has room when it stores depends on nobody else changing `size` in between, and that is
`MutexOwned`.  `NoLostWakeup` is inductive with it: it compares the fill of the ring with
the number of threads awake on each side, and lemmas on the cardinality of the set of
threads at some statements say how one thread's step changes that number.  The refinement is
proved step by step under `IInv`: `Put` is `Enqueue`, `Take` is `Dequeue`, `Sample` is
`GetSize` and every other statement is a stutter, by lemmas on the contents of the ring (in
modular arithmetic) after each of them.

`SynchListProofs` proves, for every finite set of appending and removing threads and every
finite set of items:

- `TypeCorrect`, `MutualExclusion` (`[]MonitorHeld`),
- `NobodyForgotten` (`[]NoSleeperForgotten`), `NoSignalMissed` (`[]NoMissedSignal`), and
- `ListImplementsFIFO`: `Spec => ImplementsFIFO`.

Its `IInv` adds to `TypeOK` and `MonitorHeld` that the condition's queue holds each
unsignalled waiter once with its semaphore down (`WaitersUnsignalled`): without it `Signal`
could raise a semaphore twice, and the types would not be inductive.  `ItemsHeldOnce` says
that an item is in one place; the pigeonhole theorem then gives that the list is shorter
than the set of items when one is appended, so that the FIFO's capacity never matters.
`NoSleeperForgotten` needs `SleepersQueued`: a sleeper is in the queue of the semaphore it
waits on and in no other, and there once.  That makes the thread which `V` takes off the queue
the awake one that the property asks for.  `NoMissedSignal` counts threads as `NoLostWakeup`
does.

`PipelineProofs` proves, for every number of lines, every finite set of producers, every
bound of the pool and every queue size and threshold: `Types` (`[]TypeOK`), `LinesAccounted`
(`[]EachLineInOnePlace`), `Shutdown` (`[]ShutdownComplete`), `PoolServes`
(`[]ConsumersServe`) and the action property `JoinIsShort` (`JoinWaitsOneIteration`).
`TypeOK` bounds each queue's length by its capacity, whatever the capacities are;
`ConsumersServe` says first of all that an empty vector means that no consumer was ever
started. The invariant says what each place may hold (`PlacesOK`: the transformations an
item has been through tell where it is), that a consumer carries an item just between its
dequeue and its enqueue (`HandsOK`), whom the controller waits for (`VictimOK`), and keeps
an account of the lines in two forms (`Accounted`).  Each line read is present in one place
only, and the numbers of lines in the queues, in the threads' hands and in the file add up
to the number of lines read.  The second form is what `Shutdown` needs: when the writer has
written all lines, the other terms of the sum are zero.

`SchedulerProofs` proves, for every number of programs and every command line, level size,
aging step and limit, timer period and bound on bursts and sleeps: `TypesCorrect`
(`[]TypeOK`), `ReadyListed` (`[]ReadyExactlyListed`), `StaySorted` (`[]ListsSorted`),
`AgingPrompt` (`[]AgingKeepsUp`), `CountExact` (`[]RunningCounted`) and the action property
`TimerRunsBest` (`TimerLeavesBestRunning`).  Its first half is about the lists alone:
`Listed(r, prio, S)` says that three lists hold the threads of `S`, each once and in the
list of its level, and `Sorted` that L1 and L2 are in order; inserting a thread adds it to
`S` (`InsertReadyKeeps`), `FindNextToRun` takes off the best one (`RemoveKeeps`), and
`Aging` keeps `S` although it changes priorities (`AgedReadyKeeps`).  `IInv` says that the
lists hold the ready threads and adds what keeps the keys of a list still while threads are
in it.  `StatusOK`: the one thread whose remaining time changes is the current one, and a
thread that runs is in no list, even when it has idled on its own stack.  `BurstOK` bounds
bursts, and with them the estimates. `TimerOK` and `WaitOK` tie the waiting times to the
clock: between two timer ticks no thread has waited longer than the limit and the time since
the tick.  `BegunOK` and `CountOK` are about `-ee`: a thread that is not past `Begin` is
new, ready or running, so that one preempted inside `Begin` cannot sleep, end or halt the
machine before it is counted, and the count is the number of the others that are alive.  For
`TimerLeavesBestRunning` the thread that `Yield` dispatches is the best of the aged lists,
and one that keeps the CPU has passed `Preempt`'s test against that best one. Two facts are
obtained without induction: the least element of a set of numbers (`LeastNumber`) from the
well-foundedness of inclusion on finite sets, and the function by which `Aging` inserts the
threads again (`ReinsertedIs`) by looking at the least place where it would fail.

`SynchDeviceProofs` proves, for every set of threads, of request counts and number of calls:
`TypeCorrect`, `CompletionsAlwaysMatch`, `DeviceNeverBusyAtRequest` and `CallsStayWhole`.
`IInv` is `TypeOK`, `LockOwned` (the lock's semaphore is down exactly while one thread is
inside), `CompletionsMatch` and `Progress` (how much of its call each thread has sent).
Both it and `SynchListProofs` begin with the same facts on `P` and `V`.

`ProgramsProofs` proves, for every finite set of programs of any sizes and every number of
frames, `Typing` (`[]TypeOK`) and `FramesAreOwnedOnce` (`[]FramesOwnedOnce`).  Its `IInv` adds
`StagesMatch`: a program that is not loaded or is deleted has no page, and only the thread
that still runs can be finished and not deleted.  Without the first, `Load` could overwrite a
page table whose frames stay marked; without the second, `CheckToBeDestroyed` could miss an
address space.  That the count is right follows from the page table being injective, which
`acquireThreadFrame` ensures by taking frames in ascending order, with the library's theorems
on the cardinality of images, unions and differences.

It also proves `UserMachineImplemented`: if `Careful`, then
`Spec => ImplementsUserMachine`.  Two more invariants are needed.  `RegisterSet`: while a
program runs, the page table register is its own, although a new thread does not come through
`RestoreState`.  `NamesStay`: the frame that an open entry points to still holds the file's
name and belongs to a running program, so that `strcmp` in `OpenAFile` compares with the files
that are open.  `Load` is `Start`, `Finish` of a program is `End`, `MemoryLimit` is `Refuse`
(by a bijection between the frames in use and the pages of the running programs: no thread is
finished and undeleted when a new one loads), each call is the call of the same name, and
`Dispatch` and the end of the main thread are stutters.

`FileSystemProofs` proves, for every disk, sector size, number of sectors in a header, set
of names, depth of directories and number of stops: `TypeCorrect` (`[]TypeOK`) and
`CreateSucceeds` (`[]CreateSucceedsIffRoom`).  `Types` adds to `TypeOK` the types of what
the current call has yet to write, which replaces parts of the disk write by write, and that
the tables are finite.  Most of the proof is about the operators.  `AllocateIs` says what
`Allocate` returns for any size and free map: it succeeds just when `SectorsNeeded` clear
sectors are there (the caller has taken the first), and then returns a chain of headers,
each with as many sectors as its bytes take, and each but the last with the sector of the
next.  `GetDirSectorIs` says that a path leads where the entry of its last name in its
directory points, and `ExistsInParent` that a path whose directory exists is there when that
directory has its name, so that the refusal in `Directory::Add` is the refusal of a second
file of the name.  Recursive functions are proved to satisfy their equations from the
well-foundedness of inclusion on finite sets, which gives induction over the numbers as a
fact about sets (`AllNumbers`).

It also proves what the free map is for.  `OwnedOnceUnlessStopped` is `Spec => [](crashes =
0 => SectorsOwnedOnce)`, and `OwnedOnce` is `Spec => []SectorsOwnedOnce` if `MaxCrashes =
0`.  The condition is needed: a removal that is stopped between its two writes leaves a name
whose sectors are free, and the next file takes them.  The property speaks of the moments
between two calls, and in the middle of one the disk is in no state worth describing, so the
invariant, `Sound`, speaks of the disk that the rest of the writes will lead to.
`Leads(writes, ...)` says it part by part (the last write of a part has the value it will
have, and a part that is not written has it already); `WriteNext` keeps it by `WriteLeads`,
whatever the order of the writes.  Of that disk, `Own` says that each owner's sector starts
a chain whose sectors are all marked, counted once, and no other owner's, and `Linked` that
the entries of the directories point to owners, each to another one.  `Create` adds an owner
whose sectors were clear (`NewFileMade`), `Remove` takes one away.  `FetchFrom` returns the
chain that was written, however long it is (`OwnedNow`), because a chain whose sectors
differ is shorter than the disk.

`ReadsBackUnlessStopped` and `ReadBack` say the same of `WritesReadBack`.  `Laid`, a part of
`Own`, is what the operators of `OpenFile` need of a chain: all headers but the last are
full, and no data sector is in it twice.  Then `ByteToSector`, which walks the chain by
subtraction, gives the `r`-th sector of the `i`-th header for the bytes of the file's sector
`NumDirect * (i - 1) + r - 1` (`SectorOfIs`), every byte of the file is in such a sector
(`BytesInFile`), and different ones in different places (`FileSectors`).  `BufferIs` goes
through the cases of `WriteAt`: a byte of the request, one before it in its first sector,
one after it in its last sector, which may be the same sector, read once or twice.

`FileTreeProofs` goes on from there.  `CompletedFilesStay` is `Spec =>
[]CompletedFilesIntact`, for every disk, depth of directories, set of names and number of
stops, with no further assumption.  After a stop the disk as a whole is not sound any more,
so the invariant, `Intact`, is about a part of it: the directories without the entries that
the current call or a stopped one is on (`Kept`). `Stands` says of this part that its owners
have their sectors to themselves, all marked (`Own`), that its entries point to owners
(`Linked`), and that what is found in it is exactly what the completed calls have made
(`Lists`), and that each write the current call has yet to make spares it (`Spares`): a
header goes to no owner's sector, the free map keeps the owners' sectors marked, and a
directory's table has the same entries but for those left out. `Lands` says the same of the
disk the writes lead to, with what the call makes added, and without leaving out the call's
own entry.  So a stop at any write leaves a disk for which `Stands` holds with one entry
more left out, and the last write turns `Lands` into `Stands`. A free map of which only a
part was written is at least the old or the new one in each sector, and both mark what
stands.  For a `Create` the new chain is taken from clear sectors, which are nobody's of
this part, whatever the half-made entries point to (`AddingKeeps`); for a `Remove` the part
without the name, and all below it, keeps the rest (`KeepsWithout`); where a write changes
nothing of the part all is as before (`KeepsStill`).

`DiskImplementsTree` is `Spec => ImplementsTree` if `MaxCrashes = 0`: the files on disk are
the tree of `FileTree`, for every disk, depth and set of names.  `Found` says in terms of
the disk which paths there are: a path is found if there is a way from the root through
directories (`Way`) to an entry of its last name whose sector starts a chain.  It is stated
for any tables and headers, so that one disk can be compared with the next, and for a disk
whose owners are told apart it is what `Exists`, `Entry` and `FetchFrom` compute (`ShownIs`).
The invariant beside `Sound` is `Orderly`: in the middle of a call too `Own` and `Linked`
hold of the disk as it is, and what is left to write is the rest of a `Create`, a
`CreateDirectory` or a `Remove` as the call made it.  `Seen` leaves out the entry of a
directory whose own table is still to be written.  By `NextOrderly` a step keeps this and
either leaves everything found as it is, or adds one path whose directory is there, or takes
away a name of the root with all that is below it (`Steps`); `TreeSteps` turns the three into
a stutter, `Add` and `Remove`.  The condition is needed: a new directory's entry is written
before its table, and a stop between the two leaves a directory with whatever table its
sector had.

Only model-checked: liveness (`EverythingDelivered`, `ProgramTerminates`, `EveryThreadEnds`,
`EveryCallReturns`), which is beyond the prover.

## Not modelled

- the deletes at the end of the pipeline's `main` and the destructor of `TSQueue` (undefined
  behaviour while threads still run);
- `-rs` time slices, stack allocation, `SWITCH` and register state of NachOS;
- the first MLFQ attempt in `NachOS-4.0_MP3`, superseded by `MP3_correct`, which changes the
  lists it is iterating over;
- `Condition::Broadcast` and `SynchList::Apply`, which no kernel calls, and
  `SynchConsoleInput::GetChar`, whose interrupt answers the keyboard and no request;
- `PostOffice`, which the kernels do not construct;
- the open file table of the MP4 file system (whose 20 pointers the constructor leaves
  uninitialised), what happens to a file that is removed while it is open (its header was read
  at the open, so that later writes go to sectors that may belong to another file by then), and
  `List`;
- the file system calls as they are in MP1 (where `Create` closes an entry of the open file
  table) and the address spaces as they are in MP2 (which loads into frames as if they were
  adjacent): `MP3_correct` contains the corrected form of both, and that is modelled;
- registers and program counters, `Add`, `PrintInt` (whose device call is in `SynchDevice`),
  `Remove` and `Seek`, for which the kernel of MP3_correct has no system call;
- the MIPS simulator, raw devices, containers and tools of the course, which the repository
  takes unchanged.

The repository holds the kernel five times over, with few differences in what is modelled, a
set of compiler headers in each (`usr/local/nachos/include`), and a simulator of the MIPS
instruction set.  A definition is mapped to one copy, the one it was read from, so the mapped
lines are a small share of all the lines.

## What is left

1. `FileSystem`: the open file table, with files that are removed while they are open.
