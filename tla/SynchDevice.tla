---------------------------- MODULE SynchDevice -----------------------------
(***************************************************************************)
(* NachOS's synchronous front of an asynchronous device: a lock around the *)
(* request, a semaphore that the completion interrupt raises.  SynchDisk   *)
(* (filesys/synchdisk.cc) makes one request a call; SynchConsoleOutput     *)
(* (userprog/synchconsole.cc) makes one a character, with the lock held    *)
(* from the first character of PutInt to the last.                         *)
(*                                                                         *)
(* pc[t] is the next statement of thread t: idle, acquire, locked (as in   *)
(* SynchList), request (at the call of the device), wait (at the P of the  *)
(* completion semaphore), release.                                         *)
(***************************************************************************)
EXTENDS Synch

CONSTANTS
    Done,     \* the completion semaphore
    Lengths,  \* requests of one call: 1, or the digits of an integer
    MaxCalls  \* bound: calls of one thread

ASSUME DeviceAssumption ==
    /\ Done # LockSem
    /\ Semaphores = {LockSem, Done}
    /\ Lengths \subseteq Nat \ {0}
    /\ MaxCalls \in Nat

VARIABLES
    active,        \* Disk::active, ConsoleOutput::putBusy
    pc,
    length, sent,  \* requests of a thread's call, and those made so far
    calls

vars == <<semaphores, lockHolder, active, pc, length, sent, calls>>

Init == /\ SynchInit
        /\ active = FALSE
        /\ pc = [t \in Threads |-> "idle"]
        /\ length = [t \in Threads |-> 0]
        /\ sent = [t \in Threads |-> 0]
        /\ calls = [t \in Threads |-> 0]

Goto(t, label) == pc' = [pc EXCEPT ![t] = label]

Call(t) == /\ pc[t] = "idle"
           /\ calls[t] < MaxCalls
           /\ calls' = [calls EXCEPT ![t] = @ + 1]
           /\ \E n \in Lengths : length' = [length EXCEPT ![t] = n]
           /\ sent' = [sent EXCEPT ![t] = 0]
           /\ Goto(t, "acquire")
           /\ UNCHANGED <<semaphores, lockHolder, active>>

Acquire(t) == /\ pc[t] = "acquire"
              /\ \/ PSleep(t, LockSem) /\ UNCHANGED pc
                 \/ PPass(t, LockSem) /\ Goto(t, "locked")
              /\ UNCHANGED <<lockHolder, active, length, sent, calls>>

Hold(t) == /\ pc[t] = "locked"
           /\ lockHolder' = t
           /\ Goto(t, "request")
           /\ UNCHANGED <<semaphores, active, length, sent, calls>>

Request(t) == /\ pc[t] = "request"
              /\ active' = TRUE
              /\ sent' = [sent EXCEPT ![t] = @ + 1]
              /\ Goto(t, "wait")
              /\ UNCHANGED <<semaphores, lockHolder, length, calls>>

\* Mutant: the lock is taken for each character.
AwaitPerCharacter(t) ==
    /\ pc[t] = "wait"
    /\ \/ PSleep(t, Done) /\ UNCHANGED <<pc, lockHolder>>
       \/ /\ ~ Asleep(t) /\ value[Done] > 0
          /\ value' = [value EXCEPT ![Done] = @ - 1, ![LockSem] = @ + 1]
          /\ queue' = [queue EXCEPT ![LockSem] = IF @ = << >> THEN @ ELSE Tail(@)]
          /\ lockHolder' = None
          /\ Goto(t, IF sent[t] < length[t] THEN "acquire" ELSE "idle")
    /\ UNCHANGED <<active, length, sent, calls>>
Await(t) == /\ pc[t] = "wait"
            /\ \/ PSleep(t, Done) /\ UNCHANGED pc
               \/ PPass(t, Done) /\ Goto(t, IF sent[t] < length[t] THEN "request" ELSE "release")
            /\ UNCHANGED <<lockHolder, active, length, sent, calls>>

Release(t) == /\ pc[t] = "release"
              /\ LockRelease
              /\ Goto(t, "idle")
              /\ UNCHANGED <<active, length, sent, calls>>

\* Mutants: a completion reported twice, or only to a thread that sleeps already.
CallBackTwice == value' = [value EXCEPT ![Done] = @ + 2] /\ UNCHANGED queue
CallBackToSleeper == IF queue[Done] = << >> THEN UNCHANGED semaphores ELSE V(Done)
CallBack == V(Done)

\* The device is done with the request (Disk::CallBack, ConsoleOutput::CallBack).
Interrupt == /\ active
             /\ active' = FALSE
             /\ CallBack
             /\ UNCHANGED <<lockHolder, pc, length, sent, calls>>

Step(t) == Call(t) \/ Acquire(t) \/ Hold(t) \/ Request(t) \/ Await(t) \/ Release(t)
Next == (\E t \in Threads : Step(t)) \/ Interrupt

\* Ready threads are run, and a scheduled interrupt comes.
Fairness == /\ \A t \in Threads : WF_vars(Step(t))
            /\ WF_vars(Interrupt)

Spec == Init /\ [][Next]_vars
FairSpec == Spec /\ Fairness
-----------------------------------------------------------------------------
\* The type invariant.
TypeOK == /\ SynchTypeOK
          /\ active \in BOOLEAN
          /\ pc \in [Threads -> {"idle", "acquire", "locked", "request", "wait", "release"}]
          /\ length \in [Threads -> Lengths \cup {0}]
          /\ sent \in [Threads -> Nat]
          /\ \A t \in Threads : sent[t] <= length[t]
          /\ calls \in [Threads -> 0 .. MaxCalls]

\* The device is never asked while it is busy (the assertions of disk.cc 113,
\* 131 and console.cc 155), and no earlier completion is left over that would
\* let the caller return before its own request is done.
Inside(t) == pc[t] \in {"locked", "request", "wait", "release"}
DeviceFreeAtRequest ==
    \A t \in Threads : pc[t] \in {"locked", "request", "release"} => ~ active /\ value[Done] = 0

\* A completion, to come or reported, belongs to the one thread that waits, which
\* holds the lock until it has consumed it.
CompletionsMatch ==
    /\ \A t, u \in Threads : Inside(t) /\ Inside(u) => t = u
    /\ (active \/ value[Done] > 0) <=> \E t \in Threads : pc[t] = "wait"
    /\ ~ (active /\ value[Done] > 0)

\* The characters of one PutInt are not mixed with another thread's output.
Partial(t) == 0 < sent[t] /\ (sent[t] < length[t] \/ pc[t] = "wait")
CallsNotInterleaved == \A t, u \in Threads : Partial(t) /\ Partial(u) => t = u

\* Every call returns, although the thread a release wakes may find the lock
\* taken again; the calls of each thread being finite.
EveryCallReturns == <>[](\A t \in Threads : pc[t] = "idle")
=============================================================================
