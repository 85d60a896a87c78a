------------------------------ MODULE Programs ------------------------------
(***************************************************************************)
(* User programs on the kernel of NachOS-4.0_MP3_correct: page frames      *)
(* (threads/kernel.h), address spaces (userprog/addrspace.cc), the page    *)
(* table register of the machine, and the system calls on files            *)
(* (userprog/exception.cc, filesys/filesys.h, filesys/openfile.h).         *)
(*                                                                         *)
(* Which thread runs next is Scheduler's business; here any thread that    *)
(* has not finished may be dispatched at any time.  A system call is one   *)
(* step, as nothing in it turns the interrupts on.                         *)
(*                                                                         *)
(* A page holds one word, which may be the name of a file.  ExceptionHandler *)
(* takes the address of a name or buffer, which is virtual, as an index    *)
(* into main memory.  With Careful programs only use buffers whose page    *)
(* has the frame of the same number, and leave the name of an open file    *)
(* where it is.                                                            *)
(***************************************************************************)
EXTENDS UnixFiles, FiniteSets

CONSTANTS
    Programs,      \* the threads Kernel::Exec creates
    Main,          \* the thread that runs ExecAll
    Executables,   \* the programs whose executable exists
    Words,         \* the contents of pages, Zero among them
    Pages,         \* [Programs -> pages of the program]
    Text,          \* [Programs -> what Load puts into them]
    NumFrames,     \* NumPhysPages
    NumSlots,      \* of OpenFileTable
    InitialFiles,  \* the files the host has at first
    Careful,
    MaxCalls,      \* bound: stores and system calls of all programs
    MaxLength,     \* bound: words in a file
    None           \* -1 in the frame table, NULL elsewhere

Frames == 0 .. NumFrames - 1
Slots == 0 .. NumSlots - 1
Threads == Programs \cup {Main}

ASSUME ProgramsAssumption ==
    /\ IsFiniteSet(Programs)
    /\ Main \notin Programs /\ None \notin Threads
    /\ Executables \subseteq Programs
    /\ Zero \in Words
    /\ Pages \in [Programs -> Nat \ {0}]
    /\ \A p \in Programs : Text[p] \in [0 .. Pages[p] - 1 -> Words]
    /\ {NumFrames, NumSlots, MaxCalls, MaxLength} \subseteq Nat
    /\ InitialFiles \in [DOMAIN InitialFiles -> Seq(Words)]
    /\ DOMAIN InitialFiles \subseteq Words \ {Zero}
    /\ Careful \in BOOLEAN
    /\ None \notin [file : Words, position : Nat, name : Frames]
    /\ None \notin [file : Words, position : Nat]

VARIABLES
    table,         \* FrameTable::table: the owner of each frame
    avFrameNum,    \* FrameTable::avFrameNum
    pageTable,     \* of each thread's address space: page -> frame
    pageRegister,  \* machine->pageTable: the thread whose table it is
    memory,        \* machine->mainMemory: a word for each frame
    stage,         \* of each thread: forked, begun, user, finished, deleted
    currentThread,
    openFile,      \* OpenFileTable: file, position and the frame of the name
    files,         \* the host's files
    result,        \* register 2 of the last program that made a system call
    stopped,       \* an assertion failed or a program halted the machine
    calls

frameVars == <<table, avFrameNum>>
spaceVars == <<pageTable, pageRegister>>
threadVars == <<stage, currentThread>>
fileVars == <<openFile, files>>
vars == <<frameVars, spaceVars, memory, threadVars, fileVars, result, stopped, calls>>

Init == /\ table = [f \in Frames |-> None] /\ avFrameNum = NumFrames
        /\ pageTable = [t \in Threads |-> << >>] /\ pageRegister = None
        /\ memory = [f \in Frames |-> Zero]
        /\ stage = [t \in Threads |-> IF t = Main THEN "begun" ELSE "forked"]
        /\ currentThread = Main
        /\ openFile = [i \in Slots |-> None] /\ files = InitialFiles
        /\ result = 0 /\ stopped = FALSE /\ calls = 0

FramesOf(t) == {pageTable[t][v] : v \in DOMAIN pageTable[t]}
FreeFrames == {f \in Frames : table[f] = None}

-----------------------------------------------------------------------------
(* Threads and address spaces                                              *)

\* Mutant: the frames are marked free but not counted.
DestroyUncounted(t) ==
    /\ table' = [f \in Frames |-> IF f \in FramesOf(t) THEN None ELSE table[f]]
    /\ UNCHANGED avFrameNum
\* Mutant: pages are given back that a program without executable never got.
DestroyUnloaded(t) ==
    /\ table' = [f \in Frames |-> IF f \in FramesOf(t) THEN None ELSE table[f]]
    /\ avFrameNum' = avFrameNum + (IF t = Main THEN 0 ELSE Pages[t])
\* AddrSpace::~AddrSpace
DestroySpace(t) ==
    /\ table' = [f \in Frames |-> IF f \in FramesOf(t) THEN None ELSE table[f]]
    /\ avFrameNum' = avFrameNum + Cardinality(DOMAIN pageTable[t])

\* Scheduler::CheckToBeDestroyed, in the thread that runs next.  The finished
\* thread is deleted with its address space.
CheckToBeDestroyed ==
    IF stage[currentThread] = "finished"
      THEN DestroySpace(currentThread) /\ pageTable' = [pageTable EXCEPT ![currentThread] = << >>]
      ELSE UNCHANGED <<frameVars, pageTable>>

\* The end of Scheduler::Run, which a new thread does not come through.
RestoreState(t) == IF stage[t] \in {"begun", "user"} /\ t # Main THEN t ELSE pageRegister

\* Scheduler::Run, from Yield, Sleep or Finish, up to the point where t goes on:
\* in Run itself, or in Thread::Begin if it is new.
Dispatch(t) ==
    /\ t # currentThread
    /\ stage[t] \in {"forked", "begun", "user"}
    /\ CheckToBeDestroyed
    /\ pageRegister' = RestoreState(t)
    /\ currentThread' = t
    /\ stage' = [u \in Threads |-> IF u = t /\ stage[t] = "forked" THEN "begun"
                                   ELSE IF stage[u] = "finished" THEN "deleted" ELSE stage[u]]
    /\ UNCHANGED <<memory, fileVars, result, stopped, calls>>

Starts(p) == currentThread = p /\ stage[p] = "begun" /\ p \in Executables
\* Enough frames by the count, and acquireThreadFrame finds them.
Fits(p) == Pages[p] <= avFrameNum /\ Pages[p] <= Cardinality(FreeFrames)

\* FrameTable::acquireThreadFrame for one page after the other: the lowest ones.
LowestFree(frames) ==
    /\ \A v, u \in DOMAIN frames : v < u => frames[v] < frames[u]
    /\ \A v \in DOMAIN frames, f \in FreeFrames :
           f < frames[v] => \E u \in DOMAIN frames : frames[u] = f

\* ForkExecute: AddrSpace::Load, then Execute.
Load(p) ==
    /\ Starts(p) /\ Fits(p)
    /\ \E frames \in [0 .. Pages[p] - 1 -> FreeFrames] :
          /\ LowestFree(frames)
          /\ pageTable' = [pageTable EXCEPT ![p] = frames]
          /\ table' = [f \in Frames |-> IF \E v \in DOMAIN frames : frames[v] = f THEN p ELSE table[f]]
          /\ memory' = [f \in Frames |->
                           IF \E v \in DOMAIN frames : frames[v] = f
                             THEN Text[p][CHOOSE v \in DOMAIN frames : frames[v] = f]
                             ELSE memory[f]]
    /\ avFrameNum' = avFrameNum - Pages[p]
    /\ pageRegister' = p
    /\ stage' = [stage EXCEPT ![p] = "user"]
    /\ UNCHANGED <<currentThread, fileVars, result, stopped, calls>>

\* MemoryLimitException: its handler is an assertion that fails.
MemoryLimit(p) == /\ Starts(p) /\ ~ Fits(p)
                  /\ stopped' = TRUE
                  /\ UNCHANGED <<frameVars, spaceVars, memory, threadVars, fileVars, result, calls>>

\* Careful programs do not touch the name of an open file.
NameStays(f) == Careful => \A i \in Slots : openFile[i] # None => openFile[i].name # f

\* Thread::Finish of a program that calls Exit or has no executable, and of main.
Finish(t) ==
    /\ currentThread = t
    /\ stage[t] = "user" \/ (stage[t] = "begun" /\ t \notin Executables)
    /\ \A f \in FramesOf(t) : NameStays(f)
    /\ stage' = [stage EXCEPT ![t] = "finished"]
    /\ UNCHANGED <<frameVars, spaceVars, memory, currentThread, fileVars, result, stopped, calls>>

-----------------------------------------------------------------------------
(* Instructions and system calls of the current program                    *)

Runs(p) == /\ currentThread = p /\ stage[p] = "user"
           /\ calls < MaxCalls
           /\ calls' = calls + 1

\* Machine::Translate, for user instructions.
Translate(v) == pageTable[pageRegister][v]
\* ExceptionHandler: &kernel->machine->mainMemory[val].
Buffer(v) == v
UsesBuffer(p, v) == Runs(p) /\ (Careful => Translate(v) = Buffer(v))

\* Machine::WriteMem
Store(p, v, w) ==
    /\ Runs(p)
    /\ NameStays(Translate(v))
    /\ memory' = [memory EXCEPT ![Translate(v)] = w]
    /\ UNCHANGED <<frameVars, spaceVars, threadVars, fileVars, result, stopped>>

\* SC_Halt
Halt(p) == /\ Runs(p)
           /\ stopped' = TRUE
           /\ UNCHANGED <<frameVars, spaceVars, memory, threadVars, fileVars, result>>

\* SC_Create; OpenForWrite asserts that the host opens the file.
Create(p, v) ==
    /\ UsesBuffer(p, v)
    /\ LET name == memory[Buffer(v)]
       IN  IF name = Zero
             THEN stopped' = TRUE /\ UNCHANGED <<files, result>>
             ELSE /\ files' = OpenTruncated(files, name)
                  /\ result' = 1
                  /\ UNCHANGED stopped
    /\ UNCHANGED <<frameVars, spaceVars, memory, threadVars, openFile>>

\* Mutant: the name is compared with nothing.
NeverOpen(name) == FALSE
\* strcmp with getFileName, a pointer to where the name was at the time.
NameOpen(name) == \E i \in Slots : openFile[i] # None /\ memory[openFile[i].name] = name
AvailableId == {i \in Slots : openFile[i] = None}

\* SC_Open: FileSystem::OpenAFile takes the last entry that is NULL.
Open(p, v) ==
    /\ UsesBuffer(p, v)
    /\ LET name == memory[Buffer(v)]
       IN  IF NameOpen(name) \/ AvailableId = {} \/ name \notin DOMAIN files
             THEN result' = -1 /\ UNCHANGED openFile
             ELSE \E avaId \in AvailableId :
                     /\ \A i \in AvailableId : i <= avaId
                     /\ openFile' = [openFile EXCEPT ![avaId] =
                                       [file |-> name, position |-> 0, name |-> Buffer(v)]]
                     /\ result' = avaId
    /\ UNCHANGED <<frameVars, spaceVars, memory, threadVars, files, stopped>>

IsOpen(id) == id \in Slots /\ openFile[id] # None
Ids == -1 .. NumSlots
Advanced(id) == [openFile EXCEPT ![id].position = @ + 1]

\* SC_Write of one word: FileSystem::WriteFile, OpenFile::Write
Write(p, v, id) ==
    /\ UsesBuffer(p, v)
    /\ IF ~ IsOpen(id)
         THEN result' = -1 /\ UNCHANGED fileVars
         ELSE LET e == openFile[id]
              IN  /\ e.position < MaxLength
                  /\ files' = [files EXCEPT ![e.file] = WrittenAt(@, e.position, memory[Buffer(v)])]
                  /\ openFile' = Advanced(id)
                  /\ result' = 1
    /\ UNCHANGED <<frameVars, spaceVars, memory, threadVars, stopped>>

\* SC_Read of one word: FileSystem::ReadFile, OpenFile::Read
Read(p, v, id) ==
    /\ UsesBuffer(p, v)
    /\ NameStays(Buffer(v))
    /\ IF ~ IsOpen(id)
         THEN result' = -1 /\ UNCHANGED <<memory, openFile>>
       ELSE IF AtEnd(files[openFile[id].file], openFile[id].position)
         THEN result' = 0 /\ UNCHANGED <<memory, openFile>>
       ELSE /\ memory' = [memory EXCEPT ![Buffer(v)] =
                              ReadAt(files[openFile[id].file], openFile[id].position)]
            /\ openFile' = Advanced(id)
            /\ result' = 1
    /\ UNCHANGED <<frameVars, spaceVars, threadVars, files, stopped>>

\* SC_Close: FileSystem::CloseFile
Close(p, id) ==
    /\ Runs(p)
    /\ IF IsOpen(id)
         THEN openFile' = [openFile EXCEPT ![id] = None] /\ result' = 1
         ELSE result' = -1 /\ UNCHANGED openFile
    /\ UNCHANGED <<frameVars, spaceVars, memory, threadVars, files, stopped>>

Call(p) == \/ Halt(p)
           \/ \E v \in 0 .. Pages[p] - 1 :
                \/ \E w \in Words : Store(p, v, w)
                \/ Create(p, v) \/ Open(p, v)
                \/ \E id \in Ids : Write(p, v, id) \/ Read(p, v, id)
           \/ \E id \in Ids : Close(p, id)

Next == /\ ~ stopped
        /\ \/ \E t \in Threads : Dispatch(t) \/ Finish(t)
           \/ \E p \in Programs : Load(p) \/ MemoryLimit(p) \/ Call(p)

Spec == Init /\ [][Next]_vars
-----------------------------------------------------------------------------
Entries == [file : Words \ {Zero}, position : Nat, name : Frames]

\* The type invariant.
TypeOK ==
    /\ table \in [Frames -> Programs \cup {None}]
    /\ avFrameNum \in 0 .. NumFrames
    /\ DOMAIN pageTable = Threads
    /\ \A t \in Threads :
           pageTable[t] = << >> \/ (t \in Programs /\ pageTable[t] \in [0 .. Pages[t] - 1 -> Frames])
    /\ pageRegister \in Programs \cup {None}
    /\ memory \in [Frames -> Words]
    /\ stage \in [Threads -> {"forked", "begun", "user", "finished", "deleted"}]
    /\ currentThread \in Threads
    /\ openFile \in [Slots -> Entries \cup {None}]
    /\ \A w \in DOMAIN files : w \in Words \ {Zero} /\ files[w] \in Seq(Words)
    /\ \A i \in Slots : openFile[i] # None => openFile[i].file \in DOMAIN files
    /\ result \in {-1, 0, 1} \cup Slots
    /\ stopped \in BOOLEAN
    /\ calls \in 0 .. MaxCalls

\* Each frame is marked with the one program that has a page in it, and free
\* otherwise; avFrameNum counts the free ones.  Both must survive that a finished
\* program keeps its frames until another thread runs, and that a program ends
\* before it has any.
FramesOwnedOnce ==
    /\ \A t \in Threads : \A v, u \in DOMAIN pageTable[t] :
           v # u => pageTable[t][v] # pageTable[t][u]
    /\ \A f \in Frames, t \in Threads : table[f] = t <=> f \in FramesOf(t)
    /\ avFrameNum = Cardinality(FreeFrames)

\* The programs live on the machine that the system calls describe: each finds in
\* its memory what it stored or read and nothing else, a file is open under one
\* identifier at a time and calls return what they should, and memory is refused
\* only when the programs that run use too much of it, not because of frames that
\* ended programs still hold.
Life(p) == CASE stage[p] \in {"forked", "begun"} -> "waiting"
             [] stage[p] = "user" -> "running"
             [] OTHER -> "ended"
Image(p) == IF stage[p] = "user" THEN [v \in DOMAIN pageTable[p] |-> memory[pageTable[p][v]]]
            ELSE << >>
Opened(i) == IF openFile[i] = None THEN None
             ELSE [file |-> openFile[i].file, position |-> openFile[i].position]
life == [p \in Programs |-> Life(p)]
image == [p \in Programs |-> Image(p)]
opened == [i \in Slots |-> Opened(i)]
Machine == INSTANCE UserMachine WITH life <- life, image <- image, opened <- opened
ImplementsUserMachine == Machine!Spec

\* "Read size bytes from the open file into buffer" (syscall.h 134): no step
\* changes the memory of a program that is not running.
MemoryIsPrivate ==
    [][\A p \in Programs : p # currentThread /\ stage[p] = "user" => Image(p)' = Image(p)]_vars
=============================================================================
