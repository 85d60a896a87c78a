---------------------------- MODULE UserMachine ----------------------------
(***************************************************************************)
(* What the kernel of NachOS-4.0_MP3_correct promises its user programs    *)
(* (userprog/syscall.h): each has a memory of its own, and all share the   *)
(* files and one table of open files.  A system call reads and writes the  *)
(* memory of the program that makes it.  Memory is refused only when the   *)
(* running programs use too much of it.                                    *)
(*                                                                         *)
(* A page holds one word, which is the name of a file or a datum; a file   *)
(* is a sequence of words.                                                 *)
(***************************************************************************)
EXTENDS UnixFiles, FiniteSets

CONSTANTS
    Programs,
    Executables,   \* the programs whose executable exists
    Words,         \* the contents of pages, Zero among them
    Pages,         \* [Programs -> pages of the program]
    Text,          \* [Programs -> its pages when it starts]
    NumFrames,     \* pages of memory
    NumSlots,      \* of the table of open files
    InitialFiles,  \* the files there are at first
    MaxLength,     \* bound: words in a file
    None           \* no file

Slots == 0 .. NumSlots - 1

VARIABLES
    life,     \* each program is waiting, running or ended
    image,    \* the memory of each running program
    files,    \* the contents of each file that exists
    opened,   \* the open file table: file and position, or None
    result,   \* what the last system call returned
    stopped   \* the machine gave up

vars == <<life, image, files, opened, result, stopped>>

Init == /\ life = [p \in Programs |-> "waiting"]
        /\ image = [p \in Programs |-> << >>]
        /\ files = InitialFiles
        /\ opened = [i \in Slots |-> None]
        /\ result = 0
        /\ stopped = FALSE

InUse == {q \in Programs : life[q] = "running"}
PagesOf(programs) == UNION {{q} \X (0 .. Pages[q] - 1) : q \in programs}

Start(p) == /\ life[p] = "waiting" /\ p \in Executables
            /\ life' = [life EXCEPT ![p] = "running"]
            /\ image' = [image EXCEPT ![p] = Text[p]]
            /\ UNCHANGED <<files, opened, result, stopped>>

\* too little memory: the whole machine stops
Refuse(p) == /\ life[p] = "waiting" /\ p \in Executables
             /\ Cardinality(PagesOf(InUse)) + Pages[p] > NumFrames
             /\ stopped' = TRUE
             /\ UNCHANGED <<life, image, files, opened, result>>

End(p) == /\ \/ life[p] = "running"
             \/ life[p] = "waiting" /\ p \notin Executables
          /\ life' = [life EXCEPT ![p] = "ended"]
          /\ image' = [image EXCEPT ![p] = << >>]
          /\ UNCHANGED <<files, opened, result, stopped>>

Halt(p) == /\ life[p] = "running"
           /\ stopped' = TRUE
           /\ UNCHANGED <<life, image, files, opened, result>>

Store(p, v, w) == /\ life[p] = "running"
                  /\ image' = [image EXCEPT ![p][v] = w]
                  /\ UNCHANGED <<life, files, opened, result, stopped>>

Create(p, v) == /\ life[p] = "running"
                /\ IF image[p][v] = Zero
                     THEN stopped' = TRUE /\ UNCHANGED <<files, result>>
                     ELSE /\ files' = OpenTruncated(files, image[p][v])
                          /\ result' = 1
                          /\ UNCHANGED stopped
                /\ UNCHANGED <<life, image, opened>>

\* a file is open under one identifier at a time
Openable(name) == /\ name \in DOMAIN files
                  /\ \A i \in Slots : opened[i] # None => opened[i].file # name
                  /\ \E i \in Slots : opened[i] = None
Open(p, v) == /\ life[p] = "running"
              /\ IF Openable(image[p][v])
                   THEN \E i \in Slots :
                            /\ opened[i] = None
                            /\ opened' = [opened EXCEPT ![i] = [file |-> image[p][v], position |-> 0]]
                            /\ result' = i
                   ELSE result' = -1 /\ UNCHANGED opened
              /\ UNCHANGED <<life, image, files, stopped>>

IsOpen(id) == id \in Slots /\ opened[id] # None
Moved(id) == [opened EXCEPT ![id].position = @ + 1]

Write(p, v, id) ==
    /\ life[p] = "running"
    /\ IF IsOpen(id)
         THEN /\ opened[id].position < MaxLength
              /\ files' = [files EXCEPT ![opened[id].file] =
                               WrittenAt(@, opened[id].position, image[p][v])]
              /\ opened' = Moved(id)
              /\ result' = 1
         ELSE result' = -1 /\ UNCHANGED <<files, opened>>
    /\ UNCHANGED <<life, image, stopped>>

Contents(id) == files[opened[id].file]
Read(p, v, id) ==
    /\ life[p] = "running"
    /\ IF ~ IsOpen(id) THEN result' = -1 /\ UNCHANGED <<image, opened>>
       ELSE IF AtEnd(Contents(id), opened[id].position)
         THEN result' = 0 /\ UNCHANGED <<image, opened>>
       ELSE /\ image' = [image EXCEPT ![p][v] = ReadAt(Contents(id), opened[id].position)]
            /\ opened' = Moved(id)
            /\ result' = 1
    /\ UNCHANGED <<life, files, stopped>>

Close(p, id) == /\ life[p] = "running"
                /\ IF IsOpen(id)
                     THEN opened' = [opened EXCEPT ![id] = None] /\ result' = 1
                     ELSE result' = -1 /\ UNCHANGED opened
                /\ UNCHANGED <<life, image, files, stopped>>

Next == /\ ~ stopped
        /\ \E p \in Programs :
             \/ Start(p) \/ Refuse(p) \/ End(p) \/ Halt(p)
             \/ \E v \in 0 .. Pages[p] - 1 :
                  \/ \E w \in Words : Store(p, v, w)
                  \/ Create(p, v) \/ Open(p, v)
                  \/ \E id \in -1 .. NumSlots : Write(p, v, id) \/ Read(p, v, id)
             \/ \E id \in -1 .. NumSlots : Close(p, id)

Spec == Init /\ [][Next]_vars
=============================================================================
