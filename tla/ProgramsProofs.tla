--------------------------- MODULE ProgramsProofs ---------------------------
(***************************************************************************)
(* The frames of Programs, for every set of programs of any size and every *)
(* number of frames.                                                       *)
(*                                                                         *)
(* The inductive invariant adds to the types and to the ownership of       *)
(* frames what the stage of a thread says of its page table: a program has *)
(* no page before it is loaded and none once it is deleted, and only the   *)
(* thread that still runs can be finished but not deleted.                 *)
(*                                                                         *)
(* Then Programs implements UserMachine, for every set of Careful          *)
(* programs.  The kernel compares the name of a file with what main memory *)
(* holds now at the place where each open file's name was.  NamesStay says *)
(* that these are still the names, in frames of programs that run;         *)
(* RegisterSet that instructions and calls of a program use its own page   *)
(* table.                                                                  *)
(***************************************************************************)
EXTENDS Programs, FiniteSetTheorems, TLAPS

StagesMatch ==
    /\ \A t \in Threads : stage[t] = "finished" => t = currentThread
    /\ \A p \in Programs :
           /\ stage[p] \in {"forked", "begun", "deleted"} => pageTable[p] = << >>
           /\ stage[p] = "user" => /\ pageTable[p] \in [0 .. Pages[p] - 1 -> Frames]
                                   /\ Pages[p] <= NumFrames

\* The type invariant, in parts of which a step leaves most alone.
SpacesTyped ==
    /\ table \in [Frames -> Programs \cup {None}]
    /\ DOMAIN pageTable = Threads
    /\ \A t \in Threads :
           pageTable[t] = << >> \/ (t \in Programs /\ pageTable[t] \in [0 .. Pages[t] - 1 -> Frames])
    /\ pageRegister \in Programs \cup {None}
FilesTyped ==
    /\ openFile \in [Slots -> Entries \cup {None}]
    /\ \A w \in DOMAIN files : w \in Words \ {Zero} /\ files[w] \in Seq(Words)
    /\ \A i \in Slots : openFile[i] # None => openFile[i].file \in DOMAIN files
MemoryTyped == memory \in [Frames -> Words]
ThreadsTyped ==
    /\ stage \in [Threads -> {"forked", "begun", "user", "finished", "deleted"}]
    /\ currentThread \in Threads
    /\ stopped \in BOOLEAN
CountersTyped ==
    /\ result \in {-1, 0, 1} \cup Slots
    /\ calls \in 0 .. MaxCalls

IInv == /\ SpacesTyped /\ FilesTyped /\ MemoryTyped /\ ThreadsTyped /\ CountersTyped
        /\ FramesOwnedOnce
        /\ StagesMatch

-----------------------------------------------------------------------------
(* Counting frames.                                                        *)

\* An address space with distinct frames has as many frames as pages.
LEMMA DistinctFrames ==
    ASSUME NEW S, IsFiniteSet(S), NEW g,
           \A v, u \in S : v # u => g[v] # g[u]
    PROVE  LET T == {g[v] : v \in S}
           IN  IsFiniteSet(T) /\ Cardinality(T) = Cardinality(S)
<1> DEFINE T == {g[v] : v \in S}
           f == [v \in S |-> g[v]]
<1>1. f \in Injection(S, T)
  BY DEF Injection, IsInjective
<1>2. f \in Surjection(S, T)
  BY DEF Surjection
<1>3. ExistsBijection(S, T)
  BY <1>1, <1>2 DEF ExistsBijection, Bijection
<1> QED
  BY <1>3, FS_Bijection

\* There are finitely many free frames, and no more than frames.
LEMMA FreeFramesFinite ==
    ASSUME NEW F \in SUBSET Frames
    PROVE  IsFiniteSet(F) /\ Cardinality(F) \in 0 .. NumFrames
<1>1. NumFrames \in Nat
  BY ProgramsAssumption
<1>2. IsFiniteSet(Frames) /\ Cardinality(Frames) = NumFrames
  BY <1>1, FS_Interval DEF Frames
<1>3. IsFiniteSet(F) /\ Cardinality(F) <= Cardinality(Frames)
  BY <1>2, FS_Subset
<1> QED
  BY <1>1, <1>2, <1>3, FS_CardinalityType

\* The pages of a page table are finitely many.
LEMMA PagesFinite ==
    ASSUME SpacesTyped, NEW t \in Threads
    PROVE  IsFiniteSet(DOMAIN pageTable[t])
<1>1. CASE pageTable[t] = << >>
  BY <1>1, FS_EmptySet
<1>2. CASE t \in Programs /\ pageTable[t] \in [0 .. Pages[t] - 1 -> Frames]
  <2>1. Pages[t] \in Nat
    BY <1>2, ProgramsAssumption
  <2> QED
    BY <1>2, <2>1, FS_Interval
<1> QED
  BY <1>1, <1>2 DEF SpacesTyped

\* The type invariant is the part of the inductive one that speaks of types.
LEMMA TypesInvariant == IInv => TypeOK
<1> SUFFICES ASSUME IInv PROVE TypeOK
  OBVIOUS
<1>1. avFrameNum \in 0 .. NumFrames
  BY FreeFramesFinite DEF IInv, FramesOwnedOnce, FreeFrames
<1> QED
  BY <1>1 DEF IInv, TypeOK, SpacesTyped, FilesTyped, MemoryTyped, ThreadsTyped, CountersTyped

-----------------------------------------------------------------------------
(* The inductive invariant.                                                *)

\* All frames are free when the kernel starts.
LEMMA InitHolds == Init => IInv
<1> SUFFICES ASSUME Init PROVE IInv
  OBVIOUS
<1>1. SpacesTyped /\ ThreadsTyped
  BY DEF Init, SpacesTyped, ThreadsTyped, Threads
<1>2. FilesTyped /\ MemoryTyped
  BY ProgramsAssumption DEF Init, FilesTyped, MemoryTyped
<1>3. CountersTyped
  BY ProgramsAssumption DEF Init, CountersTyped
<1>4. FreeFrames = Frames
  BY DEF Init, FreeFrames
<1>5. Cardinality(Frames) = NumFrames
  <2>1. NumFrames \in Nat
    BY ProgramsAssumption
  <2> QED
    BY <2>1, FS_Interval DEF Frames
<1>6. FramesOwnedOnce
  BY <1>4, <1>5, ProgramsAssumption DEF Init, FramesOwnedOnce, FramesOf, Threads
<1>7. StagesMatch
  BY ProgramsAssumption DEF Init, StagesMatch, Threads
<1> QED
  BY <1>1, <1>2, <1>3, <1>6, <1>7 DEF IInv
-----------------------------------------------------------------------------
(* Steps of threads and address spaces.                                    *)

\* Until it is deleted, a thread keeps its frames, each of its pages its own.
LEMMA FramesCounted ==
    ASSUME IInv, NEW t \in Threads
    PROVE  /\ FramesOf(t) \subseteq Frames
           /\ IsFiniteSet(FramesOf(t))
           /\ Cardinality(FramesOf(t)) = Cardinality(DOMAIN pageTable[t])
           /\ FramesOf(t) \cap FreeFrames = {}
<1>1. IsFiniteSet(DOMAIN pageTable[t])
  BY PagesFinite DEF IInv
<1>2. \A v, u \in DOMAIN pageTable[t] : v # u => pageTable[t][v] # pageTable[t][u]
  BY DEF IInv, FramesOwnedOnce
<1>3. IsFiniteSet(FramesOf(t)) /\ Cardinality(FramesOf(t)) = Cardinality(DOMAIN pageTable[t])
  BY <1>1, <1>2, DistinctFrames DEF FramesOf
<1>4. FramesOf(t) \subseteq Frames
  <2>1. CASE pageTable[t] = << >>
    BY <2>1 DEF FramesOf
  <2>2. CASE t \in Programs /\ pageTable[t] \in [0 .. Pages[t] - 1 -> Frames]
    BY <2>2 DEF FramesOf
  <2> QED
    BY <2>1, <2>2 DEF IInv, SpacesTyped
<1>5. FramesOf(t) \cap FreeFrames = {}
  BY <1>4, ProgramsAssumption DEF IInv, FramesOwnedOnce, FreeFrames
<1> QED
  BY <1>3, <1>4, <1>5

\* Giving back a thread's frames leaves every other frame to its owner.
LEMMA DestroyOwnership ==
    ASSUME IInv, NEW c \in Threads, DestroySpace(c),
           pageTable' = [pageTable EXCEPT ![c] = << >>]
    PROVE  /\ table' \in [Frames -> Programs \cup {None}]
           /\ DOMAIN pageTable' = Threads
           /\ pageTable'[c] = << >>
           /\ \A t \in Threads \ {c} : pageTable'[t] = pageTable[t]
           /\ FramesOwnedOnce'
<1>1. /\ table' = [f \in Frames |-> IF f \in FramesOf(c) THEN None ELSE table[f]]
      /\ avFrameNum' = avFrameNum + Cardinality(DOMAIN pageTable[c])
  BY DEF DestroySpace
<1>2. /\ DOMAIN pageTable' = Threads
      /\ pageTable'[c] = << >>
      /\ \A t \in Threads \ {c} : pageTable'[t] = pageTable[t]
  BY DEF IInv, SpacesTyped
<1>3. table' \in [Frames -> Programs \cup {None}]
  BY <1>1 DEF IInv, SpacesTyped
<1>4. FramesOf(c)' = {} /\ \A t \in Threads \ {c} : FramesOf(t)' = FramesOf(t)
  BY <1>2 DEF FramesOf
<1>5. FreeFrames' = FreeFrames \cup FramesOf(c)
  BY <1>1, FramesCounted DEF FreeFrames
<1>6. Cardinality(FreeFrames)' = avFrameNum'
  <2>1. IsFiniteSet(FreeFrames) /\ Cardinality(FreeFrames) \in Nat
    BY FreeFramesFinite, ProgramsAssumption DEF FreeFrames
  <2>2. /\ IsFiniteSet(FramesOf(c)) /\ FreeFrames \cap FramesOf(c) = {}
        /\ Cardinality(FramesOf(c)) = Cardinality(DOMAIN pageTable[c])
    BY FramesCounted
  <2>3. Cardinality(FramesOf(c)) \in Nat
    BY <2>2, FS_CardinalityType
  <2>4. Cardinality(FreeFrames \cup FramesOf(c)) = Cardinality(FreeFrames) + Cardinality(FramesOf(c))
                                                   - Cardinality(FreeFrames \cap FramesOf(c))
    BY <2>1, <2>2, FS_Union
  <2>5. Cardinality(FreeFrames \cap FramesOf(c)) = 0
    BY <2>2, FS_EmptySet
  <2> QED
    BY <1>1, <1>5, <2>1, <2>2, <2>3, <2>4, <2>5 DEF IInv, FramesOwnedOnce
<1>7. \A f \in Frames, t \in Threads : table'[f] = t <=> f \in FramesOf(t)'
  <2> SUFFICES ASSUME NEW f \in Frames, NEW t \in Threads
               PROVE  table'[f] = t <=> f \in FramesOf(t)'
    OBVIOUS
  <2>1. None # t
    BY ProgramsAssumption
  <2>2. (table[f] = t <=> f \in FramesOf(t)) /\ (table[f] = c <=> f \in FramesOf(c))
    BY DEF IInv, FramesOwnedOnce
  <2>3. table'[f] = IF f \in FramesOf(c) THEN None ELSE table[f]
    BY <1>1
  <2>4. CASE t = c
    BY <1>4, <2>1, <2>2, <2>3, <2>4
  <2>5. CASE t # c
    BY <1>4, <2>1, <2>2, <2>3, <2>5
  <2> QED
    BY <2>4, <2>5
<1>8. \A t \in Threads : \A v, u \in DOMAIN pageTable'[t] :
          v # u => pageTable'[t][v] # pageTable'[t][u]
  BY <1>2 DEF IInv, FramesOwnedOnce
<1>9. FramesOwnedOnce'
  BY <1>6, <1>7, <1>8 DEF FramesOwnedOnce
<1> QED
  BY <1>2, <1>3, <1>9

\* A finished thread's frames are given back before another thread goes on.
LEMMA DestroyPreserves ==
    ASSUME IInv, CheckToBeDestroyed
    PROVE  /\ table' \in [Frames -> Programs \cup {None}]
           /\ DOMAIN pageTable' = Threads
           /\ \A t \in Threads :
                  pageTable'[t] = IF t = currentThread /\ stage[t] = "finished" THEN << >>
                                  ELSE pageTable[t]
           /\ FramesOwnedOnce'
<1>1. CASE stage[currentThread] # "finished"
  <2>1. UNCHANGED <<table, avFrameNum, pageTable>>
    BY <1>1 DEF CheckToBeDestroyed, frameVars
  <2>2. FramesOwnedOnce'
    BY <2>1 DEF IInv, FramesOwnedOnce, FramesOf, FreeFrames
  <2> QED
    BY <1>1, <2>1, <2>2 DEF IInv, SpacesTyped
<1>2. CASE stage[currentThread] = "finished"
  <2>1. PICK c \in Threads : c = currentThread
    BY DEF IInv, ThreadsTyped
  <2>2. DestroySpace(c) /\ pageTable' = [pageTable EXCEPT ![c] = << >>]
    BY <1>2, <2>1 DEF CheckToBeDestroyed
  <2> QED
    BY <1>2, <2>1, <2>2, DestroyOwnership
<1> QED
  BY <1>1, <1>2

\* Another thread goes on: the finished one is deleted.
LEMMA DispatchPreserves ==
    ASSUME IInv, NEW t \in Threads, Dispatch(t) PROVE IInv'
<1>1. CheckToBeDestroyed
  BY DEF Dispatch
<1>2. /\ currentThread' = t /\ t # currentThread
      /\ stage[t] \in {"forked", "begun", "user"}
      /\ stage' = [u \in Threads |-> IF u = t /\ stage[t] = "forked" THEN "begun"
                                    ELSE IF stage[u] = "finished" THEN "deleted" ELSE stage[u]]
      /\ UNCHANGED <<memory, fileVars, result, stopped, calls>>
  BY DEF Dispatch
<1>3. pageRegister' \in Programs \cup {None}
  BY DEF Dispatch, RestoreState, IInv, SpacesTyped, Threads
<1>4. SpacesTyped'
  BY <1>1, <1>3, DestroyPreserves DEF IInv, SpacesTyped
<1>5. ThreadsTyped'
  BY <1>2 DEF IInv, ThreadsTyped
<1>6. FilesTyped' /\ MemoryTyped' /\ CountersTyped'
  BY <1>2 DEF IInv, FilesTyped, MemoryTyped, CountersTyped, fileVars
<1>7. FramesOwnedOnce'
  BY <1>1, DestroyPreserves
<1>8. StagesMatch'
  <2>1. \A u \in Threads : stage'[u] # "finished"
    BY <1>2
  <2> SUFFICES ASSUME NEW p \in Programs
               PROVE  /\ stage'[p] \in {"forked", "begun", "deleted"} => pageTable'[p] = << >>
                      /\ stage'[p] = "user" =>
                             /\ pageTable'[p] \in [0 .. Pages[p] - 1 -> Frames]
                             /\ Pages[p] <= NumFrames
    BY <2>1 DEF StagesMatch
  <2>2. p \in Threads
    BY DEF Threads
  <2>3. CASE stage[p] = "finished"
    <3>1. p = currentThread
      BY <2>2, <2>3 DEF IInv, StagesMatch
    <3>2. pageTable'[p] = << >>
      BY <1>1, <2>2, <2>3, <3>1, DestroyPreserves
    <3>3. stage'[p] = "deleted"
      BY <1>2, <2>2, <2>3
    <3> QED
      BY <3>2, <3>3
  <2>4. CASE stage[p] # "finished"
    <3>1. pageTable'[p] = pageTable[p]
      BY <1>1, <2>2, <2>4, DestroyPreserves
    <3>2. stage'[p] = stage[p] \/ (stage[p] = "forked" /\ stage'[p] = "begun")
      BY <1>2, <2>2, <2>4
    <3> QED
      BY <3>1, <3>2 DEF IInv, StagesMatch
  <2> QED
    BY <2>3, <2>4
<1> QED
  BY <1>4, <1>5, <1>6, <1>7, <1>8 DEF IInv

\* A program that is loaded gets free frames, each for one page.
LEMMA LoadPreserves ==
    ASSUME IInv, NEW p \in Programs, Load(p) PROVE IInv'
<1>1. PICK frames \in [0 .. Pages[p] - 1 -> FreeFrames] :
          /\ LowestFree(frames)
          /\ pageTable' = [pageTable EXCEPT ![p] = frames]
          /\ table' = [f \in Frames |-> IF \E v \in DOMAIN frames : frames[v] = f THEN p ELSE table[f]]
          /\ memory' = [f \in Frames |->
                           IF \E v \in DOMAIN frames : frames[v] = f
                             THEN Text[p][CHOOSE v \in DOMAIN frames : frames[v] = f]
                             ELSE memory[f]]
  BY DEF Load
<1>2. /\ currentThread = p /\ stage[p] = "begun"
      /\ Pages[p] <= avFrameNum
      /\ avFrameNum' = avFrameNum - Pages[p]
      /\ pageRegister' = p
      /\ stage' = [stage EXCEPT ![p] = "user"]
      /\ UNCHANGED <<currentThread, fileVars, result, stopped, calls>>
  BY DEF Load, Starts, Fits
<1>3. p \in Threads /\ Pages[p] \in Nat \ {0} /\ NumFrames \in Nat /\ p # None
  BY ProgramsAssumption DEF Threads
<1>4. pageTable[p] = << >>
  BY <1>2 DEF IInv, StagesMatch
<1> DEFINE Taken == {frames[v] : v \in 0 .. Pages[p] - 1}
<1>5. Taken \subseteq FreeFrames /\ Taken \subseteq Frames
  BY DEF FreeFrames
<1>6. \A v, u \in 0 .. Pages[p] - 1 : v # u => frames[v] # frames[u]
  <2>1. \A v, u \in 0 .. Pages[p] - 1 : v < u => frames[v] < frames[u]
    BY <1>1 DEF LowestFree
  <2>2. \A v \in 0 .. Pages[p] - 1 : frames[v] \in Int
    BY DEF FreeFrames, Frames
  <2> SUFFICES ASSUME NEW v \in 0 .. Pages[p] - 1, NEW u \in 0 .. Pages[p] - 1, v # u
               PROVE  frames[v] # frames[u]
    OBVIOUS
  <2>3. v < u \/ u < v
    BY <1>3
  <2> QED
    BY <2>1, <2>2, <2>3
<1>7. /\ IsFiniteSet(FreeFrames) /\ Cardinality(FreeFrames) \in Nat
      /\ avFrameNum = Cardinality(FreeFrames) /\ avFrameNum <= NumFrames
  BY <1>3, FreeFramesFinite DEF FreeFrames, IInv, FramesOwnedOnce
<1>8. /\ DOMAIN pageTable' = Threads
      /\ pageTable'[p] = frames
      /\ \A t \in Threads \ {p} : pageTable'[t] = pageTable[t]
  BY <1>1, <1>3 DEF IInv, SpacesTyped
<1>9. table' = [f \in Frames |-> IF f \in Taken THEN p ELSE table[f]]
  BY <1>1
<1>10. FramesOf(p)' = Taken /\ \A t \in Threads \ {p} : FramesOf(t)' = FramesOf(t)
  BY <1>8 DEF FramesOf
<1>11. SpacesTyped'
  <2>1. frames \in [0 .. Pages[p] - 1 -> Frames]
    BY DEF FreeFrames
  <2> QED
    BY <1>2, <1>8, <1>9, <2>1 DEF IInv, SpacesTyped
<1>12. MemoryTyped'
  <2> SUFFICES ASSUME NEW f \in Frames, NEW v \in DOMAIN frames, frames[v] = f
               PROVE  Text[p][CHOOSE u \in DOMAIN frames : frames[u] = f] \in Words
    BY <1>1 DEF IInv, MemoryTyped
  <2> QED
    BY ProgramsAssumption
<1>13. FilesTyped' /\ ThreadsTyped' /\ CountersTyped'
  BY <1>2 DEF IInv, FilesTyped, ThreadsTyped, CountersTyped, fileVars
<1>14. FramesOwnedOnce'
  <2>1. \A t \in Threads : \A v, u \in DOMAIN pageTable'[t] :
            v # u => pageTable'[t][v] # pageTable'[t][u]
    <3> SUFFICES ASSUME NEW t \in Threads
                 PROVE  \A v, u \in DOMAIN pageTable'[t] :
                            v # u => pageTable'[t][v] # pageTable'[t][u]
      OBVIOUS
    <3>1. CASE t = p
      BY <1>6, <1>8, <3>1
    <3>2. CASE t # p
      BY <1>8, <3>2 DEF IInv, FramesOwnedOnce
    <3> QED
      BY <3>1, <3>2
  <2>2. \A f \in Frames, t \in Threads : table'[f] = t <=> f \in FramesOf(t)'
    <3> SUFFICES ASSUME NEW f \in Frames, NEW t \in Threads
                 PROVE  table'[f] = t <=> f \in FramesOf(t)'
      OBVIOUS
    <3>1. /\ table[f] = t <=> f \in FramesOf(t)
          /\ f \in Taken => table[f] = None
          /\ None # t
      BY <1>5, ProgramsAssumption DEF IInv, FramesOwnedOnce, FreeFrames
    <3>2. f \notin FramesOf(p)
      BY <1>4 DEF FramesOf
    <3>3. table[f] # p
      BY <1>3, <3>2 DEF IInv, FramesOwnedOnce
    <3>4. table'[f] = IF f \in Taken THEN p ELSE table[f]
      BY <1>9
    <3>5. CASE t = p
      BY <1>10, <3>3, <3>4, <3>5
    <3>6. CASE t # p
      BY <1>10, <3>1, <3>4, <3>6
    <3> QED
      BY <3>5, <3>6
  <2>3. FreeFrames' = FreeFrames \ Taken
    BY <1>3, <1>9 DEF FreeFrames
  <2>4. Cardinality(FreeFrames \ Taken) = Cardinality(FreeFrames) - Cardinality(FreeFrames \cap Taken)
    BY <1>7, FS_Difference
  <2>5. FreeFrames \cap Taken = Taken
    BY <1>5
  <2>6. IsFiniteSet(0 .. Pages[p] - 1) /\ Cardinality(0 .. Pages[p] - 1) = Pages[p]
    BY <1>3, FS_Interval
  <2>7. Cardinality(Taken) = Pages[p]
    BY <1>6, <2>6, DistinctFrames
  <2>8. avFrameNum' = Cardinality(FreeFrames)'
    BY <1>2, <1>7, <2>3, <2>4, <2>5, <2>7
  <2> QED
    BY <2>1, <2>2, <2>8 DEF FramesOwnedOnce
<1>15. StagesMatch'
  <2>1. \A t \in Threads : stage'[t] = "finished" => t = currentThread'
    BY <1>2 DEF IInv, StagesMatch, ThreadsTyped
  <2>2. /\ pageTable'[p] \in [0 .. Pages[p] - 1 -> Frames]
        /\ Pages[p] <= NumFrames
    BY <1>2, <1>3, <1>7, <1>8 DEF FreeFrames
  <2>3. stage'[p] = "user" /\ \A q \in Programs \ {p} :
            stage'[q] = stage[q] /\ pageTable'[q] = pageTable[q]
    BY <1>2, <1>3, <1>8 DEF IInv, ThreadsTyped, Threads
  <2> QED
    BY <2>1, <2>2, <2>3 DEF IInv, StagesMatch
<1> QED
  BY <1>11, <1>12, <1>13, <1>14, <1>15 DEF IInv

\* A thread that finishes keeps its frames for now.
LEMMA FinishPreserves ==
    ASSUME IInv, NEW t \in Threads, Finish(t) PROVE IInv'
<1>1. /\ currentThread = t /\ stage' = [stage EXCEPT ![t] = "finished"]
      /\ UNCHANGED <<frameVars, spaceVars, memory, currentThread, fileVars, result, stopped, calls>>
  BY DEF Finish
<1>2. SpacesTyped' /\ FilesTyped' /\ MemoryTyped' /\ CountersTyped'
  BY <1>1 DEF IInv, SpacesTyped, FilesTyped, MemoryTyped, CountersTyped, frameVars, spaceVars, fileVars
<1>3. ThreadsTyped'
  BY <1>1 DEF IInv, ThreadsTyped
<1>4. FramesOwnedOnce'
  BY <1>1 DEF IInv, FramesOwnedOnce, FramesOf, FreeFrames, frameVars, spaceVars
<1>5. StagesMatch'
  BY <1>1 DEF IInv, StagesMatch, ThreadsTyped, Threads, spaceVars
<1> QED
  BY <1>2, <1>3, <1>4, <1>5 DEF IInv

-----------------------------------------------------------------------------
(* System calls.                                                           *)

\* A call that leaves threads and address spaces alone preserves what is said of them.
LEMMA SpacesUntouched ==
    ASSUME IInv, UNCHANGED <<frameVars, spaceVars, threadVars>>
    PROVE  /\ SpacesTyped' /\ FramesOwnedOnce' /\ StagesMatch'
           /\ UNCHANGED <<stage, currentThread>>
<1>1. UNCHANGED <<table, avFrameNum, pageTable, pageRegister, stage, currentThread>>
  BY DEF frameVars, spaceVars, threadVars
<1>2. SpacesTyped'
  BY <1>1 DEF IInv, SpacesTyped
<1>3. FramesOwnedOnce'
  BY <1>1 DEF IInv, FramesOwnedOnce, FramesOf, FreeFrames
<1>4. StagesMatch'
  BY <1>1 DEF IInv, StagesMatch
<1> QED
  BY <1>1, <1>2, <1>3, <1>4

\* Even where it is not the program's own, a buffer is inside main memory.
LEMMA BufferInMemory ==
    ASSUME IInv, NEW p \in Programs, Runs(p), NEW v \in 0 .. Pages[p] - 1
    PROVE  v \in Frames /\ Buffer(v) = v /\ memory[v] \in Words
<1>1. Pages[p] <= NumFrames
  BY DEF IInv, StagesMatch, Runs
<1>2. Pages[p] \in Nat /\ NumFrames \in Nat
  BY ProgramsAssumption
<1>3. v \in Frames
  BY <1>1, <1>2 DEF Frames
<1> QED
  BY <1>3 DEF Buffer, IInv, MemoryTyped

\* A call counts itself.
LEMMA CallCounted ==
    ASSUME IInv, NEW p \in Programs, Runs(p)
    PROVE  calls' \in 0 .. MaxCalls
  BY ProgramsAssumption DEF IInv, CountersTyped, Runs

\* Writing a word into a file leaves a sequence of words.
LEMMA WrittenTyped ==
    ASSUME NEW words \in Seq(Words), NEW position \in Nat, NEW w \in Words
    PROVE  WrittenAt(words, position, w) \in Seq(Words)
<1> DEFINE n == IF Len(words) > position THEN Len(words) ELSE position + 1
           f == [k \in 1 .. n |->
                    IF k = position + 1 THEN w ELSE IF k <= Len(words) THEN words[k] ELSE Zero]
<1>1. n \in Nat
  OBVIOUS
<1>2. \A k \in 1 .. n : f[k] \in Words
  BY ProgramsAssumption
<1>3. f \in [1 .. n -> Words]
  BY <1>2
<1>4. f \in Seq(Words)
  BY <1>1, <1>3
<1> QED
  BY <1>4 DEF WrittenAt

\* The file of an open entry exists and has a name.
LEMMA OpenTyped ==
    ASSUME IInv, NEW id, IsOpen(id)
    PROVE  /\ id \in Slots /\ openFile[id] \in Entries
           /\ openFile[id].file \in DOMAIN files
           /\ openFile[id].position \in Nat
           /\ files[openFile[id].file] \in Seq(Words)
<1>1. id \in Slots /\ openFile[id] # None
  BY DEF IsOpen
<1>2. openFile[id] \in Entries
  BY <1>1 DEF IInv, FilesTyped
<1>3. openFile[id].position \in Nat
  BY <1>2 DEF Entries
<1> QED
  BY <1>1, <1>2, <1>3 DEF IInv, FilesTyped

\* Reading or writing moves the position of one entry.
LEMMA AdvancedTyped ==
    ASSUME IInv, NEW id, IsOpen(id), openFile' = Advanced(id)
    PROVE  /\ openFile' \in [Slots -> Entries \cup {None}]
           /\ \A i \in Slots : openFile'[i] # None =>
                  openFile[i] # None /\ openFile'[i].file = openFile[i].file
<1>1. id \in Slots /\ openFile[id] \in Entries /\ openFile[id] # None
  BY OpenTyped DEF IsOpen
<1> DEFINE e == [openFile[id] EXCEPT !.position = @ + 1]
<1>2. e \in Entries /\ e.file = openFile[id].file
  BY <1>1 DEF Entries
<1>3. openFile' = [openFile EXCEPT ![id] = e]
  BY DEF Advanced
<1> QED
  BY <1>1, <1>2, <1>3 DEF IInv, FilesTyped

\* An instruction changes one word of main memory.
LEMMA StorePreserves ==
    ASSUME IInv, NEW p \in Programs, NEW v \in 0 .. Pages[p] - 1, NEW w \in Words, Store(p, v, w)
    PROVE  IInv'
<1>1. /\ Runs(p) /\ memory' = [memory EXCEPT ![Translate(v)] = w]
      /\ UNCHANGED <<frameVars, spaceVars, threadVars, openFile, files, result, stopped>>
  BY DEF Store, fileVars
<1>2. MemoryTyped'
  BY <1>1 DEF IInv, MemoryTyped
<1>3. ThreadsTyped' /\ FilesTyped'
  BY <1>1, SpacesUntouched DEF IInv, ThreadsTyped, FilesTyped
<1>4. CountersTyped'
  BY <1>1, CallCounted DEF IInv, CountersTyped
<1> QED
  BY <1>1, <1>2, <1>3, <1>4, SpacesUntouched DEF IInv

\* The machine halts in a call.
LEMMA HaltPreserves ==
    ASSUME IInv, NEW p \in Programs, Halt(p) PROVE IInv'
<1>1. /\ Runs(p) /\ stopped' = TRUE
      /\ UNCHANGED <<frameVars, spaceVars, memory, threadVars, openFile, files, result>>
  BY DEF Halt, fileVars
<1>2. ThreadsTyped' /\ FilesTyped' /\ MemoryTyped'
  BY <1>1, SpacesUntouched DEF IInv, ThreadsTyped, FilesTyped, MemoryTyped
<1>3. CountersTyped'
  BY <1>1, CallCounted DEF IInv, CountersTyped
<1> QED
  BY <1>1, <1>2, <1>3, SpacesUntouched DEF IInv

\* A file is created, or there is no name.
LEMMA CreatePreserves ==
    ASSUME IInv, NEW p \in Programs, NEW v \in 0 .. Pages[p] - 1, Create(p, v) PROVE IInv'
<1>1. /\ Runs(p)
      /\ UNCHANGED <<frameVars, spaceVars, memory, threadVars, openFile>>
  BY DEF Create, UsesBuffer
<1> DEFINE name == memory[v]
<1>2. Buffer(v) = v /\ name \in Words
  BY <1>1, BufferInMemory
<1>3. \/ name = Zero /\ stopped' = TRUE /\ UNCHANGED <<files, result>>
      \/ name # Zero /\ files' = OpenTruncated(files, name) /\ result' = 1 /\ stopped' = stopped
  BY <1>2 DEF Create
<1>4. MemoryTyped'
  BY <1>1 DEF IInv, MemoryTyped
<1>5. ThreadsTyped'
  BY <1>1, <1>3, SpacesUntouched DEF IInv, ThreadsTyped
<1>6. FilesTyped'
  <2>1. CASE name = Zero
    BY <1>1, <1>3, <2>1 DEF IInv, FilesTyped
  <2>2. CASE name # Zero
    <3>1. << >> \in Seq(Words)
      OBVIOUS
    <3>2. /\ DOMAIN files' = DOMAIN files \cup {name}
          /\ \A w \in DOMAIN files' : files'[w] = IF w = name THEN << >> ELSE files[w]
      BY <1>3, <2>2 DEF OpenTruncated
    <3> QED
      BY <1>1, <1>2, <2>2, <3>1, <3>2 DEF IInv, FilesTyped
  <2> QED
    BY <2>1, <2>2
<1>7. CountersTyped'
  BY <1>1, <1>3, CallCounted DEF IInv, CountersTyped
<1> QED
  BY <1>1, <1>4, <1>5, <1>6, <1>7, SpacesUntouched DEF IInv

\* A file that exists gets an entry.
LEMMA OpenPreserves ==
    ASSUME IInv, NEW p \in Programs, NEW v \in 0 .. Pages[p] - 1, Open(p, v) PROVE IInv'
<1>1. /\ Runs(p)
      /\ UNCHANGED <<frameVars, spaceVars, memory, threadVars, files, stopped>>
  BY DEF Open, UsesBuffer
<1> DEFINE name == memory[v]
<1>2. Buffer(v) = v /\ v \in Frames /\ name \in Words
  BY <1>1, BufferInMemory
<1>3. ThreadsTyped' /\ MemoryTyped'
  BY <1>1, SpacesUntouched DEF IInv, ThreadsTyped, MemoryTyped
<1>4. FilesTyped' /\ CountersTyped'
  <2>1. CASE result' = -1 /\ UNCHANGED openFile
    BY <1>1, <2>1, CallCounted DEF IInv, FilesTyped, CountersTyped
  <2>2. CASE /\ name \in DOMAIN files
             /\ \E avaId \in AvailableId :
                    /\ openFile' = [openFile EXCEPT ![avaId] =
                                      [file |-> name, position |-> 0, name |-> v]]
                    /\ result' = avaId
    <3>1. PICK avaId \in AvailableId :
              /\ openFile' = [openFile EXCEPT ![avaId] =
                                [file |-> name, position |-> 0, name |-> v]]
              /\ result' = avaId
      BY <2>2
    <3>2. avaId \in Slots
      BY DEF AvailableId
    <3>3. name \in Words \ {Zero}
      BY <2>2 DEF IInv, FilesTyped
    <3>4. [file |-> name, position |-> 0, name |-> v] \in Entries
      BY <1>2, <3>3 DEF Entries
    <3>5. FilesTyped'
      BY <1>1, <2>2, <3>1, <3>2, <3>4 DEF IInv, FilesTyped
    <3>6. CountersTyped'
      BY <1>1, <3>1, <3>2, CallCounted DEF IInv, CountersTyped
    <3> QED
      BY <3>5, <3>6
  <2> QED
    BY <1>2, <2>1, <2>2 DEF Open
<1> QED
  BY <1>1, <1>3, <1>4, SpacesUntouched DEF IInv

\* The word goes into the file and the entry moves on.
LEMMA WritePreserves ==
    ASSUME IInv, NEW p \in Programs, NEW v \in 0 .. Pages[p] - 1, NEW id \in Ids, Write(p, v, id)
    PROVE  IInv'
<1>1. /\ Runs(p)
      /\ UNCHANGED <<frameVars, spaceVars, memory, threadVars, stopped>>
  BY DEF Write, UsesBuffer
<1>2. Buffer(v) = v /\ memory[v] \in Words
  BY <1>1, BufferInMemory
<1>3. ThreadsTyped' /\ MemoryTyped'
  BY <1>1, SpacesUntouched DEF IInv, ThreadsTyped, MemoryTyped
<1>4. CountersTyped'
  <2>1. result' \in {-1, 1}
    BY DEF Write
  <2> QED
    BY <1>1, <2>1, CallCounted DEF CountersTyped
<1>5. FilesTyped'
  <2>1. CASE ~ IsOpen(id)
    BY <2>1 DEF Write, fileVars, IInv, FilesTyped
  <2>2. CASE IsOpen(id)
    <3> DEFINE e == openFile[id]
               written == WrittenAt(files[e.file], e.position, memory[v])
    <3>1. openFile' = Advanced(id) /\ files' = [files EXCEPT ![e.file] = written]
      BY <1>2, <2>2 DEF Write
    <3>2. written \in Seq(Words)
      BY <1>2, <2>2, OpenTyped, WrittenTyped
    <3>3. /\ DOMAIN files' = DOMAIN files
          /\ \A w \in DOMAIN files : files'[w] = files[w] \/ files'[w] = written
      BY <3>1
    <3>4. \A w \in DOMAIN files' : w \in Words \ {Zero} /\ files'[w] \in Seq(Words)
      BY <3>2, <3>3 DEF IInv, FilesTyped
    <3> QED
      BY <2>2, <3>1, <3>3, <3>4, AdvancedTyped DEF IInv, FilesTyped
  <2> QED
    BY <2>1, <2>2
<1> QED
  BY <1>1, <1>3, <1>4, <1>5, SpacesUntouched DEF IInv

\* The word comes from the file and the entry moves on.
LEMMA ReadPreserves ==
    ASSUME IInv, NEW p \in Programs, NEW v \in 0 .. Pages[p] - 1, NEW id \in Ids, Read(p, v, id)
    PROVE  IInv'
<1>1. /\ Runs(p)
      /\ UNCHANGED <<frameVars, spaceVars, threadVars, files, stopped>>
  BY DEF Read, UsesBuffer
<1>2. Buffer(v) = v
  BY DEF Buffer
<1>3. ThreadsTyped'
  BY <1>1, SpacesUntouched DEF IInv, ThreadsTyped
<1>4. CountersTyped'
  <2>1. result' \in {-1, 0, 1}
    BY DEF Read
  <2> QED
    BY <1>1, <2>1, CallCounted DEF CountersTyped
<1>5. MemoryTyped' /\ FilesTyped'
  <2>1. CASE UNCHANGED <<memory, openFile>>
    BY <1>1, <2>1 DEF IInv, FilesTyped, MemoryTyped
  <2>2. CASE /\ IsOpen(id) /\ ~ AtEnd(files[openFile[id].file], openFile[id].position)
             /\ openFile' = Advanced(id)
             /\ memory' = [memory EXCEPT ![v] =
                             ReadAt(files[openFile[id].file], openFile[id].position)]
    <3>1. ReadAt(files[openFile[id].file], openFile[id].position) \in Words
      BY <2>2, OpenTyped DEF AtEnd, ReadAt
    <3>2. MemoryTyped'
      BY <2>2, <3>1 DEF IInv, MemoryTyped
    <3>3. FilesTyped'
      BY <1>1, <2>2, AdvancedTyped DEF IInv, FilesTyped
    <3> QED
      BY <3>2, <3>3
  <2> QED
    BY <1>2, <2>1, <2>2 DEF Read
<1> QED
  BY <1>1, <1>3, <1>4, <1>5, SpacesUntouched DEF IInv

\* An entry is freed.
LEMMA ClosePreserves ==
    ASSUME IInv, NEW p \in Programs, NEW id \in Ids, Close(p, id) PROVE IInv'
<1>1. /\ Runs(p)
      /\ UNCHANGED <<frameVars, spaceVars, memory, threadVars, files, stopped>>
  BY DEF Close
<1>2. ThreadsTyped' /\ MemoryTyped'
  BY <1>1, SpacesUntouched DEF IInv, ThreadsTyped, MemoryTyped
<1>3. CountersTyped'
  <2>1. result' \in {-1, 1}
    BY DEF Close
  <2> QED
    BY <1>1, <2>1, CallCounted DEF CountersTyped
<1>4. openFile' = openFile \/ openFile' = [openFile EXCEPT ![id] = None]
  BY DEF Close
<1>5. FilesTyped'
  BY <1>1, <1>4 DEF IInv, FilesTyped
<1> QED
  BY <1>1, <1>2, <1>3, <1>5, SpacesUntouched DEF IInv

-----------------------------------------------------------------------------
(* The theorems.                                                           *)

\* Every step preserves the inductive invariant.
LEMMA StepPreserves == IInv /\ [Next]_vars => IInv'
<1> SUFFICES ASSUME IInv, [Next]_vars PROVE IInv'
  OBVIOUS
<1>1. ASSUME NEW t \in Threads, Dispatch(t) PROVE IInv'
  BY <1>1, DispatchPreserves
<1>2. ASSUME NEW t \in Threads, Finish(t) PROVE IInv'
  BY <1>2, FinishPreserves
<1>3. ASSUME NEW p \in Programs, Load(p) PROVE IInv'
  BY <1>3, LoadPreserves
<1>4. ASSUME NEW p \in Programs, MemoryLimit(p) PROVE IInv'
  <2>1. /\ stopped' = TRUE
        /\ UNCHANGED <<frameVars, spaceVars, memory, threadVars, openFile, files, result, calls>>
    BY <1>4 DEF MemoryLimit, fileVars
  <2>2. FilesTyped' /\ MemoryTyped' /\ ThreadsTyped' /\ CountersTyped'
    BY <2>1, SpacesUntouched DEF IInv, FilesTyped, MemoryTyped, ThreadsTyped, CountersTyped
  <2> QED
    BY <2>1, <2>2, SpacesUntouched DEF IInv
<1>5. ASSUME NEW p \in Programs, Call(p) PROVE IInv'
  BY <1>5, HaltPreserves, StorePreserves, CreatePreserves, OpenPreserves, WritePreserves,
     ReadPreserves, ClosePreserves DEF Call
<1>6. ASSUME UNCHANGED vars PROVE IInv'
  <2>1. UNCHANGED <<frameVars, spaceVars, memory, threadVars, openFile, files, result, stopped, calls>>
    BY <1>6 DEF vars, fileVars
  <2>2. FilesTyped' /\ MemoryTyped' /\ ThreadsTyped' /\ CountersTyped'
    BY <2>1, SpacesUntouched DEF IInv, FilesTyped, MemoryTyped, ThreadsTyped, CountersTyped
  <2> QED
    BY <2>1, <2>2, SpacesUntouched DEF IInv
<1> QED
  BY <1>1, <1>2, <1>3, <1>4, <1>5, <1>6 DEF Next

\* The inductive invariant holds always.
LEMMA Inductive == Spec => []IInv
  BY InitHolds, StepPreserves, PTL DEF Spec

\* Values keep their types; in particular the count of free frames stays between 0
\* and NumPhysPages, and a system call only reads words of main memory, whatever
\* page its program hands over (AddrSpace::~AddrSpace, ExceptionHandler).
THEOREM Typing == Spec => []TypeOK
  BY Inductive, TypesInvariant, PTL

\* Frames have the owner the frame table names and avFrameNum counts the free ones,
\* whatever the sizes of the programs and in whatever order they are loaded, end
\* and are deleted (AddrSpace::Load, AddrSpace::~AddrSpace, CheckToBeDestroyed).
THEOREM FramesAreOwnedOnce == Spec => []FramesOwnedOnce
<1>1. IInv => FramesOwnedOnce
  BY DEF IInv
<1> QED
  BY <1>1, Inductive, PTL

-----------------------------------------------------------------------------
RegisterSet ==
    /\ stage[Main] # "user"
    /\ stage[currentThread] = "user" => pageRegister = currentThread

NamesStay ==
    \A i \in Slots : openFile[i] # None =>
        /\ memory[openFile[i].name] = openFile[i].file
        /\ \E p \in Programs : stage[p] = "user" /\ openFile[i].name \in FramesOf(p)

MInv == IInv /\ RegisterSet /\ NamesStay

-----------------------------------------------------------------------------
(* The invariant.                                                          *)

\* Nothing is open and no program runs at first.
LEMMA InitNames == Init => RegisterSet /\ NamesStay
  BY ProgramsAssumption DEF Init, RegisterSet, NamesStay, Threads

\* A page of a running program is in a frame that is not free, and in no other page.
LEMMA FrameOfPage ==
    ASSUME IInv, NEW p \in Programs, stage[p] = "user", NEW v \in 0 .. Pages[p] - 1
    PROVE  /\ v \in DOMAIN pageTable[p] /\ DOMAIN pageTable[p] = 0 .. Pages[p] - 1
           /\ pageTable[p][v] \in Frames \ FreeFrames
           /\ \A q \in Programs : \A u \in DOMAIN pageTable[q] :
                  pageTable[q][u] = pageTable[p][v] => q = p /\ u = v
<1>1. pageTable[p] \in [0 .. Pages[p] - 1 -> Frames]
  BY DEF IInv, StagesMatch
<1>2. p \in Threads /\ p # None /\ Programs \subseteq Threads
  BY ProgramsAssumption DEF Threads
<1>3. pageTable[p][v] \in FramesOf(p)
  BY <1>1 DEF FramesOf
<1>4. table[pageTable[p][v]] = p
  BY <1>1, <1>2, <1>3 DEF IInv, FramesOwnedOnce
<1>5. ASSUME NEW q \in Programs, NEW u \in DOMAIN pageTable[q], pageTable[q][u] = pageTable[p][v]
      PROVE  q = p /\ u = v
  <2>1. pageTable[p][v] \in FramesOf(q)
    BY <1>5 DEF FramesOf
  <2>2. table[pageTable[p][v]] = q
    BY <1>1, <1>2, <2>1 DEF IInv, FramesOwnedOnce
  <2>3. q = p
    BY <1>4, <2>2
  <2> QED
    BY <1>1, <1>2, <1>5, <2>3 DEF IInv, FramesOwnedOnce
<1> QED
  BY <1>1, <1>2, <1>4, <1>5 DEF FreeFrames

\* Programs are among the threads and are not the main thread.
LEMMA ProgramThreads == Programs \subseteq Threads /\ Main \in Threads \ Programs
  BY ProgramsAssumption DEF Threads

\* Dispatching leaves every running program its memory.
LEMMA DispatchKeeps ==
    ASSUME MInv, NEW t \in Threads, Dispatch(t)
    PROVE  /\ \A p \in Programs :
                  /\ Life(p)' = Life(p)
                  /\ stage'[p] = "user" <=> stage[p] = "user"
                  /\ stage[p] = "user" => pageTable'[p] = pageTable[p]
           /\ UNCHANGED <<memory, openFile, files, result, stopped>>
           /\ RegisterSet'
<1>1. /\ currentThread' = t /\ t # currentThread
      /\ stage[t] \in {"forked", "begun", "user"}
      /\ stage' = [u \in Threads |-> IF u = t /\ stage[t] = "forked" THEN "begun"
                                    ELSE IF stage[u] = "finished" THEN "deleted" ELSE stage[u]]
      /\ UNCHANGED <<memory, openFile, files, result, stopped>>
      /\ CheckToBeDestroyed
      /\ pageRegister' = RestoreState(t)
  BY DEF Dispatch, fileVars
<1>2. ASSUME NEW p \in Programs
      PROVE  /\ Life(p)' = Life(p)
             /\ stage'[p] = "user" <=> stage[p] = "user"
             /\ stage[p] = "user" => pageTable'[p] = pageTable[p]
  <2>1. p \in Threads
    BY ProgramThreads
  <2>2. stage'[p] = IF p = t /\ stage[t] = "forked" THEN "begun"
                    ELSE IF stage[p] = "finished" THEN "deleted" ELSE stage[p]
    BY <1>1, <2>1
  <2>3. stage[p] \in {"forked", "begun", "user", "finished", "deleted"}
    BY <2>1 DEF MInv, IInv, ThreadsTyped
  <2>4. Life(p)' = Life(p)
    BY <2>2, <2>3 DEF Life
  <2>5. stage[p] = "user" => pageTable'[p] = pageTable[p]
    BY <1>1, <2>1, DestroyPreserves DEF MInv
  <2> QED
    BY <2>2, <2>4, <2>5
<1>3. RegisterSet'
  <2>1. stage'[Main] # "user"
    BY <1>1, ProgramThreads DEF MInv, RegisterSet
  <2>2. stage'[t] = "user" => stage[t] = "user" /\ t # Main
    BY <1>1 DEF MInv, RegisterSet
  <2> QED
    BY <1>1, <2>1, <2>2 DEF RegisterSet, RestoreState
<1> QED
  BY <1>1, <1>2, <1>3

\* A name stays where it is if its frame keeps its contents and its owner runs on.
LEMMA NamesKept ==
    ASSUME NamesStay, UNCHANGED openFile,
           \A i \in Slots : openFile[i] # None => memory'[openFile[i].name] = memory[openFile[i].name],
           \A p \in Programs, i \in Slots :
               openFile[i] # None /\ stage[p] = "user" /\ openFile[i].name \in FramesOf(p)
                   => stage'[p] = "user" /\ pageTable'[p] = pageTable[p]
    PROVE  NamesStay'
<1> SUFFICES ASSUME NEW i \in Slots, openFile[i] # None
             PROVE  /\ memory'[openFile[i].name] = openFile[i].file
                    /\ \E p \in Programs : stage'[p] = "user" /\ openFile[i].name \in FramesOf(p)'
  BY DEF NamesStay
<1>1. PICK p \in Programs : stage[p] = "user" /\ openFile[i].name \in FramesOf(p)
  BY DEF NamesStay
<1>2. stage'[p] = "user" /\ pageTable'[p] = pageTable[p]
  BY <1>1
<1>3. FramesOf(p)' = FramesOf(p)
  BY <1>2 DEF FramesOf
<1> QED
  BY <1>1, <1>2, <1>3 DEF NamesStay

\* A running program uses its own page table.
LEMMA OwnPages ==
    ASSUME MInv, NEW p \in Programs, Runs(p), NEW v \in 0 .. Pages[p] - 1
    PROVE  /\ stage[p] = "user" /\ currentThread = p
           /\ Translate(v) = pageTable[p][v]
           /\ Translate(v) \in FramesOf(p)
           /\ Translate(v) \in Frames
<1>1. stage[p] = "user" /\ currentThread = p
  BY DEF Runs
<1>2. Translate(v) = pageTable[p][v]
  BY <1>1 DEF MInv, RegisterSet, Translate
<1>3. v \in DOMAIN pageTable[p] /\ pageTable[p][v] \in Frames
  BY <1>1, FrameOfPage DEF MInv
<1> QED
  BY <1>1, <1>2, <1>3 DEF FramesOf

\* A call that changes neither threads nor address spaces leaves the names where
\* they are if it leaves their frames and their entries alone.
LEMMA CallKeepsNames ==
    ASSUME MInv, UNCHANGED <<frameVars, spaceVars, threadVars>>,
           \A i \in Slots : openFile'[i] # None =>
               /\ openFile[i] # None
               /\ openFile'[i].file = openFile[i].file /\ openFile'[i].name = openFile[i].name
               /\ memory'[openFile[i].name] = memory[openFile[i].name]
    PROVE  RegisterSet' /\ NamesStay'
<1>1. UNCHANGED <<pageTable, pageRegister, stage, currentThread>>
  BY DEF spaceVars, threadVars
<1>2. RegisterSet'
  BY <1>1 DEF MInv, RegisterSet
<1>3. NamesStay'
  BY <1>1 DEF MInv, NamesStay, FramesOf
<1> QED
  BY <1>2, <1>3

\* The entry keeps its name when it moves on.
LEMMA AdvancedKeeps ==
    ASSUME IInv, NEW id, IsOpen(id), openFile' = Advanced(id)
    PROVE  \A i \in Slots : openFile'[i] # None =>
               /\ openFile[i] # None
               /\ openFile'[i].file = openFile[i].file /\ openFile'[i].name = openFile[i].name
<1>1. id \in Slots /\ openFile[id] \in Entries /\ openFile[id] # None
  BY OpenTyped DEF IsOpen
<1> DEFINE e == [openFile[id] EXCEPT !.position = @ + 1]
<1>2. e.file = openFile[id].file /\ e.name = openFile[id].name
  BY <1>1 DEF Entries
<1>3. openFile' = [openFile EXCEPT ![id] = e]
  BY DEF Advanced
<1> HIDE DEF e
<1> QED
  BY <1>1, <1>2, <1>3 DEF IInv, FilesTyped

\* Every call of a careful program leaves the names where they are.
LEMMA StoreKeeps ==
    ASSUME MInv, Careful, NEW p \in Programs, NEW v \in 0 .. Pages[p] - 1, NEW w, Store(p, v, w)
    PROVE  RegisterSet' /\ NamesStay'
<1>1. /\ NameStays(Translate(v)) /\ memory' = [memory EXCEPT ![Translate(v)] = w]
      /\ UNCHANGED <<frameVars, spaceVars, threadVars, openFile>>
  BY DEF Store, fileVars
<1>2. \A i \in Slots : openFile[i] # None => openFile[i].name # Translate(v)
  BY <1>1 DEF NameStays
<1>3. \A i \in Slots : openFile[i] # None => memory'[openFile[i].name] = memory[openFile[i].name]
  BY <1>1, <1>2, OpenTyped DEF MInv, IInv, MemoryTyped, IsOpen, Entries
<1> QED
  BY <1>1, <1>3, CallKeepsNames

\* The new entry's name is in a page of the program that opens the file.
LEMMA OpenKeeps ==
    ASSUME MInv, Careful, NEW p \in Programs, NEW v \in 0 .. Pages[p] - 1, Open(p, v)
    PROVE  RegisterSet' /\ NamesStay'
<1>1. /\ Runs(p) /\ Translate(v) = v /\ Buffer(v) = v
      /\ UNCHANGED <<frameVars, spaceVars, memory, threadVars>>
  BY DEF Open, UsesBuffer, Buffer
<1>2. CASE UNCHANGED openFile
  BY <1>1, <1>2, CallKeepsNames
<1>3. CASE \E avaId \in Slots : openFile' = [openFile EXCEPT ![avaId] =
                                     [file |-> memory[v], position |-> 0, name |-> v]]
  <2>1. PICK avaId \in Slots : openFile' = [openFile EXCEPT ![avaId] =
                                   [file |-> memory[v], position |-> 0, name |-> v]]
    BY <1>3
  <2>2. stage[p] = "user" /\ v \in FramesOf(p)
    BY <1>1, OwnPages
  <2>3. UNCHANGED <<pageTable, pageRegister, stage, currentThread, memory>>
    BY <1>1 DEF spaceVars, threadVars
  <2>4. RegisterSet'
    BY <2>3 DEF MInv, RegisterSet
  <2>5. NamesStay'
    BY <2>1, <2>2, <2>3 DEF MInv, IInv, FilesTyped, NamesStay, FramesOf
  <2> QED
    BY <2>4, <2>5
<1> QED
  BY <1>1, <1>2, <1>3 DEF Open, AvailableId

\* Writing changes the position of an entry only.
LEMMA WriteKeeps ==
    ASSUME MInv, NEW p \in Programs, NEW v, NEW id, Write(p, v, id)
    PROVE  RegisterSet' /\ NamesStay'
<1>1. UNCHANGED <<frameVars, spaceVars, memory, threadVars>>
  BY DEF Write
<1>2. openFile' = openFile \/ (IsOpen(id) /\ openFile' = Advanced(id))
  BY DEF Write, fileVars
<1> QED
  BY <1>1, <1>2, AdvancedKeeps, CallKeepsNames DEF MInv

\* Reading overwrites no name of an open file.
LEMMA ReadKeeps ==
    ASSUME MInv, Careful, NEW p \in Programs, NEW v \in 0 .. Pages[p] - 1, NEW id, Read(p, v, id)
    PROVE  RegisterSet' /\ NamesStay'
<1>1. /\ NameStays(v) /\ UNCHANGED <<frameVars, spaceVars, threadVars>>
  BY DEF Read, Buffer
<1>2. \A i \in Slots : openFile[i] # None => openFile[i].name # v
  BY <1>1 DEF NameStays
<1>3. \/ UNCHANGED <<memory, openFile>>
      \/ /\ IsOpen(id) /\ openFile' = Advanced(id)
         /\ memory' = [memory EXCEPT ![v] = ReadAt(files[openFile[id].file], openFile[id].position)]
  BY DEF Read, Buffer
<1>4. \A i \in Slots : openFile[i] # None => memory'[openFile[i].name] = memory[openFile[i].name]
  BY <1>2, <1>3, OpenTyped DEF MInv, IInv, MemoryTyped, IsOpen, Entries
<1> QED
  BY <1>1, <1>3, <1>4, AdvancedKeeps, CallKeepsNames DEF MInv

\* Closing forgets the entry and its name.
LEMMA CloseKeeps ==
    ASSUME MInv, NEW p \in Programs, NEW id, Close(p, id)
    PROVE  RegisterSet' /\ NamesStay'
<1>1. UNCHANGED <<frameVars, spaceVars, memory, threadVars>>
  BY DEF Close
<1>2. openFile' = openFile \/ openFile' = [openFile EXCEPT ![id] = None]
  BY DEF Close
<1> QED
  BY <1>1, <1>2, CallKeepsNames DEF MInv, IInv, FilesTyped

\* A program gets frames in which no name is.
LEMMA LoadKeeps ==
    ASSUME MInv, NEW p \in Programs, Load(p)
    PROVE  RegisterSet' /\ NamesStay'
<1>1. PICK frames \in [0 .. Pages[p] - 1 -> FreeFrames] :
          /\ pageTable' = [pageTable EXCEPT ![p] = frames]
          /\ memory' = [f \in Frames |->
                           IF \E v \in DOMAIN frames : frames[v] = f
                             THEN Text[p][CHOOSE v \in DOMAIN frames : frames[v] = f]
                             ELSE memory[f]]
  BY DEF Load
<1>2. /\ currentThread = p /\ stage[p] = "begun" /\ pageRegister' = p
      /\ stage' = [stage EXCEPT ![p] = "user"]
      /\ UNCHANGED <<currentThread, openFile>>
  BY DEF Load, Starts, fileVars
<1>3. RegisterSet'
  BY <1>2, ProgramThreads DEF MInv, RegisterSet, IInv, ThreadsTyped
<1>4. ASSUME NEW i \in Slots, openFile[i] # None
      PROVE  memory'[openFile[i].name] = memory[openFile[i].name]
  <2>1. PICK q \in Programs : stage[q] = "user" /\ openFile[i].name \in FramesOf(q)
    BY <1>4 DEF MInv, NamesStay
  <2>2. openFile[i].name \in Frames
    BY <1>4, OpenTyped DEF MInv, IsOpen, Entries
  <2>3. openFile[i].name \notin FreeFrames
    BY <2>1, <2>2, FramesCounted, ProgramThreads DEF MInv
  <2> QED
    BY <1>1, <2>2, <2>3
<1>5. \A q \in Programs : stage[q] = "user" => stage'[q] = "user" /\ pageTable'[q] = pageTable[q]
  BY <1>1, <1>2, ProgramThreads DEF MInv, IInv, ThreadsTyped, SpacesTyped
<1>6. NamesStay'
  BY <1>2, <1>4, <1>5, NamesKept DEF MInv
<1> QED
  BY <1>3, <1>6

\* A careful program does not end with the name of an open file in its memory.
LEMMA FinishKeeps ==
    ASSUME MInv, Careful, NEW t \in Threads, Finish(t)
    PROVE  RegisterSet' /\ NamesStay'
<1>1. /\ currentThread = t /\ stage' = [stage EXCEPT ![t] = "finished"]
      /\ \A f \in FramesOf(t) : NameStays(f)
      /\ UNCHANGED <<pageTable, pageRegister, memory, currentThread, openFile>>
  BY DEF Finish, spaceVars, fileVars
<1>2. RegisterSet'
  BY <1>1, ProgramThreads DEF MInv, RegisterSet, IInv, ThreadsTyped
<1>3. \A p \in Programs, i \in Slots :
          openFile[i] # None /\ openFile[i].name \in FramesOf(p) => p # t
  BY <1>1 DEF NameStays
<1>4. NamesStay'
  BY <1>1, <1>3, ProgramThreads, NamesKept DEF MInv, IInv, ThreadsTyped
<1> QED
  BY <1>2, <1>4

\* A thread that is dispatched moves no name.
LEMMA DispatchKeepsNames ==
    ASSUME MInv, NEW t \in Threads, Dispatch(t)
    PROVE  RegisterSet' /\ NamesStay'
  BY DispatchKeeps, NamesKept DEF MInv

\* Every step of careful programs preserves the invariant.
LEMMA StepKeeps == ASSUME Careful PROVE MInv /\ [Next]_vars => MInv'
<1> SUFFICES ASSUME MInv, [Next]_vars PROVE RegisterSet' /\ NamesStay'
  BY StepPreserves DEF MInv
<1>1. ASSUME NEW p \in Programs, Call(p) PROVE RegisterSet' /\ NamesStay'
  <2>1. ASSUME Halt(p) PROVE RegisterSet' /\ NamesStay'
    BY <2>1, CallKeepsNames DEF Halt, fileVars
  <2>2. ASSUME NEW v, Create(p, v) PROVE RegisterSet' /\ NamesStay'
    BY <2>2, CallKeepsNames DEF Create
  <2> QED
    BY <1>1, <2>1, <2>2, StoreKeeps, OpenKeeps, WriteKeeps, ReadKeeps, CloseKeeps DEF Call
<1>2. ASSUME NEW p \in Programs, MemoryLimit(p) PROVE RegisterSet' /\ NamesStay'
  BY <1>2, CallKeepsNames DEF MemoryLimit, fileVars
<1>3. ASSUME UNCHANGED vars PROVE RegisterSet' /\ NamesStay'
  BY <1>3, CallKeepsNames DEF vars, fileVars
<1> QED
  BY <1>1, <1>2, <1>3, LoadKeeps, FinishKeeps, DispatchKeepsNames DEF Next

-----------------------------------------------------------------------------
(* The refinement.                                                         *)

\* What UserMachine sees does not change when no program does.
LEMMA ViewKept ==
    ASSUME UNCHANGED <<memory, openFile, files, result, stopped>>,
           \A p \in Programs : /\ Life(p)' = Life(p)
                               /\ stage'[p] = "user" <=> stage[p] = "user"
                               /\ stage[p] = "user" => pageTable'[p] = pageTable[p]
    PROVE  UNCHANGED <<life, image, opened, files, result, stopped>>
<1>1. life' = life
  BY DEF life
<1>2. image' = image
  BY DEF image, Image
<1>3. opened' = opened
  BY DEF opened, Opened
<1> QED
  BY <1>1, <1>2, <1>3

\* A call leaves the programs running and their pages where they are.
LEMMA CallView ==
    ASSUME UNCHANGED <<frameVars, spaceVars, threadVars>>
    PROVE  /\ life' = life
           /\ UNCHANGED <<stage, pageTable>>
           /\ memory' = memory => image' = image
           /\ openFile' = openFile => opened' = opened
<1>1. UNCHANGED <<stage, pageTable>>
  BY DEF spaceVars, threadVars
<1>2. life' = life
  BY <1>1 DEF life, Life
<1>3. memory' = memory => image' = image
  BY <1>1 DEF image, Image
<1>4. openFile' = openFile => opened' = opened
  BY DEF opened, Opened
<1> QED
  BY <1>1, <1>2, <1>3, <1>4

\* A word that a program's page gets is seen there and nowhere else.
LEMMA ImageChanged ==
    ASSUME IInv, NEW p \in Programs, stage[p] = "user", NEW v \in 0 .. Pages[p] - 1, NEW w,
           UNCHANGED <<stage, pageTable>>,
           memory' = [memory EXCEPT ![pageTable[p][v]] = w]
    PROVE  image' = [image EXCEPT ![p][v] = w]
<1>1. /\ v \in DOMAIN pageTable[p]
      /\ pageTable[p][v] \in Frames
      /\ \A q \in Programs : \A u \in DOMAIN pageTable[q] :
             pageTable[q][u] = pageTable[p][v] => q = p /\ u = v
  BY FrameOfPage
<1>2. \A q \in Programs : stage[q] = "user" =>
          \A u \in DOMAIN pageTable[q] : pageTable[q][u] \in Frames
  BY DEF IInv, StagesMatch
<1>3. \A f \in Frames : memory'[f] = IF f = pageTable[p][v] THEN w ELSE memory[f]
  BY <1>1 DEF IInv, MemoryTyped
<1>4. ASSUME NEW q \in Programs, q # p PROVE Image(q)' = Image(q)
  <2>1. CASE stage[q] = "user"
    <3>1. \A u \in DOMAIN pageTable[q] : memory'[pageTable[q][u]] = memory[pageTable[q][u]]
      BY <1>1, <1>2, <1>3, <1>4, <2>1
    <3> QED
      BY <2>1, <3>1 DEF Image
  <2>2. CASE stage[q] # "user"
    BY <2>2 DEF Image
  <2> QED
    BY <2>1, <2>2
<1>5. Image(p)' = [Image(p) EXCEPT ![v] = w]
  <2>1. \A u \in DOMAIN pageTable[p] :
            memory'[pageTable[p][u]] = IF u = v THEN w ELSE memory[pageTable[p][u]]
    BY <1>1, <1>2, <1>3
  <2>2. /\ Image(p) = [u \in DOMAIN pageTable[p] |-> memory[pageTable[p][u]]]
        /\ Image(p)' = [u \in DOMAIN pageTable[p] |-> memory'[pageTable[p][u]]]
    BY DEF Image
  <2> QED
    BY <1>1, <2>1, <2>2
<1>6. /\ image = [q \in Programs |-> Image(q)]
      /\ image' = [q \in Programs |-> Image(q)']
  BY DEF image
<1> HIDE DEF image, Image
<1> QED
  BY <1>4, <1>5, <1>6

\* What a running program has in a page of which it hands the address to a call.
LEMMA BufferSeen ==
    ASSUME MInv, Careful, NEW p \in Programs, NEW v \in 0 .. Pages[p] - 1, UsesBuffer(p, v)
    PROVE  /\ Runs(p) /\ stage[p] = "user" /\ life[p] = "running"
           /\ Buffer(v) = v /\ pageTable[p][v] = v
           /\ image[p][v] = memory[v] /\ memory[v] \in Words /\ v \in Frames
<1>1. Runs(p) /\ Translate(v) = Buffer(v) /\ Buffer(v) = v
  BY DEF UsesBuffer, Buffer
<1>2. stage[p] = "user" /\ pageTable[p][v] = v
  BY <1>1, OwnPages
<1>3. v \in DOMAIN pageTable[p]
  BY <1>2, FrameOfPage DEF MInv
<1>4. image[p][v] = memory[v]
  BY <1>2, <1>3 DEF image, Image
<1>5. life[p] = "running"
  BY <1>2 DEF life, Life
<1> QED
  BY <1>1, <1>2, <1>4, <1>5, BufferInMemory DEF MInv

\* An entry is seen with its file and its position.
LEMMA EntrySeen ==
    ASSUME IInv, NEW id
    PROVE  /\ IsOpen(id) <=> Machine!IsOpen(id)
           /\ id \in Slots => (opened[id] = None <=> openFile[id] = None)
           /\ IsOpen(id) => /\ opened[id] = [file |-> openFile[id].file,
                                            position |-> openFile[id].position]
                            /\ opened[id].file = openFile[id].file
                            /\ opened[id].position = openFile[id].position
<1>1. ASSUME IsOpen(id)
      PROVE  [file |-> openFile[id].file, position |-> openFile[id].position] # None
  <2>1. openFile[id] \in Entries
    BY <1>1, OpenTyped
  <2>2. [file |-> openFile[id].file, position |-> openFile[id].position]
            \in [file : Words, position : Nat]
    BY <2>1 DEF Entries
  <2> QED
    BY <2>2, ProgramsAssumption
<1>2. id \in Slots => (opened[id] = None <=> openFile[id] = None)
  BY <1>1 DEF opened, Opened, IsOpen
<1>3. IsOpen(id) => opened[id] = [file |-> openFile[id].file, position |-> openFile[id].position]
  BY DEF opened, Opened, IsOpen
<1>4. IsOpen(id) <=> Machine!IsOpen(id)
  BY <1>2 DEF IsOpen, Machine!IsOpen, Machine!Slots, Slots, opened
<1> QED
  BY <1>2, <1>3, <1>4

\* The position of an entry is seen to move on.
LEMMA AdvanceSeen ==
    ASSUME IInv, NEW id, IsOpen(id), openFile' = Advanced(id)
    PROVE  opened' = Machine!Moved(id)
<1>1. id \in Slots /\ openFile[id] \in Entries /\ openFile[id] # None /\ DOMAIN openFile = Slots
  BY OpenTyped DEF IsOpen, IInv, FilesTyped
<1> DEFINE e == [openFile[id] EXCEPT !.position = @ + 1]
<1>2. /\ e \in Entries
      /\ e.file = openFile[id].file /\ e.position = openFile[id].position + 1
  BY <1>1 DEF Entries
<1>3. openFile' = [openFile EXCEPT ![id] = e]
  BY DEF Advanced
<1>4. e # None
  BY <1>2, ProgramsAssumption DEF Entries
<1> DEFINE o == [file |-> openFile[id].file, position |-> openFile[id].position]
<1>5. opened[id] = o
  BY EntrySeen
<1>6. [opened[id] EXCEPT !.position = @ + 1] =
          [file |-> openFile[id].file, position |-> openFile[id].position + 1]
  BY <1>5
<1> HIDE DEF e
<1>7. opened' = [i \in Slots |-> IF i = id
                   THEN [file |-> openFile[id].file, position |-> openFile[id].position + 1]
                   ELSE Opened(i)]
  BY <1>1, <1>2, <1>3, <1>4 DEF opened, Opened
<1> DEFINE m == [opened[id] EXCEPT !.position = @ + 1]
<1>8. opened' = [opened EXCEPT ![id] = m]
  BY <1>1, <1>6, <1>7 DEF opened
<1> QED
  BY <1>8 DEF Machine!Moved, opened

\* Loading a program is starting it: its pages are what its executable says.
LEMMA LoadStarts ==
    ASSUME MInv, NEW p \in Programs, Load(p) PROVE Machine!Start(p)
<1>1. PICK frames \in [0 .. Pages[p] - 1 -> FreeFrames] :
          /\ LowestFree(frames)
          /\ pageTable' = [pageTable EXCEPT ![p] = frames]
          /\ memory' = [f \in Frames |->
                           IF \E v \in DOMAIN frames : frames[v] = f
                             THEN Text[p][CHOOSE v \in DOMAIN frames : frames[v] = f]
                             ELSE memory[f]]
  BY DEF Load
<1>2. /\ stage[p] = "begun" /\ p \in Executables
      /\ stage' = [stage EXCEPT ![p] = "user"]
      /\ UNCHANGED <<openFile, files, result, stopped>>
  BY DEF Load, Starts, fileVars
<1>3. /\ Programs \subseteq Threads
      /\ stage'[p] = "user" /\ pageTable'[p] = frames
      /\ \A q \in Programs \ {p} : stage'[q] = stage[q] /\ pageTable'[q] = pageTable[q]
  BY <1>1, <1>2, ProgramThreads DEF MInv, IInv, ThreadsTyped, SpacesTyped
<1>4. Image(p)' = Text[p]
  <2>1. \A v, u \in 0 .. Pages[p] - 1 : frames[v] = frames[u] => v = u
    <3>1. \A v, u \in 0 .. Pages[p] - 1 : v < u => frames[v] < frames[u]
      BY <1>1 DEF LowestFree
    <3>2. \A v \in 0 .. Pages[p] - 1 : frames[v] \in Int
      BY DEF FreeFrames, Frames
    <3>3. Pages[p] \in Nat
      BY ProgramsAssumption
    <3> SUFFICES ASSUME NEW v \in 0 .. Pages[p] - 1, NEW u \in 0 .. Pages[p] - 1, v # u
                 PROVE  frames[v] # frames[u]
      OBVIOUS
    <3>4. v < u \/ u < v
      BY <3>3
    <3> QED
      BY <3>1, <3>2, <3>4
  <2>2. ASSUME NEW v \in 0 .. Pages[p] - 1 PROVE memory'[frames[v]] = Text[p][v]
    <3>1. frames[v] \in Frames
      BY DEF FreeFrames
    <3>2. (CHOOSE u \in DOMAIN frames : frames[u] = frames[v]) = v
      BY <2>1
    <3> QED
      BY <1>1, <3>1, <3>2
  <2>3. Image(p)' = [v \in 0 .. Pages[p] - 1 |-> memory'[frames[v]]]
    BY <1>3 DEF Image
  <2>4. Text[p] = [v \in 0 .. Pages[p] - 1 |-> Text[p][v]]
    BY ProgramsAssumption
  <2> QED
    BY <2>2, <2>3, <2>4
<1>5. ASSUME NEW q \in Programs, q # p PROVE Image(q)' = Image(q)
  <2>1. CASE stage[q] = "user"
    <3>1. \A v \in DOMAIN pageTable[q] : pageTable[q][v] \in Frames \ FreeFrames
      BY <2>1, FrameOfPage DEF MInv, IInv, StagesMatch
    <3>2. \A v \in DOMAIN pageTable[q] : memory'[pageTable[q][v]] = memory[pageTable[q][v]]
      BY <1>1, <3>1
    <3> QED
      BY <1>3, <1>5, <2>1, <3>2 DEF Image
  <2>2. CASE stage[q] # "user"
    BY <1>3, <1>5, <2>2 DEF Image
  <2> QED
    BY <2>1, <2>2
<1>6. image' = [image EXCEPT ![p] = Text[p]]
  BY <1>4, <1>5 DEF image
<1>7. life[p] = "waiting" /\ life' = [life EXCEPT ![p] = "running"]
  BY <1>2, <1>3 DEF life, Life
<1>8. opened' = opened
  BY <1>2 DEF opened, Opened
<1> QED
  BY <1>2, <1>6, <1>7, <1>8 DEF Machine!Start

\* As many frames are in use as the running programs have pages, when the thread
\* that runs is none of them and has not finished.
LEMMA PagesInUse ==
    ASSUME MInv, stage[currentThread] = "begun"
    PROVE  Cardinality(Machine!PagesOf(Machine!InUse)) = NumFrames - Cardinality(FreeFrames)
<1> DEFINE Used == Frames \ FreeFrames
           S == Machine!PagesOf(Machine!InUse)
           page == [f \in Used |-> <<table[f], CHOOSE v \in DOMAIN pageTable[table[f]] :
                                                  pageTable[table[f]][v] = f>>]
<1>1. Machine!InUse = {q \in Programs : stage[q] = "user"}
  BY DEF Machine!InUse, life, Life
<1>2. \A x : x \in S <=> \E q \in Programs : \E v \in 0 .. Pages[q] - 1 :
                           stage[q] = "user" /\ x = <<q, v>>
  BY <1>1 DEF Machine!PagesOf
<1>3. ASSUME NEW f \in Used
      PROVE  /\ table[f] \in Programs /\ stage[table[f]] = "user"
             /\ \E v \in 0 .. Pages[table[f]] - 1 : pageTable[table[f]][v] = f
             /\ DOMAIN pageTable[table[f]] = 0 .. Pages[table[f]] - 1
  <2>1. table[f] \in Programs
    BY DEF FreeFrames, MInv, IInv, SpacesTyped
  <2>2. f \in FramesOf(table[f])
    BY <2>1, ProgramThreads DEF MInv, IInv, FramesOwnedOnce
  <2>3. pageTable[table[f]] # << >>
    BY <2>2 DEF FramesOf
  <2>4. stage[table[f]] = "user"
    BY <2>1, <2>3, ProgramThreads DEF MInv, IInv, StagesMatch, ThreadsTyped
  <2>5. pageTable[table[f]] \in [0 .. Pages[table[f]] - 1 -> Frames]
    BY <2>1, <2>4 DEF MInv, IInv, StagesMatch
  <2> QED
    BY <2>1, <2>2, <2>4, <2>5 DEF FramesOf
<1>4. ASSUME NEW f \in Used
      PROVE  \E v \in 0 .. Pages[table[f]] - 1 :
                 page[f] = <<table[f], v>> /\ pageTable[table[f]][v] = f
  BY <1>3
<1>5. page \in Injection(Used, S)
  <2>1. \A f \in Used : page[f] \in S
    BY <1>2, <1>3, <1>4
  <2>2. ASSUME NEW f \in Used, NEW g \in Used, page[f] = page[g] PROVE f = g
    <3>1. PICK v : page[f] = <<table[f], v>> /\ pageTable[table[f]][v] = f
      BY <1>4
    <3>2. PICK u : page[g] = <<table[g], u>> /\ pageTable[table[g]][u] = g
      BY <1>4
    <3> HIDE DEF page
    <3>3. <<table[f], v>> = <<table[g], u>>
      BY <2>2, <3>1, <3>2
    <3>4. table[f] = table[g] /\ v = u
      BY <3>3
    <3> QED
      BY <3>1, <3>2, <3>4
  <2> HIDE DEF S
  <2> QED
    BY <2>1, <2>2 DEF Injection, IsInjective
<1>6. page \in Surjection(Used, S)
  <2> SUFFICES ASSUME NEW x \in S PROVE \E f \in Used : page[f] = x
    BY <1>5 DEF Surjection, Injection
  <2>0. PICK q \in Programs : \E v \in 0 .. Pages[q] - 1 : stage[q] = "user" /\ x = <<q, v>>
    BY <1>2
  <2>1. PICK v \in 0 .. Pages[q] - 1 : stage[q] = "user" /\ x = <<q, v>>
    BY <2>0
  <2>2. pageTable[q][v] \in Used /\ v \in DOMAIN pageTable[q]
    BY <2>1, FrameOfPage DEF MInv
  <2>3. table[pageTable[q][v]] = q
    BY <2>2, ProgramThreads DEF MInv, IInv, FramesOwnedOnce, FramesOf
  <2>4. PICK u \in 0 .. Pages[q] - 1 : page[pageTable[q][v]] = <<q, u>>
                                       /\ pageTable[q][u] = pageTable[q][v]
    <3>1. PICK f \in Used : f = pageTable[q][v] /\ table[f] = q
      BY <2>2, <2>3
    <3> QED
      BY <1>4, <3>1
  <2>5. u = v
    <3>1. u \in DOMAIN pageTable[q]
      BY <2>1, FrameOfPage DEF MInv
    <3> QED
      BY <2>1, <2>4, <3>1, FrameOfPage DEF MInv
  <2> QED
    BY <2>1, <2>2, <2>4, <2>5
<1>7. NumFrames \in Nat /\ IsFiniteSet(Frames) /\ Cardinality(Frames) = NumFrames
  <2>1. NumFrames \in Nat
    BY ProgramsAssumption
  <2> QED
    BY <2>1, FS_Interval DEF Frames
<1>8. IsFiniteSet(Used) /\ Cardinality(Used) = NumFrames - Cardinality(FreeFrames)
  <2>1. Frames \cap FreeFrames = FreeFrames
    BY DEF FreeFrames
  <2> QED
    BY <1>7, <2>1, FS_Difference
<1>9. ExistsBijection(Used, S)
  BY <1>5, <1>6 DEF ExistsBijection, Bijection
<1> QED
  BY <1>8, <1>9, FS_Bijection

\* Memory is refused only when the running programs use too much of it.
LEMMA LimitRefuses ==
    ASSUME MInv, NEW p \in Programs, MemoryLimit(p) PROVE Machine!Refuse(p)
<1>1. /\ currentThread = p /\ stage[p] = "begun" /\ p \in Executables /\ ~ Fits(p)
      /\ stopped' = TRUE
      /\ UNCHANGED <<frameVars, spaceVars, memory, threadVars, openFile, files, result>>
  BY DEF MemoryLimit, Starts, fileVars
<1>2. ~ Pages[p] <= Cardinality(FreeFrames)
  BY <1>1 DEF Fits, MInv, IInv, FramesOwnedOnce
<1>3. Cardinality(Machine!PagesOf(Machine!InUse)) = NumFrames - Cardinality(FreeFrames)
  BY <1>1, PagesInUse
<1>4. NumFrames \in Nat /\ Pages[p] \in Nat /\ Cardinality(FreeFrames) \in Nat
  BY ProgramsAssumption, FreeFramesFinite DEF FreeFrames
<1>5. Cardinality(Machine!PagesOf(Machine!InUse)) + Pages[p] > NumFrames
  BY <1>2, <1>3, <1>4
<1>6. life[p] = "waiting"
  BY <1>1 DEF life, Life
<1>7. life' = life /\ image' = image /\ opened' = opened /\ files' = files /\ result' = result
  BY <1>1, CallView
<1>8. p \in Executables /\ stopped' = TRUE
  BY <1>1
<1>9. Machine!Cardinality(Machine!PagesOf(Machine!InUse)) = Cardinality(Machine!PagesOf(Machine!InUse))
  BY DEF Machine!Cardinality, Cardinality
<1> QED
  BY <1>5, <1>6, <1>7, <1>8, <1>9 DEF Machine!Refuse

\* A program that finishes ends; UserMachine does not see the main thread.
LEMMA FinishEnds ==
    ASSUME MInv, NEW t \in Threads, Finish(t)
    PROVE  \/ t \in Programs /\ Machine!End(t)
           \/ UNCHANGED Machine!vars
<1>1. /\ stage[t] = "user" \/ (stage[t] = "begun" /\ t \notin Executables)
      /\ stage' = [stage EXCEPT ![t] = "finished"]
      /\ UNCHANGED <<pageTable, memory, openFile, files, result, stopped>>
  BY DEF Finish, spaceVars, fileVars
<1>2. opened' = opened
  BY <1>1 DEF opened, Opened
<1>3. stage'[t] = "finished" /\ \A q \in Programs \ {t} : stage'[q] = stage[q]
  BY <1>1, ProgramThreads DEF MInv, IInv, ThreadsTyped
<1>4. CASE t \in Programs
  <2>1. /\ life[t] = "running" \/ (life[t] = "waiting" /\ t \notin Executables)
        /\ life' = [life EXCEPT ![t] = "ended"]
    BY <1>1, <1>3, <1>4 DEF life, Life
  <2>2. image' = [image EXCEPT ![t] = << >>]
    BY <1>1, <1>3, <1>4 DEF image, Image
  <2>3. Machine!End(t)
    BY <1>1, <1>2, <2>1, <2>2 DEF Machine!End
  <2> QED
    BY <1>4, <2>3
<1>5. CASE t \notin Programs
  <2>1. \A q \in Programs : stage'[q] = stage[q]
    BY <1>3, <1>5
  <2>2. life' = life /\ image' = image
    BY <1>1, <2>1 DEF life, Life, image, Image
  <2> QED
    BY <1>1, <1>2, <2>2 DEF Machine!vars
<1> QED
  BY <1>4, <1>5

\* Each call does what UserMachine says.
LEMMA StoreStores ==
    ASSUME MInv, NEW p \in Programs, NEW v \in 0 .. Pages[p] - 1, NEW w \in Words, Store(p, v, w)
    PROVE  Machine!Store(p, v, w)
<1>1. /\ Runs(p) /\ memory' = [memory EXCEPT ![Translate(v)] = w]
      /\ UNCHANGED <<frameVars, spaceVars, threadVars, openFile, files, result, stopped>>
  BY DEF Store, fileVars
<1>2. stage[p] = "user" /\ Translate(v) = pageTable[p][v]
  BY <1>1, OwnPages
<1>3. life' = life /\ opened' = opened /\ UNCHANGED <<stage, pageTable>>
  BY <1>1, CallView
<1>4. image' = [image EXCEPT ![p][v] = w]
  BY <1>1, <1>2, <1>3, ImageChanged DEF MInv
<1>5. life[p] = "running"
  BY <1>2 DEF life, Life
<1> QED
  BY <1>1, <1>3, <1>4, <1>5 DEF Machine!Store

\* A program halts the machine.
LEMMA HaltHalts ==
    ASSUME MInv, NEW p \in Programs, Halt(p) PROVE Machine!Halt(p)
<1>1. /\ Runs(p) /\ stopped' = TRUE
      /\ UNCHANGED <<frameVars, spaceVars, threadVars, memory, openFile, files, result>>
  BY DEF Halt, fileVars
<1>2. life[p] = "running"
  BY <1>1 DEF Runs, life, Life
<1>3. life' = life /\ image' = image /\ opened' = opened
  BY <1>1, CallView
<1> QED
  BY <1>1, <1>2, <1>3 DEF Machine!Halt

\* The file that is created is the one the program names.
LEMMA CreateCreates ==
    ASSUME MInv, Careful, NEW p \in Programs, NEW v \in 0 .. Pages[p] - 1, Create(p, v)
    PROVE  Machine!Create(p, v)
<1>1. /\ UsesBuffer(p, v)
      /\ UNCHANGED <<frameVars, spaceVars, threadVars, memory, openFile>>
  BY DEF Create
<1>2. life[p] = "running" /\ Buffer(v) = v /\ image[p][v] = memory[v]
  BY <1>1, BufferSeen
<1>3. life' = life /\ image' = image /\ opened' = opened
  BY <1>1, CallView
<1>4. IF image[p][v] = Zero
        THEN stopped' = TRUE /\ files' = files /\ result' = result
        ELSE /\ files' = OpenTruncated(files, image[p][v])
             /\ result' = 1
             /\ stopped' = stopped
  BY <1>2 DEF Create
<1> QED
  BY <1>2, <1>3, <1>4 DEF Machine!Create, Machine!OpenTruncated, OpenTruncated

\* The words in memory that the kernel compares a name with are the names of the
\* files that are open.
LEMMA OpenOpens ==
    ASSUME MInv, Careful, NEW p \in Programs, NEW v \in 0 .. Pages[p] - 1, Open(p, v)
    PROVE  Machine!Open(p, v)
<1> DEFINE name == memory[v]
<1>1. /\ UsesBuffer(p, v)
      /\ UNCHANGED <<frameVars, spaceVars, threadVars, memory, files, stopped>>
  BY DEF Open
<1>2. life[p] = "running" /\ Buffer(v) = v /\ image[p][v] = name
  BY <1>1, BufferSeen
<1>3. life' = life /\ image' = image
  BY <1>1, CallView
<1>4. ASSUME NEW i \in Slots
      PROVE  /\ opened[i] = None => openFile[i] = None
             /\ openFile[i] = None => opened[i] = None
             /\ openFile[i] # None => opened[i].file = memory[openFile[i].name]
  BY EntrySeen DEF MInv, NamesStay, IsOpen
<1>5. Machine!Openable(name) <=>
          ~ (NameOpen(name) \/ AvailableId = {} \/ name \notin DOMAIN files)
  <2>1. (\E i \in Slots : opened[i] = None) <=> AvailableId # {}
    BY <1>4 DEF AvailableId
  <2>2. (\A i \in Slots : opened[i] # None => opened[i].file # name) <=> ~ NameOpen(name)
    BY <1>4 DEF NameOpen
  <2>3. Machine!Slots = Slots
    BY DEF Machine!Slots, Slots
  <2> QED
    BY <2>1, <2>2, <2>3 DEF Machine!Openable
<1>6. CASE Machine!Openable(name)
  <2>1. PICK i \in AvailableId :
            /\ openFile' = [openFile EXCEPT ![i] = [file |-> name, position |-> 0, name |-> v]]
            /\ result' = i
    BY <1>2, <1>5, <1>6 DEF Open
  <2>2. i \in Slots /\ opened[i] = None
    <3>1. i \in Slots /\ openFile[i] = None
      BY DEF AvailableId
    <3> QED
      BY <1>4, <3>1
  <2>3. opened' = [opened EXCEPT ![i] = [file |-> name, position |-> 0]]
    <3> DEFINE e == [file |-> name, position |-> 0, name |-> v]
    <3>1. e # None
      <4>1. name \in Words /\ v \in Frames
        BY <1>1, BufferSeen
      <4>2. e \in [file : Words, position : Nat, name : Frames]
        BY <4>1
      <4> QED
        BY <4>2, ProgramsAssumption
    <3>2. e.file = name /\ e.position = 0
      OBVIOUS
    <3>3. openFile' = [openFile EXCEPT ![i] = e] /\ DOMAIN openFile = Slots
      BY <2>1 DEF MInv, IInv, FilesTyped
    <3> HIDE DEF e
    <3> QED
      BY <2>2, <3>1, <3>2, <3>3 DEF opened, Opened
  <2>4. i \in Machine!Slots
    BY <2>2 DEF Machine!Slots, Slots
  <2>5. \E j \in Machine!Slots :
            /\ opened[j] = None
            /\ opened' = [opened EXCEPT ![j] = [file |-> name, position |-> 0]]
            /\ result' = j
    BY <2>1, <2>2, <2>3, <2>4
  <2> QED
    BY <1>1, <1>2, <1>3, <1>6, <2>5 DEF Machine!Open
<1>7. CASE ~ Machine!Openable(name)
  <2>1. result' = -1 /\ openFile' = openFile
    BY <1>2, <1>5, <1>7 DEF Open
  <2>2. opened' = opened
    BY <1>1, <2>1, CallView
  <2> QED
    BY <1>1, <1>2, <1>3, <1>7, <2>1, <2>2 DEF Machine!Open
<1> QED
  BY <1>6, <1>7

\* What is written is what the program has in its buffer.
LEMMA WriteWrites ==
    ASSUME MInv, Careful, NEW p \in Programs, NEW v \in 0 .. Pages[p] - 1, NEW id, Write(p, v, id)
    PROVE  Machine!Write(p, v, id)
<1>1. /\ UsesBuffer(p, v)
      /\ UNCHANGED <<frameVars, spaceVars, threadVars, memory, stopped>>
  BY DEF Write
<1>2. life[p] = "running" /\ Buffer(v) = v /\ image[p][v] = memory[v]
  BY <1>1, BufferSeen
<1>3. life' = life /\ image' = image
  BY <1>1, CallView
<1>4. CASE IsOpen(id)
  <2>1. /\ Machine!IsOpen(id)
        /\ opened[id].file = openFile[id].file /\ opened[id].position = openFile[id].position
    BY <1>4, EntrySeen DEF MInv
  <2>2. /\ openFile[id].position < MaxLength
        /\ files' = [files EXCEPT ![openFile[id].file] =
                        WrittenAt(files[openFile[id].file], openFile[id].position, memory[v])]
        /\ openFile' = Advanced(id) /\ result' = 1
    BY <1>2, <1>4 DEF Write
  <2>3. opened' = Machine!Moved(id)
    BY <1>4, <2>2, AdvanceSeen DEF MInv
  <2>4. /\ opened[id].position < MaxLength
        /\ files' = [files EXCEPT ![opened[id].file] =
                        Machine!WrittenAt(files[opened[id].file], opened[id].position, image[p][v])]
    BY <1>2, <2>1, <2>2 DEF Machine!WrittenAt, WrittenAt
  <2> QED
    BY <1>1, <1>2, <1>3, <2>1, <2>2, <2>3, <2>4 DEF Machine!Write
<1>5. CASE ~ IsOpen(id)
  <2>1. ~ Machine!IsOpen(id)
    BY <1>5, EntrySeen DEF MInv
  <2>2. result' = -1 /\ openFile' = openFile /\ files' = files
    BY <1>5 DEF Write, fileVars
  <2>3. opened' = opened
    BY <1>1, <2>2, CallView
  <2> QED
    BY <1>1, <1>2, <1>3, <2>1, <2>2, <2>3 DEF Machine!Write
<1> QED
  BY <1>4, <1>5

\* What is read is what the program then has in its buffer.
LEMMA ReadReads ==
    ASSUME MInv, Careful, NEW p \in Programs, NEW v \in 0 .. Pages[p] - 1, NEW id, Read(p, v, id)
    PROVE  Machine!Read(p, v, id)
<1>1. /\ UsesBuffer(p, v)
      /\ UNCHANGED <<frameVars, spaceVars, threadVars, files, stopped>>
  BY DEF Read
<1>2. /\ life[p] = "running" /\ stage[p] = "user" /\ Buffer(v) = v /\ pageTable[p][v] = v
  BY <1>1, BufferSeen
<1>3. life' = life /\ UNCHANGED <<stage, pageTable>>
  BY <1>1, CallView
<1>4. CASE ~ IsOpen(id)
  <2>1. ~ Machine!IsOpen(id)
    BY <1>4, EntrySeen DEF MInv
  <2>2. result' = -1 /\ memory' = memory /\ openFile' = openFile
    BY <1>4 DEF Read
  <2>3. image' = image /\ opened' = opened
    BY <1>1, <2>2, CallView
  <2> QED
    BY <1>1, <1>2, <1>3, <2>1, <2>2, <2>3 DEF Machine!Read
<1>5. CASE IsOpen(id)
  <2> DEFINE words == files[openFile[id].file]
             position == openFile[id].position
  <2>1. /\ Machine!IsOpen(id)
        /\ Machine!Contents(id) = words /\ opened[id].position = position
    BY <1>5, EntrySeen DEF MInv, Machine!Contents
  <2>2. /\ Machine!AtEnd(words, position) <=> AtEnd(words, position)
        /\ Machine!ReadAt(words, position) = ReadAt(words, position)
    BY DEF Machine!AtEnd, AtEnd, Machine!ReadAt, ReadAt
  <2>3. CASE AtEnd(words, position)
    <3>1. result' = 0 /\ memory' = memory /\ openFile' = openFile
      BY <1>5, <2>3 DEF Read
    <3>2. image' = image /\ opened' = opened
      BY <1>1, <3>1, CallView
    <3> QED
      BY <1>1, <1>2, <1>3, <2>1, <2>2, <2>3, <3>1, <3>2 DEF Machine!Read
  <2>4. CASE ~ AtEnd(words, position)
    <3>1. /\ memory' = [memory EXCEPT ![pageTable[p][v]] = ReadAt(words, position)]
          /\ openFile' = Advanced(id) /\ result' = 1
      BY <1>2, <1>5, <2>4 DEF Read
    <3>2. image' = [image EXCEPT ![p][v] = ReadAt(words, position)]
      BY <1>2, <1>3, <3>1, ImageChanged DEF MInv
    <3>3. opened' = Machine!Moved(id)
      BY <1>5, <3>1, AdvanceSeen DEF MInv
    <3> QED
      BY <1>1, <1>2, <1>3, <2>1, <2>2, <2>4, <3>1, <3>2, <3>3 DEF Machine!Read
  <2> QED
    BY <2>3, <2>4
<1> QED
  BY <1>4, <1>5

\* A file is closed.
LEMMA CloseCloses ==
    ASSUME MInv, NEW p \in Programs, NEW id, Close(p, id) PROVE Machine!Close(p, id)
<1>1. /\ Runs(p)
      /\ UNCHANGED <<frameVars, spaceVars, threadVars, memory, files, stopped>>
  BY DEF Close
<1>2. life[p] = "running"
  BY <1>1 DEF Runs, life, Life
<1>3. life' = life /\ image' = image
  BY <1>1, CallView
<1>4. CASE IsOpen(id)
  <2>1. openFile' = [openFile EXCEPT ![id] = None] /\ result' = 1
    BY <1>4 DEF Close
  <2>2. opened' = [opened EXCEPT ![id] = None]
    BY <1>4, <2>1 DEF MInv, IInv, FilesTyped, opened, Opened, IsOpen
  <2>3. Machine!IsOpen(id)
    BY <1>4, EntrySeen DEF MInv
  <2> QED
    BY <1>1, <1>2, <1>3, <2>1, <2>2, <2>3 DEF Machine!Close
<1>5. CASE ~ IsOpen(id)
  <2>1. result' = -1 /\ openFile' = openFile
    BY <1>5 DEF Close
  <2>2. opened' = opened /\ ~ Machine!IsOpen(id)
    BY <1>1, <1>5, <2>1, CallView, EntrySeen DEF MInv
  <2> QED
    BY <1>1, <1>2, <1>3, <2>1, <2>2 DEF Machine!Close
<1> QED
  BY <1>4, <1>5

-----------------------------------------------------------------------------
(* The theorem.                                                            *)

\* The kernel starts as the machine does.
LEMMA InitMaps == Init => Machine!Init
<1> SUFFICES ASSUME Init PROVE Machine!Init
  OBVIOUS
<1>1. \A p \in Programs : stage[p] = "forked"
  BY ProgramsAssumption DEF Init, Threads
<1>2. life = [p \in Programs |-> "waiting"] /\ image = [p \in Programs |-> << >>]
  BY <1>1 DEF life, Life, image, Image
<1>3. opened = [i \in Machine!Slots |-> None]
  BY DEF Init, opened, Opened, Machine!Slots, Slots
<1> QED
  BY <1>2, <1>3 DEF Init, Machine!Init

\* Every step of the kernel is a step of the machine or one it does not see.
LEMMA StepMaps == ASSUME Careful PROVE MInv /\ [Next]_vars => [Machine!Next]_(Machine!vars)
<1> SUFFICES ASSUME MInv, [Next]_vars PROVE Machine!Next \/ UNCHANGED Machine!vars
  OBVIOUS
<1>1. CASE UNCHANGED vars
  <2>1. UNCHANGED <<stage, pageTable, memory, openFile, files, result, stopped>>
    BY <1>1 DEF vars, spaceVars, threadVars, fileVars
  <2>2. UNCHANGED <<life, image, opened>>
    BY <2>1 DEF life, Life, image, Image, opened, Opened
  <2> QED
    BY <2>1, <2>2 DEF Machine!vars
<1>2. ASSUME NEW t \in Threads, Dispatch(t) PROVE UNCHANGED Machine!vars
  BY <1>2, DispatchKeeps, ViewKept DEF Machine!vars
<1>3. CASE ~ stopped /\ Next
  <2>1. ASSUME NEW t \in Threads, Finish(t) PROVE Machine!Next \/ UNCHANGED Machine!vars
    BY <1>3, <2>1, FinishEnds DEF Machine!Next
  <2>2. ASSUME NEW p \in Programs, Load(p) PROVE Machine!Next
    BY <1>3, <2>2, LoadStarts DEF Machine!Next
  <2>3. ASSUME NEW p \in Programs, MemoryLimit(p) PROVE Machine!Next
    BY <1>3, <2>3, LimitRefuses DEF Machine!Next
  <2>4. ASSUME NEW p \in Programs, Call(p) PROVE Machine!Next
    <3>1. CASE Halt(p)
      BY <1>3, <3>1, HaltHalts DEF Machine!Next
    <3>2. ASSUME NEW v \in 0 .. Pages[p] - 1, NEW w \in Words, Store(p, v, w) PROVE Machine!Next
      BY <1>3, <3>2, StoreStores DEF Machine!Next
    <3>3. ASSUME NEW v \in 0 .. Pages[p] - 1, Create(p, v) PROVE Machine!Next
      BY <1>3, <3>3, CreateCreates DEF Machine!Next
    <3>4. ASSUME NEW v \in 0 .. Pages[p] - 1, Open(p, v) PROVE Machine!Next
      BY <1>3, <3>4, OpenOpens DEF Machine!Next
    <3>5. ASSUME NEW v \in 0 .. Pages[p] - 1, NEW id \in Ids, Write(p, v, id) PROVE Machine!Next
      BY <1>3, <3>5, WriteWrites DEF Machine!Next, Ids
    <3>6. ASSUME NEW v \in 0 .. Pages[p] - 1, NEW id \in Ids, Read(p, v, id) PROVE Machine!Next
      BY <1>3, <3>6, ReadReads DEF Machine!Next, Ids
    <3>7. ASSUME NEW id \in Ids, Close(p, id) PROVE Machine!Next
      BY <1>3, <3>7, CloseCloses DEF Machine!Next, Ids
    <3> QED
      BY <2>4, <3>1, <3>2, <3>3, <3>4, <3>5, <3>6, <3>7 DEF Call
  <2> QED
    BY <1>2, <1>3, <2>1, <2>2, <2>3, <2>4 DEF Next
<1> QED
  BY <1>1, <1>3 DEF Next

\* Whatever the programs are, if they only hand over buffers whose page has the
\* frame of the same number and leave the names of open files where they are, they
\* live on the machine that the system calls describe: each has its memory to
\* itself, a file is open once, calls return what they should, and memory is refused
\* only for want of it (ExceptionHandler, AddrSpace::Load, FileSystem::OpenAFile).
THEOREM UserMachineImplemented ==
    ASSUME Careful PROVE Spec => ImplementsUserMachine
<1>1. Init => MInv
  BY InitHolds, InitNames DEF MInv
<1>2. MInv /\ [Next]_vars => MInv'
  BY StepKeeps
<1>3. MInv /\ [Next]_vars => [Machine!Next]_(Machine!vars)
  BY StepMaps
<1> QED
  BY <1>1, <1>2, <1>3, InitMaps, PTL DEF Spec, ImplementsUserMachine, Machine!Spec
=============================================================================
