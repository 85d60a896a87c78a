----------------------------- MODULE FileSystem -----------------------------
(***************************************************************************)
(* The file system of NachOS-4.0_MP4 (filesys/filesys.cc, directory.cc,    *)
(* filehdr.cc, pbitmap.cc): a free map, directories in directories, and    *)
(* chained file headers, all on one disk.                                  *)
(*                                                                         *)
(* A call reads what it needs, computes its result in memory and, if it    *)
(* succeeds, writes headers, directories and free map back one after the   *)
(* other.  The variable `writes` holds what it has yet to write; a call    *)
(* that fails writes nothing and is no step.  Calls do not overlap, as     *)
(* filesys.cc assumes; the machine may stop between two writes (ctl-C),    *)
(* and the next run finds what is on the disk.                             *)
(*                                                                         *)
(* A path is the sequence of its names, << >> being "/".  The table of a   *)
(* directory is the set of its entries in use, and is named after the      *)
(* sector of the directory's header.  What is in a file is no part of the  *)
(* state; that it can be read and written is WritesReadBack.               *)
(***************************************************************************)
EXTENDS OpenFile

CONSTANTS
    Names,
    MaxDepth,           \* bound: names in a path
    Sizes,              \* of the files created
    FreeMapFileSize, DirectoryFileSize, NumDirEntries,
    MaxCrashes          \* bound: stops in the middle of a call

FreeMapSector == 0
DirectorySector == 1

ASSUME FileSystemAssumption ==
    /\ NumSectors > DirectorySector
    /\ MaxDepth \in Nat \ {0} /\ MaxCrashes \in Nat
    /\ Sizes \subseteq Nat
    /\ {FreeMapFileSize, DirectoryFileSize, NumDirEntries} \subseteq Nat \ {0}

VARIABLES
    marked,     \* the free map on disk
    header,     \* the file header in each sector
    table,      \* the directory whose header is in each sector
    writes,     \* what the current call still writes
    crashes,
    call,       \* history: the entries the current call is on, what it makes
    completed,  \* history: the files and directories of the calls that returned
    stopped     \* history: the entries a call that never returned was on

disk == <<marked, header, table>>
vars == <<disk, writes, crashes, call, completed, stopped>>

Paths == UNION {[1 .. n -> Names] : n \in 1 .. MaxDepth}
Last(path) == path[Len(path)]
Parent(path) == SubSeq(path, 1, Len(path) - 1)

HeaderWrite(s, hdr) == [to |-> "header", sector |-> s, value |-> hdr]
TableWrite(s, entries) == [to |-> "table", sector |-> s, value |-> entries]
MapWrite(map) == [to |-> "map", value |-> map]

\* An entry is known by the header's sector of its directory and its name.
NoCall == [on |-> {}, makes |-> {}]
Nodes == [isDir : {FALSE}, size : Sizes] \cup [isDir : {TRUE}, size : {DirectoryFileSize}]
Creating(dir, path, isDir, size) ==
    [on |-> {<<dir, Last(path)>>}, makes |-> {<<path, [isDir |-> isDir, size |-> size]>>}]

\* FileHeader::WriteBack: a chain whose first header goes to sector s.
WriteBack(chain, s) ==
    [i \in 1 .. Len(chain) |-> HeaderWrite(IF i = 1 THEN s ELSE chain[i - 1].next, chain[i])]

\* What sector s holds after these writes.
HeaderAfter(ws, s) ==
    LET mine == {i \in 1 .. Len(ws) : ws[i].to = "header" /\ ws[i].sector = s}
    IN  IF mine = {} THEN [numBytes |-> 0, dataSectors |-> << >>, next |-> NoSector]
        ELSE ws[CHOOSE i \in mine : TRUE].value

\* FileSystem(TRUE): the disk as formatted.
Init == LET mapFile == Allocate({FreeMapSector, DirectorySector}, FreeMapFileSize)
            dirFile == Allocate(mapFile.map, DirectoryFileSize)
            headers == WriteBack(mapFile.chain, FreeMapSector)
                       \o WriteBack(dirFile.chain, DirectorySector)
        IN  /\ mapFile.ok /\ dirFile.ok
            /\ marked = dirFile.map
            /\ header = [s \in Sectors |-> HeaderAfter(headers, s)]
            /\ table = [s \in Sectors |-> {}]
            /\ writes = << >> /\ crashes = 0
            /\ call = NoCall /\ completed = {} /\ stopped = {}

\* FileHeader::FetchFrom: the chain of headers that starts in sector s.
FetchFrom(s) ==
    LET from[n \in 0 .. NumSectors] ==
            [t \in Sectors |-> IF header[t].next = NoSector \/ n = 0 THEN <<header[t]>>
                               ELSE <<header[t]>> \o from[n - 1][header[t].next]]
    IN  from[NumSectors][s]

\* Directory::FindIndex: the entries of that name, one at most.
Find(dir, name) == {e \in table[dir] : e.name = name}

\* Directory::GetDirSector, of a path that exists.
GetDirSector(path) ==
    LET at[i \in 0 .. Len(path)] ==
            IF i = 0 THEN DirectorySector
            ELSE (CHOOSE e \in Find(at[i - 1], path[i]) : TRUE).sector
    IN  at[Len(path)]

Entry(path) == CHOOSE e \in Find(GetDirSector(Parent(path)), Last(path)) : TRUE
Exists(path) ==
    \A i \in 1 .. Len(path) :
        \E e \in Find(GetDirSector(SubSeq(path, 1, i - 1)), path[i]) : i < Len(path) => e.isDir
IsDirectory(path) == path # << >> => Exists(path) /\ Entry(path).isDir

\* No entry on the way to the path is in the set.
Avoids(path, entries) ==
    \A i \in 1 .. Len(path) : <<GetDirSector(SubSeq(path, 1, i - 1)), path[i]>> \notin entries
\* Bound of the workload: what a call that never returned has left is not used
\* again.  Nothing is promised of it ("ctl-C ... may corrupt the disk"), and its
\* header may by then be that of another file.
Untouched(path) == Avoids(path, stopped)

\* Mutant: the sector for the header is found but not set.
FindForHeader(map) == map
\* FindAndSet for the header: the map after it.
FindAndSet(map) == map \cup {NthClear(map, 1)}

\* Mutant: an entry is added whatever the directory holds.
AddAnyway(dir, name, sector, isDir) ==
    [ok |-> TRUE,
     entries |-> table[dir] \cup {[name |-> name, sector |-> sector, isDir |-> isDir]}]
\* Directory::Add
Add(dir, name, sector, isDir) ==
    [ok |-> Find(dir, name) = {} /\ Cardinality(table[dir]) < NumDirEntries,
     entries |-> table[dir] \cup {[name |-> name, sector |-> sector, isDir |-> isDir]}]

\* What Create and CreateDirectory compute before they write anything: the name,
\* then a sector for the header, then a place in the directory, then the space.
NewFile(path, size, isDir) ==
    LET dir == GetDirSector(Parent(path))
        sector == NthClear(marked, 1)
        added == Add(dir, Last(path), sector, isDir)
        file == Allocate(FindAndSet(marked), size)
    IN  IF Clear(marked) = {} THEN Failed
        ELSE IF ~ added.ok THEN Failed
        ELSE IF ~ file.ok THEN Failed
        ELSE [ok |-> TRUE, dir |-> dir, sector |-> sector, entries |-> added.entries,
              map |-> file.map, chain |-> file.chain]

\* Mutant: the free map is not written.
CreateWritesNoMap(new) ==
    WriteBack(new.chain, new.sector) \o <<TableWrite(new.dir, new.entries)>>
\* The order in which a created file reaches the disk.
CreateWrites(new) ==
    WriteBack(new.chain, new.sector) \o <<TableWrite(new.dir, new.entries), MapWrite(new.map)>>

\* FileSystem::Create, of a path whose directory exists (it looks a missing one
\* up at index -1).  Its first test compares the whole path with names and never
\* holds; a second file of the name is refused by Add.
Create(path, size) ==
    /\ writes = << >>
    /\ IsDirectory(Parent(path)) /\ Untouched(path)
    /\ LET new == NewFile(path, size, FALSE)
       IN  /\ new.ok
           /\ writes' = CreateWrites(new)
           /\ call' = Creating(new.dir, path, FALSE, size)
    /\ UNCHANGED <<disk, crashes, completed, stopped>>

\* FileSystem::CreateDirectory; the new directory's table comes last.
CreateDirectory(path) ==
    /\ writes = << >>
    /\ IsDirectory(Parent(path)) /\ Untouched(path)
    /\ LET new == NewFile(path, DirectoryFileSize, TRUE)
       IN  /\ new.ok
           /\ writes' = CreateWrites(new) \o <<TableWrite(new.sector, {})>>
           /\ call' = Creating(new.dir, path, TRUE, DirectoryFileSize)
    /\ UNCHANGED <<disk, crashes, completed, stopped>>

\* FileSystem::Remove: the name is looked up in the root only, and the sectors of
\* chained headers stay marked.
Remove(name) ==
    /\ writes = << >>
    /\ Find(DirectorySector, name) # {} /\ Untouched(<<name>>)
    /\ LET sector == GetDirSector(<<name>>)
           freed == DataSectors(FetchFrom(sector)) \cup {sector}
       IN  /\ writes' = <<MapWrite(marked \ freed),
                          TableWrite(DirectorySector, table[DirectorySector] \ Find(DirectorySector, name))>>
           /\ stopped' = {e \in stopped : e[1] # sector}
    /\ call' = [on |-> {<<DirectorySector, name>>}, makes |-> {}]
    /\ completed' = {f \in completed : f[1][1] # name}
    /\ UNCHANGED <<disk, crashes>>

\* The next write of the call; after the last one it returns TRUE.
WriteNext ==
    /\ writes # << >>
    /\ writes' = Tail(writes)
    /\ LET w == Head(writes)
       IN  /\ marked' = IF w.to = "map" THEN w.value ELSE marked
           /\ header' = IF w.to = "header" THEN [header EXCEPT ![w.sector] = w.value] ELSE header
           /\ table' = IF w.to = "table" THEN [table EXCEPT ![w.sector] = w.value] ELSE table
    /\ IF Len(writes) = 1 THEN completed' = completed \cup call.makes /\ call' = NoCall
                          ELSE UNCHANGED <<completed, call>>
    /\ UNCHANGED <<crashes, stopped>>

\* The machine stops before the next write, or in the middle of the free map,
\* whose sectors are written in order.
Crash ==
    /\ crashes < MaxCrashes
    /\ writes # << >>
    /\ crashes' = crashes + 1
    /\ writes' = << >> /\ call' = NoCall
    /\ stopped' = stopped \cup {e \in call.on : Find(e[1], e[2]) # {}}
    /\ IF Head(writes).to = "map"
         THEN \E k \in 0 .. NumSectors :
                 marked' = {s \in Sectors : IF s < k THEN s \in Head(writes).value ELSE s \in marked}
         ELSE UNCHANGED marked
    /\ UNCHANGED <<header, table, completed>>

Next == \/ \E path \in Paths, size \in Sizes : Create(path, size)
        \/ \E path \in Paths : CreateDirectory(path)
        \/ \E name \in Names : Remove(name)
        \/ WriteNext
        \/ Crash

Spec == Init /\ [][Next]_vars
-----------------------------------------------------------------------------
\* The type invariant.
TypeOK ==
    /\ marked \subseteq Sectors
    /\ \A s \in Sectors :
           /\ header[s].numBytes \in 0 .. MaxFileSize
           /\ header[s].next \in Sectors \cup {NoSector}
           /\ \A i \in 1 .. Len(header[s].dataSectors) : header[s].dataSectors[i] \in Sectors
           /\ Len(header[s].dataSectors) = divRoundUp(header[s].numBytes, SectorSize)
           /\ table[s] \subseteq [name : Names, sector : Sectors, isDir : BOOLEAN]
           /\ Cardinality(table[s]) <= NumDirEntries
    /\ crashes \in 0 .. MaxCrashes
    /\ {completed, call.makes} \subseteq SUBSET (Paths \X Nodes)
    /\ {stopped, call.on} \subseteq SUBSET (Sectors \X Names)

Quiescent == writes = << >>
Present == {p \in Paths : Exists(p)}

\* The sectors of the file whose header is in sector s.
ChainSectors(s) ==
    LET chain == FetchFrom(s)
    IN  {s} \cup {chain[i].next : i \in 1 .. Len(chain) - 1} \cup DataSectors(chain)
NumOwned(s) ==
    LET chain == FetchFrom(s)
        blocks[i \in 0 .. Len(chain)] ==
            IF i = 0 THEN 0 ELSE blocks[i - 1] + Len(chain[i].dataSectors)
    IN  Len(chain) + blocks[Len(chain)]

\* Between two calls each sector belongs to one file or directory at most, in one
\* place of it, and is marked in the free map: no sector is handed out twice.
Owners(files) == {FreeMapSector, DirectorySector} \cup {GetDirSector(p) : p \in files}
Separate(files) ==
    /\ \A s \in Owners(files) : /\ ChainSectors(s) \subseteq marked
                                /\ Cardinality(ChainSectors(s)) = NumOwned(s)
    /\ \A s, t \in Owners(files) : s # t => ChainSectors(s) \cap ChainSectors(t) = {}
    /\ \A p, q \in files : GetDirSector(p) = GetDirSector(q) => p = q
SectorsOwnedOnce == Quiescent => Separate(Present)

\* Any range written to a file is what is read there afterwards, and nothing else
\* changed: neither the bytes before and after it in the sectors it shares, nor the
\* rest of the file, nor a sector of another file.  On a disk of which each byte is
\* told from every other.
WritesReadBack ==
    LET old == [s \in Sectors |-> [o \in 0 .. SectorSize - 1 |-> <<s, o>>]]
        from == [k \in 0 .. MaxFileSize |-> <<NoSector, k>>]
    IN  Quiescent =>
        \A p \in Present :
            LET chain == FetchFrom(GetDirSector(p))
                length == FileLength(chain)
                byte(data, o) == ReadAt(chain, data, 1, o)[0]
                before == [o \in 0 .. length - 1 |-> byte(old, o)]
            IN  /\ \A o, u \in 0 .. length - 1 : o # u => before[o] # before[u]
                /\ \A position \in 0 .. length, n \in 0 .. MaxFileSize + 1 :
                      LET new == WriteAt(chain, old, from, n, position)
                          after == ReadAt(chain, new, length, 0)
                      IN  /\ \A s \in Sectors \ DataSectors(chain) : new[s] = old[s]
                          /\ \A o \in 0 .. length - 1 :
                                after[o] = IF o \in position .. position + n - 1
                                             THEN from[o - position] ELSE before[o]

\* "Create fails if: file is already in directory, no free space for file header,
\* no free entry for file in directory, no free space for data blocks for the
\* file" (filesys.cc 175-179), and only then: a file takes its data sectors and
\* one header for each MaxFileSize bytes begun, an empty one a header too.
SectorsNeeded(size) ==
    divRoundUp(size, SectorSize) + (IF size = 0 THEN 1 ELSE divRoundUp(size, MaxFileSize))
CreateSucceedsIffRoom ==
    Quiescent =>
        \A p \in Paths, size \in 0 .. MaxFileSize + 1 :
            IsDirectory(Parent(p)) =>
                (NewFile(p, size, FALSE).ok <=>
                    /\ ~ Exists(p)
                    /\ Cardinality(table[GetDirSector(Parent(p))]) < NumDirEntries
                    /\ SectorsNeeded(size) <= Cardinality(Clear(marked)))

\* The files on disk are a tree whose operations are atomic: a call takes effect
\* with one write of a directory, and disturbs no other file.  A new directory is
\* there once its own table is written.
BeingMade(s) == \E i \in 1 .. Len(writes) : writes[i] = TableWrite(s, {})
Visible(p) == Exists(p) /\ \A i \in 1 .. Len(p) : ~ BeingMade(GetDirSector(SubSeq(p, 1, i)))
NodeAt(p) == [isDir |-> Entry(p).isDir, size |-> FileLength(FetchFrom(GetDirSector(p)))]
Tree == INSTANCE FileTree WITH
            tree <- [p \in {q \in Paths : Visible(q)} |-> NodeAt(p)]
ImplementsTree == Tree!Spec

\* What the calls that returned TRUE have made and not removed survives a stop in
\* the middle of any other call, and the calls after it that leave the entries of
\* a stopped one alone; and nothing else comes to be: these are the files and
\* directories with no entry on the way that the current call, or one that never
\* returned, was on.  Each has its size, and shares its sectors, all marked, with
\* none of the others.  The entry a stop leaves between the directory and the map
\* (lines 238-241) is not among them: it may come to lead to their sectors.
Settled == {p \in Present : Avoids(p, stopped \cup call.on)}
CompletedFilesIntact ==
    /\ completed = {<<p, NodeAt(p)>> : p \in Settled}
    /\ Separate(Settled)

\* "Delete the space for its header / Delete the space for its data blocks"
\* (filesys.cc 284-285): a sector that is marked belongs to something that exists.
\* The headers a chain continues in are never cleared.
RemoveFreesAll == Quiescent => marked = UNION {ChainSectors(s) : s \in Owners(Present)}
=============================================================================
