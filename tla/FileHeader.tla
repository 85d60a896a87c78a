----------------------------- MODULE FileHeader -----------------------------
(***************************************************************************)
(* The file header of NachOS-4.0_MP4 (filesys/filehdr.cc): a file longer   *)
(* than one header can address continues in a chain of headers, each in a  *)
(* sector of its own.  In memory a chain is a sequence of headers; `next`  *)
(* is the sector that holds the next one.  A free map is the set of the    *)
(* sectors marked in it (lib/bitmap.cc).                                   *)
(***************************************************************************)
EXTENDS Integers, Sequences, FiniteSets

CONSTANTS
    NumSectors,
    SectorSize,  \* bytes
    NumDirect    \* data sectors of one header

ASSUME DiskAssumption == /\ NumSectors \in Nat \ {0}
                         /\ SectorSize \in Nat \ {0}
                         /\ NumDirect \in Nat \ {0}

Sectors == 0 .. NumSectors - 1
NoSector == -1
MaxFileSize == NumDirect * SectorSize

Header == [numBytes : 0 .. MaxFileSize, dataSectors : Seq(Sectors),
           next : Sectors \cup {NoSector}]

divRoundUp(n, s) == (n + s - 1) \div s
Clear(map) == Sectors \ map

\* The n-th sector FindAndSet returns when it is called n times.
NthClear(map, n) ==
    CHOOSE s \in Clear(map) : Cardinality({u \in Clear(map) : u < s}) = n - 1

\* Mutant: the last clear sector does not count.
NumClearMoreThan(map, n) == Cardinality(Clear(map)) > n
\* NumClear is enough.
NumClearAtLeast(map, n) == Cardinality(Clear(map)) >= n

Failed == [ok |-> FALSE]

\* The bytes of a file of that size that one header holds, the sectors they take
\* from a free map, and the map without them.
HeaderBytes(size) == IF size < MaxFileSize THEN size ELSE MaxFileSize
HeaderSectors(size) == divRoundUp(HeaderBytes(size), SectorSize)
HeaderData(map, size) == [i \in 1 .. HeaderSectors(size) |-> NthClear(map, i)]
AfterData(map, size) == map \cup {NthClear(map, i) : i \in 1 .. HeaderSectors(size)}
HeaderOf(map, size, next) ==
    [numBytes |-> HeaderBytes(size), dataSectors |-> HeaderData(map, size), next |-> next]

\* FileHeader::Allocate, with the free map before and after; it calls itself for
\* the next header, with what is left of the size.
Allocated[size \in Nat] == [map \in SUBSET Sectors |->
    LET after == AfterData(map, size)
        next == NthClear(after, 1)
        rest == Allocated[size - HeaderBytes(size)][after \cup {next}]
    IN  IF ~ NumClearAtLeast(map, HeaderSectors(size)) THEN Failed
        ELSE IF size = HeaderBytes(size)
          THEN [ok |-> TRUE, map |-> after, chain |-> <<HeaderOf(map, size, NoSector)>>]
        ELSE IF Clear(after) = {} THEN Failed
        ELSE IF rest.ok
          THEN [ok |-> TRUE, map |-> rest.map, chain |-> <<HeaderOf(map, size, next)>> \o rest.chain]
        ELSE Failed]
Allocate(map, size) == Allocated[size][map]

\* FileHeader::Deallocate: the sectors it clears, which the chain's are not among.
DataSectors(chain) == UNION {{chain[i].dataSectors[j] : j \in 1 .. Len(chain[i].dataSectors)} :
                                i \in 1 .. Len(chain)}

FileLength(chain) ==
    LET length[i \in 0 .. Len(chain)] == IF i = 0 THEN 0 ELSE length[i - 1] + chain[i].numBytes
    IN  length[Len(chain)]

\* FileHeader::ByteToSector, of an offset in the file: it asserts that the last
\* header is not left.
ByteToSector(chain, offset) ==
    LET in[i \in 1 .. Len(chain)] == [o \in Int |->
            IF o \div SectorSize < NumDirect \/ i = Len(chain)
              THEN chain[i].dataSectors[(o \div SectorSize) + 1]
              ELSE in[i + 1][o - MaxFileSize]]
    IN  in[1][offset]
=============================================================================
