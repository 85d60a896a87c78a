------------------------------ MODULE OpenFile ------------------------------
(***************************************************************************)
(* Reading and writing a part of a file of NachOS-4.0_MP4                  *)
(* (filesys/openfile.cc).  The disk moves whole sectors: a request is      *)
(* widened to sectors, and those at its ends that are written in part are  *)
(* read first.  `data` is the disk: the bytes of each sector, numbered     *)
(* from 0; buffers are numbered from 0 too.                                *)
(***************************************************************************)
EXTENDS FileHeader

ZeroByte == << >>

\* The bytes of a request that are transferred: none at or beyond the end of the
\* file, and none past it.
Transferred(chain, numBytes, position) ==
    IF numBytes <= 0 \/ position >= FileLength(chain) THEN 0
    ELSE IF position + numBytes > FileLength(chain) THEN FileLength(chain) - position
    ELSE numBytes

FirstSector(position) == position \div SectorSize
LastSector(position, n) == (position + n - 1) \div SectorSize
\* The disk sector of the i-th sector of the file
SectorOf(chain, i) == ByteToSector(chain, i * SectorSize)

\* OpenFile::ReadAt: the bytes it copies into the caller's buffer
ReadAt(chain, data, numBytes, position) ==
    LET n == Transferred(chain, numBytes, position)
        first == FirstSector(position)
        buf == [b \in 0 .. (1 + LastSector(position, n) - first) * SectorSize - 1 |->
                   data[SectorOf(chain, first + b \div SectorSize)][b % SectorSize]]
    IN  IF n = 0 THEN << >> ELSE [k \in 0 .. n - 1 |-> buf[position - first * SectorSize + k]]

\* bcopy
Copied(bytes, buf, at) == [b \in DOMAIN buf |-> IF b - at \in DOMAIN bytes THEN bytes[b - at] ELSE buf[b]]

FirstAligned(position) == position = FirstSector(position) * SectorSize
LastAligned(position, n) == position + n = (LastSector(position, n) + 1) * SectorSize

\* Mutant: a request that begins and ends in one sector was read already, even if
\* it begins where the sector does.
ReadsLastElsewhere(position, n) ==
    ~ LastAligned(position, n) /\ FirstSector(position) # LastSector(position, n)
\* The last sector is written in part and was not read as the first one.
ReadsLast(position, n) ==
    /\ ~ LastAligned(position, n)
    /\ FirstSector(position) # LastSector(position, n) \/ FirstAligned(position)

\* OpenFile::WriteAt: the disk after it
WriteAt(chain, data, from, numBytes, position) ==
    LET n == Transferred(chain, numBytes, position)
        first == FirstSector(position)
        last == LastSector(position, n)
        at(i) == (i - first) * SectorSize
        empty == [b \in 0 .. at(last + 1) - 1 |-> ZeroByte]
        withFirst == IF FirstAligned(position) THEN empty
                     ELSE Copied(ReadAt(chain, data, SectorSize, first * SectorSize), empty, 0)
        withLast == IF ~ ReadsLast(position, n) THEN withFirst
                    ELSE Copied(ReadAt(chain, data, SectorSize, last * SectorSize), withFirst, at(last))
        buf == Copied([k \in 0 .. n - 1 |-> from[k]], withLast, position - first * SectorSize)
        written(s) == {i \in first .. last : SectorOf(chain, i) = s}
    IN  IF n = 0 THEN data
        ELSE [s \in Sectors |->
                 IF written(s) = {} THEN data[s]
                 ELSE LET i == CHOOSE i \in written(s) : \A j \in written(s) : j <= i
                      IN  [o \in 0 .. SectorSize - 1 |-> buf[at(i) + o]]]
=============================================================================
