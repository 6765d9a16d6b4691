------------------------------ MODULE OpenFile ------------------------------
(***************************************************************************)
(* OpenFile of filesys/: transfers of any number of bytes at any position  *)
(* of a file that the disk reads and writes a sector at a time.  One       *)
(* caller, as filesys.cc requires; positions are not negative.             *)
(***************************************************************************)
EXTENDS Integers, Functions

CONSTANTS
  SectorSize,
  Bytes,       \* the values of a byte
  MaxLength,   \* bound on the length of the file
  FileHeaders,     \* the headers: numBytes, and dataSectors from 0
  Positions,   \* the positions Seek, ReadAt and WriteAt are called with
  Sources      \* the buffers Write is called with: MaxLength bytes, from 0

\* divRoundUp(MaxLength, SectorSize): the sectors of the disk.
MaxSectors == (MaxLength + SectorSize - 1) \div SectorSize

FileSectors == 0 .. MaxSectors - 1

Offsets == 0 .. SectorSize - 1

\* How the constants are related.
OpenFileConstants ==
  /\ SectorSize \in Nat \ {0}
  /\ MaxLength \in Nat
  /\ FileHeaders \subseteq
       [numBytes : 0 .. MaxLength, dataSectors : Injection(FileSectors, FileSectors)]
  /\ Positions \subseteq Nat
  /\ Sources \subseteq [0 .. MaxLength - 1 -> Bytes]

VARIABLES
  hdr,           \* the header that the constructor reads
  disk,          \* the bytes of each sector
  seekPosition,
  reply          \* the bytes the last call read or wrote, from 0

fileVars == <<hdr, disk, seekPosition, reply>>

FileTypes ==
  /\ hdr \in FileHeaders
  /\ disk \in [FileSectors -> [Offsets -> Bytes]]
  /\ seekPosition \in Nat
  /\ \E n \in 0 .. MaxLength : reply \in [0 .. n - 1 -> Bytes]

\* The constructor, on a file that Create has made: its sectors hold anything.
FileInit ==
  /\ hdr \in FileHeaders
  /\ disk \in [FileSectors -> [Offsets -> Bytes]]
  /\ seekPosition = 0
  /\ reply = << >>
-----------------------------------------------------------------------------
\* The number of bytes a transfer moves: the check of the request.
Transferred(n, position) ==
  IF n <= 0 \/ position >= hdr.numBytes THEN 0
  ELSE IF position + n > hdr.numBytes THEN hdr.numBytes - position ELSE n

ByteToSector(offset) == hdr.dataSectors[offset \div SectorSize]

\* The buffer that ReadAt fills: the sectors from that of position to that of
\* the last byte, one after the other.
SectorsRead(n, position) ==
  LET firstSector == position \div SectorSize
      lastSector  == (position + n - 1) \div SectorSize
  IN  [b \in 0 .. (1 + lastSector - firstSector) * SectorSize - 1 |->
         disk[ByteToSector((firstSector + b \div SectorSize) * SectorSize)][b % SectorSize]]

\* The bytes ReadAt copies to its caller.
BytesRead(n, position) ==
  LET m == Transferred(n, position)
  IN  [i \in 0 .. m - 1 |->
         SectorsRead(m, position)[i + position - (position \div SectorSize) * SectorSize]]

\* buf with the bytes of new copied in from index at on.
CopyIn(buf, new, at) ==
  [b \in DOMAIN buf |-> IF b - at \in DOMAIN new THEN new[b - at] ELSE buf[b]]

\* Mutant of SectorsToWrite: the last sector is not read when it is the first
\* too, even if the request starts at its beginning.
SectorsToWriteNoTail(uninitialized, from, n, position) ==
  LET firstSector  == position \div SectorSize
      lastSector   == (position + n - 1) \div SectorSize
      firstAligned == position = firstSector * SectorSize
      lastAligned  == position + n = (lastSector + 1) * SectorSize
      buf1 == IF ~firstAligned
                THEN CopyIn(uninitialized, BytesRead(SectorSize, firstSector * SectorSize), 0)
                ELSE uninitialized
      buf2 == IF ~lastAligned /\ firstSector # lastSector
                THEN CopyIn(buf1, BytesRead(SectorSize, lastSector * SectorSize),
                            (lastSector - firstSector) * SectorSize)
                ELSE buf1
  IN  CopyIn(buf2, from, position - firstSector * SectorSize)

\* The buffer that WriteAt writes back: uninitialized memory, the old bytes of
\* the first and of the last sector when they are not replaced as a whole, and
\* the new bytes.
SectorsToWrite(uninitialized, from, n, position) ==
  LET firstSector  == position \div SectorSize
      lastSector   == (position + n - 1) \div SectorSize
      firstAligned == position = firstSector * SectorSize
      lastAligned  == position + n = (lastSector + 1) * SectorSize
      buf1 == IF ~firstAligned
                THEN CopyIn(uninitialized, BytesRead(SectorSize, firstSector * SectorSize), 0)
                ELSE uninitialized
      buf2 == IF ~lastAligned /\ (firstSector # lastSector \/ firstAligned)
                THEN CopyIn(buf1, BytesRead(SectorSize, lastSector * SectorSize),
                            (lastSector - firstSector) * SectorSize)
                ELSE buf1
  IN  CopyIn(buf2, from, position - firstSector * SectorSize)

\* ReadAt leaves the file as it is.
ReadAt(n, position) ==
  /\ reply' = BytesRead(n, position)
  /\ UNCHANGED <<hdr, disk>>

\* WriteAt writes its buffer to the sectors of the file it covers.
WriteAt(n, position) ==
  LET m == Transferred(n, position)
      firstSector == position \div SectorSize
      lastSector  == (position + m - 1) \div SectorSize
  IN
  /\ IF m = 0
       THEN reply' = << >> /\ UNCHANGED disk
       ELSE \E source \in Sources, garbage \in [Offsets -> Bytes] :
              LET from == [i \in 0 .. m - 1 |-> source[i]]
                  buf  == SectorsToWrite([b \in 0 .. (1 + lastSector - firstSector) * SectorSize - 1
                                            |-> garbage[b % SectorSize]], from, m, position)
              IN
              /\ reply' = from
              /\ disk' = [s \in DOMAIN disk |->
                   IF \E i \in firstSector .. lastSector : s = ByteToSector(i * SectorSize)
                     THEN LET i == CHOOSE i \in firstSector .. lastSector :
                                     s = ByteToSector(i * SectorSize)
                          IN  [o \in Offsets |-> buf[(i - firstSector) * SectorSize + o]]
                     ELSE disk[s]]
  /\ UNCHANGED hdr

Seek(position) ==
  /\ seekPosition' = position
  /\ UNCHANGED <<hdr, disk, reply>>

\* Read and Write: at seekPosition, which then moves on by the result.
Read(n) ==
  /\ ReadAt(n, seekPosition)
  /\ seekPosition' = seekPosition + Transferred(n, seekPosition)

Write(n) ==
  /\ WriteAt(n, seekPosition)
  /\ seekPosition' = seekPosition + Transferred(n, seekPosition)

FileNext ==
  \/ \E p \in Positions : Seek(p)
  \/ \E n \in -1 .. MaxLength + 1 :
       \/ \E p \in Positions : ReadAt(n, p) /\ UNCHANGED seekPosition
       \/ \E p \in Positions : WriteAt(n, p) /\ UNCHANGED seekPosition
       \/ Read(n)
       \/ Write(n)

FileSpec == FileInit /\ [][FileNext]_fileVars
-----------------------------------------------------------------------------
Content == [p \in 0 .. hdr.numBytes - 1 |-> disk[ByteToSector(p)][p % SectorSize]]

File == INSTANCE ByteFile WITH content <- Content

\* An OpenFile implements ByteFile: wherever a request starts and ends, in a
\* sector, on a boundary, or past the end of the file, the bytes around it
\* survive the read, change and write of whole sectors, and what follows the
\* end of the file in its last sector never shows.
ByteFileSpec == File!Spec
=============================================================================
