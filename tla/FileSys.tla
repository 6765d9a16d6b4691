------------------------------ MODULE FileSys ------------------------------
(***************************************************************************)
(* The file system of filesys/: the map of free sectors, the directory and *)
(* the file headers on the disk, and Create, Open, Remove and WriteAt, by  *)
(* one caller at a time, as filesys.cc requires.  Each write of a disk     *)
(* sector is a step, and the machine may stop between any two of them and  *)
(* boot again from the disk as it was left.                                *)
(*                                                                         *)
(* The free map fits in one sector (NumSectors / BitsInByte bytes).  The   *)
(* directory takes two, and the entry Straddling is cut by the boundary:   *)
(* its inUse and sector are in the first, its name in the second.  Sizes   *)
(* are in sectors (divRoundUp of the size in bytes).                       *)
(***************************************************************************)
EXTENDS Naturals, FiniteSets

CONSTANTS
  Names,          \* file names
  NumSectors,     \* sectors of the disk; 0 stands for those of the system files
  NumDirEntries,  \* entries of the directory
  Straddling,     \* the entry on the boundary of the two directory sectors
  NumDirect,      \* block pointers that fit in a header
  Sizes,          \* the sizes Create is called with
  Data,           \* contents of a data block
  Handles,        \* OpenFile objects
  MaxCrashes,     \* bound on the crashes
  NULL            \* no operation, or a handle that is not open

Sectors == 0 .. NumSectors - 1

Entries == 1 .. NumDirEntries

\* A FileHeader.  dataSectors holds NumDirect pointers and no more, whatever
\* numSectors says.
Headers ==
  UNION {[numSectors : {n}, dataSectors : [1 .. (IF n <= NumDirect THEN n ELSE NumDirect) -> Sectors]]
           : n \in Sizes}

DirectoryEntry == [inUse : BOOLEAN, sector : Sectors, name : Names]

Directories == [Entries -> DirectoryEntry]

\* The rest of a running operation: the directory and the map it has computed
\* in memory, the entry it is about, and the next sector to write.
Operations ==
  [call : {"Create", "Remove"}, entry : Entries, directory : Directories,
   freeMap : SUBSET Sectors, next : {"dir1", "dir2", "map"}]

\* An OpenFile: the name it was opened under and its copy of the header.
OpenFiles == [name : Names, hdr : Headers]

ASSUME FileSysAssumption ==
  /\ NumSectors \in Nat \ {0}
  /\ NumDirEntries \in Nat \ {0}
  /\ Straddling \in Entries
  /\ NumDirect \in Nat
  /\ Sizes \subseteq Nat
  /\ MaxCrashes \in Nat
  /\ Headers \cap Data = {}
  /\ NULL \notin Operations \cup OpenFiles

VARIABLES
  block,        \* what each sector holds: a header, or data
  freeMap,      \* the sectors marked in the free map on the disk
  directory,    \* the directory on the disk
  op,           \* the Create or Remove that is running, or NULL
  handle,       \* the open files
  interrupted,  \* entries that a crash has left listed and without sectors
  crashes

vars == <<block, freeMap, directory, op, handle, interrupted, crashes>>

TypeOK ==
  /\ block \in [Sectors -> Headers \cup Data]
  /\ freeMap \in SUBSET Sectors
  /\ directory \in Directories
  /\ op \in Operations \cup {NULL}
  /\ handle \in [Handles -> OpenFiles \cup {NULL}]
  /\ interrupted \in SUBSET Entries
  /\ crashes \in 0 .. MaxCrashes

\* FileSystem(format): the sectors of the system files are marked and the
\* directory is empty; the other sectors, and the names, hold whatever the
\* disk held.
Init ==
  /\ \E d \in Data : block = [s \in Sectors |-> d]
  /\ freeMap = {0}
  /\ \E n \in Names :
       directory = [i \in Entries |-> [inUse |-> FALSE, sector |-> 0, name |-> n]]
  /\ op = NULL
  /\ handle = [h \in Handles |-> NULL]
  /\ interrupted = {}
  /\ crashes = 0
-----------------------------------------------------------------------------
\* Directory::FindIndex: entry i is the first in use with this name.
IsFindIndex(d, name, i) ==
  /\ d[i].inUse /\ d[i].name = name
  /\ \A j \in 1 .. i - 1 : ~(d[j].inUse /\ d[j].name = name)

\* FindIndex finds an entry: there is one in use with this name.
Listed(d, name) == \E i \in Entries : d[i].inUse /\ d[i].name = name

\* The entry Directory::Add takes: the first that is not in use.
IsFirstUnused(d, i) ==
  /\ ~d[i].inUse
  /\ \A j \in 1 .. i - 1 : d[j].inUse

\* BitMap::Find: s is the first sector that is not marked.
IsFind(marked, s) ==
  /\ s \in Sectors \ marked
  /\ \A r \in Sectors \ marked : s <= r

\* The calls of BitMap::Find in FileHeader::Allocate: q lists the first n
\* sectors that are not marked, in order.
AreFinds(marked, n, q) ==
  \A i \in 1 .. n : IsFind(marked \cup {q[j] : j \in 1 .. i - 1}, q[i])

Values(q) == {q[i] : i \in DOMAIN q}

\* The header that Allocate leaves, as far as one sector of the disk holds it.
HeaderOf(n, q) ==
  [numSectors |-> n,
   dataSectors |-> [i \in 1 .. (IF n <= NumDirect THEN n ELSE NumDirect) |-> q[i]]]

\* Mutant of Refused: a name that is already in the directory is accepted.
RefusedNameIgnored(name, n) ==
  \/ freeMap = Sectors
  \/ \A i \in Entries : directory[i].inUse
  \/ Cardinality(Sectors \ freeMap) - 1 < n

\* Create returns false: the name is taken, there is no sector for the header,
\* no entry, or, once the header has its sector, too few for the data.
Refused(name, n) ==
  \/ Listed(directory, name)
  \/ freeMap = Sectors
  \/ \A i \in Entries : directory[i].inUse
  \/ Cardinality(Sectors \ freeMap) - 1 < n

\* What a refused Create has changed in memory is discarded: nothing is written.
CreateFails(name, n) ==
  /\ op = NULL
  /\ Refused(name, n)
  /\ UNCHANGED vars

\* FileSystem::Create up to the write of the header.
Create(name, n) ==
  /\ op = NULL
  /\ ~Refused(name, n)
  /\ \E s \in Sectors, i \in Entries, q \in [1 .. n -> Sectors] :
       /\ IsFind(freeMap, s)
       /\ IsFirstUnused(directory, i)
       /\ AreFinds(freeMap \cup {s}, n, q)
       /\ block' = [block EXCEPT ![s] = HeaderOf(n, q)]
       /\ op' = [call |-> "Create", entry |-> i,
                 directory |-> [directory EXCEPT ![i] = [inUse |-> TRUE, sector |-> s, name |-> name]],
                 freeMap |-> freeMap \cup {s} \cup Values(q),
                 next |-> "dir1"]
  /\ UNCHANGED <<freeMap, directory, handle, interrupted, crashes>>

\* FileHeader::Deallocate can run to its end: no ASSERT stops the machine.
DeallocateAsserts(hdr) == Values(hdr.dataSectors) \subseteq freeMap

\* Mutant of Remove: the sector of the header stays marked.
RemoveKeepsHeader(name) ==
  /\ op = NULL
  /\ \E i \in Entries :
       LET s == directory[i].sector IN
       /\ IsFindIndex(directory, name, i)
       /\ block[s] \in Headers
       /\ DeallocateAsserts(block[s])
       /\ freeMap' = freeMap \ Values(block[s].dataSectors)
       /\ op' = [call |-> "Remove", entry |-> i,
                 directory |-> [directory EXCEPT ![i].inUse = FALSE],
                 freeMap |-> freeMap', next |-> "dir1"]
  /\ UNCHANGED <<block, directory, handle, interrupted, crashes>>

\* FileSystem::Remove up to the write of the free map.
Remove(name) ==
  /\ op = NULL
  /\ \E i \in Entries :
       LET s == directory[i].sector IN
       /\ IsFindIndex(directory, name, i)
       /\ block[s] \in Headers
       /\ DeallocateAsserts(block[s])
       /\ freeMap' = freeMap \ (Values(block[s].dataSectors) \cup {s})
       /\ op' = [call |-> "Remove", entry |-> i,
                 directory |-> [directory EXCEPT ![i].inUse = FALSE],
                 freeMap |-> freeMap', next |-> "dir1"]
  /\ UNCHANGED <<block, directory, handle, interrupted, crashes>>

\* Directory::WriteBack, first sector: the entries before Straddling, and its
\* inUse and sector.
WriteDir1 ==
  /\ op # NULL /\ op.next = "dir1"
  /\ directory' = [i \in Entries |->
       CASE i < Straddling -> op.directory[i]
         [] i = Straddling -> [op.directory[i] EXCEPT !.name = directory[i].name]
         [] OTHER          -> directory[i]]
  /\ op' = [op EXCEPT !.next = "dir2"]
  /\ UNCHANGED <<block, freeMap, handle, interrupted, crashes>>

\* Directory::WriteBack, second sector.  It is the last write of Remove.
WriteDir2 ==
  /\ op # NULL /\ op.next = "dir2"
  /\ directory' = op.directory
  /\ op' = IF op.call = "Create" THEN [op EXCEPT !.next = "map"] ELSE NULL
  /\ UNCHANGED <<block, freeMap, handle, interrupted, crashes>>

\* BitMap::WriteBack at the end of Create.
WriteMap ==
  /\ op # NULL /\ op.next = "map"
  /\ freeMap' = op.freeMap
  /\ op' = NULL
  /\ UNCHANGED <<block, directory, handle, interrupted, crashes>>

\* FileSystem::Open and the constructor of OpenFile, which reads the header.
Open(h, name) ==
  /\ op = NULL /\ handle[h] = NULL
  /\ \E i \in Entries :
       /\ IsFindIndex(directory, name, i)
       /\ block[directory[i].sector] \in Headers
       /\ handle' = [handle EXCEPT ![h] = [name |-> name, hdr |-> block[directory[i].sector]]]
  /\ UNCHANGED <<block, freeMap, directory, op, interrupted, crashes>>

\* delete openFile.
Close(h) ==
  /\ op = NULL /\ handle[h] # NULL
  /\ handle' = [handle EXCEPT ![h] = NULL]
  /\ UNCHANGED <<block, freeMap, directory, op, interrupted, crashes>>

\* Mutant of WriteBlock: lastSector is one too many, and the data is written twice.
WriteBlockOneMore(h, k, d) ==
  /\ op = NULL /\ handle[h] # NULL
  /\ k \in DOMAIN handle[h].hdr.dataSectors
  /\ LET q == handle[h].hdr.dataSectors
         written == {q[j] : j \in {k, k + 1} \cap DOMAIN q}
     IN  block' = [s \in Sectors |-> IF s \in written THEN d ELSE block[s]]
  /\ UNCHANGED <<freeMap, directory, op, handle, interrupted, crashes>>

\* OpenFile::WriteAt of one aligned sector, the k-th of the file, through the
\* copy of the header.
WriteBlock(h, k, d) ==
  /\ op = NULL /\ handle[h] # NULL
  /\ k \in DOMAIN handle[h].hdr.dataSectors
  /\ block' = [block EXCEPT ![handle[h].hdr.dataSectors[k]] = d]
  /\ UNCHANGED <<freeMap, directory, op, handle, interrupted, crashes>>

\* Nachos stops and starts again with FileSystem(FALSE): the running operation
\* and the open files are lost.
Crash ==
  /\ crashes < MaxCrashes
  /\ crashes' = crashes + 1
  /\ interrupted' = IF op # NULL /\ directory[op.entry].inUse
                      THEN interrupted \cup {op.entry} ELSE interrupted
  /\ op' = NULL
  /\ handle' = [h \in Handles |-> NULL]
  /\ UNCHANGED <<block, freeMap, directory>>

\* What the callers keep to: a file is removed when nobody has it open, and
\* nobody opens or removes a file that a crash cut off in the making or the
\* removing.
NotOpen(name) == \A h \in Handles : handle[h] # NULL => handle[h].name # name

NotInterrupted(name) ==
  \A i \in interrupted : ~IsFindIndex(directory, name, i)

Next ==
  \/ \E name \in Names, n \in Sizes : Create(name, n) \/ CreateFails(name, n)
  \/ \E name \in Names : NotOpen(name) /\ NotInterrupted(name) /\ Remove(name)
  \/ WriteDir1
  \/ WriteDir2
  \/ WriteMap
  \/ \E name \in Names, h \in Handles : NotInterrupted(name) /\ Open(h, name)
  \/ \E h \in Handles : Close(h)
  \/ \E h \in Handles, d \in Data, k \in 1 .. NumDirect : WriteBlock(h, k, d)
  \/ Crash

Spec == Init /\ [][Next]_vars
-----------------------------------------------------------------------------
\* The entries that a completed Create has made and no Remove has begun to undo.
Files ==
  {i \in Entries : /\ directory[i].inUse
                   /\ i \notin interrupted
                   /\ op # NULL => i # op.entry}

SectorsOf(i) ==
  {directory[i].sector} \cup Values(block[directory[i].sector].dataSectors)

\* At every moment, in the middle of an operation on another file and after any
\* number of crashes too, each file has a header on the disk, is the one its name
\* finds, and has its sectors marked, to itself and apart from the system's.
FilesIntact ==
  \A i \in Files :
    /\ block[directory[i].sector] \in Headers
    /\ IsFindIndex(directory, directory[i].name, i)
    /\ SectorsOf(i) \subseteq freeMap \ {0}
    /\ \A j \in Files \ {i} : SectorsOf(i) \cap SectorsOf(j) = {}

\* Between operations the free map marks the sectors of the files and of the
\* system and no other: no order of Create, Remove and crashes loses a sector.
FreeMapExact ==
  op = NULL => freeMap = {0} \cup UNION {SectorsOf(i) : i \in Files}

\* The limit the header comment of filesys.cc gives for the size of a file: the
\* header of every file holds the pointers to all of its sectors.
FilesFitHeader ==
  \A i \in Files : block[directory[i].sector].numSectors <= NumDirect

\* The files as a caller sees them: the blocks of each, under its name.
FilesByName ==
  [name \in {directory[i].name : i \in Files} |->
     LET i == CHOOSE i \in Files : directory[i].name = name
         q == block[directory[i].sector].dataSectors
     IN  [k \in DOMAIN q |-> block[q[k]]]]

Store == INSTANCE FileStore WITH files <- FilesByName

\* The file system implements FileStore: Create takes effect with its last
\* write and Remove with its first, no write reaches a block of another file,
\* and a crash at any moment leaves every file as it was.
StoreSpec == Store!Spec
=============================================================================
