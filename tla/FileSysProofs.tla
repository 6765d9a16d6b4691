--------------------------- MODULE FileSysProofs ---------------------------
(***************************************************************************)
(* Proofs about FileSys: for any disk, any directory, any number of names, *)
(* open files and crashes, and whichever entry the boundary of the two     *)
(* directory sectors cuts,                                                 *)
(*   - every file keeps its header, its name and its sectors to itself;    *)
(*   - no sector is lost, as long as the headers hold their files' sectors;*)
(*   - the file system implements FileStore.                               *)
(* An open file implements ByteFile for every sector size and every file;  *)
(* the latency of a disk request is that of the disk's geometry.           *)
(***************************************************************************)
EXTENDS FileSys, DiskHead, OpenFile, TLAPS

\* The sectors of the file whose header is in sector s.
FileAt(s) == {s} \cup Values(block[s].dataSectors)

\* Sector s holds a header, and the pointers of the header are all different
\* and none of them is s.
HeaderAt(s) ==
  /\ block[s] \in Headers
  /\ s \notin Values(block[s].dataSectors)
  /\ \A k, l \in DOMAIN block[s].dataSectors :
       block[s].dataSectors[k] = block[s].dataSectors[l] => k = l

\* An operation has changed only its own entry, and that entry is no other
\* operation's that a crash cut short.
OpInv ==
  /\ \A i \in interrupted : directory[i].inUse
  /\ op # NULL =>
       /\ op.entry \notin interrupted
       /\ \A j \in Entries \ {op.entry} : op.directory[j] = directory[j]
       /\ op.call = "Create" => op.directory[op.entry].inUse
       /\ op.call = "Remove" => /\ ~op.directory[op.entry].inUse
                                /\ op.directory[op.entry].name = directory[op.entry].name
       /\ op.next = "map" => op.call = "Create" /\ directory = op.directory

\* No entry before a file's, in use or not, has its name; the file that a
\* Create is making will be in the same position.
NameInv ==
  /\ \A j \in Files : \A i \in Entries : i < j => directory[i].name # directory[j].name
  /\ op # NULL /\ op.call = "Create" =>
       /\ \A i \in Entries : i < op.entry => directory[i].name # op.directory[op.entry].name
       /\ \A j \in Files : directory[j].name # op.directory[op.entry].name

\* The sectors of the files are marked, apart from each other and from the
\* system's.  Those of a file in the making are not marked on the disk, but
\* are in the map that Create is going to write.
SectorInv ==
  /\ 0 \in freeMap
  /\ \A i \in Files : HeaderAt(directory[i].sector) /\ FileAt(directory[i].sector) \subseteq freeMap \ {0}
  /\ \A i, j \in Files : i # j => FileAt(directory[i].sector) \cap FileAt(directory[j].sector) = {}
  /\ op # NULL /\ op.call = "Create" =>
       /\ HeaderAt(op.directory[op.entry].sector)
       /\ FileAt(op.directory[op.entry].sector) \cap freeMap = {}
       /\ freeMap \cup FileAt(op.directory[op.entry].sector) \subseteq op.freeMap

\* The copy of a header in an open file is the header on the disk of the file
\* with its name.
HandleInv ==
  \A h \in Handles : handle[h] # NULL =>
    \E i \in Files : /\ directory[i].name = handle[h].name
                     /\ block[directory[i].sector] = handle[h].hdr

FSInv == TypeOK /\ OpInv /\ NameInv /\ SectorInv /\ HandleInv

\* Every marked sector is the system's or a file's, and Create has marked no
\* others in its map than the new file's.
ExactInv ==
  /\ \A s \in freeMap : s = 0 \/ \E i \in Files : s \in FileAt(directory[i].sector)
  /\ op # NULL /\ op.call = "Create" =>
       op.freeMap \subseteq freeMap \cup FileAt(op.directory[op.entry].sector)

\* Every file fits the pointers of its header.
SmallFiles == \A n \in Sizes : n <= NumDirect
-----------------------------------------------------------------------------
\* The pointers of a FileHeader are sectors, numbered from 1.
LEMMA HeaderFacts ==
  ASSUME NEW head \in Headers
  PROVE  /\ head.dataSectors \in [DOMAIN head.dataSectors -> Sectors]
         /\ DOMAIN head.dataSectors \subseteq Nat
         /\ Values(head.dataSectors) \subseteq Sectors
<1>1. PICK n \in Sizes : head \in [numSectors : {n}, dataSectors : [1 .. (IF n <= NumDirect THEN n ELSE NumDirect) -> Sectors]]
  BY DEF Headers
<1> QED BY <1>1, FileSysAssumption, SMTT(60) DEF Values

\* FileHeader::Allocate takes different sectors, and none that was marked.
LEMMA FindsApart ==
  ASSUME NEW marked, NEW n \in Nat, NEW q \in [1 .. n -> Sectors], AreFinds(marked, n, q)
  PROVE  /\ Values(q) \cap marked = {}
         /\ Values(q) \subseteq Sectors
         /\ \A k, l \in 1 .. n : q[k] = q[l] => k = l
<1>1. \A k \in 1 .. n : q[k] \in Sectors \ (marked \cup {q[j] : j \in 1 .. k - 1})
  BY DEF AreFinds, IsFind
<1>2. \A k, l \in 1 .. n : k < l => q[k] # q[l]
  BY <1>1
<1>3. \A k, l \in 1 .. n : q[k] = q[l] => k = l
  BY <1>2
<1> QED BY <1>1, <1>3 DEF Values

\* The header that Allocate leaves points to sectors it has taken.
LEMMA HeaderOfFacts ==
  ASSUME NEW n \in Sizes, NEW q \in [1 .. n -> Sectors],
         \A k, l \in 1 .. n : q[k] = q[l] => k = l
  PROVE  /\ HeaderOf(n, q) \in Headers
         /\ Values(HeaderOf(n, q).dataSectors) \subseteq Values(q)
         /\ n <= NumDirect => Values(HeaderOf(n, q).dataSectors) = Values(q)
         /\ \A k, l \in DOMAIN HeaderOf(n, q).dataSectors :
              HeaderOf(n, q).dataSectors[k] = HeaderOf(n, q).dataSectors[l] => k = l
<1> DEFINE m == IF n <= NumDirect THEN n ELSE NumDirect
           ds == [i \in 1 .. m |-> q[i]]
<1>1. n \in Nat /\ NumDirect \in Nat /\ m \in Nat /\ m <= n
  BY FileSysAssumption
<1>2. HeaderOf(n, q) = [numSectors |-> n, dataSectors |-> ds] /\ HeaderOf(n, q).dataSectors = ds
  BY DEF HeaderOf
<1>3. n <= NumDirect => m = n
  OBVIOUS
<1>4. [numSectors : {n}, dataSectors : [1 .. m -> Sectors]] \subseteq Headers
  BY DEF Headers
<1> HIDE DEF m
<1>5. 1 .. m \subseteq 1 .. n /\ DOMAIN ds = 1 .. m /\ \A k \in 1 .. m : ds[k] = q[k]
  BY <1>1
<1>6. ds \in [1 .. m -> Sectors]
  BY <1>5
<1> HIDE DEF ds
<1>7. Values(ds) = {q[k] : k \in 1 .. m} /\ Values(q) = {q[k] : k \in 1 .. n}
  BY <1>5 DEF Values
<1>8. HeaderOf(n, q) \in Headers
  BY <1>2, <1>4, <1>6
<1> QED BY <1>2, <1>3, <1>5, <1>7, <1>8
-----------------------------------------------------------------------------
\* The file system as FileSystem(format) leaves it satisfies the invariant.
LEMMA InitFS == Init => FSInv /\ ExactInv
<1> SUFFICES ASSUME Init PROVE FSInv /\ ExactInv
  OBVIOUS
<1>1. Files = {}
  BY DEF Init, Files
<1>2. TypeOK
  BY FileSysAssumption DEF Init, TypeOK, Sectors, Directories, DirectoryEntry, Entries
<1>3. OpInv /\ NameInv /\ SectorInv /\ HandleInv /\ ExactInv
  BY <1>1 DEF Init, OpInv, NameInv, SectorInv, HandleInv, ExactInv
<1> QED BY <1>2, <1>3 DEF FSInv

\* FileSystem::Create up to the write of the header takes sectors that no file
\* has, and its entry is not a file yet.
LEMMA CreateKeeps ==
  ASSUME FSInv, NEW name \in Names, NEW n \in Sizes, Create(name, n)
  PROVE  /\ FSInv'
         /\ Files' = Files
         /\ \A t \in freeMap : block'[t] = block[t]
         /\ SmallFiles /\ ExactInv => ExactInv'
<1> USE DEF FSInv
<1>1. PICK s \in Sectors, i \in Entries, q \in [1 .. n -> Sectors] :
       /\ IsFind(freeMap, s)
       /\ IsFirstUnused(directory, i)
       /\ AreFinds(freeMap \cup {s}, n, q)
       /\ block' = [block EXCEPT ![s] = HeaderOf(n, q)]
       /\ op' = [call |-> "Create", entry |-> i,
                 directory |-> [directory EXCEPT ![i] = [inUse |-> TRUE, sector |-> s, name |-> name]],
                 freeMap |-> freeMap \cup {s} \cup Values(q),
                 next |-> "dir1"]
  BY Zenon DEF Create
<1>2. /\ op = NULL /\ ~Listed(directory, name)
      /\ UNCHANGED <<freeMap, directory, handle, interrupted, crashes>>
  BY DEF Create, Refused
<1> DEFINE head == HeaderOf(n, q)
           d == [directory EXCEPT ![i] = [inUse |-> TRUE, sector |-> s, name |-> name]]
<1>3. n \in Nat /\ AreFinds(freeMap \cup {s}, n, q)
  BY <1>1, FileSysAssumption
<1>4. /\ Values(q) \cap (freeMap \cup {s}) = {}
      /\ Values(q) \subseteq Sectors
      /\ \A k, l \in 1 .. n : q[k] = q[l] => k = l
  <2> DEFINE taken == freeMap \cup {s}
  <2>1. AreFinds(taken, n, q)
    BY <1>3
  <2> HIDE DEF taken
  <2>2. Values(q) \cap taken = {} /\ Values(q) \subseteq Sectors /\ \A k, l \in 1 .. n : q[k] = q[l] => k = l
    BY <2>1, <1>3, FindsApart, Zenon
  <2> QED BY <2>2 DEF taken
<1>5. /\ head \in Headers
      /\ Values(head.dataSectors) \subseteq Values(q)
      /\ n <= NumDirect => Values(head.dataSectors) = Values(q)
      /\ \A k, l \in DOMAIN head.dataSectors : head.dataSectors[k] = head.dataSectors[l] => k = l
  BY <1>4, HeaderOfFacts, Zenon
<1> HIDE DEF head
<1>6. block' = [block EXCEPT ![s] = head]
  BY <1>1, Zenon DEF head
<1>7. s \in Sectors \ freeMap /\ s # 0
  BY <1>1 DEF IsFind, SectorInv
<1>8. ~directory[i].inUse /\ \A j \in Entries : j < i => directory[j].inUse
  BY <1>1, FileSysAssumption DEF IsFirstUnused, Entries
<1>9. d \in Directories /\ d[i] = [inUse |-> TRUE, sector |-> s, name |-> name]
      /\ \A j \in Entries \ {i} : d[j] = directory[j]
  BY DEF TypeOK, Directories, DirectoryEntry
<1> HIDE DEF d
<1>10. /\ op' = [call |-> "Create", entry |-> i, directory |-> d,
                 freeMap |-> freeMap \cup {s} \cup Values(q), next |-> "dir1"]
       /\ op' \in Operations /\ op' # NULL
  <2>1. op' = [call |-> "Create", entry |-> i, directory |-> d,
               freeMap |-> freeMap \cup {s} \cup Values(q), next |-> "dir1"]
    BY <1>1 DEF d
  <2>2. freeMap \cup {s} \cup Values(q) \in SUBSET Sectors
    BY <1>4 DEF TypeOK
  <2>3. op' \in Operations
    BY <2>1, <2>2, <1>9 DEF Operations
  <2> QED BY <2>1, <2>3, FileSysAssumption, Zenon
<1>11. Files' = Files
  BY <1>2, <1>8, <1>10 DEF Files
<1>12. \A t \in Sectors : t # s => block'[t] = block[t]
  BY <1>6 DEF TypeOK
<1>13. block'[s] = head
  BY <1>6 DEF TypeOK
<1>14. \A t \in freeMap : block'[t] = block[t]
  BY <1>7, <1>12 DEF TypeOK
<1>15. TypeOK'
  BY <1>2, <1>5, <1>6, <1>10, Zenon DEF TypeOK
<1>16. OpInv'
  BY <1>2, <1>8, <1>9, <1>10, SMTT(60) DEF OpInv
<1>17. NameInv'
  BY <1>2, <1>8, <1>9, <1>10, <1>11, SMTT(60) DEF NameInv, Listed, Files
<1>18. \A j \in Files : directory[j].sector \in freeMap
  BY Zenon DEF SectorInv, FileAt
<1>19. \A t \in freeMap : FileAt(t)' = FileAt(t) /\ (HeaderAt(t)' <=> HeaderAt(t))
  BY <1>14 DEF FileAt, HeaderAt
<1>20. HeaderAt(s)' /\ FileAt(s)' = {s} \cup Values(head.dataSectors)
  BY <1>4, <1>5, <1>13, Zenon DEF FileAt, HeaderAt
<1>21. SectorInv'
  <2>1. op'.directory[op'.entry].sector = s /\ op'.freeMap = freeMap \cup {s} \cup Values(q)
    BY <1>9, <1>10
  <2>2. \A j \in Files : /\ FileAt(directory[j].sector)' = FileAt(directory[j].sector)
                         /\ HeaderAt(directory[j].sector)' <=> HeaderAt(directory[j].sector)
    BY <1>2, <1>18, <1>19, Zenon
  <2>6. \A j \in Files : HeaderAt(directory[j].sector) /\ FileAt(directory[j].sector) \subseteq freeMap \ {0}
    BY Zenon DEF SectorInv
  <2>3. (\A j \in Files : HeaderAt(directory[j].sector) /\ FileAt(directory[j].sector) \subseteq freeMap \ {0})'
    BY <2>2, <2>6, <1>2, <1>11
  <2>4. (\A j, k \in Files : j # k => FileAt(directory[j].sector) \cap FileAt(directory[k].sector) = {})'
    BY <2>2, <1>2, <1>11, ZenonT(60) DEF SectorInv
  <2>5. FileAt(s)' \cap freeMap = {} /\ freeMap \cup FileAt(s)' \subseteq op'.freeMap
    BY <2>1, <1>4, <1>5, <1>7, <1>20
  <2> QED BY <2>1, <2>3, <2>4, <2>5, <1>2, <1>20, Zenon DEF SectorInv
<1>22. HandleInv'
  BY <1>2, <1>11, <1>14, <1>18, Zenon DEF HandleInv
<1>23. ASSUME SmallFiles, ExactInv PROVE ExactInv'
  <2>1. op'.freeMap \subseteq freeMap \cup FileAt(s)'
    BY <1>5, <1>10, <1>20, <1>23, Zenon DEF SmallFiles
  <2>2. \A j \in Files : FileAt(directory[j].sector)' = FileAt(directory[j].sector)
    BY <1>2, <1>18, <1>19
  <2>3. \A t \in freeMap : t = 0 \/ \E j \in Files : t \in FileAt(directory[j].sector)'
    BY <2>2, <1>23, Zenon DEF ExactInv
  <2>4. op'.directory[op'.entry].sector = s
    BY <1>9, <1>10
  <2>5. (\A t \in freeMap : t = 0 \/ \E j \in Files : t \in FileAt(directory[j].sector))'
    BY <2>3, <1>2, <1>11, Zenon
  <2> QED BY <2>1, <2>4, <2>5, <1>2, Zenon DEF ExactInv
<1> QED BY <1>11, <1>14, <1>15, <1>16, <1>17, <1>21, <1>22, <1>23

\* FileSystem::Remove up to the write of the free map: the entry stops being a
\* file, and the sectors it frees are those of no other.
LEMMA RemoveKeeps ==
  ASSUME FSInv, NEW name \in Names, NotOpen(name), NotInterrupted(name), Remove(name)
  PROVE  /\ FSInv'
         /\ \E i \in Files : directory[i].name = name /\ Files' = Files \ {i}
         /\ ExactInv => ExactInv'
<1> USE DEF FSInv
<1>1. PICK i \in Entries :
       /\ IsFindIndex(directory, name, i)
       /\ block[directory[i].sector] \in Headers
       /\ freeMap' = freeMap \ (Values(block[directory[i].sector].dataSectors) \cup {directory[i].sector})
       /\ op' = [call |-> "Remove", entry |-> i,
                 directory |-> [directory EXCEPT ![i].inUse = FALSE],
                 freeMap |-> freeMap', next |-> "dir1"]
  BY Zenon DEF Remove
<1>2. op = NULL /\ UNCHANGED <<block, directory, handle, interrupted, crashes>>
  BY DEF Remove
<1> DEFINE s == directory[i].sector
           d == [directory EXCEPT ![i].inUse = FALSE]
<1>3. /\ i \in Files /\ directory[i].name = name
      /\ \A j \in Files : directory[j].name = name => j = i
  <2>1. i \in Files /\ directory[i].name = name
    BY <1>1, <1>2 DEF IsFindIndex, NotInterrupted, Files
  <2>2. \A j \in Files : j # i => i < j \/ j < i
    BY <2>1, FileSysAssumption DEF Files, Entries
  <2> QED BY <2>1, <2>2, Zenon DEF NameInv, Files
<1>4. d \in Directories /\ ~d[i].inUse /\ d[i].name = directory[i].name /\ \A j \in Entries \ {i} : d[j] = directory[j]
  BY Zenon DEF TypeOK, Directories, DirectoryEntry
<1>5. freeMap' = freeMap \ FileAt(s) /\ freeMap' \in SUBSET Sectors
  BY <1>1 DEF FileAt, TypeOK
<1> HIDE DEF s, d
<1>6. op' = [call |-> "Remove", entry |-> i, directory |-> d, freeMap |-> freeMap', next |-> "dir1"]
  BY <1>1, Zenon DEF d
<1>7. op' \in Operations /\ op' # NULL
  BY <1>4, <1>5, <1>6, FileSysAssumption DEF Operations
<1>8. Files' = Files \ {i}
  BY <1>2, <1>6, <1>7 DEF Files
<1>9. TypeOK'
  BY <1>2, <1>5, <1>7 DEF TypeOK
<1>10. OpInv'
  BY <1>2, <1>3, <1>4, <1>6, <1>7, Zenon DEF OpInv, Files
<1>11. NameInv'
  BY <1>2, <1>6, <1>8, Zenon DEF NameInv
<1>12. \A t \in Sectors : FileAt(t)' = FileAt(t) /\ (HeaderAt(t)' <=> HeaderAt(t))
  BY <1>2 DEF FileAt, HeaderAt
<1>13. \A j \in Files : directory[j].sector \in Sectors
  BY DEF TypeOK, Directories, DirectoryEntry, Files
<1>14. \A j \in Files \ {i} : FileAt(directory[j].sector) \cap FileAt(s) = {}
  BY <1>3, Zenon DEF SectorInv, s
<1>15. 0 \notin FileAt(s)
  BY <1>3, Zenon DEF SectorInv, s
<1>16. SectorInv'
  <2>1. 0 \in freeMap'
    BY <1>5, <1>15, Zenon DEF SectorInv
  <2>2. ASSUME NEW j \in Files'
        PROVE  /\ j \in Files \ {i} /\ directory'[j].sector = directory[j].sector
               /\ HeaderAt(directory[j].sector)' /\ FileAt(directory[j].sector)' = FileAt(directory[j].sector)
    <3>1. j \in Files \ {i} /\ directory'[j].sector = directory[j].sector
      BY <1>2, <1>8, <2>2, Zenon
    <3> QED BY <1>12, <1>13, <3>1, Zenon DEF SectorInv
  <2>3. ASSUME NEW j \in Files' PROVE FileAt(directory[j].sector) \subseteq freeMap' \ {0}
    <3>1. j \in Files \ {i} /\ FileAt(directory[j].sector) \subseteq freeMap \ {0}
      BY <2>2, Zenon DEF SectorInv
    <3> QED BY <1>5, <1>14, <3>1, Zenon
  <2>4. ASSUME NEW j \in Files', NEW k \in Files', j # k
        PROVE  FileAt(directory[j].sector) \cap FileAt(directory[k].sector) = {}
    BY <2>2, <2>4, Zenon DEF SectorInv
  <2>5. op'.call = "Remove" /\ "Remove" # "Create"
    BY <1>6, Zenon
  <2> QED BY <2>1, <2>2, <2>3, <2>4, <2>5, ZenonT(60) DEF SectorInv
<1>17. HandleInv'
  BY <1>2, <1>3, <1>8, Zenon DEF HandleInv, NotOpen
<1>18. ExactInv => ExactInv'
  <2> SUFFICES ASSUME ExactInv PROVE ExactInv'
    OBVIOUS
  <2>1. \A t \in freeMap' : t = 0 \/ \E j \in Files \ {i} : t \in FileAt(directory[j].sector)
    BY <1>5 DEF ExactInv, s
  <2>2. \A t \in freeMap' : t = 0 \/ \E j \in Files' : t \in FileAt(directory[j].sector)'
    BY <2>1, <1>2, <1>8, <1>12, <1>13
  <2> QED BY <2>2, <1>6 DEF ExactInv
<1> QED BY <1>3, <1>8, <1>9, <1>10, <1>11, <1>16, <1>17, <1>18

\* What is left of an invariant to show when a step changes no block, no marked
\* sector, no open file and no entry of a file, and adds no file.
LEMMA FilesUntouched ==
  ASSUME FSInv, TypeOK', OpInv', Files' = Files,
         \A j \in Files : directory'[j] = directory[j],
         UNCHANGED <<block, freeMap>>,
         handle' = handle \/ handle' = [h \in Handles |-> NULL],
         op' # NULL /\ op'.call = "Create" =>
           /\ op # NULL /\ op.call = "Create"
           /\ op'.entry = op.entry /\ op'.directory = op.directory /\ op'.freeMap = op.freeMap,
         \A i, j \in Entries :
           i < j /\ (j \in Files \/ (op' # NULL /\ op'.call = "Create" /\ j = op'.entry)) =>
             \/ directory'[i].name = directory[i].name
             \/ op # NULL /\ op.call = "Create" /\ i = op.entry /\ directory'[i].name = op.directory[i].name
  PROVE  FSInv' /\ (ExactInv => ExactInv')
<1> USE DEF FSInv
<1>1. \A t \in Sectors : FileAt(t)' = FileAt(t) /\ (HeaderAt(t)' <=> HeaderAt(t))
  BY Zenon DEF FileAt, HeaderAt
<1>2. \A j \in Files : directory[j].sector \in Sectors
  BY Zenon DEF TypeOK, Directories, DirectoryEntry, Files
<1>3. op # NULL => op.directory[op.entry].sector \in Sectors /\ op.entry \in Entries
  BY DEF TypeOK, Directories, DirectoryEntry, Operations
<1>4. Files \subseteq Entries
  BY Zenon DEF Files
<1>5. NameInv'
  <2>1. ASSUME NEW j \in Files, NEW i \in Entries, i < j
        PROVE  directory'[i].name # directory'[j].name
    BY <2>1, <1>4, SMTT(60) DEF NameInv
  <2>2. ASSUME op' # NULL, op'.call = "Create", NEW i \in Entries, i < op'.entry
        PROVE  directory'[i].name # op'.directory[op'.entry].name
    <3>1. i # op.entry
      BY <2>2, <1>3, FileSysAssumption DEF Entries
    <3> QED BY <2>2, <3>1, <1>3, Zenon DEF NameInv
  <2>3. ASSUME op' # NULL, op'.call = "Create", NEW j \in Files
        PROVE  directory'[j].name # op'.directory[op'.entry].name
    BY <2>3, Zenon DEF NameInv
  <2> QED BY <2>1, <2>2, <2>3, Zenon DEF NameInv
<1>6. SectorInv'
  <2>1. op' # NULL /\ op'.call = "Create" =>
          /\ op # NULL /\ op.call = "Create"
          /\ op'.entry = op.entry /\ op'.directory = op.directory /\ op'.freeMap = op.freeMap
    BY Zenon
  <2>2. \A j \in Files : /\ FileAt(directory[j].sector)' = FileAt(directory[j].sector)
                         /\ HeaderAt(directory[j].sector)' <=> HeaderAt(directory[j].sector)
    BY <1>1, <1>2, Zenon
  <2>3. op' # NULL /\ op'.call = "Create" =>
          /\ FileAt(op.directory[op.entry].sector)' = FileAt(op.directory[op.entry].sector)
          /\ HeaderAt(op.directory[op.entry].sector)' <=> HeaderAt(op.directory[op.entry].sector)
    BY <2>1, <1>1, <1>3, Zenon
  <2>7. /\ \A i \in Files : HeaderAt(directory[i].sector) /\ FileAt(directory[i].sector) \subseteq freeMap \ {0}
        /\ \A i, j \in Files : i # j => FileAt(directory[i].sector) \cap FileAt(directory[j].sector) = {}
    BY Zenon DEF SectorInv
  <2>4. (\A i \in Files : HeaderAt(directory[i].sector) /\ FileAt(directory[i].sector) \subseteq freeMap \ {0})'
    BY <2>2, <2>7
  <2>5. (\A i, j \in Files : i # j => FileAt(directory[i].sector) \cap FileAt(directory[j].sector) = {})'
    BY <2>2, <2>7
  <2>6. (op # NULL /\ op.call = "Create" =>
           /\ HeaderAt(op.directory[op.entry].sector)
           /\ FileAt(op.directory[op.entry].sector) \cap freeMap = {}
           /\ freeMap \cup FileAt(op.directory[op.entry].sector) \subseteq op.freeMap)'
    BY <2>1, <2>3, Zenon DEF SectorInv
  <2> QED BY <2>4, <2>5, <2>6, Zenon DEF SectorInv
<1>7. HandleInv'
  BY Zenon DEF HandleInv
<1>8. ExactInv => ExactInv'
  BY <1>1, <1>2, <1>3 DEF ExactInv
<1> QED BY <1>5, <1>6, <1>7, <1>8, Zenon

\* Directory::WriteBack writes the entries that the operation has not changed
\* as they were; the name cut off by the boundary is that of no earlier file.
LEMMA WriteDir1Keeps ==
  ASSUME FSInv, WriteDir1
  PROVE  /\ FSInv' /\ (ExactInv => ExactInv')
         /\ Files' = Files
         /\ \A j \in Files : directory'[j] = directory[j]
<1> USE DEF FSInv
<1>1. /\ op # NULL /\ op.next = "dir1" /\ op' = [op EXCEPT !.next = "dir2"]
      /\ UNCHANGED <<block, freeMap, handle, interrupted, crashes>>
  BY DEF WriteDir1
<1>2. op \in Operations /\ op.entry \in Entries /\ op.directory \in Directories
  BY <1>1 DEF TypeOK, Operations
<1>3. /\ op' \in Operations /\ op' # NULL /\ op'.next = "dir2"
      /\ op'.call = op.call /\ op'.entry = op.entry
      /\ op'.directory = op.directory /\ op'.freeMap = op.freeMap
  BY <1>1, <1>2, FileSysAssumption DEF Operations
<1>4. /\ DOMAIN directory' = Entries
      /\ \A i \in Entries :
        directory'[i] = (CASE i < Straddling -> op.directory[i]
                           [] i = Straddling -> [op.directory[i] EXCEPT !.name = directory[i].name]
                           [] OTHER          -> directory[i])
  BY DEF WriteDir1
<1>5. \A i \in Entries \ {op.entry} : directory'[i] = directory[i]
  <2> SUFFICES ASSUME NEW i \in Entries \ {op.entry} PROVE directory'[i] = directory[i]
    OBVIOUS
  <2>1. op.directory[i] = directory[i] /\ directory[i] \in DirectoryEntry
    BY <1>1 DEF OpInv, TypeOK, Directories
  <2>2. [directory[i] EXCEPT !.name = directory[i].name] = directory[i]
    BY <2>1 DEF DirectoryEntry
  <2> QED BY <2>1, <2>2, <1>4
<1>6. directory'[op.entry] \in DirectoryEntry
      /\ directory'[op.entry].name \in {directory[op.entry].name, op.directory[op.entry].name}
  <2> DEFINE e == op.entry
  <2>1. op.directory[e] \in DirectoryEntry /\ directory[e] \in DirectoryEntry
    BY <1>2 DEF TypeOK, Directories
  <2>2. directory'[e] \in {directory[e], op.directory[e], [op.directory[e] EXCEPT !.name = directory[e].name]}
    BY <1>2, <1>4, FileSysAssumption, Zenon DEF Entries
  <2> HIDE DEF e
  <2>3. directory'[e] \in DirectoryEntry /\ directory'[e].name \in {directory[e].name, op.directory[e].name}
    BY <2>1, <2>2 DEF DirectoryEntry
  <2> QED BY <2>3 DEF e
<1>7. \A i \in Entries : directory'[i] \in DirectoryEntry
  BY <1>5, <1>6 DEF TypeOK, Directories
<1>8. directory' \in Directories
  BY <1>4, <1>7 DEF WriteDir1, Directories
<1>9. TypeOK'
  BY <1>1, <1>3, <1>8 DEF TypeOK
<1>10. op.call = "Create" \/ directory'[op.entry].name = directory[op.entry].name
  BY <1>1, <1>2, <1>6 DEF OpInv, Operations
<1>11. OpInv'
  BY <1>1, <1>2, <1>3, <1>5, <1>10 DEF OpInv, TypeOK
<1>12. Files' = Files /\ \A j \in Files : directory'[j] = directory[j]
  BY <1>1, <1>3, <1>5 DEF Files
<1> QED BY <1>1, <1>3, <1>5, <1>6, <1>9, <1>10, <1>11, <1>12, FilesUntouched DEF Files

\* The second sector of the directory completes a Remove; a Create has still
\* its free map to write.
LEMMA WriteDir2Keeps ==
  ASSUME FSInv, WriteDir2
  PROVE  /\ FSInv' /\ (ExactInv => ExactInv')
         /\ Files' = Files
         /\ \A j \in Files : directory'[j] = directory[j]
<1> USE DEF FSInv
<1>1. /\ op # NULL /\ op.next = "dir2" /\ directory' = op.directory
      /\ op' = IF op.call = "Create" THEN [op EXCEPT !.next = "map"] ELSE NULL
      /\ UNCHANGED <<block, freeMap, handle, interrupted, crashes>>
  BY DEF WriteDir2
<1>2. /\ op \in Operations /\ op.entry \in Entries /\ op.directory \in Directories
      /\ op.call \in {"Create", "Remove"}
  BY <1>1 DEF TypeOK, Operations
<1>3. op.call = "Create" =>
        /\ op' \in Operations /\ op' # NULL /\ op'.next = "map"
        /\ op'.call = op.call /\ op'.entry = op.entry
        /\ op'.directory = op.directory /\ op'.freeMap = op.freeMap
  BY <1>1, <1>2, FileSysAssumption DEF Operations
<1>4. op.call = "Remove" => op' = NULL /\ ~directory'[op.entry].inUse
  BY <1>1 DEF OpInv
<1>5. \A i \in Entries \ {op.entry} : directory'[i] = directory[i]
  BY <1>1 DEF OpInv
<1>6. TypeOK'
  BY <1>1, <1>2, <1>3, <1>4, Zenon DEF TypeOK
<1>7. OpInv'
  BY <1>1, <1>2, <1>3, <1>4, <1>5 DEF OpInv, TypeOK
<1>8. Files' = Files /\ \A j \in Files : directory'[j] = directory[j]
  BY <1>1, <1>2, <1>3, <1>4, <1>5 DEF Files
<1>9. op.call = "Remove" => directory'[op.entry].name = directory[op.entry].name
  BY <1>1 DEF OpInv
<1> QED BY <1>1, <1>2, <1>3, <1>4, <1>5, <1>6, <1>7, <1>8, <1>9, FilesUntouched

\* BitMap::WriteBack at the end of Create makes the entry a file.
LEMMA WriteMapKeeps ==
  ASSUME FSInv, WriteMap
  PROVE  /\ FSInv' /\ (ExactInv => ExactInv')
         /\ op.entry \in Entries \ Files
         /\ Files' = Files \cup {op.entry}
         /\ \A j \in Files : directory[j].name # directory[op.entry].name
<1> USE DEF FSInv
<1>1. /\ op # NULL /\ op.next = "map" /\ freeMap' = op.freeMap /\ op' = NULL
      /\ UNCHANGED <<block, directory, handle, interrupted, crashes>>
  BY DEF WriteMap
<1> DEFINE e == op.entry
<1>2. e \in Entries /\ op.freeMap \in SUBSET Sectors
  BY <1>1 DEF TypeOK, Operations
<1>3. op.call = "Create" /\ directory = op.directory /\ directory[e].inUse /\ e \notin interrupted
  BY <1>1 DEF OpInv
<1>4. e \notin Files /\ Files' = Files \cup {e}
  BY <1>1, <1>2, <1>3, Zenon DEF Files
<1>5. /\ \A i \in Entries : i < e => directory[i].name # directory[e].name
      /\ \A j \in Files : directory[j].name # directory[e].name
  BY <1>1, <1>3, Zenon DEF NameInv
<1>6. /\ HeaderAt(directory[e].sector) /\ FileAt(directory[e].sector) \cap freeMap = {}
      /\ freeMap \cup FileAt(directory[e].sector) \subseteq op.freeMap
  BY <1>1, <1>3 DEF SectorInv
<1> HIDE DEF e
<1>7. TypeOK'
  BY <1>1, <1>2, Zenon DEF TypeOK
<1>8. OpInv' /\ NameInv'
  BY <1>1, <1>4, <1>5, ZenonT(60) DEF OpInv, NameInv
<1>9. \A t \in Sectors : FileAt(t)' = FileAt(t) /\ (HeaderAt(t)' <=> HeaderAt(t))
  BY <1>1 DEF FileAt, HeaderAt
<1>10. \A j \in Entries : directory[j].sector \in Sectors
  BY DEF TypeOK, Directories, DirectoryEntry
<1>11. Files \subseteq Entries
  BY Zenon DEF Files
<1>12. SectorInv'
  <2>1. \A j \in Files' : /\ FileAt(directory[j].sector)' = FileAt(directory[j].sector)
                          /\ HeaderAt(directory[j].sector)' <=> HeaderAt(directory[j].sector)
    BY <1>1, <1>2, <1>4, <1>9, <1>10, <1>11, Zenon
  <2>2. \A j \in Files' : /\ HeaderAt(directory[j].sector)
                          /\ FileAt(directory[j].sector) \subseteq op.freeMap \ {0}
    <3>1. 0 \in freeMap /\ \A j \in Files : /\ HeaderAt(directory[j].sector)
                                            /\ FileAt(directory[j].sector) \subseteq freeMap \ {0}
      BY Zenon DEF SectorInv
    <3> QED BY <3>1, <1>4, <1>6
  <2>3. \A i, j \in Files' : i # j => FileAt(directory[i].sector) \cap FileAt(directory[j].sector) = {}
    <3>1. /\ \A j \in Files : FileAt(directory[j].sector) \subseteq freeMap
          /\ \A i, j \in Files : i # j => FileAt(directory[i].sector) \cap FileAt(directory[j].sector) = {}
      BY Zenon DEF SectorInv
    <3> QED BY <3>1, <1>4, <1>6
  <2>4. 0 \in op.freeMap
    BY <1>6, Zenon DEF SectorInv
  <2>5. (\A i \in Files : HeaderAt(directory[i].sector) /\ FileAt(directory[i].sector) \subseteq freeMap \ {0})'
    BY <2>1, <2>2, <1>1, Zenon
  <2>6. (\A i, j \in Files : i # j => FileAt(directory[i].sector) \cap FileAt(directory[j].sector) = {})'
    BY <2>1, <2>3, Zenon
  <2> QED BY <2>4, <2>5, <2>6, <1>1, Zenon DEF SectorInv
<1>13. HandleInv'
  BY <1>1, <1>4 DEF HandleInv
<1>14. ExactInv => ExactInv'
  <2> SUFFICES ASSUME ExactInv PROVE ExactInv'
    OBVIOUS
  <2>1. op.freeMap \subseteq freeMap \cup FileAt(directory[e].sector)
    BY <1>1, <1>3 DEF ExactInv, e
  <2>2. \A t \in freeMap' : t = 0 \/ \E j \in Files' : t \in FileAt(directory[j].sector)
    BY <2>1, <1>1, <1>4 DEF ExactInv
  <2>3. \A t \in freeMap' : t = 0 \/ \E j \in Files' : t \in FileAt(directory[j].sector)'
    BY <2>2, <1>1, <1>2, <1>4, <1>9, <1>10, <1>11
  <2> QED BY <2>3, <1>1 DEF ExactInv
<1> QED BY <1>2, <1>4, <1>5, <1>7, <1>8, <1>12, <1>13, <1>14 DEF e

\* FileSystem::Open reads the header of a file.
LEMMA OpenKeeps ==
  ASSUME FSInv, NEW name \in Names, NEW h \in Handles, NotInterrupted(name), Open(h, name)
  PROVE  FSInv' /\ (ExactInv => ExactInv') /\ Files' = Files
<1> USE DEF FSInv
<1>1. PICK i \in Entries :
       /\ IsFindIndex(directory, name, i)
       /\ block[directory[i].sector] \in Headers
       /\ handle' = [handle EXCEPT ![h] = [name |-> name, hdr |-> block[directory[i].sector]]]
  BY Zenon DEF Open
<1>2. op = NULL /\ UNCHANGED <<block, freeMap, directory, op, interrupted, crashes>>
  BY DEF Open
<1>3. i \in Files /\ directory[i].name = name
  BY <1>1, <1>2, Zenon DEF IsFindIndex, NotInterrupted, Files
<1> DEFINE f == [name |-> name, hdr |-> block[directory[i].sector]]
<1>4. f \in OpenFiles /\ f.name = name /\ f.hdr = block[directory[i].sector]
  BY <1>1, Zenon DEF OpenFiles
<1> HIDE DEF f
<1>5. handle' = [handle EXCEPT ![h] = f]
  BY <1>1, Zenon DEF f
<1>6. TypeOK'
  BY <1>2, <1>4, <1>5, Zenon DEF TypeOK
<1>7. Files' = Files /\ OpInv' /\ NameInv'
  BY <1>2, Zenon DEF Files, OpInv, NameInv
<1>8. SectorInv' /\ (ExactInv => ExactInv')
  <2>1. \A t : FileAt(t)' = FileAt(t) /\ (HeaderAt(t)' <=> HeaderAt(t))
    BY <1>2, Zenon DEF FileAt, HeaderAt
  <2>2. SectorInv'
    BY <2>1, <1>2, <1>7, Zenon DEF SectorInv
  <2>3. ExactInv => ExactInv'
    BY <2>1, <1>2, <1>7, Zenon DEF ExactInv
  <2> QED BY <2>2, <2>3
<1>9. HandleInv'
  BY <1>2, <1>3, <1>4, <1>5, <1>7 DEF HandleInv, TypeOK
<1> QED BY <1>6, <1>7, <1>8, <1>9

\* delete openFile.
LEMMA CloseKeeps ==
  ASSUME FSInv, NEW h \in Handles, Close(h)
  PROVE  FSInv' /\ (ExactInv => ExactInv') /\ Files' = Files
<1> USE DEF FSInv
<1>1. /\ handle' = [handle EXCEPT ![h] = NULL]
      /\ UNCHANGED <<block, freeMap, directory, op, interrupted, crashes>>
  BY DEF Close
<1>2. TypeOK'
  BY <1>1, Zenon DEF TypeOK
<1>3. Files' = Files /\ OpInv' /\ NameInv'
  BY <1>1, Zenon DEF Files, OpInv, NameInv
<1>4. SectorInv' /\ (ExactInv => ExactInv')
  <2>1. \A t : FileAt(t)' = FileAt(t) /\ (HeaderAt(t)' <=> HeaderAt(t))
    BY <1>1, Zenon DEF FileAt, HeaderAt
  <2>2. SectorInv'
    BY <2>1, <1>1, <1>3, Zenon DEF SectorInv
  <2>3. ExactInv => ExactInv'
    BY <2>1, <1>1, <1>3, Zenon DEF ExactInv
  <2> QED BY <2>2, <2>3
<1>5. HandleInv'
  BY <1>1, <1>3, Zenon DEF HandleInv, TypeOK
<1> QED BY <1>2, <1>3, <1>4, <1>5

\* OpenFile::WriteAt reaches one block of the file it was opened on, and no
\* header.
LEMMA WriteBlockKeeps ==
  ASSUME FSInv, NEW h \in Handles, NEW d \in Data, NEW k \in 1 .. NumDirect, WriteBlock(h, k, d)
  PROVE  /\ FSInv' /\ (ExactInv => ExactInv') /\ Files' = Files
         /\ \E i \in Files :
              /\ k \in DOMAIN block[directory[i].sector].dataSectors
              /\ block' = [block EXCEPT ![block[directory[i].sector].dataSectors[k]] = d]
<1> USE DEF FSInv
<1>1. /\ handle[h] # NULL /\ k \in DOMAIN handle[h].hdr.dataSectors
      /\ block' = [block EXCEPT ![handle[h].hdr.dataSectors[k]] = d]
  BY Zenon DEF WriteBlock
<1>0. UNCHANGED <<freeMap, directory, op, handle, interrupted, crashes>> /\ op = NULL
  BY DEF WriteBlock
<1>2. PICK i \in Files : block[directory[i].sector] = handle[h].hdr
  BY <1>1 DEF HandleInv
<1> DEFINE q == block[directory[i].sector].dataSectors
           r == q[k]
<1>3. k \in DOMAIN q /\ block' = [block EXCEPT ![r] = d]
  BY <1>1, <1>2
<1>4. r \in Values(q)
  BY <1>3, Zenon DEF Values
<1>5. \A j \in Files : directory[j].sector # r
  <2> SUFFICES ASSUME NEW j \in Files PROVE directory[j].sector # r
    BY Zenon
  <2>1. r \in FileAt(directory[i].sector) /\ directory[j].sector \in FileAt(directory[j].sector)
    BY <1>4, Zenon DEF FileAt
  <2>2. r # directory[i].sector
    BY <1>4, Zenon DEF SectorInv, HeaderAt
  <2> QED BY <2>1, <2>2, Zenon DEF SectorInv
<1> HIDE DEF r, q
<1>6. \A j \in Files : directory[j].sector \in Sectors
  BY Zenon DEF TypeOK, Directories, DirectoryEntry, Files
<1>7. \A j \in Files : block'[directory[j].sector] = block[directory[j].sector]
  BY <1>3, <1>5, <1>6, Zenon DEF TypeOK
<1>8. TypeOK'
  <2>1. block' \in [Sectors -> Headers \cup Data]
    BY <1>3, Zenon DEF TypeOK
  <2> QED BY <2>1, <1>0 DEF TypeOK
<1>9. Files' = Files /\ OpInv' /\ NameInv'
  BY <1>0, ZenonT(60) DEF Files, OpInv, NameInv
<1>10. \A j \in Files : /\ FileAt(directory[j].sector)' = FileAt(directory[j].sector)
                        /\ HeaderAt(directory[j].sector)' <=> HeaderAt(directory[j].sector)
  <2> SUFFICES ASSUME NEW j \in Files
               PROVE  /\ FileAt(directory[j].sector)' = FileAt(directory[j].sector)
                      /\ HeaderAt(directory[j].sector)' <=> HeaderAt(directory[j].sector)
    BY Zenon
  <2>1. directory' = directory /\ block'[directory[j].sector] = block[directory[j].sector]
    BY <1>0, <1>7, Zenon
  <2>2. FileAt(directory[j].sector)' = FileAt(directory[j].sector)
    BY <2>1, Zenon DEF FileAt
  <2>3. HeaderAt(directory[j].sector)' <=> HeaderAt(directory[j].sector)
    BY <2>1, Zenon DEF HeaderAt
  <2> QED BY <2>2, <2>3, Zenon
<1>11. SectorInv' /\ (ExactInv => ExactInv')
  <2>1. SectorInv'
    BY <1>0, <1>9, <1>10, ZenonT(60) DEF SectorInv
  <2>2. ExactInv => ExactInv'
    BY <1>0, <1>9, <1>10, Zenon DEF ExactInv
  <2> QED BY <2>1, <2>2, Zenon
<1>12. HandleInv'
  BY <1>0, <1>7, <1>9, Zenon DEF HandleInv
<1> QED BY <1>3, <1>8, <1>9, <1>11, <1>12, Zenon DEF r, q

\* A crash loses no file: the entry of the operation that it cuts short was
\* none.
LEMMA CrashKeeps ==
  ASSUME FSInv, Crash
  PROVE  FSInv' /\ (ExactInv => ExactInv') /\ Files' = Files
<1> USE DEF FSInv
<1>1. /\ crashes' = crashes + 1 /\ crashes < MaxCrashes
      /\ interrupted' = IF op # NULL /\ directory[op.entry].inUse
                          THEN interrupted \cup {op.entry} ELSE interrupted
      /\ op' = NULL
      /\ handle' = [h \in Handles |-> NULL]
      /\ UNCHANGED <<block, freeMap, directory>>
  BY DEF Crash
<1>2. op # NULL => op.entry \in Entries
  BY Zenon DEF TypeOK, Operations
<1>3. TypeOK'
  <2>1. crashes' \in 0 .. MaxCrashes
    BY <1>1, FileSysAssumption DEF TypeOK
  <2>2. interrupted' \subseteq Entries
    BY <1>1, <1>2, Zenon DEF TypeOK
  <2> QED BY <2>1, <2>2, <1>1, Zenon DEF TypeOK
<1>4. OpInv'
  BY <1>1, Zenon DEF OpInv
<1>5. Files' = Files
  BY <1>1, <1>2 DEF Files
<1> QED BY <1>1, <1>3, <1>4, <1>5, FilesUntouched, Zenon

\* Every step keeps the invariant and, for files that fit their headers, the
\* exactness of the free map.
LEMMA StepKeeps ==
  ASSUME FSInv, [Next]_vars
  PROVE  FSInv' /\ (SmallFiles /\ ExactInv => ExactInv')
<1>1. CASE UNCHANGED vars
  <2>1. TypeOK' /\ OpInv' /\ Files' = Files
    BY <1>1, Zenon DEF vars, FSInv, TypeOK, OpInv, Files
  <2> QED BY <1>1, <2>1, FilesUntouched, Zenon DEF vars
<1>2. ASSUME NEW name \in Names, NEW n \in Sizes, Create(name, n) \/ CreateFails(name, n)
      PROVE  FSInv' /\ (SmallFiles /\ ExactInv => ExactInv')
  BY <1>1, <1>2, CreateKeeps, Zenon DEF CreateFails
<1>3. ASSUME NEW name \in Names, NotOpen(name), NotInterrupted(name), Remove(name)
      PROVE  FSInv' /\ (SmallFiles /\ ExactInv => ExactInv')
  BY <1>3, RemoveKeeps, Zenon
<1>4. CASE WriteDir1 \/ WriteDir2 \/ WriteMap \/ Crash
  BY <1>4, WriteDir1Keeps, WriteDir2Keeps, WriteMapKeeps, CrashKeeps, Zenon
<1>5. ASSUME NEW name \in Names, NEW h \in Handles, NotInterrupted(name), Open(h, name)
      PROVE  FSInv' /\ (SmallFiles /\ ExactInv => ExactInv')
  BY <1>5, OpenKeeps, Zenon
<1>6. ASSUME NEW h \in Handles, Close(h)
      PROVE  FSInv' /\ (SmallFiles /\ ExactInv => ExactInv')
  BY <1>6, CloseKeeps, Zenon
<1>7. ASSUME NEW h \in Handles, NEW d \in Data, NEW k \in 1 .. NumDirect, WriteBlock(h, k, d)
      PROVE  FSInv' /\ (SmallFiles /\ ExactInv => ExactInv')
  BY <1>7, WriteBlockKeeps, Zenon
<1> QED BY <1>1, <1>2, <1>3, <1>4, <1>5, <1>6, <1>7, Zenon DEF Next

\* The invariant holds in every reachable state.
LEMMA FSInvariant == Spec => []FSInv
<1>1. Init => FSInv
  BY InitFS
<1>2. FSInv /\ [Next]_vars => FSInv'
  BY StepKeeps
<1> QED BY <1>1, <1>2, PTL DEF Spec

\* Create, Remove, WriteAt and crashes, however they interleave, leave every
\* file with its header, found under its name, with its sectors marked and its
\* own.
THEOREM FilesStayIntact == Spec => []FilesIntact
<1>1. FSInv => FilesIntact
  <2> SUFFICES ASSUME FSInv, NEW i \in Files
               PROVE  /\ block[directory[i].sector] \in Headers
                      /\ IsFindIndex(directory, directory[i].name, i)
                      /\ SectorsOf(i) \subseteq freeMap \ {0}
                      /\ \A j \in Files \ {i} : SectorsOf(i) \cap SectorsOf(j) = {}
    BY Zenon DEF FilesIntact
  <2>1. \A j : SectorsOf(j) = FileAt(directory[j].sector)
    BY Zenon  DEF SectorsOf, FileAt
  <2>2. IsFindIndex(directory, directory[i].name, i)
    BY FileSysAssumption DEF FSInv, NameInv, IsFindIndex, Files, Entries
  <2> QED BY <2>1, <2>2, Zenon DEF FSInv, SectorInv, HeaderAt
<1> QED BY <1>1, FSInvariant, PTL

\* As long as every file fits the pointers of its header, no sequence of
\* operations and crashes loses a sector of the disk.
THEOREM NoSectorLost ==
  ASSUME SmallFiles
  PROVE  Spec => []FreeMapExact
<1>1. Init => FSInv /\ ExactInv
  BY InitFS
<1>2. FSInv /\ ExactInv /\ [Next]_vars => (FSInv /\ ExactInv)'
  BY StepKeeps
<1>3. FSInv /\ ExactInv => FreeMapExact
  <2> SUFFICES ASSUME FSInv, ExactInv PROVE freeMap = {0} \cup UNION {SectorsOf(i) : i \in Files}
    BY DEF FreeMapExact
  <2>1. \A i : SectorsOf(i) = FileAt(directory[i].sector)
    BY Zenon DEF SectorsOf, FileAt
  <2>2. \A i \in Files : SectorsOf(i) \subseteq freeMap
    BY <2>1 DEF FSInv, SectorInv
  <2>3. \A s \in freeMap : s = 0 \/ \E i \in Files : s \in SectorsOf(i)
    BY <2>1, Zenon DEF ExactInv
  <2>4. 0 \in freeMap
    BY Zenon DEF FSInv, SectorInv
  <2> QED BY <2>2, <2>3, <2>4, Zenon
<1> QED BY <1>1, <1>2, <1>3, PTL DEF Spec
-----------------------------------------------------------------------------
\* The blocks of entry i, in order.
Blocks(i) ==
  [k \in DOMAIN block[directory[i].sector].dataSectors |->
     block[block[directory[i].sector].dataSectors[k]]]

\* FilesByName has the blocks of each file under the file's name.
Named ==
  /\ FilesByName = [name \in DOMAIN FilesByName |-> FilesByName[name]]
  /\ DOMAIN FilesByName = {directory[i].name : i \in Files}
  /\ \A i \in Files : FilesByName[directory[i].name] = Blocks(i)
  /\ \A i, j \in Files : directory[i].name = directory[j].name => i = j

\* The names of the files are all different, so FilesByName is what it seems.
LEMMA ByName == FSInv => Named
<1> SUFFICES ASSUME FSInv PROVE Named
  BY Zenon
<1>1. \A i, j \in Files : directory[i].name = directory[j].name => i = j
  <2>1. \A i, j \in Files : i = j \/ i < j \/ j < i
    BY FileSysAssumption, SMTT(60) DEF Files, Entries
  <2> QED BY <2>1 DEF FSInv, NameInv, Files
<1>2. /\ FilesByName = [name \in DOMAIN FilesByName |-> FilesByName[name]]
      /\ DOMAIN FilesByName = {directory[i].name : i \in Files}
  BY Zenon DEF FilesByName
<1>3. ASSUME NEW i \in Files
      PROVE  FilesByName[directory[i].name] = Blocks(i)
  <2> DEFINE c == CHOOSE j \in Files : directory[j].name = directory[i].name
  <2>1. c = i
    BY <1>1
  <2>2. FilesByName[directory[i].name] = Blocks(c)
    BY Zenon DEF FilesByName, Blocks
  <2> QED BY <2>1, <2>2, Zenon
<1> QED BY <1>1, <1>2, <1>3 DEF Named

\* A step that leaves the names and the blocks of the files alone does nothing
\* that a caller can see.
LEMMA StoreStutters ==
  ASSUME FSInv, FSInv', Files' = Files,
         \A j \in Files : directory'[j].name = directory[j].name /\ Blocks(j)' = Blocks(j)
  PROVE  FilesByName' = FilesByName
<1>1. Named /\ Named'
  BY ByName, PTL
<1>2. DOMAIN FilesByName' = DOMAIN FilesByName
  BY <1>1, SMTT(60) DEF Named
<1>3. \A name \in DOMAIN FilesByName : FilesByName'[name] = FilesByName[name]
  BY <1>1, <1>2, SMTT(60) DEF Named
<1>4. /\ FilesByName = [name \in DOMAIN FilesByName |-> FilesByName[name]]
      /\ FilesByName' = [name \in DOMAIN FilesByName' |-> FilesByName'[name]]
  BY <1>1, Zenon DEF Named
<1> QED BY <1>2, <1>3, <1>4

\* The last write of Create makes the file appear, with whatever its blocks
\* hold.
LEMMA StoreCreates ==
  ASSUME FSInv, WriteMap
  PROVE  \E name \in Names : Store!Create(name)
<1>1. FSInv' /\ op.entry \in Entries \ Files /\ Files' = Files \cup {op.entry}
      /\ \A j \in Files : directory[j].name # directory[op.entry].name
  BY WriteMapKeeps
<1>2. Named /\ Named'
  BY <1>1, ByName, PTL
<1> DEFINE e == op.entry
           new == directory[e].name
<1>3. UNCHANGED <<block, directory>>
  BY Zenon DEF WriteMap
<1>4. new \in Names
  BY <1>1 DEF FSInv, TypeOK, Directories, DirectoryEntry
<1>5. \A j \in Files : Blocks(j)' = Blocks(j)
  BY <1>3 DEF Blocks
<1> HIDE DEF e
<1>6. new \notin DOMAIN FilesByName /\ DOMAIN FilesByName' = DOMAIN FilesByName \cup {new}
  BY <1>1, <1>2, <1>3, SMTT(60) DEF Named, e
<1>7. \A m \in DOMAIN FilesByName : FilesByName'[m] = FilesByName[m]
  BY <1>1, <1>2, <1>3, <1>5, SMTT(60) DEF Named
<1> QED BY <1>4, <1>6, <1>7 DEF Store!Create

\* The first write of Remove makes the file disappear, and no other.
LEMMA StoreRemoves ==
  ASSUME FSInv, NEW name \in Names, NotOpen(name), NotInterrupted(name), Remove(name)
  PROVE  Store!Remove(name)
<1>1. FSInv' /\ \E i \in Files : directory[i].name = name /\ Files' = Files \ {i}
  BY RemoveKeeps
<1>2. PICK i \in Files : directory[i].name = name /\ Files' = Files \ {i}
  BY <1>1
<1>3. Named /\ Named'
  BY <1>1, ByName, PTL
<1>4. UNCHANGED <<block, directory>>
  BY DEF Remove
<1>5. \A j \in Files : Blocks(j)' = Blocks(j)
  BY <1>4, Zenon DEF Blocks
<1>6. name \in DOMAIN FilesByName /\ DOMAIN FilesByName' = DOMAIN FilesByName \ {name}
  BY <1>2, <1>3, <1>4, SMTT(60) DEF Named
<1>7. \A m \in DOMAIN FilesByName' : FilesByName'[m] = FilesByName[m]
  BY <1>2, <1>3, <1>4, <1>5, SMTT(60) DEF Named
<1>8. FilesByName' = [m \in DOMAIN FilesByName' |-> FilesByName'[m]]
  BY <1>3 DEF Named
<1>9. FilesByName' = [m \in DOMAIN FilesByName \ {name} |-> FilesByName[m]]
  BY <1>6, <1>7, <1>8
<1> QED BY <1>6, <1>9 DEF Store!Remove

\* WriteAt writes one block of one file: the sectors of the files are apart.
LEMMA StoreWrites ==
  ASSUME FSInv, NEW h \in Handles, NEW d \in Data, NEW k \in 1 .. NumDirect, WriteBlock(h, k, d)
  PROVE  \E name \in Names : name \in DOMAIN FilesByName /\ k \in DOMAIN FilesByName[name] /\ Store!Write(name, k, d)
<1>1. /\ FSInv' /\ Files' = Files
      /\ \E i \in Files :
           /\ k \in DOMAIN block[directory[i].sector].dataSectors
           /\ block' = [block EXCEPT ![block[directory[i].sector].dataSectors[k]] = d]
  BY WriteBlockKeeps, Zenon
<1>2. PICK i \in Files :
           /\ k \in DOMAIN block[directory[i].sector].dataSectors
           /\ block' = [block EXCEPT ![block[directory[i].sector].dataSectors[k]] = d]
  BY <1>1, Zenon
<1>3. Named /\ Named'
  BY <1>1, ByName, PTL
<1>4. directory' = directory
  BY Zenon  DEF WriteBlock
<1> DEFINE q(j) == block[directory[j].sector].dataSectors
           r == q(i)[k]
           name == directory[i].name
<1>5. /\ \A j \in Files : HeaderAt(directory[j].sector) /\ directory[j].sector \in Sectors
      /\ \A j \in Files : q(j) \in [DOMAIN q(j) -> Sectors]
  <2>1. \A j \in Files : HeaderAt(directory[j].sector)
    BY Zenon  DEF FSInv, SectorInv
  <2>2. \A j \in Files : directory[j].sector \in Sectors
    BY DEF FSInv, TypeOK, Directories, DirectoryEntry, Files
  <2>3. \A j \in Files : q(j) \in [DOMAIN q(j) -> Sectors]
    BY <2>1, HeaderFacts, Zenon DEF HeaderAt
  <2> QED BY <2>1, <2>2, <2>3, Zenon
<1>6. \A j \in Files \ {i} : r # directory[j].sector /\ \A l \in DOMAIN q(j) : r # q(j)[l]
  <2> SUFFICES ASSUME NEW j \in Files \ {i} PROVE r # directory[j].sector /\ \A l \in DOMAIN q(j) : r # q(j)[l]
    BY Zenon
  <2>1. r \in FileAt(directory[i].sector)
    BY <1>2, Zenon DEF FileAt, Values
  <2>2. r \notin FileAt(directory[j].sector)
    BY <2>1, Zenon DEF FSInv, SectorInv
  <2> QED BY <2>2, Zenon DEF FileAt, Values
<1>7. r # directory[i].sector /\ \A l \in DOMAIN q(i) : l # k => r # q(i)[l]
  <2>1. k \in DOMAIN q(i)
    BY <1>2
  <2>2. HeaderAt(directory[i].sector)
    BY <1>5, Zenon
  <2> QED BY <2>1, <2>2, Zenon DEF HeaderAt, Values
<1>8. r \in Sectors /\ block' = [block EXCEPT ![r] = d] /\ block \in [Sectors -> Headers \cup Data]
  BY <1>2, <1>5, Zenon DEF FSInv, TypeOK
<1>9. \A j \in Files : block'[directory[j].sector] = block[directory[j].sector]
  BY <1>5, <1>6, <1>7, <1>8, Zenon
<1>10. \A j \in Files \ {i} : Blocks(j)' = Blocks(j)
  <2> SUFFICES ASSUME NEW j \in Files \ {i} PROVE Blocks(j)' = Blocks(j)
    BY Zenon
  <2>1. \A l \in DOMAIN q(j) : block'[q(j)[l]] = block[q(j)[l]]
    BY <1>5, <1>6, <1>8, Zenon
  <2> QED BY <2>1, <1>4, <1>9, Zenon DEF Blocks
<1>11. Blocks(i)' = [Blocks(i) EXCEPT ![k] = d] /\ k \in DOMAIN Blocks(i)
  <2>1. \A l \in DOMAIN q(i) : block'[q(i)[l]] = IF l = k THEN d ELSE block[q(i)[l]]
    BY <1>5, <1>7, <1>8, Zenon
  <2> QED BY <2>1, <1>2, <1>4, <1>9, ZenonT(60) DEF Blocks
<1> HIDE DEF name
<1>12. name \in DOMAIN FilesByName /\ DOMAIN FilesByName' = DOMAIN FilesByName /\ FilesByName[name] = Blocks(i)
  <2>1. name \in DOMAIN FilesByName /\ FilesByName[name] = Blocks(i)
    BY <1>3, Zenon DEF Named, name
  <2>2. /\ DOMAIN FilesByName = {directory[j].name : j \in Files}
        /\ DOMAIN FilesByName' = {directory'[j].name : j \in Files'}
    BY <1>3, Zenon DEF Named
  <2>3. DOMAIN FilesByName' = DOMAIN FilesByName
    BY <1>1, <1>4, <2>2, Zenon
  <2> QED BY <2>1, <2>3, Zenon
<1>13. \A m \in DOMAIN FilesByName : FilesByName'[m] = IF m = name THEN [FilesByName[name] EXCEPT ![k] = d] ELSE FilesByName[m]
  <2> SUFFICES ASSUME NEW m \in DOMAIN FilesByName
               PROVE  FilesByName'[m] = IF m = name THEN [FilesByName[name] EXCEPT ![k] = d] ELSE FilesByName[m]
    OBVIOUS
  <2>1. PICK j \in Files : m = directory[j].name
    BY <1>3, Zenon DEF Named
  <2>2. FilesByName'[m] = Blocks(j)' /\ FilesByName[m] = Blocks(j) /\ (m = name <=> j = i)
    BY <2>1, <1>1, <1>3, <1>4, Zenon DEF Named, name
  <2>3. CASE j = i
    BY <2>2, <2>3, <1>11
  <2>4. CASE j # i
    BY <2>2, <2>4, <1>10
  <2> QED BY <2>3, <2>4, SMTT(60)
<1>14. FilesByName' = [FilesByName EXCEPT ![name] = [FilesByName[name] EXCEPT ![k] = d]]
  BY <1>3, <1>12, <1>13, Zenon DEF Named
<1>15. name \in Names
  BY DEF FSInv, TypeOK, Directories, DirectoryEntry, Files, name
<1>16. Store!Write(name, k, d)
  BY <1>11, <1>12, <1>14 DEF Store!Write
<1> QED BY <1>11, <1>12, <1>15, <1>16, Zenon

\* Every step of the file system is a step of FileStore or one that a caller
\* cannot see.
LEMMA StoreSteps ==
  ASSUME FSInv, [Next]_vars
  PROVE  [Store!Next]_FilesByName
<1>1. FSInv'
  BY StepKeeps
<1>2. ASSUME Files' = Files, block' = block, \A j \in Files : directory'[j] = directory[j]
      PROVE  FilesByName' = FilesByName
  <2>1. \A j \in Files : directory'[j].name = directory[j].name /\ Blocks(j)' = Blocks(j)
    BY <1>2 DEF Blocks
  <2> QED BY <1>1, <1>2, <2>1, StoreStutters, Zenon
<1>3. ASSUME UNCHANGED vars
      PROVE  FilesByName' = FilesByName
  <2>1. Files' = Files /\ block' = block /\ directory' = directory
    BY <1>3, Zenon DEF vars, Files
  <2> QED BY <1>2, <2>1
<1>4. ASSUME NEW name \in Names, NEW n \in Sizes, Create(name, n)
      PROVE  FilesByName' = FilesByName
  <2>1. Files' = Files /\ directory' = directory /\ \A t \in freeMap : block'[t] = block[t]
    BY <1>4, CreateKeeps, ZenonT(60) DEF Create
  <2>2. \A j \in Files : /\ HeaderAt(directory[j].sector) /\ directory[j].sector \in freeMap
                         /\ \A k \in DOMAIN block[directory[j].sector].dataSectors :
                              block[directory[j].sector].dataSectors[k] \in freeMap
    BY Zenon DEF FSInv, SectorInv, FileAt, Values
  <2>3. \A j \in Files : Blocks(j)' = Blocks(j)
    BY <2>1, <2>2, Zenon DEF Blocks
  <2> QED BY <1>1, <2>1, <2>3, StoreStutters, SMTT(60)
<1>5. ASSUME NEW name \in Names, NEW n \in Sizes, CreateFails(name, n)
      PROVE  FilesByName' = FilesByName
  BY <1>3, <1>5 DEF CreateFails
<1>6. ASSUME NEW name \in Names, NotOpen(name), NotInterrupted(name), Remove(name)
      PROVE  Store!Next
  BY <1>6, StoreRemoves, SMTT(60) DEF Store!Next
<1>7. CASE WriteDir1 \/ WriteDir2
  <2>1. Files' = Files /\ (\A j \in Files : directory'[j] = directory[j]) /\ block' = block
    BY <1>7, WriteDir1Keeps, WriteDir2Keeps DEF WriteDir1, WriteDir2
  <2> QED BY <1>2, <2>1
<1>8. CASE WriteMap
  BY <1>8, StoreCreates, SMTT(60) DEF Store!Next
<1>9. ASSUME NEW name \in Names, NEW h \in Handles, NotInterrupted(name), Open(h, name)
      PROVE  FilesByName' = FilesByName
  BY <1>2, <1>9, OpenKeeps, Zenon DEF Open
<1>10. ASSUME NEW h \in Handles, Close(h)
       PROVE  FilesByName' = FilesByName
  BY <1>2, <1>10, CloseKeeps, Zenon DEF Close
<1>11. ASSUME NEW h \in Handles, NEW d \in Data, NEW k \in 1 .. NumDirect, WriteBlock(h, k, d)
       PROVE  Store!Next
  BY <1>11, StoreWrites, Zenon DEF Store!Next
<1>12. CASE Crash
  BY <1>2, <1>12, CrashKeeps DEF Crash
<1> QED BY <1>3, <1>4, <1>5, <1>6, <1>7, <1>8, <1>9, <1>10, <1>11, <1>12, Zenon DEF Next

\* The file system implements FileStore: files appear and disappear at once, a
\* write changes one block of one file, and a crash changes nothing.
THEOREM FileSysImplementsStore == Spec => StoreSpec
<1>1. Init => Store!Init
  <2> SUFFICES ASSUME Init PROVE Store!Init
    OBVIOUS
  <2>1. Files = {}
    BY DEF Init, Files
  <2> QED BY <2>1 DEF Store!Init, FilesByName
<1>2. FSInv /\ [Next]_vars => [Store!Next]_FilesByName
  BY StoreSteps
<1> QED BY <1>1, <1>2, FSInvariant, PTL DEF Spec, StoreSpec, Store!Spec
-----------------------------------------------------------------------------
(* Division. *)

\* The products of a positive number grow with the other factor.
LEMMA Multiples ==
  ASSUME NEW d \in Nat \ {0}, NEW p \in Int, NEW q \in Int, p < q
  PROVE  d * p + d <= d * q
<1>1. d * (p + 1) <= d * q
  BY SMT
<1>2. d * (p + 1) = d * p + d
  BY SMT
<1>3. d * p \in Int /\ d * q \in Int
  BY SMT
<1> QED BY <1>1, <1>2, <1>3, SMT

\* The same for natural numbers, not strictly.
LEMMA Products ==
  ASSUME NEW d \in Nat \ {0}, NEW p \in Nat, NEW q \in Nat, p <= q
  PROVE  p * d \in Nat /\ q * d \in Nat /\ p * d <= q * d
BY SMT

\* The quotient and the remainder of a number.
LEMMA DivMod ==
  ASSUME NEW n \in Nat, NEW d \in Nat \ {0}
  PROVE  n \div d \in Nat /\ n % d \in 0 .. d - 1 /\ n = d * (n \div d) + (n % d)
<1>1. n % d \in 0 .. d - 1
  BY SMT
<1>2. n = d * (n \div d) + (n % d)
  BY SMT
<1>3. n \div d \in Int
  BY SMT
<1>4. ~(n \div d < 0)
  <2> SUFFICES ASSUME n \div d < 0 PROVE FALSE
    OBVIOUS
  <2> DEFINE q == n \div d
             r == n % d
  <2>1. q \in Int /\ q < 0 /\ r \in 0 .. d - 1 /\ n = d * q + r
    BY <1>1, <1>2, <1>3
  <2> HIDE DEF q, r
  <2>2. d * q + d <= d * 0
    BY <2>1, Multiples
  <2>3. d * 0 = 0 /\ d * q \in Int
    BY <2>1, SMT
  <2> QED BY <2>1, <2>2, <2>3, SMT
<1> QED BY <1>1, <1>2, <1>3, <1>4

\* They are the only ones.
LEMMA DivUnique ==
  ASSUME NEW d \in Nat \ {0}, NEW q \in Nat, NEW r \in 0 .. d - 1
  PROVE  (d * q + r) \div d = q /\ (d * q + r) % d = r
BY SMT

-----------------------------------------------------------------------------
(* Open files. *)

\* The sector and the offset of a byte are the only ones that place it.
LEMMA DivIs ==
  ASSUME NEW n \in Nat, NEW d \in Nat \ {0}, NEW j \in Nat, d * j <= n, n < d * j + d
  PROVE  n \div d = j /\ n % d = n - d * j
<1> DEFINE c == d * j
           r == n - c
<1>1. c \in Int /\ c <= n /\ n < c + d
  BY SMT
<1> HIDE DEF c
<1>2. r \in 0 .. d - 1 /\ n = c + r
  BY <1>1
<1> HIDE DEF r
<1>3. (d * j + r) \div d = j /\ (d * j + r) % d = r
  BY <1>2, DivUnique, Zenon
<1> QED BY <1>2, <1>3, Zenon DEF c, r

\* It is placed.
LEMMA DivBounds ==
  ASSUME NEW n \in Nat, NEW d \in Nat \ {0}
  PROVE  n \div d \in Nat /\ d * (n \div d) \in Nat /\ d * (n \div d) <= n /\ n < d * (n \div d) + d
<1> DEFINE q == n \div d
           r == n % d
<1>1. q \in Nat /\ r \in 0 .. d - 1 /\ n = d * q + r
  BY DivMod, Zenon
<1> HIDE DEF q, r
<1>2. d * q \in Nat
  BY <1>1, SMT
<1> DEFINE c == d * q
<1>3. c \in Nat /\ n = c + r
  BY <1>1, <1>2
<1> HIDE DEF c
<1>4. c <= n /\ n < c + d
  BY <1>1, <1>3
<1> QED BY <1>1, <1>3, <1>4 DEF c, q

\* A later byte is in the same sector or in a later one.
LEMMA DivMonotone ==
  ASSUME NEW n \in Nat, NEW k \in Nat, NEW d \in Nat \ {0}, n <= k
  PROVE  n \div d <= k \div d
<1> DEFINE p == n \div d
           q == k \div d
<1>1. p \in Nat /\ q \in Nat /\ d * p <= n /\ k < d * q + d
  BY DivBounds
<1> HIDE DEF p, q
<1>2. SUFFICES ASSUME q < p PROVE FALSE
  BY <1>1 DEF p, q
<1>3. d * q + d <= d * p
  BY <1>1, <1>2, Multiples
<1>4. d * q \in Int /\ d * p \in Int
  BY <1>1, SMT
<1> DEFINE u == d * p
           v == d * q
<1>5. u \in Int /\ v \in Int /\ v + d <= u /\ u <= n /\ k < v + d
  BY <1>1, <1>3, <1>4
<1> HIDE DEF u, v
<1> QED BY <1>5

\* The constants and the state of an open file.
LEMMA FileFacts ==
  ASSUME OpenFileConstants, FileTypes
  PROVE  /\ SectorSize \in Nat \ {0} /\ MaxLength \in Nat
         /\ hdr.numBytes \in Nat /\ hdr.numBytes <= MaxLength
         /\ hdr.dataSectors \in [FileSectors -> FileSectors]
         /\ \A i, j \in FileSectors : hdr.dataSectors[i] = hdr.dataSectors[j] => i = j
         /\ disk \in [FileSectors -> [Offsets -> Bytes]]
         /\ seekPosition \in Nat
<1>1. hdr \in [numBytes : 0 .. MaxLength, dataSectors : Injection(FileSectors, FileSectors)]
  BY DEF OpenFileConstants, FileTypes
<1>2. hdr.numBytes \in 0 .. MaxLength /\ hdr.dataSectors \in Injection(FileSectors, FileSectors)
  BY <1>1
<1>3. hdr.dataSectors \in [FileSectors -> FileSectors] /\ IsInjective(hdr.dataSectors)
  BY <1>2 DEF Injection
<1>4. \A i, j \in FileSectors : hdr.dataSectors[i] = hdr.dataSectors[j] => i = j
  BY <1>3 DEF IsInjective
<1>5. MaxLength \in Nat /\ SectorSize \in Nat \ {0}
  BY DEF OpenFileConstants
<1>6. hdr.numBytes \in Nat /\ hdr.numBytes <= MaxLength
  BY <1>2, <1>5
<1> QED BY <1>3, <1>4, <1>5, <1>6, Zenon DEF FileTypes

\* A byte that a file may hold is in one of its sectors.
LEMMA InSectors ==
  ASSUME OpenFileConstants, NEW q \in Nat, q < MaxLength
  PROVE  q \div SectorSize \in FileSectors /\ q % SectorSize \in Offsets
<1> DEFINE d == SectorSize
           j == q \div d
           n == MaxLength + d - 1
           k == n \div d
<1>1. d \in Nat \ {0} /\ MaxLength \in Nat
  BY DEF OpenFileConstants
<1>2. n \in Nat
  BY <1>1
<1>3. j \in Nat /\ d * j <= q /\ d * j \in Nat
  BY <1>1, DivBounds
<1>4. k = MaxSectors
  BY DEF MaxSectors
<1> HIDE DEF n
<1>5. k \in Nat /\ n < d * k + d /\ d * k \in Nat
  BY <1>1, <1>2, DivBounds
<1> HIDE DEF j, k
<1>6. j < k
  <2> SUFFICES ASSUME ~(j < k) PROVE FALSE
    OBVIOUS
  <2> DEFINE u == d * j
             v == d * k
  <2>1. u \in Nat /\ v \in Nat /\ u <= q /\ n < v + d
    BY <1>3, <1>5
  <2>2. v <= u
    <3>1. CASE j = k
      BY <3>1, <2>1
    <3>2. CASE k < j
      <4>1. d * k + d <= d * j
        BY <1>1, <1>3, <1>5, <3>2, Multiples
      <4>2. v + d <= u
        BY <4>1
      <4> HIDE DEF u, v
      <4> QED BY <1>1, <2>1, <4>2
    <3> QED BY <1>3, <1>5, <3>1, <3>2
  <2> HIDE DEF u, v
  <2> QED BY <1>1, <2>1, <2>2 DEF n
<1>7. q % d \in 0 .. d - 1
  BY <1>1, DivMod
<1> QED BY <1>3, <1>4, <1>5, <1>6, <1>7 DEF FileSectors, Offsets, j

\* The offsets in a file that a transfer covers, counted: Transferred.
LEMMA TransferredFacts ==
  ASSUME OpenFileConstants, FileTypes, NEW n \in Int, NEW p \in Nat
  PROVE  /\ Transferred(n, p) \in Nat
         /\ \A q \in 0 .. hdr.numBytes - 1 :
              (p <= q /\ q < p + n) <=> q \in p .. p + Transferred(n, p) - 1
         /\ Transferred(n, p) # 0 => p + Transferred(n, p) <= hdr.numBytes
<1>1. hdr.numBytes \in Nat
  BY FileFacts
<1>2. CASE n <= 0 \/ p >= hdr.numBytes
  <2>1. Transferred(n, p) = 0
    BY <1>2, Zenon DEF Transferred
  <2> QED BY <1>1, <1>2, <2>1
<1>3. CASE ~(n <= 0 \/ p >= hdr.numBytes) /\ p + n > hdr.numBytes
  <2>1. Transferred(n, p) = hdr.numBytes - p
    BY <1>3 DEF Transferred
  <2> QED BY <1>1, <1>3, <2>1
<1>4. CASE ~(n <= 0 \/ p >= hdr.numBytes) /\ ~(p + n > hdr.numBytes)
  <2>1. Transferred(n, p) = n
    BY <1>4 DEF Transferred
  <2> QED BY <1>1, <1>4, <2>1
<1> QED BY <1>2, <1>3, <1>4, Zenon

\* A byte of a file that may be in it, by the sector it is in.
LEMMA ByteAt ==
  ASSUME OpenFileConstants, NEW j \in Nat, NEW o \in Nat, o < SectorSize
  PROVE  /\ (j * SectorSize + o) \div SectorSize = j
         /\ (j * SectorSize + o) % SectorSize = o
         /\ (j * SectorSize) \div SectorSize = j
<1>1. SectorSize \in Nat \ {0} /\ o \in 0 .. SectorSize - 1 /\ 0 \in 0 .. SectorSize - 1
  BY DEF OpenFileConstants
<1>2. /\ (SectorSize * j + o) \div SectorSize = j /\ (SectorSize * j + o) % SectorSize = o
      /\ (SectorSize * j + 0) \div SectorSize = j
  BY <1>1, DivUnique
<1>3. SectorSize * j + o = j * SectorSize + o /\ SectorSize * j + 0 = j * SectorSize
  BY <1>1, SMT
<1> QED BY <1>2, <1>3, Zenon

\* What ReadAt copies to its caller are the bytes of the file.
LEMMA BytesReadIs ==
  ASSUME OpenFileConstants, FileTypes, NEW n \in Int, NEW p \in Nat
  PROVE  BytesRead(n, p) = [i \in 0 .. Transferred(n, p) - 1 |-> Content[p + i]]
<1> DEFINE m == Transferred(n, p)
           d == SectorSize
           first == p \div d
           last == (p + m - 1) \div d
<1>1. /\ d \in Nat \ {0} /\ hdr.numBytes \in Nat /\ hdr.numBytes <= MaxLength /\ MaxLength \in Nat
      /\ m \in Nat /\ (m # 0 => p + m <= hdr.numBytes)
  BY FileFacts, TransferredFacts, Zenon
<1> HIDE DEF m
<1>2. ASSUME NEW i \in 0 .. m - 1
      PROVE  SectorsRead(m, p)[i + p - first * d] = Content[p + i]
  <2> DEFINE q == p + i
             e == p + m - 1
  <2>1. q \in Nat /\ p <= q /\ q <= e /\ e \in Nat /\ q < hdr.numBytes /\ q < MaxLength
    BY <1>1
  <2>2. /\ first \in Nat /\ d * first \in Nat /\ d * first <= p
        /\ e \div d \in Nat /\ d * (e \div d) \in Nat /\ e < d * (e \div d) + d
    <3> HIDE DEF e
    <3> QED BY <1>1, <2>1, DivBounds, Zenon
  <2>3. last = e \div d
    OBVIOUS
  <2> HIDE DEF first, last, e
  <2> DEFINE u == d * first
             v == d * last
             k == i + p - first * d
             size == (1 + last - first) * d
  <2>4. u \in Nat /\ v \in Nat /\ u <= p /\ e < v + d /\ last \in Nat
    BY <2>2, <2>3
  <2>5. first * d = u /\ size = (v + d) - u
    BY <1>1, <2>2, <2>3, SMT
  <2>6. k = q - u
    BY <2>1, <2>4, <2>5
  <2> HIDE DEF u, v, q, size, k
  <2>7. k \in 0 .. size - 1 /\ k \in Nat
    BY <1>1, <2>1, <2>4, <2>5, <2>6
  <2> DEFINE j == k \div d
             o == k % d
  <2>8. j \in Nat /\ o \in 0 .. d - 1 /\ k = d * j + o
    BY <1>1, <2>7, DivMod, Zenon
  <2>9. SectorsRead(m, p)[k] = disk[ByteToSector((first + j) * d)][o]
    <3>1. SectorsRead(m, p) = [b \in 0 .. size - 1 |->
              disk[ByteToSector((first + b \div d) * d)][b % d]]
      BY Zenon DEF SectorsRead, size, first, last
    <3> QED BY <2>7, <3>1
  <2> HIDE DEF j, o
  <2>10. first + j \in Nat /\ o \in Nat /\ o < d
    BY <1>1, <2>2, <2>8
  <2>11. q = (first + j) * d + o
    <3> DEFINE x == d * j
    <3>1. x \in Int /\ k = x + o
      BY <1>1, <2>8, SMT
    <3>2. (first + j) * d = u + x
      BY <1>1, <2>2, <2>8, SMT DEF u
    <3> HIDE DEF x
    <3> QED BY <2>1, <2>4, <2>6, <2>8, <3>1, <3>2
  <2>12. q \div d = first + j /\ q % d = o /\ ((first + j) * d) \div d = first + j
    BY <2>10, <2>11, ByteAt
  <2>13. Content[q] = disk[ByteToSector(q)][q % d]
    BY <1>1, <2>1 DEF Content
  <2>14. ByteToSector(q) = ByteToSector((first + j) * d)
    BY <2>12, Zenon DEF ByteToSector
  <2>15. SectorsRead(m, p)[k] = Content[q]
    BY <2>9, <2>12, <2>13, <2>14, Zenon
  <2> QED BY <2>15 DEF k, q
<1>3. BytesRead(n, p) = [i \in 0 .. m - 1 |-> SectorsRead(m, p)[i + p - first * d]]
  BY Zenon DEF BytesRead, m
<1> HIDE DEF first
<1> QED BY <1>2, <1>3 DEF m

\* The content of a file is as long as the header says.
LEMMA ContentType ==
  ASSUME OpenFileConstants, FileTypes
  PROVE  Content \in [0 .. hdr.numBytes - 1 -> Bytes]
<1>1. ASSUME NEW q \in 0 .. hdr.numBytes - 1 PROVE disk[ByteToSector(q)][q % SectorSize] \in Bytes
  <2>1. q \in Nat /\ q < MaxLength
    BY FileFacts
  <2>2. q \div SectorSize \in FileSectors /\ q % SectorSize \in Offsets
    BY <2>1, InSectors
  <2> QED BY <2>2, FileFacts DEF ByteToSector
<1> QED BY <1>1 DEF Content

\* The old bytes of a sector that WriteAt reads first.
LEMMA OldSector ==
  ASSUME OpenFileConstants, FileTypes, NEW a \in Nat
  PROVE  LET c == a * SectorSize
             old == BytesRead(SectorSize, c)
             t == Transferred(SectorSize, c)
         IN  /\ c \in Nat /\ t \in Nat
             /\ old \in [0 .. t - 1 -> Bytes]
             /\ \A i \in 0 .. t - 1 : old[i] = Content[c + i]
             /\ \A q \in 0 .. hdr.numBytes - 1 :
                  c <= q /\ q < c + SectorSize => q - c \in 0 .. t - 1
<1> DEFINE c == a * SectorSize
           old == BytesRead(SectorSize, c)
           t == Transferred(SectorSize, c)
<1>1. SectorSize \in Nat \ {0} /\ hdr.numBytes \in Nat /\ SectorSize \in Int
  BY FileFacts
<1>2. c \in Nat
  BY <1>1, SMT
<1> HIDE DEF c
<1>3. /\ t \in Nat /\ (t # 0 => c + t <= hdr.numBytes)
      /\ \A q \in 0 .. hdr.numBytes - 1 :
           (c <= q /\ q < c + SectorSize) <=> q \in c .. c + t - 1
  BY <1>1, <1>2, TransferredFacts, Zenon
<1>4. old = [i \in 0 .. t - 1 |-> Content[c + i]]
  BY <1>1, <1>2, BytesReadIs
<1> HIDE DEF old, t
<1>5. \A i \in 0 .. t - 1 : c + i \in 0 .. hdr.numBytes - 1
  BY <1>1, <1>2, <1>3
<1>6. \A i \in 0 .. t - 1 : Content[c + i] \in Bytes
  BY <1>5, ContentType
<1>7. old \in [0 .. t - 1 -> Bytes] /\ \A i \in 0 .. t - 1 : old[i] = Content[c + i]
  BY <1>4, <1>6
<1>8. \A q \in 0 .. hdr.numBytes - 1 : c <= q /\ q < c + SectorSize => q - c \in 0 .. t - 1
  BY <1>1, <1>2, <1>3
<1> QED BY <1>2, <1>3, <1>7, <1>8 DEF c, old, t

\* A buffer of n bytes.
Buffer(n) == [0 .. n - 1 -> Bytes]

\* c is buf with the t bytes of new copied in at position at.
IsCopy(c, size, t, at, buf, new) ==
  /\ c \in Buffer(size)
  /\ \A b \in 0 .. size - 1 : c[b] = IF b - at \in 0 .. t - 1 THEN new[b - at] ELSE buf[b]

\* CopyIn, the bcopy of the code.
LEMMA CopyInIs ==
  ASSUME NEW size \in Int, NEW t \in Nat, NEW at \in Nat, NEW buf \in Buffer(size), NEW new \in Buffer(t)
  PROVE  IsCopy(CopyIn(buf, new, at), size, t, at, buf, new)
<1> USE DEF Buffer
<1>1. DOMAIN buf = 0 .. size - 1 /\ DOMAIN new = 0 .. t - 1
  OBVIOUS
<1>2. CopyIn(buf, new, at)
        = [b \in 0 .. size - 1 |-> IF b - at \in 0 .. t - 1 THEN new[b - at] ELSE buf[b]]
  BY <1>1, Zenon DEF CopyIn
<1>3. \A b \in 0 .. size - 1 : (IF b - at \in 0 .. t - 1 THEN new[b - at] ELSE buf[b]) \in Bytes
  OBVIOUS
<1>4. /\ CopyIn(buf, new, at) \in Buffer(size)
      /\ \A b \in 0 .. size - 1 :
           CopyIn(buf, new, at)[b] = IF b - at \in 0 .. t - 1 THEN new[b - at] ELSE buf[b]
  BY <1>2, <1>3
<1> QED BY <1>4, Zenon DEF IsCopy

\* The buffer that WriteAt writes back holds, for each byte of the file in its
\* sectors, the new byte or the old one.
LEMMA BufferIs ==
  ASSUME OpenFileConstants, FileTypes,
         NEW p \in Nat, NEW m \in Nat \ {0}, p + m <= hdr.numBytes,
         NEW first \in Nat, first = p \div SectorSize,
         NEW last \in Nat, last = (p + m - 1) \div SectorSize,
         NEW size \in Int, size = (1 + last - first) * SectorSize,
         NEW un \in Buffer(size), NEW from \in Buffer(m)
  PROVE  /\ SectorsToWrite(un, from, m, p) \in Buffer(size)
         /\ \A q \in 0 .. hdr.numBytes - 1 :
              q \div SectorSize \in first .. last =>
                /\ q - first * SectorSize \in 0 .. size - 1
                /\ SectorsToWrite(un, from, m, p)[q - first * SectorSize]
                     = IF q - p \in 0 .. m - 1 THEN from[q - p] ELSE Content[q]
<1> DEFINE d == SectorSize
           u == first * d
           v == last * d
           oldF == BytesRead(d, u)
           oldL == BytesRead(d, v)
           tF == Transferred(d, u)
           tL == Transferred(d, v)
           firstAligned == p = u
           lastAligned == p + m = (last + 1) * d
           buf1 == IF ~firstAligned THEN CopyIn(un, oldF, 0) ELSE un
           copies == ~lastAligned /\ (first # last \/ firstAligned)
           buf2 == IF copies THEN CopyIn(buf1, oldL, (last - first) * d) ELSE buf1
           buf == CopyIn(buf2, from, p - u)
<1>1. d \in Nat \ {0} /\ hdr.numBytes \in Nat
  BY FileFacts
<1>2. SectorsToWrite(un, from, m, p) = buf
  BY Zenon DEF SectorsToWrite
<1>3. /\ u \in Nat /\ tF \in Nat /\ oldF \in Buffer(tF)
      /\ \A i \in 0 .. tF - 1 : oldF[i] = Content[u + i]
      /\ \A q \in 0 .. hdr.numBytes - 1 : u <= q /\ q < u + d => q - u \in 0 .. tF - 1
  BY OldSector, Zenon DEF Buffer
<1>4. /\ v \in Nat /\ tL \in Nat /\ oldL \in Buffer(tL)
      /\ \A i \in 0 .. tL - 1 : oldL[i] = Content[v + i]
      /\ \A q \in 0 .. hdr.numBytes - 1 : v <= q /\ q < v + d => q - v \in 0 .. tL - 1
  BY OldSector, Zenon DEF Buffer
<1>5. /\ (last - first) * d = v - u /\ (last + 1) * d = v + d /\ size = (v + d) - u
  BY <1>1, SMT
<1>6. u <= p /\ p < u + d /\ v <= p + m - 1 /\ p + m - 1 < v + d
  <2>1. p + m - 1 \in Nat
    OBVIOUS
  <2> DEFINE e == p + m - 1
  <2>2. d * (p \div d) <= p /\ p < d * (p \div d) + d
    BY <1>1, DivBounds
  <2>3. d * (e \div d) <= e /\ e < d * (e \div d) + d
    <3> HIDE DEF e
    <3> QED BY <1>1, <2>1, DivBounds DEF e
  <2>4. d * first = u /\ d * last = v
    BY <1>1, SMT
  <2> QED BY <2>2, <2>3, <2>4, Zenon
<1>7. first <= last /\ v - u \in Nat
  <2>1. p + m - 1 \in Nat /\ p <= p + m - 1
    OBVIOUS
  <2> DEFINE e == p + m - 1
  <2>2. p \div d <= e \div d
    <3> HIDE DEF e
    <3> QED BY <1>1, <2>1, DivMonotone DEF e
  <2>3. first <= last
    BY <2>2
  <2>4. u <= v
    BY <1>1, <2>3, SMT
  <2> HIDE DEF u, v
  <2> QED BY <1>3, <1>4, <2>3, <2>4
<1> HIDE DEF u, v, oldF, oldL, tF, tL
<1>8. /\ buf1 \in Buffer(size)
      /\ \A b \in 0 .. size - 1 :
           ~firstAligned /\ b \in 0 .. tF - 1 => buf1[b] = oldF[b]
  <2>1. CASE firstAligned
    BY <2>1, Zenon
  <2>2. CASE ~firstAligned
    <3>1. /\ CopyIn(un, oldF, 0) \in Buffer(size)
          /\ \A b \in 0 .. size - 1 :
               CopyIn(un, oldF, 0)[b] = IF b - 0 \in 0 .. tF - 1 THEN oldF[b - 0] ELSE un[b]
      <4>1. 0 \in Nat
        OBVIOUS
      <4>2. IsCopy(CopyIn(un, oldF, 0), size, tF, 0, un, oldF)
        BY <1>3, <4>1, CopyInIs, Zenon
      <4> QED BY <4>2, Zenon DEF IsCopy
    <3>2. \A b \in 0 .. size - 1 : b - 0 = b
      OBVIOUS
    <3> QED BY <2>2, <3>1, <3>2, Zenon
  <2> QED BY <2>1, <2>2
<1> HIDE DEF buf1
<1>9. /\ buf2 \in Buffer(size)
      /\ \A b \in 0 .. size - 1 :
           buf2[b] = IF copies /\ b - (v - u) \in 0 .. tL - 1 THEN oldL[b - (v - u)] ELSE buf1[b]
  <2>1. CASE ~copies
    BY <1>8, <2>1, Zenon
  <2>2. CASE copies
    <3> DEFINE at == v - u
    <3>1. at \in Nat /\ (last - first) * d = at
      BY <1>5, <1>7
    <3> HIDE DEF at
    <3>2. /\ CopyIn(buf1, oldL, at) \in Buffer(size)
          /\ \A b \in 0 .. size - 1 :
               CopyIn(buf1, oldL, at)[b] = IF b - at \in 0 .. tL - 1 THEN oldL[b - at] ELSE buf1[b]
      <4>1. IsCopy(CopyIn(buf1, oldL, at), size, tL, at, buf1, oldL)
        BY <1>4, <1>8, <3>1, CopyInIs, Zenon
      <4> QED BY <4>1, Zenon DEF IsCopy
    <3> QED BY <2>2, <3>1, <3>2, Zenon DEF at
  <2> QED BY <2>1, <2>2
<1> HIDE DEF buf2
<1>10. /\ buf \in Buffer(size)
       /\ \A b \in 0 .. size - 1 :
            buf[b] = IF b - (p - u) \in 0 .. m - 1 THEN from[b - (p - u)] ELSE buf2[b]
  <2> DEFINE at == p - u
  <2>1. at \in Nat
    BY <1>3, <1>6
  <2> HIDE DEF at
  <2>2. /\ CopyIn(buf2, from, at) \in Buffer(size)
        /\ \A b \in 0 .. size - 1 :
             CopyIn(buf2, from, at)[b] = IF b - at \in 0 .. m - 1 THEN from[b - at] ELSE buf2[b]
    <3>1. m \in Nat
      OBVIOUS
    <3>2. IsCopy(CopyIn(buf2, from, at), size, m, at, buf2, from)
      BY <1>9, <2>1, <3>1, CopyInIs, Zenon
    <3> QED BY <3>2, Zenon DEF IsCopy
  <2> QED BY <2>2, Zenon DEF at
<1> HIDE DEF buf
<1>11. ASSUME NEW q \in 0 .. hdr.numBytes - 1, q \div d \in first .. last
       PROVE  /\ q - u \in 0 .. size - 1
              /\ buf[q - u] = IF q - p \in 0 .. m - 1 THEN from[q - p] ELSE Content[q]
  <2> DEFINE x == q - u
  <2>1. u <= q /\ q < v + d
    <3> DEFINE j == q \div d
    <3>1. j \in Nat /\ d * j <= q /\ q < d * j + d /\ first <= j /\ j <= last /\ d * j \in Nat
      BY <1>1, <1>11, DivBounds
    <3> HIDE DEF j
    <3>2. u <= d * j /\ d * j <= v
      BY <1>1, <3>1, SMT DEF u, v
    <3> DEFINE w == d * j
    <3>3. w \in Nat /\ w <= q /\ q < w + d /\ u <= w /\ w <= v
      BY <3>1, <3>2
    <3> HIDE DEF w
    <3> QED BY <1>1, <1>3, <1>4, <3>3
  <2>2. x \in 0 .. size - 1 /\ x - (p - u) = q - p /\ x - (v - u) = q - v
    BY <1>1, <1>3, <1>4, <1>5, <2>1
  <2>3. CASE q - p \in 0 .. m - 1
    BY <1>10, <2>2, <2>3, Zenon
  <2>4. CASE q - p \notin 0 .. m - 1
    <3>1. q < p \/ p + m <= q
      BY <2>4
    <3>2. CASE copies /\ q - v \in 0 .. tL - 1
      <4>1. buf[x] = oldL[q - v]
        BY <1>9, <1>10, <2>2, <2>4, <3>2, Zenon
      <4>2. v + (q - v) = q
        BY <1>4
      <4> QED BY <1>4, <2>2, <2>4, <3>2, <4>1, <4>2, Zenon
    <3>3. CASE ~(copies /\ q - v \in 0 .. tL - 1)
      <4>1. buf[x] = buf1[x]
        BY <1>9, <1>10, <2>2, <2>4, <3>3, Zenon
      <4>2. ~firstAligned /\ x \in 0 .. tF - 1
        <5>1. CASE q < p
          <6>1. u <= q /\ q < u + d
            BY <1>1, <1>3, <1>6, <2>1, <5>1
          <6>2. ~firstAligned
            BY <1>3, <2>1, <5>1
          <6> QED BY <1>3, <6>1, <6>2
        <5>2. CASE p + m <= q
          <6>1. v <= q /\ q < v + d /\ p + m # v + d
            BY <1>1, <1>4, <1>6, <2>1, <5>2
          <6>2. q - v \in 0 .. tL - 1 /\ ~lastAligned
            BY <1>4, <1>5, <6>1
          <6>3. first = last /\ ~firstAligned
            BY <3>3, <6>2
          <6>4. u = v
            BY <6>3 DEF u, v
          <6> QED BY <1>3, <6>1, <6>3, <6>4
        <5> QED BY <3>1, <5>1, <5>2
      <4>3. u + x = q
        BY <1>3
      <4>4. buf1[x] = Content[q]
        BY <1>3, <1>8, <2>2, <4>2, <4>3, Zenon
      <4> QED BY <2>2, <2>4, <4>1, <4>4, Zenon
    <3> QED BY <3>2, <3>3
  <2> QED BY <2>3, <2>4
<1> QED BY <1>2, <1>10, <1>11, Zenon DEF u

\* What WriteAt leaves on the disk.
LEMMA DiskWritten ==
  ASSUME OpenFileConstants, FileTypes, NEW n \in Int, NEW p \in Nat,
         Transferred(n, p) # 0, WriteAt(n, p)
  PROVE  /\ hdr' = hdr
         /\ disk' \in [FileSectors -> [Offsets -> Bytes]]
         /\ reply' \in Buffer(Transferred(n, p))
         /\ \A q \in 0 .. hdr.numBytes - 1 :
              disk'[ByteToSector(q)][q % SectorSize]
                = IF q - p \in 0 .. Transferred(n, p) - 1 THEN reply'[q - p] ELSE Content[q]
<1> DEFINE m == Transferred(n, p)
           d == SectorSize
           first == p \div d
           last == (p + m - 1) \div d
           size == (1 + last - first) * d
           Place(s) == \E i \in first .. last : s = ByteToSector(i * d)
           At(s) == CHOOSE i \in first .. last : s = ByteToSector(i * d)
           un(garbage) == [b \in 0 .. size - 1 |-> garbage[b % d]]
           cut(source) == [i \in 0 .. m - 1 |-> source[i]]
<1>1. /\ d \in Nat \ {0} /\ hdr.numBytes \in Nat /\ MaxLength \in Nat /\ hdr.numBytes <= MaxLength
      /\ disk \in [FileSectors -> [Offsets -> Bytes]]
      /\ hdr.dataSectors \in [FileSectors -> FileSectors]
      /\ \A i, j \in FileSectors : hdr.dataSectors[i] = hdr.dataSectors[j] => i = j
  BY FileFacts
<1>2. m \in Nat \ {0} /\ p + m <= hdr.numBytes
  BY TransferredFacts
<1> HIDE DEF m
<1>3. PICK source \in Sources, garbage \in [Offsets -> Bytes] :
        LET buf == SectorsToWrite(un(garbage), cut(source), m, p)
        IN  /\ reply' = cut(source)
            /\ disk' = [s \in DOMAIN disk |->
                 IF Place(s) THEN [o \in Offsets |-> buf[(At(s) - first) * d + o]] ELSE disk[s]]
  BY Zenon DEF WriteAt, m
<1>4. hdr' = hdr
  BY Zenon DEF WriteAt
<1> DEFINE from == cut(source)
           g == un(garbage)
           buf == SectorsToWrite(g, from, m, p)
<1>5. /\ reply' = from
      /\ disk' = [s \in FileSectors |->
           IF Place(s) THEN [o \in Offsets |-> buf[(At(s) - first) * d + o]] ELSE disk[s]]
  <2>1. DOMAIN disk = FileSectors
    BY <1>1
  <2> QED BY <1>3, <2>1, Zenon
<1>6. first \in Nat /\ last \in Nat /\ size \in Int /\ p + m - 1 \in Nat /\ p + m - 1 < MaxLength
  <2>1. p + m - 1 \in Nat /\ p + m - 1 < MaxLength
    BY <1>1, <1>2
  <2>2. first \in Nat /\ last \in Nat
    BY <1>1, <2>1, DivBounds, Zenon
  <2> HIDE DEF first, last
  <2> QED BY <1>1, <2>1, <2>2, SMT
<1>7. from \in Buffer(m)
  <2>1. source \in [0 .. MaxLength - 1 -> Bytes]
    BY DEF OpenFileConstants
  <2>2. \A i \in 0 .. m - 1 : i \in 0 .. MaxLength - 1
    BY <1>1, <1>2
  <2> QED BY <2>1, <2>2 DEF Buffer
<1>8. g \in Buffer(size)
  <2> HIDE DEF size
  <2>1. \A b \in 0 .. size - 1 : b \in Nat
    BY <1>6
  <2>2. \A b \in Nat : b % d \in Offsets
    BY <1>1, DivMod DEF Offsets
  <2> QED BY <2>1, <2>2 DEF Buffer
<1> HIDE DEF first, last, size, g, from
<1>9. /\ buf \in Buffer(size)
      /\ \A q \in 0 .. hdr.numBytes - 1 :
           q \div d \in first .. last =>
             /\ q - first * d \in 0 .. size - 1
             /\ buf[q - first * d] = IF q - p \in 0 .. m - 1 THEN from[q - p] ELSE Content[q]
  BY <1>2, <1>6, <1>7, <1>8, BufferIs DEF first, last, size
<1> HIDE DEF buf
<1>10. ASSUME NEW i \in first .. last
       PROVE  i \in FileSectors /\ i \in Nat /\ ByteToSector(i * d) = hdr.dataSectors[i]
  <2>1. i \in Nat
    BY <1>6
  <2>2. (i * d) \div d = i
    <3>1. 0 \in Nat /\ 0 < SectorSize
      BY <1>1
    <3> QED BY <2>1, <3>1, ByteAt
  <2>3. last \in FileSectors
    <3> DEFINE e == p + m - 1
    <3>1. e \in Nat /\ e < MaxLength
      BY <1>6
    <3> HIDE DEF e
    <3>2. e \div d \in FileSectors
      BY <3>1, InSectors
    <3> QED BY <3>2 DEF e, last
  <2>4. i \in FileSectors
    <3> DEFINE k == MaxLength + d - 1
    <3>1. k \in Nat
      BY <1>1
    <3> HIDE DEF k
    <3>2. k \div d \in Nat
      BY <1>1, <3>1, DivBounds, Zenon
    <3>3. MaxSectors \in Nat
      BY <3>2 DEF MaxSectors, k
    <3> QED BY <1>6, <2>1, <2>3, <3>3 DEF FileSectors
  <2> QED BY <2>1, <2>2, <2>4, Zenon DEF ByteToSector
<1>11. ASSUME NEW s \in FileSectors, Place(s)
       PROVE  At(s) \in first .. last /\ s = hdr.dataSectors[At(s)]
  <2>1. At(s) \in first .. last /\ s = ByteToSector(At(s) * d)
    BY <1>11, Zenon
  <2> HIDE DEF At
  <2> QED BY <1>10, <2>1, Zenon
<1>12. disk' \in [FileSectors -> [Offsets -> Bytes]]
  <2>1. ASSUME NEW s \in FileSectors, Place(s)
        PROVE  [o \in Offsets |-> buf[(At(s) - first) * d + o]] \in [Offsets -> Bytes]
    <3>1. At(s) \in first .. last
      BY <1>11, <2>1
    <3> HIDE DEF At
    <3>2. ASSUME NEW o \in Offsets PROVE (At(s) - first) * d + o \in 0 .. size - 1
      <4> DEFINE a == At(s) - first
                 b == last - first
      <4>1. a \in Nat /\ b \in Nat /\ a <= b /\ o \in 0 .. d - 1
        BY <1>1, <1>6, <3>1 DEF Offsets
      <4> HIDE DEF a, b
      <4>2. a * d <= b * d /\ a * d \in Nat /\ b * d \in Nat
        BY <1>1, <4>1, Products, Zenon
      <4>3. size = b * d + d
        BY <1>1, <1>6, SMT DEF size, b
      <4> DEFINE x == a * d
                 y == b * d
      <4>4. x \in Nat /\ y \in Nat /\ x <= y /\ size = y + d
        BY <4>2, <4>3
      <4> HIDE DEF x, y
      <4>5. x + o \in 0 .. size - 1
        BY <1>1, <4>1, <4>4
      <4> QED BY <4>5 DEF x, a
    <3>3. \A b \in 0 .. size - 1 : buf[b] \in Bytes
      BY <1>9 DEF Buffer
    <3> QED BY <3>2, <3>3
  <2> HIDE DEF Place, At
  <2> QED BY <1>1, <1>5, <2>1
<1>13. ASSUME NEW q \in 0 .. hdr.numBytes - 1
       PROVE  disk'[ByteToSector(q)][q % d] = IF q - p \in 0 .. m - 1 THEN from[q - p] ELSE Content[q]
  <2> DEFINE j == q \div d
             o == q % d
             s == ByteToSector(q)
  <2>1. q \in Nat /\ q < MaxLength
    BY <1>1
  <2>2. j \in FileSectors /\ o \in Offsets /\ s = hdr.dataSectors[j] /\ s \in FileSectors
    <3>1. j \in FileSectors /\ o \in Offsets
      BY <2>1, InSectors
    <3> HIDE DEF j
    <3> QED BY <1>1, <3>1 DEF ByteToSector, j
  <2>3. j \in Nat /\ o \in 0 .. d - 1 /\ q = d * j + o
    BY <1>1, <2>1, DivMod, Zenon
  <2>4. Content[q] = disk[s][o]
    BY DEF Content
  <2>5. CASE j \in first .. last
    <3>1. Place(s)
      BY <1>10, <2>2, <2>5, Zenon
    <3>2. At(s) = j
      <4>1. At(s) \in first .. last /\ s = hdr.dataSectors[At(s)]
        BY <1>11, <2>2, <3>1, Zenon
      <4> HIDE DEF At, j, s
      <4> QED BY <1>1, <1>10, <2>2, <4>1
    <3>3. disk'[s] = [x \in Offsets |-> buf[(At(s) - first) * d + x]]
      <4> HIDE DEF Place, At, s
      <4> QED BY <1>5, <2>2, <3>1
    <3>4. disk'[s][o] = buf[(j - first) * d + o]
      <4> HIDE DEF At, j, s, o
      <4> QED BY <2>2, <3>2, <3>3
    <3>5. (j - first) * d + o = q - first * d
      <4> HIDE DEF j, o
      <4>1. (j - first) * d = d * j - first * d
        BY <1>1, <1>6, <2>3, SMT
      <4> DEFINE x == d * j
                 y == first * d
      <4>2. x \in Int /\ y \in Int /\ q = x + o
        BY <1>1, <1>6, <2>3, SMT
      <4>3. (j - first) * d = x - y
        BY <4>1
      <4> DEFINE z == (j - first) * d
      <4>4. z = x - y
        BY <4>3
      <4> HIDE DEF x, y, z
      <4>5. z + o = q - y
        BY <1>1, <2>3, <4>2, <4>4
      <4> QED BY <4>5 DEF y, z
    <3>6. buf[q - first * d] = IF q - p \in 0 .. m - 1 THEN from[q - p] ELSE Content[q]
      BY <1>9, <2>5
    <3> QED BY <3>4, <3>5, <3>6, Zenon
  <2>6. CASE j \notin first .. last
    <3>1. ~Place(s)
      <4> SUFFICES ASSUME NEW i \in first .. last, s = ByteToSector(i * d) PROVE FALSE
        OBVIOUS
      <4>1. i \in FileSectors /\ s = hdr.dataSectors[i]
        BY <1>10, Zenon
      <4>2. i = j
        <5> HIDE DEF j, s
        <5> QED BY <1>1, <2>2, <4>1, Zenon
      <4> QED BY <2>6, <4>2
    <3>2. disk'[s] = disk[s]
      <4> HIDE DEF Place, At, s
      <4> QED BY <1>5, <2>2, <3>1
    <3>3. q - p \notin 0 .. m - 1
      <4> SUFFICES ASSUME q - p \in 0 .. m - 1 PROVE FALSE
        OBVIOUS
      <4> DEFINE e == p + m - 1
      <4>1. p <= q /\ q <= e /\ e \in Nat
        BY <1>2, <1>6
      <4> HIDE DEF e
      <4>2. p \div d <= q \div d /\ q \div d <= e \div d
        BY <1>1, <2>1, <4>1, DivMonotone, Zenon
      <4>3. first <= j /\ j <= last
        BY <4>2 DEF first, last, e
      <4> QED BY <1>6, <2>3, <2>6, <4>3
    <3> QED BY <2>4, <3>2, <3>3, Zenon
  <2> QED BY <2>5, <2>6
<1> QED BY <1>4, <1>5, <1>7, <1>12, <1>13, Zenon DEF m

\* The bytes that a transfer covers are as many as Transferred says.
LEMMA CountIs ==
  ASSUME OpenFileConstants, FileTypes, NEW n \in Int, NEW p \in Nat
  PROVE  File!Count(n, p) = Transferred(n, p)
<1> DEFINE m == Transferred(n, p)
           T == {q \in DOMAIN Content : p <= q /\ q < p + n}
<1>1. /\ m \in Nat
      /\ \A q \in 0 .. hdr.numBytes - 1 : (p <= q /\ q < p + n) <=> q \in p .. p + m - 1
      /\ m # 0 => p + m <= hdr.numBytes
  BY TransferredFacts, Zenon
<1>2. /\ hdr.numBytes \in Nat /\ DOMAIN Content = 0 .. hdr.numBytes - 1
      /\ MaxLength \in Nat /\ hdr.numBytes <= MaxLength
  BY FileFacts, Zenon DEF Content
<1> HIDE DEF m
<1>3. T = p .. p + m - 1
  <2>1. \A q \in p .. p + m - 1 : q \in 0 .. hdr.numBytes - 1
    BY <1>1, <1>2
  <2> QED BY <1>1, <1>2, <2>1, Zenon
<1>4. m \in 0 .. MaxLength
  BY <1>1, <1>2
<1>5. ASSUME NEW k \in 0 .. MaxLength, p .. p + m - 1 = p .. p + k - 1 PROVE k = m
  <2>1. (p + m \in p .. p + m - 1 <=> p + m \in p .. p + k - 1)
        /\ (p + k \in p .. p + m - 1 <=> p + k \in p .. p + k - 1)
    BY <1>5, Zenon
  <2>2. k \in Nat
    BY <1>1, <1>2
  <2> QED BY <1>1, <2>1, <2>2
<1>6. File!Count(n, p) = CHOOSE k \in 0 .. MaxLength : T = p .. p + k - 1
  BY Zenon DEF File!Count
<1> HIDE DEF T
<1> QED BY <1>3, <1>4, <1>5, <1>6, Zenon DEF m

\* WriteAt as the file of bytes sees it.
LEMMA WriteRefines ==
  ASSUME OpenFileConstants, FileTypes, NEW n \in Int, NEW p \in Nat, WriteAt(n, p)
  PROVE  /\ hdr' = hdr
         /\ disk' \in [FileSectors -> [Offsets -> Bytes]]
         /\ \E k \in 0 .. MaxLength : reply' \in [0 .. k - 1 -> Bytes]
         /\ File!WriteAt(n, p)
<1> DEFINE m == Transferred(n, p)
<1>1. /\ hdr.numBytes \in Nat /\ MaxLength \in Nat /\ hdr.numBytes <= MaxLength
      /\ disk \in [FileSectors -> [Offsets -> Bytes]]
  BY FileFacts
<1>2. m \in Nat /\ (m # 0 => p + m <= hdr.numBytes)
  BY TransferredFacts
<1>3. m \in 0 .. MaxLength
  <2> HIDE DEF m
  <2> QED BY <1>1, <1>2
<1>4. File!Count(n, p) = m
  BY CountIs
<1>5. hdr' = hdr
  BY Zenon DEF WriteAt
<1>6. /\ disk' \in [FileSectors -> [Offsets -> Bytes]]
      /\ reply' \in [0 .. m - 1 -> Bytes]
      /\ \A q \in 0 .. hdr.numBytes - 1 :
           disk'[ByteToSector(q)][q % SectorSize]
             = IF q - p \in 0 .. m - 1 THEN reply'[q - p] ELSE Content[q]
  <2>1. CASE m # 0
    BY <2>1, DiskWritten, Zenon DEF Buffer
  <2>2. CASE m = 0
    <3>1. reply' = << >> /\ disk' = disk
      BY <2>2, Zenon DEF WriteAt
    <3>2. << >> \in [0 .. 0 - 1 -> Bytes]
      OBVIOUS
    <3>3. \A q \in 0 .. hdr.numBytes - 1 : q - p \notin 0 .. 0 - 1
      OBVIOUS
    <3>4. \A q \in 0 .. hdr.numBytes - 1 : Content[q] = disk[ByteToSector(q)][q % SectorSize]
      BY DEF Content
    <3> QED BY <1>1, <2>2, <3>1, <3>2, <3>3, <3>4, Zenon
  <2> QED BY <2>1, <2>2
<1> HIDE DEF m
<1>7. \A q : ByteToSector(q)' = ByteToSector(q)
  BY <1>5, Zenon DEF ByteToSector
<1>8. Content' = [q \in 0 .. hdr.numBytes - 1 |->
                    IF q - p \in 0 .. m - 1 THEN reply'[q - p] ELSE Content[q]]
  <2>1. Content' = [q \in 0 .. hdr.numBytes - 1 |-> disk'[ByteToSector(q)][q % SectorSize]]
    BY <1>5, Zenon DEF Content, ByteToSector
  <2> QED BY <1>6, <2>1, Zenon
<1>9. DOMAIN Content = 0 .. hdr.numBytes - 1 /\ DOMAIN reply' = 0 .. m - 1
  BY <1>6 DEF Content
<1>10. File!WriteAt(n, p)
  <2>1. DOMAIN Content' = DOMAIN Content
    BY <1>8, <1>9, Zenon
  <2>2. \A q \in DOMAIN Content :
          Content'[q] = IF q - p \in DOMAIN reply' THEN reply'[q - p] ELSE Content[q]
    BY <1>8, <1>9, Zenon
  <2> QED BY <1>4, <1>9, <2>1, <2>2, Zenon DEF File!WriteAt
<1> QED BY <1>3, <1>5, <1>6, <1>10, Zenon

\* ReadAt as the file of bytes sees it.
LEMMA ReadRefines ==
  ASSUME OpenFileConstants, FileTypes, NEW n \in Int, NEW p \in Nat, ReadAt(n, p)
  PROVE  /\ hdr' = hdr /\ disk' = disk
         /\ \E k \in 0 .. MaxLength : reply' \in [0 .. k - 1 -> Bytes]
         /\ File!ReadAt(n, p)
<1> DEFINE m == Transferred(n, p)
<1>1. hdr.numBytes \in Nat /\ MaxLength \in Nat /\ hdr.numBytes <= MaxLength
  BY FileFacts
<1>2. m \in Nat /\ (m # 0 => p + m <= hdr.numBytes)
  BY TransferredFacts
<1>3. reply' = [i \in 0 .. m - 1 |-> Content[p + i]]
  BY BytesReadIs DEF ReadAt
<1>4. File!Count(n, p) = m
  BY CountIs
<1>5. hdr' = hdr /\ disk' = disk
  BY Zenon DEF ReadAt
<1> HIDE DEF m
<1>6. m \in 0 .. MaxLength
  BY <1>1, <1>2
<1>7. reply' \in [0 .. m - 1 -> Bytes]
  <2>1. \A i \in 0 .. m - 1 : p + i \in 0 .. hdr.numBytes - 1
    BY <1>1, <1>2
  <2>2. \A i \in 0 .. m - 1 : Content[p + i] \in Bytes
    BY <2>1, ContentType
  <2> QED BY <1>3, <2>2
<1>8. Content' = Content
  BY <1>5, Zenon DEF Content, ByteToSector
<1>9. DOMAIN reply' = 0 .. m - 1 /\ \A i \in 0 .. m - 1 : reply'[i] = Content[p + i]
  BY <1>3
<1>10. File!ReadAt(n, p)
  BY <1>4, <1>8, <1>9, Zenon DEF File!ReadAt
<1> QED BY <1>5, <1>6, <1>7, <1>10, Zenon

\* A file that has just been opened.
LEMMA FileInitRefines ==
  ASSUME OpenFileConstants
  PROVE  FileInit => FileTypes /\ File!Init
<1> SUFFICES ASSUME FileInit PROVE FileTypes /\ File!Init
  OBVIOUS
<1>1. MaxLength \in Nat
  BY DEF OpenFileConstants
<1>2. reply \in [0 .. 0 - 1 -> Bytes] /\ 0 \in 0 .. MaxLength /\ 0 \in Nat
  BY <1>1 DEF FileInit
<1>3. FileTypes
  BY <1>2, Zenon DEF FileInit, FileTypes
<1>4. hdr.numBytes \in 0 .. MaxLength /\ Content \in [0 .. hdr.numBytes - 1 -> Bytes]
  BY <1>3, FileFacts, ContentType
<1>5. File!Init
  BY <1>4, Zenon DEF FileInit, File!Init
<1> QED BY <1>3, <1>5

\* Every step of an open file keeps the types and is one of a file of bytes.
LEMMA FileNextRefines ==
  ASSUME OpenFileConstants
  PROVE  FileTypes /\ [FileNext]_fileVars =>
           FileTypes' /\ [File!Next]_<<Content, seekPosition, reply>>
<1> SUFFICES ASSUME FileTypes, [FileNext]_fileVars
             PROVE  FileTypes' /\ [File!Next]_<<Content, seekPosition, reply>>
  OBVIOUS
<1>1. CASE UNCHANGED fileVars
  <2>1. hdr' = hdr /\ disk' = disk /\ seekPosition' = seekPosition /\ reply' = reply
    BY <1>1, Zenon DEF fileVars
  <2> QED BY <2>1, Zenon DEF FileTypes, Content, ByteToSector
<1>2. seekPosition \in Nat /\ \A p \in Positions : p \in Nat
  BY FileFacts DEF OpenFileConstants
<1>3. ASSUME NEW p \in Positions, Seek(p)
      PROVE  FileTypes' /\ File!Next
  <2>1. hdr' = hdr /\ disk' = disk /\ seekPosition' = p /\ reply' = reply
    BY <1>3, Zenon DEF Seek
  <2>2. Content' = Content
    BY <2>1, Zenon DEF Content, ByteToSector
  <2>3. File!Seek(p)
    BY <2>1, <2>2, Zenon DEF File!Seek
  <2> QED BY <1>2, <2>1, <2>3, Zenon DEF FileTypes, File!Next
<1>4. ASSUME NEW n \in -1 .. MaxLength + 1, NEW p \in Nat, ReadAt(n, p) \/ WriteAt(n, p),
             seekPosition' \in Nat
      PROVE  FileTypes' /\ (File!ReadAt(n, p) \/ File!WriteAt(n, p))
  <2>1. n \in Int
    BY DEF OpenFileConstants
  <2>2. CASE ReadAt(n, p)
    <3>1. /\ hdr' = hdr /\ disk' = disk
          /\ \E k \in 0 .. MaxLength : reply' \in [0 .. k - 1 -> Bytes]
          /\ File!ReadAt(n, p)
      BY <2>1, <2>2, ReadRefines, Zenon
    <3> QED BY <1>4, <3>1, Zenon DEF FileTypes
  <2>3. CASE WriteAt(n, p)
    <3>1. /\ hdr' = hdr /\ disk' \in [FileSectors -> [Offsets -> Bytes]]
          /\ \E k \in 0 .. MaxLength : reply' \in [0 .. k - 1 -> Bytes]
          /\ File!WriteAt(n, p)
      BY <2>1, <2>3, WriteRefines, Zenon
    <3> QED BY <1>4, <3>1, Zenon DEF FileTypes
  <2> QED BY <1>4, <2>2, <2>3
<1>5. ASSUME NEW n \in -1 .. MaxLength + 1, NEW p \in Positions, ReadAt(n, p) \/ WriteAt(n, p),
             UNCHANGED seekPosition
      PROVE  FileTypes' /\ File!Next
  <2>1. p \in Nat /\ seekPosition' \in Nat
    BY <1>2, <1>5
  <2>2. FileTypes' /\ (File!ReadAt(n, p) \/ File!WriteAt(n, p))
    BY <1>4, <1>5, <2>1, Zenon
  <2> QED BY <1>5, <2>2, Zenon DEF File!Next
<1>6. ASSUME NEW n \in -1 .. MaxLength + 1, Read(n) \/ Write(n)
      PROVE  FileTypes' /\ File!Next
  <2>1. n \in Int
    BY DEF OpenFileConstants
  <2>2. Transferred(n, seekPosition) \in Nat /\ File!Count(n, seekPosition) = Transferred(n, seekPosition)
    BY <1>2, <2>1, TransferredFacts, CountIs, Zenon
  <2>3. /\ ReadAt(n, seekPosition) \/ WriteAt(n, seekPosition)
        /\ seekPosition' = seekPosition + Transferred(n, seekPosition)
    BY <1>6, Zenon DEF Read, Write
  <2>4. seekPosition' \in Nat
    BY <1>2, <2>2, <2>3
  <2>5. FileTypes' /\ (File!ReadAt(n, seekPosition) \/ File!WriteAt(n, seekPosition))
    BY <1>2, <1>4, <2>3, <2>4, Zenon
  <2>6. seekPosition' = seekPosition + File!Count(n, seekPosition)
    BY <2>2, <2>3, Zenon
  <2> QED BY <2>5, <2>6, Zenon DEF File!Next
<1> QED BY <1>1, <1>3, <1>5, <1>6, Zenon DEF FileNext

\* OpenFile implements ByteFile, for every sector size, length of file and
\* placement of its sectors, and for every position and size of a transfer: the
\* bytes around a write survive it, and nothing past the end of the file is read
\* or written as part of it.
THEOREM OpenFileIsByteFile ==
  ASSUME OpenFileConstants
  PROVE  FileSpec => ByteFileSpec
<1>1. FileInit => FileTypes /\ File!Init
  BY FileInitRefines
<1>2. FileTypes /\ [FileNext]_fileVars => FileTypes' /\ [File!Next]_<<Content, seekPosition, reply>>
  BY FileNextRefines
<1> QED BY <1>1, <1>2, PTL DEF FileSpec, ByteFileSpec, File!Spec
-----------------------------------------------------------------------------
(* The disk head. *)

\* A number that another follows by less than a round, and its remainder.
LEMMA Further ==
  ASSUME NEW n \in Nat, NEW d \in Nat \ {0}, NEW j \in 0 .. d - 1
  PROVE  (n + j) % d = IF (n % d) + j < d THEN (n % d) + j ELSE (n % d) + j - d
<1> DEFINE q == n \div d
           r == n % d
<1>1. q \in Nat /\ r \in 0 .. d - 1 /\ n = d * q + r
  BY DivMod, Zenon
<1> HIDE DEF q, r
<1>2. d * q \in Int
  BY <1>1, SMT
<1>3. CASE r + j < d
  <2> DEFINE e == r + j
  <2>1. e \in 0 .. d - 1 /\ n + j = d * q + e
    BY <1>1, <1>2, <1>3
  <2> HIDE DEF e
  <2>2. (d * q + e) % d = e
    BY <1>1, <2>1, DivUnique
  <2> QED BY <1>3, <2>1, <2>2 DEF e, r
<1>4. CASE ~(r + j < d)
  <2> DEFINE e == r + j - d
             p == q + 1
  <2>1. d * p = d * q + d
    BY <1>1, SMT
  <2>2. e \in 0 .. d - 1 /\ n + j = d * p + e /\ p \in Nat
    BY <1>1, <1>2, <1>4, <2>1
  <2> HIDE DEF e, p
  <2>3. (d * p + e) % d = e
    BY <2>2, DivUnique, Zenon
  <2> QED BY <1>4, <2>2, <2>3 DEF e, r
<1> QED BY <1>3, <1>4

\* ModuloDiff is the number of sectors that pass before the sector to comes.
LEMMA SectorsBefore ==
  ASSUME NEW to \in Nat, NEW from \in Nat
  PROVE  /\ ModuloDiff(to, from) \in 0 .. SectorsPerTrack - 1
         /\ (from + ModuloDiff(to, from)) % SectorsPerTrack = to % SectorsPerTrack
         /\ \A k \in from .. from + ModuloDiff(to, from) - 1 :
              k % SectorsPerTrack # to % SectorsPerTrack
<1> DEFINE d == SectorsPerTrack
           a == to % d
           b == from % d
           m == ModuloDiff(to, from)
<1>1. d \in Nat \ {0}
  BY DiskHeadAssumption
<1>2. a \in 0 .. d - 1 /\ b \in 0 .. d - 1
  BY <1>1, DivMod
<1>3. m = ((a - b) + d) % d
  BY DEF ModuloDiff
<1>f. \A j \in 0 .. d - 1 : (from + j) % d = IF b + j < d THEN b + j ELSE b + j - d
  BY <1>1, Further, Zenon
<1> HIDE DEF d, a, b, m
<1>4. m = IF b <= a THEN a - b ELSE (a - b) + d
  <2>1. CASE b <= a
    <3> DEFINE r == a - b
    <3>1. r \in 0 .. d - 1
      BY <1>1, <1>2, <2>1
    <3> HIDE DEF r
    <3>2. (d * 1 + r) % d = r
      BY <1>1, <3>1, DivUnique
    <3>3. (a - b) + d = d * 1 + r
      BY <1>1, <1>2 DEF r
    <3> QED BY <1>3, <2>1, <3>2, <3>3 DEF r
  <2>2. CASE ~(b <= a)
    <3> DEFINE r == (a - b) + d
    <3>1. r \in 0 .. d - 1
      BY <1>1, <1>2, <2>2
    <3> HIDE DEF r
    <3>2. (d * 0 + r) % d = r
      BY <1>1, <3>1, DivUnique
    <3>3. r = d * 0 + r
      BY <1>1, <3>1
    <3> QED BY <1>3, <2>2, <3>2, <3>3 DEF r
  <2> QED BY <2>1, <2>2
<1>5. m \in 0 .. d - 1
  BY <1>1, <1>2, <1>4
<1>6. (from + m) % d = a
  <2>1. (from + m) % d = IF b + m < d THEN b + m ELSE b + m - d
    BY <1>5, <1>f
  <2> QED BY <1>1, <1>2, <1>4, <2>1
<1>7. ASSUME NEW k \in from .. from + m - 1 PROVE k % d # a
  <2> DEFINE j == k - from
  <2>1. j \in 0 .. d - 1 /\ j < m /\ from + j = k
    BY <1>1, <1>5
  <2> HIDE DEF j
  <2>2. k % d = IF b + j < d THEN b + j ELSE b + j - d
    BY <2>1, <1>f
  <2> QED BY <1>1, <1>2, <1>4, <2>1, <2>2
<1> QED BY <1>5, <1>6, <1>7 DEF d, a, m

\* The head is at the start of a sector at the multiples of RotationTime.
LEMMA Starts ==
  ASSUME NEW s \in Nat
  PROVE  /\ \A k \in Nat : k % SectorsPerTrack = s % SectorsPerTrack => AtStart(s, RotationTime * k)
         /\ \A t \in Nat : AtStart(s, t) =>
              \E k \in Nat : t = RotationTime * k /\ k % SectorsPerTrack = s % SectorsPerTrack
<1>1. RotationTime \in Nat \ {0}
  BY DiskHeadAssumption
<1>2. ASSUME NEW k \in Nat, k % SectorsPerTrack = s % SectorsPerTrack
      PROVE  AtStart(s, RotationTime * k)
  <2>1. 0 \in 0 .. RotationTime - 1
    BY <1>1
  <2>2. (RotationTime * k + 0) \div RotationTime = k /\ (RotationTime * k + 0) % RotationTime = 0
    BY <1>1, <2>1, DivUnique
  <2>3. RotationTime * k + 0 = RotationTime * k
    BY <1>1, SMT
  <2> QED BY <1>2, <2>2, <2>3, Zenon DEF AtStart
<1>3. ASSUME NEW t \in Nat, AtStart(s, t)
      PROVE  \E k \in Nat : t = RotationTime * k /\ k % SectorsPerTrack = s % SectorsPerTrack
  <2> DEFINE k == t \div RotationTime
  <2>1. k \in Nat /\ t = RotationTime * k + (t % RotationTime)
    BY <1>1, DivMod
  <2>2. t % RotationTime = 0 /\ k % SectorsPerTrack = s % SectorsPerTrack
    BY <1>3, Zenon DEF AtStart
  <2> HIDE DEF k
  <2>3. t = RotationTime * k
    BY <1>1, <2>1, <2>2
  <2> QED BY <2>1, <2>2, <2>3
<1> QED BY <1>2, <1>3

\* The sector starts next, at or after the start of the turn a, when
\* ModuloDiff says; between an arrival in the turn before and then it does not.
LEMMA NextStart ==
  ASSUME NEW s \in Nat, NEW a \in Nat, NEW arrival \in Nat,
         RotationTime * a < arrival + RotationTime
  PROVE  /\ AtStart(s, RotationTime * (a + ModuloDiff(s, a)))
         /\ \A t \in arrival .. RotationTime * (a + ModuloDiff(s, a)) - 1 : ~AtStart(s, t)
<1> DEFINE R == RotationTime
           m == ModuloDiff(s, a)
<1>1. R \in Nat \ {0} /\ SectorsPerTrack \in Nat \ {0}
  BY DiskHeadAssumption
<1>2. /\ m \in 0 .. SectorsPerTrack - 1
      /\ (a + m) % SectorsPerTrack = s % SectorsPerTrack
      /\ \A k \in a .. a + m - 1 : k % SectorsPerTrack # s % SectorsPerTrack
  BY SectorsBefore, Zenon
<1> HIDE DEF m
<1>3. m \in Nat /\ a + m \in Nat
  BY <1>1, <1>2
<1>4. AtStart(s, R * (a + m))
  BY <1>2, <1>3, Starts
<1>5. ASSUME NEW t \in arrival .. R * (a + m) - 1, AtStart(s, t) PROVE FALSE
  <2> DEFINE e == R * (a + m)
             c == R * a
  <2>1. e \in Int /\ c \in Int
    BY <1>1, <1>3, SMT
  <2>e. t \in arrival .. e - 1 /\ c < arrival + R
    BY <1>5
  <2> HIDE DEF e, c
  <2>2. t \in Nat /\ t < e /\ c < t + R
    BY <1>1, <2>1, <2>e
  <2>3. PICK k \in Nat : t = R * k /\ k % SectorsPerTrack = s % SectorsPerTrack
    BY <1>5, <2>2, Starts
  <2>4. ~(k < a)
    <3> SUFFICES ASSUME k < a PROVE FALSE
      OBVIOUS
    <3>1. R * k + R <= R * a
      BY <1>1, Multiples
    <3> QED BY <1>1, <2>1, <2>2, <2>3, <3>1 DEF c
  <2>5. ~(a + m <= k)
    <3> SUFFICES ASSUME a + m <= k PROVE FALSE
      OBVIOUS
    <3>1. a + m = k \/ R * (a + m) + R <= R * k
      BY <1>1, <1>3, Multiples
    <3> QED BY <1>1, <2>1, <2>2, <2>3, <3>1 DEF e
  <2>6. k \in a .. a + m - 1
    BY <1>3, <2>4, <2>5
  <2> QED BY <1>2, <2>3, <2>6
<1> QED BY <1>4, <1>5 DEF m

\* What the test on the track buffer says: the sector has started to pass
\* since the turn b, or it has not until one turn ago.
LEMMA Buffering ==
  ASSUME NEW s \in Nat, NEW a \in Nat, NEW b \in Nat, NEW now \in Nat,
         RotationTime * b <= now, now <= RotationTime * a, RotationTime * a < now + RotationTime
  PROVE  /\ a - b > ModuloDiff(s, b) => \E t \in RotationTime * b .. now : AtStart(s, t)
         /\ ~(a - b > ModuloDiff(s, b)) =>
              ~ \E t \in RotationTime * b .. now - RotationTime : AtStart(s, t)
<1> DEFINE R == RotationTime
           m == ModuloDiff(s, b)
           c == R * b
           e == R * a
           f == R * (b + m)
<1>1. R \in Nat \ {0} /\ SectorsPerTrack \in Nat \ {0}
  BY DiskHeadAssumption
<1>2. m \in 0 .. SectorsPerTrack - 1
  BY SectorsBefore, Zenon
<1>3. c < c + R /\ c \in Nat /\ e \in Nat /\ c <= now /\ now <= e /\ e < now + R
  BY <1>1, SMT
<1>4. AtStart(s, f) /\ \A t \in c .. f - 1 : ~AtStart(s, t)
  BY <1>3, NextStart
<1> HIDE DEF m
<1>5. f \in Int /\ c <= f
  BY <1>1, <1>2, SMT
<1>6. ASSUME a - b > m PROVE f \in c .. now
  <2>1. b + m < a /\ b + m \in Int
    BY <1>1, <1>2, <1>6
  <2>2. R * (b + m) + R <= R * a
    BY <1>1, <2>1, Multiples
  <2>3. f + R <= e
    BY <2>2
  <2> HIDE DEF f, e, c
  <2> QED BY <1>1, <1>3, <1>5, <2>3
<1>7. ASSUME ~(a - b > m) PROVE now - R < f
  <2>1. a = b + m \/ a < b + m
    BY <1>1, <1>2, <1>7
  <2>2. a < b + m => R * a + R <= R * (b + m)
    BY <1>1, <1>2, Multiples
  <2>3. e <= f
    <3>1. CASE a = b + m
      BY <3>1, <1>3
    <3>2. CASE a < b + m
      <4>1. e + R <= f
        BY <2>2, <3>2
      <4> HIDE DEF e, f
      <4> QED BY <1>1, <1>3, <1>5, <4>1
    <3> QED BY <2>1, <3>1, <3>2
  <2> HIDE DEF f, e, c
  <2> QED BY <1>1, <1>3, <1>5, <2>3
<1>8. ASSUME ~(a - b > m), NEW t \in c .. now - R PROVE ~AtStart(s, t)
  <2>1. now - R < f
    BY <1>7, <1>8
  <2>2. t \in c .. f - 1
    <3> HIDE DEF f, c
    <3> QED BY <1>1, <1>3, <1>5, <2>1
  <2> QED BY <1>4, <2>2
<1> QED BY <1>4, <1>6, <1>8 DEF m

\* Time after the last request; the buffer has been filled since the start of
\* a turn, which lies ahead only while the request that moves the head is on.
HeadInv ==
  /\ totalTicks \in Nat /\ lastSector \in Nat /\ bufferInit \in Nat /\ active \in BOOLEAN
  /\ bufferInit % RotationTime = 0
  /\ active => asked.latency \in Nat /\ bufferInit <= totalTicks + asked.latency
  /\ ~active => bufferInit <= totalTicks
  /\ LatencyRight

\* TimeToSeek: nothing to seek on the same track, and the rotation goes on to
\* the start of a turn.
LEMMA Seeks ==
  ASSUME NEW s \in Nat, lastSector \in Nat, totalTicks \in Nat
  PROVE  /\ TimeToSeek(s).seek \in Nat /\ TimeToSeek(s).rotation \in 0 .. RotationTime - 1
         /\ TimeToSeek(s).seek = 0 <=> lastSector \div SectorsPerTrack = s \div SectorsPerTrack
         /\ \E a \in Nat : totalTicks + TimeToSeek(s).seek + TimeToSeek(s).rotation = RotationTime * a
<1> DEFINE x == s \div SectorsPerTrack
           y == lastSector \div SectorsPerTrack
           far == Distance(x, y)
           seek == far * SeekTime
           n == totalTicks + seek
           over == n % RotationTime
           rot == IF over > 0 THEN RotationTime - over ELSE 0
           q == n \div RotationTime
<1>1. RotationTime \in Nat \ {0} /\ SectorsPerTrack \in Nat \ {0} /\ SeekTime \in Nat \ {0}
  BY DiskHeadAssumption
<1>2. x \in Nat /\ y \in Nat
  BY <1>1, DivMod
<1>3. TimeToSeek(s).seek = seek /\ TimeToSeek(s).rotation = rot
  BY DEF TimeToSeek
<1> HIDE DEF x, y
<1>4. far \in Nat /\ (far = 0 <=> y = x)
  BY <1>2 DEF Distance
<1> HIDE DEF far
<1>5. seek \in Nat /\ (seek = 0 <=> far = 0)
  BY <1>1, <1>4, SMT
<1> HIDE DEF seek
<1>6. n \in Nat
  BY <1>5
<1> HIDE DEF n
<1>7. over \in 0 .. RotationTime - 1 /\ q \in Nat /\ n = RotationTime * q + over
  BY <1>1, <1>6, DivMod, Zenon
<1> HIDE DEF over, q
<1>8. rot \in 0 .. RotationTime - 1
  BY <1>1, <1>7
<1>9. \E a \in Nat : n + rot = RotationTime * a
  <2> DEFINE c == RotationTime * q
  <2>1. c \in Int /\ n = c + over
    BY <1>1, <1>7, SMT
  <2>2. CASE over = 0
    <3> HIDE DEF c
    <3>1. n + rot = c
      BY <1>1, <2>1, <2>2
    <3> QED BY <1>7, <3>1 DEF c
  <2>3. CASE over # 0
    <3>1. RotationTime * (q + 1) = c + RotationTime
      BY <1>1, <1>7, SMT
    <3> HIDE DEF c
    <3>2. n + rot = c + RotationTime
      BY <1>1, <1>7, <2>1, <2>3
    <3>3. q + 1 \in Nat
      BY <1>7
    <3> QED BY <3>1, <3>2, <3>3
  <2> QED BY <2>2, <2>3
<1> HIDE DEF rot
<1>10. \E a \in Nat : totalTicks + seek + rot = RotationTime * a
  BY <1>9 DEF n
<1>11. seek = 0 <=> y = x
  BY <1>4, <1>5, Zenon
<1> QED BY <1>3, <1>5, <1>8, <1>10, <1>11, Zenon DEF x, y

\* The disk is idle, its head on sector 0.
LEMMA HeadInvInit == HeadInit => HeadInv
<1> SUFFICES ASSUME HeadInit PROVE HeadInv
  OBVIOUS
<1>1. RotationTime \in Nat \ {0}
  BY DiskHeadAssumption
<1>2. 0 % RotationTime = 0
  BY <1>1, SMT
<1>3. LatencyRight
  BY DEF HeadInit, LatencyRight
<1>4. 0 <= 0 /\ 0 \in Nat
  OBVIOUS
<1> QED BY <1>2, <1>3, <1>4, Zenon DEF HeadInit, HeadInv

\* A request while the disk is idle.
LEMMA RequestRight ==
  ASSUME HeadInv, NEW s \in DiskSectors, NEW w \in BOOLEAN, Request(s, w)
  PROVE  HeadInv'
<1> DEFINE R == RotationTime
           N == SectorsPerTrack
           now == totalTicks
           seek == TimeToSeek(s).seek
           rot == TimeToSeek(s).rotation
           b == bufferInit \div R
           before == ModuloDiff(s, b)
           moved == lastSector \div N # s \div N
           lat == ComputeLatency(s, w)
<1>1. R \in Nat \ {0} /\ N \in Nat \ {0}
  BY DiskHeadAssumption
<1>2. s \in Nat
  BY DEF DiskSectors
<1>3. /\ ~active /\ now \in Nat /\ lastSector \in Nat /\ bufferInit \in Nat
      /\ bufferInit <= now /\ bufferInit % R = 0
  BY DEF HeadInv, Request
<1>4. /\ seek \in Nat /\ rot \in 0 .. R - 1
      /\ seek = 0 <=> ~moved
      /\ \E a \in Nat : now + seek + rot = R * a
  BY <1>2, <1>3, Seeks
<1>5. PICK a \in Nat : now + seek + rot = R * a
  BY <1>4
<1>6. b \in Nat /\ bufferInit = R * b
  <2>1. b \in Nat /\ bufferInit = R * b + (bufferInit % R)
    BY <1>1, <1>3, DivMod
  <2> HIDE DEF b
  <2> QED BY <1>1, <1>3, <2>1
<1> DEFINE after == ModuloDiff(s, a)
<1>7. before \in Nat /\ after \in Nat
  <2>1. before \in 0 .. N - 1 /\ after \in 0 .. N - 1
    BY <1>2, <1>5, <1>6, SectorsBefore
  <2> QED BY <1>1, <2>1
<1>8. (now + seek + rot) \div R = a
  <2>1. 0 \in 0 .. R - 1
    BY <1>1
  <2>2. (R * a + 0) \div R = a
    BY <1>1, <2>1, DivUnique
  <2>3. R * a + 0 = R * a
    BY <1>1, SMT
  <2> QED BY <1>5, <2>2, <2>3, Zenon
<1>9. seek = 0 => ((now + seek + rot) - bufferInit) \div R = a - b
  <2> SUFFICES ASSUME seek = 0 PROVE ((now + seek + rot) - bufferInit) \div R = a - b
    OBVIOUS
  <2> HIDE DEF seek, rot, b
  <2>1. R * b <= R * a
    BY <1>1, <1>3, <1>4, <1>5, <1>6, SMT
  <2>2. ~(a < b)
    <3> SUFFICES ASSUME a < b PROVE FALSE
      OBVIOUS
    <3>1. R * a + R <= R * b
      BY <1>1, <1>6, Multiples
    <3>2. R * a \in Int /\ R * b \in Int
      BY <1>1, <1>6, SMT
    <3> QED BY <1>1, <2>1, <3>1, <3>2, SMT
  <2> DEFINE d == a - b
  <2>3. d \in Nat
    BY <1>6, <2>2
  <2>4. R * d = R * a - R * b
    BY <1>1, <1>6, SMT
  <2> HIDE DEF d
  <2>5. 0 \in 0 .. R - 1
    BY <1>1
  <2>6. (R * d + 0) \div R = d
    BY <1>1, <2>3, <2>5, DivUnique
  <2>7. (now + seek + rot) - bufferInit = R * d + 0
    <3> DEFINE u == R * a
               v == R * b
               z == R * d
    <3>1. u \in Int /\ v \in Int /\ z \in Int
      BY <1>1, <1>6, <2>3, SMT
    <3>2. z = u - v /\ now + seek + rot = u /\ bufferInit = v
      BY <1>5, <1>6, <2>4
    <3> HIDE DEF u, v, z
    <3>3. (now + seek + rot) - bufferInit = z + 0
      BY <1>1, <1>3, <1>4, <3>1, <3>2
    <3> QED BY <3>3 DEF z
  <2> QED BY <2>6, <2>7, Zenon DEF d
<1> DEFINE hit == ~w /\ seek = 0 /\ a - b > before
<1>10. lat = IF hit THEN R ELSE seek + rot + after * R + R
  <2>1. lat = IF /\ ~w /\ seek = 0
                 /\ ((now + seek + rot) - bufferInit) \div R > before
              THEN R ELSE seek + rot + ModuloDiff(s, (now + seek + rot) \div R) * R + R
    BY Zenon DEF ComputeLatency
  <2> HIDE DEF lat, before, seek, rot
  <2>2. lat = IF /\ ~w /\ seek = 0
                 /\ ((now + seek + rot) - bufferInit) \div R > before
              THEN R ELSE seek + rot + after * R + R
    BY <1>8, <2>1, Zenon
  <2> QED BY <1>9, <2>2, Zenon
<1>11. /\ asked' = [sector |-> s, writing |-> w, time |-> now, moved |-> moved,
                    since |-> bufferInit, latency |-> lat]
       /\ active' = TRUE /\ now' = now /\ lastSector' = s
       /\ bufferInit' = IF seek # 0 THEN now + seek + rot ELSE bufferInit
  BY Zenon DEF Request, UpdateLast
<1> HIDE DEF lat, before, after, seek, rot, b, moved
<1> DEFINE c == R * a
           g == after * R
           f == R * (a + after)
<1>12. c \in Int /\ g \in Nat /\ f = c + g /\ f \in Int
  BY <1>1, <1>7, SMT
<1>13. c = now + seek + rot
  BY <1>5
<1> HIDE DEF c, g
<1>14. lat \in Nat /\ (seek # 0 => lat = seek + rot + g + R)
  BY <1>1, <1>4, <1>7, <1>10, <1>12 DEF g
<1>15. bufferInit' \in Nat /\ bufferInit' % R = 0 /\ bufferInit' <= now + lat
  <2>1. CASE seek = 0
    BY <2>1, <1>3, <1>11, <1>14
  <2>2. CASE seek # 0
    <3>1. bufferInit' = c /\ c \in Nat /\ c <= now + lat
      BY <1>1, <1>3, <1>4, <1>11, <1>12, <1>13, <1>14, <2>2
    <3>2. (R * a) % R = 0
      BY <1>1, SMT
    <3> QED BY <3>1, <3>2 DEF c
  <2> QED BY <2>1, <2>2
<1>16. LatencyRight'
  <2> DEFINE arrival == IF moved THEN bufferInit' ELSE now
             Passed(by) == /\ ~w /\ ~moved
                           /\ \E t \in bufferInit .. by : AtStart(s, t)
             start == now + lat - R
  <2> SUFFICES \/ lat = R /\ Passed(now)
               \/ /\ ~Passed(now - R)
                  /\ start >= arrival /\ AtStart(s, start)
                  /\ \A t \in arrival .. start - 1 : ~AtStart(s, t)
    BY <1>11 DEF LatencyRight, AtStart
  <2>1. seek = 0 => c < now + R /\ now <= c
    BY <1>1, <1>3, <1>4, <1>12, <1>13
  <2>2. seek = 0 =>
          /\ a - b > before => \E t \in bufferInit .. now : AtStart(s, t)
          /\ ~(a - b > before) => ~ \E t \in bufferInit .. now - R : AtStart(s, t)
    <3> SUFFICES ASSUME seek = 0
                 PROVE  /\ a - b > before => \E t \in R * b .. now : AtStart(s, t)
                        /\ ~(a - b > before) => ~ \E t \in R * b .. now - R : AtStart(s, t)
      BY <1>6
    <3>1. R * b <= now /\ now <= R * a /\ R * a < now + R
      BY <1>3, <1>6, <2>1 DEF c
    <3> QED BY <1>2, <1>3, <1>6, <3>1, Buffering DEF before
  <2>3. CASE hit
    <3>1. lat = R /\ Passed(now)
      BY <1>4, <1>10, <2>2, <2>3, Zenon
    <3> QED BY <3>1, Zenon
  <2>4. CASE ~hit
    <3>1. lat = seek + rot + g + R
      BY <1>10, <2>4, ZenonT(60) DEF g
    <3>2. start = f
      BY <1>1, <1>3, <1>4, <1>12, <1>13, <3>1
    <3>3. ~Passed(now - R)
      BY <1>4, <2>2, <2>4, ZenonT(60)
    <3>4. arrival \in Nat /\ arrival <= c /\ c < arrival + R
      BY <1>1, <1>3, <1>4, <1>11, <1>12, <1>13, <1>15, <2>1
    <3>5. AtStart(s, f) /\ \A t \in arrival .. f - 1 : ~AtStart(s, t)
      <4> HIDE DEF arrival
      <4> QED BY <1>2, <3>4, NextStart DEF after, c
    <3>6. start >= arrival
      <4> HIDE DEF arrival, f, start
      <4> QED BY <1>12, <3>2, <3>4
    <3> QED BY <3>2, <3>3, <3>5, <3>6, Zenon
  <2> QED BY <2>3, <2>4
<1>17. asked'.latency = lat
  BY <1>11
<1> QED BY <1>2, <1>3, <1>11, <1>14, <1>15, <1>16, <1>17 DEF HeadInv

\* Requests, their interrupts and the passing of time keep HeadInv.
LEMMA HeadInvNext == HeadInv /\ [HeadNext]_headVars => HeadInv'
<1> SUFFICES ASSUME HeadInv, [HeadNext]_headVars PROVE HeadInv'
  OBVIOUS
<1>1. CASE UNCHANGED headVars
  <2>1. /\ totalTicks' = totalTicks /\ lastSector' = lastSector /\ bufferInit' = bufferInit
        /\ active' = active /\ asked' = asked
    BY <1>1, Zenon DEF headVars
  <2>2. LatencyRight'
    BY <2>1, Zenon DEF HeadInv, LatencyRight
  <2> QED BY <2>1, <2>2, Zenon DEF HeadInv
<1>2. CASE \E s \in DiskSectors, w \in BOOLEAN : Request(s, w)
  BY <1>2, RequestRight
<1>3. CASE HandleInterrupt
  <2>1. /\ active /\ active' = FALSE /\ totalTicks' = totalTicks + asked.latency
        /\ lastSector' = lastSector /\ bufferInit' = bufferInit
    BY <1>3, Zenon DEF HandleInterrupt
  <2>2. asked.latency \in Nat /\ bufferInit <= totalTicks + asked.latency
    BY <2>1, Zenon DEF HeadInv
  <2>3. totalTicks' \in Nat /\ bufferInit' <= totalTicks'
    BY <2>1, <2>2 DEF HeadInv
  <2>4. LatencyRight'
    BY <2>1, Zenon DEF LatencyRight
  <2> QED BY <2>1, <2>3, <2>4, Zenon DEF HeadInv
<1>4. CASE Tick
  <2>1. /\ ~active /\ totalTicks' = totalTicks + 1
        /\ lastSector' = lastSector /\ bufferInit' = bufferInit /\ active' = active
    BY <1>4, Zenon DEF Tick
  <2>2. totalTicks' \in Nat /\ bufferInit' <= totalTicks'
    BY <2>1 DEF HeadInv
  <2>3. LatencyRight'
    BY <2>1, Zenon DEF LatencyRight
  <2> QED BY <2>1, <2>2, <2>3, Zenon DEF HeadInv
<1> QED BY <1>1, <1>2, <1>3, <1>4, Zenon DEF HeadNext

\* LatencyRight for every geometry of the disk and every sequence of requests:
\* ComputeLatency returns the time until the head has moved, the sector has come
\* round and has passed under it, or that of a sector in the track buffer when
\* the track has been under the head for long enough.
THEOREM LatencyIsPhysical == HeadSpec => []LatencyRight
<1>1. HeadInit => HeadInv
  BY HeadInvInit
<1>2. HeadInv /\ [HeadNext]_headVars => HeadInv'
  BY HeadInvNext
<1>3. HeadInv => LatencyRight
  BY Zenon DEF HeadInv
<1> QED BY <1>1, <1>2, <1>3, PTL DEF HeadSpec
=============================================================================
