--------------------------- MODULE VirtualMemory ---------------------------
(***************************************************************************)
(* The demand-paged build (-DVM -DUSE_TLB): the TLB of the simulated        *)
(* machine, the page-fault handler, the page tables of the address spaces   *)
(* and the inverted page table with its replacement algorithms.             *)
(*                                                                          *)
(* `vm` holds what the handler changes: the page tables, the TLB, the       *)
(* frames in use, the queue and the use counts of the replacement           *)
(* algorithms, and the page that the bytes of every frame belong to.  A     *)
(* memory access of a program (`want`) is retried until Translate succeeds. *)
(* Frames are numbered up to NumPhysPages_IPT, which is twice the number    *)
(* the machine has.  The swap area is left out: a frame past the machine's  *)
(* own stops it with a bus error long before the frames run out.            *)
(***************************************************************************)
EXTENDS Integers, Sequences, FiniteSets, FiniteSetsExt

CONSTANTS NumPages,      \* pages of the program, its stack included
          StackPages,    \* pages of its stack: divRoundUp(UserStackSize, PageSize)
          NumPhysPages,  \* frames of the machine
          TLBSize,       \* entries of the TLB
          Algorithms,    \* replacement algorithms: 1 second chance, 2 least used
          MaxSpaces,     \* bound on address spaces
          MaxAccesses,   \* bound on memory accesses, for every number of spaces
          MaxSwitches    \* bound on context switches

ASSUME VirtualMemoryAssumption ==
  /\ {NumPages, StackPages, NumPhysPages, TLBSize, MaxSpaces, MaxSwitches} \subseteq Nat \ {0}
  /\ MaxAccesses \in [1..MaxSpaces -> Nat]
  /\ StackPages < NumPages
  /\ Algorithms \subseteq {1, 2}

VARIABLES vm, algorithm, readOnly, want, current, spaces, written, accesses, switches, restarts,
          outcome

vmvars == <<vm, algorithm, readOnly, want, current, spaces, written, accesses, switches, restarts,
            outcome>>

Pages == 0..(NumPages - 1)
SharedPages == 0..(NumPages - StackPages - 1)
NumPhysPages_IPT == 2 * NumPhysPages
Frames == 0..(NumPhysPages_IPT - 1)
Entries == 0..(TLBSize - 1)
Spaces == 1..MaxSpaces
Contents == [page : Pages, val : 0..1]
Nothing == [page |-> -1, val |-> 0]       \* bytes that are no page of the program
NoAccess == [page |-> -1, op |-> "none"]
Unmapped == [virtualPage |-> -1, physicalPage |-> -1]

----------------------------------------------------------------------------
\* ---- the inverted page table ----

\* Mutant of updatePage: second chance gets the page in front, its bit clear.
updatePageInFront(m, frame, resetUses) ==
  CASE algorithm = 1 -> [m EXCEPT !.queue = <<[frame |-> frame, used |-> FALSE]>> \o @]
    [] algorithm = 2 -> [m EXCEPT !.uses = [m.uses EXCEPT ![frame] =
                           IF resetUses THEN 0 ELSE m.uses[frame] + 1]]

updatePage(m, frame, resetUses) ==
  CASE algorithm = 1 -> [m EXCEPT !.queue = Append(@, [frame |-> frame, used |-> TRUE])]
    [] algorithm = 2 -> [m EXCEPT !.uses = [m.uses EXCEPT ![frame] =
                           IF resetUses THEN 0 ELSE m.uses[frame] + 1]]

leastUsed(m) ==
  LET use(i) == m.uses[m.tlb[i].physicalPage]
      least == Min({i \in Entries : \A j \in Entries : use(i) <= use(j)})
  IN  [entry |-> least, m |-> [m EXCEPT !.uses = [m.uses EXCEPT ![m.tlb[least].physicalPage] = 0]]]

\* Second chance turns the queue until an element without its reference bit is
\* in front, clearing the bits of those it passes; the number it finds there is
\* that of a frame, and it is used as an index of the TLB.
secondChance(m) ==
  LET q == m.queue
      clear == {i \in DOMAIN q : ~q[i].used}
      k == IF clear = {} THEN 1 ELSE Min(clear)
      passed(i) == [q[i] EXCEPT !.used = (clear # {} /\ i > k) /\ @]
      turned == [i \in 1..(Len(q) - 1) |-> passed(IF i + k <= Len(q) THEN i + k
                                                 ELSE i + k - Len(q))]
  IN  [entry |-> q[k].frame,
       m |-> [m EXCEPT !.queue = Append(turned, [q[k] EXCEPT !.used = TRUE])]]

\* The entry the handler replaces.
getTLBEntryToReplace(m) == IF algorithm = 1 THEN secondChance(m) ELSE leastUsed(m)

\* BitMap::Find gives the first clear frame and marks it.
getPhysicalPage(m) == Min(Frames \ m.marked)

----------------------------------------------------------------------------
\* ---- the address space ----

isLoadedInPT(m, s, page) == m.pageTable[s][page].virtualPage # -1

\* Mutant: the frame given out is not marked.
loadFromDiskUnmarked(m, s, page) ==
  LET frame == getPhysicalPage(m) IN
  [pageTable |-> [m.pageTable EXCEPT ![s] = [m.pageTable[s] EXCEPT ![page] =
                    [virtualPage |-> page, physicalPage |-> frame]]],
   tlb |-> m.tlb, marked |-> m.marked, queue |-> m.queue, uses |-> m.uses,
   memory |-> IF page \notin SharedPages THEN m.memory
              ELSE [m.memory EXCEPT ![frame] = [page |-> page, val |-> 0]]]

\* A stack page is given a frame and keeps what the frame held.
loadFromDisk(m, s, page) ==
  LET frame == getPhysicalPage(m) IN
  [pageTable |-> [m.pageTable EXCEPT ![s] = [m.pageTable[s] EXCEPT ![page] =
                    [virtualPage |-> page, physicalPage |-> frame]]],
   tlb |-> m.tlb, marked |-> m.marked \cup {frame}, queue |-> m.queue, uses |-> m.uses,
   memory |-> IF page \notin SharedPages THEN m.memory
              ELSE [m.memory EXCEPT ![frame] = [page |-> page, val |-> 0]]]

\* An index past the TLB writes outside the array: no entry changes.
loadToTLB(m, s, entry, page) ==
  LET pte == m.pageTable[s][page]
      loaded == IF entry \notin Entries THEN m
                ELSE [m EXCEPT !.tlb = [m.tlb EXCEPT ![entry] =
                        [valid |-> TRUE, virtualPage |-> pte.virtualPage,
                         physicalPage |-> pte.physicalPage]]]
  IN  updatePage(loaded, pte.physicalPage, TRUE)

\* The page table of a space made by Fork: the pages below the stack are the
\* parent's, whether it has loaded them or not; the stack is new.
VirtualMemoryConstructor(m, parent, child) ==
  [m EXCEPT !.pageTable = [m.pageTable EXCEPT ![child] =
     [page \in Pages |-> IF page \in SharedPages THEN m.pageTable[parent][page] ELSE Unmapped]]]

----------------------------------------------------------------------------
\* ---- the page-fault handler and the machine's memory accesses ----

\* Both arms of the handler look for an entry the same way: the first invalid
\* one, or the one the replacement algorithm gives up.
ChooseEntry(m) ==
  LET invalid == {i \in Entries : ~m.tlb[i].valid} IN
  IF invalid = {} THEN getTLBEntryToReplace(m) ELSE [entry |-> Min(invalid), m |-> m]

NachOS_PageFaultException(m, s, page) ==
  LET loaded == IF isLoadedInPT(m, s, page) THEN m ELSE loadFromDisk(m, s, page) IN
  {[entry |-> c.entry, m |-> loadToTLB(c.m, s, c.entry, page)] : c \in {ChooseEntry(loaded)}}

Hits(m, page) == {i \in Entries : m.tlb[i].valid /\ m.tlb[i].virtualPage = page}

\* Translate: a hit is reported to the inverted page table before readOnly is
\* tested and the frame compared with the machine's memory.
Translate(m, page, writing) ==
  IF Hits(m, page) = {} THEN [exception |-> "PageFault", m |-> m, frame |-> -1]
  ELSE LET i == Min(Hits(m, page))
           frame == m.tlb[i].physicalPage
       IN  [exception |-> IF readOnly[i] /\ writing THEN "ReadOnly"
                          ELSE IF frame >= NumPhysPages THEN "BusError" ELSE "None",
            m |-> updatePage(m, frame, FALSE), frame |-> frame]

\* Nothing ever writes the field readOnly of the entries of the TLB, which are
\* made by new: each has the value the memory happened to have.
VMInit ==
  /\ vm = [pageTable |-> [s \in Spaces |-> [page \in Pages |-> Unmapped]],
           tlb |-> [i \in Entries |-> [valid |-> FALSE, virtualPage |-> -1, physicalPage |-> -1]],
           marked |-> {}, queue |-> <<>>, uses |-> [f \in Frames |-> 0],
           memory |-> [f \in Frames |-> Nothing]]
  /\ algorithm \in Algorithms
  /\ readOnly \in [Entries -> BOOLEAN]
  /\ want = [s \in Spaces |-> NoAccess]
  /\ current = 1 /\ spaces = 1
  /\ written = [page \in Pages |-> IF page \in SharedPages THEN 0 ELSE -1]
  /\ accesses = 0 /\ switches = 0 /\ restarts = 0
  /\ outcome = "running"

\* The program of the running space reads a page or writes another value in it.
Issue(page, op) ==
  /\ outcome = "running" /\ want[current] = NoAccess /\ accesses < MaxAccesses[spaces]
  /\ want' = [want EXCEPT ![current] = [page |-> page, op |-> op]]
  /\ accesses' = accesses + 1
  /\ UNCHANGED <<vm, algorithm, readOnly, current, spaces, written, switches, restarts, outcome>>

\* The access is made in frame `t.frame` of the state the translation left.
Perform(t) ==
  LET a == want[current]
      val == IF written[a.page] = 1 THEN 0 ELSE 1
  IN  /\ \/ a.op = "read" /\ vm' = t.m /\ UNCHANGED written
         \/ /\ a.op = "write"
            /\ vm' = [t.m EXCEPT !.memory = [t.m.memory EXCEPT ![t.frame] =
                                               [page |-> a.page, val |-> val]]]
            /\ written' = [written EXCEPT ![a.page] = val]
      /\ want' = [want EXCEPT ![current] = NoAccess]
      /\ restarts' = 0
      /\ UNCHANGED outcome

\* ReadMem and WriteMem: after the handler the translation is tried once more, as
\* for a write in both of them; when it fails again the instruction is restarted.
\* With no frame left the code turns to the swap area, and the model stops.
ReadWriteMem ==
  LET page == want[current].page IN
  /\ outcome = "running" /\ want[current] # NoAccess /\ vm.marked # Frames
  /\ \E first \in {Translate(vm, page, want[current].op = "write")} :
       \/ first.exception = "None" /\ Perform(first)
       \/ /\ first.exception \in {"BusError", "ReadOnly"}    \* ExceptionHandler: ASSERT(false)
          /\ outcome' = "abort" /\ vm' = first.m /\ UNCHANGED <<want, written, restarts>>
       \/ /\ first.exception = "PageFault"
          /\ \E fault \in NachOS_PageFaultException(vm, current, page) :
               \/ \E second \in {Translate(fault.m, page, TRUE)} :
                    \/ second.exception = "None" /\ Perform(second)
                    \/ /\ second.exception # "None"
                       /\ vm' = second.m /\ restarts' = restarts + 1
                       /\ UNCHANGED <<want, written, outcome>>
               \/ /\ fault.entry \notin Entries
                  /\ outcome' = "overrun" /\ UNCHANGED <<vm, want, written, restarts>>
  /\ UNCHANGED <<algorithm, readOnly, current, spaces, accesses, switches>>

\* Fork makes a space for the child; a context switch leaves the TLB alone,
\* RestoreState does nothing in this build.
VMFork ==
  /\ outcome = "running" /\ want[current] = NoAccess /\ spaces < MaxSpaces
  /\ accesses < MaxAccesses[spaces + 1]
  /\ vm' = VirtualMemoryConstructor(vm, current, spaces + 1)
  /\ spaces' = spaces + 1
  /\ UNCHANGED <<algorithm, readOnly, want, current, written, accesses, switches, restarts, outcome>>

RestoreState(s) ==
  /\ outcome = "running" /\ s \in 1..spaces /\ s # current
  /\ switches < MaxSwitches
  /\ current' = s /\ switches' = switches + 1
  /\ UNCHANGED <<vm, algorithm, readOnly, want, spaces, written, accesses, restarts, outcome>>

VMNext ==
  \/ \E page \in Pages, op \in {"read", "write"} : Issue(page, op)
  \/ ReadWriteMem
  \/ VMFork
  \/ \E s \in Spaces : RestoreState(s)

VMSpec == VMInit /\ [][VMNext]_vmvars

----------------------------------------------------------------------------
\* Type invariant of the virtual memory.
VMTypeOK ==
  /\ vm.pageTable \in [Spaces -> [Pages -> [virtualPage : Pages \cup {-1},
                                            physicalPage : Frames \cup {-1}]]]
  /\ vm.tlb \in [Entries -> [valid : BOOLEAN, virtualPage : Pages \cup {-1},
                             physicalPage : Frames \cup {-1}]]
  /\ vm.marked \subseteq Frames
  /\ \A i \in DOMAIN vm.queue : vm.queue[i] \in [frame : Frames, used : BOOLEAN]
  /\ vm.uses \in [Frames -> Nat]
  /\ vm.memory \in [Frames -> Contents \cup {Nothing}]
  /\ current \in 1..spaces /\ spaces \in Spaces
  /\ outcome \in {"running", "abort", "overrun"}

\* As long as one program runs, whatever page of it the TLB translates is
\* found in the frame that holds what the program last wrote there, or what
\* its executable had, through every eviction from the TLB and reload.
MemoryIntact ==
  spaces = 1 =>
    \A i \in Entries : LET e == vm.tlb[i] IN
      (e.valid /\ written[e.virtualPage] # -1 /\ e.physicalPage < NumPhysPages) =>
         vm.memory[e.physicalPage] = [page |-> e.virtualPage, val |-> written[e.virtualPage]]

\* How many elements the queue q of second chance has to be turned by, at most,
\* before its element i is found with its bit clear: one round more when the bit
\* is set, each restart on the way adding one element to the round.
Turns(q, i) == IF q[i].used THEN Len(q) + 2 * i ELSE i

\* The same for the nearest element whose frame number is an index of the TLB.
TurnsLeft(m) ==
  LET turns == {Turns(m.queue, i) : i \in {j \in DOMAIN m.queue : m.queue[j].frame \in Entries}}
  IN  IF turns = {} THEN 0 ELSE Min(turns)

\* The machine does not restart the same instruction for ever.  Only a page that
\* the TLB does not have restarts it.  Then either the handler has put the page
\* there, so that the next try ends the access, or the machine; or second chance
\* gave a number that is no index of the TLB, and it has come nearer to one that
\* is, although every restart adds to its queue (what other programs do between
\* two restarts may lengthen it further).  With both algorithms, and whatever the
\* entries have in readOnly (translate.cc:90-110, invertedpagetables.h:99-127,
\* exception.cc:54-126).
FaultServed ==
  [][restarts' > restarts =>
       LET page == want[current].page IN
       /\ Hits(vm, page) = {}
       /\ \/ Hits(vm', page) # {}
          \/ algorithm = 1 /\ TurnsLeft(vm') < TurnsLeft(vm)]_vmvars
============================================================================
