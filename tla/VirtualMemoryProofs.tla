------------------------ MODULE VirtualMemoryProofs ------------------------
(***************************************************************************)
(* The pages of a program in virtual memory hold what was last written     *)
(* there, for every number of pages, frames, TLB entries and accesses and  *)
(* both replacement algorithms.  The handler and the translation are first *)
(* taken apart into what they change; One says what the memory of a single *)
(* program is like, the access under way included.  Then the restarts:     *)
(* GoodInv says that the pages and the TLB have marked frames and that     *)
(* second chance has an element that fits the TLB, since the first frame   *)
(* given out is frame 0 and no element leaves the queue; Nearer, that such *)
(* an element comes nearer with every turn of the queue.                   *)
(***************************************************************************)
EXTENDS VirtualMemory, TLAPS, WellFoundedInduction

\* The state of the memory has its six parts.
IsVM(m) ==
  m = [pageTable |-> m.pageTable, tlb |-> m.tlb, marked |-> m.marked, queue |-> m.queue,
       uses |-> m.uses, memory |-> m.memory]

\* Two states differ only in what the replacement algorithms keep.
Like(n, m) ==
  /\ IsVM(n) /\ n.pageTable = m.pageTable /\ n.tlb = m.tlb
  /\ n.marked = m.marked /\ n.memory = m.memory

\* Replacing the queue leaves the rest.
LEMMA NewQueue ==
  ASSUME NEW m, IsVM(m), NEW x
  PROVE  /\ Like([m EXCEPT !.queue = x], m) /\ [m EXCEPT !.queue = x].queue = x
         /\ [m EXCEPT !.queue = x].uses = m.uses
BY DEF Like, IsVM

\* Replacing the use counts leaves the rest.
LEMMA NewUses ==
  ASSUME NEW m, IsVM(m), NEW x
  PROVE  /\ Like([m EXCEPT !.uses = x], m) /\ [m EXCEPT !.uses = x].uses = x
         /\ [m EXCEPT !.uses = x].queue = m.queue
BY DEF Like, IsVM

\* A frame is reported to the inverted page table.
Updated(n, m, frame, resetUses) ==
  /\ Like(n, m)
  /\ algorithm = 1 => n.queue = Append(m.queue, [frame |-> frame, used |-> TRUE])
  /\ algorithm = 2 => n.uses = [m.uses EXCEPT ![frame] =
                                  IF resetUses THEN 0 ELSE m.uses[frame] + 1]

\* What updatePage changes is the queue or the use counts.
LEMMA UpdatePage ==
  ASSUME algorithm \in {1, 2}, NEW m, IsVM(m), NEW frame, NEW resetUses
  PROVE  Updated(updatePage(m, frame, resetUses), m, frame, resetUses)
<1>1. CASE algorithm = 1
  <2> DEFINE x == Append(m.queue, [frame |-> frame, used |-> TRUE])
  <2>1. updatePage(m, frame, resetUses) = [m EXCEPT !.queue = x]
    BY <1>1 DEF updatePage
  <2> HIDE DEF x
  <2>2. Like([m EXCEPT !.queue = x], m) /\ [m EXCEPT !.queue = x].queue = x
    BY NewQueue, Zenon
  <2> QED BY <1>1, <2>1, <2>2 DEF x, Updated
<1>2. CASE algorithm = 2
  <2> DEFINE x == [m.uses EXCEPT ![frame] = IF resetUses THEN 0 ELSE m.uses[frame] + 1]
  <2>1. updatePage(m, frame, resetUses) = [m EXCEPT !.uses = x]
    BY <1>2 DEF updatePage
  <2> HIDE DEF x
  <2>2. Like([m EXCEPT !.uses = x], m) /\ [m EXCEPT !.uses = x].uses = x
    BY NewUses, Zenon
  <2> QED BY <1>2, <2>1, <2>2 DEF x, Updated
<1> QED BY <1>1, <1>2

\* So does the choice of an entry.
LEMMA ChooseLike ==
  ASSUME algorithm \in {1, 2}, NEW m, IsVM(m)
  PROVE  Like(ChooseEntry(m).m, m)
<1>1. PICK x : secondChance(m).m = [m EXCEPT !.queue = x]
  BY Zenon DEF secondChance
<1>2. PICK y : leastUsed(m).m = [m EXCEPT !.uses = y]
  BY Zenon DEF leastUsed
<1>3. Like(m, m)
  BY DEF Like
<1>4. Like(secondChance(m).m, m)
  <2>1. Like([m EXCEPT !.queue = x], m)
    BY NewQueue, Zenon
  <2> QED BY <1>1, <2>1, Zenon
<1>5. Like(leastUsed(m).m, m)
  <2>1. Like([m EXCEPT !.uses = y], m)
    BY NewUses, Zenon
  <2> QED BY <1>2, <2>1, Zenon
<1> QED BY <1>3, <1>4, <1>5 DEF ChooseEntry, getTLBEntryToReplace

\* A set of natural numbers that is not empty has a least one, and Min is it.
LEMMA LeastOne ==
  ASSUME NEW S, S \subseteq Nat, S # {}
  PROVE  Min(S) \in S /\ \A y \in S : Min(S) <= y
<1> DEFINE R == OpToRel(<, Nat)
<1>1. IsWellFoundedOn(R, Nat)
  BY NatLessThanWellFounded, Zenon
<1>2. \A x, y \in Nat : x < y => <<x, y>> \in R
  BY DEF OpToRel
<1> HIDE DEF R
<1>3. PICK x \in S : \A y \in S : ~(<<y, x>> \in R)
  BY <1>1, WFMin, Zenon
<1>4. ASSUME NEW y \in S PROVE x <= y
  <2>1. x \in Nat /\ y \in Nat
    OBVIOUS
  <2>2. ~(y < x)
    BY <1>2, <1>3, <2>1, Zenon
  <2> QED BY <2>1, <2>2
<1> QED BY <1>4, Zenon DEF Min

\* A page is read into a frame.
FromDisk(n, m, s, page, frame) ==
  /\ IsVM(n) /\ n.tlb = m.tlb /\ n.queue = m.queue /\ n.uses = m.uses
  /\ n.marked = m.marked \cup {frame}
  /\ n.pageTable = [m.pageTable EXCEPT ![s] = [m.pageTable[s] EXCEPT ![page] =
                      [virtualPage |-> page, physicalPage |-> frame]]]
  /\ n.memory = IF page \notin SharedPages THEN m.memory
                ELSE [m.memory EXCEPT ![frame] = [page |-> page, val |-> 0]]

\* loadFromDisk does so.
LEMMA LoadFromDisk ==
  ASSUME NEW m, IsVM(m), NEW s, NEW page
  PROVE  FromDisk(loadFromDisk(m, s, page), m, s, page, getPhysicalPage(m))
BY DEF loadFromDisk, IsVM, FromDisk

\* An entry of the TLB, if it is one, gets what the page table says.
InTLB(n, m, s, entry, page) ==
  LET pte == m.pageTable[s][page] IN
  /\ IsVM(n) /\ n.pageTable = m.pageTable /\ n.marked = m.marked /\ n.memory = m.memory
  /\ n.tlb = IF entry \in Entries
             THEN [m.tlb EXCEPT ![entry] = [valid |-> TRUE, virtualPage |-> pte.virtualPage,
                                            physicalPage |-> pte.physicalPage]]
             ELSE m.tlb
  /\ algorithm = 1 => n.queue = Append(m.queue, [frame |-> pte.physicalPage, used |-> TRUE])
  /\ algorithm = 2 => n.uses = [m.uses EXCEPT ![pte.physicalPage] = 0]

\* loadToTLB does so.
LEMMA LoadToTLB ==
  ASSUME algorithm \in {1, 2}, NEW m, IsVM(m), NEW s, NEW entry, NEW page
  PROVE  InTLB(loadToTLB(m, s, entry, page), m, s, entry, page)
<1> DEFINE pte == m.pageTable[s][page]
           x == [m.tlb EXCEPT ![entry] = [valid |-> TRUE, virtualPage |-> pte.virtualPage,
                                          physicalPage |-> pte.physicalPage]]
           l == IF entry \in Entries THEN [m EXCEPT !.tlb = x] ELSE m
           f == pte.physicalPage
<1>1. loadToTLB(m, s, entry, page) = updatePage(l, f, TRUE)
  BY Zenon DEF loadToTLB
<1> HIDE DEF x, f
<1>2. /\ IsVM(l) /\ l.pageTable = m.pageTable /\ l.marked = m.marked /\ l.memory = m.memory
      /\ l.queue = m.queue /\ l.uses = m.uses
      /\ l.tlb = IF entry \in Entries THEN x ELSE m.tlb
  <2>1. CASE entry \in Entries
    BY <2>1 DEF IsVM
  <2>2. CASE entry \notin Entries
    BY <2>2
  <2> QED BY <2>1, <2>2
<1> HIDE DEF l
<1>3. Updated(updatePage(l, f, TRUE), l, f, TRUE)
  BY <1>2, UpdatePage, Zenon
<1> QED BY <1>1, <1>2, <1>3, Zenon DEF Updated, InTLB, Like, x, f

\* Another memory, or other page tables, and the rest as it was.
WithMemory(n, m, x) ==
  /\ IsVM(n) /\ n.memory = x /\ n.pageTable = m.pageTable /\ n.tlb = m.tlb
  /\ n.marked = m.marked /\ n.queue = m.queue /\ n.uses = m.uses

WithTables(n, m, x) ==
  /\ IsVM(n) /\ n.pageTable = x /\ n.memory = m.memory /\ n.tlb = m.tlb
  /\ n.marked = m.marked /\ n.queue = m.queue /\ n.uses = m.uses

\* The record's updates are such.
LEMMA NewMemory ==
  ASSUME NEW m, IsVM(m), NEW x
  PROVE  WithMemory([m EXCEPT !.memory = x], m, x)
BY DEF IsVM, WithMemory

\* So is that of the page tables.
LEMMA NewTables ==
  ASSUME NEW m, IsVM(m), NEW x
  PROVE  WithTables([m EXCEPT !.pageTable = x], m, x)
BY DEF IsVM, WithTables

\* The page-fault handler step by step: l is the memory with the page loaded,
\* c the choice of an entry of the TLB, n what the handler leaves.
FaultSteps(m, s, page, l, c, n) ==
  /\ l = IF isLoadedInPT(m, s, page) THEN m ELSE loadFromDisk(m, s, page)
  /\ c = ChooseEntry(l) /\ Like(c.m, l) /\ IsVM(l)
  /\ IsVM(n) /\ n.pageTable = l.pageTable /\ n.marked = l.marked /\ n.memory = l.memory
  /\ n.tlb = IF c.entry \in Entries
             THEN [l.tlb EXCEPT ![c.entry] = [valid |-> TRUE,
                     virtualPage |-> l.pageTable[s][page].virtualPage,
                     physicalPage |-> l.pageTable[s][page].physicalPage]]
             ELSE l.tlb
  /\ algorithm = 1 => n.queue = Append(c.m.queue, [frame |-> l.pageTable[s][page].physicalPage,
                                                    used |-> TRUE])
  /\ algorithm = 2 => n.uses = [c.m.uses EXCEPT ![l.pageTable[s][page].physicalPage] = 0]

\* Both arms of the handler go through these steps.
LEMMA FaultInSteps ==
  ASSUME algorithm \in {1, 2}, NEW m, IsVM(m), NEW s, NEW page,
         NEW fault \in NachOS_PageFaultException(m, s, page)
  PROVE  \E l, c : fault.entry = c.entry /\ FaultSteps(m, s, page, l, c, fault.m)
<1> DEFINE l == IF isLoadedInPT(m, s, page) THEN m ELSE loadFromDisk(m, s, page)
           c == ChooseEntry(l)
           n == loadToTLB(c.m, s, c.entry, page)
<1>1. fault = [entry |-> c.entry, m |-> n]
  BY DEF NachOS_PageFaultException
<1>2. IsVM(l)
  BY LoadFromDisk, Zenon DEF FromDisk
<1> HIDE DEF l
<1>3. Like(c.m, l)
  BY <1>2, ChooseLike
<1>4. IsVM(c.m) /\ c.m.pageTable = l.pageTable /\ c.m.tlb = l.tlb
      /\ c.m.marked = l.marked /\ c.m.memory = l.memory
  BY <1>3 DEF Like
<1> HIDE DEF c
<1> DEFINE k == c.m
           e == c.entry
<1> HIDE DEF k, e
<1>5. InTLB(loadToTLB(k, s, e, page), k, s, e, page)
  <2>1. IsVM(k)
    BY <1>4 DEF k
  <2> QED BY <2>1, LoadToTLB, Zenon
<1>6. n = loadToTLB(k, s, e, page)
  BY Zenon  DEF k, e
<1> HIDE DEF n
<1>7. FaultSteps(m, s, page, l, c, n)
  <2>1. /\ l = IF isLoadedInPT(m, s, page) THEN m ELSE loadFromDisk(m, s, page)
        /\ c = ChooseEntry(l) /\ Like(c.m, l) /\ IsVM(l)
    BY <1>2, <1>3, Zenon DEF l, c
  <2>2. /\ IsVM(n) /\ n.pageTable = l.pageTable /\ n.marked = l.marked /\ n.memory = l.memory
    BY <1>4, <1>5, <1>6, Zenon DEF k, InTLB
  <2>3. n.tlb = IF c.entry \in Entries
             THEN [l.tlb EXCEPT ![c.entry] = [valid |-> TRUE,
                     virtualPage |-> l.pageTable[s][page].virtualPage,
                     physicalPage |-> l.pageTable[s][page].physicalPage]]
             ELSE l.tlb
    BY <1>4, <1>5, <1>6, ZenonT(60) DEF k, e, InTLB
  <2>4. /\ algorithm = 1 => n.queue = Append(c.m.queue, [frame |-> l.pageTable[s][page].physicalPage,
                                                          used |-> TRUE])
        /\ algorithm = 2 => n.uses = [c.m.uses EXCEPT ![l.pageTable[s][page].physicalPage] = 0]
    BY <1>4, <1>5, <1>6 DEF k, InTLB
  <2> QED BY <2>1, <2>2, <2>3, <2>4, Zenon DEF FaultSteps
<1>8. fault.entry = c.entry /\ fault.m = n
  BY <1>1
<1> QED BY <1>7, <1>8, Zenon

\* What a translation finds, and what it changes.
TranslateSteps(m, page, t) ==
  /\ Like(t.m, m)
  /\ Hits(m, page) = {} => t.exception = "PageFault" /\ t.m = m
  /\ Hits(m, page) # {} =>
       /\ \E i \in Hits(m, page) : t.frame = m.tlb[i].physicalPage
       /\ t.exception # "PageFault" /\ (t.exception = "None" => ~(t.frame >= NumPhysPages))
       /\ algorithm = 1 => t.m.queue = Append(m.queue, [frame |-> t.frame, used |-> TRUE])
       /\ algorithm = 2 => t.m.uses = [m.uses EXCEPT ![t.frame] = m.uses[t.frame] + 1]

\* Translate does so.
LEMMA TranslateInSteps ==
  ASSUME algorithm \in {1, 2}, NEW m, IsVM(m), NEW page, NEW writing
  PROVE  TranslateSteps(m, page, Translate(m, page, writing))
<1> DEFINE t == Translate(m, page, writing)
<1>1. CASE Hits(m, page) = {}
  <2>1. t = [exception |-> "PageFault", m |-> m, frame |-> -1]
    BY <1>1, Zenon DEF Translate
  <2> QED BY <1>1, <2>1 DEF TranslateSteps, Like
<1>2. CASE Hits(m, page) # {}
  <2> DEFINE i == Min(Hits(m, page))
             frame == m.tlb[i].physicalPage
             n == updatePage(m, frame, FALSE)
             x == IF readOnly[i] /\ writing THEN "ReadOnly"
                  ELSE IF frame >= NumPhysPages THEN "BusError" ELSE "None"
  <2>1. i \in Hits(m, page)
    <3> DEFINE H == Hits(m, page)
    <3>1. H \subseteq Nat /\ H # {}
      BY <1>2, VirtualMemoryAssumption, SMTT(60) DEF Hits, Entries
    <3> HIDE DEF H
    <3>2. Min(H) \in H
      BY <3>1, LeastOne, Zenon
    <3> QED BY <3>2 DEF H
  <2>2. t = [exception |-> x, m |-> n, frame |-> frame]
    BY <1>2, Zenon DEF Translate
  <2> HIDE DEF i
  <2>3. /\ Like(n, m)
        /\ algorithm = 1 => n.queue = Append(m.queue, [frame |-> frame, used |-> TRUE])
        /\ algorithm = 2 => n.uses = [m.uses EXCEPT ![frame] = m.uses[frame] + 1]
    <3> HIDE DEF frame
    <3>1. Updated(updatePage(m, frame, FALSE), m, frame, FALSE)
      BY UpdatePage, Zenon
    <3> QED BY <3>1, Zenon DEF Updated
  <2> HIDE DEF n
  <2>4. x # "PageFault" /\ (x = "None" => ~(frame >= NumPhysPages))
    <3> HIDE DEF frame
    <3> QED OBVIOUS
  <2> HIDE DEF x
  <2>5. t.exception = x /\ t.m = n /\ t.frame = frame
    BY <2>2
  <2> QED BY <1>2, <2>1, <2>3, <2>4, <2>5 DEF TranslateSteps
<1> QED BY <1>1, <1>2

----------------------------------------------------------------------------
\* ---- the memory of one program ----

PTEs == [virtualPage : Pages \cup {-1}, physicalPage : Frames \cup {-1}]
TLBEs == [valid : BOOLEAN, virtualPage : Pages \cup {-1}, physicalPage : Frames \cup {-1}]

Loaded(m, p) == m.pageTable[1][p].virtualPage # -1
FrameOf(m, p) == m.pageTable[1][p].physicalPage

OneTypes(m, w) ==
  /\ IsVM(m) /\ m.pageTable \in [Spaces -> [Pages -> PTEs]] /\ m.tlb \in [Entries -> TLBEs]
  /\ m.marked \subseteq 0..NumPhysPages /\ m.memory \in [Frames -> Contents \cup {Nothing}]
  /\ w \in [Pages -> -1..1]

\* A page is not loaded and has what its executable had, or has a marked frame
\* of its own; a frame past the machine's is that of some page.
OnePages(m, w) ==
  /\ \A p \in Pages : \/ ~Loaded(m, p) /\ w[p] = (IF p \in SharedPages THEN 0 ELSE -1)
                      \/ m.pageTable[1][p].virtualPage = p /\ FrameOf(m, p) \in m.marked
  /\ \A p, q \in Pages : Loaded(m, p) /\ Loaded(m, q) /\ FrameOf(m, p) = FrameOf(m, q) => p = q
  /\ NumPhysPages \in m.marked => \E p \in Pages : Loaded(m, p) /\ FrameOf(m, p) = NumPhysPages

\* The TLB says what the page table says.
OneTLB(m) ==
  \A i \in Entries : m.tlb[i].valid =>
    /\ m.tlb[i].virtualPage \in Pages /\ Loaded(m, m.tlb[i].virtualPage)
    /\ m.tlb[i].physicalPage = FrameOf(m, m.tlb[i].virtualPage)

\* The frame of a loaded page holds what was last written in it.
OneMemory(m, w) ==
  \A p \in Pages : Loaded(m, p) /\ w[p] # -1 => m.memory[FrameOf(m, p)] = [page |-> p, val |-> w[p]]

\* The access under way is the only one that can have a frame past the machine's.
OnePast(m, a) ==
  \A p \in Pages : Loaded(m, p) /\ FrameOf(m, p) = NumPhysPages => a # NoAccess /\ a.page = p

One(m, w, a) ==
  OneTypes(m, w) /\ OnePages(m, w) /\ OneTLB(m) /\ OneMemory(m, w) /\ OnePast(m, a)

\* The sizes are natural numbers and there is a frame past the machine's.
LEMMA Sizes ==
  /\ NumPhysPages \in Nat /\ NumPhysPages > 0 /\ NumPhysPages \in Frames /\ Frames \subseteq Nat
  /\ Entries \subseteq Nat /\ 1 \in Spaces /\ 0..NumPhysPages \subseteq Frames
  /\ Pages \subseteq Nat /\ SharedPages \subseteq Pages
<1>1. /\ NumPhysPages \in Nat /\ NumPhysPages > 0 /\ TLBSize \in Nat /\ MaxSpaces \in Nat
      /\ MaxSpaces > 0 /\ NumPages \in Nat /\ StackPages \in Nat
  BY VirtualMemoryAssumption
<1> QED BY <1>1 DEF Frames, NumPhysPages_IPT, Entries, Spaces, Pages, SharedPages

\* The replacement algorithms change nothing of this.
LEMMA OneLike ==
  ASSUME NEW m, NEW w, NEW a, One(m, w, a), NEW n, Like(n, m)
  PROVE  One(n, w, a)
<1>1. /\ IsVM(n) /\ n.pageTable = m.pageTable /\ n.tlb = m.tlb
      /\ n.marked = m.marked /\ n.memory = m.memory
  BY DEF Like
<1>2. \A p : Loaded(n, p) = Loaded(m, p) /\ FrameOf(n, p) = FrameOf(m, p)
  BY <1>1 DEF Loaded, FrameOf
<1>3. OneTypes(n, w)
  BY <1>1 DEF One, OneTypes
<1>4. OnePages(n, w)
  BY <1>1, <1>2 DEF One, OnePages
<1>5. OneTLB(n)
  BY <1>1, <1>2 DEF One, OneTLB
<1>6. OneMemory(n, w)
  BY <1>1, <1>2 DEF One, OneMemory
<1>7. OnePast(n, a)
  BY <1>2 DEF One, OnePast
<1> QED BY <1>3, <1>4, <1>5, <1>6, <1>7 DEF One

\* A page is loaded in a frame that no page has.
LEMMA OneLoads ==
  ASSUME NEW m, NEW w, NEW a, One(m, w, a), a # NoAccess, a.page \in Pages, ~Loaded(m, a.page)
  PROVE  LET n == loadFromDisk(m, 1, a.page) IN One(n, w, a) /\ Loaded(n, a.page)
<1> DEFINE page == a.page
           frame == getPhysicalPage(m)
           n == loadFromDisk(m, 1, page)
           pte == [virtualPage |-> page, physicalPage |-> frame]
<1>1. NumPhysPages \notin m.marked
  BY DEF One, OnePages, OnePast
<1>2. frame \in Frames \ m.marked /\ frame <= NumPhysPages
  <2> DEFINE left == Frames \ m.marked
  <2>1. left \subseteq Nat /\ NumPhysPages \in left
    BY <1>1, Sizes, Zenon
  <2> HIDE DEF left
  <2>2. Min(left) \in left /\ Min(left) <= NumPhysPages
    BY <2>1, LeastOne, Zenon
  <2> QED BY <2>2 DEF left, getPhysicalPage
<1>3. frame \in 0..NumPhysPages /\ frame \in Frames /\ frame \notin m.marked
  <2>1. frame \in Frames /\ frame \notin m.marked /\ frame <= NumPhysPages
    BY <1>2
  <2>2. frame \in Nat /\ NumPhysPages \in Nat
    BY <2>1, Sizes, Zenon
  <2> QED BY <2>1, <2>2
<1>4. /\ IsVM(n) /\ n.tlb = m.tlb /\ n.marked = m.marked \cup {frame}
      /\ n.pageTable = [m.pageTable EXCEPT ![1] = [m.pageTable[1] EXCEPT ![page] = pte]]
      /\ n.memory = IF page \notin SharedPages THEN m.memory
                    ELSE [m.memory EXCEPT ![frame] = [page |-> page, val |-> 0]]
  <2>1. IsVM(m)
    BY DEF One, OneTypes
  <2>2. FromDisk(n, m, 1, page, frame)
    BY <2>1, LoadFromDisk
  <2> HIDE DEF n, frame, page
  <2> QED BY <2>2 DEF FromDisk
<1> HIDE DEF n, frame
<1>5. /\ m.pageTable \in [Spaces -> [Pages -> PTEs]] /\ m.tlb \in [Entries -> TLBEs]
      /\ m.marked \subseteq 0..NumPhysPages /\ m.memory \in [Frames -> Contents \cup {Nothing}]
      /\ w \in [Pages -> -1..1] /\ page \in Pages /\ 1 \in Spaces
  BY Sizes DEF One, OneTypes
<1> HIDE DEF page
<1>6. pte \in PTEs
  BY <1>3, <1>5 DEF PTEs
<1>7. /\ n.pageTable[1] = [m.pageTable[1] EXCEPT ![page] = pte]
      /\ n.pageTable \in [Spaces -> [Pages -> PTEs]]
  BY <1>4, <1>5, <1>6
<1>8. /\ n.pageTable[1][page] = pte
      /\ \A p \in Pages \ {page} : n.pageTable[1][p] = m.pageTable[1][p]
  <2>1. m.pageTable[1] \in [Pages -> PTEs]
    BY <1>5
  <2> QED BY <1>5, <1>7, <2>1
<1>9. page # -1
  BY <1>5, Sizes
<1>10. /\ Loaded(n, page) /\ FrameOf(n, page) = frame
       /\ \A p \in Pages \ {page} : Loaded(n, p) = Loaded(m, p) /\ FrameOf(n, p) = FrameOf(m, p)
  BY <1>8, <1>9 DEF Loaded, FrameOf
<1>11. \A p \in Pages : Loaded(m, p) => FrameOf(m, p) \in m.marked
  BY DEF One, OnePages
<1>12. OneTypes(n, w)
  <2>1. n.memory \in [Frames -> Contents \cup {Nothing}]
    <3>1. [page |-> page, val |-> 0] \in Contents
      BY <1>5 DEF Contents
    <3> QED BY <1>3, <1>4, <1>5, <3>1
  <2>2. n.marked \subseteq 0..NumPhysPages
    BY <1>3, <1>4, <1>5, Zenon
  <2> QED BY <1>4, <1>5, <1>7, <2>1, <2>2, Zenon DEF OneTypes
<1>13. OnePages(n, w)
  <2>1. ASSUME NEW p \in Pages
        PROVE  \/ ~Loaded(n, p) /\ w[p] = (IF p \in SharedPages THEN 0 ELSE -1)
               \/ n.pageTable[1][p].virtualPage = p /\ FrameOf(n, p) \in n.marked
    <3>1. CASE p = page
      BY <1>4, <1>8, <1>10, <3>1, SMTT(60)
    <3>2. CASE p # page
      BY <1>4, <1>8, <1>10, <3>2, Zenon DEF One, OnePages
    <3> QED BY <3>1, <3>2, ZenonT(60)
  <2>2. \A p, q \in Pages : Loaded(n, p) /\ Loaded(n, q) /\ FrameOf(n, p) = FrameOf(n, q) => p = q
    BY <1>3, <1>10, <1>11, Zenon DEF One, OnePages
  <2>3. NumPhysPages \in n.marked => \E p \in Pages : Loaded(n, p) /\ FrameOf(n, p) = NumPhysPages
    BY <1>1, <1>4, <1>5, <1>10, ZenonT(60)
  <2> QED BY <2>1, <2>2, <2>3, Zenon DEF OnePages
<1>14. OneTLB(n)
  <2>1. \A i \in Entries : m.tlb[i].valid => m.tlb[i].virtualPage # page
    BY Zenon DEF One, OneTLB, page
  <2> QED BY <1>4, <1>10, <2>1, SMTT(60) DEF One, OneTLB
<1>15. OneMemory(n, w)
  <2> SUFFICES ASSUME NEW p \in Pages, Loaded(n, p), w[p] # -1
               PROVE  n.memory[FrameOf(n, p)] = [page |-> p, val |-> w[p]]
    BY DEF OneMemory
  <2>1. CASE p = page
    <3>1. w[page] = (IF page \in SharedPages THEN 0 ELSE -1)
      <4>1. m.pageTable[1][page].virtualPage # page
        BY <1>9 DEF Loaded, page
      <4> QED BY <1>5, <4>1, Zenon DEF One, OnePages
    <3>2. page \in SharedPages /\ w[page] = 0
      BY <2>1, <3>1, Zenon
    <3>3. n.memory[frame] = [page |-> page, val |-> 0]
      BY <1>3, <1>4, <1>5, <3>2, ZenonT(60)
    <3> QED BY <1>10, <2>1, <3>2, <3>3, Zenon
  <2>2. CASE p # page
    <3>1. Loaded(m, p) /\ FrameOf(n, p) = FrameOf(m, p) /\ FrameOf(m, p) \in m.marked
      BY <1>10, <1>11, <2>2
    <3>2. FrameOf(m, p) # frame
      BY <1>3, <3>1, ZenonT(60)
    <3>3. n.memory[FrameOf(m, p)] = m.memory[FrameOf(m, p)]
      BY <1>4, <1>5, <3>2, SMTT(60)
    <3> QED BY <3>1, <3>3, Zenon DEF One, OneMemory
  <2> QED BY <2>1, <2>2, ZenonT(60)
<1>16. OnePast(n, a)
  <2>1. \A p \in Pages : Loaded(m, p) => FrameOf(m, p) # NumPhysPages
    BY <1>1, <1>11
  <2> QED BY <1>10, <2>1 DEF OnePast, page
<1> QED BY <1>10, <1>12, <1>13, <1>14, <1>15, <1>16, Zenon DEF One, n, page

\* After the page-fault handler the page is loaded, and in the TLB if the entry
\* that was chosen is one of the TLB.
LEMMA OneFault ==
  ASSUME algorithm \in {1, 2}, NEW m, NEW w, NEW a, One(m, w, a), a # NoAccess, a.page \in Pages,
         NEW fault \in NachOS_PageFaultException(m, 1, a.page)
  PROVE  One(fault.m, w, a)
<1> DEFINE page == a.page
           n == fault.m
<1>1. IsVM(m)
  BY DEF One, OneTypes
<1>2. PICK l, c : FaultSteps(m, 1, page, l, c, n)
  BY <1>1, FaultInSteps, SMTT(60)
<1> HIDE DEF n
<1>3. /\ l = IF isLoadedInPT(m, 1, page) THEN m ELSE loadFromDisk(m, 1, page)
      /\ IsVM(n) /\ n.pageTable = l.pageTable /\ n.marked = l.marked /\ n.memory = l.memory
  BY <1>2, Zenon DEF FaultSteps
<1>4. One(l, w, a) /\ Loaded(l, page)
  <2>1. CASE Loaded(m, page)
    BY <1>3, <2>1 DEF isLoadedInPT, Loaded
  <2>2. CASE ~Loaded(m, page)
    <3>1. l = loadFromDisk(m, 1, page)
      BY <1>3, <2>2, Zenon DEF isLoadedInPT, Loaded
    <3> QED BY <2>2, <3>1, OneLoads, Zenon
  <2> QED BY <2>1, <2>2, Zenon
<1> HIDE DEF page
<1>5. \A p : Loaded(n, p) = Loaded(l, p) /\ FrameOf(n, p) = FrameOf(l, p)
  BY <1>3, Zenon DEF Loaded, FrameOf
<1> DEFINE pte == l.pageTable[1][page]
           e == [valid |-> TRUE, virtualPage |-> pte.virtualPage, physicalPage |-> pte.physicalPage]
<1>6. /\ page \in Pages /\ pte \in PTEs /\ pte.virtualPage = page
      /\ pte.physicalPage = FrameOf(l, page) /\ l.tlb \in [Entries -> TLBEs]
  <2>1. page \in Pages /\ 1 \in Spaces
    BY Sizes, Zenon DEF page
  <2>2. l.pageTable \in [Spaces -> [Pages -> PTEs]] /\ l.tlb \in [Entries -> TLBEs]
    BY <1>4 DEF One, OneTypes
  <2>3. pte \in PTEs
    BY <2>1, <2>2, Zenon
  <2>4. pte.virtualPage = page
    BY <1>4, <2>1, Zenon DEF One, OnePages
  <2> QED BY <2>1, <2>2, <2>3, <2>4 DEF FrameOf
<1>7. n.tlb = l.tlb \/ (c.entry \in Entries /\ n.tlb = [l.tlb EXCEPT ![c.entry] = e])
  BY <1>2, Zenon DEF FaultSteps
<1> HIDE DEF pte
<1>8. e \in TLBEs
  BY <1>6 DEF PTEs, TLBEs
<1>9. /\ n.tlb \in [Entries -> TLBEs]
      /\ \A i \in Entries : n.tlb[i] = l.tlb[i] \/ n.tlb[i] = e
  BY <1>6, <1>7, <1>8, Zenon
<1>10. e.virtualPage = page /\ e.physicalPage = FrameOf(l, page)
  BY <1>6, Zenon
<1> HIDE DEF e
<1>11. OneTypes(n, w)
  BY <1>3, <1>4, <1>9, Zenon DEF One, OneTypes
<1>12. OnePages(n, w)
  BY <1>3, <1>4, <1>5, Zenon DEF One, OnePages
<1>13. OneTLB(n)
  <2> SUFFICES ASSUME NEW i \in Entries, n.tlb[i].valid
               PROVE  /\ n.tlb[i].virtualPage \in Pages /\ Loaded(n, n.tlb[i].virtualPage)
                      /\ n.tlb[i].physicalPage = FrameOf(n, n.tlb[i].virtualPage)
    BY Zenon  DEF OneTLB
  <2>1. CASE n.tlb[i] = l.tlb[i]
    BY <1>4, <1>5, <2>1, ZenonT(60) DEF One, OneTLB
  <2>2. CASE n.tlb[i] = e
    BY <1>4, <1>5, <1>6, <1>10, <2>2, Zenon
  <2> QED BY <1>9, <2>1, <2>2, Zenon
<1>14. OneMemory(n, w)
  BY <1>3, <1>4, <1>5, ZenonT(60) DEF One, OneMemory
<1>15. OnePast(n, a)
  BY <1>4, <1>5 DEF One, OnePast
<1> QED BY <1>11, <1>12, <1>13, <1>14, <1>15, Zenon DEF One, n

\* A translation gives the frame of the page.
LEMMA OneTranslate ==
  ASSUME algorithm \in {1, 2}, NEW m, NEW w, NEW a, One(m, w, a), NEW page, NEW writing
  PROVE  LET t == Translate(m, page, writing) IN
         /\ One(t.m, w, a)
         /\ t.exception = "None" =>
              page \in Pages /\ Loaded(t.m, page) /\ t.frame = FrameOf(t.m, page)
                /\ t.frame \in Frames /\ t.frame # NumPhysPages
<1> DEFINE t == Translate(m, page, writing)
<1>1. IsVM(m)
  BY DEF One, OneTypes
<1>2. TranslateSteps(m, page, t)
  BY <1>1, TranslateInSteps, Zenon
<1> HIDE DEF t
<1>3. Like(t.m, m)
  BY <1>2, Zenon DEF TranslateSteps
<1>4. One(t.m, w, a)
  BY <1>3, OneLike, Zenon
<1>5. ASSUME t.exception = "None"
      PROVE  page \in Pages /\ Loaded(t.m, page) /\ t.frame = FrameOf(t.m, page)
               /\ t.frame \in Frames /\ t.frame # NumPhysPages
  <2>1. Hits(m, page) # {}
    BY <1>2, <1>5, Zenon DEF TranslateSteps
  <2>2. PICK i \in Hits(m, page) : t.frame = m.tlb[i].physicalPage
    BY <1>2, <2>1, Zenon DEF TranslateSteps
  <2>3. ~(t.frame >= NumPhysPages)
    BY <1>2, <1>5, <2>1, Zenon DEF TranslateSteps
  <2>4. i \in Entries /\ m.tlb[i].valid /\ m.tlb[i].virtualPage = page
    BY Zenon DEF Hits
  <2>5. page \in Pages /\ Loaded(m, page) /\ t.frame = FrameOf(m, page)
    BY <2>2, <2>4, Zenon DEF One, OneTLB
  <2>6. Loaded(t.m, page) /\ FrameOf(t.m, page) = FrameOf(m, page)
    BY <1>3, <2>5, ZenonT(60) DEF Like, Loaded, FrameOf
  <2>7. FrameOf(m, page) \in 0..NumPhysPages
    BY <2>5 DEF One, OneTypes, OnePages
  <2>8. t.frame \in Frames /\ t.frame # NumPhysPages
    <3>1. t.frame \in 0..NumPhysPages /\ NumPhysPages \in Nat /\ 0..NumPhysPages \subseteq Frames
      BY <2>5, <2>7, Sizes
    <3> QED BY <2>3, <3>1
  <2> QED BY <2>5, <2>6, <2>8, Zenon
<1> QED BY <1>4, <1>5, Zenon DEF t

\* A write goes to the frame of the page and to no other page's.
LEMMA OneWrites ==
  ASSUME NEW m, NEW w, NEW a, One(m, w, a), a.page \in Pages, NEW frame, Loaded(m, a.page),
         frame = FrameOf(m, a.page), frame \in Frames, frame # NumPhysPages, NEW val \in 0..1
  PROVE  LET x == [m.memory EXCEPT ![frame] = [page |-> a.page, val |-> val]] IN
         One([m EXCEPT !.memory = x], [w EXCEPT ![a.page] = val], NoAccess)
<1> DEFINE page == a.page
           c == [page |-> page, val |-> val]
           x == [m.memory EXCEPT ![frame] = c]
           n == [m EXCEPT !.memory = x]
           v == [w EXCEPT ![page] = val]
<1>1. /\ IsVM(m) /\ m.pageTable \in [Spaces -> [Pages -> PTEs]] /\ m.tlb \in [Entries -> TLBEs]
      /\ m.marked \subseteq 0..NumPhysPages /\ m.memory \in [Frames -> Contents \cup {Nothing}]
      /\ w \in [Pages -> -1..1] /\ page \in Pages
  BY Zenon DEF One, OneTypes
<1>2. c \in Contents
  BY <1>1, Zenon DEF Contents
<1> HIDE DEF c
<1>3. /\ x \in [Frames -> Contents \cup {Nothing}] /\ x[frame] = c
      /\ \A f \in Frames \ {frame} : x[f] = m.memory[f]
  BY <1>1, <1>2
<1> HIDE DEF x
<1>4. /\ IsVM(n) /\ n.memory = x /\ n.pageTable = m.pageTable /\ n.tlb = m.tlb
      /\ n.marked = m.marked
  <2>1. WithMemory(n, m, x)
    BY <1>1, NewMemory, Zenon
  <2> HIDE DEF n
  <2> QED BY <2>1 DEF WithMemory
<1> HIDE DEF n, page
<1>5. v \in [Pages -> -1..1] /\ v[page] = val /\ \A p \in Pages \ {page} : v[p] = w[p]
  BY <1>1
<1> HIDE DEF v
<1>6. \A p : Loaded(n, p) = Loaded(m, p) /\ FrameOf(n, p) = FrameOf(m, p)
  BY <1>4, Zenon DEF Loaded, FrameOf
<1>7. OneTypes(n, v)
  BY <1>1, <1>3, <1>4, <1>5, Zenon DEF OneTypes
<1>8. OnePages(n, v)
  <2>1. ASSUME NEW p \in Pages
        PROVE  \/ ~Loaded(n, p) /\ v[p] = (IF p \in SharedPages THEN 0 ELSE -1)
               \/ n.pageTable[1][p].virtualPage = p /\ FrameOf(n, p) \in n.marked
    <3>1. CASE p = page
      BY <1>4, <1>6, <3>1, Zenon DEF One, OnePages, page
    <3>2. CASE p # page
      BY <1>4, <1>5, <1>6, <3>2, Zenon DEF One, OnePages
    <3> QED BY <3>1, <3>2, Zenon
  <2> QED BY <1>4, <1>6, <2>1, Zenon DEF One, OnePages
<1>9. OneTLB(n)
  BY <1>4, <1>6, Zenon DEF One, OneTLB
<1>10. OneMemory(n, v)
  <2> SUFFICES ASSUME NEW p \in Pages, Loaded(n, p), v[p] # -1
               PROVE  n.memory[FrameOf(n, p)] = [page |-> p, val |-> v[p]]
    BY Zenon  DEF OneMemory
  <2>1. CASE p = page
    BY <1>3, <1>4, <1>5, <1>6, <2>1, Zenon DEF c, page
  <2>2. CASE p # page
    <3>1. Loaded(m, p) /\ Loaded(m, page) /\ frame = FrameOf(m, page) /\ v[p] = w[p]
      BY <1>5, <1>6, <2>2, Zenon DEF page
    <3>2. FrameOf(m, p) # frame
      BY <1>1, <2>2, <3>1, Zenon DEF One, OnePages
    <3>3. FrameOf(m, p) \in Frames
      BY <3>1, Sizes, Zenon DEF One, OneTypes, OnePages
    <3>4. n.memory[FrameOf(m, p)] = m.memory[FrameOf(m, p)]
      BY <1>3, <1>4, <3>2, <3>3, Zenon
    <3> QED BY <1>6, <3>1, <3>4, Zenon DEF One, OneMemory
  <2> QED BY <2>1, <2>2, Zenon
<1>11. OnePast(n, NoAccess)
  <2>1. \A p \in Pages : Loaded(m, p) => FrameOf(m, p) # NumPhysPages
    BY DEF One, OnePast
  <2> QED BY <1>6, <2>1, Zenon DEF OnePast
<1> QED BY <1>7, <1>8, <1>9, <1>10, <1>11, Zenon DEF One, n, x, v, c, page

\* A read leaves no access under way, and no page past the machine's memory.
LEMMA OneReads ==
  ASSUME NEW m, NEW w, NEW a, One(m, w, a), a.page \in Pages, Loaded(m, a.page),
         FrameOf(m, a.page) # NumPhysPages
  PROVE  One(m, w, NoAccess)
BY Zenon  DEF One, OnePast

\* What an access of a program is.
Wants == [page : Pages, op : {"read", "write"}]

VTypes ==
  /\ algorithm \in {1, 2} /\ IsVM(vm) /\ spaces \in Spaces /\ current \in 1..spaces
  /\ want \in [Spaces -> Wants \cup {NoAccess}]

MemInv == spaces = 1 => One(vm, written, want[1])

\* The invariant says of the TLB what MemoryIntact says.
LEMMA MemInvImplies == MemInv => MemoryIntact
<1> SUFFICES ASSUME spaces = 1, One(vm, written, want[1]), NEW i \in Entries, vm.tlb[i].valid,
                    written[vm.tlb[i].virtualPage] # -1
             PROVE  vm.memory[vm.tlb[i].physicalPage] =
                      [page |-> vm.tlb[i].virtualPage, val |-> written[vm.tlb[i].virtualPage]]
  BY Zenon  DEF MemInv, MemoryIntact
<1>1. /\ vm.tlb[i].virtualPage \in Pages /\ Loaded(vm, vm.tlb[i].virtualPage)
      /\ vm.tlb[i].physicalPage = FrameOf(vm, vm.tlb[i].virtualPage)
  BY DEF One, OneTLB
<1> QED BY <1>1, Zenon DEF One, OneMemory

\* The first program starts with nothing loaded.
LEMMA MemInvInit == VMInit => VTypes /\ MemInv
<1> SUFFICES ASSUME VMInit PROVE VTypes /\ MemInv
  BY ZenonT(60)
<1>1. vm = [pageTable |-> [s \in Spaces |-> [page \in Pages |-> Unmapped]],
            tlb |-> [i \in Entries |-> [valid |-> FALSE, virtualPage |-> -1, physicalPage |-> -1]],
            marked |-> {}, queue |-> <<>>, uses |-> [f \in Frames |-> 0],
            memory |-> [f \in Frames |-> Nothing]]
  BY DEF VMInit
<1>2. /\ IsVM(vm) /\ vm.pageTable = [s \in Spaces |-> [page \in Pages |-> Unmapped]]
      /\ vm.tlb = [i \in Entries |-> [valid |-> FALSE, virtualPage |-> -1, physicalPage |-> -1]]
      /\ vm.marked = {} /\ vm.memory = [f \in Frames |-> Nothing]
  BY <1>1, Zenon DEF IsVM
<1>3. /\ algorithm \in {1, 2} /\ want = [s \in Spaces |-> NoAccess] /\ current = 1 /\ spaces = 1
      /\ written = [page \in Pages |-> IF page \in SharedPages THEN 0 ELSE -1]
  BY VirtualMemoryAssumption, Zenon DEF VMInit
<1>4. VTypes
  BY <1>2, <1>3, Sizes, SMTT(60) DEF VTypes
<1>5. \A p \in Pages : ~Loaded(vm, p)
  BY <1>2, Sizes, SMTT(60) DEF Loaded, Unmapped
<1>6. \A i \in Entries : ~vm.tlb[i].valid
  BY <1>2, SMTT(60)
<1>7. OneTypes(vm, written)
  <2>1. Unmapped \in PTEs /\ [valid |-> FALSE, virtualPage |-> -1, physicalPage |-> -1] \in TLBEs
    BY DEF Unmapped, PTEs, TLBEs
  <2>2. vm.pageTable \in [Spaces -> [Pages -> PTEs]] /\ vm.tlb \in [Entries -> TLBEs]
    BY <1>2, <2>1
  <2>3. written \in [Pages -> -1..1]
    BY <1>3, SMTT(60)
  <2> QED BY <1>2, <2>2, <2>3, Zenon DEF OneTypes
<1>8. OnePages(vm, written) /\ OneTLB(vm) /\ OneMemory(vm, written) /\ OnePast(vm, want[1])
  BY <1>2, <1>3, <1>5, <1>6, Zenon DEF OnePages, OneTLB, OneMemory, OnePast
<1> QED BY <1>4, <1>7, <1>8 DEF MemInv, One

\* The access completes.
LEMMA PerformKeeps ==
  ASSUME VTypes, spaces = 1, want[1] # NoAccess, NEW t, One(t.m, written, want[1]),
         Loaded(t.m, want[1].page), t.frame = FrameOf(t.m, want[1].page), t.frame \in Frames,
         t.frame # NumPhysPages, Perform(t)
  PROVE  One(vm', written', want'[1])
<1> DEFINE a == want[1]
           val == IF written[a.page] = 1 THEN 0 ELSE 1
<1>1. current = 1 /\ 1 \in Spaces
  BY Sizes DEF VTypes
<1>2. a \in Wants /\ a.page \in Pages
  BY <1>1 DEF VTypes, Wants
<1>3. want' = [want EXCEPT ![1] = NoAccess] /\ want'[1] = NoAccess
  BY <1>1, Zenon DEF Perform, VTypes
<1>4. CASE vm' = t.m /\ written' = written
  BY <1>2, <1>3, <1>4, OneReads, Zenon
<1>5. CASE /\ vm' = [t.m EXCEPT !.memory = [t.m.memory EXCEPT ![t.frame] =
                                              [page |-> a.page, val |-> val]]]
           /\ written' = [written EXCEPT ![a.page] = val]
  <2>1. val \in 0..1
    BY SMTT(60)
  <2> HIDE DEF val
  <2> DEFINE m == t.m
             f == t.frame
             w == written
  <2>2. /\ One(m, w, a) /\ a.page \in Pages /\ Loaded(m, a.page) /\ f = FrameOf(m, a.page)
        /\ f \in Frames /\ f # NumPhysPages
    BY <1>2
  <2>3. /\ vm' = [m EXCEPT !.memory = [m.memory EXCEPT ![f] = [page |-> a.page, val |-> val]]]
        /\ written' = [w EXCEPT ![a.page] = val]
    BY <1>5
  <2> HIDE DEF m, f, w, a
  <2>4. One([m EXCEPT !.memory = [m.memory EXCEPT ![f] = [page |-> a.page, val |-> val]]],
            [w EXCEPT ![a.page] = val], NoAccess)
    BY <2>1, <2>2, OneWrites, ZenonT(60)
  <2> QED BY <1>3, <2>3, <2>4, Zenon
<1> QED BY <1>1, <1>4, <1>5, Zenon DEF Perform

\* How a memory access may end: done in t.frame of what a translation left, or
\* with an exception that leaves the access to be made again or not at all.
AccessEnds(m, s, page, t) ==
  /\ \E writing \in BOOLEAN : t = Translate(m, page, writing)
  /\ \/ t.exception = "None" /\ Perform(t)
     \/ /\ t.exception # "None" /\ vm' = t.m
        /\ UNCHANGED <<want, written>>

\* Every memory access ends so, directly or after a fault.
LEMMA AccessCases ==
  ASSUME VTypes, ReadWriteMem
  PROVE  \/ \E t : AccessEnds(vm, current, want[current].page, t) /\ restarts' \in {restarts, 0}
         \/ /\ Hits(vm, want[current].page) = {}
            /\ \E fault \in NachOS_PageFaultException(vm, current, want[current].page) :
                 \E t : /\ AccessEnds(fault.m, current, want[current].page, t)
                       /\ \/ t.exception = "None" /\ restarts' = 0
                          \/ t.exception # "None" /\ restarts' = restarts + 1
         \/ UNCHANGED <<vm, want, written, restarts>>
<1> DEFINE page == want[current].page
           w == want[current].op = "write"
           first == Translate(vm, page, w)
<1>0. w \in BOOLEAN
  BY Zenon
<1>1. first.exception = "PageFault" => Hits(vm, page) = {}
  <2>1. TranslateSteps(vm, page, first)
    BY TranslateInSteps, Zenon DEF VTypes
  <2> QED BY <2>1, Zenon DEF TranslateSteps
<1> HIDE DEF first, w
<1>2. CASE first.exception = "None" /\ Perform(first)
  <2>1. AccessEnds(vm, current, page, first) /\ restarts' = 0
    BY <1>0, <1>2, Zenon DEF AccessEnds, first, Perform
  <2> QED BY <2>1, Zenon
<1>3. CASE first.exception \in {"BusError", "ReadOnly"} /\ vm' = first.m
             /\ UNCHANGED <<want, written, restarts>>
  <2>1. first.exception # "None"
    BY <1>3
  <2>2. AccessEnds(vm, current, page, first) /\ restarts' = restarts
    BY <1>0, <1>3, <2>1, Zenon DEF AccessEnds, first
  <2> QED BY <2>2
<1>4. ASSUME first.exception = "PageFault",
             NEW fault \in NachOS_PageFaultException(vm, current, page),
             NEW second, second = Translate(fault.m, page, TRUE),
             \/ second.exception = "None" /\ Perform(second)
             \/ /\ second.exception # "None" /\ vm' = second.m /\ restarts' = restarts + 1
                /\ UNCHANGED <<want, written>>
      PROVE  /\ Hits(vm, page) = {}
             /\ \E t : /\ AccessEnds(fault.m, current, page, t)
                      /\ \/ t.exception = "None" /\ restarts' = 0
                         \/ t.exception # "None" /\ restarts' = restarts + 1
  <2>1. TRUE \in BOOLEAN
    BY Zenon
  <2>2. /\ AccessEnds(fault.m, current, page, second)
        /\ \/ second.exception = "None" /\ restarts' = 0
           \/ second.exception # "None" /\ restarts' = restarts + 1
    BY <1>4, <2>1, ZenonT(60) DEF AccessEnds, Perform
  <2> QED BY <1>1, <1>4, <2>2, Zenon
<1>5. \/ first.exception = "None" /\ Perform(first)
      \/ /\ first.exception \in {"BusError", "ReadOnly"} /\ vm' = first.m
         /\ UNCHANGED <<want, written, restarts>>
      \/ /\ first.exception = "PageFault"
         /\ \E fault \in NachOS_PageFaultException(vm, current, page) :
              \E second \in {Translate(fault.m, page, TRUE)} :
                \/ second.exception = "None" /\ Perform(second)
                \/ /\ second.exception # "None" /\ vm' = second.m /\ restarts' = restarts + 1
                   /\ UNCHANGED <<want, written>>
      \/ UNCHANGED <<vm, want, written, restarts>>
  BY Zenon DEF ReadWriteMem, first, w
<1>6. ASSUME NEW second, NEW y, second \in {y} PROVE second = y
  BY <1>6
<1> QED BY <1>2, <1>3, <1>4, <1>5, ZenonT(60)

\* The types after an access.
LEMMA AccessTypes ==
  ASSUME VTypes, want[current] # NoAccess, UNCHANGED <<algorithm, current, spaces>>,
         NEW m, IsVM(m), NEW t, AccessEnds(m, current, want[current].page, t)
  PROVE  VTypes' /\ vm'.marked = m.marked
<1>1. Like(t.m, m)
  <2>1. PICK writing : t = Translate(m, want[current].page, writing)
    BY Zenon DEF AccessEnds
  <2>2. TranslateSteps(m, want[current].page, t)
    BY <2>1, TranslateInSteps, Zenon DEF VTypes
  <2> QED BY <2>2, Zenon DEF TranslateSteps
<1>2. IsVM(t.m) /\ t.m.marked = m.marked
  BY <1>1, Zenon DEF Like
<1>3. CASE vm' = t.m /\ want' = want
  BY <1>2, <1>3 DEF VTypes, IsVM
<1>4. CASE Perform(t)
  <2>1. want' = [want EXCEPT ![current] = NoAccess]
    BY <1>4 DEF Perform
  <2>2. want' \in [Spaces -> Wants \cup {NoAccess}]
    BY <2>1, Zenon DEF VTypes
  <2>3. PICK x : vm' = t.m \/ vm' = [t.m EXCEPT !.memory = x]
    BY <1>4, Zenon DEF Perform
  <2>4. IsVM(vm)' /\ vm'.marked = m.marked
    <3>1. CASE vm' = t.m
      BY <1>2, <3>1, Zenon DEF IsVM
    <3>2. CASE vm' = [t.m EXCEPT !.memory = x]
      <4>1. WithMemory([t.m EXCEPT !.memory = x], t.m, x)
        BY <1>2, NewMemory, Zenon
      <4>2. WithMemory(vm', t.m, x)
        BY <3>2, <4>1, Zenon
      <4> QED BY <1>2, <4>2 DEF WithMemory, IsVM
    <3> QED BY <2>3, <3>1, <3>2
  <2> QED BY <2>2, <2>4 DEF VTypes
<1> QED BY <1>3, <1>4, SMTT(60) DEF AccessEnds

\* What an access does to the memory of one program.
LEMMA AccessOne ==
  ASSUME VTypes, spaces = 1, want[1] # NoAccess, NEW m, One(m, written, want[1]),
         NEW t, AccessEnds(m, current, want[current].page, t)
  PROVE  One(vm', written', want'[1])
<1>1. current = 1 /\ algorithm \in {1, 2}
  BY DEF VTypes
<1>2. PICK writing : t = Translate(m, want[1].page, writing)
  BY <1>1, Zenon DEF AccessEnds
<1>3. /\ One(t.m, written, want[1])
      /\ t.exception = "None" =>
           /\ Loaded(t.m, want[1].page) /\ t.frame = FrameOf(t.m, want[1].page)
           /\ t.frame \in Frames /\ t.frame # NumPhysPages
  <2> DEFINE w == written
             a == want[1]
             page == want[1].page
  <2>1. One(m, w, a) /\ t = Translate(m, page, writing)
    BY <1>2
  <2> HIDE DEF w, a, page
  <2> DEFINE u == Translate(m, page, writing)
  <2>2. /\ One(u.m, w, a)
        /\ u.exception = "None" =>
             /\ page \in Pages /\ Loaded(u.m, page) /\ u.frame = FrameOf(u.m, page)
             /\ u.frame \in Frames /\ u.frame # NumPhysPages
    BY <1>1, <2>1, OneTranslate
  <2> HIDE DEF u
  <2> QED BY <2>1, <2>2, Zenon DEF u, w, a, page
<1>4. CASE t.exception = "None" /\ Perform(t)
  BY <1>3, <1>4, PerformKeeps
<1>5. CASE vm' = t.m /\ UNCHANGED <<want, written>>
  BY <1>3, <1>5
<1> QED BY <1>4, <1>5 DEF AccessEnds

\* Every memory access, served or restarted, keeps types and memory.
LEMMA AccessKeeps == ASSUME VTypes, MemInv, ReadWriteMem PROVE VTypes' /\ MemInv'
<1> DEFINE page == want[current].page
<1>1. /\ want[current] # NoAccess /\ UNCHANGED <<algorithm, current, spaces>>
  BY DEF ReadWriteMem
<1>2. IsVM(vm) /\ algorithm \in {1, 2} /\ spaces \in Spaces /\ current \in Spaces
      /\ page \in Pages /\ (spaces = 1 => current = 1)
  <2>1. spaces \in Spaces /\ current \in 1..spaces /\ MaxSpaces \in Nat
    BY VirtualMemoryAssumption DEF VTypes
  <2>2. current \in Spaces /\ (spaces = 1 => current = 1)
    BY <2>1 DEF Spaces
  <2>3. want[current] \in Wants
    BY <1>1, <2>2 DEF VTypes
  <2> QED BY <2>1, <2>2, <2>3 DEF VTypes, Wants
<1>3. ASSUME NEW t, AccessEnds(vm, current, page, t) PROVE VTypes' /\ MemInv'
  <2>1. VTypes'
    BY <1>1, <1>2, <1>3, AccessTypes, Zenon
  <2>2. ASSUME spaces = 1 PROVE One(vm', written', want'[1])
    BY <1>1, <1>2, <1>3, <2>2, AccessOne, Zenon DEF MemInv
  <2> QED BY <1>1, <2>1, <2>2, Zenon DEF MemInv
<1>4. ASSUME NEW fault \in NachOS_PageFaultException(vm, current, page), NEW t,
             AccessEnds(fault.m, current, page, t)
      PROVE  VTypes' /\ MemInv'
  <2>1. IsVM(fault.m)
    BY <1>2, FaultInSteps, Zenon DEF FaultSteps
  <2>2. VTypes'
    BY <1>1, <1>4, <2>1, AccessTypes, Zenon
  <2>3. ASSUME spaces = 1 PROVE One(vm', written', want'[1])
    <3>1. One(fault.m, written, want[1])
      BY <1>1, <1>2, <1>4, <2>3, OneFault, Zenon DEF MemInv
    <3> QED BY <1>1, <1>2, <1>4, <2>3, <3>1, AccessOne, Zenon
  <2> QED BY <1>1, <2>2, <2>3, SMTT(60) DEF MemInv
<1>5. CASE UNCHANGED <<vm, want, written>>
  BY <1>1, <1>5, ZenonT(60) DEF VTypes, MemInv, One, OneTypes, OnePages, OneTLB, OneMemory, OnePast, IsVM,
     Loaded, FrameOf
<1> QED BY <1>3, <1>4, <1>5, AccessCases, ZenonT(60)

\* Every step keeps types and memory.
LEMMA MemInvNext == VTypes /\ MemInv /\ [VMNext]_vmvars => VTypes' /\ MemInv'
<1> SUFFICES ASSUME VTypes, MemInv, [VMNext]_vmvars PROVE VTypes' /\ MemInv'
  OBVIOUS
<1>1. ASSUME UNCHANGED <<vm, written>> PROVE /\ IsVM(vm)' = IsVM(vm)
                                            /\ \A a : One(vm, written, a) => One(vm', written', a)
  BY <1>1 DEF IsVM
<1>2. MaxSpaces \in Nat /\ spaces \in 1..MaxSpaces /\ current \in 1..spaces /\ current \in Spaces
  BY VirtualMemoryAssumption, SMTT(60) DEF VTypes, Spaces
<1>3. ASSUME NEW page \in Pages, NEW op \in {"read", "write"}, Issue(page, op)
      PROVE  VTypes' /\ MemInv'
  <2> DEFINE a == [page |-> page, op |-> op]
  <2>1. /\ want' = [want EXCEPT ![current] = a] /\ want[current] = NoAccess
        /\ UNCHANGED <<vm, algorithm, current, spaces, written>>
    BY <1>3 DEF Issue
  <2>2. a \in Wants
    BY DEF Wants
  <2> HIDE DEF a
  <2>3. VTypes'
    BY <1>1, <2>1, <2>2, Zenon DEF VTypes
  <2>4. ASSUME spaces = 1 PROVE One(vm', written', want'[1])
    <3>1. want[1] = NoAccess /\ want'[1] = a
      BY <1>2, <2>1, <2>4, SMTT(60) DEF VTypes
    <3>2. One(vm, written, NoAccess)
      BY <2>4, <3>1 DEF MemInv
    <3>3. One(vm, written, a)
      BY <3>2 DEF One, OnePast
    <3> QED BY <1>1, <2>1, <3>1, <3>3, Zenon
  <2> QED BY <2>1, <2>3, <2>4, Zenon DEF MemInv
<1>4. ASSUME VMFork PROVE VTypes' /\ MemInv'
  <2>1. /\ vm' = VirtualMemoryConstructor(vm, current, spaces + 1) /\ spaces' = spaces + 1
        /\ UNCHANGED <<algorithm, want, current>> /\ spaces < MaxSpaces
    BY <1>4 DEF VMFork
  <2>2. PICK x : vm' = [vm EXCEPT !.pageTable = x]
    BY <2>1, Zenon DEF VirtualMemoryConstructor
  <2>3. IsVM(vm)'
    <3>1. WithTables([vm EXCEPT !.pageTable = x], vm, x)
      BY NewTables, Zenon DEF VTypes
    <3>2. WithTables(vm', vm, x)
      BY <2>2, <3>1, Zenon
    <3> QED BY <3>2 DEF WithTables, IsVM
  <2>4. spaces' \in Spaces /\ current' \in 1..spaces' /\ spaces' # 1
    BY <1>2, <2>1 DEF Spaces
  <2> QED BY <2>1, <2>3, <2>4 DEF VTypes, MemInv
<1>5. ASSUME NEW s \in Spaces, RestoreState(s) PROVE VTypes' /\ MemInv'
  <2>1. /\ s \in 1..spaces /\ current' = s /\ UNCHANGED <<vm, algorithm, want, spaces, written>>
    BY <1>5, Zenon DEF RestoreState
  <2> QED BY <1>1, <2>1 DEF VTypes, MemInv
<1>6. ASSUME UNCHANGED vmvars PROVE VTypes' /\ MemInv'
  BY <1>1, <1>6 DEF vmvars, VTypes, MemInv
<1> QED BY <1>3, <1>4, <1>5, <1>6, AccessKeeps DEF VMNext

\* Every page that the TLB translates is found with what the program last wrote
\* there, or its executable had, for every number of pages, frames, TLB entries
\* and accesses, with both replacement algorithms.
THEOREM MemoryStaysIntact == VMSpec => []MemoryIntact
BY MemInvInit, MemInvNext, MemInvImplies, PTL DEF VMSpec
-----------------------------------------------------------------------------
(* The restarts of an access: second chance and its queue. *)

Elements == [frame : Frames, used : BOOLEAN]

\* What second chance finds, and how it leaves the queue.
Clear(q) == {i \in DOMAIN q : ~q[i].used}
Found(q) == IF Clear(q) = {} THEN 1 ELSE Min(Clear(q))
Passed(q, i) == [q[i] EXCEPT !.used = (Clear(q) # {} /\ i > Found(q)) /\ @]
From(q, i) == IF i + Found(q) <= Len(q) THEN i + Found(q) ELSE i + Found(q) - Len(q)
Passing(q) == [i \in 1..(Len(q) - 1) |-> Passed(q, From(q, i))]
Turned(q) == Append(Passing(q), [q[Found(q)] EXCEPT !.used = TRUE])

\* secondChance is these.
LEMMA SecondChanceTurns ==
  ASSUME NEW m, IsVM(m)
  PROVE  /\ secondChance(m).entry = m.queue[Found(m.queue)].frame
         /\ secondChance(m).m.queue = Turned(m.queue)
<1> DEFINE q == m.queue
           f == q[Found(q)].frame
           x == Turned(q)
           n == [m EXCEPT !.queue = x]
<1>1. secondChance(m) = [entry |-> f, m |-> n]
  BY Zenon DEF secondChance, Turned, Passing, From, Passed, Found, Clear
<1> HIDE DEF f, x
<1>2. n.queue = x
  BY NewQueue, Zenon
<1> HIDE DEF n
<1>3. secondChance(m).entry = f /\ secondChance(m).m = n
  BY <1>1
<1> QED BY <1>2, <1>3, Zenon DEF f, x

\* It finds an element; those before it have their bits set.
LEMMA FoundOne ==
  ASSUME NEW q \in Seq(Elements), q # << >>
  PROVE  /\ Len(q) \in Nat /\ Found(q) \in 1..Len(q)
         /\ Clear(q) = {} => Found(q) = 1 /\ \A j \in 1..Len(q) : q[j].used
         /\ \A j \in 1..Len(q) : j < Found(q) => q[j].used
<1>1. Len(q) \in Nat /\ Len(q) # 0 /\ DOMAIN q = 1..Len(q)
  OBVIOUS
<1>2. CASE Clear(q) = {}
  <2>1. Found(q) = 1
    BY <1>2, Zenon DEF Found
  <2>2. \A j \in 1..Len(q) : q[j].used
    BY <1>1, <1>2, Zenon DEF Clear
  <2>3. 1 \in 1..Len(q)
    BY <1>1
  <2> QED BY <1>1, <2>1, <2>2, <2>3, Zenon
<1>3. CASE Clear(q) # {}
  <2>1. Clear(q) \subseteq 1..Len(q) /\ 1..Len(q) \subseteq Nat
    BY <1>1 DEF Clear
  <2>2. Min(Clear(q)) \in Clear(q) /\ \A y \in Clear(q) : Min(Clear(q)) <= y
    BY <1>3, <2>1, LeastOne, Zenon
  <2>3. Found(q) = Min(Clear(q))
    BY <1>3, Zenon DEF Found
  <2>4. Found(q) \in 1..Len(q)
    BY <2>1, <2>2, <2>3, Zenon
  <2>5. ASSUME NEW j \in 1..Len(q), j < Found(q) PROVE q[j].used
    <3>1. ~(Found(q) <= j)
      BY <1>1, <2>4, <2>5
    <3>2. j \notin Clear(q)
      BY <2>2, <2>3, <3>1, Zenon
    <3> QED BY <1>1, <3>2, Zenon DEF Clear
  <2> QED BY <1>1, <1>3, <2>4, <2>5, Zenon
<1> QED BY <1>2, <1>3, Zenon

\* Another reference bit.
LEMMA NewBit ==
  ASSUME NEW e \in Elements, NEW b \in BOOLEAN
  PROVE  /\ [e EXCEPT !.used = b] \in Elements
         /\ [e EXCEPT !.used = b].frame = e.frame /\ [e EXCEPT !.used = b].used = b
BY DEF Elements

\* An element that is passed.
LEMMA PassedOne ==
  ASSUME NEW q \in Seq(Elements), NEW i \in 1..Len(q)
  PROVE  /\ Passed(q, i) \in Elements /\ Passed(q, i).frame = q[i].frame
         /\ Passed(q, i).used = ((Clear(q) # {} /\ i > Found(q)) /\ q[i].used)
<1> DEFINE e == q[i]
           b == (Clear(q) # {} /\ i > Found(q)) /\ q[i].used
<1>1. e \in Elements
  OBVIOUS
<1>2. b \in BOOLEAN
  BY Zenon
<1>3. Passed(q, i) = [e EXCEPT !.used = b]
  BY Zenon DEF Passed
<1> HIDE DEF e, b
<1>4. /\ [e EXCEPT !.used = b] \in Elements
      /\ [e EXCEPT !.used = b].frame = e.frame /\ [e EXCEPT !.used = b].used = b
  BY <1>1, <1>2, NewBit, Zenon
<1>5. Passed(q, i) \in Elements /\ Passed(q, i).frame = e.frame /\ Passed(q, i).used = b
  BY <1>3, <1>4, Zenon
<1> QED BY <1>5, Zenon DEF e, b

\* Where an element goes: those behind the one found come to the front, those
\* before it, their bits cleared, come behind them, and the one found is last.
LEMMA TurnedQueue ==
  ASSUME NEW q \in Seq(Elements), q # << >>
  PROVE  LET k == Found(q)
             n == Len(q)
         IN
         /\ Turned(q) \in Seq(Elements) /\ Len(Turned(q)) = n
         /\ \A j \in 1..n : j > k => /\ j - k \in 1..n /\ Turned(q)[j - k].frame = q[j].frame
                                     /\ Turned(q)[j - k].used = (Clear(q) # {} /\ q[j].used)
         /\ \A j \in 1..n : j < k => /\ n - k + j \in 1..n
                                     /\ Turned(q)[n - k + j].frame = q[j].frame
                                     /\ ~Turned(q)[n - k + j].used
         /\ n \in 1..n /\ Turned(q)[n].frame = q[k].frame
<1> SUFFICES ASSUME NEW k, k = Found(q), NEW n, n = Len(q)
             PROVE  /\ Turned(q) \in Seq(Elements) /\ Len(Turned(q)) = n
                    /\ \A j \in 1..n : j > k => /\ j - k \in 1..n /\ Turned(q)[j - k].frame = q[j].frame
                                                /\ Turned(q)[j - k].used = (Clear(q) # {} /\ q[j].used)
                    /\ \A j \in 1..n : j < k => /\ n - k + j \in 1..n
                                                /\ Turned(q)[n - k + j].frame = q[j].frame
                                                /\ ~Turned(q)[n - k + j].used
                    /\ n \in 1..n /\ Turned(q)[n].frame = q[k].frame
  BY Zenon
<1>1. n \in Nat /\ k \in 1..n /\ n >= 1
  BY FoundOne
<1> DEFINE p == Passing(q)
           z == [q[Found(q)] EXCEPT !.used = TRUE]
<1>2. ASSUME NEW i \in 1..(n - 1) PROVE From(q, i) \in 1..n /\ p[i] = Passed(q, From(q, i))
  <2>1. From(q, i) \in 1..n
    BY <1>1 DEF From
  <2>2. p[i] = Passed(q, From(q, i))
    BY Zenon DEF Passing
  <2> QED BY <2>1, <2>2
<1>3. z \in Elements /\ z.frame = q[k].frame
  <2>1. q[Found(q)] \in Elements /\ TRUE \in BOOLEAN
    BY <1>1
  <2> DEFINE e == q[Found(q)]
  <2> HIDE DEF e
  <2>2. [e EXCEPT !.used = TRUE] \in Elements /\ [e EXCEPT !.used = TRUE].frame = e.frame
    BY <2>1, NewBit, Zenon DEF e
  <2> QED BY <2>2, Zenon DEF e
<1>4. \A i \in 1..(n - 1) : p[i] \in Elements
  BY <1>2, PassedOne, Zenon
<1>5. p = [i \in 1..(n - 1) |-> p[i]]
  BY Zenon DEF Passing
<1> HIDE DEF z, p
<1> DEFINE l == n - 1
<1>6. l \in Nat /\ l + 1 = n
  BY <1>1
<1>7. p \in Seq(Elements) /\ Len(p) = l
  <2>1. p = [i \in 1..l |-> p[i]] /\ \A i \in 1..l : p[i] \in Elements
    BY <1>4, <1>5, Zenon
  <2> HIDE DEF l
  <2>2. [i \in 1..l |-> p[i]] \in Seq(Elements) /\ Len([i \in 1..l |-> p[i]]) = l
    BY <1>6, <2>1
  <2> QED BY <2>1, <2>2, Zenon
<1> HIDE DEF l
<1>8. /\ Append(p, z) \in Seq(Elements) /\ Len(Append(p, z)) = l + 1 /\ Append(p, z)[l + 1] = z
      /\ \A i \in 1..l : Append(p, z)[i] = p[i]
  BY <1>3, <1>6, <1>7, SMTT(60)
<1>9. /\ Turned(q) \in Seq(Elements) /\ Len(Turned(q)) = n /\ Turned(q)[n] = z
      /\ \A i \in 1..l : Turned(q)[i] = p[i]
  <2>1. Turned(q) = Append(p, z)
    BY Zenon DEF Turned, p, z
  <2> QED BY <1>6, <1>8, <2>1, Zenon
<1>10. ASSUME NEW j \in 1..n, j > k
       PROVE  /\ j - k \in 1..n /\ Turned(q)[j - k].frame = q[j].frame
              /\ Turned(q)[j - k].used = (Clear(q) # {} /\ q[j].used)
  <2> DEFINE i == j - k
  <2>1. i \in 1..l /\ i \in 1..n /\ i \in 1..(n - 1) /\ From(q, i) = j
    BY <1>1, <1>6, <1>10 DEF From
  <2> HIDE DEF i
  <2>2. Turned(q)[i] = Passed(q, j)
    BY <1>2, <1>9, <2>1, Zenon
  <2>3. /\ Passed(q, j).frame = q[j].frame
        /\ Passed(q, j).used = ((Clear(q) # {} /\ j > Found(q)) /\ q[j].used)
    BY PassedOne, Zenon
  <2>4. Passed(q, j).used = (Clear(q) # {} /\ q[j].used)
    BY <1>10, <2>3, Zenon
  <2> QED BY <2>1, <2>2, <2>3, <2>4, Zenon DEF i
<1>11. ASSUME NEW j \in 1..n, j < k
       PROVE  /\ n - k + j \in 1..n /\ Turned(q)[n - k + j].frame = q[j].frame
              /\ ~Turned(q)[n - k + j].used
  <2> DEFINE i == n - k + j
  <2>1. i \in 1..l /\ i \in 1..n /\ i \in 1..(n - 1) /\ From(q, i) = j /\ ~(j > k)
    BY <1>1, <1>6, <1>11 DEF From
  <2> HIDE DEF i
  <2>2. Turned(q)[i] = Passed(q, j)
    BY <1>2, <1>9, <2>1, Zenon
  <2>3. /\ Passed(q, j).frame = q[j].frame
        /\ Passed(q, j).used = ((Clear(q) # {} /\ j > Found(q)) /\ q[j].used)
    BY PassedOne, Zenon
  <2>4. ~Passed(q, j).used
    BY <2>1, <2>3, Zenon
  <2> QED BY <2>1, <2>2, <2>3, <2>4, Zenon DEF i
<1>12. n \in 1..n
  BY <1>1
<1> QED BY <1>3, <1>9, <1>10, <1>11, <1>12, Zenon

\* No element leaves the queue.
LEMMA TurnedKeeps ==
  ASSUME NEW q \in Seq(Elements), NEW j \in DOMAIN q
  PROVE  \E i \in DOMAIN Turned(q) : Turned(q)[i].frame = q[j].frame
<1> DEFINE k == Found(q)
           n == Len(q)
           T == Turned(q)
<1>1. q # << >> /\ n \in Nat /\ j \in 1..n /\ k \in 1..n
  BY FoundOne
<1>2. /\ T \in Seq(Elements) /\ Len(T) = n
      /\ j > k => j - k \in 1..n /\ T[j - k].frame = q[j].frame
      /\ j < k => n - k + j \in 1..n /\ T[n - k + j].frame = q[j].frame
      /\ n \in 1..n /\ T[n].frame = q[k].frame
  BY <1>1, TurnedQueue
<1> HIDE DEF T
<1>3. DOMAIN T = 1..n
  BY <1>1, <1>2
<1>4. j > k \/ j < k \/ j = k
  BY <1>1
<1> QED BY <1>2, <1>3, <1>4, Zenon DEF T

\* The turns to an element are a number.
LEMMA TurnsType ==
  ASSUME NEW q \in Seq(Elements), NEW j \in DOMAIN q
  PROVE  Turns(q, j) \in Nat
<1>1. Len(q) \in Nat /\ j \in Nat
  OBVIOUS
<1> QED BY <1>1 DEF Turns

\* TurnsLeft is that of the nearest element that fits the TLB, when there is one.
LEMMA TurnsLeftLeast ==
  ASSUME NEW m, m.queue \in Seq(Elements), NEW j \in DOMAIN m.queue, m.queue[j].frame \in Entries
  PROVE  /\ TurnsLeft(m) \in Nat /\ TurnsLeft(m) <= Turns(m.queue, j)
         /\ \E i \in DOMAIN m.queue : /\ m.queue[i].frame \in Entries
                                     /\ TurnsLeft(m) = Turns(m.queue, i)
<1> DEFINE fit == {i \in DOMAIN m.queue : m.queue[i].frame \in Entries}
           turns == {Turns(m.queue, i) : i \in fit}
<1>1. j \in fit /\ Turns(m.queue, j) \in turns
  BY Zenon
<1>2. turns \subseteq Nat
  BY TurnsType, Zenon
<1>3. \A t \in turns : \E i \in fit : t = Turns(m.queue, i)
  BY Zenon
<1>4. TurnsLeft(m) = IF turns = {} THEN 0 ELSE Min(turns)
  BY Zenon DEF TurnsLeft
<1> HIDE DEF turns
<1>5. Min(turns) \in turns /\ \A y \in turns : Min(turns) <= y
  BY <1>1, <1>2, LeastOne, Zenon
<1>6. TurnsLeft(m) = Min(turns)
  BY <1>1, <1>4, Zenon
<1> QED BY <1>1, <1>2, <1>3, <1>5, <1>6, Zenon

\* When the element found does not fit the TLB, every one that does comes nearer,
\* although the queue gets an element more.
LEMMA Nearer ==
  ASSUME NEW q \in Seq(Elements), NEW j \in DOMAIN q, q[j].frame # q[Found(q)].frame,
         NEW e \in Elements, NEW r, r = Append(Turned(q), e)
  PROVE  /\ r \in Seq(Elements)
         /\ \E i \in DOMAIN r : r[i].frame = q[j].frame /\ Turns(r, i) < Turns(q, j)
<1> DEFINE k == Found(q)
           n == Len(q)
           T == Turned(q)
<1>1. q # << >> /\ n \in Nat /\ j \in 1..n /\ k \in 1..n /\ j # k
  BY FoundOne
<1>2. /\ T \in Seq(Elements) /\ Len(T) = n
      /\ j > k => /\ j - k \in 1..n /\ T[j - k].frame = q[j].frame
                  /\ T[j - k].used = (Clear(q) # {} /\ q[j].used)
      /\ j < k => /\ n - k + j \in 1..n /\ T[n - k + j].frame = q[j].frame
                  /\ ~T[n - k + j].used
  <2>1. /\ T \in Seq(Elements) /\ Len(T) = n
        /\ \A i \in 1..n : i > k => /\ i - k \in 1..n /\ T[i - k].frame = q[i].frame
                                    /\ T[i - k].used = (Clear(q) # {} /\ q[i].used)
        /\ \A i \in 1..n : i < k => /\ n - k + i \in 1..n /\ T[n - k + i].frame = q[i].frame
                                    /\ ~T[n - k + i].used
    BY <1>1, TurnedQueue, Zenon
  <2> QED BY <1>1, <2>1, Zenon
<1>3. /\ Clear(q) = {} => q[j].used
      /\ j < k => q[j].used
  <2>1. /\ Clear(q) = {} => \A i \in 1..n : q[i].used
        /\ \A i \in 1..n : i < k => q[i].used
    BY <1>1, FoundOne, Zenon
  <2> QED BY <1>1, <2>1, Zenon
<1> HIDE DEF T, k
<1>4. /\ r \in Seq(Elements) /\ Len(r) = n + 1 /\ \A i \in 1..n : i \in DOMAIN r /\ r[i] = T[i]
  BY <1>1, <1>2, SMTT(60) DEF T
<1>5. Turns(q, j) = IF q[j].used THEN n + 2 * j ELSE j
  BY Zenon DEF Turns
<1>6. \A i : Turns(r, i) = IF r[i].used THEN (n + 1) + 2 * i ELSE i
  BY <1>4, Zenon DEF Turns
<1>7. CASE j < k
  <2> DEFINE i == n - k + j
  <2>1. i \in 1..n /\ i < n + 2 * j
    BY <1>1, <1>2, <1>7
  <2>2. i \in DOMAIN r /\ r[i].frame = q[j].frame /\ ~r[i].used
    BY <1>2, <1>4, <1>7, <2>1, Zenon
  <2> HIDE DEF i
  <2>3. Turns(r, i) = i /\ Turns(q, j) = n + 2 * j
    BY <1>3, <1>5, <1>6, <1>7, <2>2, Zenon
  <2> QED BY <1>4, <2>1, <2>2, <2>3, Zenon
<1>8. CASE j > k
  <2> DEFINE i == j - k
  <2>1. i \in 1..n /\ i < j /\ i < n + 2 * j /\ (n + 1) + 2 * i < n + 2 * j
    BY <1>1, <1>8
  <2>2. i \in DOMAIN r /\ r[i].frame = q[j].frame /\ r[i].used = (Clear(q) # {} /\ q[j].used)
    BY <1>2, <1>4, <1>8, <2>1, Zenon
  <2> HIDE DEF i
  <2>3. CASE q[j].used /\ Clear(q) # {}
    <3>1. Turns(r, i) = (n + 1) + 2 * i /\ Turns(q, j) = n + 2 * j
      BY <1>5, <1>6, <2>2, <2>3, Zenon
    <3> QED BY <1>4, <2>1, <2>2, <3>1, Zenon
  <2>4. CASE Clear(q) = {}
    <3>1. Turns(r, i) = i /\ Turns(q, j) = n + 2 * j
      BY <1>3, <1>5, <1>6, <2>2, <2>4, Zenon
    <3> QED BY <1>4, <2>1, <2>2, <3>1, Zenon
  <2>5. CASE ~q[j].used
    <3>1. Turns(r, i) = i /\ Turns(q, j) = j
      BY <1>5, <1>6, <2>2, <2>5, Zenon
    <3> QED BY <1>4, <2>1, <2>2, <3>1, Zenon
  <2> QED BY <2>3, <2>4, <2>5, Zenon
<1> QED BY <1>1, <1>7, <1>8

\* So second chance comes nearer to an index of the TLB.
LEMMA SecondChanceNearer ==
  ASSUME NEW m, NEW n, m.queue \in Seq(Elements), NEW e \in Elements,
         n.queue = Append(Turned(m.queue), e), m.queue[Found(m.queue)].frame \notin Entries,
         \E j \in DOMAIN m.queue : m.queue[j].frame \in Entries
  PROVE  TurnsLeft(n) < TurnsLeft(m)
<1> DEFINE q == m.queue
           r == n.queue
<1>1. PICK j \in DOMAIN q : /\ q[j].frame \in Entries /\ TurnsLeft(m) = Turns(q, j)
                            /\ TurnsLeft(m) \in Nat
  BY TurnsLeftLeast, Zenon
<1>2. q[j].frame # q[Found(q)].frame
  BY <1>1, Zenon
<1>3. r \in Seq(Elements) /\ \E i \in DOMAIN r : r[i].frame = q[j].frame /\ Turns(r, i) < Turns(q, j)
  BY <1>2, Nearer, Zenon
<1>4. PICK i \in DOMAIN r : r[i].frame = q[j].frame /\ Turns(r, i) < Turns(q, j)
  BY <1>3
<1>5. TurnsLeft(n) \in Nat /\ TurnsLeft(n) <= Turns(r, i)
  BY <1>1, <1>3, <1>4, TurnsLeftLeast, Zenon
<1>6. Turns(r, i) \in Nat /\ Turns(q, j) \in Nat
  BY <1>3, TurnsType, Zenon
<1> HIDE DEF q, r
<1> QED BY <1>1, <1>4, <1>5, <1>6

\* Least used gives an entry of the TLB, when the TLB is full of counted frames.
LEMMA ChooseUsed ==
  ASSUME algorithm = 2, NEW m, IsVM(m), m.uses \in [Frames -> Nat],
         \A i \in Entries : m.tlb[i].valid => m.tlb[i].physicalPage \in Frames
  PROVE  ChooseEntry(m).entry \in Entries /\ ChooseEntry(m).m.uses \in [Frames -> Nat]
<1>1. TLBSize \in Nat /\ TLBSize > 0
  BY VirtualMemoryAssumption
<1>2. Entries \subseteq Nat /\ 0 \in Entries
  BY <1>1 DEF Entries
<1> DEFINE invalid == {i \in Entries : ~m.tlb[i].valid}
<1>3. CASE invalid # {}
  <2>1. ChooseEntry(m) = [entry |-> Min(invalid), m |-> m]
    BY <1>3 DEF ChooseEntry
  <2>2. invalid \subseteq Nat /\ invalid \subseteq Entries
    BY <1>2, Zenon
  <2> HIDE DEF invalid
  <2>3. Min(invalid) \in Entries
    BY <1>3, <2>2, LeastOne, Zenon
  <2> QED BY <2>1, <2>3
<1>4. CASE invalid = {}
  <2> DEFINE use(i) == m.uses[m.tlb[i].physicalPage]
             lows == {i \in Entries : \A j \in Entries : use(i) <= use(j)}
             least == Min(lows)
             x == [m.uses EXCEPT ![m.tlb[least].physicalPage] = 0]
             counts == {use(i) : i \in Entries}
  <2>1. ChooseEntry(m) = [entry |-> least, m |-> [m EXCEPT !.uses = x]]
    <3>1. ChooseEntry(m) = leastUsed(m)
      BY <1>4 DEF ChooseEntry, getTLBEntryToReplace
    <3>2. leastUsed(m) = [entry |-> least, m |-> [m EXCEPT !.uses = x]]
      BY Zenon DEF leastUsed
    <3> QED BY <3>1, <3>2, Zenon
  <2>2. \A i \in Entries : m.tlb[i].valid
    BY <1>4
  <2>3. \A i \in Entries : use(i) \in Nat
    BY <2>2
  <2>4. lows # {} /\ lows \subseteq Entries
    <3>1. counts \subseteq Nat /\ counts # {}
      BY <1>2, <2>3, Zenon
    <3>2. \A i \in Entries : use(i) \in counts
      BY Zenon
    <3>3. \A d \in counts : \E i \in Entries : use(i) = d
      OBVIOUS
    <3> HIDE DEF counts, use
    <3>4. Min(counts) \in counts /\ \A d \in counts : Min(counts) <= d
      BY <3>1, LeastOne, Zenon
    <3>5. PICK i \in Entries : use(i) = Min(counts)
      BY <3>3, <3>4, Zenon
    <3>6. \A j \in Entries : use(i) <= use(j)
      BY <3>2, <3>4, <3>5
    <3> QED BY <3>5, <3>6
  <2> HIDE DEF lows
  <2>5. least \in Entries
    BY <1>2, <2>4, LeastOne, Zenon
  <2> HIDE DEF least
  <2>6. x \in [Frames -> Nat]
    BY <2>2, <2>5
  <2> HIDE DEF x
  <2>7. [m EXCEPT !.uses = x].uses = x
    BY NewUses, Zenon
  <2>8. ChooseEntry(m).entry = least /\ ChooseEntry(m).m = [m EXCEPT !.uses = x]
    <3> DEFINE w == [m EXCEPT !.uses = x]
    <3>1. ChooseEntry(m) = [entry |-> least, m |-> w]
      BY <2>1, Zenon
    <3> HIDE DEF w
    <3>2. ChooseEntry(m).entry = least /\ ChooseEntry(m).m = w
      BY <3>1
    <3> QED BY <3>2 DEF w
  <2>9. ChooseEntry(m).m.uses = x
    BY <2>7, <2>8, Zenon
  <2> QED BY <2>5, <2>6, <2>8, <2>9
<1> QED BY <1>3, <1>4

\* The pages of every program and the TLB have marked frames.
GoodPages(m) ==
  /\ IsVM(m) /\ m.pageTable \in [Spaces -> [Pages -> PTEs]] /\ m.tlb \in [Entries -> TLBEs]
  /\ m.marked \subseteq Frames
  /\ \A s \in Spaces, p \in Pages :
       \/ m.pageTable[s][p].virtualPage = -1
       \/ m.pageTable[s][p].virtualPage = p /\ m.pageTable[s][p].physicalPage \in m.marked
  /\ \A i \in Entries : m.tlb[i].valid => m.tlb[i].physicalPage \in m.marked

\* Second chance always has an element that fits the TLB: the first frame that is
\* given out is frame 0, and no element leaves the queue.  Least used counts.
GoodChoice(m) ==
  /\ algorithm = 1 => /\ m.queue \in Seq(Elements)
                      /\ m.marked # {} => \E j \in DOMAIN m.queue : m.queue[j].frame = 0
  /\ algorithm = 2 => m.uses \in [Frames -> Nat]

\* A page that is loaded, or was, has a marked frame.
LEMMA GoodLoads ==
  ASSUME NEW m, GoodPages(m), m.marked # Frames, NEW s \in Spaces, NEW page \in Pages,
         NEW l, l = IF isLoadedInPT(m, s, page) THEN m ELSE loadFromDisk(m, s, page)
  PROVE  /\ GoodPages(l) /\ l.tlb = m.tlb /\ l.queue = m.queue /\ l.uses = m.uses
         /\ l.pageTable[s][page].virtualPage = page /\ l.pageTable[s][page].physicalPage \in l.marked
         /\ m.marked = {} => l.pageTable[s][page].physicalPage = 0
<1>1. CASE isLoadedInPT(m, s, page)
  <2>1. l = m
    BY <1>1, Zenon
  <2>2. /\ m.pageTable[s][page].virtualPage = page /\ m.pageTable[s][page].physicalPage \in m.marked
    BY <1>1, Zenon DEF GoodPages, isLoadedInPT
  <2>3. m.marked # {}
    BY <2>2, Zenon
  <2> QED BY <2>1, <2>2, <2>3, Zenon
<1>2. CASE ~isLoadedInPT(m, s, page)
  <2> DEFINE frame == getPhysicalPage(m)
             pte == [virtualPage |-> page, physicalPage |-> frame]
             n == loadFromDisk(m, s, page)
  <2>1. FromDisk(n, m, s, page, frame) /\ l = n
    BY <1>2, LoadFromDisk, Zenon DEF GoodPages
  <2>2. frame \in Frames /\ (m.marked = {} => frame = 0)
    <3> DEFINE left == Frames \ m.marked
    <3>1. left \subseteq Nat /\ left # {} /\ 0 \in Frames
      <4>1. m.marked \subseteq Frames
        BY Zenon DEF GoodPages
      <4>2. Frames \subseteq Nat /\ 0 \in Frames
        <5>1. NumPhysPages \in Nat /\ NumPhysPages > 0
          BY Sizes, Zenon
        <5> QED BY <5>1 DEF Frames, NumPhysPages_IPT
      <4> QED BY <4>1, <4>2, Zenon
    <3>2. m.marked = {} => 0 \in left
      BY <3>1, Zenon
    <3> HIDE DEF left
    <3>3. Min(left) \in left /\ \A y \in left : Min(left) <= y
      BY <3>1, LeastOne, Zenon
    <3>4. 0 \in left => Min(left) = 0
      <4> DEFINE x == Min(left)
      <4>1. x \in Nat /\ (0 \in left => x <= 0)
        BY <3>1, <3>3, Zenon
      <4> HIDE DEF x
      <4>2. 0 \in left => x = 0
        BY <4>1
      <4> QED BY <4>2 DEF x
    <3> QED BY <3>2, <3>3, <3>4, Zenon DEF left, getPhysicalPage
  <2> HIDE DEF n, frame
  <2>3. /\ IsVM(n) /\ n.tlb = m.tlb /\ n.uses = m.uses /\ n.marked = m.marked \cup {frame}
        /\ n.queue = m.queue
        /\ n.pageTable = [m.pageTable EXCEPT ![s] = [m.pageTable[s] EXCEPT ![page] = pte]]
    BY <2>1, Zenon DEF FromDisk
  <2>4. pte \in PTEs
    BY <2>2, Zenon DEF PTEs
  <2>5. m.pageTable \in [Spaces -> [Pages -> PTEs]] /\ m.pageTable[s] \in [Pages -> PTEs]
    BY Zenon  DEF GoodPages
  <2>6. /\ n.pageTable[s] = [m.pageTable[s] EXCEPT ![page] = pte]
        /\ \A u \in Spaces \ {s} : n.pageTable[u] = m.pageTable[u]
        /\ n.pageTable \in [Spaces -> [Pages -> PTEs]]
    BY <2>3, <2>4, <2>5, SMTT(60)
  <2>7. /\ n.pageTable[s][page] = pte
        /\ \A p \in Pages \ {page} : n.pageTable[s][p] = m.pageTable[s][p]
    BY <2>5, <2>6
  <2>8. n.pageTable[s][page].virtualPage = page /\ n.pageTable[s][page].physicalPage = frame
    BY <2>7
  <2> HIDE DEF pte
  <2>9. ASSUME NEW u \in Spaces, NEW p \in Pages
        PROVE  \/ n.pageTable[u][p].virtualPage = -1
               \/ n.pageTable[u][p].virtualPage = p /\ n.pageTable[u][p].physicalPage \in n.marked
    <3>1. CASE u = s /\ p = page
      BY <2>3, <2>8, <3>1, ZenonT(60)
    <3>2. CASE ~(u = s /\ p = page)
      <4>1. n.pageTable[u][p] = m.pageTable[u][p]
        BY <2>6, <2>7, <3>2, Zenon
      <4>2. \/ m.pageTable[u][p].virtualPage = -1
            \/ m.pageTable[u][p].virtualPage = p /\ m.pageTable[u][p].physicalPage \in m.marked
        BY Zenon DEF GoodPages
      <4>3. m.marked \subseteq n.marked
        BY <2>3, Zenon
      <4> QED BY <4>1, <4>2, <4>3, Zenon
    <3> QED BY <3>1, <3>2, Zenon
  <2>10. \A i \in Entries : n.tlb[i].valid => n.tlb[i].physicalPage \in n.marked
    BY <2>3, Zenon DEF GoodPages
  <2>11. n.marked \subseteq Frames /\ frame \in n.marked /\ n.tlb \in [Entries -> TLBEs]
    BY <2>2, <2>3, Zenon DEF GoodPages
  <2>12. GoodPages(n)
    BY <2>3, <2>6, <2>9, <2>10, <2>11, Zenon DEF GoodPages
  <2>13. l = n
    BY <2>1
  <2> QED BY <2>2, <2>3, <2>8, <2>11, <2>12, <2>13, Zenon
<1> QED BY <1>1, <1>2, Zenon

\* The choice of an entry, when it is not one of the TLB's, is second chance's.
LEMMA GoodChooses ==
  ASSUME algorithm \in {1, 2}, NEW m, GoodPages(m), GoodChoice(m), NEW l, IsVM(l), l.tlb = m.tlb,
         l.queue = m.queue, l.uses = m.uses
  PROVE  LET c == ChooseEntry(l) IN
         /\ algorithm = 2 => c.entry \in Entries /\ c.m.uses \in [Frames -> Nat]
         /\ algorithm = 1 => \/ c.entry \in Entries /\ c.m.queue = m.queue
                             \/ /\ c.m.queue = Turned(m.queue) /\ m.queue # << >>
                                /\ c.entry = m.queue[Found(m.queue)].frame
                                /\ \E j \in DOMAIN m.queue : m.queue[j].frame = 0
<1> DEFINE c == ChooseEntry(l)
           invalid == {i \in Entries : ~l.tlb[i].valid}
<1>1. Entries \subseteq Nat /\ 0 \in Entries
  BY VirtualMemoryAssumption DEF Entries
<1>2. CASE algorithm = 2
  <2>1. l.uses \in [Frames -> Nat]
    BY <1>2, Zenon DEF GoodChoice
  <2>2. \A i \in Entries : l.tlb[i].valid => l.tlb[i].physicalPage \in Frames
    BY Zenon DEF GoodPages
  <2>3. ~(algorithm = 1)
    BY <1>2
  <2> QED BY <1>2, <2>1, <2>2, <2>3, ChooseUsed, Zenon
<1>3. CASE algorithm = 1 /\ invalid # {}
  <2>1. c = [entry |-> Min(invalid), m |-> l]
    BY <1>3, Zenon DEF ChooseEntry
  <2>2. invalid \subseteq Nat /\ invalid \subseteq Entries
    BY <1>1, Zenon
  <2> HIDE DEF invalid, c
  <2>3. Min(invalid) \in Entries
    BY <1>3, <2>2, LeastOne, Zenon
  <2>4. c.entry \in Entries /\ c.m = l
    BY <2>1, <2>3
  <2>5. ~(algorithm = 2)
    BY <1>3
  <2> QED BY <1>3, <2>4, <2>5, Zenon DEF c
<1>4. CASE algorithm = 1 /\ invalid = {}
  <2>1. c = secondChance(l)
    BY <1>4, Zenon DEF ChooseEntry, getTLBEntryToReplace
  <2>2. m.marked # {}
    <3>1. m.tlb[0].valid
      BY <1>1, <1>4, Zenon
    <3> QED BY <1>1, <3>1, Zenon DEF GoodPages
  <2>3. m.queue \in Seq(Elements) /\ \E j \in DOMAIN m.queue : m.queue[j].frame = 0
    BY <1>4, <2>2, Zenon DEF GoodChoice
  <2>4. m.queue # << >>
    BY <2>3
  <2>5. c.entry = m.queue[Found(m.queue)].frame /\ c.m.queue = Turned(m.queue)
    BY <2>1, SecondChanceTurns, Zenon
  <2>6. ~(algorithm = 2)
    BY <1>4
  <2> QED BY <1>4, <2>3, <2>4, <2>5, <2>6, Zenon
<1> QED BY <1>2, <1>3, <1>4, Zenon

\* An element more leaves the others where they are.
LEMMA OneMore ==
  ASSUME NEW q \in Seq(Elements), NEW e \in Elements
  PROVE  /\ Append(q, e) \in Seq(Elements)
         /\ \A j \in DOMAIN q : j \in DOMAIN Append(q, e) /\ Append(q, e)[j] = q[j]
         /\ \E j \in DOMAIN Append(q, e) : Append(q, e)[j] = e
<1>1. Len(q) \in Nat /\ DOMAIN q = 1..Len(q)
  OBVIOUS
<1> DEFINE a == Append(q, e)
           n == Len(q)
<1>2. a \in Seq(Elements) /\ Len(a) = n + 1 /\ a[n + 1] = e /\ \A j \in 1..n : a[j] = q[j]
  BY <1>1, SMTT(60)
<1> HIDE DEF a
<1>3. DOMAIN a = 1..(n + 1)
  BY <1>1, <1>2
<1>4. n + 1 \in 1..(n + 1) /\ \A j \in 1..n : j \in 1..(n + 1)
  BY <1>1
<1> QED BY <1>1, <1>2, <1>3, <1>4, Zenon DEF a

\* The fault leaves the memory good; it has put the page in the TLB, or left the
\* TLB as it was and come nearer to an entry.
LEMMA GoodFault ==
  ASSUME algorithm \in {1, 2}, NEW m, GoodPages(m), GoodChoice(m), m.marked # Frames,
         NEW s \in Spaces, NEW page \in Pages, NEW fault \in NachOS_PageFaultException(m, s, page)
  PROVE  /\ GoodPages(fault.m) /\ GoodChoice(fault.m)
         /\ \/ Hits(fault.m, page) # {}
            \/ algorithm = 1 /\ fault.m.tlb = m.tlb /\ TurnsLeft(fault.m) < TurnsLeft(m)
<1> DEFINE n == fault.m
<1>1. PICK l, c : FaultSteps(m, s, page, l, c, n)
  BY FaultInSteps, SMTT(60) DEF GoodPages
<1> HIDE DEF n
<1>2. /\ l = IF isLoadedInPT(m, s, page) THEN m ELSE loadFromDisk(m, s, page)
      /\ c = ChooseEntry(l) /\ IsVM(l) /\ IsVM(n) /\ n.pageTable = l.pageTable
      /\ n.marked = l.marked
  BY <1>1, Zenon DEF FaultSteps
<1> DEFINE pte == l.pageTable[s][page]
           f == pte.physicalPage
           e == [valid |-> TRUE, virtualPage |-> pte.virtualPage, physicalPage |-> pte.physicalPage]
           z == [frame |-> f, used |-> TRUE]
<1>3. /\ GoodPages(l) /\ l.tlb = m.tlb /\ l.queue = m.queue /\ l.uses = m.uses
      /\ pte.virtualPage = page /\ f \in l.marked /\ (m.marked = {} => f = 0)
  BY <1>2, GoodLoads
<1>4. /\ algorithm = 2 => c.entry \in Entries /\ c.m.uses \in [Frames -> Nat]
      /\ algorithm = 1 => \/ c.entry \in Entries /\ c.m.queue = m.queue
                          \/ /\ c.m.queue = Turned(m.queue) /\ m.queue # << >>
                             /\ c.entry = m.queue[Found(m.queue)].frame
                             /\ \E j \in DOMAIN m.queue : m.queue[j].frame = 0
  BY <1>2, <1>3, GoodChooses, ZenonT(60)
<1>5. /\ l.pageTable \in [Spaces -> [Pages -> PTEs]] /\ l.tlb \in [Entries -> TLBEs]
      /\ l.marked \subseteq Frames
      /\ \A i \in Entries : l.tlb[i].valid => l.tlb[i].physicalPage \in l.marked
      /\ \A u \in Spaces, p \in Pages :
           \/ l.pageTable[u][p].virtualPage = -1
           \/ l.pageTable[u][p].virtualPage = p /\ l.pageTable[u][p].physicalPage \in l.marked
  BY <1>3, Zenon DEF GoodPages
<1>6. f \in Frames
  BY <1>3, <1>5, Zenon
<1>7. z \in Elements /\ z.frame = f
  BY <1>6, Zenon DEF Elements
<1>8. e \in TLBEs /\ e.valid /\ e.virtualPage = page /\ e.physicalPage \in l.marked
  BY <1>3, <1>6, Zenon DEF TLBEs
<1>9. /\ n.tlb = IF c.entry \in Entries THEN [l.tlb EXCEPT ![c.entry] = e] ELSE l.tlb
      /\ algorithm = 1 => n.queue = Append(c.m.queue, z)
      /\ algorithm = 2 => n.uses = [c.m.uses EXCEPT ![f] = 0]
  BY <1>1, Zenon DEF FaultSteps
<1> HIDE DEF e, z, f, pte
<1>10. /\ n.tlb \in [Entries -> TLBEs]
       /\ \A i \in Entries : n.tlb[i].valid => n.tlb[i].physicalPage \in l.marked
       /\ c.entry \in Entries => c.entry \in Hits(n, page)
  <2>1. CASE c.entry \in Entries
    <3>1. /\ n.tlb \in [Entries -> TLBEs] /\ n.tlb[c.entry] = e
          /\ \A i \in Entries \ {c.entry} : n.tlb[i] = l.tlb[i]
      BY <1>5, <1>8, <1>9, <2>1
    <3>2. \A i \in Entries : n.tlb[i].valid => n.tlb[i].physicalPage \in l.marked
      BY <1>5, <1>8, <3>1, ZenonT(60)
    <3>3. c.entry \in Hits(n, page)
      BY <1>8, <2>1, <3>1, Zenon DEF Hits
    <3> QED BY <3>1, <3>2, <3>3, Zenon
  <2>2. CASE c.entry \notin Entries
    BY <1>5, <1>9, <2>2, Zenon
  <2> QED BY <2>1, <2>2, Zenon
<1>11. GoodPages(n)
  <2>1. n.pageTable = l.pageTable /\ n.marked = l.marked /\ IsVM(n)
    BY <1>2, Zenon
  <2>2. \A u \in Spaces, p \in Pages :
           \/ n.pageTable[u][p].virtualPage = -1
           \/ n.pageTable[u][p].virtualPage = p /\ n.pageTable[u][p].physicalPage \in n.marked
    BY <1>5, <2>1, SMTT(60)
  <2>3. /\ n.pageTable \in [Spaces -> [Pages -> PTEs]] /\ n.marked \subseteq Frames
        /\ \A i \in Entries : n.tlb[i].valid => n.tlb[i].physicalPage \in n.marked
    BY <1>5, <1>10, <2>1, Zenon
  <2> QED BY <1>10, <2>1, <2>2, <2>3, Zenon DEF GoodPages
<1>12. ASSUME algorithm = 1
       PROVE  /\ n.queue \in Seq(Elements)
              /\ \E j \in DOMAIN n.queue : n.queue[j].frame = 0
  <2>1. m.queue \in Seq(Elements) /\ (m.marked # {} => \E j \in DOMAIN m.queue : m.queue[j].frame = 0)
    BY <1>12, Zenon DEF GoodChoice
  <2>2. c.m.queue = m.queue \/ (c.m.queue = Turned(m.queue) /\ m.queue # << >>)
    BY <1>4, <1>12
  <2> DEFINE q == c.m.queue
  <2>3. q \in Seq(Elements)
    <3>1. m.queue # << >> => Turned(m.queue) \in Seq(Elements)
      BY <2>1, TurnedQueue, Zenon
    <3> QED BY <2>1, <2>2, <3>1, Zenon
  <2>4. ASSUME m.marked # {} PROVE \E j \in DOMAIN q : q[j].frame = 0
    <3>1. PICK j \in DOMAIN m.queue : m.queue[j].frame = 0
      BY <2>1, <2>4, Zenon
    <3>2. \E i \in DOMAIN Turned(m.queue) : Turned(m.queue)[i].frame = m.queue[j].frame
      BY <2>1, TurnedKeeps, Zenon
    <3>3. CASE q = m.queue
      BY <3>1, <3>3, Zenon
    <3>4. CASE q = Turned(m.queue)
      BY <3>1, <3>2, <3>4, Zenon
    <3> QED BY <2>2, <3>3, <3>4, Zenon
  <2> HIDE DEF q
  <2>5. /\ n.queue \in Seq(Elements)
        /\ \A j \in DOMAIN q : j \in DOMAIN n.queue /\ n.queue[j] = q[j]
        /\ \E j \in DOMAIN n.queue : n.queue[j] = z
    <3>1. n.queue = Append(q, z)
      BY <1>9, <1>12, Zenon DEF q
    <3>2. /\ Append(q, z) \in Seq(Elements)
          /\ \A j \in DOMAIN q : j \in DOMAIN Append(q, z) /\ Append(q, z)[j] = q[j]
          /\ \E j \in DOMAIN Append(q, z) : Append(q, z)[j] = z
      BY <1>7, <2>3, OneMore, Zenon
    <3> QED BY <3>1, <3>2, Zenon
  <2>6. CASE m.marked = {}
    BY <1>3, <1>7, <2>5, <2>6, Zenon
  <2>7. CASE m.marked # {}
    <3>1. PICK j \in DOMAIN q : q[j].frame = 0
      BY <2>4, <2>7, Zenon
    <3> QED BY <2>5, <3>1, Zenon
  <2> QED BY <2>6, <2>7, Zenon
<1>13. GoodChoice(n)
  <2>1. algorithm = 2 => n.uses \in [Frames -> Nat]
    <3> DEFINE u == c.m.uses
    <3>1. algorithm = 2 => u \in [Frames -> Nat] /\ n.uses = [u EXCEPT ![f] = 0]
      BY <1>4, <1>9, Zenon
    <3> DEFINE v == n.uses
    <3> HIDE DEF u, v
    <3>2. f \in Frames /\ (algorithm = 2 => u \in [Frames -> Nat] /\ v = [u EXCEPT ![f] = 0])
      BY <1>6, <3>1, Zenon DEF v
    <3>3. algorithm = 2 => v \in [Frames -> Nat]
      BY <3>2, SMTT(60)
    <3> QED BY <3>3, Zenon DEF v
  <2> QED BY <1>12, <2>1, Zenon DEF GoodChoice
<1>14. CASE c.entry \in Entries
  BY <1>10, <1>11, <1>13, <1>14, Zenon DEF n
<1>15. CASE c.entry \notin Entries
  <2>1. /\ algorithm = 1 /\ c.m.queue = Turned(m.queue) /\ c.entry = m.queue[Found(m.queue)].frame
        /\ \E j \in DOMAIN m.queue : m.queue[j].frame = 0
    BY <1>4, <1>15, Zenon
  <2>2. m.queue \in Seq(Elements)
    BY <2>1, Zenon DEF GoodChoice
  <2>3. 0 \in Entries
    BY VirtualMemoryAssumption DEF Entries
  <2>4. \E j \in DOMAIN m.queue : m.queue[j].frame \in Entries
    BY <2>1, <2>3, Zenon
  <2>5. n.queue = Append(Turned(m.queue), z) /\ n.tlb = m.tlb
    BY <1>3, <1>9, <1>15, <2>1, Zenon
  <2>6. m.queue[Found(m.queue)].frame \notin Entries
    BY <1>15, <2>1, Zenon
  <2>7. TurnsLeft(n) < TurnsLeft(m)
    BY <1>7, <2>2, <2>4, <2>5, <2>6, SecondChanceNearer, Zenon
  <2> QED BY <1>11, <1>13, <2>1, <2>5, <2>7, Zenon DEF n
<1> QED BY <1>14, <1>15, Zenon

\* What keeps tables, TLB and marks keeps the pages good.
LEMMA GoodStays ==
  ASSUME NEW m, GoodPages(m), NEW n, IsVM(n), n.pageTable = m.pageTable, n.tlb = m.tlb,
         n.marked = m.marked
  PROVE  GoodPages(n)
<1>1. \A s \in Spaces, p \in Pages :
        \/ n.pageTable[s][p].virtualPage = -1
        \/ n.pageTable[s][p].virtualPage = p /\ n.pageTable[s][p].physicalPage \in n.marked
  BY DEF GoodPages
<1>2. \A i \in Entries : n.tlb[i].valid => n.tlb[i].physicalPage \in n.marked
  BY DEF GoodPages
<1>3. /\ n.pageTable \in [Spaces -> [Pages -> PTEs]] /\ n.tlb \in [Entries -> TLBEs]
      /\ n.marked \subseteq Frames
  BY DEF GoodPages
<1> QED BY <1>1, <1>2, <1>3, Zenon DEF GoodPages

\* A translation leaves the memory good.
LEMMA GoodTranslate ==
  ASSUME algorithm \in {1, 2}, NEW m, GoodPages(m), GoodChoice(m), NEW page, NEW t,
         TranslateSteps(m, page, t)
  PROVE  GoodPages(t.m) /\ GoodChoice(t.m) /\ t.m.tlb = m.tlb
<1>1. Like(t.m, m)
  BY Zenon DEF TranslateSteps
<1>2. /\ IsVM(t.m) /\ t.m.pageTable = m.pageTable /\ t.m.tlb = m.tlb /\ t.m.marked = m.marked
  BY <1>1, Zenon DEF Like
<1>3. GoodPages(t.m)
  BY <1>2, GoodStays, Zenon
<1>4. CASE Hits(m, page) = {}
  <2>1. t.m = m
    BY <1>4, Zenon DEF TranslateSteps
  <2> QED BY <1>2, <1>3, <2>1, Zenon
<1>5. CASE Hits(m, page) # {}
  <2>1. PICK i \in Hits(m, page) : t.frame = m.tlb[i].physicalPage
    BY <1>5, Zenon DEF TranslateSteps
  <2>2. t.frame \in Frames
    BY <2>1, Zenon DEF Hits, GoodPages
  <2> DEFINE f == t.frame
             z == [frame |-> f, used |-> TRUE]
             q == t.m.queue
             u == t.m.uses
             v == m.uses[f] + 1
  <2>3. /\ algorithm = 1 => q = Append(m.queue, z)
        /\ algorithm = 2 => u = [m.uses EXCEPT ![f] = v]
    BY <1>5, Zenon DEF TranslateSteps
  <2>4. f \in Frames /\ z \in Elements
    BY <2>2, Zenon DEF Elements
  <2> HIDE DEF z, f, q, u
  <2>5. ASSUME algorithm = 1
        PROVE  q \in Seq(Elements) /\ (m.marked # {} => \E j \in DOMAIN q : q[j].frame = 0)
    <3>1. /\ m.queue \in Seq(Elements)
          /\ m.marked # {} => \E j \in DOMAIN m.queue : m.queue[j].frame = 0
      BY <2>5, Zenon DEF GoodChoice
    <3>2. q \in Seq(Elements) /\ \A j \in DOMAIN m.queue : j \in DOMAIN q /\ q[j] = m.queue[j]
      <4>1. /\ Append(m.queue, z) \in Seq(Elements)
            /\ \A j \in DOMAIN m.queue : /\ j \in DOMAIN Append(m.queue, z)
                                         /\ Append(m.queue, z)[j] = m.queue[j]
        BY <2>4, <3>1, OneMore, Zenon
      <4>2. q = Append(m.queue, z)
        BY <2>3, <2>5, Zenon
      <4> QED BY <4>1, <4>2, Zenon
    <3>3. ASSUME m.marked # {} PROVE \E j \in DOMAIN q : q[j].frame = 0
      <4>1. PICK j \in DOMAIN m.queue : m.queue[j].frame = 0
        BY <3>1, <3>3, Zenon
      <4> QED BY <3>2, <4>1, Zenon
    <3> QED BY <3>2, <3>3, Zenon
  <2>6. ASSUME algorithm = 2 PROVE u \in [Frames -> Nat]
    <3>1. m.uses \in [Frames -> Nat] /\ m.uses[f] \in Nat
      BY <2>4, <2>6, Zenon DEF GoodChoice
    <3>2. v \in Nat
      BY <3>1, SMTT(60)
    <3>3. u = [m.uses EXCEPT ![f] = v]
      BY <2>3, <2>6, Zenon
    <3> HIDE DEF v
    <3> QED BY <2>4, <3>1, <3>2, <3>3, Zenon
  <2>7. GoodChoice(t.m)
    BY <1>2, <2>5, <2>6, Zenon DEF GoodChoice, q, u
  <2> QED BY <1>2, <1>3, <2>7, Zenon
<1> QED BY <1>4, <1>5, Zenon

\* So does the access, done or not.
LEMMA GoodAccess ==
  ASSUME algorithm \in {1, 2}, NEW m, GoodPages(m), GoodChoice(m), NEW s, NEW page, NEW t,
         AccessEnds(m, s, page, t)
  PROVE  /\ GoodPages(vm') /\ GoodChoice(vm') /\ vm'.tlb = m.tlb
         /\ t.exception # "None" /\ Hits(m, page) = {} => vm' = m
<1>1. PICK writing : t = Translate(m, page, writing)
  BY Zenon DEF AccessEnds
<1>2. TranslateSteps(m, page, t)
  <2>1. IsVM(m)
    BY Zenon DEF GoodPages
  <2> QED BY <1>1, <2>1, TranslateInSteps, Zenon
<1>3. GoodPages(t.m) /\ GoodChoice(t.m) /\ t.m.tlb = m.tlb
  BY <1>2, GoodTranslate, Zenon
<1>4. CASE t.exception # "None" /\ vm' = t.m
  <2>1. Hits(m, page) = {} => t.m = m
    BY <1>2, Zenon DEF TranslateSteps
  <2> QED BY <1>3, <1>4, <2>1
<1>5. CASE t.exception = "None" /\ Perform(t)
  <2>1. PICK x : vm' = t.m \/ vm' = [t.m EXCEPT !.memory = x]
    BY <1>5, Zenon DEF Perform
  <2>2. CASE vm' = t.m
    BY <1>3, <1>5, <2>2
  <2>3. CASE vm' = [t.m EXCEPT !.memory = x]
    <3>1. IsVM(t.m)
      BY <1>3, Zenon DEF GoodPages
    <3>2. WithMemory([t.m EXCEPT !.memory = x], t.m, x)
      BY <3>1, NewMemory, Zenon
    <3>3. WithMemory(vm', t.m, x)
      BY <2>3, <3>2, ZenonT(60)
    <3>4. /\ IsVM(vm') /\ vm'.pageTable = t.m.pageTable /\ vm'.tlb = t.m.tlb
          /\ vm'.marked = t.m.marked /\ vm'.uses = t.m.uses /\ vm'.queue = t.m.queue
      BY <3>3, Zenon DEF WithMemory
    <3>5. GoodPages(vm')
      BY <1>3, <3>4, GoodStays, Zenon
    <3>6. GoodChoice(vm')
      BY <1>3, <3>4 DEF GoodChoice
    <3> QED BY <1>3, <1>5, <3>4, <3>5, <3>6, Zenon
  <2> QED BY <2>1, <2>2, <2>3
<1> QED BY <1>4, <1>5, Zenon DEF AccessEnds

\* What FaultServed says of a step.
Served ==
  restarts' > restarts =>
    LET page == want[current].page IN
    /\ Hits(vm, page) = {}
    /\ \/ Hits(vm', page) # {}
       \/ algorithm = 1 /\ TurnsLeft(vm') < TurnsLeft(vm)

GoodInv == GoodPages(vm) /\ GoodChoice(vm) /\ restarts \in Nat

\* Every access leaves the memory good and is served or comes nearer.
LEMMA AccessServed ==
  ASSUME VTypes, GoodInv, ReadWriteMem PROVE GoodInv' /\ Served
<1> DEFINE page == want[current].page
<1>1. /\ want[current] # NoAccess /\ UNCHANGED <<algorithm, current, spaces>> /\ vm.marked # Frames
  BY DEF ReadWriteMem
<1>2. algorithm \in {1, 2} /\ current \in Spaces /\ page \in Pages
  <2>1. spaces \in Spaces /\ current \in 1..spaces /\ MaxSpaces \in Nat
    BY VirtualMemoryAssumption DEF VTypes
  <2>2. current \in Spaces
    BY <2>1 DEF Spaces
  <2>3. want[current] \in Wants
    BY <1>1, <2>2 DEF VTypes
  <2> QED BY <2>2, <2>3 DEF VTypes, Wants
<1>3. GoodPages(vm) /\ GoodChoice(vm) /\ restarts \in Nat
  BY Zenon DEF GoodInv
<1>4. ASSUME restarts' \in {restarts, 0} PROVE restarts' \in Nat /\ Served
  <2>1. restarts' \in Nat /\ ~(restarts' > restarts)
    BY <1>3, <1>4
  <2> QED BY <2>1, Zenon DEF Served
<1>5. ASSUME GoodPages(vm'), GoodChoice(vm'), restarts' \in Nat PROVE GoodInv'
  BY <1>1, <1>5 DEF GoodInv, GoodPages, GoodChoice, IsVM
<1>6. ASSUME NEW t, AccessEnds(vm, current, page, t), restarts' \in {restarts, 0}
      PROVE  GoodInv' /\ Served
  BY <1>2, <1>3, <1>4, <1>5, <1>6, GoodAccess, Zenon
<1>7. ASSUME Hits(vm, page) = {}, NEW fault \in NachOS_PageFaultException(vm, current, page), NEW t,
             AccessEnds(fault.m, current, page, t),
             \/ t.exception = "None" /\ restarts' = 0
             \/ t.exception # "None" /\ restarts' = restarts + 1
      PROVE  GoodInv' /\ Served
  <2> DEFINE n == fault.m
  <2>1. /\ GoodPages(n) /\ GoodChoice(n)
        /\ \/ Hits(n, page) # {}
           \/ algorithm = 1 /\ n.tlb = vm.tlb /\ TurnsLeft(n) < TurnsLeft(vm)
    BY <1>1, <1>2, <1>3, <1>7, GoodFault, Zenon
  <2> HIDE DEF n
  <2>2. /\ GoodPages(vm') /\ GoodChoice(vm') /\ vm'.tlb = n.tlb
        /\ t.exception # "None" /\ Hits(n, page) = {} => vm' = n
    BY <1>2, <1>7, <2>1, GoodAccess, Zenon DEF n
  <2>3. restarts' \in Nat
    BY <1>3, <1>7
  <2>4. CASE restarts' = 0
    BY <1>4, <1>5, <2>2, <2>4, Zenon
  <2>5. CASE t.exception # "None"
    <3>1. CASE Hits(n, page) # {}
      <4>1. Hits(vm', page) = Hits(n, page)
        BY <2>2, Zenon DEF Hits
      <4> QED BY <1>5, <1>7, <2>2, <2>3, <3>1, <4>1, Zenon DEF Served
    <3>2. CASE Hits(n, page) = {}
      <4>1. vm' = n /\ algorithm = 1 /\ TurnsLeft(vm') < TurnsLeft(vm)
        BY <2>1, <2>2, <2>5, <3>2
      <4> QED BY <1>5, <1>7, <2>2, <2>3, <4>1, Zenon DEF Served
    <3> QED BY <3>1, <3>2, Zenon
  <2> QED BY <1>7, <2>4, <2>5, Zenon
<1>8. CASE UNCHANGED <<vm, want, written, restarts>>
  <2>1. GoodPages(vm') /\ GoodChoice(vm') /\ restarts' \in Nat /\ restarts' = restarts
    BY <1>3, <1>8
  <2> QED BY <1>4, <1>5, <2>1, Zenon
<1> QED BY <1>6, <1>7, <1>8, AccessCases, ZenonT(60)

\* A child's pages are its parent's or not loaded: the memory stays good.
LEMMA ForkGood == ASSUME VTypes, GoodInv, VMFork PROVE GoodInv'
<1> DEFINE child == spaces + 1
           pages == [page \in Pages |-> IF page \in SharedPages THEN vm.pageTable[current][page]
                                       ELSE Unmapped]
           tables == [vm.pageTable EXCEPT ![child] = pages]
<1>1. /\ vm' = [vm EXCEPT !.pageTable = tables] /\ spaces < MaxSpaces
      /\ UNCHANGED <<algorithm, restarts>>
  BY DEF VMFork, VirtualMemoryConstructor
<1>2. child \in Spaces /\ current \in Spaces
  BY <1>1, VirtualMemoryAssumption, SMTT(60) DEF VTypes, Spaces
<1>3. /\ vm.pageTable \in [Spaces -> [Pages -> PTEs]] /\ vm.pageTable[current] \in [Pages -> PTEs]
  BY <1>2 DEF GoodInv, GoodPages
<1>4. Unmapped \in PTEs /\ Unmapped.virtualPage = -1
  BY DEF Unmapped, PTEs
<1>5. pages \in [Pages -> PTEs]
  BY <1>3, <1>4
<1>6. \A p \in Pages : pages[p] = vm.pageTable[current][p] \/ pages[p] = Unmapped
  OBVIOUS
<1> HIDE DEF pages
<1>7. /\ tables \in [Spaces -> [Pages -> PTEs]] /\ tables[child] = pages
      /\ \A s \in Spaces \ {child} : tables[s] = vm.pageTable[s]
  BY <1>2, <1>3, <1>5
<1> HIDE DEF tables
<1>8. WithTables([vm EXCEPT !.pageTable = tables], vm, tables)
  BY NewTables, Zenon DEF VTypes
<1>9. WithTables(vm', vm, tables)
  BY <1>1, <1>8, Zenon
<1>10. /\ IsVM(vm') /\ vm'.pageTable = tables /\ vm'.tlb = vm.tlb
       /\ vm'.marked = vm.marked /\ vm'.uses = vm.uses /\ vm'.queue = vm.queue
  BY <1>9, Zenon DEF WithTables
<1>11. ASSUME NEW s \in Spaces, NEW p \in Pages
       PROVE  \/ tables[s][p].virtualPage = -1
              \/ tables[s][p].virtualPage = p /\ tables[s][p].physicalPage \in vm.marked
  <2>1. PICK u \in Spaces : tables[s][p] = vm.pageTable[u][p] \/ tables[s][p] = Unmapped
    BY <1>2, <1>6, <1>7, Zenon
  <2> QED BY <1>4, <2>1 DEF GoodInv, GoodPages
<1>12. /\ vm'.tlb \in [Entries -> TLBEs] /\ vm'.marked \subseteq Frames
       /\ \A i \in Entries : vm'.tlb[i].valid => vm'.tlb[i].physicalPage \in vm'.marked
  BY <1>10, Zenon DEF GoodInv, GoodPages
<1>13. GoodPages(vm')
  BY <1>7, <1>10, <1>11, <1>12, Zenon DEF GoodPages
<1>14. GoodChoice(vm')
  BY <1>10 DEF GoodInv, GoodChoice
<1> QED BY <1>1, <1>13, <1>14 DEF GoodInv, GoodPages, GoodChoice, IsVM

\* The memory is good at the start.
LEMMA GoodInit == VMInit => GoodInv
<1> SUFFICES ASSUME VMInit PROVE GoodInv
  OBVIOUS
<1>1. /\ vm.pageTable = [s \in Spaces |-> [page \in Pages |-> Unmapped]]
      /\ vm.tlb = [i \in Entries |-> [valid |-> FALSE, virtualPage |-> -1, physicalPage |-> -1]]
      /\ vm.marked = {} /\ vm.queue = <<>> /\ vm.uses = [f \in Frames |-> 0] /\ restarts = 0
      /\ IsVM(vm)
  BY DEF VMInit, IsVM
<1>2. vm.pageTable \in [Spaces -> [Pages -> PTEs]]
  BY <1>1, SMTT(60) DEF PTEs, Unmapped
<1>3. vm.tlb \in [Entries -> TLBEs] /\ \A i \in Entries : ~vm.tlb[i].valid
  BY <1>1, SMTT(60) DEF TLBEs
<1>4. \A s \in Spaces, p \in Pages : vm.pageTable[s][p].virtualPage = -1
  BY <1>1, SMTT(60) DEF Unmapped
<1>5. <<>> \in Seq(Elements)
  BY SMTT(60)
<1>6. vm.uses \in [Frames -> Nat]
  BY <1>1, SMTT(60)
<1>7. GoodPages(vm)
  BY <1>1, <1>2, <1>3, <1>4, Zenon DEF GoodPages
<1>8. GoodChoice(vm)
  BY <1>1, <1>5, <1>6, Zenon DEF GoodChoice
<1> QED BY <1>1, <1>7, <1>8 DEF GoodInv

\* Every step keeps it good, and serves or comes nearer.
LEMMA GoodNext == VTypes /\ GoodInv /\ [VMNext]_vmvars => GoodInv' /\ Served
<1> SUFFICES ASSUME VTypes, GoodInv, [VMNext]_vmvars PROVE GoodInv' /\ Served
  OBVIOUS
<1>1. CASE ReadWriteMem
  BY <1>1, AccessServed, Zenon
<1>2. ASSUME restarts' = restarts PROVE Served
  <2>1. ~(restarts' > restarts)
    BY <1>2 DEF GoodInv
  <2> QED BY <2>1, Zenon DEF Served
<1>3. CASE VMFork
  BY <1>2, <1>3, ForkGood DEF VMFork
<1>4. CASE UNCHANGED <<vm, algorithm, restarts>>
  <2>1. GoodInv'
    BY <1>4 DEF GoodInv, GoodPages, GoodChoice, IsVM
  <2> QED BY <1>2, <1>4, <2>1
<1> QED BY <1>1, <1>3, <1>4 DEF VMNext, vmvars, Issue, RestoreState

\* An instruction that faults is not restarted for ever: a restart leaves its page
\* in the TLB, so that the next try is the last, or second chance nearer to an
\* index of the TLB by a measure that is a natural number, for every number of
\* pages, frames, TLB entries and accesses, both replacement algorithms and
\* whatever the entries of the TLB have in readOnly.
THEOREM FaultsAreServed == VMSpec => FaultServed
<1>1. VMInit => VTypes /\ MemInv /\ GoodInv
  BY MemInvInit, GoodInit
<1>2. VTypes /\ MemInv /\ GoodInv /\ [VMNext]_vmvars => (VTypes /\ MemInv /\ GoodInv)' /\ [Served]_vmvars
  BY MemInvNext, GoodNext
<1>3. VMSpec => [][Served]_vmvars
  BY <1>1, <1>2, PTL DEF VMSpec
<1>4. [][Served]_vmvars => FaultServed
  BY PTL DEF Served, FaultServed
<1> QED BY <1>3, <1>4, PTL
============================================================================
