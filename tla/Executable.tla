----------------------------- MODULE Executable -----------------------------
(***************************************************************************)
(* From an object file to the memory of a program.  Three programs read a   *)
(* COFF file: coff2noff, whose output AddrSpace loads a page at a time (all *)
(* pages at once, or each when it is first touched), coff2flat, whose       *)
(* output is the memory, and the loader of the stand-alone interpreter.     *)
(*                                                                          *)
(* A word of a section is the section's name and its place in it; Zero is   *)
(* the word of a fresh memory, of a hole in a file, and of a section that   *)
(* has no contents.  Place p of a file or memory is word p+1 of a sequence. *)
(***************************************************************************)
EXTENDS Integers, Sequences, FiniteSets, FiniteSetsExt, SequencesExt

CONSTANTS SectionSizes,  \* sizes of the sections, in words
          Gaps,          \* words the linker may leave before .bss
          HeaderWords,   \* sizeof(NoffHeader)
          PageWords,     \* PageSize
          StackWords,    \* UserStackSize, and StackSize of coff2flat
          MEMSIZE        \* words of the interpreter's memory

ASSUME ExecutableAssumption ==
  /\ SectionSizes \subseteq Nat /\ Gaps \subseteq Nat
  /\ {HeaderWords, PageWords, StackWords, MEMSIZE} \subseteq Nat \ {0}
  /\ StackWords >= PageWords

VARIABLES tool,      \* the program that reads the COFF file
          sections,  \* its section headers
          wrong,     \* what goes wrong: "nothing", the "headers" are not those of an
                     \* object file, the last word of the "contents" is missing, or
                     \* the "disk" has no room for what is written
          i,         \* the section that is read next
          noffH,     \* the header coff2noff fills in
          out,       \* the file written, or the memory of the interpreter
          memory,    \* what the program finds in its address space
          first,     \* the word of each page but page 0 that is touched first
          stage

xvars == <<tool, sections, wrong, i, noffH, out, memory, first, stage>>
input == <<tool, sections, wrong>>

Names == <<".text", ".rdata", ".data", ".sdata", ".sbss", ".bss">>
NoContents == {".sbss", ".bss"}
Zero == <<"zero", 0>>
NoSegment == [virtualAddr |-> 0, inFileAddr |-> 0, size |-> 0]

\* write() at a place of a file, which leaves a hole after its old end, and
\* a read of at most n words.
WriteAt(file, place, words) ==
  [p \in 1..Max({Len(file), place + Len(words)}) |->
     CASE p \in (place + 1)..(place + Len(words)) -> words[p - place]
       [] p \in 1..Min({place, Len(file)}) -> file[p]
       [] p > place + Len(words) -> file[p]
       [] OTHER -> Zero]
ReadAt(file, place, n) == SubSeq(file, place + 1, Min({place + n, Len(file)}))

LastContents == Max({0} \cup {s \in 1..4 : sections[s].s_size > 0})
Missing(s, w) == wrong = "contents" /\ s = LastContents /\ w = sections[s].s_size
SectionWords(s) ==
  [w \in 1..sections[s].s_size |-> IF Missing(s, w) THEN <<"EOF", 0>> ELSE <<Names[s], w>>]

\* The linker lays the sections out one after the other from address 0, with a
\* gap, if any, before .bss only.
ExeInit ==
  /\ tool \in {"coff2noff", "coff2flat", "interpreter"}
  /\ \E size \in [1..6 -> SectionSizes], gap \in Gaps :
       /\ size[1] > 0
       /\ sections = [s \in 1..6 |->
            [s_size  |-> size[s],
             s_paddr |-> SumFunctionOnSet(size, 1..(s - 1)) + (IF s = 6 THEN gap ELSE 0)]]
  /\ wrong \in {"nothing", "headers", "contents", "disk"}
  /\ tool = "interpreter" => wrong # "disk"      \* it writes no file
  /\ i = 1
  /\ noffH = [code |-> NoSegment, initData |-> NoSegment, uninitData |-> NoSegment]
  /\ out = IF tool = "interpreter" THEN [w \in 1..MEMSIZE |-> Zero] ELSE <<>>
  /\ memory = <<>> /\ first = 0
  /\ stage = "open"

\* All three look at the headers first: a file that is too short for them or has
\* another magic number ends them with nothing written.
ReadHeaders ==
  /\ stage = "open"
  /\ stage' = IF wrong = "headers" THEN "exited" ELSE "copy"
  /\ UNCHANGED <<input, i, noffH, out, memory, first>>

Reads(s) == wrong = "contents" /\ s = LastContents   \* Read fails: "File is too short"
Writes == wrong = "disk"                 \* Write may fail: "Unable to write file"

(***************************************************************************)
(* coff2noff                                                               *)
(***************************************************************************)
Refuse == stage' = "exited" /\ out' = <<>>   \* unlink(noffFileName); exit(1)

CopySegment(segment) ==
  LET inNoffFile == Max({HeaderWords, Len(out)}) IN
  /\ noffH' = [noffH EXCEPT ![segment] = [virtualAddr |-> sections[i].s_paddr,
                                          inFileAddr  |-> inNoffFile,
                                          size        |-> sections[i].s_size]]
  /\ \/ (Reads(i) \/ Writes) /\ Refuse
     \/ /\ ~Reads(i)
        /\ out' = WriteAt(out, inNoffFile, SectionWords(i))
        /\ UNCHANGED stage

Data == IF noffH.initData.size # 0 THEN Refuse /\ UNCHANGED noffH
        ELSE CopySegment("initData")

\* The test is on sections that ARE contiguous.
Bss ==
  LET old == noffH.uninitData
      new == sections[i] IN
  IF old.size # 0 /\ new.s_paddr = old.virtualAddr + old.size
  THEN Refuse /\ UNCHANGED noffH
  ELSE /\ noffH' = [noffH EXCEPT !.uninitData =
              IF old.size # 0 THEN [old EXCEPT !.size = @ + new.s_size]
              ELSE [virtualAddr |-> new.s_paddr, inFileAddr |-> 0, size |-> new.s_size]]
       /\ UNCHANGED <<out, stage>>

coff2noff ==
  /\ tool = "coff2noff" /\ stage = "copy"
  /\ \/ /\ i <= 6
        /\ IF sections[i].s_size = 0 THEN UNCHANGED <<noffH, out, stage>>
           ELSE CASE Names[i] = ".text" -> CopySegment("code")
                  [] Names[i] \in {".data", ".rdata"} -> Data
                  [] Names[i] \in NoContents -> Bss
                  [] OTHER -> Refuse /\ UNCHANGED noffH
        /\ i' = i + 1
     \/ /\ i = 7                 \* the header is written last
        /\ \/ stage' = "written" /\ UNCHANGED out
           \/ Writes /\ Refuse
        /\ UNCHANGED <<noffH, i>>
  /\ UNCHANGED <<input, memory, first>>

(***************************************************************************)
(* The two loaders of AddrSpace.  The frames of the first program are      *)
(* zeroed by Machine, and a page is read from the place code.inFileAddr    *)
(* plus its address, whatever segment it belongs to.                       *)
(***************************************************************************)
ExeSize == noffH.code.size + noffH.initData.size + noffH.uninitData.size
DivRoundUp(n, s) == (n + s - 1) \div s
numPages == DivRoundUp(ExeSize + StackWords, PageWords)

\* Mutant of FilePage: the header of the file is taken for the start of the program.
FilePageFromHeader(page, n) ==
  WriteAt([w \in 1..PageWords |-> Zero], 0, ReadAt(out, page * PageWords, n))

FilePage(page, n) ==
  WriteAt([w \in 1..PageWords |-> Zero], 0,
          ReadAt(out, noffH.code.inFileAddr + page * PageWords, n))

AllPages(content(_)) == FlattenSeq([p \in 1..numPages |-> content(p - 1)])

\* The size of the last page is taken modulo the number of pages.
CopyPages ==
  /\ tool = "coff2noff" /\ stage = "written"
  /\ memory' = AllPages(LAMBDA page : FilePage(page, IF page = numPages - 1
                                                 THEN ExeSize % numPages
                                                 ELSE PageWords))
  /\ first' = 0
  /\ stage' = "loaded"
  /\ UNCHANGED <<input, i, noffH, out>>

\* A page of which word f is touched first (a program starts at address 0); an
\* address past the end of the program counted in the FILE is taken for the stack,
\* which is not read.
TouchedFirst(page, f) == page * PageWords + (IF page = 0 THEN 0 ELSE f)
isStack(addr) == addr >= noffH.code.inFileAddr + ExeSize
PageOnDemand(page, f) ==
  LET isLastPage == page = numPages - 1 /\ ExeSize % PageWords # 0 IN
  IF isStack(TouchedFirst(page, f)) THEN [w \in 1..PageWords |-> Zero]
  ELSE FilePage(page, IF isLastPage THEN ExeSize % PageWords ELSE PageWords)

LoadOnDemand ==
  /\ tool = "coff2noff" /\ stage = "written"
  /\ first' \in 0..(PageWords - 1)
  /\ memory' = AllPages(LAMBDA page : PageOnDemand(page, first'))
  /\ stage' = "loaded"
  /\ UNCHANGED <<input, i, noffH, out>>

(***************************************************************************)
(* coff2flat: contents in the order of the sections, without regard to     *)
(* their addresses, and a zero where the stack ends.                       *)
(***************************************************************************)
Top == Max({sections[s].s_paddr + sections[s].s_size : s \in 1..6})

coff2flat ==
  /\ tool = "coff2flat" /\ stage = "copy"
  /\ \/ /\ i <= 6
        /\ IF Names[i] \in NoContents THEN UNCHANGED <<out, stage>>
           ELSE \/ (Reads(i) \/ Writes) /\ stage' = "exited" /\ UNCHANGED out
                \/ ~Reads(i) /\ out' = out \o SectionWords(i) /\ UNCHANGED stage
        /\ i' = i + 1
        /\ UNCHANGED memory
     \/ /\ i = 7
        /\ \/ /\ out' = WriteAt(out, Top + StackWords - 1, <<Zero>>) /\ memory' = out'
              /\ stage' = "loaded"
           \/ Writes /\ stage' = "exited" /\ UNCHANGED <<out, memory>>
        /\ UNCHANGED i
  /\ UNCHANGED <<input, noffH, first>>

(***************************************************************************)
(* The interpreter copies each section to its address, and looks whether   *)
(* it fits afterwards.  A read past the end of the file gives EOF.  It     *)
(* reads through a stream that main has closed: the stream is taken to be  *)
(* the one that ldopen opened after that.                                  *)
(***************************************************************************)
load_program ==
  /\ tool = "interpreter" /\ stage = "copy"
  /\ \/ /\ i <= 6
        /\ IF Names[i] \in NoContents THEN UNCHANGED <<out, stage>>
           ELSE /\ out' = WriteAt(out, sections[i].s_paddr, SectionWords(i))
                /\ stage' = IF sections[i].s_paddr + sections[i].s_size >= MEMSIZE
                            THEN "exited" ELSE "copy"
        /\ i' = i + 1
        /\ UNCHANGED memory
     \/ /\ i = 7
        /\ memory' = out
        /\ stage' = "loaded"
        /\ UNCHANGED <<out, i>>
  /\ UNCHANGED <<input, noffH, first>>

ExeNext == ReadHeaders \/ coff2noff \/ CopyPages \/ LoadOnDemand \/ coff2flat \/ load_program

ExeSpec == ExeInit /\ [][ExeNext]_xvars

-----------------------------------------------------------------------------
\* The memory at a word of a section is what the object file says.
WordRight(s, w) ==
  memory[sections[s].s_paddr + w] = IF Names[s] \in NoContents THEN Zero ELSE <<Names[s], w>>

\* The address on its page that was touched first.
Touched(s, w) == TouchedFirst((sections[s].s_paddr + w - 1) \div PageWords, first)

\* The program finds in its memory what the object file says: each word of
\* each section at the section's address, and zeros for the sections without
\* contents, whichever program converted and loaded it, and whichever word of the
\* program made a page be loaded; the interpreter does not look whether .sbss and
\* .bss fit.  A file that coff2noff refuses leaves nothing behind that could be
\* loaded (coff2noff.c:143-232, addrspace.cc:253-280, 564-610, coff2flat.c:101-124,
\* main.c:112-157).
ImageRight ==
  /\ stage = "loaded" =>
       \A s \in 1..6 : \A w \in 1..sections[s].s_size :
         /\ ~Missing(s, w)
         /\ tool = "coff2noff" => Touched(s, w) < ExeSize
         /\ tool = "interpreter" /\ Names[s] \in NoContents => sections[s].s_paddr + w <= MEMSIZE
         => WordRight(s, w)
  /\ tool = "coff2noff" /\ stage = "exited" => out = <<>>

\* What exception.cc:102-103 says of a page that is neither in the page table nor
\* in the swap area, "then we must load it from the disk": whichever of its words
\* is touched first, the words of the program that are on it are there.  It does
\* not hold: loadFromDisk (addrspace.cc:587-591) does not read a page whose first
\* touched word lies past the end of the program.
PageIsLoaded ==
  tool = "coff2noff" /\ stage = "loaded" =>
    \A s \in 1..6 : \A w \in 1..sections[s].s_size : WordRight(s, w)

\* What coff2noff.c:200-202 says of .sbss and .bss, "make sure they are
\* contiguous": in a file that it accepts with both of them, they are.  It does not
\* hold: the test at 204 refuses those that are and accepts those that are not.
BssContiguous ==
  tool = "coff2noff" /\ stage \in {"written", "loaded"}
    /\ sections[5].s_size # 0 /\ sections[6].s_size # 0
    => sections[6].s_paddr = sections[5].s_paddr + sections[5].s_size

=============================================================================
