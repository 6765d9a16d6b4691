----------------------------- MODULE Processes -----------------------------
(***************************************************************************)
(* User programs in the build without virtual memory: the system calls of   *)
(* exception.cc, the address spaces they make, the user part of a context   *)
(* switch and the table of open files.                                      *)
(*                                                                          *)
(* A thread is in user code ("user"), has been forked and not run yet       *)
(* ("forked", "execed"), is inside Yield in the kernel ("yielding"), makes  *)
(* the same call again and again ("looping"), or is finished.  Frames are   *)
(* the bits of MiMapa; the machine's memory has only the first NumPhysPages *)
(* of them.  User registers are the thread they belong to and the number of *)
(* calls it has returned from.                                              *)
(***************************************************************************)
EXTENDS Integers, Sequences, FiniteSets, FiniteSetsExt, Functions

CONSTANTS ProgramSizes,  \* pages of the programs, their stack included
          UserStackPages,\* pages of a stack
          MachinePages,  \* NumPhysPages
          MapBits,       \* bits of MiMapa
          tableSize,     \* entries of the table of open files
          MaxThreads,    \* bound on threads
          MaxCalls       \* bound on system calls

ASSUME ProcessesAssumption ==
  /\ {UserStackPages, MachinePages, MapBits, tableSize, MaxThreads, MaxCalls} \subseteq Nat
  /\ ProgramSizes \subseteq (UserStackPages + 1)..MapBits
  /\ MachinePages <= MapBits /\ tableSize > 2 /\ MaxThreads > 0

VARIABLES phase, ready, running, table, marked, machine, saved, returned, files, usage,
          fds, machineSockets, connects, calls, fate

threadvars == <<phase, ready, running, machine, saved, returned>>
spacevars == <<table, marked>>
filevars == <<files, usage, fds, machineSockets, connects>>
pvars == <<threadvars, spacevars, filevars, calls, fate>>

Threads == 1..MaxThreads
Free == -2                              \* an entry whose bit in openFilesMap is clear
Handles == 0..(tableSize - 1)
HostFds == 0..(tableSize + MaxCalls)
MapFrames == 0..(MapBits - 1)
Alive == {t \in Threads : phase[t] \notin {"unused", "finished"}}

\* As many calls of BitMap::Find as there are frames in found give these: each
\* is the first that is clear when its call is made.
Finds(map, found) ==
  \A i \in DOMAIN found :
    LET taken == map \cup {found[j] : j \in 1..(i - 1)}
    IN  found[i] \notin taken /\ 0..(found[i] - 1) \subseteq taken

\* A program larger than the machine's memory stops at the assertion.  For one
\* larger than the bitmap the constructor returns without a page table; such
\* programs are left out.
ExeNoVirtualMemoryConstructor(numPages) ==
  \/ /\ numPages <= MachinePages
     /\ \E found \in [1..numPages -> MapFrames] :
          /\ Finds({}, found)
          /\ table = [t \in Threads |-> IF t = 1 THEN found ELSE <<>>]
          /\ marked = Range(found)
     /\ fate = "running"
  \/ /\ numPages > MachinePages
     /\ table = [t \in Threads |-> <<>>] /\ marked = {}
     /\ fate = "abort"

NachosOpenFilesTable == [h \in Handles |-> IF h \in 0..2 THEN h ELSE Free]

StartProcess ==
  /\ \E numPages \in ProgramSizes : ExeNoVirtualMemoryConstructor(numPages)
  /\ phase = [t \in Threads |-> IF t = 1 THEN "user" ELSE "unused"]
  /\ ready = <<>> /\ running = 1
  /\ machine = [pageTable |-> 1, of |-> 1, count |-> 0]
  /\ saved = [t \in Threads |-> [of |-> 0, count |-> 0]]
  /\ returned = [t \in Threads |-> 0]
  /\ files = NachosOpenFilesTable /\ usage = 1 /\ fds = 0..2
  /\ machineSockets = {} /\ connects = {}
  /\ calls = 0

----------------------------------------------------------------------------
\* ---- context switches ----

SaveUserState == [of |-> machine.of, count |-> machine.count]

\* Mutant: the registers are restored, the page table is not.
RestoreRegistersOnly(t, phases) ==
  IF phases[t] \in {"forked", "execed"} THEN machine
  ELSE [pageTable |-> machine.pageTable, of |-> saved[t].of, count |-> saved[t].count]

\* The end of Scheduler::Run in a thread that is switched in again; a thread
\* that has not run yet starts in its own function and resets all of it there.
RestoreUserState(t, phases) ==
  IF phases[t] \in {"forked", "execed"} THEN machine
  ELSE [pageTable |-> t, of |-> saved[t].of, count |-> saved[t].count]

\* The running thread, in its new phase, leaves the processor for the first of
\* the queue.  A thread started by Exec has no address space and saves nothing.
Run(phases, queue) ==
  /\ phase' = phases
  /\ saved' = IF phase[running] = "execed" THEN saved
              ELSE [saved EXCEPT ![running] = SaveUserState]
  /\ running' = Head(queue)
  /\ ready' = IF phases[running] = "finished" THEN Tail(queue) ELSE Append(Tail(queue), running)
  /\ machine' = RestoreUserState(Head(queue), phases)
  /\ UNCHANGED <<returned, fate>>

\* The machine halts when the thread that finishes was the last.
Finish ==
  LET finished == [phase EXCEPT ![running] = "finished"] IN
  IF ready # <<>> THEN Run(finished, ready)
  ELSE phase' = finished /\ fate' = "halted" /\ UNCHANGED <<ready, running, machine, saved, returned>>

returnFromSystemCall ==
  /\ machine' = [machine EXCEPT !.count = @ + 1]
  /\ returned' = [returned EXCEPT ![running] = @ + 1]
  /\ phase' = [phase EXCEPT ![running] = "user"]
  /\ UNCHANGED <<ready, running, saved, fate>>

InUserCode == fate = "running" /\ phase[running] = "user"

Syscall ==
  /\ InUserCode /\ calls < MaxCalls
  /\ calls' = calls + 1

\* An assertion of the kernel fails.
Abort == fate' = "abort" /\ UNCHANGED threadvars

\* Mutant: the yield is lost when the timer interrupts user code.
TimerYieldInKernel ==
  /\ fate = "running" /\ phase[running] = "looping" /\ ready # <<>>
  /\ Run(phase, ready)
  /\ UNCHANGED <<spacevars, filevars, calls>>

\* The timer of the -rs option makes the running thread yield.
TimerYield ==
  /\ fate = "running" /\ phase[running] \in {"user", "looping"} /\ ready # <<>>
  /\ Run(phase, ready)
  /\ UNCHANGED <<spacevars, filevars, calls>>

----------------------------------------------------------------------------
\* ---- threads and programs ----

\* Halt never reaches interrupt->Halt: Finish does not return.
NachOS_Halt == Syscall /\ Finish /\ UNCHANGED <<spacevars, filevars>>

NachOS_Exit == Syscall /\ Finish /\ UNCHANGED <<spacevars, filevars>>

\* Join waits for no one; Bind does nothing either.
NachOS_Join == Syscall /\ returnFromSystemCall /\ UNCHANGED <<spacevars, filevars>>

NachOS_Bind == Syscall /\ returnFromSystemCall /\ UNCHANGED <<spacevars, filevars>>

NachOS_Yield ==
  /\ Syscall
  /\ IF ready = <<>> THEN returnFromSystemCall
     ELSE Run([phase EXCEPT ![running] = "yielding"], ready)
  /\ UNCHANGED <<spacevars, filevars>>

YieldReturns ==
  /\ fate = "running" /\ phase[running] = "yielding"
  /\ returnFromSystemCall
  /\ UNCHANGED <<spacevars, filevars, calls>>

\* The calls on semaphores, locks and conditions, Listen, Accept and Shutdown
\* have empty bodies: the program counter stays on the call.
EmptyCall ==
  /\ Syscall
  /\ phase' = [phase EXCEPT ![running] = "looping"]
  /\ UNCHANGED <<ready, running, machine, saved, returned, spacevars, filevars, fate>>

NewThreads == {t \in Threads : phase[t] = "unused" /\ \A u \in 1..(t - 1) : phase[u] # "unused"}

\* Exec starts a thread and yields.
NachOS_Exec ==
  /\ Syscall
  /\ \E t \in NewThreads :
       Run([phase EXCEPT ![t] = "execed", ![running] = "yielding"], Append(ready, t))
  /\ UNCHANGED <<spacevars, filevars>>

\* The file name is a register of the program used as an address of the host:
\* opening it fails, and printing it may stop the simulator.
AuxExec ==
  /\ fate = "running" /\ phase[running] = "execed"
  /\ \/ Finish
     \/ fate' = "crash" /\ UNCHANGED threadvars
  /\ UNCHANGED <<spacevars, filevars, calls>>

\* Mutant: the child gets one page of its own, the rest of the stack is shared.
ChildSharesStack(shared, found) ==
  SubSeq(table[running], 1, Len(table[running]) - 1) \o SubSeq(found, Len(found), Len(found))

\* The child's page table as far as the constructor gets.
ChildPages(shared, found) == shared \o found

\* What the constructor clears when the frames run out.
ClearedPages(shared, made) == Range(SubSeq(made, Len(shared) + 1, Len(made)))

\* The child shares the pages below the stack and gets frames for its own.
\* When the bitmap runs out, those it had taken are cleared and the thread
\* that called Fork is finished.
NoVirtualMemoryConstructor(t) ==
  LET numPages == Len(table[running])
      shared == SubSeq(table[running], 1, numPages - UserStackPages)
  IN  \/ \E found \in [1..UserStackPages -> MapFrames] :
           /\ Finds(marked, found)
           /\ table' = [table EXCEPT ![t] = ChildPages(shared, found)]
           /\ marked' = marked \cup Range(found)
           /\ phase' = [phase EXCEPT ![t] = "forked"]
           /\ ready' = Append(ready, t)
           /\ machine' = [machine EXCEPT !.count = @ + 1]
           /\ returned' = [returned EXCEPT ![running] = @ + 1]
           /\ UNCHANGED <<running, saved, fate>>
      \/ \E n \in 0..(UserStackPages - 1) : \E found \in [1..n -> MapFrames] :
           /\ Finds(marked, found) /\ MapFrames \subseteq marked \cup Range(found)
           /\ Finish
           /\ marked' = (marked \cup Range(found)) \ ClearedPages(shared, ChildPages(shared, found))
           /\ UNCHANGED table

NachOS_Fork ==
  /\ Syscall
  /\ \E t \in NewThreads : NoVirtualMemoryConstructor(t)
  /\ UNCHANGED filevars

ForkAux ==
  /\ fate = "running" /\ phase[running] = "forked"
  /\ machine' = [pageTable |-> running, of |-> running, count |-> 0]
  /\ usage' = usage + 1
  /\ phase' = [phase EXCEPT ![running] = "user"]
  /\ UNCHANGED <<ready, running, saved, returned, spacevars, files, fds, machineSockets,
                 connects, calls, fate>>

\* A push on the stack: Translate refuses a frame the machine does not have.
TouchStack ==
  /\ InUserCode /\ \E f \in Range(table[running]) : f >= MachinePages
  /\ Abort
  /\ UNCHANGED <<spacevars, filevars, calls>>

----------------------------------------------------------------------------
\* ---- files and sockets ----

\* The lowest descriptor the host has left, or a refusal.
HostGives == {-1, Min(HostFds \ fds)}
HostHas(fd) == fds \cup ({fd} \ {-1})

\* The table's entry for a descriptor: the one that has it already unless that
\* is entry 0, else the first free one, else none.
HandleFor(fd) ==
  LET same == {h \in Handles : files[h] = fd}
      clear == {h \in Handles : files[h] = Free}
  IN  IF same # {} /\ Min(same) # 0 THEN Min(same) ELSE IF clear = {} THEN -1 ELSE Min(clear)

TableOpen(fd) ==
  files' = IF HandleFor(fd) = -1 THEN files ELSE [files EXCEPT ![HandleFor(fd)] = fd]

\* isOpened lets tableSize through, and BitMap::Test stops at its assertion.
isOpened(handle) ==
  CASE handle \in Handles -> IF files[handle] = Free THEN "no" ELSE "yes"
    [] handle = tableSize -> "assert"
    [] OTHER -> "no"

\* The descriptor goes to the program and into no table.
NachOS_Create ==
  /\ Syscall
  /\ \E fd \in HostGives : fds' = HostHas(fd)
  /\ returnFromSystemCall
  /\ UNCHANGED <<spacevars, files, usage, machineSockets, connects>>

NachOS_Open ==
  /\ Syscall
  /\ \E fd \in HostGives :
       /\ fds' = HostHas(fd)
       /\ IF fd = -1 THEN UNCHANGED files ELSE TableOpen(fd)
  /\ returnFromSystemCall
  /\ UNCHANGED <<spacevars, usage, machineSockets, connects>>

\* Read and Write answer for the console's handles without the table.
NachOS_Write(handle) ==
  /\ Syscall
  /\ IF handle \notin {0, 1} /\ isOpened(handle) = "assert" THEN Abort ELSE returnFromSystemCall
  /\ UNCHANGED <<spacevars, filevars>>

NachOS_Read(handle) ==
  /\ Syscall
  /\ IF handle \notin {0, 1} /\ isOpened(handle) = "assert" THEN Abort ELSE returnFromSystemCall
  /\ UNCHANGED <<spacevars, filevars>>

\* Mutant: the bit of the entry is not cleared.
TableCloseKeeps(handle) == UNCHANGED files

TableClose(handle) == files' = [files EXCEPT ![handle] = Free]

NachOS_Close(handle) ==
  /\ Syscall
  /\ \/ isOpened(handle) = "assert" /\ Abort /\ UNCHANGED <<files, fds>>
     \/ isOpened(handle) = "no" /\ returnFromSystemCall /\ UNCHANGED <<files, fds>>
     \/ /\ isOpened(handle) = "yes"
        /\ TableClose(handle)
        /\ fds' = fds \ {files[handle]}
        /\ returnFromSystemCall
  /\ UNCHANGED <<spacevars, usage, machineSockets, connects>>

\* The result of socket() goes into the table even when it is -1.
NachOS_Socket(ipv6) ==
  /\ Syscall
  /\ \E fd \in HostGives :
       /\ fds' = HostHas(fd)
       /\ TableOpen(fd)
       /\ machineSockets' = IF ipv6 THEN machineSockets \cup {HandleFor(fd)} ELSE machineSockets
  /\ returnFromSystemCall
  /\ UNCHANGED <<spacevars, usage, connects>>

\* The values it may return: -1 in an entry that was closed; memset gives it to
\* too few of the entries that were never used.
getUnixHandle(handle) ==
  IF files[handle] # Free THEN {files[handle]} ELSE {-1} \cup HostFds

\* The family is looked up under the descriptor, and connect() is called with
\* the handle.
NachOS_Connect(handle) ==
  /\ Syscall
  /\ \E fd \in getUnixHandle(handle) :
       connects' = connects \cup {[fd |-> handle, ipv6 |-> fd \in machineSockets]}
  /\ returnFromSystemCall
  /\ UNCHANGED <<spacevars, files, usage, fds, machineSockets>>

\* A call or an exception that ExceptionHandler does not know.
UnexpectedException ==
  /\ Syscall /\ Abort
  /\ UNCHANGED <<spacevars, filevars>>

ExceptionHandler ==
  \/ NachOS_Halt \/ NachOS_Exit \/ NachOS_Exec \/ NachOS_Join \/ NachOS_Yield \/ NachOS_Fork
  \/ NachOS_Create \/ NachOS_Open
  \/ \E handle \in -1..tableSize :
        NachOS_Read(handle) \/ NachOS_Write(handle) \/ NachOS_Close(handle)
  \/ \E ipv6 \in BOOLEAN : NachOS_Socket(ipv6)
  \/ \E handle \in Handles : NachOS_Connect(handle)
  \/ NachOS_Bind \/ EmptyCall \/ UnexpectedException

KernelSteps == YieldReturns \/ AuxExec \/ ForkAux

ProcNext == ExceptionHandler \/ KernelSteps \/ TimerYield \/ TouchStack

ProcSpec == StartProcess /\ [][ProcNext]_pvars /\ WF_pvars(KernelSteps) /\ WF_pvars(TimerYield)

----------------------------------------------------------------------------
\* Type invariant of the user programs.
ProcTypeOK ==
  /\ phase \in [Threads -> {"unused", "user", "forked", "execed", "yielding", "looping", "finished"}]
  /\ Range(ready) \subseteq Threads /\ running \in Threads
  /\ table \in [Threads -> Seq(MapFrames)] /\ marked \subseteq MapFrames
  /\ files \in [Handles -> HostFds \cup {-1, Free}] /\ fds \subseteq HostFds /\ usage \in Nat
  /\ machineSockets \subseteq Handles \cup {-1}
  /\ connects \subseteq [fd : Handles, ipv6 : BOOLEAN]
  /\ fate \in {"running", "halted", "abort", "crash"}

\* A program that runs user code runs on its own page table, with its own
\* registers as they were when it last left them, whichever threads ran, were
\* forked or were preempted in between.
ContextOwn ==
  InUserCode => machine = [pageTable |-> running, of |-> running, count |-> returned[running]]

\* MiMapa marks exactly the frames of the page tables made so far: a Fork that
\* fails half-way gives back all that it took and nothing else.  The frames of
\* the stack of a living thread are in no other thread's page table, whatever
\* else the two share.
FramesAccounted ==
  /\ marked = UNION {Range(table[t]) : t \in Threads}
  /\ \A t, u \in Alive :
       LET stack == SubSeq(table[t], Len(table[t]) - UserStackPages + 1, Len(table[t])) IN
       (t # u /\ phase[t] # "execed") => Range(stack) \cap Range(table[u]) = {}

\* Two open handles never stand for the same descriptor of the host, and the
\* descriptor of an open handle is open; -1 stands for sockets the host refused.
HandlesSound ==
  \A h \in Handles : files[h] \notin {Free, -1} =>
    files[h] \in fds /\ \A g \in Handles \ {h} : files[g] # files[h]

\* A thread made by Fork or Exec gets to run, unless the simulator stops.
ForkedRuns ==
  \A t \in Threads : phase[t] \in {"forked", "execed"}
                       ~> (phase[t] \notin {"forked", "execed"} \/ fate # "running")
============================================================================
