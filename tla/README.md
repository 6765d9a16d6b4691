# A TLA+ verification of the NachOS kernel

This directory models the kernel under `src/NachOSx64/code/` in TLA+, checks the
models with TLC on small instances, and proves most of the safety properties with TLAPS
for every number of threads, objects, sectors, frames and so on. Paths below are
relative to `src/NachOSx64/code/`.

## The system

NachOS is a uniprocessor kernel that runs as one process of the host, on a
simulated machine. Its concurrency is of three kinds.

* **Threads** (`threads/thread.cc`, `threads/scheduler.cc`). One runs at a time.
  The CPU changes hands when a thread sleeps, yields or finishes, and when the
  timer asks for a yield (`Interrupt::OneTick`, or at any machine instruction under
  `threads/preemptive.cc`).
* **Interrupt handlers** (`machine/*.cc`). A device schedules its completion on a
  list of pending interrupts; the handler runs between two instructions of
  whatever thread is running, or in the idle loop.
* **Interrupts-off sections.** `SetLevel(IntOff)` makes a piece of code indivisible.
  All of the kernel's atomicity comes from it. Locks and conditions are built on
  semaphores, and those on this.

| Part | State | Operations | What is hard about it |
|---|---|---|---|
| Scheduler, threads | `currentThread`, `readyList`, `status`, `threadToBeDestroyed` | `Fork`, `Yield`, `Sleep`, `Finish`, `ReadyToRun`, `Run` | a thread on no list or on two; a deletion that must be left to another thread |
| Semaphore | `value`, `queue` | `P`, `V`, `Destroy` | barging between wake-up and return |
| Lock, Condition | `isHeld`, `owner`, `hilos` | `Acquire`, `Release`, `Wait`, `Signal`, `Broadcast` | lost wake-ups; fields written outside the atomic section |
| Dining philosophers | `state[i]`, a lock, one condition each | `pickup`, `putdown`, `test` | an `if` around a Mesa-style `Wait` |
| SynchList | a list, a lock, a condition | `Append`, `Remove`, `Apply` | one signal for each item, consumers that barge |
| SynchDisk, Disk | `active`, a lock, a semaphore | `ReadSector`, `WriteSector`, `RequestDone` | completions before the requester waits |
| Interrupts, timer | `level`, `pending`, clock | `SetLevel`, `OneTick`, `Schedule`, `CheckIfDue`, `Idle` | the sorted pending list; halting with threads waiting |
| File system | free map, directory, headers, `OpenFile` copies | `Create`, `Open`, `Remove`, `ReadAt`, `WriteAt` | read-modify-write with no lock; several disk writes for one operation |
| Post office, network | mailboxes, `inHdr`, `sendBusy` | `Send`, `Receive`, `PostalDelivery`, handlers, `MailTest` | loss of packets, two machines that start and stop, one buffer |
| Console | `incoming`, `putBusy` | `PutChar`, `GetChar`, handlers, `ConsoleTest` | one-character buffers between two handlers and a thread |
| Address spaces | `MiMapa`, page tables | constructors, `RestoreState` | pages shared by Fork, allocation that fails half-way |
| Virtual memory | TLB, page tables, inverted page table | the page-fault handler, `Translate`, replacement | tables that must agree after any sequence of faults |
| System calls | the threads' user registers, the open file table | `Exec`, `Fork`, `Exit`, `Yield`, file and socket calls | who runs with whose registers; Unix handles behind NachOS handles |
| Processor | registers, delayed load, two program counters | `OneInstruction`, `RaiseException` | an instruction that traps and is executed again; arithmetic made by hand |
| Executables | COFF and NOFF files, memory | `coff2noff`, `coff2flat`, loaders | three formats, pages loaded in any order |

## Modules

| Module | Models |
|---|---|
| `Scheduler` | the ready list and the context switch, as functions on scheduler states |
| `ThreadLife` | construction, fork, sleep, finish and deletion of threads |
| `Synch` | semaphores and conditions, as actions on the shared kernel state |
| `LockUse` | threads and handlers that use a semaphore, a lock and its conditions in every order |
| `Monitor` | what `Lock` and `Condition` promise together: a Mesa monitor |
| `DiningPh` | `threads/diningph.cc` and the program `ThreadTest` |
| `SynchList`, `Fifo` | `threads/synchlist.h`, and the FIFO queue it promises |
| `SynchDisk`, `SectorStore` | `filesys/synchdisk.cc` over the disk device, and the indivisible store it promises |
| `FileSys`, `FileStore` | `Create`, `Open`, `Remove` and block writes, sector write by sector write, and the file store they promise |
| `OpenFile`, `ByteFile` | transfers of bytes over a disk of sectors, and the array of bytes they promise |
| `Interrupt` | `machine/interrupt.cc` with the timer, a disk and a polling console, under threads in user and kernel code |
| `PostOffice`, `MailService` | `machine/network.cc`, `network/post.cc` and their threads on several machines, and the mail service they promise |
| `Console` | `machine/console.cc` and `ConsoleTest` |
| `DiskHead` | the latency computed by `machine/disk.cc` |
| `Processes` | the system calls of `userprog/exception.cc`, address spaces without virtual memory, the table of open files |
| `VirtualMemory` | the build with `-DVM -DUSE_TLB`: TLB, page faults, page tables, inverted page table |
| `Mips`, `Words` | `machine/mipssim.cc`, `machine/machine.cc` and the accesses of `machine/translate.cc` |
| `Execute`, `MipsExecute` | the interpreter `bin/execute.c`, and the comparison of the two |
| `Executable` | `bin/coff2noff.c`, `bin/coff2flat.c`, the loader in `bin/main.c`, and the loaders of `userprog/addrspace.cc` |
| `Selection` | the elements of a sequence that are in a set, as a recursive function |
| `SynchProofs` | lemmas about the scheduler and the synchronization objects |
| `ThreadProofs` | the theorems about `LockUse` and `ThreadLife` |
| `SynchClientsProofs` | those about `DiningPh`, `SynchDisk` and `SynchList` |
| `FileSysProofs` | those about `FileSys`, `OpenFile` and `DiskHead` |
| `DeviceProofs` | those about `PostOffice` and `Console` |
| `InterruptProofs`, `ProcessesProofs`, `VirtualMemoryProofs` | those about the module each is named after |
| `MC*` | the small instances |

### How state and steps correspond to the code

`Scheduler` holds a record `[currentThread, readyList, status]` and one pure
operator for each routine (`ReadyToRun`, `Run`, `Yield`, `Sleep`). A handler that
wakes a thread and sleeps is a composition, `Sleep(VWakes(s))`, so that an
interrupts-off section is one step of the model, exactly as in the code.

`Synch` adds the semaphores (`sem[s].value`, `sem[s].queue`), the condition queues
(`hilos[c]`, the name of the field) and `asleep`, the threads inside `Thread::Sleep`.
A thread that returns from `Sleep` has interrupts disabled still, and continues at the
test of the `while` of `P`: the model keeps its `pc` at the place of the call, and the
action `P` is both the call and each retry. `TimeSlice` is enabled wherever
interrupts are: this covers the timer of `-rs`, the `-p` option, and `Yield` itself.
`IdleReturn` is the end of the loop in `Thread::Sleep`. When the idle loop finds neither
a ready thread nor a pending interrupt, `Interrupt::Idle` halts the machine even if
threads still wait; the models stutter there (`DiningHalted`, `ListHalted`, `DiskHalted`) and liveness properties tell a
program that completed from one that got stuck.

In `LockUse` the assignments of `isHeld` and `owner` are steps of their own, since
`Lock::Acquire` and `Lock::Release` make them outside the interrupts-off section of the
semaphore operation. Inside `Condition::Wait` interrupts are off, and they are part of
the same step.

`DiningPh`, `SynchList` and `SynchDisk` follow the program text of each thread with one
label for each point where a switch can change what happens.

`FileSys` holds the disk: what each sector contains, the free map and the directory, which have
their own files in the code. `Create` and `Remove` compute their changes in memory and then write
them: the action of the call ends with the first write (the header, the free map), and
`WriteDir1`, `WriteDir2`, `WriteMap` are the others in the order of the code. The free map is exactly
one sector (1024 bits), so its write is atomic; the directory is 200 bytes, two sectors, and its
seventh entry lies across the boundary (`Straddling`). `Crash` may come between any two writes, loses
the operation and the open files, and reboots from the disk. The refused calls write nothing. The
callers keep to two rules, which are in `Next` and not in the actions: a file is not removed while
it is open, and after a crash nobody uses the name of the entry that the crash cut off. The comment
in `filesys.cc` excludes concurrent callers and says that a crash "may corrupt the disk"; the runs
show what is corrupted: that entry, and nothing else.

`OpenFile` has the arithmetic of `ReadAt` and `WriteAt` as operators on buffers, with the
uninitialized part of the buffer of `WriteAt` as an arbitrary choice.

`Interrupt` opens up what the other modules take for granted: the clock, the sorted list of pending
interrupts and the calls of `OneTick`. Time is relative to now, so that the clock needs no bound. A
thread's `frames` are the calls of `OneTick` it is inside of, since `OneTick` yields and the `Yield`
ends in another `OneTick`; nested calls with the same caller and the same saved status are kept once
(`Nest`). `SortedInsert` says where the list has the new element by what is before and after it.
The handlers are operators on the list, called by `Fire`. A thread that waits for the disk stands for
one inside `SynchDisk`; the lock that keeps others out is the guard of `DiskRequest`.

`PostOffice` has the machines, the sockets between them and, on each machine, the card, the postal
worker and threads that follow a program of sends and receives. A machine starts at any time
(`Start`) and takes its socket away when it halts; a send to a socket that does not exist aborts the
sender, which is the assertion in `SendToSocket`. `patient` says whether the users wait until all
machines are up, what `Delay(2)` in `main.cc` is for, and `reliable` whether packets can be lost.
Locks and semaphores are reduced to what `LockUse` and `Synch` show of them.

`Console` has the device's buffer and flag, the two semaphores and the three places where
`ConsoleTest` waits or works. The input is any sequence of characters, one of which equals
`(char) EOF`, and it stays open or ends; at its end `Read` fails its assertion (`"abort"`).

`DiskHead` keeps the clock, since the position of the head is a function of it. Requests come at any
tick; the reference is the physical disk, on which the head is at the start of a sector every
`SectorsPerTrack * RotationTime` ticks.

In `Processes` the registers of a user program are the thread they belong to and the number of calls
it has returned from, enough to see a register set that is lost, mixed up or restored twice. A thread
that was forked resets the machine in its own function, one that returns from `SWITCH` gets its state
from `Scheduler::Run`; both are there. `TimerYield` is the timer of `-rs`. The descriptors of the host
are the lowest free number, or a refusal. The code has calls with empty bodies that are repeated for
ever (`EmptyCall`), a `Halt` that only finishes the thread, an `Exec` whose name is a number used as an
address of the host (`AuxExec`), and a map of frames larger than the memory (`TouchStack`): they are in
the model as they are, and the properties hold with them.

`VirtualMemory` gives each frame the page whose bytes it holds, and retries a memory access until it
succeeds, as the restarted instruction does. Second chance takes the number of a frame for an index of
the TLB; when it is past the array, the model chooses between a write that hits nothing of interest
and a stop (`"overrun"`). Nothing ever writes the field `readOnly` of the TLB entries, which `machine.cc` makes with
`new`: it has any value from the start, and `Translate` tests it.

`Mips` is `OneInstruction` over words of four bytes of `ByteBits` bits. The instruction at the program
counter is chosen freely (`ir`), fetched and executed; each memory access may fault, and the handler
may bring in the page, evict others or fail to. `Execute` is the same machine as the other program of
the repository has it.

`Executable` begins with any small object file and runs one of the tools on it, section by section;
what `coff2noff` wrote is then loaded at once or page by page, for each word of a page as the one that
is touched first (page 0 is first touched at its beginning, where a program starts). The errors the tools test
for are in `wrong`: headers of another kind of file, a missing end, a disk without room. Sections follow one
another as a linker puts them, with a gap before `.bss` only. `bin/main.c` reads the
sections through a stream it has closed; the model takes it for the one `ldopen` opened in its place.

### Composition

The threads, lock and condition modules are built on one another (`Scheduler`, `Synch`, then their
clients). Clients that share no state are put side by side in one run: in `MCKernel`, `MCSynchClients`,
`MCFiles`, `MCDevices` and `MCUserPrograms` the variable `which` says the one that runs, and the
others stand in one of their initial states. Fairness is stated for the steps of the one that runs,
since a component that stands has no step to take.

### Abstract specifications

* `Monitor`: at most one thread inside, a waiting thread cannot enter, `Wait` leaves and
  joins the queue in one step. `LockUse` implements it with `holder` mapped to the thread
  that took the lock's unit, and `waiting` to `hilos`.
* `Fifo`: a queue with indivisible `Append` and `Remove`, and the results of `Remove`, which are the items in
  the order of the appends. `List::Remove` returns NULL of an empty list; in `SynchList` this would be a
  result that is no item, and no step of `Fifo`.
* `SectorStore`: every `ReadSector` returns what the last `WriteSector` wrote, as if each
  call happened at one moment between its start and its return.
* `FileStore`: named files that only a write to them changes; `Create` and `Remove` are atomic and a
  crash is a stuttering step. `Create` takes effect at its last write, `Remove` at its first.
* `ByteFile`: an array of bytes with a position. A step has some position and size; it does not say that they
  are those of the call.
* `MailService`: each box of each machine is a queue; `Send` appends or loses, `Receive` takes the first,
  `Halt` empties. A message is in the queue from the moment the packet is in the socket of its
  destination: the mapping joins the box, the worker's hand, the card and the socket. Only the queues are seen,
  not the messages a thread has received.
* `Execute`: the instructions without load delay, faults and exceptions. It is reached from `Mips` by
  applying the delayed load, for programs that respect the load delay; the instructions on which
  the two programs differ are named in `Comparable`.

## Runs

| Run | Instance | Properties |
|---|---|---|
| `kernel` | 3 threads that are made, run and deleted; beside them 3 threads, a lock with 1 condition, 1 semaphore up to value 2 | `NeverOnFreedStack`: nobody runs on a deleted stack. `OnlyFinishedDeleted`. `ReadyThreadRuns`: every ready thread gets the CPU. `MutualExclusion`; `OnePlace`: every thread is in exactly one place; `NoLostWakeup`; `ImplementsMonitor` |
| `synch_clients` | 3 philosophers, 2 rounds; 3 threads on a disk, 2 calls each, 1 sector, 2 values; a list with 1 producer, 2 consumers, 1 mapper and 3 items | `NeighboursNeverBothEat`; `PickupReturnsEating`; `OneRequestAtATime`; `ImplementsStore`; `ImplementsFifo`; `ItemHasTaker`: no wake-up is lost; `AllFinish`: the programs end |
| `files` | 3 names, 3 entries, 4 free sectors, files of 0 and 2 sectors, 2 crashes; beside it an open file with sectors of 2 bytes, files of 0, 4 and 5 bytes, requests of -1 to 6 | `FilesIntact`; `FreeMapExact`; `StoreSpec`, crashes included; `ByteFileSpec` |
| `interrupt` | 3 threads, ticks of 1 and 2, timer intervals 1 and 4, disk latencies 1 and 5, polls every 3, no bound on time | `NothingOverdue`; `ModeRight`; `HaltMeansCompleted`; `DiskWakes`; `TimerSlices` |
| `devices` | 2 machines with 2 boxes and 2 threads, running `MailTest` or senders against receivers; inputs of up to 4 characters; a disk of 3 tracks of 3 sectors | `OneSendAtATime`; `NoAbort`; `RefinesMailService`; `ReliableMail`: without loss everybody completes. `EchoFaithful`; `QuitEnds`. `LatencyRight` |
| `user_programs` | programs of 3 and 5 pages, 3 threads, 4 calls, 4 handles; 3 pages, 3 frames, 2 TLB entries of which the first may be read-only, 8 accesses (4 with a fork); object files of 6 sections of 0 to 2 words on pages of 3; 2 instructions on words of 8 bits | `ContextOwn`; `FramesAccounted`; `HandlesSound`; `ForkedRuns`. `MemoryIntact`; `FaultServed`. `ImageRight`. `RefinesExecute`; `ArithmeticExact` |
| `thread_leak`, `lock_owner`, `semaphore_destroy`, `file_size`, `bss_contiguous`, `page_is_loaded` | as `kernel` (4 threads in the first), `files` (files of 3 sectors, 2 pointers in a header) and `user_programs` | disagreements with comments, below |

What the two largest ones say of the code:

* `ContextOwn`: user code always runs on its own page table and with the registers it had when it left,
  whichever of `Fork`, `Exec`, `Yield`, `Exit` and the timer made the switches in between.
* `FramesAccounted`: the map of frames is the union of the page tables after every call, a `Fork` that
  runs out of frames included, and stacks are never shared.
* `HandlesSound`: two handles never stand for one descriptor of the host.
* `MemoryIntact`: a page that leaves the TLB and comes back is found where it was, with what was last
  written. It is stated for one program: a switch does not empty the TLB, and pages a parent
  has not touched before `Fork` are not shared.
* `FaultServed`: an instruction is not restarted for ever. It is restarted only when the TLB does not have its
  page. Then the page is in the TLB after the handler, so that the next try ends the access or the machine; or second
  chance gave a number that is no index of the TLB, and `TurnsLeft` has become smaller. `TurnsLeft` says how far the queue must turn
  until an element comes to the front whose number is an index, with its bit clear: up to a round
  more when the bit is set, and a round that grows by one element with each restart.
* `ImageRight`: each word of each section is at its address, for every tool. A page loaded on demand
  is promised when the first word touched in it is a word of the program, and the file that `coff2noff`
  refuses is removed. What it does not promise is the subject of `page_is_loaded` and `bss_contiguous`.
* `RefinesExecute`: an instruction that faults is restarted as if it had not been begun, and one that
  completes does what the interpreter does.
* `ArithmeticExact`: the overflow tests and the loop of `Mult` are right for all operands tried, the
  most negative number among them.
* `NoAbort`: a patient `MailTest` never finds the other machine's socket gone, even when packets are
  lost. `ReliableMail` fails under an earlier `Halt`, and under answers sent too late.
* `EchoFaithful`: each character is echoed once and in order; only a character that equals `(char) EOF` may
  be overtaken. The assertion in `PutChar` never fails.
* `LatencyRight`: the latency is that of the physical disk, and the track buffer has
  what passed under the head since the last seek; a sector that is passing may count either way.

Each module has a type invariant that documents its state; they are not checked as properties of
their own, except that the one of `LockUse` is proved.

**Bounds.** Three threads are the least with which one can barge in while a second is
woken and a third still waits, and with which one finishes while a fresh and a started one are left; four
in `thread_leak` let two finish in a row. `MaxValue` = 2 lets V be called with the value already
positive. Two rounds let a philosopher compete with one that comes back. Two consumers let the item a
consumer was woken for be taken by the other, and three items let this happen with one more on the list. On the disk two calls each let a completion
be left over for the next. In the file system one entry is before the boundary, one on it and one
after it; the names and the sectors both run out; the second crash can hit an operation that reuses
what the first one left. A file of five bytes in sectors of two has a first, a middle and a partly
used last sector. The bytes written differ from sector to sector, so that a transfer shifted by
a sector shows, and the disk holds any bytes before. The delays of `interrupt` are below, between and above the ticks, so that interrupts
come early, on time, late and together.

Two senders compete for `sendLock` while a third message is in the card and two receivers wait
on one box; `MailTest` has four messages in all, of which any can be lost. Four characters are
two before and after one that equals `EOF`. `RotationTime` = 3 and `SeekTime` = 2 make seeks end
anywhere within a sector, and 40 ticks are more than four turns of a track. With programs of 5 pages
on a memory of 4 the first assertion fails; with 3 pages the map of 6 frames gives out in the middle of the second
`Fork`, and the first child's stack is partly past the memory. Four calls make three threads and one
that follows, or fill the table of open files and close one of its entries. Three pages on two TLB entries evict
at the third page, whose frame number 2 is no index of the TLB; eight accesses turn the second chance queue more
than once and restart an instruction several times in a row. A child that has no page of its parent takes
frames past the machine's three. Section sizes of 0
to 2 words on pages of 3 words, after a header of 1 and before a stack of 4, put every boundary on and off a page boundary and the end of the
program and the stack on one page. Words of 8 bits have every
carry and sign case of 32; two instructions are a branch or a load and its delay slot.

**Fairness.** Every thread's step is strongly fair, and the interrupt of an active device and
the end of the idle loop are weakly fair. The ready list is FIFO, and the instructions of the
running thread always progress: a thread that is ready again and again is run again and again,
which is what `ReadyThreadRuns` checks of the scheduler itself. A
device that accepted a request has its interrupt on the pending list, and the clock
advances with every instruction and in the idle loop; the network card and the console poll for ever. The programs whose termination is
checked make finitely many calls: with callers that loop for ever, `Semaphore` does not
exclude starvation (a woken thread goes back to the end of the queue). `Interrupt` assumes only that
the CPU executes something; that the scheduling is fair is what its properties check. `Processes` assumes
that the kernel goes on with what it began and that the timer fires (`-rs`): without the timer a
program that loops keeps the processor, and `ForkedRuns` does not hold.

**Deadlock** is checked in `synch_clients`, `files`, `interrupt` and `file_size`. In the
others the system may stop: all threads wait on the condition, finish or sleep; machines halt, or wait
for a packet that was lost; the user types nothing more; the simulator aborts; a bound is reached.

## Disagreements with comments

Each is a run that TLC must find violated.

* `thread_leak`: `thread.cc:155-157` says that `Scheduler::Run` will delete a finished thread.
  `Run` does so after `SWITCH` returns, but a thread that runs for the first time does not
  return there; if it finishes in turn, it overwrites `threadToBeDestroyed`.
* `lock_owner`: `synch.h:77-80` says `isHeldByCurrentThread` is true if the current thread holds
  the lock. `Release` clears the fields after its `V`, and can clear what the next holder wrote.
* `semaphore_destroy`: `synch.cc:103` says `Destroy` frees the waiting threads. They find the value
  0 in the loop of `P`, and wait again on a semaphore nobody will signal.
* `file_size`: `filesys.cc:34` says that files cannot be bigger than about 3KB. `Allocate` compares the
  size with the free sectors only, and stores more pointers than the header has.
* `bss_contiguous`: `coff2noff.c:200-202` says to make sure that `.bss` and `.sbss` are contiguous. The test refuses
  them when they are, and when they are not adds their sizes as if they were.
* `page_is_loaded`: `exception.cc:102-103` says of a page that is in neither table, "then we must load it from
  the disk". `loadFromDisk` looks at the address that faulted: past the end of the program it takes the page for
  stack and reads nothing, though the last words of the program may be on that page.

## Proofs

The theorems hold for every value of the constants that satisfies the assumption named. TLC
evaluates each assumption for the instance of its run.

| Theorem | States | Assumption |
| --- | --- | --- |
| `LockIsExclusive` | `LockUse!Spec => []MutualExclusion` | `LockUseAssumption` |
| `ThreadsInOnePlace` | `LockUse!Spec => []OnePlace` | `LockUseAssumption` |
| `VIsNotLost` | `LockUse!Spec => []NoLostWakeup` | `LockUseAssumption` |
| `LockRefinesMonitor` | `LockUse!Spec => ImplementsMonitor` | `LockUseAssumption` |
| `LockUseTypes` | `LockUse!Spec => []TypeOK` | `LockUseAssumption` |
| `NoFreedStack` | `LifeSpec => []NeverOnFreedStack` | `LifeAssumption` |
| `DeletionIsFinal` | `LifeSpec => OnlyFinishedDeleted` | `LifeAssumption` |
| `NeighboursApart` | `DiningSpec => []NeighboursNeverBothEat` | `DiningConstants` |
| `PickupIsEnough` | `DiningSpec => []PickupReturnsEating` | `DiningConstants` |
| `DiskOneRequest` | `SynchDiskSpec => []OneRequestAtATime` | `SynchDiskConstants` |
| `DiskImplementsStore` | `SynchDiskSpec => ImplementsStore` | `SynchDiskConstants` |
| `SynchListIsFifo` | `ListSpec => ImplementsFifo` | `SynchListAssumption` |
| `EveryItemHasTaker` | `ListSpec => []ItemHasTaker` | `SynchListAssumption` |
| `SendsOneAtATime` | `PostOffice!Spec => []OneSendAtATime` | `PostOfficeAssumption` |
| `PostOfficeRefines` | `PostOffice!Spec => RefinesMailService` | `PostOfficeAssumption` |
| `NobodyAborts` | `PostOffice!Spec => []NoAbort` | `PostOfficeAssumption`, programs that are `MailTest` or do not halt |
| `EchoesInOrder` | `ConsoleSpec => []EchoFaithful` | `ConsoleAssumption` |
| `InterruptsInTime` | `Interrupt!Spec => []NothingOverdue` | `InterruptAssumption` |
| `ModeIsRestored` | `Interrupt!Spec => []ModeRight` | `InterruptAssumption` |
| `HaltsWhenDone` | `Interrupt!Spec => []HaltMeansCompleted` | `InterruptAssumption` |
| `FilesStayIntact` | `FileSys!Spec => []FilesIntact` | `FileSysAssumption` |
| `NoSectorLost` | `FileSys!Spec => []FreeMapExact` | `FileSysAssumption`, `SmallFiles` |
| `FileSysImplementsStore` | `FileSys!Spec => StoreSpec` | `FileSysAssumption` |
| `OpenFileIsByteFile` | `FileSpec => ByteFileSpec` | `OpenFileConstants` |
| `LatencyIsPhysical` | `HeadSpec => []LatencyRight` | `DiskHeadAssumption` |
| `ContextsKept` | `ProcSpec => []ContextOwn` | `ProcessesAssumption` |
| `FramesStayAccounted` | `ProcSpec => []FramesAccounted` | `ProcessesAssumption` |
| `HandlesStaySound` | `ProcSpec => []HandlesSound` | `ProcessesAssumption` |
| `MemoryStaysIntact` | `VMSpec => []MemoryIntact` | `VirtualMemoryAssumption` |
| `FaultsAreServed` | `VMSpec => FaultServed` | `VirtualMemoryAssumption` |

`LockUseAssumption` says that the lock's semaphore starts at 1 and that the threads other than
the first are on the ready list once each; `SynchListAssumption` and `InterruptAssumption` say the latter
too, with producers, consumers and mappers different threads, and delays of at least one tick of which
the user's is not the longer. `DiningConstants` says that there are at least two philosophers, each
with a condition, and one lock; `SynchDiskConstants` that the lock and the semaphore are two objects. They
are premises of their theorems and not ASSUMEs, because the two programs share the constants of `Synch`
and each makes its own demands on them. `FileSysAssumption` has sizes that are natural numbers and one
entry of the directory across two sectors; headers and data are different things. `SmallFiles` says that
no file has more sectors than a header has pointers: without it `FreeMapExact` fails, which is the run
`file_size` seen from the free map. `OpenFileConstants` has a sector size of at least 1, headers whose
sectors are different ones and long enough for the file, and buffers as long as the longest file.
`DiskHeadAssumption` says that the geometry and the times of the disk are positive, `ConsoleAssumption` that the
input is finite. `PostOfficeAssumption` says that "no packet" is not a packet and that a program is a sequence of
operations in which a thread answers only after it has received something. `NobodyAborts` has as a premise what
`main.cc` runs: on every machine the main thread is in `MailTest` with the machine that has it for a partner
(`IsMailTest`), or no thread halts its machine (`NeverHalts`). `ProcessesAssumption` has programs larger than
their stack and within the map of frames, which covers the memory. `VirtualMemoryAssumption` has sizes
of at least 1, a stack smaller than its program and the two replacement algorithms that have code. The
others say that "no thread" is not a thread.

The argument is layered as the code is. `SynchProofs` proves of each scheduler routine what
it does to the blocked threads and that it keeps the ready list exact, and then that each operation
of `synch.cc`, the time slice and the idle loop preserve `SynchInv`; the lemmas `SemaphoreQueueChange`
and `ConditionQueueChange` isolate the one fact about several queues. The clients build on these.
Where a property counts a set (`NoLostWakeup`, `ItemHasTaker`) it says `Matched(n, S)`, that S has
a different member for each of 1..n; the lemmas `MatchedMore`, `MatchedAdd` and `MatchedDrop` say what one step does to it.

* **The lock** (`IInv`). `MutualExclusion` ties the value of the lock's semaphore to the existence of
  a holder; it is inductive with the types alone. That no thread is lost (`BlockedWait`) is not
  inductive: waking a thread that is on two queues would leave a running thread on one of them. It needs
  `WaitersApart` (only blocked threads are on wait queues, each on one and once), and this needs
  `ReadyExact` (the ready list is exactly the READY threads, without duplicates), since
  `ReadyToRun` appends without looking. The refinement needs both halves: `Enter` of the monitor
  requires that the thread is on no queue, which holds since it is running.
* **Wake-ups** (`WakeInv`). `V` adds a unit and wakes one thread, `P` takes a unit; a unit must keep a
  woken thread of its own while others wait. `WaitersAim` is what is missing: a thread on the queue of a
  semaphore will test that semaphore when it is woken, also when it sleeps in the `Acquire` at the
  end of `Condition::Wait`.
* **The life of a thread** (`LifeInv`). What is switched to must be alive, so every READY thread is; what is
  deleted must be finished, so `threadToBeDestroyed` names a finished thread or none. The two meet
  because the ready list is exact: a finished thread is not READY, hence not on it.
* **The philosophers** (`PhInv`). Two neighbours stay apart only if what `test` read is still true when it
  assigns. The invariant says that a thread about to let `j` eat has `CanEat(j)`; it is
  kept because only the thread inside the monitor changes a state (`Exclusive`). `pickup`
  needs that a waiter is Eating or still on its queue. When it runs again `SynchInv` says
  that it is on no queue, so it is Eating: the `if` around `Wait` is enough here.
  `NotYet` says that a philosopher not forked yet is on no list.
* **The disk** (`DInv`, `StoreInv`). At most one thread is between `Acquire` and `Release`; the interrupts to
  come and the units of the semaphore add up to 1 while a thread waits for its request, and else to 0.
  The refinement takes a call to happen at its request, and needs of each thread what it asked for and
  whether it has got it.
* **The list** (`ListInv`, `TakerInv`). A consumer that found the list empty is on the queue before anybody
  can append, because the lock is released inside `Wait`; a consumer that returns from `Wait` tests again.
  So whoever is at `List::Remove` holds the lock and the list is not empty, and the result is its first item, never NULL. For `ItemHasTaker` each item keeps a consumer that was signalled, or the
  producer about to signal: one who barges in takes an item and leaves a taker too many.
* **The post office** (`IInv`, `PInv`, `AbortInv`). The same sum as for the disk, for `messageSent`, on each machine, with the holder of
  `sendLock`. For the refinement the card and the worker must agree: `messageAvailable` is 1, or the worker
  is between its `P` and `Receive`, exactly while the card's buffer is full (`CardInv`), so that the worker never takes
  an empty buffer and the card never overwrites a full one; and a thread that answers has a letter
  (`LetterInv`). Each step then moves a packet from one part of `Pending` to the next without changing what the box
  and `Pending` together hold. `NoAbort` needs to know where the other machine is: every packet on a machine is from
  its partner, an acknowledgement only from a partner that has sent its own last packet (`TestInv`); who
  halts has received the acknowledgement, so nobody sends to it any more.
* **The console** (`EchoInv`). The characters read and not echoed, those that look like `EOF` apart, are the one in the
  buffer or none, and such a character has its unit of `readAvail` or the thread about to take it; a
  write is under way or announced exactly while the thread waits for it.
* **The disk head** (`HeadInv`). The track buffer was begun at the start of a sector, and no later than the request
  that moved the head is completed. The rest is arithmetic: `DivUnique` determines quotient and remainder, and the lemmas on it say at which
  times the head is at the start of a sector, which of them is the first after the arrival, and when one lies
  between two times.
* **The bytes of a file** (`FileTypes`). The types are enough; the work is in the operators. A position is a
  sector and an offset in one way only, the sectors of a header are different, and a write that begins or ends
  within a sector puts back what it read of it, so that the content changes exactly at the positions written.
* **Interrupts** (`IntInv`, four parts). *Time*: the list is sorted, so that the first element decides for all;
  a bound on how late it may be for each place of the CPU, since `OneTick` checks after the clock moved and
  `Idle` stops at the first. *Status*: each thread is inside one of five stacks of calls of `OneTick` (`Stacks`),
  whose outermost call tells user code from the kernel; a thread in user code that is switched away is inside
  one. *Halting*: every blocked thread has finished or has an interrupt of the disk on the list, and only one
  waits. *Scheduler*: in the idle loop nobody runs, and before `Idle` nobody is ready, so that all are blocked.
* **The files** (`FSInv`, `ExactInv`). Every file's sectors are marked and its own, also with respect to what
  the operation under way holds in memory and has not written; the name, once an entry is written half, is
  used by nobody. A crash keeps this because it holds between any two writes. The refinement takes
  `Create` at its last write and `Remove` at its first. Sectors are found by `AreFinds`, which says of
  the sectors that `Find` returns one after the other that each is the first free one.
* **The user programs** (`CInv`, `FrameInv`, `HInv`). A program that waits for the CPU has saved its registers;
  the machine has those of the running one. This needs that the ready list has no duplicate and not the
  running thread: a thread on it twice would be restored from registers saved before it last ran. Frames are
  marked as they are put into a table, also by the `Fork` that fails in the middle. An open
  handle's descriptor is open and nobody else's, since the host gives the lowest one that is free.
* **Virtual memory** (`MemInv`, `GoodInv`). While there is one program, pages that are loaded have
  frames of their own, a valid TLB entry says what the page table says, and the frame holds what was written;
  the access under way is the only one that can have a frame past the machine's. Restarts (`GoodInv`): second chance
  always has an element that fits the TLB, since the first frame given out is frame 0 and no element leaves the queue;
  this needs that pages and TLB entries have marked frames (`GoodPages`). `TurnedQueue` says where each element is
  after the queue has turned, and `Nearer` that one that fits comes nearer although the queue gets
  an element more. With least used the entry chosen is always one of the TLB.

Induction. A claim about a recursive function is proved by induction on the length of the sequence:
`LeastNat` has a smallest member for every nonempty set of naturals, from the well-foundedness of `<`, and `UpTo` follows for a
set of naturals that is closed under successor. That is how `SelectedAppend` and `SelectedTail` are obtained. The induction
theorems of the library take an operator as a parameter and cannot be used.

Only model-checked: the liveness properties (`ReadyThreadRuns`, `AllFinish`, `DiskWakes`, `TimerSlices`,
`ReliableMail`, `QuitEnds`, `ForkedRuns`), since the prover has no support for fairness; and what the MIPS interpreters and
the loaders compute (`RefinesExecute`, `ArithmeticExact`, `ImageRight`), since the modules rest on operators
the prover cannot reason about: bitwise operations, and recursive ones on files of sections.

## Not modelled

* **The swap area** (`userprog/memoryswap.h`, `AddrSpace::swap`, `loadFromSwap` and the swapping arm of
  `getPhysicalPage`). Frames come from a bitmap of twice the machine's frames and are never given
  back, so the simulator stops with a bus error on a frame the machine does not have before the
  bitmap is full and the first page is swapped; `ReadWriteMem` ends where no frame is left.
* **`~AddrSpace`** and `NachosOpenFilesTable::delThread`: no address space is ever deleted.
* **Replacement algorithm 0** of the inverted page table: `threads/system.cc` selects 1, and 0 has no code that chooses an
  entry.
* **Concurrent callers of the file system**, which its comments exclude.
* **Reads past an array**: `FileHeader::Deallocate` for a file of more sectors than `NumDirect` (`filehdr.cc:64-67`;
  such files are the subject of `file_size`, and the model frees the sectors the file was given), and
  `getUnixHandle` of a handle equal to the size of the table (`openfilestable.cc:74`).
* **The ptrace monitor** of `threads/preemptive.cc`: its effect, a yield wherever interrupts are enabled, is
  `TimeSlice`; a switch in the middle of a list operation is below the steps of the models.
* **The host**: `machine/sysdep.cc` wraps system calls; only the assertions on those that can fail are
  modelled, where they are called.
* **Start-up**: argument parsing and the order of the constructors in `threads/system.cc`.
* **What only prints**: the disassembler and the dump tools in `bin/`, `Print` and `List`, debugging output, the
  single-step debugger, `Statistics`; and `filesys/fstest.cc`, a sequential benchmark whose calls
  `FileSys` and `OpenFile` take in every order.
* **`Mutex` and `Barrier`** in `synch.cc`, which have empty methods.
