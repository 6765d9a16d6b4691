------------------------------ MODULE SynchDisk ------------------------------
(***************************************************************************)
(* The synchronous disk (filesys/synchdisk.cc) over the simulated disk     *)
(* (machine/disk.cc): threads that call ReadSector and WriteSector, and    *)
(* the disk's completion interrupt.  The disk does the transfer at once    *)
(* and schedules the interrupt for later; when it comes is left open here  *)
(* (the latency is a function of the head position, see DiskHead).         *)
(***************************************************************************)
EXTENDS Synch

CONSTANTS
  Sectors,      \* sector numbers
  Data,         \* what a sector may hold
  None,         \* no data
  MaxCalls,     \* bound on the calls each thread makes
  FirstThread,  \* the thread that runs first
  OtherThreads, \* the other threads that call, in ready-list order
  lock,         \* SynchDisk::lock
  semaphore     \* SynchDisk::semaphore

Requests == [write : {TRUE}, sector : Sectors, data : Data]
              \cup [write : {FALSE}, sector : Sectors, data : {None}]

\* How the constants are related.
SynchDiskConstants ==
  /\ FirstThread \in Threads
  /\ OtherThreads \in Seq(Threads)
  /\ lock # semaphore
  /\ {lock, semaphore} \subseteq Semaphores
  /\ None \notin Data \cup Requests
  /\ MaxCalls \in Nat

VARIABLES
  contents,  \* the UNIX file behind the disk
  active,    \* Disk::active
  pending,   \* number of DiskDone interrupts scheduled and not yet taken
  request,   \* the arguments of the call each thread is in
  data,      \* the caller's buffer, once the transfer is done
  calls      \* number of calls each thread has made

diskVars == <<contents, active, pending>>

synchDiskVars == <<sched, sem, hilos, asleep, pc, contents, active, pending, request, data, calls>>

\* "out": not in a call; "acquire", "request", "wait", "release": about to do
\* the first, second, third and last line of ReadSector or WriteSector.
CallerLabels == {"out", "acquire", "request", "wait", "release", "done"}

SynchDiskTypeOK ==
  /\ SynchTypeOK
  /\ pc \in [Threads -> CallerLabels]
  /\ contents \in [Sectors -> Data]
  /\ active \in BOOLEAN
  /\ pending \in Nat
  /\ request \in [Threads -> Requests \cup {None}]
  /\ data \in [Threads -> Data \cup {None}]
  /\ calls \in [Threads -> 0..MaxCalls]

DiskInit ==
  /\ contents \in [Sectors -> Data]
  /\ active = FALSE
  /\ pending = 0
  /\ request = [t \in Threads |-> None]
  /\ data = [t \in Threads |-> None]
  /\ calls = [t \in Threads |-> 0]

SynchDiskInit ==
  /\ SynchInit(FirstThread, OtherThreads,
               [s \in Semaphores |-> IF s = lock THEN 1 ELSE 0])
  /\ pc = [t \in Threads |-> "out"]
  /\ DiskInit
-----------------------------------------------------------------------------
\* A thread calls ReadSector or WriteSector.
Call(t) ==
  /\ At(t, "out")
  /\ calls[t] < MaxCalls
  /\ \E r \in Requests : request' = [request EXCEPT ![t] = r]
  /\ calls' = [calls EXCEPT ![t] = @ + 1]
  /\ Goto(t, "acquire")
  /\ UNCHANGED <<sched, sem, hilos, asleep, diskVars, data>>

FinishCaller(t) ==
  /\ At(t, "out")
  /\ calls[t] = MaxCalls
  /\ sched' = Sleep(sched)
  /\ Goto(t, "done")
  /\ UNCHANGED <<sem, hilos, asleep, diskVars, request, data, calls>>

\* Mutant of Acquire: no lock around the request.
AcquireNothing(t) ==
  /\ At(t, "acquire")
  /\ Goto(t, "request")
  /\ UNCHANGED <<sched, sem, hilos, asleep, diskVars, request, data, calls>>

\* lock->Acquire().
Acquire(t) ==
  /\ At(t, "acquire") \/ BackAt(t, "acquire")
  /\ P(t, lock, "request")
  /\ UNCHANGED <<hilos, diskVars, request, data, calls>>

\* Mutant of Request: a write is not transferred.
RequestWithoutTransfer(t) ==
  /\ At(t, "request")
  /\ data' = [data EXCEPT ![t] = contents[request[t].sector]]
  /\ active' = TRUE
  /\ pending' = pending + 1
  /\ Goto(t, "wait")
  /\ UNCHANGED <<sched, sem, hilos, asleep, contents, request, calls>>

\* Disk::ReadRequest and Disk::WriteRequest: the transfer, and the interrupt.
Request(t) ==
  LET r == request[t] IN
  /\ At(t, "request")
  /\ contents' = IF r.write THEN [contents EXCEPT ![r.sector] = r.data] ELSE contents
  /\ data' = [data EXCEPT ![t] = contents'[r.sector]]
  /\ active' = TRUE
  /\ pending' = pending + 1
  /\ Goto(t, "wait")
  /\ UNCHANGED <<sched, sem, hilos, asleep, request, calls>>

\* semaphore->P().
WaitDone(t) ==
  /\ At(t, "wait") \/ BackAt(t, "wait")
  /\ P(t, semaphore, "release")
  /\ UNCHANGED <<hilos, diskVars, request, data, calls>>

\* lock->Release(), and return.
Release(t) ==
  /\ At(t, "release")
  /\ V(lock)
  /\ request' = [request EXCEPT ![t] = None]
  /\ data' = [data EXCEPT ![t] = None]
  /\ Goto(t, "out")
  /\ UNCHANGED <<hilos, asleep, diskVars, calls>>

\* DiskDone: Disk::HandleInterrupt, then SynchDisk::RequestDone.
DiskInterrupt ==
  /\ HandlerMayRun
  /\ pending > 0
  /\ pending' = pending - 1
  /\ active' = FALSE
  /\ V(semaphore)
  /\ UNCHANGED <<hilos, asleep, pc, contents, request, data, calls>>

ThreadStep(t) ==
  Call(t) \/ Acquire(t) \/ Request(t) \/ WaitDone(t) \/ Release(t) \/ FinishCaller(t)

\* No thread is ready and no interrupt pending: the machine halts.
DiskHalted == NothingReady /\ pending = 0 /\ UNCHANGED synchDiskVars

IdleGoesOn == IdleReturn /\ UNCHANGED <<diskVars, request, data, calls>>

SynchDiskNext ==
  \/ \E t \in Threads : ThreadStep(t)
  \/ DiskInterrupt
  \/ TimeSlice /\ UNCHANGED <<diskVars, request, data, calls>>
  \/ IdleGoesOn
  \/ DiskHalted

SynchDiskSpec == SynchDiskInit /\ [][SynchDiskNext]_synchDiskVars
-----------------------------------------------------------------------------
\* Every call has returned: all threads have made their calls and finished.
DiskFinished == \A t \in {FirstThread} \cup On(OtherThreads) : pc[t] = "done"

\* ASSERT(!active) of Disk::ReadRequest and WriteRequest never fails, and at
\* most one completion interrupt is scheduled (disk.cc:120, 140).
OneRequestAtATime ==
  /\ \A t \in Threads : pc[t] = "request" => ~active
  /\ active <=> pending = 1
  /\ pending <= 1

\* SynchDisk implements the store of sectors with indivisible reads and writes.
S == INSTANCE SectorStore WITH
       call  <- request,
       reply <- data

ImplementsStore == S!Spec
=============================================================================
