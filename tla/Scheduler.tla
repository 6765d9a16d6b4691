----------------------------- MODULE Scheduler -----------------------------
(***************************************************************************)
(* The CPU scheduler of threads/scheduler.cc and the context switches of   *)
(* threads/thread.cc, as functions from scheduler states to scheduler      *)
(* states.  NachOS simulates a uniprocessor: every one of these operations *)
(* runs with interrupts disabled, so each is one indivisible change and a  *)
(* kernel step is a composition of them.                                   *)
(*                                                                         *)
(* A scheduler state s is a record:                                        *)
(*   s.currentThread  the global currentThread of threads/system.cc        *)
(*   s.readyList      Scheduler::readyList, a FIFO list                    *)
(*   s.status         Thread::status of every thread                       *)
(***************************************************************************)
EXTENDS Naturals, Sequences

CONSTANT Threads    \* the Thread objects

Status == {"JUST_CREATED", "RUNNING", "READY", "BLOCKED"}

SchedulerState ==
  [currentThread : Threads, readyList : Seq(Threads), status : [Threads -> Status]]

\* Mutant of ReadyToRun: the thread goes to the front of the list.
ReadyToRunFront(s, t) ==
  [s EXCEPT !.readyList = <<t>> \o @, !.status[t] = "READY"]

\* Scheduler::ReadyToRun: mark t READY and append it to the ready list.
ReadyToRun(s, t) ==
  [s EXCEPT !.readyList = Append(@, t), !.status[t] = "READY"]

\* Scheduler::FindNextToRun followed by Scheduler::Run, for a ready list that
\* is not empty: the first ready thread becomes the current, RUNNING one.
Run(s) ==
  [s EXCEPT !.currentThread = Head(s.readyList),
            !.readyList = Tail(@),
            !.status[Head(s.readyList)] = "RUNNING"]

\* Thread::Yield: give up the CPU only if some other thread is ready.
Yield(s) ==
  IF s.readyList = << >> THEN s ELSE Run(ReadyToRun(s, s.currentThread))

\* Thread::Sleep up to its loop: block the current thread and switch to the
\* first ready thread.  With no ready thread the CPU stays in the loop, idle,
\* on the stack of the thread that went to sleep.
Sleep(s) ==
  LET b == [s EXCEPT !.status[s.currentThread] = "BLOCKED"]
  IN  IF b.readyList = << >> THEN b ELSE Run(b)

\* The CPU is in the loop of Thread::Sleep, calling Interrupt::Idle: the
\* current thread has blocked (or was already made ready again by a handler).
Idling(s) == s.status[s.currentThread] # "RUNNING"

\* Thread t is the one executing instructions.
Executing(s, t) == s.currentThread = t /\ s.status[t] = "RUNNING"

\* Wake the first thread of a wait queue, if any (the Remove and ReadyToRun of
\* Semaphore::V and Condition::Signal); DropFirst is what Remove leaves.
WakeFirst(s, queue) == IF queue = << >> THEN s ELSE ReadyToRun(s, Head(queue))

DropFirst(queue) == IF queue = << >> THEN queue ELSE Tail(queue)

\* Wake every thread of a wait queue in order (the loops of
\* Semaphore::Destroy and Condition::Broadcast).
WakeAll(s, queue) ==
  [s EXCEPT !.readyList = @ \o queue,
            !.status = [t \in Threads |->
                          IF \E i \in 1..Len(queue) : queue[i] = t
                          THEN "READY" ELSE s.status[t]]]

\* The threads of a list, and that none is on it twice.
On(list) == {list[i] : i \in 1..Len(list)}

NoDuplicates(list) ==
  \A i, j \in 1..Len(list) : i # j => list[i] # list[j]

\* The ready list holds every READY thread once and nothing else, and only the
\* current thread is RUNNING.
ReadyExact(s) ==
  /\ NoDuplicates(s.readyList)
  /\ On(s.readyList) = {t \in Threads : s.status[t] = "READY"}
  /\ \A t \in Threads : s.status[t] = "RUNNING" => t = s.currentThread

Blocked(s) == {t \in Threads : s.status[t] = "BLOCKED"}
=============================================================================
