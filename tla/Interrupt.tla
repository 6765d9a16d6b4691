----------------------------- MODULE Interrupt -----------------------------
(***************************************************************************)
(* The simulated interrupt hardware of machine/interrupt.cc: the level,    *)
(* the machine status, the clock and the list of pending interrupts, with  *)
(* the timer, a disk and a console that polls, under threads that run user *)
(* instructions, enter the kernel, wait for the disk and finish.           *)
(*                                                                         *)
(* Time is kept relative to now: e.when is when - stats->totalTicks, and   *)
(* the clock advances by making every pending interrupt nearer.            *)
(***************************************************************************)
EXTENDS Integers, Scheduler

CONSTANTS
  FirstThread,
  OtherThreads,   \* the threads that main forks, in order
  UserTick, SystemTick,
  TimerDelays,    \* the values of TimeOfNextInterrupt
  DiskDelays,     \* the values of ComputeLatency
  ConsoleTime

ASSUME InterruptAssumption ==
  /\ FirstThread \in Threads
  /\ OtherThreads \in Seq(Threads)
  /\ On(OtherThreads) = Threads \ {FirstThread} /\ NoDuplicates(OtherThreads)
  /\ {UserTick, SystemTick, ConsoleTime} \cup TimerDelays \cup DiskDelays \subseteq Nat \ {0}
  /\ UserTick <= SystemTick

IntTypes == {"TimerInt", "DiskInt", "ConsoleReadInt"}

VARIABLES
  level,           \* IntOn or IntOff
  status,          \* MachineStatus
  pending,         \* PendingInterrupts, in the order of the list
  yieldOnReturn,
  at,              \* where the CPU is: see CPU below
  scheduler,       \* the scheduler state
  doing,           \* what each thread is doing, apart from the calls in frames
  frames,          \* the calls of OneTick that each thread is inside of
  value            \* the semaphore that RequestDone signals

vars == <<level, status, pending, yieldOnReturn, at, scheduler, doing, frames, value>>

(* run     the current thread executes                                      *)
(* check   in the loop of OneTick                                           *)
(* return  OneTick returns to its caller                                    *)
(* resume  a thread continues in Yield, Sleep or ThreadRoot, interrupts off *)
(* idle    at the call of Idle in Thread::Sleep                             *)
(* idling  in the loop of Idle                                              *)
CPU == {"run", "check", "return", "resume", "idle", "idling", "halted"}

Current == scheduler.currentThread

\* A call of OneTick: from Machine::Run, from a SetLevel in the kernel, or from
\* the SetLevel at the end of a Yield that OneTick itself called; and its local
\* variable old.
Frame == [caller : {"instruction", "kernel", "yield"}, old : {"SystemMode", "UserMode"}]

TypeOK ==
  /\ level \in {"IntOn", "IntOff"}
  /\ status \in {"IdleMode", "SystemMode", "UserMode"}
  /\ pending \in Seq([type : IntTypes, when : Int])
  /\ yieldOnReturn \in BOOLEAN
  /\ at \in CPU
  /\ scheduler \in SchedulerState
  /\ doing \in [Threads -> {"start", "user", "kernel", "requested", "done"}]
  /\ frames \in [Threads -> Seq(Frame)]
  /\ value \in {0, 1}
-----------------------------------------------------------------------------
\* The list q with e at position i.
InsertAt(q, i, e) ==
  [j \in 1..(Len(q) + 1) |-> IF j < i THEN q[j] ELSE IF j = i THEN e ELSE q[j - 1]]

\* List::SortedInsert puts e before the first element with a greater key: the
\* set of the lists of which that is true, which has one element.
SortedInsert(q, e) ==
  {InsertAt(q, i, e) : i \in {p \in 1..(Len(q) + 1) :
                                /\ \A j \in 1..(p - 1) : q[j].when <= e.when
                                /\ p <= Len(q) => e.when < q[p].when}}

\* Interrupt::Schedule: the list with a new interrupt.
Schedule(q, type, fromNow) == SortedInsert(q, [type |-> type, when |-> fromNow])

\* The clock advances by ticks.
After(q, ticks) == [i \in DOMAIN q |-> [q[i] EXCEPT !.when = @ - ticks]]

\* Initialize, with any of the devices that start polling by themselves.
Init ==
  /\ level = "IntOn" /\ status = "SystemMode"
  /\ \E timer \in BOOLEAN, console \in BOOLEAN, d \in TimerDelays :
       \E q \in IF timer THEN Schedule(<< >>, "TimerInt", d) ELSE {<< >>} :
         pending \in IF console THEN Schedule(q, "ConsoleReadInt", ConsoleTime) ELSE {q}
  /\ yieldOnReturn = FALSE
  /\ at = "run"
  /\ scheduler = [currentThread |-> FirstThread, readyList |-> OtherThreads,
              status |-> [t \in Threads |-> IF t = FirstThread THEN "RUNNING" ELSE "READY"]]
  /\ doing = [t \in Threads |-> "start"]
  /\ frames = [t \in Threads |-> << >>]
  /\ value = 0
-----------------------------------------------------------------------------
\* The calls of OneTick around the innermost one, and that one.
Outer(q) == SubSeq(q, 1, Len(q) - 1)
Innermost(q) == q[Len(q)]

\* A call f of OneTick inside those of q.  Calls of the same kind directly inside
\* each other are kept once: they return alike.
Nest(q, f) == IF q # << >> /\ Innermost(q) = f THEN q ELSE Append(q, f)

\* Mutant of OneTick: user instructions take no time.
OneTickUserFree(caller, s) ==
  /\ status' = s
  /\ pending' = After(pending, IF s = "SystemMode" THEN SystemTick ELSE 0)
  /\ level' = "IntOff"
  /\ frames' = [frames EXCEPT ![Current] = Nest(@, [caller |-> caller, old |-> s])]
  /\ at' = "check"

\* Interrupt::OneTick up to its loop, called with the machine in status s.
OneTick(caller, s) ==
  /\ status' = s
  /\ pending' = After(pending, IF s = "SystemMode" THEN SystemTick ELSE UserTick)
  /\ level' = "IntOff"
  /\ frames' = [frames EXCEPT ![Current] = Nest(@, [caller |-> caller, old |-> s])]
  /\ at' = "check"

\* Thread::Sleep: to the next ready thread, or to Idle.
SleepCurrent ==
  /\ scheduler' = Sleep(scheduler)
  /\ level' = "IntOff"
  /\ at' = IF scheduler.readyList = << >> THEN "idle" ELSE "resume"

Running(p) == at = "run" /\ doing[Current] = p

\* Machine::Run starts the user program.
StartUser ==
  /\ Running("start")
  /\ doing' = [doing EXCEPT ![Current] = "user"]
  /\ status' = "UserMode"
  /\ UNCHANGED <<level, pending, yieldOnReturn, at, scheduler, frames, value>>

\* Machine::Run: an instruction without exception.
Instruction ==
  /\ Running("user")
  /\ OneTick("instruction", status)
  /\ UNCHANGED <<yieldOnReturn, scheduler, doing, value>>

\* Machine::RaiseException up to ExceptionHandler.
RaiseException ==
  /\ Running("user")
  /\ doing' = [doing EXCEPT ![Current] = "kernel"]
  /\ status' = "SystemMode"
  /\ UNCHANGED <<level, pending, yieldOnReturn, at, scheduler, frames, value>>

\* ExceptionHandler returns: the rest of RaiseException, and of Machine::Run.
ExceptionReturn ==
  /\ Running("kernel")
  /\ doing' = [doing EXCEPT ![Current] = "user"]
  /\ OneTick("instruction", "UserMode")
  /\ UNCHANGED <<yieldOnReturn, scheduler, value>>

\* A piece of the kernel that disables interrupts and enables them again.
CriticalSection ==
  /\ Running("kernel")
  /\ OneTick("kernel", status)
  /\ UNCHANGED <<yieldOnReturn, scheduler, doing, value>>

\* Thread::Yield called by the kernel.
KernelYield ==
  /\ Running("kernel")
  /\ scheduler' = Yield(scheduler)
  /\ level' = "IntOff"
  /\ at' = "resume"
  /\ UNCHANGED <<status, pending, yieldOnReturn, doing, frames, value>>

\* Disk::ReadRequest or WriteRequest, when the disk is not active.
DiskRequest ==
  /\ Running("kernel")
  /\ \A t \in Threads : doing[t] # "requested"
  /\ \E ticks \in DiskDelays : pending' \in Schedule(pending, "DiskInt", ticks)
  /\ doing' = [doing EXCEPT ![Current] = "requested"]
  /\ UNCHANGED <<level, status, yieldOnReturn, at, scheduler, frames, value>>

\* Semaphore::P after the request.  The clock stands still in between, so the
\* interrupt has not come yet, and P sleeps.
WaitForDisk ==
  /\ Running("requested")
  /\ value = 0
  /\ SleepCurrent
  /\ UNCHANGED <<status, pending, yieldOnReturn, doing, frames, value>>

\* Thread::Finish.
Finish ==
  /\ Running("kernel")
  /\ doing' = [doing EXCEPT ![Current] = "done"]
  /\ SleepCurrent
  /\ UNCHANGED <<status, pending, yieldOnReturn, frames, value>>

\* A thread that was switched to: it goes on in the Yield or the P it called, or
\* starts in ThreadRoot, and enables interrupts.
Resume ==
  /\ at = "resume"
  /\ OneTick(IF frames[Current] # << >> THEN "yield" ELSE "kernel", status)
  /\ IF doing[Current] = "requested"
       THEN value' = value - 1 /\ doing' = [doing EXCEPT ![Current] = "kernel"]
       ELSE UNCHANGED <<value, doing>>
  /\ UNCHANGED <<yieldOnReturn, scheduler>>
-----------------------------------------------------------------------------
\* Mutant of TimerExpired: the handler does not ask for a yield.
TimerWithoutYield(q) ==
  /\ \E d \in TimerDelays : pending' \in Schedule(q, "TimerInt", d)
  /\ UNCHANGED <<yieldOnReturn, scheduler, value>>

\* The handlers, with interrupts off, on the list q without the interrupt that
\* is due.  CheckIfDue has set the status to SystemMode, so the test of
\* TimerInterruptHandler always asks for the yield.
TimerExpired(q) ==
  /\ \E d \in TimerDelays : pending' \in Schedule(q, "TimerInt", d)
  /\ yieldOnReturn' = TRUE
  /\ UNCHANGED <<scheduler, value>>

DiskDone(q) ==
  /\ pending' = q
  /\ scheduler' = IF \E t \in Threads : doing[t] = "requested" /\ scheduler.status[t] = "BLOCKED"
                THEN ReadyToRun(scheduler, CHOOSE t \in Threads : doing[t] = "requested")
                ELSE scheduler
  /\ value' = value + 1
  /\ UNCHANGED yieldOnReturn

\* Console::CheckCharAvail, when no character is there.
ConsolePoll(q) ==
  /\ pending' \in Schedule(q, "ConsoleReadInt", ConsoleTime)
  /\ UNCHANGED <<scheduler, value, yieldOnReturn>>

\* CheckIfDue takes the first interrupt of q off the list and calls its handler.
Fire(q) ==
  CASE Head(q).type = "TimerInt"       -> TimerExpired(Tail(q))
    [] Head(q).type = "DiskInt"        -> DiskDone(Tail(q))
    [] Head(q).type = "ConsoleReadInt" -> ConsolePoll(Tail(q))

\* "Check if there is nothing more to do, and if so, quit": the machine is idle
\* and only the timer is on the list.
OnlyTimer(q) == status = "IdleMode" /\ Len(q) = 1 /\ Head(q).type = "TimerInt"

\* Mutant of IsDue: an interrupt fires only when its time is over.
IsDueLate == pending # << >> /\ Head(pending).when < 0 /\ ~OnlyTimer(pending)

\* CheckIfDue(false) returns true.
IsDue == pending # << >> /\ Head(pending).when <= 0 /\ ~OnlyTimer(pending)

\* The loop of OneTick.
CheckIfDue ==
  /\ at = "check"
  /\ IsDue
  /\ Fire(pending)
  /\ UNCHANGED <<level, status, at, doing, frames>>

\* The end of the loop: OneTick returns, or does the yield it was asked for.
TickOver ==
  /\ at = "check"
  /\ ~IsDue
  /\ ~yieldOnReturn
  /\ level' = "IntOn"
  /\ at' = "return"
  /\ UNCHANGED <<status, pending, yieldOnReturn, scheduler, doing, frames, value>>

TickYields ==
  /\ at = "check"
  /\ ~IsDue
  /\ yieldOnReturn
  /\ yieldOnReturn' = FALSE
  /\ status' = "SystemMode"
  /\ scheduler' = Yield(scheduler)
  /\ at' = "resume"
  /\ UNCHANGED <<level, pending, doing, frames, value>>

\* Mutant of TickReturn: OneTick does not restore the status after its yield.
TickReturnKeepsStatus ==
  LET f == Innermost(frames[Current])
      outer == Outer(frames[Current])
  IN
  /\ at = "return"
  /\ frames' = [frames EXCEPT ![Current] = outer]
  /\ at' = IF f.caller = "yield" THEN at ELSE "run"
  /\ UNCHANGED <<status, level, pending, yieldOnReturn, scheduler, doing, value>>

\* The innermost OneTick returns to its caller.  When that is the Yield of
\* another OneTick, this one restores its status and returns in turn.
TickReturn ==
  LET f == Innermost(frames[Current])
      outer == Outer(frames[Current])
  IN
  /\ at = "return"
  /\ frames' = [frames EXCEPT ![Current] = outer]
  /\ IF f.caller = "yield"
       THEN status' = Innermost(outer).old /\ UNCHANGED at
       ELSE at' = "run" /\ UNCHANGED status
  /\ UNCHANGED <<level, pending, yieldOnReturn, scheduler, doing, value>>

\* Mutant of Idle: it stops when the timer is first, whatever comes after it.
IdleStopsAtTimer ==
  /\ at = "idle"
  /\ status' = "IdleMode"
  /\ IF pending = << >>
       THEN at' = "halted" /\ UNCHANGED <<pending, yieldOnReturn, scheduler, value>>
       ELSE LET when == Head(pending).when
                q == After(pending, IF when > 0 THEN when ELSE 0)
            IN  IF Head(q).type = "TimerInt"
                  THEN at' = "halted" /\ pending' = q /\ UNCHANGED <<yieldOnReturn, scheduler, value>>
                  ELSE at' = "idling" /\ Fire(q)
  /\ UNCHANGED <<level, doing, frames>>

\* Idle: the clock advances to the first interrupt, or the machine halts.
Idle ==
  /\ at = "idle"
  /\ status' = "IdleMode"
  /\ IF pending = << >>
       THEN at' = "halted" /\ UNCHANGED <<pending, yieldOnReturn, scheduler, value>>
       ELSE LET when == Head(pending).when
                q == After(pending, IF when > 0 THEN when ELSE 0)
            IN  IF Len(q) = 1 /\ Head(q).type = "TimerInt"
                  THEN at' = "halted" /\ pending' = q /\ UNCHANGED <<yieldOnReturn, scheduler, value>>
                  ELSE at' = "idling" /\ Fire(q)
  /\ UNCHANGED <<level, doing, frames>>

\* The loop of Idle.
IdleCheckIfDue ==
  /\ at = "idling"
  /\ IsDue
  /\ Fire(pending)
  /\ UNCHANGED <<level, status, at, doing, frames>>

\* Idle returns to the loop of Thread::Sleep.
IdleEnds ==
  /\ at = "idling"
  /\ ~IsDue
  /\ yieldOnReturn' = FALSE
  /\ status' = "SystemMode"
  /\ IF scheduler.readyList = << >>
       THEN at' = "idle" /\ UNCHANGED scheduler
       ELSE at' = "resume" /\ scheduler' = Run(scheduler)
  /\ UNCHANGED <<level, pending, doing, frames, value>>

\* Halt does not return.
Halted == at = "halted" /\ UNCHANGED vars

Next ==
  \/ StartUser \/ Instruction \/ RaiseException \/ ExceptionReturn
  \/ CriticalSection \/ KernelYield \/ DiskRequest \/ WaitForDisk \/ Finish
  \/ Resume \/ CheckIfDue \/ TickOver \/ TickYields \/ TickReturn
  \/ Idle \/ IdleCheckIfDue \/ IdleEnds \/ Halted

Spec == Init /\ [][Next]_vars

\* The CPU always executes something.
FairSpec == Spec /\ WF_vars(Next)
-----------------------------------------------------------------------------
\* While a thread executes, no interrupt is overdue, and none is ever more than
\* one tick late: a OneTick, or Idle, follows every change of the clock, and
\* every return to a thread that Idle has kept waiting.
NothingOverdue ==
  \A i \in DOMAIN pending :
    /\ at = "run" => pending[i].when > 0
    /\ pending[i].when >= -SystemTick

\* User instructions are executed in UserMode with interrupts enabled and the
\* kernel's code in SystemMode, whoever ran before and however deep the yields
\* of OneTick were nested; and every switch is made in SystemMode.
ModeRight ==
  /\ at = "run" =>
       /\ status = (IF doing[Current] = "user" THEN "UserMode" ELSE "SystemMode")
       /\ level = "IntOn"
       /\ frames[Current] = << >>
  /\ at = "resume" => status = "SystemMode" /\ level = "IntOff"

\* "Assuming the program completed": the machine halts by itself only when every
\* thread has finished and no device but the timer has anything to do.
HaltMeansCompleted ==
  at = "halted" =>
    /\ \A t \in Threads : doing[t] = "done"
    /\ \A i \in DOMAIN pending : pending[i].type = "TimerInt"

\* A thread that waits for the disk is made ready again: simulated time gets to
\* the interrupt, through the ticks of the other threads or in the idle loop.
DiskWakes ==
  \A t \in Threads :
    (doing[t] = "requested" /\ scheduler.status[t] = "BLOCKED") ~> scheduler.status[t] = "READY"

\* With the timer running, a thread that is ready gets the CPU, even if the others
\* only execute user instructions.
TimerSlices ==
  \A t \in Threads :
    (scheduler.status[t] = "READY" /\ \E i \in DOMAIN pending : pending[i].type = "TimerInt")
      ~> scheduler.currentThread = t
=============================================================================
