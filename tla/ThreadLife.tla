----------------------------- MODULE ThreadLife -----------------------------
(***************************************************************************)
(* The life of kernel threads (threads/thread.cc, threads/scheduler.cc):   *)
(* construction, Fork, Yield, Sleep, wake-up, Finish, and the deferred     *)
(* deletion of the finished thread by the next thread that returns from    *)
(* SWITCH.  Wake-ups come from whatever synchronization object a thread    *)
(* sleeps on (modelled in Synch) and are left open here.                   *)
(***************************************************************************)
EXTENDS Scheduler

CONSTANTS
  MainThread,   \* the thread Initialize() makes out of the running program
  NoThread      \* the pointer NULL

ASSUME LifeAssumption == MainThread \in Threads /\ NoThread \notin Threads

VARIABLES
  scheduler,            \* the scheduler state, see Scheduler
  object,               \* what has become of each Thread object
  threadToBeDestroyed   \* the global of that name, a thread or NULL

lifeVars == <<scheduler, object, threadToBeDestroyed>>

\* "none": not allocated (never constructed, or deleted); "new": constructed
\* but not forked; "fresh": forked, SWITCH enters it at ThreadRoot; "started":
\* it has run, SWITCH returns inside its own call of Scheduler::Run;
\* "finished": it has called Finish.
Objects == {"none", "new", "fresh", "started", "finished"}

LifeTypeOK ==
  /\ scheduler \in SchedulerState
  /\ object \in [Threads -> Objects]
  /\ threadToBeDestroyed \in Threads \cup {NoThread}

LifeInit ==
  /\ scheduler = [currentThread |-> MainThread, readyList |-> << >>,
              status |-> [t \in Threads |->
                            IF t = MainThread THEN "RUNNING" ELSE "JUST_CREATED"]]
  /\ object = [t \in Threads |-> IF t = MainThread THEN "started" ELSE "none"]
  /\ threadToBeDestroyed = NoThread
-----------------------------------------------------------------------------
\* Mutant of AfterSwitch: the pointer is not reset after the delete.
AfterSwitchKeepsPointer(next, obj, carcass) ==
  /\ object' = [t \in Threads |->
                  CASE obj[next] = "fresh" /\ t = next -> "started"
                    [] obj[next] # "fresh" /\ t = carcass -> "none"
                    [] OTHER -> obj[t]]
  /\ threadToBeDestroyed' = carcass

\* What the code after SWITCH does in Scheduler::Run, once `next` is current:
\* a thread resumed inside Run deletes the carcass, a fresh thread does not
\* pass there (it starts in ThreadRoot).  carcass is threadToBeDestroyed and
\* obj the objects as they are when SWITCH is called.
AfterSwitch(next, obj, carcass) ==
  IF obj[next] = "fresh"
  THEN /\ object' = [obj EXCEPT ![next] = "started"]
       /\ threadToBeDestroyed' = carcass
  ELSE /\ object' = [t \in Threads |-> IF t = carcass THEN "none" ELSE obj[t]]
       /\ threadToBeDestroyed' = NoThread

\* Thread::Thread, called by the executing thread.
Construct(t) ==
  /\ ~Idling(scheduler)
  /\ object[t] = "none"
  /\ object' = [object EXCEPT ![t] = "new"]
  /\ scheduler' = [scheduler EXCEPT !.status[t] = "JUST_CREATED"]
  /\ UNCHANGED threadToBeDestroyed

\* Thread::Fork, called by the executing thread.
Fork(t) ==
  /\ ~Idling(scheduler)
  /\ object[t] = "new"
  /\ object' = [object EXCEPT ![t] = "fresh"]
  /\ scheduler' = ReadyToRun(scheduler, t)
  /\ UNCHANGED threadToBeDestroyed

\* Thread::Yield, called by the thread itself or by OneTick for the timer.
\* It returns at once when no other thread is ready.
ThreadYield ==
  /\ ~Idling(scheduler)
  /\ scheduler.readyList # << >>
  /\ scheduler' = Yield(scheduler)
  /\ AfterSwitch(Head(scheduler.readyList), object, threadToBeDestroyed)

\* Thread::Sleep called by a synchronization routine of the executing thread;
\* the switch is part of the step when a thread is ready.
ThreadSleep ==
  /\ ~Idling(scheduler)
  /\ scheduler' = Sleep(scheduler)
  /\ IF scheduler.readyList = << >>
     THEN UNCHANGED <<object, threadToBeDestroyed>>
     ELSE AfterSwitch(Head(scheduler.readyList), object, threadToBeDestroyed)

\* Mutant of Finish: the thread deletes itself before it goes to sleep.
FinishDeletesItself ==
  LET t == scheduler.currentThread
      obj == [object EXCEPT ![t] = "none"]
  IN  /\ ~Idling(scheduler)
      /\ scheduler' = Sleep(scheduler)
      /\ IF scheduler.readyList = << >>
         THEN object' = obj /\ UNCHANGED threadToBeDestroyed
         ELSE AfterSwitch(Head(scheduler.readyList), obj, threadToBeDestroyed)

\* Thread::Finish: remember the carcass, then Sleep for ever.
Finish ==
  LET t == scheduler.currentThread
      obj == [object EXCEPT ![t] = "finished"]
  IN  /\ ~Idling(scheduler)
      /\ scheduler' = Sleep(scheduler)
      /\ IF scheduler.readyList = << >>
         THEN object' = obj /\ threadToBeDestroyed' = t
         ELSE AfterSwitch(Head(scheduler.readyList), obj, t)

\* ReadyToRun of a sleeping thread, by the executing thread (V, Signal,
\* Broadcast) or by an interrupt handler while the CPU idles.
Wake(t) ==
  /\ object[t] = "started"
  /\ scheduler.status[t] = "BLOCKED"
  /\ scheduler' = ReadyToRun(scheduler, t)
  /\ UNCHANGED <<object, threadToBeDestroyed>>

\* Interrupt::Idle has returned to the loop of Thread::Sleep and a handler has
\* made a thread ready: Run it (it may be the sleeping thread itself).
IdleSwitch ==
  /\ Idling(scheduler)
  /\ scheduler.readyList # << >>
  /\ scheduler' = Run(scheduler)
  /\ AfterSwitch(Head(scheduler.readyList), object, threadToBeDestroyed)

LifeNext ==
  \/ \E t \in Threads : Construct(t) \/ Fork(t) \/ Wake(t)
  \/ ThreadYield
  \/ ThreadSleep
  \/ Finish
  \/ IdleSwitch

\* With -rs the timer keeps forcing Yield on the executing thread (timer.cc,
\* TimerInterruptHandler), and Sleep's loop runs a thread once one is ready.
LifeSpec == LifeInit /\ [][LifeNext]_lifeVars /\ WF_lifeVars(ThreadYield) /\ WF_lifeVars(IdleSwitch)
-----------------------------------------------------------------------------
\* The CPU never runs on the stack of a deleted thread and never switches to
\* a deleted or finished one (the reason for the deferred delete given at
\* thread.cc:153-157, and ASSERT(this != currentThread) at thread.cc:63).
NeverOnFreedStack ==
  /\ object[scheduler.currentThread] \in {"started", "finished"}
  /\ \A t \in On(scheduler.readyList) : object[t] \in {"fresh", "started"}

\* Scheduler::Run deletes only threads that have called Finish (earlier, or in
\* this very step, as the thread that gives up the CPU): the pointer never names
\* a live thread, so none is deleted twice even when the memory of a deleted
\* thread is used for a new one (scheduler.cc:124-127).
OnlyFinishedDeleted ==
  [][\A t \in Threads : object[t] # "none" /\ object'[t] = "none"
       => \/ object[t] = "finished"
          \/ t = scheduler.currentThread /\ scheduler'.status[t] = "BLOCKED"]_lifeVars

\* Round robin: under the time-slicing timer every READY thread gets the CPU
\* (FIFO ready list, scheduler.cc:53-74, and Yield, thread.cc:195-211).
ReadyThreadRuns ==
  \A t \in Threads : scheduler.status[t] = "READY" ~> scheduler.status[t] = "RUNNING"

\* What thread.cc:153-157 says of Finish: threadToBeDestroyed is set "so that
\* Scheduler::Run() will call the destructor", that is, a finished thread is
\* remembered there until it is deleted.
FinishedIsRemembered ==
  \A t \in Threads : object[t] = "finished" => threadToBeDestroyed = t
=============================================================================
