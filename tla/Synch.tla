------------------------------- MODULE Synch -------------------------------
(***************************************************************************)
(* The synchronization objects of threads/synch.cc, as actions on the      *)
(* kernel state that every user of them shares: Semaphore::P, V, Destroy,  *)
(* and Condition::Wait, Signal, Broadcast.  A Lock is a semaphore of value *)
(* 1 (Lock::sem); its fields isHeld and owner are in LockUse.              *)
(*                                                                         *)
(* Each operation disables interrupts first, so it is one step up to the   *)
(* point where it restores the level or calls Thread::Sleep.  A thread     *)
(* that returns from Sleep still has interrupts disabled; it keeps its     *)
(* place in pc and is in the set asleep until it restores the level.       *)
(* Interrupts, and the context switch the timer asks for, are taken only   *)
(* where interrupts are enabled.                                           *)
(***************************************************************************)
EXTENDS Scheduler

CONSTANTS
  Semaphores,     \* the Semaphore objects, those inside Locks included
  Conditions      \* the Condition objects

VARIABLES
  sched,    \* the scheduler state, see Scheduler
  sem,      \* Semaphore::value and Semaphore::queue of every semaphore
  hilos,    \* Condition::hilos, the wait queue of every condition
  asleep,   \* threads inside Thread::Sleep, called by P or Wait
  pc        \* the place of every thread in the code that uses these objects

synchVars == <<sched, sem, hilos, asleep, pc>>

SemaphoreState == [value : Nat, queue : Seq(Threads)]

SynchTypeOK ==
  /\ sched \in SchedulerState
  /\ sem \in [Semaphores -> SemaphoreState]
  /\ hilos \in [Conditions -> Seq(Threads)]
  /\ asleep \in SUBSET Threads

\* first is running and the threads of rest are on the ready list, in that
\* order; every semaphore has its initial value (Semaphore::Semaphore) and no waiter.
SynchInit(first, rest, initialValue) ==
  /\ sched = [currentThread |-> first, readyList |-> rest,
              status |-> [t \in Threads |->
                            IF t = first THEN "RUNNING"
                            ELSE IF t \in On(rest) THEN "READY" ELSE "JUST_CREATED"]]
  /\ sem = [s \in Semaphores |-> [value |-> initialValue[s], queue |-> << >>]]
  /\ hilos = [c \in Conditions |-> << >>]
  /\ asleep = {}

\* Interrupts are enabled: a thread executes outside the kernel's
\* interrupts-off sections.
IntOn == ~Idling(sched) /\ sched.currentThread \notin asleep

\* An interrupt handler can run now (OneTick, or Idle).
HandlerMayRun == IntOn \/ Idling(sched)

\* Thread t executes with interrupts enabled, at label.
At(t, label) == Executing(sched, t) /\ t \notin asleep /\ pc[t] = label

\* Thread t is back from Thread::Sleep, in the operation called at label.
BackAt(t, label) == Executing(sched, t) /\ t \in asleep /\ pc[t] = label

Goto(t, label) == pc' = [pc EXCEPT ![t] = label]
-----------------------------------------------------------------------------
\* Mutant of P: the value is tested once, not in a loop.
PWithoutLoop(t, s, next) ==
  IF sem[s].value = 0 /\ t \notin asleep
  THEN /\ sem' = [sem EXCEPT ![s].queue = Append(@, t)]
       /\ sched' = Sleep(sched)
       /\ asleep' = asleep \cup {t}
       /\ UNCHANGED pc
  ELSE /\ sem' = [sem EXCEPT ![s].value = IF @ = 0 THEN 0 ELSE @ - 1]
       /\ asleep' = asleep \ {t}
       /\ Goto(t, next)
       /\ UNCHANGED sched

\* Semaphore::P by thread t, on its call and each time Sleep returns: wait on
\* the queue while the value is 0, else take one and continue at next.
P(t, s, next) ==
  IF sem[s].value = 0
  THEN /\ sem' = [sem EXCEPT ![s].queue = Append(@, t)]
       /\ sched' = Sleep(sched)
       /\ asleep' = asleep \cup {t}
       /\ UNCHANGED pc
  ELSE /\ sem' = [sem EXCEPT ![s].value = @ - 1]
       /\ asleep' = asleep \ {t}
       /\ Goto(t, next)
       /\ UNCHANGED sched

\* What Semaphore::V does to the semaphore and to the scheduler.
VState(s) == [sem EXCEPT ![s].value = @ + 1, ![s].queue = DropFirst(@)]

\* Mutant of VWakes: the thread taken from the queue is not made ready.
VWakesNobody(s) == sched

VWakes(s) == WakeFirst(sched, sem[s].queue)

\* Mutant of V: only a V that makes the value positive wakes a thread.
VWakesFromZero(s) ==
  IF sem[s].value = 0
  THEN sem' = VState(s) /\ sched' = VWakes(s)
  ELSE sem' = [sem EXCEPT ![s].value = @ + 1] /\ UNCHANGED sched

\* Semaphore::V, by a thread or by an interrupt handler.
V(s) == sem' = VState(s) /\ sched' = VWakes(s)

\* Semaphore::Destroy: wake all the waiters, leave the value alone.
Destroy(s) ==
  /\ sched' = WakeAll(sched, sem[s].queue)
  /\ sem' = [sem EXCEPT ![s].queue = << >>]

\* Mutant of WaitSleep: the thread goes to the front of the queue.
WaitSleepFirst(t, c, s) ==
  /\ sem' = VState(s)
  /\ hilos' = [hilos EXCEPT ![c] = <<t>> \o @]
  /\ sched' = Sleep(VWakes(s))
  /\ asleep' = asleep \cup {t}
  /\ UNCHANGED pc

\* Condition::Wait by thread t with the lock of semaphore s, up to Sleep:
\* Release and the wait are one step, interrupts being disabled.
WaitSleep(t, c, s) ==
  /\ sem' = VState(s)
  /\ hilos' = [hilos EXCEPT ![c] = Append(@, t)]
  /\ sched' = Sleep(VWakes(s))
  /\ asleep' = asleep \cup {t}
  /\ UNCHANGED pc

\* The rest of Condition::Wait, when Sleep returns: acquire the lock again.
WaitReturn(t, s, next) == P(t, s, next) /\ UNCHANGED hilos

\* Mutant of Signal: the thread woken is not removed from the queue.
SignalKeepsWaiter(c) ==
  /\ hilos' = hilos
  /\ sched' = WakeFirst(sched, hilos[c])

\* Condition::Signal.
Signal(c) ==
  /\ hilos' = [hilos EXCEPT ![c] = DropFirst(@)]
  /\ sched' = WakeFirst(sched, hilos[c])

\* Condition::Broadcast.
Broadcast(c) ==
  /\ hilos' = [hilos EXCEPT ![c] = << >>]
  /\ sched' = WakeAll(sched, hilos[c])

\* The timer or the thread itself calls Thread::Yield (OneTick with
\* yieldOnReturn set, preemptive.cc, or an explicit call).
TimeSlice ==
  /\ IntOn
  /\ sched.readyList # << >>
  /\ sched' = Yield(sched)
  /\ UNCHANGED <<sem, hilos, asleep, pc>>

\* Interrupt::Idle returns to the loop of Thread::Sleep with a thread ready.
IdleReturn ==
  /\ Idling(sched)
  /\ sched.readyList # << >>
  /\ sched' = Run(sched)
  /\ UNCHANGED <<sem, hilos, asleep, pc>>

\* Interrupt::Idle finds nothing to run.  With no device interrupt pending
\* either, it halts the machine, whether or not threads are still waiting.
NothingReady == Idling(sched) /\ sched.readyList = << >>
-----------------------------------------------------------------------------
\* The queues sq of semaphores and hq of conditions hold threads of the set B
\* only, each of them once and in one queue.
Apart(sq, hq, B) ==
  /\ \A s \in Semaphores : NoDuplicates(sq[s]) /\ On(sq[s]) \subseteq B
  /\ \A c \in Conditions : NoDuplicates(hq[c]) /\ On(hq[c]) \subseteq B
  /\ \A s, r \in Semaphores : s # r => On(sq[s]) \cap On(sq[r]) = {}
  /\ \A c, d \in Conditions : c # d => On(hq[c]) \cap On(hq[d]) = {}
  /\ \A s \in Semaphores, c \in Conditions : On(sq[s]) \cap On(hq[c]) = {}

WaitersApart ==
  Apart([s \in Semaphores |-> sem[s].queue], hilos, Blocked(sched))

Waits(t) ==
  \/ \E s \in Semaphores : t \in On(sem[s].queue)
  \/ \E c \in Conditions : t \in On(hilos[c])

\* Every thread is in exactly one place: running, on the ready list, or on one
\* wait queue (of a semaphore or of a condition), once.  A thread lost from
\* all of them never runs again; one in two places is run twice
\* (synch.cc:64-227, scheduler.cc:53-74).
OnePlace ==
  /\ ReadyExact(sched)
  /\ WaitersApart
  /\ \A t \in Threads : sched.status[t] # "JUST_CREATED"
  /\ \A t \in Blocked(sched) : Waits(t)

\* Each of n units is matched by a member of S of its own.
Matched(n, S) == \E f \in [1..n -> S] : \A i, j \in 1..n : i # j => f[i] # f[j]
=============================================================================
