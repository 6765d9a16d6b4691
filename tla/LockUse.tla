------------------------------ MODULE LockUse ------------------------------
(***************************************************************************)
(* Threads and interrupt handlers that use the synchronization objects of  *)
(* threads/synch.cc in every allowed order: P, V and Destroy on            *)
(* semaphores, and Acquire, Release, Wait, Signal and Broadcast on a lock  *)
(* and its conditions.  Lock::Acquire and Lock::Release are modelled with  *)
(* their writes of isHeld and owner, which happen outside the              *)
(* interrupts-off section of the semaphore operation they call.            *)
(***************************************************************************)
EXTENDS Synch

CONSTANTS
  TheLock,        \* the lock, named as the semaphore it contains
  FirstThread,    \* the thread that runs first
  OtherThreads,   \* the others, in ready-list order
  InitialValue,   \* the initial value of every semaphore (1 for the lock's)
  MaxValue,       \* bound on the value V may reach
  NULL            \* no owner

ASSUME LockUseAssumption ==
  /\ FirstThread \in Threads
  /\ OtherThreads \in Seq(Threads)
  /\ NoDuplicates(OtherThreads)
  /\ On(OtherThreads) = Threads \ {FirstThread}
  /\ TheLock \in Semaphores
  /\ InitialValue \in [Semaphores -> Nat]
  /\ InitialValue[TheLock] = 1
  /\ MaxValue \in Nat
  /\ NULL \notin Threads

VARIABLES
  lock,      \* Lock::isHeld and Lock::owner
  target,    \* the semaphore each thread last called P on
  destroyed  \* semaphores whose user has called Destroy, and calls no more

vars == <<sched, sem, hilos, asleep, pc, lock, target, destroyed>>

\* "run": in no operation; "own": Acquire is back from P and has not yet
\* written isHeld and owner; "critical": between Acquire and Release;
\* "disown": Release is back from V and has not yet cleared them.
Labels == {"run", "own", "critical", "disown"}

TypeOK ==
  /\ SynchTypeOK
  /\ pc \in [Threads -> Labels]
  /\ lock \in [isHeld : BOOLEAN, owner : Threads \cup {NULL}]
  /\ target \in [Threads -> Semaphores]
  /\ destroyed \in SUBSET Semaphores

Init ==
  /\ SynchInit(FirstThread, OtherThreads, InitialValue)
  /\ pc = [t \in Threads |-> "run"]
  /\ lock = [isHeld |-> FALSE, owner |-> NULL]
  /\ target = [t \in Threads |-> TheLock]
  /\ destroyed = {}

NotHeld == [isHeld |-> FALSE, owner |-> NULL]

\* A semaphore of its own that a thread or a device may call.
InUse(s) == s # TheLock /\ s \notin destroyed
-----------------------------------------------------------------------------
\* Semaphore::P on a semaphore of its own, called or resumed.
SemaphoreP(t, s) ==
  /\ \/ At(t, "run") /\ InUse(s)
     \/ BackAt(t, "run") /\ target[t] = s /\ s # TheLock
  /\ P(t, s, "run")
  /\ target' = [target EXCEPT ![t] = s]
  /\ UNCHANGED <<hilos, lock, destroyed>>

\* Semaphore::V by a thread.
SemaphoreV(t, s) ==
  /\ At(t, "run")
  /\ InUse(s)
  /\ sem[s].value < MaxValue
  /\ V(s)
  /\ UNCHANGED <<hilos, asleep, pc, lock, target, destroyed>>

\* Semaphore::V by a device's interrupt handler (SynchDisk::RequestDone,
\* PostOffice::IncomingPacket, the console handlers).
HandlerV(s) ==
  /\ HandlerMayRun
  /\ InUse(s)
  /\ sem[s].value < MaxValue
  /\ V(s)
  /\ UNCHANGED <<hilos, asleep, pc, lock, target, destroyed>>

SemaphoreDestroy(t, s) ==
  /\ At(t, "run")
  /\ InUse(s)
  /\ Destroy(s)
  /\ destroyed' = destroyed \cup {s}
  /\ UNCHANGED <<hilos, asleep, pc, lock, target>>

\* Lock::Acquire: P, then the two fields.
LockAcquire(t) ==
  /\ \/ At(t, "run")
     \/ BackAt(t, "run") /\ target[t] = TheLock
  /\ P(t, TheLock, "own")
  /\ target' = [target EXCEPT ![t] = TheLock]
  /\ UNCHANGED <<hilos, lock, destroyed>>

AcquireFields(t) ==
  /\ At(t, "own")
  /\ lock' = [isHeld |-> TRUE, owner |-> t]
  /\ Goto(t, "critical")
  /\ UNCHANGED <<sched, sem, hilos, asleep, target, destroyed>>

\* Lock::Release: V, then the two fields.
LockRelease(t) ==
  /\ At(t, "critical")
  /\ V(TheLock)
  /\ Goto(t, "disown")
  /\ UNCHANGED <<hilos, asleep, lock, target, destroyed>>

ReleaseFields(t) ==
  /\ At(t, "disown")
  /\ lock' = NotHeld
  /\ Goto(t, "run")
  /\ UNCHANGED <<sched, sem, hilos, asleep, target, destroyed>>

\* Condition::Wait: with interrupts disabled, so that Release and Acquire
\* write the fields in the same step as the semaphore operation.
ConditionWait(t, c) ==
  /\ At(t, "critical")
  /\ WaitSleep(t, c, TheLock)
  /\ lock' = NotHeld
  /\ UNCHANGED <<target, destroyed>>

ConditionWaitReturn(t) ==
  /\ BackAt(t, "critical")
  /\ lock' = IF sem[TheLock].value = 0 THEN lock ELSE [isHeld |-> TRUE, owner |-> t]
  /\ WaitReturn(t, TheLock, "critical")
  /\ target' = [target EXCEPT ![t] = TheLock]
  /\ UNCHANGED destroyed

ConditionSignal(t, c) ==
  /\ At(t, "critical")
  /\ Signal(c)
  /\ UNCHANGED <<sem, asleep, pc, lock, target, destroyed>>

ConditionBroadcast(t, c) ==
  /\ At(t, "critical")
  /\ Broadcast(c)
  /\ UNCHANGED <<sem, asleep, pc, lock, target, destroyed>>

Next ==
  \/ \E t \in Threads :
       \/ \E s \in Semaphores : SemaphoreP(t, s) \/ SemaphoreV(t, s) \/ SemaphoreDestroy(t, s)
       \/ LockAcquire(t) \/ AcquireFields(t) \/ LockRelease(t) \/ ReleaseFields(t)
       \/ \E c \in Conditions :
            ConditionWait(t, c) \/ ConditionSignal(t, c) \/ ConditionBroadcast(t, c)
       \/ ConditionWaitReturn(t)
  \/ \E s \in Semaphores : HandlerV(s)
  \/ TimeSlice /\ UNCHANGED <<lock, target, destroyed>>
  \/ IdleReturn /\ UNCHANGED <<lock, target, destroyed>>

Spec == Init /\ [][Next]_vars
-----------------------------------------------------------------------------
\* Thread t holds the lock: it is back from the P of Acquire, has not called
\* the V of Release, and is not inside Condition::Wait.
Holds(t) == pc[t] \in {"own", "critical"} /\ t \notin asleep

\* Mutual exclusion: two threads never hold the lock together, and while one
\* does its semaphore is 0 (Lock over a binary semaphore, synch.cc:140-159,
\* including the release and reacquisition inside Condition::Wait, 180-197).
MutualExclusion ==
  /\ \A t, u \in Threads : Holds(t) /\ Holds(u) => t = u
  /\ sem[TheLock].value = IF \E t \in Threads : Holds(t) THEN 0 ELSE 1

\* The lock and its conditions implement the monitor: the thread inside is the
\* one that holds the lock, the queues are the conditions' own.  Every step
\* of the threads, the timer and the handlers is a monitor step or none.
Holder == IF \E t \in Threads : Holds(t) THEN CHOOSE t \in Threads : Holds(t) ELSE NULL

M == INSTANCE Monitor WITH holder <- Holder, waiting <- hilos

ImplementsMonitor == M!Spec

\* Threads back on the CPU or on their way to it that will test s again.
Retrying(s) ==
  {t \in asleep : /\ sched.status[t] # "BLOCKED"
                  /\ s = IF pc[t] = "critical" THEN TheLock ELSE target[t]}

\* No V is lost: while threads wait in the queue of a semaphore, every unit of
\* its value is matched by a thread that was woken and will test it again, so
\* a waiter is never left behind with the semaphore free (synch.cc:64-98).
NoLostWakeup ==
  \A s \in Semaphores :
    sem[s].queue # << >> => Matched(sem[s].value, Retrying(s))

\* What synch.h:77-80 says of isHeldByCurrentThread, "true if the current
\* thread holds this lock": a thread between Acquire and Release that asks is
\* told so (synch.cc:162-165 reads isHeld and owner).
HolderIsOwner ==
  \A t \in Threads : At(t, "critical") => lock.isHeld /\ lock.owner = t

\* What synch.cc:103 says of Destroy, "freeing the waiting threads" (and
\* synch.cc:45-46, "Assume no one is still waiting on the semaphore!"): no
\* thread waits on a semaphore that has been destroyed.
DestroyedHasNoWaiter ==
  \A s \in destroyed : sem[s].queue = << >>
=============================================================================
