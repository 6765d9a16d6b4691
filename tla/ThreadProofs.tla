---------------------------- MODULE ThreadProofs ----------------------------
(***************************************************************************)
(* For every number of threads, semaphores and conditions: the lock is     *)
(* exclusive, no thread is lost or queued twice, the lock with its         *)
(* conditions implements the monitor; and the deferred deletion of threads *)
(* is safe.                                                                *)
(***************************************************************************)
EXTENDS LockUse, ThreadLife, SynchProofs

\* The inductive invariant.  Mutual exclusion needs only the types; that
\* every thread is in one place needs none of the lock's fields.
IInv ==
  /\ TypeOK
  /\ SynchInv
  /\ AllForked
  /\ BlockedWait
  /\ MutualExclusion

\* A step that changes neither the threads' places nor the lock's value keeps
\* the lock exclusive.
LEMMA LockUntouched ==
  ASSUME MutualExclusion, pc' = pc, asleep' = asleep,
         sem'[TheLock].value = sem[TheLock].value
  PROVE  MutualExclusion'
BY DEF MutualExclusion, Holds

\* The two changes of holder: a thread takes the lock's unit, or gives it back.
LEMMA LockTaken ==
  ASSUME MutualExclusion, NEW t \in Threads, Holds(t)',
         \A u \in Threads : u # t => (Holds(u)' <=> Holds(u)),
         sem[TheLock].value # 0,
         sem'[TheLock].value = sem[TheLock].value - 1
  PROVE  MutualExclusion'
<1>1. \A u \in Threads : ~Holds(u)
  BY DEF MutualExclusion
<1>2. sem'[TheLock].value = 0
  BY <1>1 DEF MutualExclusion
<1>3. \A u \in Threads : Holds(u)' <=> u = t
  BY <1>1
<1> QED
  BY <1>2, <1>3 DEF MutualExclusion

\* The converse: the V of Release, or of Condition::Wait.
LEMMA LockGivenBack ==
  ASSUME MutualExclusion, NEW t \in Threads, Holds(t), ~Holds(t)',
         \A u \in Threads : u # t => (Holds(u)' <=> Holds(u)),
         sem'[TheLock].value = sem[TheLock].value + 1
  PROVE  MutualExclusion'
<1>1. \A u \in Threads : ~Holds(u)'
  BY DEF MutualExclusion
<1>2. sem'[TheLock].value = 1
  BY DEF MutualExclusion
<1> QED
  BY <1>1, <1>2 DEF MutualExclusion

\* P on a semaphore of its own leaves the lock alone.
LEMMA SemaphorePStep ==
  ASSUME IInv, NEW t \in Threads, NEW s \in Semaphores, SemaphoreP(t, s)
  PROVE  IInv'
<1>1. SynchInv' /\ AllForked' /\ BlockedWait'
  BY PKeeps DEF IInv, SemaphoreP, At, BackAt
<1>2. s # TheLock /\ pc[t] = "run"
  BY DEF SemaphoreP, At, BackAt, InUse
<1>3. pc' = pc
  BY <1>2 DEF SemaphoreP, P, Goto, IInv, TypeOK
<1>4. TypeOK'
  BY <1>1, <1>3 DEF IInv, TypeOK, SynchInv, SemaphoreP
<1>5. sem'[TheLock].value = sem[TheLock].value
  BY <1>2, LockUseAssumption, Zenon DEF IInv, TypeOK, SynchTypeOK, SemaphoreState, SemaphoreP, P
<1>6. MutualExclusion'
  <2>1. \A u \in Threads : Holds(u)' <=> Holds(u)
    BY <1>2, <1>3 DEF SemaphoreP, P, Holds
  <2> QED BY <1>5, <2>1 DEF IInv, MutualExclusion
<1> QED
  BY <1>1, <1>4, <1>6 DEF IInv

\* Lock::Acquire waits, or takes the unit that nobody holds.
LEMMA LockAcquireStep ==
  ASSUME IInv, NEW t \in Threads, LockAcquire(t)
  PROVE  IInv'
<1>0. TheLock \in Semaphores
  BY LockUseAssumption
<1>1. SynchInv' /\ AllForked' /\ BlockedWait'
  BY <1>0, PKeeps DEF IInv, LockAcquire, At, BackAt
<1>2. pc[t] = "run" /\ pc \in [Threads -> Labels]
  BY DEF LockAcquire, At, BackAt, IInv, TypeOK
<1>3. TypeOK'
  BY <1>0, <1>1, <1>2 DEF IInv, TypeOK, Labels, SynchInv, LockAcquire, P, Goto
<1>4. CASE sem[TheLock].value = 0
  <2>1. pc' = pc /\ asleep' = asleep \cup {t} /\ sem' = [sem EXCEPT ![TheLock].queue = Append(@, t)]
    BY <1>4 DEF LockAcquire, P
  <2>2. sem'[TheLock].value = sem[TheLock].value
    BY <1>0, <2>1 DEF IInv, TypeOK, SynchTypeOK, SemaphoreState
  <2>3. \A u \in Threads : Holds(u)' <=> Holds(u)
    BY <1>2, <2>1 DEF Holds
  <2> QED BY <1>1, <1>3, <2>2, <2>3 DEF IInv, MutualExclusion
<1>5. CASE sem[TheLock].value # 0
  <2>1. /\ sem' = [sem EXCEPT ![TheLock].value = @ - 1]
        /\ asleep' = asleep \ {t}
        /\ pc' = [pc EXCEPT ![t] = "own"]
    BY <1>5 DEF LockAcquire, P, Goto
  <2>2. sem'[TheLock].value = sem[TheLock].value - 1
    BY <1>0, <2>1 DEF IInv, TypeOK, SynchTypeOK, SemaphoreState
  <2>3. Holds(t)' /\ \A u \in Threads : u # t => (Holds(u)' <=> Holds(u))
    BY <1>2, <2>1 DEF Holds
  <2>4. MutualExclusion'
    BY <1>5, <2>2, <2>3, LockTaken DEF IInv
  <2> QED BY <1>1, <1>3, <2>4 DEF IInv
<1> QED
  BY <1>4, <1>5

\* The Acquire at the end of Condition::Wait does the same.
LEMMA WaitReturnStep ==
  ASSUME IInv, NEW t \in Threads, ConditionWaitReturn(t)
  PROVE  IInv'
<1>0. TheLock \in Semaphores
  BY LockUseAssumption
<1>1. SynchInv' /\ AllForked' /\ BlockedWait'
  BY <1>0, PKeeps DEF IInv, ConditionWaitReturn, WaitReturn, BackAt
<1>2. pc[t] = "critical" /\ t \in asleep /\ pc \in [Threads -> Labels]
  BY DEF ConditionWaitReturn, BackAt, IInv, TypeOK
<1>3. pc' = pc
  BY <1>2 DEF ConditionWaitReturn, WaitReturn, P, Goto
<1>4. TypeOK'
  BY <1>0, <1>1, <1>3 DEF IInv, TypeOK, SynchInv, ConditionWaitReturn
<1>5. CASE sem[TheLock].value = 0
  <2>1. asleep' = asleep \cup {t} /\ sem' = [sem EXCEPT ![TheLock].queue = Append(@, t)]
    BY <1>5 DEF ConditionWaitReturn, WaitReturn, P
  <2>2. sem'[TheLock].value = sem[TheLock].value
    BY <1>0, <2>1 DEF IInv, TypeOK, SynchTypeOK, SemaphoreState
  <2>3. asleep' = asleep
    BY <1>2, <2>1
  <2> QED BY <1>1, <1>3, <1>4, <2>2, <2>3, LockUntouched DEF IInv
<1>6. CASE sem[TheLock].value # 0
  <2>1. sem' = [sem EXCEPT ![TheLock].value = @ - 1] /\ asleep' = asleep \ {t}
    BY <1>6 DEF ConditionWaitReturn, WaitReturn, P
  <2>2. sem'[TheLock].value = sem[TheLock].value - 1
    BY <1>0, <2>1 DEF IInv, TypeOK, SynchTypeOK, SemaphoreState
  <2>3. Holds(t)' /\ \A u \in Threads : u # t => (Holds(u)' <=> Holds(u))
    BY <1>2, <1>3, <2>1 DEF Holds
  <2>4. MutualExclusion'
    BY <1>6, <2>2, <2>3, LockTaken DEF IInv
  <2> QED BY <1>1, <1>4, <2>4 DEF IInv
<1> QED
  BY <1>5, <1>6

\* V on a semaphore other than the lock's, by a thread or by a handler.
LEMMA VStep ==
  ASSUME IInv, NEW s \in Semaphores, s # TheLock, V(s),
         UNCHANGED <<hilos, asleep, pc, lock, target, destroyed>>
  PROVE  IInv'
<1>1. SynchInv' /\ AllForked' /\ BlockedWait'
  BY VKeeps DEF IInv
<1>2. sem'[TheLock].value = sem[TheLock].value
  BY LockUseAssumption, VValues DEF IInv, TypeOK, SynchTypeOK, V
<1>3. MutualExclusion'
  BY <1>2, LockUntouched DEF IInv
<1> QED
  BY <1>1, <1>3 DEF IInv, TypeOK, SynchInv

\* Semaphore::Destroy wakes threads and changes no value.
LEMMA SemaphoreDestroyStep ==
  ASSUME IInv, NEW t \in Threads, NEW s \in Semaphores, SemaphoreDestroy(t, s)
  PROVE  IInv'
<1>1. SynchInv' /\ AllForked' /\ BlockedWait'
  BY DestroyKeeps DEF IInv, SemaphoreDestroy
<1>2. sem'[TheLock].value = sem[TheLock].value
  BY LockUseAssumption DEF IInv, TypeOK, SynchTypeOK, SemaphoreState, SemaphoreDestroy, Destroy
<1>3. MutualExclusion'
  BY <1>2, LockUntouched DEF IInv, SemaphoreDestroy
<1> QED
  BY <1>1, <1>3 DEF IInv, TypeOK, SynchInv, SemaphoreDestroy

\* The writes of isHeld and owner move nobody in or out.
LEMMA FieldsStep ==
  ASSUME IInv, NEW t \in Threads, AcquireFields(t) \/ ReleaseFields(t)
  PROVE  IInv'
<1>1. UNCHANGED <<sched, sem, hilos, asleep, target, destroyed>>
  BY DEF AcquireFields, ReleaseFields
<1>2. SynchInv' /\ AllForked' /\ BlockedWait'
  BY <1>1 DEF IInv, SynchInv, SynchTypeOK, WaitersApart, AllForked, BlockedWait, Waits
<1>3. TypeOK'
  <2>1. pc' \in [Threads -> Labels]
    BY DEF IInv, TypeOK, Labels, AcquireFields, ReleaseFields, Goto
  <2>2. lock' \in [isHeld : BOOLEAN, owner : Threads \cup {NULL}]
    <3>1. lock' = [isHeld |-> TRUE, owner |-> t] \/ lock' = [isHeld |-> FALSE, owner |-> NULL]
      BY DEF AcquireFields, ReleaseFields, NotHeld
    <3>2. [isHeld |-> TRUE, owner |-> t] \in [isHeld : BOOLEAN, owner : Threads \cup {NULL}]
      OBVIOUS
    <3>3. [isHeld |-> FALSE, owner |-> NULL] \in [isHeld : BOOLEAN, owner : Threads \cup {NULL}]
      OBVIOUS
    <3> QED BY <3>1, <3>2, <3>3, Zenon
  <2> QED BY <1>1, <1>2, <2>1, <2>2 DEF IInv, TypeOK, SynchInv
<1>4. \A u \in Threads : Holds(u)' <=> Holds(u)
  BY <1>1 DEF AcquireFields, ReleaseFields, At, Goto, Holds, IInv, TypeOK
<1> QED
  BY <1>1, <1>2, <1>3, <1>4 DEF IInv, MutualExclusion

\* Lock::Release gives the unit back.
LEMMA LockReleaseStep ==
  ASSUME IInv, NEW t \in Threads, LockRelease(t)
  PROVE  IInv'
<1>0. TheLock \in Semaphores
  BY LockUseAssumption
<1>1. SynchInv' /\ AllForked' /\ BlockedWait'
  BY <1>0, VKeeps DEF IInv, LockRelease
<1>2. TypeOK'
  BY <1>1 DEF IInv, TypeOK, Labels, SynchInv, LockRelease, Goto
<1>3. sem'[TheLock].value = sem[TheLock].value + 1
  BY <1>0, VValues DEF IInv, TypeOK, SynchTypeOK, LockRelease, V
<1>4. Holds(t) /\ ~Holds(t)' /\ \A u \in Threads : u # t => (Holds(u)' <=> Holds(u))
  BY DEF LockRelease, At, Goto, Holds, IInv, TypeOK
<1>5. MutualExclusion'
  BY <1>3, <1>4, LockGivenBack DEF IInv
<1> QED
  BY <1>1, <1>2, <1>5 DEF IInv

\* Condition::Wait gives it back and sleeps in one step.
LEMMA ConditionWaitStep ==
  ASSUME IInv, NEW t \in Threads, NEW c \in Conditions, ConditionWait(t, c)
  PROVE  IInv'
<1>0. TheLock \in Semaphores
  BY LockUseAssumption
<1>1. SynchInv' /\ AllForked' /\ BlockedWait'
  BY <1>0, WaitSleepKeeps DEF IInv, ConditionWait, At
<1>2. pc' = pc /\ asleep' = asleep \cup {t} /\ sem' = VState(TheLock)
  BY DEF ConditionWait, WaitSleep
<1>3. TypeOK'
  BY <1>1, <1>2 DEF IInv, TypeOK, SynchInv, ConditionWait, NotHeld
<1>4. sem'[TheLock].value = sem[TheLock].value + 1
  BY <1>0, <1>2, VValues DEF IInv, TypeOK, SynchTypeOK
<1>5. Holds(t) /\ ~Holds(t)' /\ \A u \in Threads : u # t => (Holds(u)' <=> Holds(u))
  BY <1>2 DEF ConditionWait, At, Holds
<1>6. MutualExclusion'
  BY <1>4, <1>5, LockGivenBack DEF IInv
<1> QED
  BY <1>1, <1>3, <1>6 DEF IInv

\* Condition::Signal and Broadcast leave the lock with its holder.
LEMMA WakeStep ==
  ASSUME IInv, NEW t \in Threads, NEW c \in Conditions,
         ConditionSignal(t, c) \/ ConditionBroadcast(t, c)
  PROVE  IInv'
<1>1. UNCHANGED <<sem, asleep, pc, lock, target, destroyed>>
  BY DEF ConditionSignal, ConditionBroadcast
<1>2. SynchInv' /\ AllForked' /\ BlockedWait'
  BY <1>1, SignalKeeps, BroadcastKeeps DEF IInv, ConditionSignal, ConditionBroadcast
<1>3. MutualExclusion'
  BY <1>1, LockUntouched DEF IInv
<1> QED
  BY <1>1, <1>2, <1>3 DEF IInv, TypeOK, SynchInv

\* A context switch moves no thread in or out of the lock.
LEMMA SwitchStep ==
  ASSUME IInv, TimeSlice \/ IdleReturn, UNCHANGED <<lock, target, destroyed>>
  PROVE  IInv'
<1>1. UNCHANGED <<sem, hilos, asleep, pc>>
  BY DEF TimeSlice, IdleReturn
<1>2. SynchInv' /\ AllForked' /\ BlockedWait'
  BY TimeSliceKeeps, IdleReturnKeeps DEF IInv
<1>3. MutualExclusion'
  BY <1>1, LockUntouched DEF IInv
<1> QED
  BY <1>1, <1>2, <1>3 DEF IInv, TypeOK, SynchInv
-----------------------------------------------------------------------------
\* The inductive invariant holds when the threads have been forked.
LEMMA IInvInit ==
  Init => IInv
<1> SUFFICES ASSUME Init PROVE IInv
  OBVIOUS
<1>1. SynchInv /\ AllForked /\ BlockedWait
  BY LockUseAssumption, InitKeeps DEF Init
<1>2. TypeOK
  BY <1>1, LockUseAssumption DEF Init, TypeOK, Labels, SynchInv
<1>3. sem[TheLock].value = 1 /\ \A t \in Threads : ~Holds(t)
  BY LockUseAssumption DEF Init, SynchInit, Holds
<1>4. MutualExclusion
  BY <1>3 DEF MutualExclusion
<1> QED
  BY <1>1, <1>2, <1>4 DEF IInv

\* Every operation, handler and context switch preserves it.
LEMMA IInvNext ==
  IInv /\ [Next]_vars => IInv'
<1> SUFFICES ASSUME IInv, [Next]_vars PROVE IInv'
  OBVIOUS
<1>1. ASSUME NEW t \in Threads, NEW s \in Semaphores,
             SemaphoreP(t, s) \/ SemaphoreV(t, s) \/ SemaphoreDestroy(t, s)
      PROVE  IInv'
  BY <1>1, SemaphorePStep, SemaphoreDestroyStep, VStep DEF SemaphoreV, InUse
<1>2. ASSUME NEW t \in Threads,
             LockAcquire(t) \/ AcquireFields(t) \/ LockRelease(t) \/ ReleaseFields(t)
      PROVE  IInv'
  BY <1>2, LockAcquireStep, FieldsStep, LockReleaseStep
<1>3. ASSUME NEW t \in Threads, NEW c \in Conditions,
             ConditionWait(t, c) \/ ConditionSignal(t, c) \/ ConditionBroadcast(t, c)
      PROVE  IInv'
  BY <1>3, ConditionWaitStep, WakeStep
<1>4. ASSUME NEW t \in Threads, ConditionWaitReturn(t) PROVE IInv'
  BY <1>4, WaitReturnStep, Zenon
<1>5. ASSUME NEW s \in Semaphores, HandlerV(s) PROVE IInv'
  BY <1>5, VStep DEF HandlerV, InUse
<1>6. CASE (TimeSlice \/ IdleReturn) /\ UNCHANGED <<lock, target, destroyed>>
  BY <1>6, SwitchStep
<1>7. CASE UNCHANGED vars
  <2>1. SynchInv' /\ AllForked' /\ BlockedWait'
    BY <1>7 DEF vars, IInv, SynchInv, SynchTypeOK, WaitersApart, AllForked, BlockedWait, Waits
  <2> QED
    BY <1>7, <2>1, LockUntouched, Zenon DEF vars, IInv, TypeOK, SynchInv
<1> QED
  BY <1>1, <1>2, <1>3, <1>4, <1>5, <1>6, <1>7 DEF Next

\* The lock is exclusive in every behaviour: Lock::Acquire and Release and the
\* two inside Condition::Wait, interleaved with handlers and time slices.
THEOREM LockIsExclusive == Spec => []MutualExclusion
<1>1. IInv => MutualExclusion
  BY DEF IInv
<1> QED
  BY <1>1, IInvInit, IInvNext, PTL DEF Spec

\* Every variable keeps its type; in particular no semaphore value goes below 0.
THEOREM LockUseTypes == Spec => []TypeOK
<1>1. IInv => TypeOK
  BY DEF IInv
<1> QED
  BY <1>1, IInvInit, IInvNext, PTL DEF Spec

\* No operation of synch.cc loses a thread or puts it in two queues.
THEOREM ThreadsInOnePlace == Spec => []OnePlace
<1>1. IInv => OnePlace
  BY DEF IInv, OnePlace, SynchInv, AllForked, BlockedWait
<1> QED
  BY <1>1, IInvInit, IInvNext, PTL DEF Spec
-----------------------------------------------------------------------------
\* The refinement.  Holder is the thread that holds the lock.
LEMMA HolderIs ==
  MutualExclusion => /\ \A t \in Threads : Holds(t) => Holder = t
                     /\ (\A t \in Threads : ~Holds(t)) => Holder = NULL
<1> SUFFICES ASSUME MutualExclusion
             PROVE  /\ \A t \in Threads : Holds(t) => Holder = t
                    /\ (\A t \in Threads : ~Holds(t)) => Holder = NULL
  OBVIOUS
<1>1. ASSUME NEW t \in Threads, Holds(t) PROVE Holder = t
  <2>1. Holder = CHOOSE u \in Threads : Holds(u)
    BY <1>1 DEF Holder
  <2>2. Holder \in Threads /\ Holds(Holder)
    BY <1>1, <2>1, Zenon
  <2> QED BY <1>1, <2>2 DEF MutualExclusion
<1>2. ASSUME \A t \in Threads : ~Holds(t) PROVE Holder = NULL
  BY <1>2 DEF Holder
<1> QED
  BY <1>1, <1>2

HolderFact ==
  MutualExclusion => /\ \A t \in Threads : Holds(t) => Holder = t
                     /\ (\A t \in Threads : ~Holds(t)) => Holder = NULL

\* The same of the next state.
LEMMA HolderWillBe ==
  MutualExclusion' => /\ \A t \in Threads : Holds(t)' => Holder' = t
                      /\ (\A t \in Threads : ~Holds(t)') => Holder' = NULL
<1>1. HolderFact
  BY HolderIs DEF HolderFact
<1>2. HolderFact'
  BY <1>1, PTL
<1> QED
  BY <1>2 DEF HolderFact

\* A step that leaves the holding and the conditions alone is no monitor step.
LEMMA HolderUntouched ==
  ASSUME MutualExclusion, MutualExclusion', hilos' = hilos,
         \A t \in Threads : Holds(t)' <=> Holds(t)
  PROVE  UNCHANGED M!monitorVars
<1>1. Holder' = Holder
  BY HolderIs, HolderWillBe
<1> QED
  BY <1>1 DEF M!monitorVars

\* Taking the lock is entering the monitor: the thread is on no condition's
\* queue, since it is running.
LEMMA TakingEnters ==
  ASSUME IInv, MutualExclusion', NEW t \in Threads, Executing(sched, t),
         \A u \in Threads : ~Holds(u), Holds(t)', hilos' = hilos
  PROVE  M!Enter(t)
<1>1. Holder = NULL /\ Holder' = t
  BY HolderIs, HolderWillBe DEF IInv
<1>2. t \notin Blocked(sched)
  BY Zenon  DEF Executing, Blocked
<1>3. \A c \in Conditions : t \notin On(hilos[c])
  BY <1>2, SynchInvFacts DEF IInv
<1>4. ~M!Waits(t)
  BY <1>3 DEF M!Waits, On
<1> QED
  BY <1>1, <1>4 DEF M!Enter

\* Giving the lock back leaves the monitor empty.
LEMMA LeavingFrees ==
  ASSUME MutualExclusion, MutualExclusion', NEW t \in Threads, Holds(t), ~Holds(t)',
         \A u \in Threads : u # t => (Holds(u)' <=> Holds(u))
  PROVE  Holder = t /\ Holder' = NULL
<1>1. Holder = t
  BY HolderIs
<1>2. \A u \in Threads : ~Holds(u)'
  BY Zenon DEF MutualExclusion
<1> QED
  BY <1>1, <1>2, HolderWillBe

\* Every step of LockUse is a step of the monitor or leaves it unchanged.
LEMMA StepRefines ==
  IInv /\ IInv' /\ [Next]_vars => [M!Next]_(M!monitorVars)
<1> SUFFICES ASSUME IInv, IInv', [Next]_vars
             PROVE  M!Next \/ UNCHANGED M!monitorVars
  BY DEF M!monitorVars
<1>0. /\ MutualExclusion /\ MutualExclusion'
      /\ pc \in [Threads -> Labels]
      /\ hilos \in [Conditions -> Seq(Threads)]
  BY DEF IInv, TypeOK, SynchTypeOK
<1>1. ASSUME NEW t \in Threads, NEW s \in Semaphores,
             SemaphoreP(t, s) \/ SemaphoreV(t, s) \/ SemaphoreDestroy(t, s)
      PROVE  UNCHANGED M!monitorVars
  <2>1. hilos' = hilos
    BY <1>1 DEF SemaphoreP, SemaphoreV, SemaphoreDestroy
  <2>2. CASE SemaphoreP(t, s)
    <3>1. pc[t] = "run"
      BY <2>2 DEF SemaphoreP, At, BackAt
    <3>2. pc' = pc /\ (asleep' = asleep \cup {t} \/ asleep' = asleep \ {t})
      BY <1>0, <2>2, <3>1 DEF SemaphoreP, P, Goto
    <3>3. \A u \in Threads : Holds(u)' <=> Holds(u)
      BY <3>1, <3>2, Zenon DEF Holds
    <3> QED BY <1>0, <2>1, <3>3, HolderUntouched, Zenon
  <2>3. CASE SemaphoreV(t, s) \/ SemaphoreDestroy(t, s)
    <3>1. \A u \in Threads : Holds(u)' <=> Holds(u)
      BY <2>3 DEF SemaphoreV, SemaphoreDestroy, Holds
    <3> QED BY <1>0, <2>1, <3>1, HolderUntouched
  <2> QED BY <1>1, <2>2, <2>3, ZenonT(60)
<1>2. ASSUME NEW t \in Threads, LockAcquire(t) \/ ConditionWaitReturn(t)
      PROVE  M!Enter(t) \/ UNCHANGED M!monitorVars
  <2>1. hilos' = hilos /\ Executing(sched, t)
    BY <1>2 DEF LockAcquire, ConditionWaitReturn, WaitReturn, At, BackAt
  <2>2. CASE sem[TheLock].value = 0
    <3>1. pc' = pc /\ asleep' = asleep \cup {t} /\ (pc[t] = "run" \/ t \in asleep)
      BY <1>2, <2>2 DEF LockAcquire, ConditionWaitReturn, WaitReturn, P, At, BackAt
    <3>2. \A u \in Threads : Holds(u)' <=> Holds(u)
      BY <3>1 DEF Holds
    <3> QED BY <1>0, <2>1, <3>2, HolderUntouched, Zenon
  <2>3. CASE sem[TheLock].value # 0
    <3>1. \A u \in Threads : ~Holds(u)
      BY <1>0, <2>3 DEF MutualExclusion
    <3>2. asleep' = asleep \ {t}
      BY <1>2, <2>3 DEF LockAcquire, ConditionWaitReturn, WaitReturn, P
    <3>3. pc'[t] \in {"own", "critical"}
      BY <1>0, <1>2, <2>3 DEF LockAcquire, ConditionWaitReturn, WaitReturn, P, Goto
    <3>4. Holds(t)'
      BY <3>2, <3>3 DEF Holds
    <3> QED BY <1>0, <2>1, <3>1, <3>4, TakingEnters, ZenonT(60)
  <2> QED BY <2>2, <2>3, Zenon
<1>3. ASSUME NEW t \in Threads, AcquireFields(t) \/ ReleaseFields(t)
      PROVE  UNCHANGED M!monitorVars
  <2>1. hilos' = hilos /\ \A u \in Threads : Holds(u)' <=> Holds(u)
    BY <1>0, <1>3 DEF AcquireFields, ReleaseFields, At, Goto, Holds
  <2> QED BY <1>0, <2>1, HolderUntouched, Zenon
<1>4. ASSUME NEW t \in Threads, LockRelease(t)
      PROVE  M!Exit(t)
  <2>1. Holds(t) /\ ~Holds(t)' /\ \A u \in Threads : u # t => (Holds(u)' <=> Holds(u))
    BY <1>0, <1>4 DEF LockRelease, At, Goto, Holds
  <2>2. Holder = t /\ Holder' = NULL
    BY <1>0, <2>1, LeavingFrees, Zenon
  <2> QED BY <1>4, <2>2, Zenon DEF M!Exit, LockRelease
<1>5. ASSUME NEW t \in Threads, NEW c \in Conditions, ConditionWait(t, c)
      PROVE  M!Wait(t, c)
  <2>1. pc' = pc /\ asleep' = asleep \cup {t} /\ hilos' = [hilos EXCEPT ![c] = Append(@, t)]
    BY <1>5, Zenon DEF ConditionWait, WaitSleep
  <2>2. Holds(t) /\ ~Holds(t)' /\ \A u \in Threads : u # t => (Holds(u)' <=> Holds(u))
    BY <1>5, <2>1 DEF ConditionWait, At, Holds
  <2>3. Holder = t /\ Holder' = NULL
    BY <1>0, <2>2, LeavingFrees, Zenon
  <2> QED BY <2>1, <2>3, Zenon DEF M!Wait
<1>6. ASSUME NEW t \in Threads, NEW c \in Conditions,
             ConditionSignal(t, c) \/ ConditionBroadcast(t, c)
      PROVE  M!Signal(t, c) \/ M!Broadcast(t, c) \/ UNCHANGED M!monitorVars
  <2>1. pc' = pc /\ asleep' = asleep /\ Holds(t) /\ Holds(t)'
    BY <1>6 DEF ConditionSignal, ConditionBroadcast, At, Holds
  <2>2. Holder = t /\ Holder' = t
    BY <1>0, <2>1, HolderIs, HolderWillBe
  <2>3. CASE ConditionBroadcast(t, c)
    BY <2>2, <2>3 DEF ConditionBroadcast, Broadcast, M!Broadcast
  <2>4. CASE ConditionSignal(t, c) /\ hilos[c] # << >>
    BY <2>2, <2>4 DEF ConditionSignal, Signal, DropFirst, M!Signal
  <2>5. CASE ConditionSignal(t, c) /\ hilos[c] = << >>
    <3>1. hilos' = hilos
      BY <1>0, <2>5 DEF ConditionSignal, Signal, DropFirst
    <3> QED BY <2>2, <3>1 DEF M!monitorVars
  <2> QED BY <1>6, <2>3, <2>4, <2>5
<1>7. ASSUME \/ \E s \in Semaphores : HandlerV(s)
             \/ (TimeSlice \/ IdleReturn) /\ UNCHANGED <<lock, target, destroyed>>
             \/ UNCHANGED vars
      PROVE  UNCHANGED M!monitorVars
  <2>1. hilos' = hilos /\ pc' = pc /\ asleep' = asleep
    BY <1>7 DEF HandlerV, TimeSlice, IdleReturn, vars
  <2>2. \A u \in Threads : Holds(u)' <=> Holds(u)
    BY <2>1 DEF Holds
  <2> QED BY <1>0, <2>1, <2>2, HolderUntouched, ZenonT(60)
<1> QED
  BY <1>1, <1>2, <1>3, <1>4, <1>5, <1>6, <1>7, Zenon DEF Next, M!Next

\* Lock and Condition, with every interleaving of threads, handlers and time
\* slices, implement the Mesa monitor that synch.h documents.
THEOREM LockRefinesMonitor == Spec => ImplementsMonitor
<1>1. Init => M!Init
  <2> SUFFICES ASSUME Init PROVE M!Init
    OBVIOUS
  <2>1. \A t \in Threads : ~Holds(t)
    BY Zenon DEF Init, Holds
  <2>2. Holder = NULL
    BY <2>1, IInvInit, HolderIs DEF IInv
  <2> QED BY <2>2 DEF Init, SynchInit, M!Init
<1> QED
  BY <1>1, IInvInit, IInvNext, StepRefines, PTL DEF Spec, ImplementsMonitor, M!Spec
-----------------------------------------------------------------------------
(* No V is lost. *)

\* The semaphore that a sleeping thread will test when it runs again.
Aim(t) == IF pc[t] = "critical" THEN TheLock ELSE target[t]

\* The threads on the queue of a semaphore will test that one.
WaitersAim == \A s \in Semaphores : \A t \in On(sem[s].queue) : t \in asleep /\ Aim(t) = s

WakeInv == IInv /\ WaitersAim /\ NoLostWakeup

\* What the steps may assume; a thread that executes is on no queue.
LEMMA WakeFacts ==
  ASSUME WakeInv
  PROVE  /\ SynchInv /\ asleep \subseteq Threads /\ TheLock \in Semaphores
         /\ \A s \in Semaphores : Retrying(s) = {t \in asleep : t \notin Blocked(sched) /\ Aim(t) = s}
         /\ \A t \in Threads : Executing(sched, t) =>
              t \notin Blocked(sched) /\ \A s \in Semaphores : t \notin On(sem[s].queue)
<1>1. SynchInv /\ asleep \subseteq Threads
  BY SynchInvFacts DEF WakeInv, IInv
<1>2. \A s \in Semaphores : Retrying(s) = {t \in asleep : t \notin Blocked(sched) /\ Aim(t) = s}
  BY <1>1, ZenonT(60) DEF Retrying, Blocked, Aim
<1>3. ASSUME NEW t \in Threads, Executing(sched, t)
      PROVE  t \notin Blocked(sched) /\ \A s \in Semaphores : t \notin On(sem[s].queue)
  <2>1. t \notin Blocked(sched)
    BY <1>3 DEF Executing, Blocked
  <2> QED BY <1>1, <2>1, SynchInvFacts
<1> QED BY <1>1, <1>2, <1>3, LockUseAssumption, ZenonT(60)

\* The same definition of Retrying after a step.
LEMMA RetryingNext ==
  ASSUME asleep' \subseteq Threads, NEW s
  PROVE  Retrying(s)' = {t \in asleep' : t \notin Blocked(sched') /\ Aim(t)' = s}
BY DEF Retrying, Blocked, Aim

\* A step that changes no value, puts no thread in a queue of a semaphore and
\* blocks no thread that has been woken.
LEMMA WakesOnly ==
  ASSUME WakeInv, asleep' = asleep, \A t \in asleep : Aim(t)' = Aim(t),
         Blocked(sched') \subseteq Blocked(sched),
         \A s \in Semaphores : /\ sem'[s].value = sem[s].value
                               /\ sem'[s].queue \in {sem[s].queue, << >>}
  PROVE  WaitersAim' /\ NoLostWakeup'
<1>1. WaitersAim'
  <2> SUFFICES ASSUME NEW s \in Semaphores, NEW t \in On(sem'[s].queue)
               PROVE  t \in asleep' /\ Aim(t)' = s
    BY Zenon DEF WaitersAim
  <2>1. t \in On(sem[s].queue)
    BY EmptyOn, Zenon
  <2> QED BY <2>1, Zenon DEF WakeInv, WaitersAim
<1>2. NoLostWakeup'
  <2> SUFFICES ASSUME NEW s \in Semaphores, sem'[s].queue # << >>
               PROVE  Matched(sem'[s].value, Retrying(s)')
    BY Zenon  DEF NoLostWakeup, Matched
  <2>1. Matched(sem[s].value, Retrying(s)) /\ sem[s].value \in Nat
    BY WakeFacts, SynchInvFacts, Zenon DEF WakeInv, NoLostWakeup
  <2>2. Retrying(s) \subseteq Retrying(s)'
    BY WakeFacts, RetryingNext, Zenon
  <2> QED BY <2>1, <2>2, MatchedMore
<1> QED BY <1>1, <1>2, Zenon

\* A V on s, by Semaphore::V, Lock::Release or Condition::Wait: the first
\* waiter matches the new unit.
LEMMA VMatches ==
  ASSUME WakeInv, NEW s \in Semaphores, sem' = VState(s),
         asleep \subseteq asleep', asleep' \subseteq Threads,
         \A t \in asleep : Aim(t)' = Aim(t),
         Blocked(sched') \cap asleep \subseteq Blocked(VWakes(s))
  PROVE  WaitersAim' /\ NoLostWakeup'
<1> DEFINE q == sem[s].queue
<1>1. /\ \A r \in Semaphores : sem'[r].queue = IF r = s THEN DropFirst(q) ELSE sem[r].queue
      /\ \A r \in Semaphores : sem'[r].value = IF r = s THEN sem[s].value + 1 ELSE sem[r].value
      /\ Blocked(VWakes(s)) = Blocked(sched) \ (On(q) \ On(DropFirst(q)))
  BY WakeFacts, SynchInvFacts, VLeaves, VValues, ZenonT(60)
<1>2. /\ q \in Seq(Threads) /\ NoDuplicates(q) /\ On(q) \subseteq Blocked(sched)
      /\ \A r \in Semaphores : sem[r].value \in Nat
  BY WakeFacts, SynchInvFacts, Zenon
<1>3. \A r \in Semaphores : Retrying(r) \subseteq Retrying(r)'
  <2> SUFFICES ASSUME NEW r \in Semaphores, NEW u \in Retrying(r) PROVE u \in Retrying(r)'
    OBVIOUS
  <2>1. u \in asleep /\ u \notin Blocked(sched) /\ Aim(u) = r
    BY WakeFacts, Zenon
  <2>2. u \in asleep' /\ Aim(u)' = r
    BY <2>1, Zenon
  <2>3. u \notin Blocked(sched')
    BY <1>1, <2>1, Zenon
  <2>4. Retrying(r)' = {t \in asleep' : t \notin Blocked(sched') /\ Aim(t)' = r}
    BY WakeFacts, RetryingNext, Zenon
  <2> QED BY <2>2, <2>3, <2>4, Zenon
<1>4. WaitersAim'
  <2> SUFFICES ASSUME NEW r \in Semaphores, NEW t \in On(sem'[r].queue)
               PROVE  t \in asleep' /\ Aim(t)' = r
    BY Zenon DEF WaitersAim
  <2>1. t \in On(sem[r].queue)
    <3>1. CASE q = << >>
      BY <1>1, <3>1, Zenon DEF DropFirst
    <3>2. CASE q # << >>
      <4>1. DropFirst(q) = Tail(q)
        BY <3>2, Zenon DEF DropFirst
      <4>2. On(q) = {Head(q)} \cup On(Tail(q))
        BY <1>2, <3>2, TailOn, Zenon
      <4> HIDE DEF q
      <4>3. CASE r = s
        BY <1>1, <4>1, <4>2, <4>3, Zenon DEF q
      <4>4. CASE r # s
        BY <1>1, <4>4, Zenon
      <4> QED BY <4>3, <4>4, Zenon
    <3> QED BY <3>1, <3>2, Zenon
  <2> QED BY <2>1 DEF WakeInv, WaitersAim
<1>5. ASSUME NEW r \in Semaphores, sem'[r].queue # << >>
      PROVE  Matched(sem'[r].value, Retrying(r)')
  <2>1. CASE r # s
    <3>1. Matched(sem[r].value, Retrying(r)) /\ sem'[r].value = sem[r].value
      BY <1>1, <1>5, <2>1, ZenonT(60) DEF WakeInv, NoLostWakeup
    <3> QED BY <1>2, <1>3, <3>1, MatchedMore, Zenon
  <2>2. CASE r = s
    <3>1. q # << >>
      BY <1>1, <1>5, <2>2, Zenon DEF DropFirst
    <3>2. /\ Matched(sem[s].value, Retrying(s)) /\ sem'[s].value = sem[s].value + 1
      BY <1>1, <3>1, Zenon DEF WakeInv, NoLostWakeup
    <3>3. Head(q) \in On(q) \ On(DropFirst(q))
      BY <1>2, <3>1, TailOn, TailNoDuplicates, Zenon DEF DropFirst
    <3>4. Head(q) \in asleep /\ Aim(Head(q)) = s /\ Head(q) \in Blocked(sched)
      BY <1>2, <3>3, Zenon DEF WakeInv, WaitersAim
    <3>5. Head(q) \notin Retrying(s) /\ Head(q) \in Retrying(s)'
      BY <1>1, <3>3, <3>4, WakeFacts, RetryingNext, ZenonT(60)
    <3> QED BY <1>2, <1>3, <2>2, <3>2, <3>5, MatchedAdd, SMTT(60)
  <2> QED BY <2>1, <2>2
<1>6. NoLostWakeup'
  BY <1>5, Zenon DEF NoLostWakeup, Matched
<1> QED BY <1>4, <1>6, SMTT(60)

\* P on s by a thread that comes to it, or comes back to it: it takes a unit and
\* is matched with no other, or it waits where there is no unit.
LEMMA PMatches ==
  ASSUME WakeInv, NEW t \in Threads, NEW s \in Semaphores, NEW next,
         Executing(sched, t), P(t, s, next), target' = [target EXCEPT ![t] = s],
         t \in asleep => Aim(t) = s, pc[t] = "critical" => s = TheLock
  PROVE  WaitersAim' /\ NoLostWakeup'
<1>1. /\ sem \in [Semaphores -> SemaphoreState] /\ target \in [Threads -> Semaphores]
      /\ pc \in [Threads -> Labels] /\ asleep \subseteq Threads
      /\ \A r \in Semaphores : sem[r].value \in Nat /\ sem[r].queue \in Seq(Threads)
  BY WakeFacts, SynchInvFacts, Zenon DEF WakeInv, IInv, TypeOK
<1>2. \A u \in Threads : u # t => Aim(u)' = Aim(u)
  BY <1>1, Zenon DEF P, Goto, Aim
<1>3. t \notin Blocked(sched) /\ \A r \in Semaphores : t \notin On(sem[r].queue)
  BY WakeFacts, Zenon
<1>4. \A r \in Semaphores : r # s => t \notin Retrying(r)
  BY WakeFacts, Zenon
<1>5. CASE sem[s].value = 0
  <2>1. /\ sched' = Sleep(sched) /\ asleep' = asleep \cup {t} /\ pc' = pc
        /\ sem' = [sem EXCEPT ![s].queue = Append(sem[s].queue, t)]
    BY <1>5 DEF P
  <2>2. Blocked(sched') = Blocked(sched) \cup {t}
    BY <2>1, WakeFacts, SynchInvFacts, SleepKeeps, Zenon DEF Executing
  <2>3. \A r \in Semaphores :
          /\ sem'[r].value = sem[r].value
          /\ sem'[r].queue = IF r = s THEN Append(sem[s].queue, t) ELSE sem[r].queue
    BY <1>1, <2>1 DEF SemaphoreState
  <2>4. Aim(t)' = s
    BY <1>1, <2>1 DEF Aim
  <2>5. WaitersAim'
    <3> SUFFICES ASSUME NEW r \in Semaphores, NEW u \in On(sem'[r].queue)
                 PROVE  u \in asleep' /\ Aim(u)' = r
      BY ZenonT(60) DEF WaitersAim
    <3>1. u \in On(sem[r].queue) \/ (u = t /\ r = s)
      BY <1>1, <2>3, AppendOn, SMTT(60)
    <3> QED BY <1>1, <1>2, <1>3, <2>1, <2>4, <3>1, Zenon DEF WakeInv, WaitersAim
  <2>6. ASSUME NEW r \in Semaphores, sem'[r].queue # << >>
        PROVE  Matched(sem'[r].value, Retrying(r)')
    <3>1. CASE r = s
      BY <1>5, <2>3, <3>1, MatchedMore, SMTT(60)
    <3>2. CASE r # s
      <4>1. Retrying(r) \subseteq Retrying(r)'
        BY <1>1, <1>2, <1>4, <2>1, <2>2, <3>2, WakeFacts, RetryingNext, SMTT(60)
      <4>2. Matched(sem[r].value, Retrying(r))
        BY <2>3, <2>6, <3>2, Zenon DEF WakeInv, NoLostWakeup
      <4> QED BY <1>1, <2>3, <4>1, <4>2, MatchedMore, Zenon
    <3> QED BY <3>1, <3>2, ZenonT(60)
  <2>7. NoLostWakeup'
    BY <2>6, Zenon DEF NoLostWakeup, Matched
  <2> QED BY <2>5, <2>7, Zenon
<1>6. CASE sem[s].value # 0
  <2>1. sched' = sched /\ asleep' = asleep \ {t}
    BY <1>6 DEF P
  <2>2. \A r \in Semaphores :
          /\ sem'[r].value = IF r = s THEN sem[s].value - 1 ELSE sem[r].value
          /\ sem'[r].queue = sem[r].queue
    BY <1>1, <1>6, SMTT(60) DEF P, SemaphoreState
  <2>3. WaitersAim'
    <3> SUFFICES ASSUME NEW r \in Semaphores, NEW u \in On(sem'[r].queue)
                 PROVE  u \in asleep' /\ Aim(u)' = r
      BY Zenon DEF WaitersAim
    <3>1. u \in On(sem[r].queue) /\ u # t
      BY <1>3, <2>2, Zenon
    <3> QED BY <1>1, <1>2, <2>1, <3>1, Zenon DEF WakeInv, WaitersAim
  <2>4. \A r \in Semaphores : Retrying(r) \ {t} \subseteq Retrying(r)'
    BY <1>1, <1>2, <2>1, WakeFacts, RetryingNext
  <2>5. ASSUME NEW r \in Semaphores, sem'[r].queue # << >>
        PROVE  Matched(sem'[r].value, Retrying(r)')
    <3>1. Matched(sem[r].value, Retrying(r))
      BY <2>2, <2>5, Zenon DEF WakeInv, NoLostWakeup
    <3>2. CASE r = s
      <4> DEFINE R == Retrying(s)
                 R2 == Retrying(s)'
                 n == sem[s].value
      <4>1. n \in Nat \ {0} /\ Matched(n, R) /\ R \ {t} \subseteq R2
        BY <1>1, <1>6, <2>4, <3>1, <3>2
      <4> HIDE DEF R, R2, n
      <4>2. Matched(n - 1, R2)
        BY <4>1, MatchedDrop, ZenonT(60)
      <4> QED BY <2>2, <3>2, <4>2, Zenon DEF R2, n
    <3>3. CASE r # s
      BY <1>1, <1>4, <2>2, <2>4, <3>1, <3>3, MatchedMore, SMTT(60)
    <3> QED BY <3>2, <3>3
  <2>6. NoLostWakeup'
    BY <2>5, Zenon DEF NoLostWakeup, Matched
  <2> QED BY <2>3, <2>6
<1> QED BY <1>5, <1>6, Zenon

\* The three calls of P.
LEMMA PCallsMatch ==
  ASSUME WakeInv, NEW t \in Threads, NEW s \in Semaphores,
         SemaphoreP(t, s) \/ LockAcquire(t) \/ ConditionWaitReturn(t)
  PROVE  WaitersAim' /\ NoLostWakeup'
<1>1. CASE SemaphoreP(t, s)
  BY <1>1, PMatches, Zenon DEF SemaphoreP, At, BackAt, Aim
<1>2. CASE LockAcquire(t)
  BY <1>2, PMatches, LockUseAssumption, Zenon DEF LockAcquire, At, BackAt, Aim
<1>3. CASE ConditionWaitReturn(t)
  BY <1>3, PMatches, LockUseAssumption, Zenon DEF ConditionWaitReturn, WaitReturn, BackAt, Aim
<1> QED BY <1>1, <1>2, <1>3

\* The calls of V: a thread that is not asleep gives a unit, or a handler does.
LEMMA VCallsMatch ==
  ASSUME WakeInv, NEW t \in Threads, NEW s \in Semaphores,
         \/ SemaphoreV(t, s) \/ HandlerV(s) \/ LockRelease(t)
         \/ \E c \in Conditions : ConditionWait(t, c)
  PROVE  WaitersAim' /\ NoLostWakeup'
<1>1. pc \in [Threads -> Labels] /\ target \in [Threads -> Semaphores] /\ asleep \subseteq Threads
  BY WakeFacts, Zenon DEF WakeInv, IInv, TypeOK
<1>2. CASE SemaphoreV(t, s) \/ HandlerV(s)
  <2>1. /\ sem' = VState(s) /\ sched' = VWakes(s) /\ asleep' = asleep
        /\ pc' = pc /\ target' = target
    BY <1>2, ZenonT(60) DEF SemaphoreV, HandlerV, V
  <2>2. \A u \in asleep : Aim(u)' = Aim(u)
    BY <2>1 DEF Aim
  <2> QED BY <1>1, <2>1, <2>2, VMatches, Zenon
<1>3. CASE LockRelease(t)
  <2>1. /\ sem' = VState(TheLock) /\ sched' = VWakes(TheLock) /\ asleep' = asleep
        /\ t \notin asleep /\ pc' = [pc EXCEPT ![t] = "disown"] /\ target' = target
    BY <1>3 DEF LockRelease, At, Goto, V
  <2>2. \A u \in asleep : Aim(u)' = Aim(u)
    BY <1>1, <2>1, SMTT(60) DEF Aim
  <2> QED BY <1>1, <2>1, <2>2, VMatches, LockUseAssumption, Zenon
<1>4. ASSUME NEW c \in Conditions, ConditionWait(t, c) PROVE WaitersAim' /\ NoLostWakeup'
  <2>1. /\ sem' = VState(TheLock) /\ sched' = Sleep(VWakes(TheLock)) /\ asleep' = asleep \cup {t}
        /\ t \notin asleep /\ pc' = pc /\ target' = target /\ Executing(sched, t)
    BY <1>4, Zenon DEF ConditionWait, WaitSleep, At
  <2>2. \A u \in asleep : Aim(u)' = Aim(u)
    BY <2>1, Zenon DEF Aim
  <2> DEFINE v == VWakes(TheLock)
  <2>3. /\ v \in SchedulerState /\ ReadyExact(v) /\ v.currentThread = t
        /\ v.status[t] = "RUNNING"
    BY <2>1, VLeaves, WakeFacts, ZenonT(60) DEF Executing
  <2> HIDE DEF v
  <2>4. Blocked(Sleep(v)) = Blocked(v) \cup {t}
    BY <2>3, SleepKeeps, Zenon
  <2>5. Blocked(sched') \cap asleep \subseteq Blocked(VWakes(TheLock))
    BY <2>1, <2>4, Zenon DEF v
  <2> QED BY <1>1, <2>1, <2>2, <2>5, VMatches, LockUseAssumption, Zenon
<1> QED BY <1>2, <1>3, <1>4, Zenon

\* The other steps wake threads, move a thread that is not asleep, or switch.
LEMMA OthersMatch ==
  ASSUME WakeInv, NEW t \in Threads, NEW s \in Semaphores,
         \/ SemaphoreDestroy(t, s) \/ AcquireFields(t) \/ ReleaseFields(t)
         \/ \E c \in Conditions : ConditionSignal(t, c) \/ ConditionBroadcast(t, c)
         \/ (TimeSlice \/ IdleReturn) /\ UNCHANGED <<lock, target, destroyed>>
  PROVE  WaitersAim' /\ NoLostWakeup'
<1>1. /\ sem \in [Semaphores -> SemaphoreState] /\ pc \in [Threads -> Labels]
      /\ asleep \subseteq Threads /\ sched \in SchedulerState /\ ReadyExact(sched)
      /\ \A r \in Semaphores : /\ sem[r].queue \in Seq(Threads) /\ NoDuplicates(sem[r].queue)
                               /\ On(sem[r].queue) \subseteq Blocked(sched)
      /\ \A d \in Conditions : /\ hilos[d] \in Seq(Threads) /\ NoDuplicates(hilos[d])
                               /\ On(hilos[d]) \subseteq Blocked(sched)
  BY WakeFacts, SynchInvFacts, Zenon DEF WakeInv, IInv, TypeOK
<1>2. CASE SemaphoreDestroy(t, s)
  <2>1. /\ Blocked(sched') \subseteq Blocked(sched) /\ UNCHANGED <<asleep, pc, target>>
        /\ sem' = [sem EXCEPT ![s].queue = << >>]
    BY <1>1, <1>2, WakeAllKeeps DEF SemaphoreDestroy, Destroy
  <2>2. \A r \in Semaphores : /\ sem'[r].value = sem[r].value
                              /\ sem'[r].queue \in {sem[r].queue, << >>}
    BY <1>1, <2>1, SMTT(60) DEF SemaphoreState
  <2> QED BY <2>1, <2>2, WakesOnly DEF Aim
<1>3. CASE AcquireFields(t) \/ ReleaseFields(t)
  <2>1. /\ t \notin asleep /\ UNCHANGED <<sched, sem, asleep, target>>
        /\ \A u \in asleep : pc'[u] = pc[u]
    BY <1>1, <1>3, Zenon DEF AcquireFields, ReleaseFields, At, Goto
  <2> QED BY <2>1, WakesOnly, ZenonT(60) DEF Aim
<1>4. ASSUME NEW c \in Conditions, ConditionSignal(t, c) \/ ConditionBroadcast(t, c)
      PROVE  WaitersAim' /\ NoLostWakeup'
  <2>1. UNCHANGED <<sem, asleep, pc, target>>
    BY <1>4, Zenon DEF ConditionSignal, ConditionBroadcast
  <2> DEFINE q == hilos[c]
  <2> HIDE DEF q
  <2>q. q \in Seq(Threads) /\ NoDuplicates(q) /\ On(q) \subseteq Blocked(sched)
    BY <1>1, Zenon DEF q
  <2>s. sched \in SchedulerState /\ ReadyExact(sched)
    BY <1>1, Zenon
  <2>2. CASE sched' = WakeFirst(sched, hilos[c])
    <3>2. sched' = WakeFirst(sched, q)
      BY <2>2, Zenon DEF q
    <3>1. Blocked(sched') \subseteq Blocked(sched)
      BY <2>q, <2>s, <3>2, WakeFirstKeeps, ZenonT(60)
    <3> QED BY <2>1, <3>1, WakesOnly, Zenon DEF Aim
  <2>3. CASE sched' = WakeAll(sched, hilos[c])
    <3>2. sched' = WakeAll(sched, q)
      BY <2>3 DEF q
    <3>1. Blocked(sched') \subseteq Blocked(sched)
      BY <2>q, <2>s, <3>2, WakeAllKeeps, Zenon
    <3> QED BY <2>1, <3>1, WakesOnly, ZenonT(60) DEF Aim
  <2> QED BY <1>4, <2>2, <2>3, SMTT(60) DEF ConditionSignal, ConditionBroadcast, Signal, Broadcast
<1>5. CASE TimeSlice /\ UNCHANGED <<lock, target, destroyed>>
  <2>1. sched.status[sched.currentThread] = "RUNNING" /\ sched' = Yield(sched)
    BY <1>5, ZenonT(60) DEF TimeSlice, IntOn, Idling
  <2>2. Blocked(sched') = Blocked(sched)
    BY <1>1, <2>1, YieldKeeps, Zenon
  <2> QED BY <1>5, <2>2, WakesOnly, ZenonT(60) DEF Aim, TimeSlice
<1>6. CASE IdleReturn /\ UNCHANGED <<lock, target, destroyed>>
  <2>1. CPUFree(sched) /\ sched' = Run(sched) /\ sched.readyList # << >>
    BY <1>6, WakeFacts, SynchInvFacts, ZenonT(60) DEF IdleReturn, Idling, CPUFree, ReadyExact
  <2>2. Blocked(sched') = Blocked(sched)
    BY <1>1, <2>1, RunKeeps, Zenon
  <2> QED BY <1>6, <2>2, WakesOnly, ZenonT(60) DEF Aim, IdleReturn
<1> QED BY <1>2, <1>3, <1>4, <1>5, <1>6, SMTT(60)

\* No V is lost, for every number of threads, semaphores and conditions: while
\* a thread waits in the queue of a semaphore, each unit of its value is matched
\* by a thread that was woken and will test it again (synch.cc:64-98).
THEOREM VIsNotLost == Spec => []NoLostWakeup
<1>1. Init => WakeInv
  <2> SUFFICES ASSUME Init PROVE WaitersAim /\ NoLostWakeup
    BY IInvInit DEF WakeInv
  <2>1. \A s \in Semaphores : sem[s].queue = << >>
    BY DEF Init, SynchInit
  <2> QED BY <2>1, EmptyOn DEF WaitersAim, NoLostWakeup
<1>2. WakeInv /\ [Next]_vars => WakeInv'
  <2> SUFFICES ASSUME WakeInv, [Next]_vars PROVE WakeInv'
    OBVIOUS
  <2>1. IInv'
    BY IInvNext DEF WakeInv
  <2>2. WaitersAim' /\ NoLostWakeup'
    <3>1. CASE UNCHANGED vars
      BY <3>1, WakesOnly, Zenon DEF vars, Aim
    <3>2. CASE Next
      <4>1. CASE \E t \in Threads, s \in Semaphores :
                   SemaphoreP(t, s) \/ LockAcquire(t) \/ ConditionWaitReturn(t)
        BY <4>1, PCallsMatch
      <4>2. CASE \E t \in Threads, s \in Semaphores :
                   \/ SemaphoreV(t, s) \/ HandlerV(s) \/ LockRelease(t)
                   \/ \E c \in Conditions : ConditionWait(t, c)
        BY <4>2, VCallsMatch
      <4>3. CASE \E t \in Threads, s \in Semaphores :
                   \/ SemaphoreDestroy(t, s) \/ AcquireFields(t) \/ ReleaseFields(t)
                   \/ \E c \in Conditions : ConditionSignal(t, c) \/ ConditionBroadcast(t, c)
                   \/ (TimeSlice \/ IdleReturn) /\ UNCHANGED <<lock, target, destroyed>>
        BY <4>3, OthersMatch
      <4> QED BY <3>2, <4>1, <4>2, <4>3, LockUseAssumption DEF Next
    <3> QED BY <3>1, <3>2
  <2> QED BY <2>1, <2>2 DEF WakeInv
<1>3. WakeInv => NoLostWakeup
  BY SMTT(60) DEF WakeInv
<1> QED BY <1>1, <1>2, <1>3, PTL DEF Spec
-----------------------------------------------------------------------------
(* The life of threads. *)

\* A thread that can be switched to has not finished and is not deleted.
Runnable == {"fresh", "started"}

\* The ready list is exact; threads on it can be switched to; the CPU is on the
\* stack of a thread that has started, and that has not finished while it
\* executes; threadToBeDestroyed names a finished thread.
LifeInv ==
  /\ LifeTypeOK
  /\ ReadyExact(scheduler)
  /\ \A t \in Threads : scheduler.status[t] = "READY" => object[t] \in Runnable
  /\ object[scheduler.currentThread] \in {"started", "finished"}
  /\ ~Idling(scheduler) => object[scheduler.currentThread] = "started"
  /\ threadToBeDestroyed \in Threads => object[threadToBeDestroyed] = "finished"

\* The invariant gives NeverOnFreedStack.
LEMMA LifeInvImplies == LifeInv => NeverOnFreedStack
BY DEF LifeInv, NeverOnFreedStack, ReadyExact, Runnable

\* The program that Initialize() makes a thread of.
LEMMA LifeInvInit == LifeInit => LifeInv
<1> SUFFICES ASSUME LifeInit PROVE LifeInv
  OBVIOUS
<1> USE LifeAssumption
<1>1. scheduler \in SchedulerState
  BY DEF LifeInit, SchedulerState, Status
<1>2. LifeTypeOK
  BY <1>1 DEF LifeInit, LifeTypeOK, Objects
<1>3. ReadyExact(scheduler)
  BY EmptyOn, Zenon DEF LifeInit, ReadyExact
<1> QED BY <1>2, <1>3, Zenon DEF LifeInit, LifeInv, Idling

\* What the three ways to leave the CPU do to the current thread and to the
\* status of the threads, when a thread is ready.
LEMMA RunEffect ==
  ASSUME NEW s \in SchedulerState, s.readyList # << >>
  PROVE  LET next == Head(s.readyList) IN
         /\ next \in Threads /\ next \in On(s.readyList)
         /\ Run(s).currentThread = next
         /\ \A u \in Threads : Run(s).status[u] = IF u = next THEN "RUNNING" ELSE s.status[u]
<1>1. Head(s.readyList) \in Threads /\ Head(s.readyList) \in On(s.readyList)
  BY TailOn, Zenon DEF SchedulerState
<1> QED BY <1>1 DEF Run, SchedulerState

\* The same of Yield: the thread that gives up the CPU becomes READY.
LEMMA YieldEffect ==
  ASSUME NEW s \in SchedulerState, ReadyExact(s), s.status[s.currentThread] = "RUNNING",
         s.readyList # << >>
  PROVE  LET next == Head(s.readyList) IN
         /\ Yield(s).currentThread = next
         /\ \A u \in Threads : Yield(s).status[u] =
              IF u = next THEN "RUNNING" ELSE IF u = s.currentThread THEN "READY" ELSE s.status[u]
<1> DEFINE r == ReadyToRun(s, s.currentThread)
<1>1. /\ s.readyList \in Seq(Threads) /\ s.currentThread \in Threads
      /\ s.status \in [Threads -> Status]
  BY DEF SchedulerState
<1>2. /\ r.readyList = Append(s.readyList, s.currentThread)
      /\ r.currentThread = s.currentThread
      /\ r.status = [s.status EXCEPT ![s.currentThread] = "READY"]
  BY SMTT(60) DEF ReadyToRun, SchedulerState
<1>3. r \in SchedulerState
  BY <1>1, ReadyToRunKeeps
<1>4. r.readyList # << >> /\ Head(r.readyList) = Head(s.readyList)
  BY <1>1, <1>2, AppendOn
<1>5. Yield(s) = Run(r)
  BY Zenon  DEF Yield
<1> HIDE DEF r
<1> QED BY <1>1, <1>2, <1>3, <1>4, <1>5, RunEffect, SMTT(60)

\* The same of Sleep: the thread that sleeps is BLOCKED.
LEMMA SleepEffect ==
  ASSUME NEW s \in SchedulerState
  PROVE  /\ s.readyList = << >> =>
              /\ Sleep(s).currentThread = s.currentThread
              /\ \A u \in Threads : Sleep(s).status[u] =
                   IF u = s.currentThread THEN "BLOCKED" ELSE s.status[u]
         /\ s.readyList # << >> =>
              /\ Sleep(s).currentThread = Head(s.readyList)
              /\ \A u \in Threads : Sleep(s).status[u] =
                   IF u = Head(s.readyList) THEN "RUNNING"
                   ELSE IF u = s.currentThread THEN "BLOCKED" ELSE s.status[u]
<1> DEFINE b == [s EXCEPT !.status[s.currentThread] = "BLOCKED"]
<1>1. /\ b \in SchedulerState /\ b.readyList = s.readyList /\ b.currentThread = s.currentThread
      /\ b.status = [s.status EXCEPT ![s.currentThread] = "BLOCKED"]
      /\ s.status \in [Threads -> Status] /\ s.currentThread \in Threads
  BY DEF SchedulerState, Status
<1>2. Sleep(s) = IF s.readyList = << >> THEN b ELSE Run(b)
  BY <1>1 DEF Sleep
<1> HIDE DEF b
<1>3. CASE s.readyList = << >>
  BY <1>1, <1>2, <1>3, Zenon
<1>4. CASE s.readyList # << >>
  BY <1>1, <1>2, <1>4, RunEffect, SMTT(60)
<1> QED BY <1>3, <1>4

\* The code after SWITCH, in the thread that is switched to, restores the
\* invariant, and deletes none but the carcass.
LEMMA SwitchKeeps ==
  ASSUME NEW next \in Threads, NEW obj \in [Threads -> Objects],
         NEW carcass \in Threads \cup {NoThread},
         carcass \in Threads => obj[carcass] = "finished",
         obj[next] \in Runnable,
         scheduler' \in SchedulerState, ReadyExact(scheduler'), scheduler'.currentThread = next,
         \A u \in Threads : scheduler'.status[u] = "READY" => obj[u] \in Runnable,
         AfterSwitch(next, obj, carcass)
  PROVE  /\ LifeInv'
         /\ \A t \in Threads : obj[t] # "none" /\ object'[t] = "none" => t = carcass
<1> USE LifeAssumption
<1>1. CASE obj[next] = "fresh"
  <2>1. object' = [obj EXCEPT ![next] = "started"] /\ threadToBeDestroyed' = carcass
    BY <1>1 DEF AfterSwitch
  <2>2. LifeTypeOK'
    BY <2>1, ZenonT(60) DEF LifeTypeOK, Objects
  <2> QED BY <1>1, <2>1, <2>2 DEF LifeInv, Runnable
<1>2. CASE obj[next] = "started"
  <2>1. /\ object' = [t \in Threads |-> IF t = carcass THEN "none" ELSE obj[t]]
        /\ threadToBeDestroyed' = NoThread
    BY <1>2 DEF AfterSwitch
  <2>2. LifeTypeOK'
    BY <2>1 DEF LifeTypeOK, Objects
  <2> QED BY <1>2, <2>1, <2>2 DEF LifeInv, Runnable
<1> QED BY <1>1, <1>2, ZenonT(60) DEF Runnable

\* What a step may do to the objects: OnlyFinishedDeleted as a formula.
DeletesOnlyFinished ==
  \A t \in Threads : object[t] # "none" /\ object'[t] = "none"
    => \/ object[t] = "finished"
       \/ t = scheduler.currentThread /\ scheduler'.status[t] = "BLOCKED"

\* Every step keeps the invariant and deletes only finished threads.
LEMMA LifeStep == ASSUME LifeInv, [LifeNext]_lifeVars PROVE LifeInv' /\ DeletesOnlyFinished
<1> USE LifeAssumption
<1>0. /\ scheduler \in SchedulerState /\ ReadyExact(scheduler) /\ scheduler.currentThread \in Threads
      /\ scheduler.readyList \in Seq(Threads) /\ scheduler.status \in [Threads -> Status]
      /\ object \in [Threads -> Objects] /\ threadToBeDestroyed \in Threads \cup {NoThread}
  BY Zenon  DEF LifeInv, LifeTypeOK, SchedulerState
<1>1. scheduler.readyList # << >> =>
        LET next == Head(scheduler.readyList) IN
        next \in Threads /\ scheduler.status[next] = "READY" /\ object[next] \in Runnable
  BY <1>0, RunEffect, Zenon DEF LifeInv, ReadyExact
<1>2. ASSUME NEW t \in Threads, Construct(t) PROVE LifeInv' /\ DeletesOnlyFinished
  <2>1. /\ object[t] = "none" /\ object' = [object EXCEPT ![t] = "new"]
        /\ scheduler' = [scheduler EXCEPT !.status[t] = "JUST_CREATED"]
        /\ threadToBeDestroyed' = threadToBeDestroyed /\ ~Idling(scheduler)
    BY <1>2 DEF Construct
  <2>2. t # scheduler.currentThread /\ scheduler.status[t] # "READY"
    BY <2>1 DEF LifeInv, Runnable
  <2>3. /\ scheduler' \in SchedulerState /\ scheduler'.currentThread = scheduler.currentThread
        /\ scheduler'.readyList = scheduler.readyList
        /\ scheduler'.status = [scheduler.status EXCEPT ![t] = "JUST_CREATED"]
    BY <1>0, <2>1, Zenon DEF SchedulerState, Status
  <2>4. ReadyExact(scheduler')
    BY <1>0, <2>2, <2>3 DEF ReadyExact
  <2>5. LifeTypeOK'
    BY <1>0, <2>1, <2>3 DEF LifeTypeOK, Objects
  <2>6. DeletesOnlyFinished
    BY <1>0, <2>1, Zenon DEF DeletesOnlyFinished
  <2> QED BY <1>0, <2>1, <2>2, <2>3, <2>4, <2>5, <2>6, SMTT(60) DEF LifeInv, Idling
<1>3. ASSUME NEW t \in Threads, Fork(t) PROVE LifeInv' /\ DeletesOnlyFinished
  <2>1. /\ object[t] = "new" /\ object' = [object EXCEPT ![t] = "fresh"]
        /\ scheduler' = ReadyToRun(scheduler, t)
        /\ threadToBeDestroyed' = threadToBeDestroyed
    BY <1>3 DEF Fork
  <2>2. t # scheduler.currentThread /\ scheduler.status[t] # "READY"
    BY <2>1, Zenon DEF LifeInv, Runnable
  <2>3. /\ scheduler' \in SchedulerState /\ ReadyExact(scheduler')
        /\ scheduler'.currentThread = scheduler.currentThread
        /\ \A u \in Threads : scheduler'.status[u] = IF u = t THEN "READY" ELSE scheduler.status[u]
    BY <1>0, <2>1, <2>2, ReadyToRunKeeps, ZenonT(60)
  <2>4. LifeTypeOK'
    BY <1>0, <2>1, <2>3, Zenon DEF LifeTypeOK, Objects
  <2>5. DeletesOnlyFinished
    BY <1>0, <2>1, Zenon DEF DeletesOnlyFinished
  <2> QED BY <1>0, <2>1, <2>2, <2>3, <2>4, <2>5, Zenon DEF LifeInv, Idling, Runnable
<1>4. ASSUME NEW t \in Threads, Wake(t) PROVE LifeInv' /\ DeletesOnlyFinished
  <2>1. /\ object[t] = "started" /\ scheduler.status[t] = "BLOCKED"
        /\ scheduler' = ReadyToRun(scheduler, t)
        /\ object' = object /\ threadToBeDestroyed' = threadToBeDestroyed
    BY <1>4, Zenon DEF Wake
  <2>2. /\ scheduler' \in SchedulerState /\ ReadyExact(scheduler')
        /\ scheduler'.currentThread = scheduler.currentThread
        /\ \A u \in Threads : scheduler'.status[u] = IF u = t THEN "READY" ELSE scheduler.status[u]
    BY <1>0, <2>1, ReadyToRunKeeps, ZenonT(60)
  <2>3. LifeTypeOK'
    BY <1>0, <2>1, <2>2 DEF LifeTypeOK
  <2>4. DeletesOnlyFinished
    BY <2>1, Zenon DEF DeletesOnlyFinished
  <2> QED BY <1>0, <2>1, <2>2, <2>3, <2>4, Zenon DEF LifeInv, Idling, Runnable
<1>5. ASSUME ThreadYield PROVE LifeInv' /\ DeletesOnlyFinished
  <2> DEFINE next == Head(scheduler.readyList)
  <2>1. /\ scheduler.readyList # << >> /\ ~Idling(scheduler) /\ scheduler' = Yield(scheduler)
        /\ AfterSwitch(next, object, threadToBeDestroyed)
    BY <1>5, Zenon DEF ThreadYield
  <2>2. scheduler' \in SchedulerState /\ ReadyExact(scheduler')
    BY <1>0, <2>1, YieldKeeps, Zenon DEF Idling
  <2>3. /\ scheduler'.currentThread = next
        /\ \A u \in Threads : scheduler'.status[u] = "READY" => object[u] \in Runnable
    BY <1>0, <2>1, YieldEffect, Zenon DEF LifeInv, Runnable, Idling
  <2>4. /\ LifeInv'
        /\ \A t \in Threads : object[t] # "none" /\ object'[t] = "none" => t = threadToBeDestroyed
    BY <1>0, <1>1, <2>1, <2>2, <2>3, SwitchKeeps, ZenonT(60) DEF LifeInv
  <2> QED BY <2>4, Zenon DEF LifeInv, DeletesOnlyFinished
<1>6. ASSUME ThreadSleep PROVE LifeInv' /\ DeletesOnlyFinished
  <2> DEFINE next == Head(scheduler.readyList)
  <2>1. ~Idling(scheduler) /\ scheduler' = Sleep(scheduler)
    BY <1>6, SMTT(60) DEF ThreadSleep
  <2>2. scheduler' \in SchedulerState /\ ReadyExact(scheduler')
    BY <1>0, <2>1, SleepKeeps, Zenon DEF Idling
  <2>3. CASE scheduler.readyList = << >>
    <3>1. object' = object /\ threadToBeDestroyed' = threadToBeDestroyed
      BY <1>6, <2>3, Zenon DEF ThreadSleep
    <3>2. /\ scheduler'.currentThread = scheduler.currentThread
          /\ \A u \in Threads : scheduler'.status[u] =
               IF u = scheduler.currentThread THEN "BLOCKED" ELSE scheduler.status[u]
      BY <1>0, <2>1, <2>3, SleepEffect, Zenon
    <3>3. LifeTypeOK'
      BY <1>0, <2>2, <3>1, ZenonT(60) DEF LifeTypeOK
    <3> QED BY <1>0, <2>2, <3>1, <3>2, <3>3 DEF LifeInv, Idling, DeletesOnlyFinished
  <2>4. CASE scheduler.readyList # << >>
    <3>1. AfterSwitch(next, object, threadToBeDestroyed)
      BY <1>6, <2>4, ZenonT(60) DEF ThreadSleep
    <3>2. /\ scheduler'.currentThread = next
          /\ \A u \in Threads : scheduler'.status[u] = "READY" => object[u] \in Runnable
      BY <1>0, <2>1, <2>4, SleepEffect, SMTT(60) DEF LifeInv
    <3>3. /\ LifeInv'
          /\ \A t \in Threads : object[t] # "none" /\ object'[t] = "none" => t = threadToBeDestroyed
      BY <1>0, <1>1, <2>2, <2>4, <3>1, <3>2, SwitchKeeps, ZenonT(60) DEF LifeInv
    <3> QED BY <3>3 DEF LifeInv, DeletesOnlyFinished
  <2> QED BY <2>3, <2>4
<1>7. ASSUME Finish PROVE LifeInv' /\ DeletesOnlyFinished
  <2> DEFINE next == Head(scheduler.readyList)
             t == scheduler.currentThread
             obj == [object EXCEPT ![t] = "finished"]
  <2>1. ~Idling(scheduler) /\ scheduler' = Sleep(scheduler)
    BY <1>7 DEF Finish
  <2>2. scheduler' \in SchedulerState /\ ReadyExact(scheduler')
    BY <1>0, <2>1, SleepKeeps DEF Idling
  <2>3. /\ obj \in [Threads -> Objects] /\ obj[t] = "finished" /\ object[t] = "started"
        /\ \A u \in Threads : u # t => obj[u] = object[u]
    BY <1>0, <2>1, Zenon DEF LifeInv, Objects
  <2>4. CASE scheduler.readyList = << >>
    <3>1. object' = obj /\ threadToBeDestroyed' = t
      BY <1>7, <2>4, Zenon DEF Finish
    <3>2. /\ scheduler'.currentThread = t
          /\ \A u \in Threads : scheduler'.status[u] = IF u = t THEN "BLOCKED" ELSE scheduler.status[u]
      BY <1>0, <2>1, <2>4, SleepEffect, Zenon
    <3>3. LifeTypeOK'
      BY <1>0, <2>2, <2>3, <3>1, SMTT(60) DEF LifeTypeOK
    <3>4. DeletesOnlyFinished
      BY <1>0, <2>3, <3>1, Zenon DEF DeletesOnlyFinished
    <3> QED BY <1>0, <2>2, <2>3, <3>1, <3>2, <3>3, <3>4, Zenon DEF LifeInv, Idling
  <2>5. CASE scheduler.readyList # << >>
    <3>1. AfterSwitch(next, obj, t)
      BY <1>7, <2>5, Zenon DEF Finish
    <3>2. next # t /\ obj[next] \in Runnable /\ next \in Threads
      BY <1>0, <1>1, <2>1, <2>3, <2>5, Zenon DEF Idling
    <3>3. /\ scheduler'.currentThread = next
          /\ \A u \in Threads : scheduler'.status[u] = IF u = next THEN "RUNNING"
                                  ELSE IF u = t THEN "BLOCKED" ELSE scheduler.status[u]
      BY <1>0, <2>1, <2>5, SleepEffect, ZenonT(60)
    <3>4. \A u \in Threads : scheduler'.status[u] = "READY" => obj[u] \in Runnable
      BY <2>3, <3>3, Zenon DEF LifeInv
    <3>5. /\ LifeInv'
          /\ \A u \in Threads : obj[u] # "none" /\ object'[u] = "none" => u = t
      <4> HIDE DEF obj
      <4> QED BY <1>0, <2>2, <2>3, <3>1, <3>2, <3>3, <3>4, SwitchKeeps, SMTT(60)
    <3>6. scheduler'.status[t] = "BLOCKED"
      BY <1>0, <3>2, <3>3, Zenon
    <3> QED BY <1>0, <2>3, <3>5, <3>6, SMTT(60) DEF DeletesOnlyFinished
  <2> QED BY <2>4, <2>5
<1>8. ASSUME IdleSwitch PROVE LifeInv' /\ DeletesOnlyFinished
  <2> DEFINE next == Head(scheduler.readyList)
  <2>1. /\ scheduler.readyList # << >> /\ Idling(scheduler) /\ scheduler' = Run(scheduler)
        /\ AfterSwitch(next, object, threadToBeDestroyed)
    BY <1>8, Zenon DEF IdleSwitch
  <2>2. CPUFree(scheduler)
    BY <1>0, <2>1, Zenon DEF CPUFree, Idling, ReadyExact
  <2>3. scheduler' \in SchedulerState /\ ReadyExact(scheduler')
    BY <1>0, <2>1, <2>2, RunKeeps, ZenonT(60)
  <2>4. /\ scheduler'.currentThread = next
        /\ \A u \in Threads : scheduler'.status[u] = "READY" => object[u] \in Runnable
    BY <1>0, <2>1, RunEffect, SMTT(60) DEF LifeInv
  <2>5. /\ LifeInv'
        /\ \A t \in Threads : object[t] # "none" /\ object'[t] = "none" => t = threadToBeDestroyed
    BY <1>0, <1>1, <2>1, <2>3, <2>4, SwitchKeeps, ZenonT(60) DEF LifeInv
  <2> QED BY <2>5 DEF LifeInv, DeletesOnlyFinished
<1>9. ASSUME UNCHANGED lifeVars PROVE LifeInv' /\ DeletesOnlyFinished
  BY <1>9 DEF lifeVars, LifeInv, LifeTypeOK, DeletesOnlyFinished
<1> QED
  BY <1>2, <1>3, <1>4, <1>5, <1>6, <1>7, <1>8, <1>9, Zenon DEF LifeNext

\* The CPU is never on the stack of a deleted thread and never switches to a
\* deleted or finished one.
THEOREM NoFreedStack == LifeSpec => []NeverOnFreedStack
<1>1. LifeInv /\ [LifeNext]_lifeVars => LifeInv'
  BY LifeStep
<1> QED BY <1>1, LifeInvInit, LifeInvImplies, PTL DEF LifeSpec

\* Scheduler::Run deletes only threads that have called Finish.
THEOREM DeletionIsFinal == LifeSpec => OnlyFinishedDeleted
<1>1. LifeInv /\ [LifeNext]_lifeVars => LifeInv'
  BY LifeStep
<1>2. LifeInv /\ [LifeNext]_lifeVars =>
        [\A t \in Threads : object[t] # "none" /\ object'[t] = "none"
           => \/ object[t] = "finished"
              \/ t = scheduler.currentThread /\ scheduler'.status[t] = "BLOCKED"]_lifeVars
  BY LifeStep DEF DeletesOnlyFinished
<1> QED BY <1>1, <1>2, LifeInvInit, PTL DEF LifeSpec, OnlyFinishedDeleted
=============================================================================
