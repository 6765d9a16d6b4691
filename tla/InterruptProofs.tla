-------------------------- MODULE InterruptProofs ---------------------------
(***************************************************************************)
(* The simulated interrupt hardware for every number of threads, every     *)
(* delay of the devices and unbounded time: no interrupt is late, user     *)
(* code runs in UserMode however the yields of OneTick nest, and the       *)
(* machine halts by itself only when all is done.                          *)
(***************************************************************************)
EXTENDS Interrupt, SynchProofs

Executes == {"run", "check", "return", "resume"}

\* The scheduler: a thread executes, or the machine is in the loop of Sleep.
SchedInv ==
  /\ scheduler \in SchedulerState /\ ReadyExact(scheduler)
  /\ \A t \in Threads : scheduler.status[t] # "JUST_CREATED"
  /\ at \in CPU
  /\ at \in Executes => scheduler.status[Current] = "RUNNING"
  /\ at \notin Executes => \A t \in Threads : scheduler.status[t] # "RUNNING"
  /\ at = "idle" => scheduler.readyList = << >>

\* The list of pending interrupts is sorted, and how late the first may be.
Entry == [type : IntTypes, when : Int]
Sorted(q) == \A i, j \in 1..Len(q) : i < j => q[i].when <= q[j].when
From(q, least) == \A i \in 1..Len(q) : q[i].when >= least

TimeInv ==
  /\ pending \in Seq(Entry) /\ Sorted(pending)
  /\ status = "IdleMode" => at \in {"idling", "halted"}
  /\ at \in {"run", "return"} => From(pending, 1)
  /\ at \in {"resume", "idle", "idling", "halted"} => From(pending, 0)
  /\ From(pending, -SystemTick)

\* The calls of OneTick a thread can be inside of: one from an instruction or
\* from the kernel, and perhaps those from the Yields of OneTick itself.
FromUser == [caller |-> "instruction", old |-> "UserMode"]
FromKernel == [caller |-> "kernel", old |-> "SystemMode"]
FromYield == [caller |-> "yield", old |-> "SystemMode"]
Stacks == {<< >>, <<FromUser>>, <<FromKernel>>, <<FromUser, FromYield>>, <<FromKernel, FromYield>>}

ModeInv ==
  /\ doing \in [Threads -> {"start", "user", "kernel", "requested", "done"}]
  /\ frames \in [Threads -> Stacks]
  /\ \A t \in Threads :
       /\ frames[t] # << >> => (doing[t] = "user" <=> frames[t][1] = FromUser)
       /\ doing[t] = "user" /\ frames[t] = << >> => at = "run" /\ t = Current
  /\ at = "run" => /\ frames[Current] = << >> /\ level = "IntOn"
                   /\ status = IF doing[Current] = "user" THEN "UserMode" ELSE "SystemMode"
  /\ at \in {"check", "return"} => /\ frames[Current] # << >>
                                   /\ status = Innermost(frames[Current]).old
  /\ at = "return" => level = "IntOn"
  /\ at \in {"check", "resume", "idle", "idling"} => level = "IntOff"
  /\ at \in {"resume", "idle"} => status = "SystemMode"

\* Whoever is blocked has finished or has an interrupt of the disk to come.
DiskPending == \E i \in 1..Len(pending) : pending[i].type = "DiskInt"
HaltInv ==
  /\ \A t \in Blocked(scheduler) : doing[t] \in {"requested", "done"}
  /\ \A t \in Threads : doing[t] = "requested" =>
       /\ t \in Blocked(scheduler) \/ (t = Current /\ at = "run") => DiskPending
       /\ \A u \in Threads : doing[u] = "requested" => u = t
  /\ at \in {"check", "return"} => doing[Current] # "requested"
  /\ HaltMeansCompleted

IntInv == SchedInv /\ TimeInv /\ ModeInv /\ HaltInv
-----------------------------------------------------------------------------
(* The list of pending interrupts. *)

\* SortedInsert keeps the list sorted, puts nothing before its time and drops
\* nothing.
LEMMA InsertKeeps ==
  ASSUME NEW q \in Seq(Entry), Sorted(q), NEW e \in Entry, NEW r \in SortedInsert(q, e)
  PROVE  /\ r \in Seq(Entry) /\ Sorted(r)
         /\ \A least \in Int : From(q, least) /\ e.when >= least => From(r, least)
         /\ \A i \in 1..Len(q) : \E k \in 1..Len(r) : r[k] = q[i]
         /\ \E k \in 1..Len(r) : r[k] = e
<1>1. PICK p \in 1..(Len(q) + 1) :
        /\ r = InsertAt(q, p, e)
        /\ \A j \in 1..(p - 1) : q[j].when <= e.when
        /\ p <= Len(q) => e.when < q[p].when
  BY DEF SortedInsert
<1>2. Len(q) \in Nat /\ \A j \in 1..Len(q) : q[j] \in Entry
  OBVIOUS
<1>3. \A j \in 1..(Len(q) + 1) : r[j] = IF j < p THEN q[j] ELSE IF j = p THEN e ELSE q[j - 1]
  BY <1>1 DEF InsertAt
<1>4. r \in Seq(Entry) /\ Len(r) = Len(q) + 1
  <2>1. r \in [1..(Len(q) + 1) -> Entry]
    BY <1>1, <1>2 DEF InsertAt
  <2> QED BY <1>2, <2>1
<1>5. \A j \in 1..Len(q) : q[j].when \in Int
  BY <1>2 DEF Entry
<1>6. e.when \in Int
  BY DEF Entry
<1>7. \A j \in p..Len(q) : e.when < q[j].when
  BY <1>1, <1>2, <1>5, <1>6, SMTT(60) DEF Sorted
<1>8. Sorted(r)
  <2> SUFFICES ASSUME NEW i \in 1..(Len(q) + 1), NEW j \in 1..(Len(q) + 1), i < j
               PROVE  r[i].when <= r[j].when
    BY <1>4 DEF Sorted
  <2>1. CASE j < p
    <3>1. r[i] = q[i] /\ r[j] = q[j] /\ i \in 1..Len(q) /\ j \in 1..Len(q)
      BY <1>2, <1>3, <2>1
    <3> QED BY <3>1 DEF Sorted
  <2>2. CASE j = p
    BY <1>1, <1>2, <1>3, <2>2
  <2>3. CASE j > p /\ i < p
    <3>1. q[i].when <= e.when /\ e.when < q[j - 1].when
      BY <1>1, <1>2, <1>7, <2>3
    <3>2. r[i] = q[i] /\ r[j] = q[j - 1] /\ i \in 1..Len(q) /\ j - 1 \in 1..Len(q)
      BY <1>2, <1>3, <2>3
    <3> QED BY <1>5, <1>6, <3>1, <3>2, SMTT(60)
  <2>4. CASE j > p /\ i = p
    <3>1. e.when < q[j - 1].when
      BY <1>2, <1>7, <2>4
    <3> QED BY <1>2, <1>3, <1>5, <1>6, <2>4, <3>1, SMTT(60)
  <2>5. CASE i > p
    <3>1. /\ r[i] = q[i - 1] /\ r[j] = q[j - 1]
          /\ i - 1 \in 1..Len(q) /\ j - 1 \in 1..Len(q) /\ i - 1 < j - 1
      BY <1>2, <1>3, <2>5
    <3> QED BY <3>1 DEF Sorted
  <2> QED BY <1>2, <2>1, <2>2, <2>3, <2>4, <2>5
<1>9. ASSUME NEW least \in Int, From(q, least), e.when >= least PROVE From(r, least)
  <2> SUFFICES ASSUME NEW j \in 1..(Len(q) + 1) PROVE r[j].when >= least
    BY <1>4 DEF From
  <2>1. r[j] = e \/ \E i \in 1..Len(q) : r[j] = q[i]
    BY <1>2, <1>3
  <2> QED BY <1>9, <2>1 DEF From
<1>10. ASSUME NEW i \in 1..Len(q) PROVE \E k \in 1..Len(r) : r[k] = q[i]
  <2>1. CASE i < p
    BY <1>2, <1>3, <1>4, <2>1
  <2>2. CASE i >= p
    <3>1. i + 1 \in 1..(Len(q) + 1) /\ r[i + 1] = q[i]
      BY <1>2, <1>3, <2>2
    <3> QED BY <1>4, <3>1
  <2> QED BY <1>2, <2>1, <2>2
<1>11. \E k \in 1..Len(r) : r[k] = e
  BY <1>3, <1>4
<1> QED BY <1>4, <1>8, <1>9, <1>10, <1>11

\* The clock makes every interrupt nearer by the same time.
LEMMA AfterKeeps ==
  ASSUME NEW q \in Seq(Entry), Sorted(q), NEW ticks \in Int
  PROVE  /\ After(q, ticks) \in Seq(Entry) /\ Sorted(After(q, ticks))
         /\ Len(After(q, ticks)) = Len(q)
         /\ \A i \in 1..Len(q) : /\ After(q, ticks)[i].type = q[i].type
                                 /\ After(q, ticks)[i].when = q[i].when - ticks
         /\ \A least \in Int : From(q, least) => From(After(q, ticks), least - ticks)
<1>1. DOMAIN q = 1..Len(q) /\ Len(q) \in Nat /\ \A i \in 1..Len(q) : q[i] \in Entry
  OBVIOUS
<1>2. \A i \in 1..Len(q) : /\ After(q, ticks)[i] \in Entry
                           /\ After(q, ticks)[i].type = q[i].type
                           /\ After(q, ticks)[i].when = q[i].when - ticks
  BY <1>1 DEF After, Entry
<1>3. After(q, ticks) \in [1..Len(q) -> Entry]
  BY <1>1, <1>2, Zenon DEF After
<1>4. After(q, ticks) \in Seq(Entry) /\ Len(After(q, ticks)) = Len(q)
  BY <1>1, <1>3
<1>5. \A i \in 1..Len(q) : q[i].when \in Int
  BY <1>1 DEF Entry
<1>6. Sorted(After(q, ticks))
  <2> DEFINE r == After(q, ticks)
  <2> HIDE DEF r
  <2> SUFFICES ASSUME NEW i \in 1..Len(q), NEW j \in 1..Len(q), i < j
               PROVE  r[i].when <= r[j].when
    BY <1>4 DEF Sorted, r
  <2>1. r[i].when = q[i].when - ticks /\ r[j].when = q[j].when - ticks
    BY <1>2 DEF r
  <2>2. q[i].when <= q[j].when
    BY DEF Sorted
  <2> QED BY <1>5, <2>1, <2>2
<1>7. ASSUME NEW least \in Int, From(q, least) PROVE From(After(q, ticks), least - ticks)
  BY <1>2, <1>4, <1>5, <1>7, SMTT(60) DEF From
<1> QED BY <1>2, <1>4, <1>6, <1>7

\* List::SortedRemove takes the first.
LEMMA RestKeeps ==
  ASSUME NEW q \in Seq(Entry), Sorted(q), q # << >>
  PROVE  /\ Tail(q) \in Seq(Entry) /\ Sorted(Tail(q)) /\ Head(q) \in Entry
         /\ \A least \in Int : From(q, least) => From(Tail(q), least)
         /\ \A i \in 1..Len(q) : q[i] = Head(q) \/ \E k \in 1..Len(Tail(q)) : Tail(q)[k] = q[i]
<1>1. /\ Tail(q) \in Seq(Entry) /\ Len(Tail(q)) = Len(q) - 1 /\ Len(q) \in Nat \ {0}
      /\ Head(q) = q[1] /\ Head(q) \in Entry
      /\ \A k \in 1..(Len(q) - 1) : Tail(q)[k] = q[k + 1]
  OBVIOUS
<1>2. Sorted(Tail(q))
  BY <1>1 DEF Sorted
<1>3. ASSUME NEW least \in Int, From(q, least) PROVE From(Tail(q), least)
  BY <1>1, <1>3 DEF From
<1>4. ASSUME NEW i \in 1..Len(q) PROVE q[i] = Head(q) \/ \E k \in 1..Len(Tail(q)) : Tail(q)[k] = q[i]
  <2>1. CASE i = 1
    BY <1>1, <2>1
  <2>2. CASE i # 1
    <3>1. i - 1 \in 1..(Len(q) - 1) /\ Tail(q)[i - 1] = q[i]
      BY <1>1, <2>2
    <3> QED BY <1>1, <3>1
  <2> QED BY <2>1, <2>2
<1> QED BY <1>1, <1>2, <1>3, <1>4
-----------------------------------------------------------------------------
(* The scheduler. *)

\* Thread::Sleep leaves another thread running, or the CPU in its loop.
LEMMA SleepLeaves ==
  ASSUME NEW s \in SchedulerState, ReadyExact(s), s.status[s.currentThread] = "RUNNING"
  PROVE  /\ s.readyList = << >> => CPUFree(Sleep(s)) /\ Sleep(s).readyList = << >>
         /\ s.readyList # << >> => Sleep(s).status[Sleep(s).currentThread] = "RUNNING"
<1> DEFINE b == [s EXCEPT !.status[s.currentThread] = "BLOCKED"]
<1>1. /\ s.readyList \in Seq(Threads)
      /\ s.status \in [Threads -> Status]
      /\ s.currentThread \in Threads
  BY DEF SchedulerState
<1>2. /\ b \in SchedulerState
      /\ b.currentThread = s.currentThread
      /\ b.readyList = s.readyList
      /\ b.status = [s.status EXCEPT ![s.currentThread] = "BLOCKED"]
  BY <1>1 DEF SchedulerState, Status
<1>3. \A u \in Threads : b.status[u] = IF u = s.currentThread THEN "BLOCKED" ELSE s.status[u]
  BY <1>1, <1>2
<1>4. Sleep(s) = IF b.readyList = << >> THEN b ELSE Run(b)
  BY DEF Sleep
<1> HIDE DEF b
<1>5. ReadyExact(b) /\ CPUFree(b)
  BY <1>2, <1>3 DEF ReadyExact, CPUFree
<1>6. b.readyList # << >> => Run(b).status[Run(b).currentThread] = "RUNNING"
  BY <1>2, <1>5, RunKeeps
<1> QED BY <1>2, <1>4, <1>5, <1>6

\* An interrupt is the disk's, which wakes, or a device's that polls again.
LEMMA FireCases ==
  ASSUME NEW q \in Seq(Entry), q # << >>, Fire(q)
  PROVE  \/ /\ Head(q).type # "DiskInt" /\ UNCHANGED <<scheduler, value>>
            /\ \E e \in Entry : e.when > 0 /\ e.type = Head(q).type /\ pending' \in SortedInsert(Tail(q), e)
         \/ Head(q).type = "DiskInt" /\ DiskDone(Tail(q))
<1>0. Head(q) \in Entry
  OBVIOUS
<1>1. Head(q).type \in IntTypes
  BY <1>0 DEF Entry
<1>2. CASE Head(q).type = "TimerInt"
  <2>1. TimerExpired(Tail(q))
    BY <1>2, Zenon DEF Fire
  <2>2. PICK d \in TimerDelays : pending' \in SortedInsert(Tail(q), [type |-> "TimerInt", when |-> d])
    BY <2>1 DEF TimerExpired, Schedule
  <2>3. d \in Nat \ {0}
    BY InterruptAssumption
  <2>4. [type |-> "TimerInt", when |-> d] \in Entry
    BY <2>3 DEF Entry, IntTypes
  <2> QED BY <1>2, <2>1, <2>2, <2>3, <2>4 DEF TimerExpired
<1>3. CASE Head(q).type = "DiskInt"
  BY <1>3, Zenon DEF Fire
<1>4. CASE Head(q).type = "ConsoleReadInt"
  <2>1. ConsolePoll(Tail(q))
    BY <1>4, Zenon DEF Fire
  <2>2. pending' \in SortedInsert(Tail(q), [type |-> "ConsoleReadInt", when |-> ConsoleTime])
    BY <2>1 DEF ConsolePoll, Schedule
  <2>3. ConsoleTime \in Nat \ {0}
    BY InterruptAssumption
  <2>4. [type |-> "ConsoleReadInt", when |-> ConsoleTime] \in Entry
    BY <2>3 DEF Entry, IntTypes
  <2> QED BY <1>4, <2>1, <2>2, <2>3, <2>4 DEF ConsolePoll
<1> QED BY <1>1, <1>2, <1>3, <1>4 DEF IntTypes

\* The interrupt of the disk wakes the one thread that waits for it.
LEMMA DiskWakesOne ==
  ASSUME HaltInv, NEW q, DiskDone(q)
  PROVE  \/ /\ UNCHANGED scheduler
            /\ \A t \in Threads : doing[t] = "requested" => t \notin Blocked(scheduler)
         \/ \E t \in Blocked(scheduler) :
              doing[t] = "requested" /\ scheduler' = ReadyToRun(scheduler, t)
<1>1. CASE \E t \in Threads : doing[t] = "requested" /\ scheduler.status[t] = "BLOCKED"
  <2>1. PICK t \in Threads : doing[t] = "requested" /\ scheduler.status[t] = "BLOCKED"
    BY <1>1
  <2>2. (CHOOSE u \in Threads : doing[u] = "requested") = t
    BY <2>1 DEF HaltInv
  <2>3. t \in Blocked(scheduler)
    BY <2>1 DEF Blocked
  <2> QED BY <1>1, <2>1, <2>2, <2>3, Zenon DEF DiskDone
<1>2. CASE ~ \E t \in Threads : doing[t] = "requested" /\ scheduler.status[t] = "BLOCKED"
  BY <1>2 DEF DiskDone, Blocked
<1> QED BY <1>1, <1>2

\* What a handler does to the scheduler.
LEMMA FireWakes ==
  ASSUME IntInv, NEW q \in Seq(Entry), q # << >>, Fire(q)
  PROVE  /\ scheduler' \in SchedulerState /\ ReadyExact(scheduler')
         /\ Current' = Current
         /\ Blocked(scheduler') \subseteq Blocked(scheduler)
         /\ \A u \in Threads : /\ scheduler'.status[u] # "JUST_CREATED"
                               /\ scheduler'.status[u] = "RUNNING" <=> scheduler.status[u] = "RUNNING"
<1>1. scheduler \in SchedulerState /\ ReadyExact(scheduler) /\ HaltInv
      /\ \A u \in Threads : scheduler.status[u] # "JUST_CREATED"
  BY DEF IntInv, SchedInv
<1>2. CASE UNCHANGED scheduler
  BY <1>1, <1>2 DEF Current
<1>3. ASSUME NEW t \in Blocked(scheduler), scheduler' = ReadyToRun(scheduler, t)
      PROVE  /\ scheduler' \in SchedulerState /\ ReadyExact(scheduler')
             /\ Current' = Current
             /\ Blocked(scheduler') \subseteq Blocked(scheduler)
             /\ \A u \in Threads : /\ scheduler'.status[u] # "JUST_CREATED"
                                   /\ scheduler'.status[u] = "RUNNING" <=> scheduler.status[u] = "RUNNING"
  <2>1. t \in Threads /\ scheduler.status[t] = "BLOCKED"
    BY DEF Blocked
  <2>2. /\ scheduler' \in SchedulerState /\ ReadyExact(scheduler')
        /\ Blocked(scheduler') = Blocked(scheduler) \ {t}
        /\ scheduler'.currentThread = scheduler.currentThread
    BY <1>1, <1>3, <2>1, ReadyToRunKeeps
  <2>3. \A u \in Threads : scheduler'.status[u] = IF u = t THEN "READY" ELSE scheduler.status[u]
    BY <1>1, <1>3, <2>1 DEF ReadyToRun, SchedulerState
  <2> QED BY <1>1, <2>1, <2>2, <2>3 DEF Current
<1> QED
  BY <1>1, <1>2, <1>3, FireCases, DiskWakesOne

\* Every step keeps the scheduler right.
LEMMA SchedNext ==
  ASSUME IntInv, Next
  PROVE  SchedInv'
<1>1. /\ scheduler \in SchedulerState /\ ReadyExact(scheduler)
      /\ \A t \in Threads : scheduler.status[t] # "JUST_CREATED"
      /\ at \in CPU
      /\ at \in Executes => scheduler.status[scheduler.currentThread] = "RUNNING"
      /\ at \notin Executes => CPUFree(scheduler)
      /\ at = "idle" => scheduler.readyList = << >>
  BY DEF IntInv, SchedInv, CPUFree, Current
<1>2. pending \in Seq(Entry) /\ Sorted(pending)
  BY DEF IntInv, TimeInv
<1>3. CASE StartUser \/ Instruction \/ RaiseException \/ ExceptionReturn \/ CriticalSection
           \/ DiskRequest \/ Resume \/ TickOver \/ TickReturn
  <2>1. UNCHANGED scheduler /\ at \in Executes /\ at' \in Executes
    BY <1>3 DEF StartUser, Instruction, RaiseException, ExceptionReturn, CriticalSection,
                DiskRequest, Resume, TickOver, TickReturn, OneTick, Running, Executes
  <2> QED BY <1>1, <2>1, Zenon DEF SchedInv, Executes, CPU, Current
<1>4. CASE KernelYield \/ TickYields
  <2>1. scheduler' = Yield(scheduler) /\ at \in Executes /\ at' = "resume"
    BY <1>4, Zenon DEF KernelYield, TickYields, Running, Executes
  <2>2. /\ scheduler' \in SchedulerState /\ ReadyExact(scheduler')
        /\ scheduler'.status[scheduler'.currentThread] = "RUNNING"
        /\ \A u \in Threads : scheduler'.status[u] # "JUST_CREATED"
    BY <1>1, <2>1, YieldKeeps, Zenon
  <2> QED BY <2>1, <2>2 DEF SchedInv, Executes, CPU, Current
<1>5. CASE WaitForDisk \/ Finish
  <2>1. /\ scheduler' = Sleep(scheduler) /\ at \in Executes
        /\ at' = IF scheduler.readyList = << >> THEN "idle" ELSE "resume"
    BY <1>5 DEF WaitForDisk, Finish, SleepCurrent, Running, Executes
  <2>2. /\ scheduler' \in SchedulerState /\ ReadyExact(scheduler')
        /\ \A u \in Threads : scheduler'.status[u] # "JUST_CREATED"
    BY <1>1, <2>1, SleepKeeps, Zenon
  <2>3. /\ scheduler.readyList = << >> => CPUFree(scheduler') /\ scheduler'.readyList = << >>
        /\ scheduler.readyList # << >> => scheduler'.status[scheduler'.currentThread] = "RUNNING"
    BY <1>1, <2>1, SleepLeaves, Zenon
  <2> QED BY <2>1, <2>2, <2>3 DEF SchedInv, Executes, CPU, Current, CPUFree
<1>6. ASSUME NEW q \in Seq(Entry), q # << >>, Fire(q),
             \/ at \in {"check", "idling"} /\ at' = at
             \/ at = "idle" /\ at' = "idling"
      PROVE  SchedInv'
  <2>1. /\ scheduler' \in SchedulerState /\ ReadyExact(scheduler') /\ Current' = Current
        /\ \A u \in Threads : /\ scheduler'.status[u] # "JUST_CREATED"
                              /\ scheduler'.status[u] = "RUNNING" <=> scheduler.status[u] = "RUNNING"
    BY <1>6, FireWakes
  <2>2. Current \in Threads
    BY <1>1 DEF SchedulerState, Current
  <2> QED BY <1>1, <1>6, <2>1, <2>2, Zenon DEF SchedInv, Executes, CPU, Current, CPUFree
<1>7. CASE CheckIfDue \/ IdleCheckIfDue
  BY <1>2, <1>6, <1>7 DEF CheckIfDue, IdleCheckIfDue, IsDue
<1>8. CASE Idle
  <2>1. CASE UNCHANGED scheduler /\ at' = "halted"
    BY <1>1, <1>8, <2>1 DEF SchedInv, Executes, CPU, Current, CPUFree, Idle
  <2>2. CASE ~(UNCHANGED scheduler /\ at' = "halted")
    <3> DEFINE ticks == IF Head(pending).when > 0 THEN Head(pending).when ELSE 0
               q == After(pending, ticks)
    <3>1. pending # << >> /\ at = "idle" /\ at' = "idling" /\ Fire(q)
      BY <1>8, <2>2 DEF Idle
    <3>2. Head(pending).when \in Int
      BY <1>2, <3>1, RestKeeps, Zenon DEF Entry
    <3>3. ticks \in Int
      BY <3>2
    <3> HIDE DEF ticks
    <3>4. q \in Seq(Entry) /\ q # << >>
      BY <1>2, <3>1, <3>3, AfterKeeps
    <3> QED BY <1>6, <3>1, <3>4, Zenon
  <2> QED BY <2>1, <2>2, Zenon
<1>9. CASE IdleEnds
  <2>1. CASE scheduler.readyList = << >>
    BY <1>1, <1>9, <2>1 DEF SchedInv, Executes, CPU, Current, CPUFree, IdleEnds
  <2>2. CASE scheduler.readyList # << >>
    <3>1. scheduler' = Run(scheduler) /\ at = "idling" /\ at' = "resume"
      BY <1>9, <2>2, Zenon DEF IdleEnds
    <3>2. /\ scheduler' \in SchedulerState /\ ReadyExact(scheduler')
          /\ scheduler'.status[scheduler'.currentThread] = "RUNNING"
          /\ \A u \in Threads : scheduler'.status[u] # "JUST_CREATED"
      BY <1>1, <2>2, <3>1, RunKeeps, Zenon DEF Executes
    <3> QED BY <3>1, <3>2, Zenon DEF SchedInv, Executes, CPU, Current
  <2> QED BY <2>1, <2>2
<1>10. CASE Halted
  BY <1>10 DEF Halted, vars, IntInv, SchedInv, Current
<1> QED
  BY <1>3, <1>4, <1>5, <1>7, <1>8, <1>9, <1>10 DEF Next
-----------------------------------------------------------------------------
(* The clock. *)

\* A handler schedules nothing for a time that is over, and takes no interrupt
\* of the disk off the list but the one it handles.
LEMMA FireTime ==
  ASSUME NEW q \in Seq(Entry), Sorted(q), q # << >>, Fire(q)
  PROVE  /\ pending' \in Seq(Entry) /\ Sorted(pending')
         /\ \A least \in Int : least <= 1 /\ From(q, least) => From(pending', least)
         /\ Head(q).type # "DiskInt" /\ (\E i \in 1..Len(q) : q[i].type = "DiskInt") => DiskPending'
<1> DEFINE r == Tail(q)
<1>1. /\ r \in Seq(Entry) /\ Sorted(r) /\ Head(q) \in Entry
      /\ \A least \in Int : From(q, least) => From(r, least)
      /\ \A i \in 1..Len(q) : q[i] = Head(q) \/ \E k \in 1..Len(r) : r[k] = q[i]
  BY RestKeeps
<1>2. CASE Head(q).type = "DiskInt"
  <2>1. pending' = r
    BY <1>2, FireCases, Zenon DEF DiskDone
  <2> QED BY <1>1, <1>2, <2>1
<1>3. CASE Head(q).type # "DiskInt"
  <2>1. PICK e \in Entry : e.when > 0 /\ pending' \in SortedInsert(r, e)
    BY <1>3, FireCases, Zenon
  <2> HIDE DEF r
  <2>2. /\ pending' \in Seq(Entry) /\ Sorted(pending')
        /\ \A least \in Int : From(r, least) /\ e.when >= least => From(pending', least)
        /\ \A i \in 1..Len(r) : \E k \in 1..Len(pending') : pending'[k] = r[i]
    BY <1>1, <2>1, InsertKeeps
  <2>3. e.when \in Int
    BY DEF Entry
  <2>4. ASSUME NEW least \in Int, least <= 1, From(q, least) PROVE From(pending', least)
    BY <1>1, <2>1, <2>2, <2>3, <2>4, SMTT(60)
  <2>5. ASSUME NEW i \in 1..Len(q), q[i].type = "DiskInt" PROVE DiskPending'
    <3>1. PICK k \in 1..Len(r) : r[k] = q[i]
      BY <1>1, <1>3, <2>5
    <3>2. PICK j \in 1..Len(pending') : pending'[j] = r[k]
      BY <2>2, Zenon
    <3> QED BY <2>5, <3>1, <3>2 DEF DiskPending
  <2> QED BY <2>2, <2>4, <2>5
<1> QED BY <1>2, <1>3

\* Idle advances the clock to the first interrupt, and past none.
LEMMA IdleCases ==
  ASSUME IntInv, Idle
  PROVE  \/ /\ at' = "halted" /\ UNCHANGED scheduler
            /\ pending' \in Seq(Entry) /\ Sorted(pending') /\ From(pending', 0)
            /\ ~DiskPending /\ \A i \in 1..Len(pending') : pending'[i].type = "TimerInt"
         \/ /\ at' = "idling"
            /\ \E q \in Seq(Entry) :
                 /\ Fire(q) /\ q # << >> /\ Sorted(q) /\ From(q, 0)
                 /\ DiskPending => \E i \in 1..Len(q) : q[i].type = "DiskInt"
<1>1. pending \in Seq(Entry) /\ Sorted(pending) /\ From(pending, 0) /\ at = "idle"
  BY DEF IntInv, TimeInv, Idle
<1>2. CASE pending = << >>
  BY <1>1, <1>2 DEF Idle, DiskPending
<1>3. CASE pending # << >>
  <2> DEFINE ticks == IF Head(pending).when > 0 THEN Head(pending).when ELSE 0
             q == After(pending, ticks)
  <2>1. IF Len(q) = 1 /\ Head(q).type = "TimerInt"
          THEN at' = "halted" /\ pending' = q /\ UNCHANGED scheduler
          ELSE at' = "idling" /\ Fire(q)
    BY <1>3 DEF Idle
  <2>2. /\ Head(pending) \in Entry /\ Head(pending) = pending[1]
        /\ Len(pending) \in Nat \ {0} /\ \A i \in 1..Len(pending) : pending[i] \in Entry
    BY <1>1, <1>3
  <2>3. ticks \in Int
    BY <2>2 DEF Entry
  <2>4. ticks = pending[1].when
    BY <1>1, <2>2 DEF From, Entry
  <2> HIDE DEF ticks
  <2>5. /\ q \in Seq(Entry) /\ Sorted(q) /\ Len(q) = Len(pending)
        /\ \A i \in 1..Len(pending) : /\ q[i].type = pending[i].type
                                      /\ q[i].when = pending[i].when - ticks
    BY <1>1, <2>3, AfterKeeps, Zenon
  <2> HIDE DEF q
  <2>6. From(q, 0)
    <3> SUFFICES ASSUME NEW i \in 1..Len(pending) PROVE q[i].when >= 0
      BY <2>5 DEF From
    <3>1. pending[1].when <= pending[i].when
      BY <1>1, <2>2, SMTT(60) DEF Sorted, Entry
    <3>2. pending[i].when \in Int
      BY <2>2, Zenon DEF Entry
    <3> QED BY <2>3, <2>4, <2>5, <3>1, <3>2, SMTT(60)
  <2>7. q # << >> /\ Head(q) = q[1]
    BY <2>2, <2>5, SMTT(60)
  <2>8. DiskPending => \E i \in 1..Len(q) : q[i].type = "DiskInt"
    BY <2>5 DEF DiskPending
  <2>9. CASE Len(q) = 1 /\ Head(q).type = "TimerInt"
    <3>1. \A i \in 1..Len(q) : q[i].type = "TimerInt"
      BY <2>7, <2>9
    <3> QED BY <2>1, <2>5, <2>6, <2>8, <2>9, <3>1, Zenon
  <2>10. CASE ~(Len(q) = 1 /\ Head(q).type = "TimerInt")
    BY <2>1, <2>5, <2>6, <2>7, <2>8, <2>10, Zenon
  <2> QED BY <2>9, <2>10, Zenon
<1> QED BY <1>2, <1>3, Zenon

\* A later bound is an earlier one too.
LEMMA FromWeaker ==
  ASSUME NEW q \in Seq(Entry), NEW n \in Int, NEW m \in Int, m <= n, From(q, n)
  PROVE  From(q, m)
<1>1. \A i \in 1..Len(q) : q[i] \in Entry
  OBVIOUS
<1> QED BY <1>1 DEF From, Entry

\* Outside of Idle, an interrupt that is not due is still to come.
LEMMA NotDue ==
  ASSUME pending \in Seq(Entry), Sorted(pending), status # "IdleMode", ~IsDue
  PROVE  From(pending, 1)
<1>1. CASE pending = << >>
  BY <1>1 DEF From
<1>2. CASE pending # << >>
  <2>1. /\ Head(pending) = pending[1] /\ Len(pending) \in Nat \ {0}
        /\ \A i \in 1..Len(pending) : pending[i] \in Entry
    BY <1>2
  <2>2. pending[1].when > 0
    BY <1>2, <2>1 DEF IsDue, OnlyTimer, Entry
  <2> SUFFICES ASSUME NEW i \in 1..Len(pending) PROVE pending[i].when >= 1
    BY DEF From
  <2>3. pending[1].when <= pending[i].when
    BY <2>1 DEF Sorted, Entry
  <2>4. pending[1].when \in Int /\ pending[i].when \in Int
    BY <2>1 DEF Entry
  <2> QED BY <2>2, <2>3, <2>4
<1> QED BY <1>1, <1>2

\* Every step keeps the list sorted and no interrupt later than a tick.
LEMMA TimeNext ==
  ASSUME IntInv, Next
  PROVE  TimeInv'
<1>1. /\ pending \in Seq(Entry) /\ Sorted(pending) /\ From(pending, -SystemTick)
      /\ status = "IdleMode" => at \in {"idling", "halted"}
      /\ at \in {"run", "return"} => From(pending, 1)
      /\ at \in {"resume", "idle", "idling", "halted"} => From(pending, 0)
  BY DEF IntInv, TimeInv
<1>2. SystemTick \in Nat \ {0} /\ UserTick \in Nat \ {0} /\ UserTick <= SystemTick
  BY InterruptAssumption
<1>3. at \in {"run", "return"} => From(pending, 0)
  BY <1>1, FromWeaker
<1>4. CASE StartUser \/ RaiseException \/ KernelYield \/ WaitForDisk \/ Finish
  <2>1. /\ UNCHANGED pending /\ at = "run" /\ at' \in {"run", "resume", "idle"}
        /\ status' = status \/ status' # "IdleMode"
    BY <1>4 DEF StartUser, RaiseException, KernelYield, WaitForDisk, Finish, SleepCurrent, Running
  <2> QED BY <1>1, <1>3, <2>1 DEF TimeInv
<1>5. CASE Instruction \/ ExceptionReturn \/ CriticalSection \/ Resume
  <2>1. PICK s \in {status, "UserMode"} :
          /\ at \in {"run", "resume"} /\ at' = "check" /\ status' = s
          /\ pending' = After(pending, IF s = "SystemMode" THEN SystemTick ELSE UserTick)
    BY <1>5 DEF Instruction, ExceptionReturn, CriticalSection, Resume, OneTick, Running
  <2> DEFINE ticks == IF s = "SystemMode" THEN SystemTick ELSE UserTick
  <2>2. ticks \in Int /\ 0 - ticks \in Int /\ -SystemTick <= 0 - ticks /\ -SystemTick \in Int
    BY <1>2
  <2>3. pending' = After(pending, ticks)
    BY <2>1
  <2> HIDE DEF ticks
  <2>4. From(pending, 0)
    BY <1>1, <1>3, <2>1, Zenon
  <2>5. pending' \in Seq(Entry) /\ Sorted(pending') /\ From(pending', 0 - ticks)
    BY <1>1, <2>2, <2>3, <2>4, AfterKeeps
  <2>6. From(pending', -SystemTick)
    BY <2>2, <2>5, FromWeaker
  <2> QED BY <1>1, <2>1, <2>5, <2>6, Zenon DEF TimeInv
<1>6. CASE DiskRequest
  <2>1. PICK n \in DiskDelays : pending' \in SortedInsert(pending, [type |-> "DiskInt", when |-> n])
    BY <1>6 DEF DiskRequest, Schedule
  <2> DEFINE e == [type |-> "DiskInt", when |-> n]
  <2>2. n \in Nat \ {0}
    BY InterruptAssumption
  <2>3. e \in Entry /\ e.when >= 1 /\ e.when >= -SystemTick
    BY <1>2, <2>2 DEF Entry, IntTypes
  <2> HIDE DEF e
  <2>4. pending' \in SortedInsert(pending, e)
    BY <2>1, Zenon DEF e
  <2>5. /\ pending' \in Seq(Entry) /\ Sorted(pending')
        /\ \A least \in Int : From(pending, least) /\ e.when >= least => From(pending', least)
    BY <1>1, <2>3, <2>4, InsertKeeps, Zenon
  <2>6. at = "run" /\ UNCHANGED <<at, status>>
    BY <1>6, Zenon DEF DiskRequest, Running
  <2>7. From(pending', 1) /\ From(pending', -SystemTick)
    BY <1>1, <1>2, <2>3, <2>5, <2>6, SMTT(60)
  <2> QED BY <1>1, <2>5, <2>6, <2>7, Zenon DEF TimeInv
<1>7. CASE CheckIfDue \/ IdleCheckIfDue
  <2>1. Fire(pending) /\ pending # << >> /\ UNCHANGED <<at, status>> /\ at \in {"check", "idling"}
    BY <1>7, Zenon DEF CheckIfDue, IdleCheckIfDue, IsDue
  <2>2. /\ pending' \in Seq(Entry) /\ Sorted(pending')
        /\ \A least \in Int : least <= 1 /\ From(pending, least) => From(pending', least)
    BY <1>1, <2>1, FireTime, Zenon
  <2>3. From(pending', -SystemTick) /\ (at = "idling" => From(pending', 0))
    BY <1>1, <1>2, <2>2, SMTT(60)
  <2> QED BY <1>1, <2>1, <2>2, <2>3, Zenon DEF TimeInv
<1>8. CASE TickOver \/ TickYields
  <2>1. /\ at = "check" /\ ~IsDue /\ UNCHANGED pending /\ at' \in {"return", "resume"}
        /\ status' = status \/ status' # "IdleMode"
    BY <1>8 DEF TickOver, TickYields
  <2>2. From(pending, 1)
    BY <1>1, <2>1, NotDue, Zenon
  <2>3. From(pending, 0)
    BY <1>1, <2>2, FromWeaker, SMTT(60)
  <2> QED BY <1>1, <2>1, <2>2, <2>3, Zenon DEF TimeInv
<1>9. CASE TickReturn
  <2>1. at = "return" /\ UNCHANGED pending /\ at' \in {"return", "run"}
    BY <1>9 DEF TickReturn
  <2>2. status' # "IdleMode"
    <3>1. frames[Current] \in Stacks /\ frames[Current] # << >>
      BY <2>1, Zenon DEF IntInv, ModeInv, SchedInv, SchedulerState, Current
    <3>2. \A x \in Stacks : x # << >> => \/ Innermost(x).caller # "yield"
                                         \/ Innermost(Outer(x)).old # "IdleMode"
      BY DEF Stacks, Innermost, Outer, FromUser, FromKernel, FromYield
    <3> QED BY <1>1, <1>9, <2>1, <3>1, <3>2, Zenon DEF TickReturn
  <2> QED BY <1>1, <2>1, <2>2, Zenon DEF TimeInv
<1>10. CASE Idle
  <2>1. status' = "IdleMode"
    BY <1>10, Zenon DEF Idle
  <2>2. /\ pending' \in Seq(Entry) /\ Sorted(pending') /\ From(pending', 0)
        /\ at' \in {"idling", "halted"}
    <3>1. ASSUME NEW q \in Seq(Entry), Fire(q), q # << >>, Sorted(q), From(q, 0)
          PROVE  pending' \in Seq(Entry) /\ Sorted(pending') /\ From(pending', 0)
      BY <3>1, FireTime
    <3> QED BY <1>10, <3>1, IdleCases, Zenon
  <2>3. From(pending', -SystemTick)
    BY <1>2, <2>2, FromWeaker, SMTT(60)
  <2> QED BY <2>1, <2>2, <2>3 DEF TimeInv
<1>11. CASE IdleEnds
  BY <1>1, <1>11, Zenon DEF IdleEnds, TimeInv
<1>12. CASE Halted
  BY <1>1, <1>12 DEF Halted, vars, TimeInv
<1> QED
  BY <1>4, <1>5, <1>6, <1>7, <1>8, <1>9, <1>10, <1>11, <1>12 DEF Next
-----------------------------------------------------------------------------
(* The machine status. *)

\* Two calls as the one appended to the other.
LEMMA TwoCalls ==
  ASSUME NEW f, NEW g
  PROVE  Append(<<f>>, g) = <<f, g>> /\ SubSeq(<<f, g>>, 1, 1) = <<f>>
<1> DEFINE S == {f, g}
           a == Append(<<f>>, g)
           b == SubSeq(<<f, g>>, 1, 1)
<1>1. <<f>> \in Seq(S) /\ <<f, g>> \in Seq(S) /\ g \in S
  OBVIOUS
<1>2. a \in Seq(S) /\ Len(a) = 2 /\ a[1] = f /\ a[2] = g
  BY <1>1
<1>3. b \in Seq(S) /\ Len(b) = 1 /\ b[1] = f
  BY <1>1
<1> HIDE DEF S, a, b
<1>4. a = <<f, g>>
  BY <1>1, <1>2
<1>5. b = <<f>>
  BY <1>1, <1>3
<1> QED BY <1>4, <1>5 DEF a, b

\* Each call of OneTick makes one of the stacks into another.
LEMMA StackFacts ==
  /\ Nest(<< >>, FromUser) = <<FromUser>> /\ Nest(<< >>, FromKernel) = <<FromKernel>>
  /\ \A x \in Stacks : x # << >> =>
       /\ x[1] \in {FromUser, FromKernel} /\ FromUser # FromKernel
       /\ /\ Nest(x, FromYield) \in Stacks /\ Nest(x, FromYield) # << >>
          /\ Nest(x, FromYield)[1] = x[1] /\ Innermost(Nest(x, FromYield)) = FromYield
       /\ Outer(x) \in Stacks
       /\ Innermost(x).caller = "yield" => Outer(x) # << >> /\ Outer(x)[1] = x[1]
       /\ Innermost(x).caller # "yield" => Outer(x) = << >> /\ Innermost(x) = x[1]
  /\ <<FromUser>> \in Stacks /\ <<FromKernel>> \in Stacks /\ << >> \in Stacks
<1>1. FromUser # FromKernel /\ FromUser # FromYield /\ FromKernel # FromYield
  BY DEF FromUser, FromKernel, FromYield
<1>2. FromUser.caller # "yield" /\ FromKernel.caller # "yield" /\ FromYield.caller = "yield"
  BY DEF FromUser, FromKernel, FromYield
<1>3. Nest(<< >>, FromUser) = <<FromUser>> /\ Nest(<< >>, FromKernel) = <<FromKernel>>
  BY DEF Nest
<1>4. ASSUME NEW f \in {FromUser, FromKernel}
      PROVE  /\ Nest(<<f>>, FromYield) = <<f, FromYield>>
             /\ Nest(<<f, FromYield>>, FromYield) = <<f, FromYield>>
             /\ Outer(<<f>>) = << >> /\ Outer(<<f, FromYield>>) = <<f>>
             /\ Innermost(<<f>>) = f /\ Innermost(<<f, FromYield>>) = FromYield
  <2>1. Innermost(<<f>>) = f /\ Innermost(<<f, FromYield>>) = FromYield
    BY DEF Innermost
  <2>2. /\ Nest(<<f>>, FromYield) = <<f, FromYield>>
        /\ Nest(<<f, FromYield>>, FromYield) = <<f, FromYield>>
    <3>1. f # FromYield
      BY <1>1
    <3>2. Append(<<f>>, FromYield) = <<f, FromYield>>
      BY TwoCalls, Zenon
    <3>3. <<f>> # << >> /\ <<f, FromYield>> # << >>
      OBVIOUS
    <3> QED BY <2>1, <3>1, <3>2, <3>3, Zenon DEF Nest
  <2>3. Outer(<<f>>) = << >> /\ Outer(<<f, FromYield>>) = <<f>>
    <3>1. Outer(<<f>>) = SubSeq(<<f>>, 1, 0) /\ Outer(<<f, FromYield>>) = SubSeq(<<f, FromYield>>, 1, 1)
      BY DEF Outer
    <3>2. SubSeq(<<f>>, 1, 0) = << >>
      OBVIOUS
    <3>3. SubSeq(<<f, FromYield>>, 1, 1) = <<f>>
      BY TwoCalls, Zenon
    <3> QED BY <3>1, <3>2, <3>3
  <2> QED BY <2>1, <2>2, <2>3, Zenon
<1>5. ASSUME NEW x \in Stacks, x # << >>
      PROVE  /\ x[1] \in {FromUser, FromKernel} /\ FromUser # FromKernel
             /\ /\ Nest(x, FromYield) \in Stacks /\ Nest(x, FromYield) # << >>
                /\ Nest(x, FromYield)[1] = x[1] /\ Innermost(Nest(x, FromYield)) = FromYield
             /\ Outer(x) \in Stacks
             /\ Innermost(x).caller = "yield" => Outer(x) # << >> /\ Outer(x)[1] = x[1]
             /\ Innermost(x).caller # "yield" => Outer(x) = << >> /\ Innermost(x) = x[1]
  <2>1. PICK f \in {FromUser, FromKernel} : x = <<f>> \/ x = <<f, FromYield>>
    BY <1>5 DEF Stacks
  <2>2. f.caller # "yield"
    BY <1>2, Zenon
  <2>3. <<f>> \in Stacks /\ <<f, FromYield>> \in Stacks /\ << >> \in Stacks
    BY Zenon DEF Stacks
  <2>4. CASE x = <<f>>
    BY <1>1, <1>4, <2>2, <2>3, <2>4, SMTT(60)
  <2>5. CASE x = <<f, FromYield>>
    BY <1>1, <1>2, <1>4, <2>2, <2>3, <2>5, SMTT(60)
  <2> QED BY <2>1, <2>4, <2>5, Zenon
<1> QED BY <1>3, <1>5, Zenon DEF Stacks

\* A thread enters OneTick in the status of its code.
LEMMA OneTickMode ==
  ASSUME IntInv, UNCHANGED scheduler,
         NEW f \in {FromUser, FromKernel, FromYield}, status' = f.old,
         level' = "IntOff", at' = "check",
         frames' = [frames EXCEPT ![Current] = Nest(@, f)],
         f = FromYield <=> frames[Current] # << >>,
         doing' \in [Threads -> {"start", "user", "kernel", "requested", "done"}],
         \A t \in Threads \ {Current} : doing'[t] = doing[t] /\ (doing[t] = "user" => frames[t] # << >>),
         frames[Current] = << >> => (doing'[Current] = "user" <=> f = FromUser),
         frames[Current] # << >> => (doing'[Current] = "user" <=> doing[Current] = "user")
  PROVE  ModeInv'
<1>1. /\ frames \in [Threads -> Stacks] /\ Current \in Threads /\ Current' = Current
      /\ \A t \in Threads : frames[t] # << >> => (doing[t] = "user" <=> frames[t][1] = FromUser)
  BY Zenon DEF IntInv, ModeInv, SchedInv, SchedulerState, Current
<1> DEFINE x == frames[Current]
<1>2. /\ Nest(x, f) \in Stacks /\ Nest(x, f) # << >> /\ Innermost(Nest(x, f)) = f
      /\ Nest(x, f)[1] = IF x = << >> THEN f ELSE x[1]
  <2>1. CASE x = << >>
    BY <2>1, StackFacts, SMTT(60) DEF Innermost
  <2>2. CASE x # << >>
    BY <1>1, <2>2, StackFacts, SMTT(60)
  <2> QED BY <2>1, <2>2, ZenonT(60)
<1>3. /\ frames' \in [Threads -> Stacks]
      /\ \A t \in Threads : frames'[t] = IF t = Current THEN Nest(x, f) ELSE frames[t]
  BY <1>1, <1>2, Zenon
<1> HIDE DEF x
<1>4. \A t \in Threads : frames'[t] # << >> => (doing'[t] = "user" <=> frames'[t][1] = FromUser)
  <2> SUFFICES ASSUME NEW t \in Threads, frames'[t] # << >>
               PROVE  doing'[t] = "user" <=> frames'[t][1] = FromUser
    BY Zenon
  <2>1. CASE t = Current
    BY <1>1, <1>2, <1>3, <2>1, StackFacts, ZenonT(60) DEF x
  <2>2. CASE t # Current
    BY <1>1, <1>3, <2>2, Zenon
  <2> QED BY <2>1, <2>2, Zenon
<1>5. \A t \in Threads : frames'[t] = << >> => doing'[t] # "user"
  BY <1>2, <1>3
<1> QED BY <1>1, <1>2, <1>3, <1>4, <1>5, Zenon DEF ModeInv

\* Every step keeps the machine in the mode of what it executes.
LEMMA ModeNext ==
  ASSUME IntInv, Next
  PROVE  ModeInv'
<1> DEFINE Doing == {"start", "user", "kernel", "requested", "done"}
<1>1. /\ doing \in [Threads -> Doing] /\ frames \in [Threads -> Stacks]
      /\ \A t \in Threads :
           /\ frames[t] # << >> => (doing[t] = "user" <=> frames[t][1] = FromUser)
           /\ doing[t] = "user" /\ frames[t] = << >> => at = "run" /\ t = Current
      /\ at = "run" => /\ frames[Current] = << >> /\ level = "IntOn"
                       /\ status = IF doing[Current] = "user" THEN "UserMode" ELSE "SystemMode"
      /\ at \in {"check", "return"} => /\ frames[Current] # << >>
                                       /\ status = Innermost(frames[Current]).old
      /\ at = "return" => level = "IntOn"
      /\ at \in {"check", "resume", "idle", "idling"} => level = "IntOff"
      /\ at \in {"resume", "idle"} => status = "SystemMode"
      /\ Current \in Threads
  BY Zenon DEF IntInv, ModeInv, SchedInv, SchedulerState, Current
<1>2. CASE StartUser \/ RaiseException \/ DiskRequest
  <2>1. PICK d \in Doing :
          /\ doing' = [doing EXCEPT ![Current] = d]
          /\ status' = IF d = "user" THEN "UserMode" ELSE "SystemMode"
          /\ UNCHANGED <<scheduler, frames, level>> /\ at = "run" /\ at' = "run"
    BY <1>1, <1>2, Zenon DEF StartUser, RaiseException, DiskRequest, Running
  <2>2. Current' = Current
    BY <2>1, Zenon DEF Current
  <2>3. /\ doing' \in [Threads -> Doing]
        /\ \A t \in Threads : doing'[t] = IF t = Current THEN d ELSE doing[t]
    BY <1>1, <2>1
  <2> QED BY <1>1, <2>1, <2>2, <2>3, Zenon DEF ModeInv
<1>3. ASSUME NEW f \in {FromUser, FromKernel}, UNCHANGED scheduler, at = "run", at' = "check",
             status' = f.old, level' = "IntOff",
             frames' = [frames EXCEPT ![Current] = Nest(@, f)],
             NEW d \in Doing, doing' = [doing EXCEPT ![Current] = d], d = "user" <=> f = FromUser
      PROVE  ModeInv'
  <2>1. f # FromYield
    BY DEF FromUser, FromKernel, FromYield
  <2>2. /\ doing' \in [Threads -> Doing]
        /\ \A t \in Threads : doing'[t] = IF t = Current THEN d ELSE doing[t]
    BY <1>1, <1>3
  <2>3. \A t \in Threads \ {Current} : doing'[t] = doing[t] /\ (doing[t] = "user" => frames[t] # << >>)
    BY <1>1, <2>2, Zenon
  <2>4. frames[Current] = << >> /\ (doing'[Current] = "user" <=> f = FromUser)
    BY <1>1, <1>3, <2>2, Zenon
  <2> QED BY <1>3, <2>1, <2>2, <2>3, <2>4, OneTickMode, Zenon
<1>4. CASE Instruction \/ ExceptionReturn
  <2>1. /\ UNCHANGED scheduler /\ at = "run" /\ at' = "check" /\ level' = "IntOff"
        /\ status' = "UserMode" /\ frames' = [frames EXCEPT ![Current] = Nest(@, FromUser)]
        /\ doing' = [doing EXCEPT ![Current] = "user"]
    BY <1>1, <1>4 DEF Instruction, ExceptionReturn, OneTick, Running, FromUser
  <2> QED BY <1>3, <2>1, Zenon DEF FromUser
<1>5. CASE CriticalSection
  <2>1. /\ UNCHANGED scheduler /\ at = "run" /\ at' = "check" /\ level' = "IntOff"
        /\ status' = "SystemMode" /\ frames' = [frames EXCEPT ![Current] = Nest(@, FromKernel)]
        /\ doing' = [doing EXCEPT ![Current] = "kernel"]
    BY <1>1, <1>5, Zenon DEF CriticalSection, OneTick, Running, FromKernel
  <2>2. FromKernel # FromUser /\ FromKernel.old = "SystemMode"
    BY DEF FromUser, FromKernel
  <2> QED BY <1>3, <2>1, <2>2, Zenon
<1>6. CASE Resume
  <2> DEFINE f == IF frames[Current] # << >> THEN FromYield ELSE FromKernel
  <2>1. /\ UNCHANGED scheduler /\ at = "resume" /\ at' = "check" /\ level' = "IntOff"
        /\ status' = "SystemMode" /\ frames' = [frames EXCEPT ![Current] = Nest(@, f)]
    BY <1>1, <1>6, Zenon DEF Resume, OneTick, FromKernel, FromYield
  <2>2. doing' \in [Threads -> Doing] /\ \A t \in Threads : doing'[t] = doing[t]
           \/ (t = Current /\ doing[t] = "requested" /\ doing'[t] = "kernel")
    BY <1>1, <1>6, Zenon DEF Resume
  <2>3. /\ f \in {FromUser, FromKernel, FromYield} /\ f.old = "SystemMode" /\ f # FromUser
        /\ f = FromYield <=> frames[Current] # << >>
    BY Zenon DEF FromUser, FromKernel, FromYield
  <2> HIDE DEF f
  <2>4. \A t \in Threads \ {Current} : doing'[t] = doing[t] /\ (doing[t] = "user" => frames[t] # << >>)
    BY <1>1, <2>1, <2>2
  <2>5. /\ frames[Current] = << >> => (doing'[Current] = "user" <=> f = FromUser)
        /\ frames[Current] # << >> => (doing'[Current] = "user" <=> doing[Current] = "user")
    BY <1>1, <2>1, <2>2, <2>3, Zenon
  <2> QED BY <2>1, <2>2, <2>3, <2>4, <2>5, OneTickMode, Zenon
<1>7. ASSUME UNCHANGED <<frames>>, at' \in {"resume", "idle", "idling", "halted"},
             at' # "halted" => level' = "IntOff",
             at' \in {"resume", "idle"} => status' = "SystemMode",
             \/ UNCHANGED doing /\ (at = "run" => doing[Current] # "user")
             \/ at = "run" /\ \E d \in Doing \ {"user"} : doing' = [doing EXCEPT ![Current] = d]
      PROVE  ModeInv'
  <2>1. doing' \in [Threads -> Doing] /\ \A t \in Threads :
           \/ doing'[t] = doing[t] /\ (at = "run" => t # Current \/ doing[t] # "user")
           \/ at = "run" /\ t = Current /\ doing'[t] # "user"
    BY <1>1, <1>7
  <2>2. \A t \in Threads : doing'[t] = "user" => frames[t] # << >> /\ doing[t] = "user"
    BY <1>1, <1>7, <2>1, Zenon
  <2>3. \A t \in Threads : frames[t] # << >> => (doing'[t] = "user" <=> doing[t] = "user")
    BY <1>1, <2>1, Zenon
  <2> QED BY <1>1, <1>7, <2>1, <2>2, <2>3, ZenonT(60) DEF ModeInv
<1>8. CASE KernelYield \/ WaitForDisk
  BY <1>1, <1>7, <1>8, Zenon DEF KernelYield, WaitForDisk, SleepCurrent, Running
<1>9. CASE Finish
  BY <1>1, <1>7, <1>9, Zenon DEF Finish, SleepCurrent, Running
<1>10. CASE TickYields \/ Idle \/ IdleCheckIfDue \/ IdleEnds
  BY <1>1, <1>7, <1>10, Zenon DEF TickYields, Idle, IdleCheckIfDue, IdleEnds
<1>11. CASE CheckIfDue
  <2>1. Fire(pending) /\ pending # << >> /\ UNCHANGED <<at, status, level, doing, frames>> /\ at = "check"
    BY <1>11, Zenon DEF CheckIfDue, IsDue
  <2>2. Current' = Current
    BY <2>1, FireWakes, Zenon DEF IntInv, TimeInv
  <2> QED BY <1>1, <2>1, <2>2 DEF ModeInv
<1>12. CASE TickOver
  BY <1>1, <1>12 DEF TickOver, ModeInv, Current
<1>13. CASE TickReturn
  <2> DEFINE x == frames[Current]
  <2>1. /\ at = "return" /\ UNCHANGED <<level, scheduler, doing>>
        /\ frames' = [frames EXCEPT ![Current] = Outer(x)]
        /\ Innermost(x).caller = "yield" => status' = Innermost(Outer(x)).old /\ at' = "return"
        /\ Innermost(x).caller # "yield" => at' = "run" /\ UNCHANGED status
    BY <1>13 DEF TickReturn
  <2>2. x \in Stacks /\ x # << >> /\ Current' = Current
    BY <1>1, <2>1, Zenon DEF Current
  <2>3. /\ x[1] \in {FromUser, FromKernel} /\ FromUser # FromKernel /\ Outer(x) \in Stacks
        /\ Innermost(x).caller = "yield" => Outer(x) # << >> /\ Outer(x)[1] = x[1]
        /\ Innermost(x).caller # "yield" => Outer(x) = << >> /\ Innermost(x) = x[1]
    BY <2>2, StackFacts, Zenon
  <2>4. /\ frames' \in [Threads -> Stacks]
        /\ \A t \in Threads : frames'[t] = IF t = Current THEN Outer(x) ELSE frames[t]
    BY <1>1, <2>1, <2>3, Zenon
  <2>5. /\ doing[Current] = "user" <=> x[1] = FromUser
        /\ level = "IntOn" /\ status = Innermost(x).old
        /\ \A t \in Threads : doing[t] = "user" /\ frames[t] = << >> => FALSE
        /\ \A t \in Threads : frames[t] # << >> => (doing[t] = "user" <=> frames[t][1] = FromUser)
    BY <1>1, <2>1, <2>2
  <2>6. FromUser.old = "UserMode" /\ FromKernel.old = "SystemMode"
    BY Zenon DEF FromUser, FromKernel
  <2> HIDE DEF x
  <2>7. CASE Innermost(x).caller = "yield"
    BY <1>1, <2>1, <2>2, <2>3, <2>4, <2>5, <2>7, ZenonT(60) DEF ModeInv
  <2>8. CASE Innermost(x).caller # "yield"
    BY <1>1, <2>1, <2>2, <2>3, <2>4, <2>5, <2>6, <2>8, SMTT(60) DEF ModeInv
  <2> QED BY <2>7, <2>8, Zenon
<1>14. CASE Halted
  BY <1>14 DEF Halted, vars, IntInv, ModeInv, Current
<1> QED
  BY <1>2, <1>4, <1>5, <1>6, <1>8, <1>9, <1>10, <1>11, <1>12, <1>13, <1>14, Zenon DEF Next
-----------------------------------------------------------------------------
(* The end. *)

\* A step that blocks no thread, makes no request and either leaves the interrupt
\* of the disk on the list or leaves nobody waiting for it.
LEMMA NobodyStranded ==
  ASSUME HaltInv, Blocked(scheduler') \subseteq Blocked(scheduler),
         \A t \in Threads : doing'[t] = "requested" => doing[t] = "requested",
         \A t \in Blocked(scheduler) : doing'[t] = doing[t],
         \/ DiskPending => DiskPending'
         \/ \A t \in Blocked(scheduler') : doing[t] # "requested",
         at' \in {"run", "check", "return"} => doing'[Current'] # "requested",
         at' # "halted"
  PROVE  HaltInv'
<1>1. \A t \in Blocked(scheduler') : t \in Threads /\ t \in Blocked(scheduler)
  BY DEF Blocked
<1>2. \A t \in Blocked(scheduler') : doing'[t] \in {"requested", "done"}
  BY <1>1, Zenon DEF HaltInv
<1>3. ASSUME NEW t \in Threads, doing'[t] = "requested"
      PROVE  /\ t \in Blocked(scheduler') \/ (t = Current' /\ at' = "run") => DiskPending'
             /\ \A u \in Threads : doing'[u] = "requested" => u = t
  <2>1. doing[t] = "requested"
    BY <1>3
  <2>2. \A u \in Threads : doing'[u] = "requested" => u = t
    BY <2>1, Zenon DEF HaltInv
  <2>3. t \in Blocked(scheduler') => DiskPending'
    BY <1>1, <2>1 DEF HaltInv
  <2> QED BY <1>3, <2>2, <2>3, Zenon
<1> QED BY <1>2, <1>3, Zenon DEF HaltInv, HaltMeansCompleted

\* The interrupt handlers strand nobody.
LEMMA FireStrandsNobody ==
  ASSUME IntInv, NEW q \in Seq(Entry), q # << >>, Sorted(q), Fire(q), UNCHANGED doing,
         DiskPending => \E i \in 1..Len(q) : q[i].type = "DiskInt",
         at = "check" \/ at' = "idling", at' \in {"check", "idling"}
  PROVE  HaltInv'
<1>1. HaltInv /\ scheduler \in SchedulerState
  BY Zenon DEF IntInv, SchedInv
<1>2. Blocked(scheduler') \subseteq Blocked(scheduler) /\ Current' = Current
  BY FireWakes
<1>3. at' = "check" => doing'[Current'] # "requested"
  BY <1>1, <1>2, Zenon DEF HaltInv
<1>4. CASE Head(q).type # "DiskInt"
  <2>1. DiskPending => DiskPending'
    BY <1>4, FireTime, Zenon
  <2> QED BY <1>1, <1>2, <1>3, <2>1, NobodyStranded, Zenon
<1>5. CASE Head(q).type = "DiskInt"
  <2>1. DiskDone(Tail(q))
    BY <1>5, FireCases
  <2>2. \A t \in Blocked(scheduler') : doing[t] # "requested"
    <3>1. CASE UNCHANGED scheduler /\ \A t \in Threads : doing[t] = "requested" => t \notin Blocked(scheduler)
      BY <3>1, Zenon DEF Blocked
    <3>2. ASSUME NEW t \in Blocked(scheduler), doing[t] = "requested", scheduler' = ReadyToRun(scheduler, t)
          PROVE  \A u \in Blocked(scheduler') : doing[u] # "requested"
      <4>1. t \in Threads /\ scheduler.status[t] # "READY" /\ ReadyExact(scheduler)
        BY DEF Blocked, IntInv, SchedInv
      <4>2. Blocked(scheduler') = Blocked(scheduler) \ {t}
        BY <1>1, <3>2, <4>1, ReadyToRunKeeps, Zenon
      <4>3. \A u \in Threads : doing[u] = "requested" => u = t
        BY <1>1, <3>2, <4>1 DEF HaltInv
      <4> QED BY <4>2, <4>3 DEF Blocked
    <3> QED BY <1>1, <2>1, <3>1, <3>2, DiskWakesOne, Zenon
  <2> QED BY <1>1, <1>2, <1>3, <2>2, NobodyStranded, Zenon
<1> QED BY <1>4, <1>5, Zenon

\* Every step keeps whoever is blocked done or sure of an interrupt.
LEMMA HaltNext ==
  ASSUME IntInv, Next
  PROVE  HaltInv'
<1> USE DEF Current
<1>1. /\ HaltInv /\ scheduler \in SchedulerState /\ ReadyExact(scheduler)
      /\ pending \in Seq(Entry) /\ Sorted(pending) /\ Current \in Threads
      /\ doing \in [Threads -> {"start", "user", "kernel", "requested", "done"}]
      /\ at \in Executes => scheduler.status[Current] = "RUNNING"
  BY Zenon DEF IntInv, SchedInv, TimeInv, ModeInv, SchedulerState
<1>2. at \in Executes => Current \notin Blocked(scheduler)
  BY <1>1, Zenon DEF Blocked
<1>3. CASE StartUser \/ Instruction \/ RaiseException \/ ExceptionReturn \/ CriticalSection
           \/ Resume \/ TickOver \/ TickReturn
  <2>1. /\ UNCHANGED scheduler /\ at \in Executes /\ at' \in {"run", "check", "return"}
        /\ \A t \in Threads : doing'[t] = doing[t] \/ (t = Current /\ doing'[t] \in {"user", "kernel"})
    BY <1>1, <1>3, Zenon DEF StartUser, Instruction, RaiseException, ExceptionReturn, CriticalSection,
                      Resume, TickOver, TickReturn, OneTick, Running, Executes
  <2>2. doing'[Current] # "requested"
    BY <1>1, <1>3, Zenon DEF StartUser, Instruction, RaiseException, ExceptionReturn, CriticalSection,
                      Resume, TickOver, TickReturn, Running, HaltInv
  <2>3. DiskPending => DiskPending'
    <3>1. UNCHANGED pending \/ \E ticks \in {SystemTick, UserTick} : pending' = After(pending, ticks)
      BY <1>3, Zenon DEF StartUser, Instruction, RaiseException, ExceptionReturn, CriticalSection,
                  Resume, TickOver, TickReturn, OneTick
    <3>2. SystemTick \in Int /\ UserTick \in Int
      BY InterruptAssumption
    <3>3. ASSUME NEW ticks \in Int, pending' = After(pending, ticks)
          PROVE  DiskPending => DiskPending'
      <4>1. /\ Len(pending') = Len(pending)
            /\ \A k \in 1..Len(pending) : pending'[k].type = pending[k].type
        BY <1>1, <3>3, AfterKeeps, Zenon
      <4> QED BY <4>1, Zenon DEF DiskPending
    <3> QED BY <3>1, <3>2, <3>3, Zenon DEF DiskPending
  <2>4. \A t \in Blocked(scheduler) : t \in Threads /\ doing'[t] = doing[t]
    BY <1>2, <2>1, Zenon DEF Blocked
  <2>5. \A t \in Threads : doing'[t] = "requested" => doing[t] = "requested"
    BY <2>1, Zenon
  <2> QED BY <1>1, <2>1, <2>2, <2>3, <2>4, <2>5, NobodyStranded, Zenon
<1>4. CASE KernelYield \/ TickYields
  <2>1. /\ scheduler' = Yield(scheduler) /\ at \in Executes /\ at' = "resume"
        /\ UNCHANGED <<doing, pending>>
    BY <1>4 DEF KernelYield, TickYields, Running, Executes
  <2>2. Blocked(scheduler') = Blocked(scheduler)
    BY <1>1, <2>1, YieldKeeps, Zenon
  <2> QED BY <1>1, <2>1, <2>2, NobodyStranded, Zenon DEF DiskPending
<1>5. CASE DiskRequest
  <2>1. PICK n \in DiskDelays : pending' \in SortedInsert(pending, [type |-> "DiskInt", when |-> n])
    BY <1>5 DEF DiskRequest, Schedule
  <2> DEFINE e == [type |-> "DiskInt", when |-> n]
  <2>2. n \in Nat \ {0}
    BY InterruptAssumption
  <2>3. e \in Entry /\ e.type = "DiskInt"
    BY <2>2, SMTT(60) DEF Entry, IntTypes
  <2> HIDE DEF e
  <2>p. pending' \in SortedInsert(pending, e)
    BY <2>1, Zenon DEF e
  <2>4. \E k \in 1..Len(pending') : pending'[k] = e
    BY <1>1, <2>3, <2>p, InsertKeeps, SMTT(60)
  <2>5. DiskPending'
    BY <2>3, <2>4, Zenon DEF DiskPending
  <2>6. /\ at = "run" /\ UNCHANGED <<at, scheduler>>
        /\ \A t \in Threads : doing[t] # "requested"
        /\ \A t \in Threads : doing'[t] = IF t = Current THEN "requested" ELSE doing[t]
    BY <1>1, <1>5, Zenon DEF DiskRequest, Running
  <2>7. \A t \in Blocked(scheduler') : doing'[t] \in {"requested", "done"}
    BY <1>1, <2>6 DEF HaltInv, Blocked
  <2> QED BY <2>5, <2>6, <2>7, Zenon DEF HaltInv, HaltMeansCompleted
<1>6. CASE WaitForDisk \/ Finish
  <2>1. /\ scheduler' = Sleep(scheduler) /\ at = "run" /\ at' \in {"idle", "resume"} /\ UNCHANGED pending
        /\ \A t \in Threads : \/ doing'[t] = doing[t] /\ (t = Current => doing[t] = "requested")
                              \/ t = Current /\ doing'[t] = "done"
    BY <1>1, <1>6 DEF WaitForDisk, Finish, SleepCurrent, Running
  <2>2. Blocked(scheduler') = Blocked(scheduler) \cup {Current}
    BY <1>1, <2>1, SleepKeeps, Zenon DEF Executes
  <2>3. \A t \in Blocked(scheduler') : t \in Threads /\ doing'[t] \in {"requested", "done"}
    BY <1>1, <2>1, <2>2, Zenon DEF HaltInv, Blocked
  <2>4. \A t \in Threads : doing'[t] = "requested" => doing[t] = "requested"
    BY <2>1, Zenon
  <2>5. \A t \in Blocked(scheduler') : doing'[t] = "requested" => DiskPending
    BY <1>1, <2>1, <2>2, <2>3, <2>4, Zenon DEF HaltInv
  <2>6. DiskPending' = DiskPending
    BY <2>1 DEF DiskPending
  <2>7. \A t, u \in Threads : doing'[t] = "requested" /\ doing'[u] = "requested" => u = t
    BY <1>1, <2>4, Zenon DEF HaltInv
  <2> QED BY <2>1, <2>3, <2>5, <2>6, <2>7, ZenonT(60) DEF HaltInv, HaltMeansCompleted
<1>7. CASE CheckIfDue \/ IdleCheckIfDue
  <2>1. /\ Fire(pending) /\ pending # << >> /\ UNCHANGED <<at, doing>>
        /\ at = "check" \/ at' = "idling"
        /\ at' \in {"check", "idling"}
    BY <1>7 DEF CheckIfDue, IdleCheckIfDue, IsDue
  <2> QED BY <1>1, <2>1, FireStrandsNobody DEF DiskPending
<1>8. CASE Idle
  <2>1. UNCHANGED doing
    BY <1>8 DEF Idle
  <2>2. ASSUME NEW q \in Seq(Entry), Fire(q), q # << >>, Sorted(q), at' = "idling",
               DiskPending => \E i \in 1..Len(q) : q[i].type = "DiskInt"
        PROVE  HaltInv'
    BY <2>1, <2>2, FireStrandsNobody
  <2>3. ASSUME at' = "halted", UNCHANGED scheduler, pending' \in Seq(Entry), ~DiskPending,
               \A i \in 1..Len(pending') : pending'[i].type = "TimerInt"
        PROVE  HaltInv'
    <3>1. /\ \A t \in Threads : scheduler.status[t] \notin {"JUST_CREATED", "RUNNING"}
          /\ scheduler.readyList = << >>
      BY <1>8, Zenon DEF IntInv, SchedInv, Executes, Idle
    <3>2. On(scheduler.readyList) = {}
      BY <3>1 DEF On
    <3>3. \A t \in Threads : t \in Blocked(scheduler)
      BY <1>1, <3>1, <3>2, Zenon DEF ReadyExact, Blocked, SchedulerState, Status
    <3>4. \A t \in Threads : doing[t] = "done"
      BY <1>1, <2>3, <3>3, SMTT(60) DEF HaltInv
    <3>5. HaltMeansCompleted'
      BY <2>1, <2>3, <3>4, SMTT(60) DEF HaltMeansCompleted
    <3> QED BY <2>1, <2>3, <3>4, <3>5, Zenon DEF HaltInv, Blocked
  <2> QED BY <1>8, <2>2, <2>3, IdleCases, Zenon
<1>9. CASE IdleEnds
  <2>1. at = "idling" /\ UNCHANGED <<doing, pending>> /\ at' \in {"idle", "resume"}
    BY <1>9 DEF IdleEnds
  <2>2. Blocked(scheduler') = Blocked(scheduler)
    <3>1. CASE scheduler.readyList = << >>
      BY <1>9, <3>1, Zenon DEF IdleEnds
    <3>2. CASE scheduler.readyList # << >>
      <4>1. CPUFree(scheduler) /\ scheduler' = Run(scheduler)
        BY <1>9, <2>1, <3>2, Zenon DEF IdleEnds, IntInv, SchedInv, CPUFree, Executes
      <4> QED BY <1>1, <3>2, <4>1, RunKeeps, Zenon
    <3> QED BY <3>1, <3>2, Zenon
  <2> QED BY <1>1, <2>1, <2>2, NobodyStranded, Zenon DEF DiskPending
<1>10. CASE Halted
  BY <1>1, <1>10 DEF Halted, vars, HaltInv, HaltMeansCompleted, DiskPending
<1> QED
  BY <1>3, <1>4, <1>5, <1>6, <1>7, <1>8, <1>9, <1>10, Zenon DEF Next
-----------------------------------------------------------------------------
(* The theorems. *)

\* The devices that Initialize starts are scheduled for a time to come.
LEMMA InitPending ==
  ASSUME Init
  PROVE  pending \in Seq(Entry) /\ Sorted(pending) /\ From(pending, 1)
<1>1. << >> \in Seq(Entry) /\ Sorted(<< >>) /\ From(<< >>, 1)
  BY SMTT(60) DEF Sorted, From
<1>2. ASSUME NEW q \in Seq(Entry), Sorted(q), From(q, 1),
             NEW type \in IntTypes, NEW n \in Nat \ {0}, NEW r \in Schedule(q, type, n)
      PROVE  r \in Seq(Entry) /\ Sorted(r) /\ From(r, 1)
  <2> DEFINE e == [type |-> type, when |-> n]
  <2>1. e \in Entry /\ e.when >= 1
    BY DEF Entry
  <2>2. r \in SortedInsert(q, e)
    BY Zenon DEF Schedule
  <2> HIDE DEF e
  <2> QED BY <1>2, <2>1, <2>2, InsertKeeps
<1>3. PICK timer \in BOOLEAN, console \in BOOLEAN, d \in TimerDelays :
        \E q \in IF timer THEN Schedule(<< >>, "TimerInt", d) ELSE {<< >>} :
          pending \in IF console THEN Schedule(q, "ConsoleReadInt", ConsoleTime) ELSE {q}
  BY DEF Init
<1>4. d \in Nat \ {0} /\ ConsoleTime \in Nat \ {0}
  BY InterruptAssumption
<1>5. "TimerInt" \in IntTypes /\ "ConsoleReadInt" \in IntTypes
  BY DEF IntTypes
<1>6. PICK q : /\ q \in IF timer THEN Schedule(<< >>, "TimerInt", d) ELSE {<< >>}
               /\ pending \in IF console THEN Schedule(q, "ConsoleReadInt", ConsoleTime) ELSE {q}
  BY <1>3
<1>7. q \in Seq(Entry) /\ Sorted(q) /\ From(q, 1)
  <2>1. CASE timer
    BY <1>1, <1>2, <1>4, <1>5, <1>6, <2>1, Zenon
  <2>2. CASE ~timer
    BY <1>1, <1>6, <2>2
  <2> QED BY <2>1, <2>2
<1>8. CASE console
  BY <1>2, <1>4, <1>5, <1>6, <1>7, <1>8, Zenon
<1>9. CASE ~console
  BY <1>6, <1>7, <1>9
<1> QED BY <1>8, <1>9

\* The invariant holds when main has forked its threads.
LEMMA IntInit ==
  ASSUME Init
  PROVE  IntInv
<1>1. /\ scheduler = [currentThread |-> FirstThread, readyList |-> OtherThreads,
              status |-> [t \in Threads |-> IF t = FirstThread THEN "RUNNING" ELSE "READY"]]
      /\ at = "run" /\ level = "IntOn" /\ status = "SystemMode"
      /\ doing = [t \in Threads |-> "start"] /\ frames = [t \in Threads |-> << >>]
  BY DEF Init
<1>2. FirstThread \in Threads /\ OtherThreads \in Seq(Threads)
  BY InterruptAssumption
<1>3. /\ scheduler.currentThread = FirstThread /\ scheduler.readyList = OtherThreads
      /\ scheduler.status = [t \in Threads |-> IF t = FirstThread THEN "RUNNING" ELSE "READY"]
  BY <1>1, Zenon
<1>4. scheduler \in SchedulerState
  BY <1>1, <1>2 DEF SchedulerState, Status
<1>5. ReadyExact(scheduler)
  <2>1. On(OtherThreads) = {t \in Threads : scheduler.status[t] = "READY"}
    BY <1>2, <1>3, InterruptAssumption, Zenon
  <2> QED BY <1>2, <1>3, <2>1, InterruptAssumption, Zenon DEF ReadyExact
<1>6. SchedInv
  BY <1>1, <1>2, <1>3, <1>4, <1>5, Zenon DEF SchedInv, Executes, CPU, Current
<1>7. TimeInv
  <2>1. pending \in Seq(Entry) /\ Sorted(pending) /\ From(pending, 1)
    BY InitPending
  <2>2. SystemTick \in Nat
    BY InterruptAssumption
  <2>3. From(pending, -SystemTick)
    BY <2>1, <2>2, FromWeaker, SMTT(60)
  <2> QED BY <1>1, <2>1, <2>3 DEF TimeInv
<1>8. ModeInv
  BY <1>1, <1>2, <1>3, StackFacts, ZenonT(60) DEF ModeInv, Current
<1>9. HaltInv
  BY <1>1, <1>3 DEF HaltInv, HaltMeansCompleted, Blocked
<1> QED BY <1>6, <1>7, <1>8, <1>9, Zenon DEF IntInv

\* The invariant of Interrupt, for any threads, delays and time.
LEMMA IntInvariant == Spec => []IntInv
<1>1. Init => IntInv
  BY IntInit
<1>2. IntInv /\ [Next]_vars => IntInv'
  <2>1. ASSUME IntInv, Next PROVE IntInv'
    BY <2>1, SchedNext, TimeNext, ModeNext, HaltNext, SMTT(60) DEF IntInv
  <2>2. ASSUME IntInv, UNCHANGED vars PROVE IntInv'
    BY <2>2, ZenonT(60) DEF IntInv, SchedInv, TimeInv, ModeInv, HaltInv, HaltMeansCompleted, DiskPending,
                Current, vars
  <2> QED BY <2>1, <2>2
<1> QED BY <1>1, <1>2, PTL DEF Spec

\* OneTick and Idle deliver every interrupt in time: while a thread executes none
\* is overdue, and none is ever more than a system tick late.
THEOREM InterruptsInTime == Spec => []NothingOverdue
<1>1. IntInv => NothingOverdue
  <2> SUFFICES ASSUME IntInv PROVE NothingOverdue
    OBVIOUS
  <2>1. /\ pending \in Seq(Entry) /\ From(pending, -SystemTick)
        /\ at = "run" => From(pending, 1)
    BY DEF IntInv, TimeInv
  <2>2. DOMAIN pending = 1..Len(pending) /\ \A i \in 1..Len(pending) : pending[i] \in Entry
    BY <2>1
  <2> QED BY <2>1, <2>2 DEF NothingOverdue, From, Entry
<1> QED BY <1>1, IntInvariant, PTL

\* However the yields of OneTick nest, it gives every thread back the status it
\* was called in: user instructions run in UserMode, the kernel in SystemMode.
THEOREM ModeIsRestored == Spec => []ModeRight
<1>1. IntInv => ModeRight
  BY DEF IntInv, ModeInv, ModeRight
<1> QED BY <1>1, IntInvariant, PTL

\* Idle halts the machine only when every thread has finished and nothing but the
\* timer is pending: a thread that waits for the disk has its interrupt on the list.
THEOREM HaltsWhenDone == Spec => []HaltMeansCompleted
<1>1. IntInv => HaltMeansCompleted
  BY DEF IntInv, HaltInv
<1> QED BY <1>1, IntInvariant, PTL
=============================================================================
