------------------------- MODULE SynchClientsProofs -------------------------
(***************************************************************************)
(* Three users of the synchronization objects, for every number of         *)
(* threads.  The dining philosophers monitor: no two neighbours eat        *)
(* together, and pickup returns to one who eats.  The disk has one request *)
(* at a time, and its interrupt wakes the thread that made it, for every   *)
(* number of calls and sectors.  SynchList implements a queue with         *)
(* indivisible operations and loses no wake-up, for every number of items. *)
(***************************************************************************)
EXTENDS DiningPh, SynchDisk, SynchList, SynchProofs

\* What the constants give.
LEMMA ConstFacts ==
  ASSUME DiningConstants
  PROVE  /\ dp \in Semaphores /\ Conditions = Philosophers
         /\ Philosophers \subseteq Threads /\ Main \in Threads \ Philosophers
BY DEF DiningConstants, Philosophers, Main

\* The neighbours: each is the neighbour of its neighbour, and nobody of itself.
LEMMA Neighbours ==
  ASSUME DiningConstants, NEW i \in Philosophers, NEW k \in Philosophers
  PROVE  /\ Left(i) \in Philosophers /\ Right(i) \in Philosophers
         /\ Right(i) # i
         /\ Right(k) = i => k = Left(i)
<1> USE DEF DiningConstants, Philosophers
<1>1. ASSUME NEW j \in 0..(N - 1)
      PROVE  Right(j) = IF j = N - 1 THEN 0 ELSE j + 1
  BY <1>1 DEF Right
<1>2. ASSUME NEW j \in 0..(N - 1)
      PROVE  Left(j) = IF j = 0 THEN N - 1 ELSE j - 1
  BY <1>2 DEF Left
<1>3. Left(i) \in Philosophers /\ Right(i) \in Philosophers /\ Right(i) # i
  <2>1. Left(i) = IF i = 0 THEN N - 1 ELSE i - 1
    BY <1>2, Zenon
  <2>2. Right(i) = IF i = N - 1 THEN 0 ELSE i + 1
    BY <1>1, Zenon
  <2> QED BY <2>1, <2>2
<1>4. Right(k) = i => k = Left(i)
  <2>1. Left(i) = IF i = 0 THEN N - 1 ELSE i - 1
    BY <1>2, Zenon
  <2>2. Right(k) = IF k = N - 1 THEN 0 ELSE k + 1
    BY <1>1, Zenon
  <2> QED BY <2>1, <2>2
<1> QED BY <1>3, <1>4

-----------------------------------------------------------------------------
\* The thread is inside the monitor.
Holds(t) == pc[t] \in Inside /\ t \notin asleep

\* dp is exclusive.
Exclusive ==
  /\ \A t, u \in Threads : Holds(t) /\ Holds(u) => t = u
  /\ sem[dp].value = IF \E t \in Threads : Holds(t) THEN 0 ELSE 1

\* At label, thread i is about to let philosopher j eat.
Granting(label, i, j) ==
  \/ label = "grant" /\ j = i
  \/ label = "grantLeft" /\ j = Left(i)
  \/ label = "grantRight" /\ j = Right(i)

\* What is known of philosopher i by the place of its thread.  One who waits
\* eats already, or will be found on the queue by the neighbour who lets it eat.
Knows(i, label, queue, sleeping) ==
  /\ label \in {"unlock", "eating", "putdown", "think"} => state[i] = "Eating"
  /\ label \in {"test", "grant", "check"} => state[i] \in {"Hungry", "Eating"}
  /\ label = "check" /\ sleeping => state[i] = "Eating" \/ i \in On(queue)
  /\ \A j \in Philosophers : Granting(label, i, j) => CanEat(j)

TableTypes ==
  /\ pc \in [Threads -> PhiloLabels]
  /\ state \in [Philosophers -> {"Thinking", "Hungry", "Eating"}]
  /\ \A t \in asleep : pc[t] \in {"pickup", "putdown", "check"}

TableInv ==
  /\ TableTypes
  /\ \A i \in Philosophers : Knows(i, pc[i], hilos[i], i \in asleep)
  /\ NeighboursNeverBothEat

\* Philosophers not forked yet are on no list.
NotYet == forked \in 0..N /\ \A i \in Philosophers : i >= forked => sched.status[i] = "JUST_CREATED"

PhInv == DiningConstants /\ SynchInv /\ NotYet /\ Exclusive /\ TableInv

\* The invariant gives the two properties.
LEMMA PhInvImplies == PhInv => NeighboursNeverBothEat /\ PickupReturnsEating
BY DEF PhInv, TableInv, Knows, PickupReturnsEating
-----------------------------------------------------------------------------
(* The kernel: what the steps do to the scheduler and to the queues. *)

Stay == \A u \in Threads : sched.status[u] = "JUST_CREATED" => sched'.status[u] = "JUST_CREATED"

\* Threads that do not exist yet are left alone, so that NotYet is kept.
LEMMA NotYetKept == ASSUME PhInv, Stay, forked' = forked PROVE NotYet'
BY ConstFacts DEF PhInv, NotYet, Stay

\* P, with the queue and the scheduler.
LEMMA KernelP ==
  ASSUME PhInv, NEW t \in Threads, NEW next, Executing(sched, t), P(t, dp, next), UNCHANGED hilos
  PROVE  SynchInv' /\ Stay
<1>1. dp \in Semaphores
  BY ConstFacts DEF PhInv
<1>2. SynchInv'
  BY <1>1, PKeeps DEF PhInv
<1>3. Stay
  <2>1. CASE sched' = sched
    BY <2>1 DEF Stay
  <2>2. CASE sched' = Sleep(sched)
    BY <2>2, SynchInvFacts, SleepKeeps DEF Stay, PhInv, Executing
  <2> QED BY <2>1, <2>2 DEF P
<1> QED BY <1>2, <1>3

\* V, with the queue and the scheduler.
LEMMA KernelV ==
  ASSUME PhInv, V(dp), UNCHANGED <<hilos, asleep>>
  PROVE  SynchInv' /\ Stay
<1>1. dp \in Semaphores
  BY ConstFacts DEF PhInv
<1>2. SynchInv'
  BY <1>1, VKeeps DEF PhInv
<1>3. Stay
  BY <1>1, VLeaves, Zenon DEF Stay, PhInv, V
<1> QED BY <1>2, <1>3

\* Wait up to Sleep, with the lock dp.
LEMMA KernelWait ==
  ASSUME PhInv, NEW t \in Threads, NEW c \in Conditions, Executing(sched, t), WaitSleep(t, c, dp)
  PROVE  SynchInv' /\ Stay
<1>1. dp \in Semaphores
  BY ConstFacts DEF PhInv
<1>2. SynchInv'
  BY <1>1, WaitSleepKeeps DEF PhInv
<1>3. Stay
  <2> DEFINE v == VWakes(dp)
  <2>1. /\ v \in SchedulerState /\ ReadyExact(v) /\ v.currentThread = sched.currentThread
        /\ \A u \in Threads : sched.status[u] # "BLOCKED" => v.status[u] = sched.status[u]
    BY <1>1, VLeaves, Zenon DEF PhInv
  <2>2. sched' = Sleep(v)
    BY DEF WaitSleep
  <2> HIDE DEF v
  <2>3. v.status[v.currentThread] = "RUNNING"
    BY <2>1 DEF Executing
  <2>4. \A u \in Threads : sched'.status[u] = "JUST_CREATED" <=> v.status[u] = "JUST_CREATED"
    BY <2>1, <2>2, <2>3, SleepKeeps
  <2> QED BY <2>1, <2>4 DEF Stay
<1> QED BY <1>2, <1>3

\* Signal, which wakes at most one thread of the condition.
LEMMA KernelSignal ==
  ASSUME PhInv, NEW c \in Conditions, Signal(c), UNCHANGED <<sem, asleep>>
  PROVE  SynchInv' /\ Stay
<1>1. SynchInv'
  BY SignalKeeps DEF PhInv
<1>2. Stay
  BY SynchInvFacts, WakeFirstKeeps DEF Stay, PhInv, Signal
<1> QED BY <1>1, <1>2

\* Yield and Sleep, which touch no queue.
LEMMA KernelSwitch ==
  ASSUME PhInv, ~Idling(sched), sched' \in {Yield(sched), Sleep(sched), sched},
         UNCHANGED <<sem, hilos, asleep>>
  PROVE  SynchInv' /\ Stay
<1>1. sched \in SchedulerState /\ ReadyExact(sched) /\ sched.status[sched.currentThread] = "RUNNING"
  BY SynchInvFacts DEF PhInv, Idling
<1>2. /\ sched' \in SchedulerState /\ ReadyExact(sched') /\ Blocked(sched) \subseteq Blocked(sched')
      /\ Stay
  <2>1. CASE sched' = Yield(sched)
    BY <1>1, <2>1, YieldKeeps DEF Stay
  <2>2. CASE sched' = Sleep(sched)
    BY <1>1, <2>2, SleepKeeps DEF Stay
  <2>3. CASE sched' = sched
    BY <1>1, <2>3 DEF Stay
  <2> QED BY <2>1, <2>2, <2>3
<1>3. WaitersApart'
  BY <1>2, Zenon DEF PhInv, SynchInv, WaitersApart, Apart
<1> QED BY <1>2, <1>3 DEF PhInv, SynchInv, SynchTypeOK
-----------------------------------------------------------------------------
(* The monitor: who holds dp, and what is known of the philosophers. *)

\* Nobody enters or leaves.
LEMMA SameHolder ==
  ASSUME Exclusive, \A t \in Threads : Holds(t)' <=> Holds(t), sem'[dp].value = sem[dp].value
  PROVE  Exclusive'
<1>1. (\E t \in Threads : Holds(t)') <=> \E t \in Threads : Holds(t)
  OBVIOUS
<1> QED BY <1>1 DEF Exclusive

\* Thread i takes dp: it is then the only one inside.
LEMMA Enters ==
  ASSUME Exclusive, NEW i \in Threads, Holds(i)', sem[dp].value # 0,
         \A t \in Threads : t # i => (Holds(t)' <=> Holds(t)),
         sem'[dp].value = sem[dp].value - 1
  PROVE  Exclusive'
<1>1. \A t \in Threads : ~Holds(t)
  BY DEF Exclusive
<1>2. sem'[dp].value = 0
  BY <1>1 DEF Exclusive
<1>3. \A t \in Threads : Holds(t)' <=> t = i
  BY <1>1
<1> QED BY <1>2, <1>3 DEF Exclusive

\* The thread inside leaves, by Release or by Wait.
LEMMA Leaves ==
  ASSUME Exclusive, NEW i \in Threads, Holds(i), ~Holds(i)',
         \A t \in Threads : t # i => (Holds(t)' <=> Holds(t)),
         sem'[dp].value = sem[dp].value + 1
  PROVE  Exclusive'
<1>1. \A t \in Threads : ~Holds(t)'
  BY DEF Exclusive
<1>2. sem'[dp].value = 1
  BY DEF Exclusive
<1> QED BY <1>1, <1>2 DEF Exclusive

\* Thread i, and no other, goes to a place, falls asleep or wakes up.
Moves(i, label) ==
  /\ pc' = [pc EXCEPT ![i] = label]
  /\ \A t \in Threads : t # i => (t \in asleep' <=> t \in asleep)

\* A step of thread i that changes no state.
LEMMA SameState ==
  ASSUME PhInv, NEW i \in Threads, NEW label \in PhiloLabels, Moves(i, label), state' = state,
         asleep' \subseteq Threads,
         i \in asleep' => label \in {"pickup", "putdown", "check"},
         \A k \in Philosophers : k # i => hilos'[k] = hilos[k],
         i \in Philosophers => Knows(i, label, hilos'[i], i \in asleep')
  PROVE  TableInv'
<1>1. pc \in [Threads -> PhiloLabels] /\ Philosophers \subseteq Threads
  BY ConstFacts DEF PhInv, TableInv, TableTypes
<1>2. pc'[i] = label /\ \A t \in Threads : t # i => pc'[t] = pc[t]
  BY <1>1 DEF Moves
<1>3. TableTypes'
  BY <1>1, <1>2 DEF PhInv, TableInv, TableTypes, Moves
<1>4. \A j \in Philosophers : CanEat(j)' <=> CanEat(j)
  BY DEF CanEat, Left, Right
<1>5. ASSUME NEW k \in Philosophers PROVE Knows(k, pc[k], hilos[k], k \in asleep)'
  <2>1. \A j \in Philosophers : Granting(pc[k], k, j)' <=> Granting(pc'[k], k, j)
    BY DEF Granting, Left, Right
  <2>2. CASE k = i
    BY <1>2, <1>4, <2>1, <2>2, Zenon DEF Knows
  <2>3. CASE k # i
    <3>1. pc'[k] = pc[k] /\ hilos'[k] = hilos[k] /\ (k \in asleep' <=> k \in asleep)
      BY <1>1, <1>2, <2>3 DEF Moves
    <3>2. Knows(k, pc[k], hilos[k], k \in asleep)
      BY DEF PhInv, TableInv
    <3> QED BY <1>4, <2>1, <3>1, <3>2 DEF Knows
  <2> QED BY <2>2, <2>3
<1>6. NeighboursNeverBothEat'
  BY DEF PhInv, TableInv, NeighboursNeverBothEat, Right
<1> QED BY <1>3, <1>5, <1>6 DEF TableInv

\* A step of the thread inside that changes the state of philosopher j: its own
\* to Hungry or Thinking, or to Eating that of one who can eat.
LEMMA NewState ==
  ASSUME PhInv, NEW i \in Philosophers, Holds(i), NEW j \in Philosophers, NEW v, NEW label,
         label \in {"test", "testLeft", "testRight", "drop", "check"},
         pc' = [pc EXCEPT ![i] = label], asleep' = asleep,
         state' = [state EXCEPT ![j] = v],
         \/ v = "Eating" /\ CanEat(j)
         \/ v \in {"Hungry", "Thinking"} /\ j = i,
         label \in {"test", "check"} => j = i /\ v \in {"Hungry", "Eating"},
         \A k \in Philosophers : k # j => hilos'[k] = hilos[k]
  PROVE  TableInv'
<1>1. /\ pc \in [Threads -> PhiloLabels] /\ Philosophers \subseteq Threads
      /\ state \in [Philosophers -> {"Thinking", "Hungry", "Eating"}]
  BY ConstFacts DEF PhInv, TableInv, TableTypes
<1>2. pc'[i] = label /\ \A t \in Threads : t # i => pc'[t] = pc[t]
  BY <1>1
<1>3. state'[j] = v /\ \A k \in Philosophers : k # j => state'[k] = state[k]
  BY <1>1
<1>4. TableTypes'
  BY <1>1, <1>2 DEF PhInv, TableInv, TableTypes, PhiloLabels, Inside, Holds
<1>5. ASSUME NEW k \in Philosophers PROVE Knows(k, pc[k], hilos[k], k \in asleep)'
  <2>1. Knows(k, pc[k], hilos[k], k \in asleep)
    BY DEF PhInv, TableInv
  <2>2. pc'[k] \notin {"grant", "grantLeft", "grantRight"}
    <3>1. CASE k = i
      BY <1>2, <3>1
    <3>2. CASE k # i
      <4>1. ~Holds(k)
        BY <1>1, <3>2, Zenon DEF PhInv, Exclusive
      <4>2. pc[k] \in {"grant", "grantLeft", "grantRight"} => k \notin asleep
        BY DEF PhInv, TableInv, TableTypes
      <4> QED BY <1>1, <1>2, <3>2, <4>1, <4>2, Zenon DEF Holds, Inside
    <3> QED BY <3>1, <3>2
  <2>3. \A m \in Philosophers : ~Granting(pc[k], k, m)'
    BY <2>2 DEF Granting
  <2>4. CASE k = i
    BY <1>2, <1>3, <2>3, <2>4, Zenon DEF Knows, Holds
  <2>5. CASE k # i
    <3>1. pc'[k] = pc[k] /\ (state'[k] = state[k] \/ state'[k] = "Eating")
      BY <1>1, <1>2, <1>3, <2>5, Zenon
    <3>2. hilos'[k] = hilos[k] \/ state'[k] = "Eating"
      BY <1>3, <2>5, Zenon
    <3> QED BY <2>1, <2>3, <3>1, <3>2, Zenon DEF Knows
  <2> QED BY <2>4, <2>5
<1>6. NeighboursNeverBothEat'
  <2> SUFFICES ASSUME NEW k \in Philosophers, state'[k] = "Eating"
               PROVE  state'[Right(k)] # "Eating"
    BY DEF NeighboursNeverBothEat, Right
  <2>1. Right(k) \in Philosophers /\ Right(k) # k /\ (Right(k) = j => k = Left(j))
    BY Neighbours, Zenon DEF PhInv
  <2>2. state[k] = "Eating" => state[Right(k)] # "Eating"
    BY Zenon DEF PhInv, TableInv, NeighboursNeverBothEat
  <2> QED BY <1>3, <2>1, <2>2, Zenon DEF CanEat
<1> QED BY <1>4, <1>5, <1>6 DEF TableInv
-----------------------------------------------------------------------------
(* The steps. *)

\* Who is at a place and executes with interrupts on: its place, and its state.
LEMMA AtFacts ==
  ASSUME PhInv, NEW t \in Threads, NEW label, At(t, label)
  PROVE  /\ pc \in [Threads -> PhiloLabels] /\ asleep \subseteq Threads
         /\ pc[t] = label /\ t \notin asleep /\ ~Idling(sched) /\ Executing(sched, t)
         /\ t \in Philosophers => Knows(t, label, hilos[t], t \in asleep)
BY SynchInvFacts, Zenon DEF PhInv, TableInv, TableTypes, At, Executing, Idling

\* A step that leaves the places, the queues and the states alone.
LEMMA TableUnchanged ==
  ASSUME PhInv, UNCHANGED <<sem, hilos, asleep, pc, state>>
  PROVE  Exclusive' /\ TableInv'
<1>1. Exclusive'
  BY Zenon DEF PhInv, Exclusive, Holds
<1>2. TableInv'
  BY DEF PhInv, TableInv, TableTypes, Knows, Granting, CanEat, Left, Right, NeighboursNeverBothEat
<1> QED BY <1>1, <1>2, Zenon

\* Main forks the next philosopher, whose thread is on no list yet.
LEMMA ForkStep == ASSUME PhInv, ForkPhilo PROVE PhInv'
<1>1. /\ forked \in Philosophers /\ forked \in Threads
      /\ sched.status[forked] = "JUST_CREATED"
  BY SMTT(60) DEF PhInv, NotYet, ForkPhilo, Philosophers, DiningConstants
<1>2. sched' = ReadyToRun(sched, forked) /\ sched \in SchedulerState /\ ReadyExact(sched)
  BY SynchInvFacts, Zenon DEF PhInv, ForkPhilo
<1>3. /\ sched' \in SchedulerState /\ ReadyExact(sched')
      /\ Blocked(sched') = Blocked(sched) \ {forked}
      /\ \A u \in Threads : sched'.status[u] = IF u = forked THEN "READY" ELSE sched.status[u]
  BY <1>1, <1>2, ReadyToRunKeeps
<1>4. Blocked(sched') = Blocked(sched)
  BY <1>1, <1>3 DEF Blocked
<1>5. SynchInv'
  BY <1>3, <1>4, ZenonT(60) DEF PhInv, SynchInv, SynchTypeOK, WaitersApart, Apart, ForkPhilo
<1>6. NotYet'
  BY <1>1, <1>3 DEF PhInv, NotYet, ForkPhilo, Philosophers, DiningConstants
<1>7. Exclusive' /\ TableInv'
  BY TableUnchanged DEF ForkPhilo
<1>8. DiningConstants'
  BY DEF PhInv, DiningConstants
<1> QED BY <1>5, <1>6, <1>7, <1>8, Zenon DEF PhInv

\* The calls of Yield and of Finish, outside the monitor.
LEMMA SwitchStep ==
  ASSUME PhInv, NEW t \in Threads, NEW label, NEW next \in PhiloLabels \ Inside,
         At(t, label), label \notin Inside,
         t \in Philosophers => Knows(t, next, hilos[t], FALSE),
         sched' \in {Yield(sched), Sleep(sched)}, Goto(t, next),
         UNCHANGED <<sem, hilos, asleep, state, forked>>
  PROVE  PhInv'
<1>1. SynchInv' /\ Stay
  BY AtFacts, KernelSwitch
<1>2. NotYet'
  BY <1>1, NotYetKept
<1>3. \A u \in Threads : Holds(u)' <=> Holds(u)
  BY AtFacts DEF Goto, Holds
<1>4. Exclusive'
  BY <1>3, SameHolder DEF PhInv
<1>5. t \notin asleep' /\ asleep' \subseteq Threads /\ Moves(t, next)
  BY AtFacts, Zenon DEF Moves, Goto
<1>6. t \in Philosophers => Knows(t, next, hilos'[t], t \in asleep')
  BY <1>5, Zenon DEF Knows
<1>7. TableInv'
  BY <1>5, <1>6, SameState, Zenon
<1>8. DiningConstants'
  BY Zenon DEF PhInv, DiningConstants
<1> QED BY <1>1, <1>2, <1>4, <1>7, <1>8, Zenon DEF PhInv

\* Thread i calls P on dp outside the monitor, or at the end of Wait, and is
\* inside if it gets it.
LEMMA PStep ==
  ASSUME PhInv, NEW i \in Philosophers, NEW label, NEW next \in Inside,
         At(i, label) \/ BackAt(i, label),
         label \in {"pickup", "putdown"} \/ (i \in asleep /\ label = "check"),
         Knows(i, next, hilos[i], FALSE),
         P(i, dp, next), UNCHANGED <<hilos, state, forked>>
  PROVE  PhInv'
<1> i \in Threads /\ dp \in Semaphores
  BY ConstFacts, Zenon DEF PhInv
<1>1. /\ Executing(sched, i) /\ pc[i] = label /\ pc \in [Threads -> PhiloLabels]
      /\ asleep \subseteq Threads /\ Knows(i, label, hilos[i], i \in asleep)
      /\ sem \in [Semaphores -> SemaphoreState] /\ label \in PhiloLabels /\ next \in PhiloLabels
  BY SynchInvFacts, Zenon DEF PhInv, TableInv, TableTypes, At, BackAt, PhiloLabels
<1>2. SynchInv' /\ Stay
  BY <1>1, KernelP, Zenon
<1>3. NotYet' /\ DiningConstants'
  BY <1>2, NotYetKept, Zenon DEF PhInv, DiningConstants
<1>4. ~Holds(i)
  BY <1>1 DEF Holds, Inside
<1>5. CASE sem[dp].value = 0
  <2>1. sem'[dp].value = sem[dp].value /\ pc' = pc /\ asleep' = asleep \cup {i}
    BY <1>1, <1>5, PValues, Zenon
  <2>2. \A u \in Threads : Holds(u)' <=> Holds(u)
    BY <1>4, <2>1, Zenon DEF Holds
  <2>3. Exclusive'
    BY <2>1, <2>2, SameHolder, Zenon DEF PhInv
  <2>4. Moves(i, label) /\ asleep' \subseteq Threads
    BY <1>1, <2>1, Zenon DEF Moves
  <2>5. Knows(i, label, hilos'[i], i \in asleep')
    BY <1>1, <2>1, Zenon DEF Knows
  <2>6. TableInv'
    BY <1>1, <2>4, <2>5, SameState, Zenon
  <2> QED BY <1>2, <1>3, <2>3, <2>6, Zenon DEF PhInv
<1>6. CASE sem[dp].value # 0
  <2>1. /\ sem'[dp].value = sem[dp].value - 1
        /\ pc' = [pc EXCEPT ![i] = next] /\ asleep' = asleep \ {i}
    BY <1>1, <1>6, PValues, Zenon
  <2>2. Holds(i)' /\ \A u \in Threads : u # i => (Holds(u)' <=> Holds(u))
    BY <1>1, <2>1, Zenon DEF Holds
  <2>3. Exclusive'
    BY <1>6, <2>1, <2>2, Enters, Zenon DEF PhInv
  <2>4. Moves(i, next) /\ asleep' \subseteq Threads /\ i \notin asleep'
    BY <1>1, <2>1, Zenon DEF Moves
  <2>5. Knows(i, next, hilos'[i], i \in asleep')
    BY <2>4, Zenon DEF Knows
  <2>6. TableInv'
    BY <1>1, <2>4, <2>5, SameState, Zenon
  <2> QED BY <1>2, <1>3, <2>3, <2>6 DEF PhInv
<1> QED BY <1>5, <1>6

\* Release: thread i leaves the monitor.
LEMMA LeaveStep ==
  ASSUME PhInv, NEW i \in Philosophers, NEW label \in Inside, NEW next \in PhiloLabels \ Inside,
         Leave(i, label, next), Knows(i, next, hilos[i], FALSE)
  PROVE  PhInv'
<1> i \in Threads /\ dp \in Semaphores
  BY ConstFacts DEF PhInv
<1>1. /\ At(i, label) /\ V(dp) /\ Goto(i, next)
      /\ UNCHANGED <<hilos, asleep, state, eaten, forked>>
  BY DEF Leave
<1>2. SynchInv' /\ Stay
  BY <1>1, KernelV
<1>3. NotYet' /\ DiningConstants'
  BY <1>1, <1>2, NotYetKept, Zenon DEF PhInv, DiningConstants
<1>4. sem'[dp].value = sem[dp].value + 1
  BY <1>1, SynchInvFacts, VValues, Zenon DEF PhInv, V
<1>5. Holds(i) /\ ~Holds(i)' /\ \A u \in Threads : u # i => (Holds(u)' <=> Holds(u))
  BY <1>1, AtFacts, Zenon DEF Holds, Goto
<1>6. Exclusive'
  BY <1>4, <1>5, Leaves DEF PhInv
<1>7. Moves(i, next) /\ asleep' \subseteq Threads /\ i \notin asleep'
  BY <1>1, AtFacts, Zenon DEF Moves, Goto
<1>8. Knows(i, next, hilos'[i], i \in asleep')
  BY <1>1, <1>7, Zenon DEF Knows
<1>9. TableInv'
  BY <1>1, <1>7, <1>8, SameState, Zenon
<1> QED BY <1>2, <1>3, <1>6, <1>9, Zenon DEF PhInv

\* A step inside the monitor: the thread stays the only one there.
LEMMA StaysInside ==
  ASSUME PhInv, NEW i \in Philosophers, NEW label \in Inside, NEW next \in Inside,
         At(i, label), Goto(i, next), UNCHANGED <<sem, asleep, forked>>,
         SynchInv', Stay, TableInv'
  PROVE  PhInv'
<1> i \in Threads
  BY ConstFacts DEF PhInv
<1>1. \A u \in Threads : Holds(u)' <=> Holds(u)
  BY AtFacts DEF Holds, Goto
<1>2. Exclusive'
  BY <1>1, SameHolder, Zenon DEF PhInv
<1> QED BY <1>2, NotYetKept DEF PhInv, DiningConstants

\* The philosopher becomes Hungry or Thinking.
LEMMA SetStateStep ==
  ASSUME PhInv, NEW i \in Philosophers,
         \/ SetState(i, "hungry", "Hungry", "test")
         \/ SetState(i, "think", "Thinking", "testLeft")
  PROVE  PhInv'
<1> i \in Threads
  BY ConstFacts DEF PhInv
<1>1. PICK label \in {"hungry", "think"}, v \in {"Hungry", "Thinking"}, next \in {"test", "testLeft"} :
        /\ SetState(i, label, v, next) /\ (next = "test" => v = "Hungry")
  BY Zenon
<1>2. /\ At(i, label) /\ Goto(i, next) /\ state' = [state EXCEPT ![i] = v]
      /\ UNCHANGED <<sched, sem, hilos, asleep, forked>>
  BY <1>1 DEF SetState
<1>3. label \in Inside /\ next \in Inside
  BY Zenon DEF Inside
<1>4. Holds(i) /\ ~Idling(sched)
  BY <1>2, <1>3, AtFacts DEF Holds
<1>5. TableInv'
  BY <1>1, <1>2, <1>4, NewState, Zenon DEF Goto
<1>6. SynchInv' /\ Stay
  BY <1>2, <1>4, KernelSwitch, Zenon
<1> QED BY <1>2, <1>3, <1>5, <1>6, StaysInside, Zenon

\* The condition of test(j) is read: whoever goes on to let j eat found it true.
LEMMA TestStep ==
  ASSUME PhInv, NEW i \in Philosophers, NEW j \in Philosophers,
         NEW label \in Inside, NEW granted \in Inside, NEW next \in Inside,
         Test(i, label, j, granted, next),
         CanEat(j) => Knows(i, granted, hilos[i], FALSE),
         Knows(i, next, hilos[i], FALSE)
  PROVE  PhInv'
<1> i \in Threads
  BY ConstFacts DEF PhInv
<1>1. PICK to \in {granted, next} : Goto(i, to) /\ Knows(i, to, hilos[i], FALSE)
  BY Zenon DEF Test
<1>2. At(i, label) /\ UNCHANGED <<sched, sem, hilos, asleep, state, forked>>
  BY Zenon DEF Test
<1>3. /\ Moves(i, to) /\ asleep' \subseteq Threads /\ i \notin asleep' /\ ~Idling(sched)
      /\ to \in PhiloLabels /\ to \in Inside
  BY <1>1, <1>2, AtFacts, Zenon DEF Moves, Goto, PhiloLabels
<1>4. Knows(i, to, hilos'[i], i \in asleep')
  BY <1>1, <1>2, <1>3, Zenon DEF Knows
<1>5. TableInv'
  BY <1>2, <1>3, <1>4, SameState, Zenon
<1>6. SynchInv' /\ Stay
  BY <1>2, <1>3, KernelSwitch, Zenon
<1> QED BY <1>1, <1>2, <1>3, <1>5, <1>6, StaysInside, Zenon

\* Philosopher j is let eat and woken.
LEMMA GrantStep ==
  ASSUME PhInv, NEW i \in Philosophers, NEW j \in Philosophers,
         NEW label \in Inside, NEW next \in {"check", "testRight", "drop"},
         Grant(i, label, j, next), Granting(label, i, j), next = "check" => j = i
  PROVE  PhInv'
<1> i \in Threads /\ j \in Conditions
  BY ConstFacts DEF PhInv
<1>1. /\ At(i, label) /\ Signal(j) /\ Goto(i, next) /\ state' = [state EXCEPT ![j] = "Eating"]
      /\ UNCHANGED <<sem, asleep, forked>>
  BY DEF Grant
<1>2. Holds(i) /\ CanEat(j) /\ next \in Inside
  BY <1>1, AtFacts, Zenon DEF Holds, Knows, Inside
<1>3. \A k \in Philosophers : k # j => hilos'[k] = hilos[k]
  BY <1>1, ConstFacts, SynchInvFacts, Zenon DEF Signal, PhInv
<1>4. TableInv'
  BY <1>1, <1>2, <1>3, NewState, Zenon DEF Goto
<1>5. SynchInv' /\ Stay
  BY <1>1, KernelSignal
<1> QED BY <1>1, <1>2, <1>4, <1>5, StaysInside

\* The test of pickup: the philosopher waits on its condition, or leaves.
LEMMA CheckStep ==
  ASSUME PhInv, NEW i \in Philosophers, CheckHungry(i)
  PROVE  PhInv'
<1> i \in Threads /\ i \in Conditions /\ dp \in Semaphores
  BY ConstFacts DEF PhInv
<1>1. At(i, "check") /\ UNCHANGED <<state, eaten, forked>>
  BY Zenon  DEF CheckHungry
<1>2. /\ pc \in [Threads -> PhiloLabels] /\ asleep \subseteq Threads /\ pc[i] = "check"
      /\ i \notin asleep /\ Executing(sched, i) /\ ~Idling(sched)
      /\ Knows(i, "check", hilos[i], FALSE)
  BY <1>1, AtFacts, Zenon DEF Knows
<1>3. "check" \in Inside /\ "unlock" \in Inside /\ "check" \in PhiloLabels /\ "unlock" \in PhiloLabels
  BY DEF Inside, PhiloLabels
<1>4. CASE state[i] = "Hungry"
  <2>1. WaitSleep(i, i, dp)
    BY <1>4 DEF CheckHungry
  <2>2. SynchInv' /\ Stay
    BY <1>2, <2>1, KernelWait
  <2>3. NotYet' /\ DiningConstants'
    BY <1>1, <2>2, NotYetKept, Zenon DEF PhInv, DiningConstants
  <2>4. sem'[dp].value = sem[dp].value + 1
    BY <2>1, SynchInvFacts, VValues, Zenon DEF PhInv, WaitSleep
  <2>5. pc' = pc /\ asleep' = asleep \cup {i} /\ hilos' = [hilos EXCEPT ![i] = Append(hilos[i], i)]
    BY <2>1, Zenon DEF WaitSleep
  <2>6. Holds(i) /\ ~Holds(i)' /\ \A u \in Threads : u # i => (Holds(u)' <=> Holds(u))
    BY <1>2, <1>3, <2>5, Zenon DEF Holds
  <2>7. Exclusive'
    BY <2>4, <2>6, Leaves, Zenon DEF PhInv
  <2>8. /\ \A k \in Philosophers : k # i => hilos'[k] = hilos[k]
        /\ hilos'[i] = Append(hilos[i], i) /\ hilos[i] \in Seq(Threads)
    BY <2>5, ConstFacts, SynchInvFacts, Zenon DEF PhInv
  <2>9. i \in On(hilos'[i])
    BY <2>8, AppendOn
  <2>10. Moves(i, "check") /\ asleep' \subseteq Threads
    BY <1>2, <2>5, Zenon DEF Moves
  <2>11. Knows(i, "check", hilos'[i], i \in asleep')
    BY <1>2, <2>9, Zenon DEF Knows
  <2>12. TableInv'
    BY <1>1, <1>3, <2>8, <2>10, <2>11, SameState, Zenon
  <2> QED BY <2>2, <2>3, <2>7, <2>12, Zenon DEF PhInv
<1>5. CASE state[i] # "Hungry"
  <2>1. Goto(i, "unlock") /\ UNCHANGED <<sched, sem, hilos, asleep>>
    BY <1>5 DEF CheckHungry
  <2>2. Moves(i, "unlock") /\ asleep' \subseteq Threads /\ i \notin asleep'
    BY <1>2, <2>1, Zenon DEF Moves, Goto
  <2>3. Knows(i, "unlock", hilos'[i], i \in asleep')
    BY <1>2, <1>5, Zenon DEF Knows, Granting
  <2>4. TableInv'
    BY <1>1, <1>3, <2>1, <2>2, <2>3, SameState, Zenon
  <2>5. SynchInv' /\ Stay
    BY <1>2, <2>1, KernelSwitch
  <2> QED BY <1>1, <1>3, <2>1, <2>4, <2>5, StaysInside, Zenon
<1> QED BY <1>4, <1>5, Zenon

\* Back from Wait, the philosopher is off the queue, so it was let eat: the
\* test need not be repeated.
LEMMA ReturnStep ==
  ASSUME PhInv, NEW i \in Philosophers, HungryReturn(i)
  PROVE  PhInv'
<1> i \in Threads /\ i \in Conditions
  BY ConstFacts DEF PhInv
<1>1. BackAt(i, "check") /\ P(i, dp, "unlock") /\ UNCHANGED <<hilos, state, forked>>
  BY DEF HungryReturn, WaitReturn
<1>2. Executing(sched, i) /\ i \in asleep /\ pc[i] = "check"
  BY <1>1, Zenon DEF BackAt
<1>3. i \notin On(hilos[i])
  BY <1>2, SynchInvFacts, Zenon DEF PhInv, Executing, Blocked
<1>4. state[i] = "Eating"
  BY <1>2, <1>3, Zenon DEF PhInv, TableInv, Knows
<1>5. Knows(i, "unlock", hilos[i], FALSE) /\ "unlock" \in Inside
  BY <1>4, Zenon DEF Knows, Granting, Inside
<1> QED BY <1>1, <1>2, <1>5, PStep, Zenon

\* Every step of a philosopher's thread keeps the invariant.
LEMMA PhiloStep == ASSUME PhInv, NEW i \in Philosophers, Philo(i) PROVE PhInv'
<1> i \in Threads /\ i # Main
  BY ConstFacts DEF PhInv
<1>1. Left(i) \in Philosophers /\ Right(i) \in Philosophers
  BY Neighbours DEF PhInv
<1>2. Inside \subseteq PhiloLabels
  BY DEF PhiloLabels
<1> DEFINE K(label) == Knows(i, label, hilos[i], FALSE)
<1>3. CASE StartYield(i) \/ ThinkYield(i) \/ FinishPhilo(i)
  <2>1. PICK label \in {"start", "thinking", "pickup"}, next \in {"pickup", "done"} :
          /\ At(i, label) /\ Goto(i, next) /\ sched' \in {Yield(sched), Sleep(sched)}
          /\ UNCHANGED <<sem, hilos, asleep, state, forked>>
    BY <1>3, Zenon DEF StartYield, ThinkYield, FinishPhilo, PhiloYield
  <2>2. label \notin Inside /\ next \in PhiloLabels \ Inside /\ K(next)
    BY DEF Inside, PhiloLabels, Knows, Granting
  <2> QED BY <2>1, <2>2, SwitchStep, Zenon
<1>4. CASE EatYield(i)
  <2>1. /\ At(i, "eating") /\ Goto(i, "putdown") /\ sched' = Yield(sched)
        /\ UNCHANGED <<sem, hilos, asleep, state, forked>>
    BY <1>4 DEF EatYield, PhiloYield
  <2>2. "eating" \notin Inside /\ "putdown" \in PhiloLabels \ Inside
    BY Zenon  DEF Inside, PhiloLabels
  <2>3. K("putdown")
    BY <2>1, AtFacts, Zenon DEF Knows, Granting
  <2> QED BY <2>1, <2>2, <2>3, SwitchStep, Zenon
<1>5. CASE Enter(i, "pickup", "hungry") \/ Enter(i, "putdown", "think")
  <2>1. PICK label \in {"pickup", "putdown"}, next \in {"hungry", "think"} :
          /\ Enter(i, label, next) /\ (next = "think" => label = "putdown")
    BY <1>5
  <2>2. /\ At(i, label) \/ BackAt(i, label)
        /\ P(i, dp, next) /\ UNCHANGED <<hilos, state, forked>>
    BY <2>1 DEF Enter
  <2>3. pc[i] = label
    BY <2>2, ZenonT(60) DEF At, BackAt
  <2>4. K(next) /\ next \in Inside
    BY <2>1, <2>3 DEF PhInv, TableInv, Knows, Granting, Inside
  <2> QED BY <2>2, <2>4, PStep, Zenon
<1>6. CASE Leave(i, "unlock", "eating")
  <2>1. K("eating")
    BY <1>6, AtFacts, Zenon DEF Leave, Knows, Granting
  <2> QED BY <1>6, <2>1, LeaveStep, ZenonT(60) DEF Inside, PhiloLabels
<1>7. CASE Leave(i, "drop", "thinking")
  <2>1. K("thinking")
    BY DEF Knows, Granting
  <2> QED BY <1>7, <2>1, LeaveStep, Zenon DEF Inside, PhiloLabels
<1>8. CASE SetState(i, "hungry", "Hungry", "test") \/ SetState(i, "think", "Thinking", "testLeft")
  BY <1>8, SetStateStep
<1>9. CASE Test(i, "test", i, "grant", "check")
  <2>1. (CanEat(i) => K("grant")) /\ K("check")
    BY <1>9, AtFacts, Zenon DEF Test, Knows, Granting
  <2> QED BY <1>9, <2>1, TestStep, ZenonT(60) DEF Inside
<1>10. CASE Test(i, "testLeft", Left(i), "grantLeft", "testRight")
  <2>1. (CanEat(Left(i)) => K("grantLeft")) /\ K("testRight")
    BY Zenon DEF Knows, Granting
  <2> QED BY <1>1, <1>10, <2>1, TestStep, Zenon DEF Inside
<1>11. CASE Test(i, "testRight", Right(i), "grantRight", "drop")
  <2>1. (CanEat(Right(i)) => K("grantRight")) /\ K("drop")
    BY DEF Knows, Granting
  <2> QED BY <1>1, <1>11, <2>1, TestStep, ZenonT(60) DEF Inside
<1>12. CASE Grant(i, "grant", i, "check")
  BY <1>12, GrantStep DEF Inside, Granting
<1>13. CASE Grant(i, "grantLeft", Left(i), "testRight")
  BY <1>1, <1>13, GrantStep DEF Inside, Granting
<1>14. CASE Grant(i, "grantRight", Right(i), "drop")
  BY <1>1, <1>14, GrantStep DEF Inside, Granting
<1>15. CASE CheckHungry(i) \/ HungryReturn(i)
  BY <1>15, CheckStep, ReturnStep
<1> QED
  BY <1>3, <1>4, <1>5, <1>6, <1>7, <1>8, <1>9, <1>10, <1>11, <1>12, <1>13, <1>14, <1>15, ZenonT(60)
  DEF Philo, Pickup, Putdown

\* Every step keeps the invariant.
LEMMA PhInvNext == PhInv /\ [DiningNext]_diningVars => PhInv'
<1> SUFFICES ASSUME PhInv, [DiningNext]_diningVars PROVE PhInv'
  OBVIOUS
<1>1. DiningConstants'
  BY DEF PhInv, DiningConstants
<1>2. CASE ForkPhilo
  BY <1>2, ForkStep
<1>3. CASE FinishPhilo(Main)
  <2>1. /\ At(Main, "fork") /\ Goto(Main, "done") /\ sched' = Sleep(sched)
        /\ UNCHANGED <<sem, hilos, asleep, state, forked>>
    BY <1>3, ConstFacts DEF PhInv, FinishPhilo
  <2>2. "fork" \notin Inside /\ "done" \in PhiloLabels \ Inside
    BY DEF Inside, PhiloLabels
  <2> QED BY <2>1, <2>2, ConstFacts, SwitchStep, Zenon DEF PhInv
<1>4. CASE \E i \in Philosophers : Philo(i)
  BY <1>4, PhiloStep, Zenon
<1>5. CASE TimeSlice /\ UNCHANGED <<state, eaten, forked>>
  <2>1. SynchInv' /\ Stay
    BY <1>5, KernelSwitch DEF TimeSlice, IntOn
  <2> QED BY <1>1, <1>5, <2>1, NotYetKept, TableUnchanged, Zenon DEF PhInv, TimeSlice
<1>6. CASE UNCHANGED diningVars
  <2>1. SynchInv' /\ NotYet'
    BY <1>6 DEF diningVars, PhInv, SynchInv, SynchTypeOK, WaitersApart, NotYet
  <2> QED BY <1>1, <1>6, <2>1, TableUnchanged, ZenonT(60) DEF PhInv, diningVars
<1> QED BY <1>2, <1>3, <1>4, <1>5, <1>6 DEF DiningNext, MainStep, DiningHalted

\* The program starts with main alone, everyone thinking and dp free.
LEMMA PhInvInit == DiningConstants /\ DiningInit => PhInv
<1> SUFFICES ASSUME DiningConstants, DiningInit PROVE PhInv
  OBVIOUS
<1>1. /\ Main \in Threads /\ Philosophers \subseteq Threads /\ Main \notin Philosophers
      /\ dp \in Semaphores
  BY ConstFacts
<1>2. On(<< >>) = {} /\ NoDuplicates(<< >>)
  BY EmptyOn
<1>3. \A t \in Threads : sched.status[t] = IF t = Main THEN "RUNNING" ELSE "JUST_CREATED"
  BY <1>2, Zenon DEF DiningInit, SynchInit
<1>4. sem[dp].value = 1
  BY <1>1, Zenon DEF DiningInit, SynchInit
<1>5. asleep = {}
  BY DEF DiningInit, SynchInit
<1>6. SynchInit(Main, << >>, [s \in Semaphores |-> 1])
  BY DEF DiningInit
<1>7. SynchInv
  <2> DEFINE value == [s \in Semaphores |-> 1]
             rest == << >>
  <2>1. value \in [Semaphores -> Nat] /\ rest \in Seq(Threads)
    OBVIOUS
  <2>2. SynchInit(Main, rest, value) /\ NoDuplicates(rest) /\ Main \notin On(rest)
    BY <1>2, <1>6, Zenon
  <2> HIDE DEF value, rest
  <2> QED BY <1>1, <2>1, <2>2, InitKeeps
<1>8. NotYet
  <2>1. forked = 0
    BY Zenon DEF DiningInit, TableInit
  <2>2. forked \in 0 .. N
    BY <2>1 DEF DiningConstants
  <2>3. \A i \in Philosophers : sched.status[i] = "JUST_CREATED"
    BY <1>1, <1>3, Zenon
  <2> QED BY <2>2, <2>3, Zenon DEF NotYet
<1>9. /\ pc \in [Threads -> PhiloLabels]
      /\ \A t \in Threads : pc[t] = IF t = Main THEN "fork" ELSE "start"
  BY Zenon DEF DiningInit, PhiloLabels
<1>10. Exclusive
  BY <1>4, <1>9 DEF Exclusive, Holds, Inside
<1>11. /\ state \in [Philosophers -> {"Thinking", "Hungry", "Eating"}]
       /\ \A i \in Philosophers : state[i] = "Thinking"
  BY DEF DiningInit, TableInit
<1>12. TableTypes
  BY <1>5, <1>9, <1>11, Zenon DEF TableTypes
<1>13. \A i \in Philosophers : Knows(i, pc[i], hilos[i], i \in asleep)
  BY <1>1, <1>9 DEF Knows, Granting
<1>14. NeighboursNeverBothEat
  BY <1>11 DEF NeighboursNeverBothEat
<1> QED BY <1>7, <1>8, <1>10, <1>12, <1>13, <1>14 DEF PhInv, TableInv
-----------------------------------------------------------------------------
\* For every number of philosophers, two neighbours never eat at the same time
\* (diningph.cc:46-56).
THEOREM NeighboursApart == DiningConstants /\ DiningSpec => []NeighboursNeverBothEat
<1>1. DiningConstants /\ DiningInit => PhInv
  BY PhInvInit
<1>2. PhInv /\ [DiningNext]_diningVars => PhInv'
  BY PhInvNext
<1>3. PhInv => NeighboursNeverBothEat
  BY PhInvImplies, Zenon
<1> QED BY <1>1, <1>2, <1>3, PTL DEF DiningSpec

\* For every number of philosophers, pickup returns to one who is Eating,
\* although it tests once around Wait (diningph.cc:25-26).
THEOREM PickupIsEnough == DiningConstants /\ DiningSpec => []PickupReturnsEating
<1>1. DiningConstants /\ DiningInit => PhInv
  BY PhInvInit
<1>2. PhInv /\ [DiningNext]_diningVars => PhInv'
  BY PhInvNext
<1>3. PhInv => PickupReturnsEating
  BY PhInvImplies
<1> QED BY <1>1, <1>2, <1>3, PTL DEF DiningSpec
-----------------------------------------------------------------------------
(* The synchronous disk. *)

\* The thread is between lock->Acquire() and lock->Release().
InCall(t) == pc[t] \in {"request", "wait", "release"}

\* A request has been made and its thread has not taken the semaphore's unit.
Outstanding == \E t \in Threads : pc[t] = "wait"

\* One thread inside at most, and the lock's value says whether there is one;
\* the interrupt to come, or the unit its handler gave, is that of the thread
\* which waits.
RequestInv ==
  /\ \A t, u \in Threads : InCall(t) /\ InCall(u) => t = u
  /\ sem[lock].value = IF \E t \in Threads : InCall(t) THEN 0 ELSE 1
  /\ pending + sem[semaphore].value = IF Outstanding THEN 1 ELSE 0
  /\ active <=> pending = 1

DInv ==
  /\ SynchDiskConstants
  /\ sem \in [Semaphores -> SemaphoreState]
  /\ pc \in [Threads -> CallerLabels]
  /\ pending \in Nat /\ active \in BOOLEAN
  /\ RequestInv

\* What the steps may assume.
LEMMA DInvFacts ==
  ASSUME DInv
  PROVE  /\ lock \in Semaphores /\ semaphore \in Semaphores /\ lock # semaphore
         /\ sem[lock].value \in Nat /\ sem[semaphore].value \in Nat
BY DEF DInv, SynchDiskConstants, SemaphoreState

\* The invariant gives OneRequestAtATime.
LEMMA DInvImplies == DInv => OneRequestAtATime
<1> SUFFICES ASSUME DInv PROVE OneRequestAtATime
  OBVIOUS
<1>1. pending \in Nat /\ sem[semaphore].value \in Nat /\ pending <= 1
  BY DInvFacts DEF DInv, RequestInv
<1>2. ASSUME NEW t \in Threads, pc[t] = "request" PROVE ~active
  <2>1. ~Outstanding
    BY <1>2 DEF DInv, RequestInv, InCall, Outstanding
  <2> QED BY <1>1, <2>1 DEF DInv, RequestInv
<1> QED BY <1>1, <1>2 DEF OneRequestAtATime, DInv, RequestInv

\* The disk and the lock as SynchDisk::SynchDisk makes them.
LEMMA DInvInit == SynchDiskConstants /\ SynchDiskInit => DInv
<1> SUFFICES ASSUME SynchDiskConstants, SynchDiskInit PROVE DInv
  OBVIOUS
<1>1. sem = [s \in Semaphores |-> [value |-> IF s = lock THEN 1 ELSE 0, queue |-> << >>]]
  BY Zenon DEF SynchDiskInit, SynchInit
<1>2. sem \in [Semaphores -> SemaphoreState]
  BY <1>1, SMTT(60) DEF SemaphoreState
<1>3. sem[lock].value = 1 /\ sem[semaphore].value = 0
  BY <1>1 DEF SynchDiskConstants
<1>4. \A t \in Threads : pc[t] = "out" /\ ~InCall(t)
  BY Zenon DEF SynchDiskInit, InCall
<1>5. ~Outstanding /\ pending = 0 /\ active = FALSE
  BY <1>4, Zenon DEF Outstanding, SynchDiskInit, DiskInit
<1>6. RequestInv
  BY <1>3, <1>4, <1>5, SMTT(60) DEF RequestInv
<1> QED
  BY <1>2, <1>5, <1>6, Zenon DEF DInv, SynchDiskInit, CallerLabels

\* A step that moves no thread over one of the four places keeps the invariant.
LEMMA Quiet ==
  ASSUME DInv, pc' \in [Threads -> CallerLabels], sem' \in [Semaphores -> SemaphoreState],
         \A t \in Threads : InCall(t)' <=> InCall(t),
         \A t \in Threads : pc'[t] = "wait" <=> pc[t] = "wait",
         sem'[lock].value = sem[lock].value,
         sem'[semaphore].value = sem[semaphore].value,
         UNCHANGED <<pending, active>>
  PROVE  DInv'
<1>1. Outstanding' <=> Outstanding
  BY DEF Outstanding
<1>2. (\E t \in Threads : InCall(t))' <=> \E t \in Threads : InCall(t)
  OBVIOUS
<1>3. RequestInv'
  BY <1>1, <1>2 DEF DInv, RequestInv
<1> QED BY <1>3, Zenon DEF DInv

\* The P that takes the lock: a thread that finds 0 stays where it is.
LEMMA AcquireKeeps == ASSUME DInv, NEW t \in Threads, Acquire(t) PROVE DInv'
<1>0. /\ P(t, lock, "request") /\ pc[t] = "acquire" /\ pc \in [Threads -> CallerLabels]
      /\ UNCHANGED <<pending, active>>
  BY Zenon  DEF Acquire, At, BackAt, diskVars, DInv
<1>1. /\ sem' \in [Semaphores -> SemaphoreState]
      /\ sem'[semaphore].value = sem[semaphore].value
      /\ sem[lock].value = 0 => sem'[lock].value = 0 /\ pc' = pc
      /\ sem[lock].value # 0 => /\ sem'[lock].value = sem[lock].value - 1
                                /\ pc' = [pc EXCEPT ![t] = "request"]
  BY <1>0, DInvFacts, PValues, ZenonT(60) DEF DInv
<1>2. CASE sem[lock].value = 0
  BY <1>0, <1>1, <1>2, Quiet, Zenon DEF InCall
<1>3. CASE sem[lock].value # 0
  <2>1. ~(\E u \in Threads : InCall(u)) /\ sem[lock].value = 1
    BY <1>3, Zenon DEF DInv, RequestInv
  <2>2. pc'[t] = "request" /\ \A u \in Threads : u # t => pc'[u] = pc[u]
    BY <1>0, <1>1, <1>3, Zenon
  <2>3. \A u \in Threads : InCall(u)' <=> u = t
    BY <2>1, <2>2 DEF InCall
  <2>4. ~Outstanding /\ ~Outstanding'
    BY <2>1, <2>2, Zenon DEF Outstanding, InCall
  <2>5. sem'[lock].value = 0
    BY <1>1, <1>3, <2>1, SMTT(60)
  <2>6. RequestInv'
    BY <1>0, <1>1, <2>3, <2>4, <2>5, Zenon DEF DInv, RequestInv
  <2> QED BY <1>0, <1>1, <1>3, <2>6 DEF DInv, CallerLabels
<1> QED BY <1>2, <1>3

\* The P that waits for the completion: it takes the unit the interrupt gave.
LEMMA WaitDoneKeeps == ASSUME DInv, NEW t \in Threads, WaitDone(t) PROVE DInv'
<1>0. /\ P(t, semaphore, "release") /\ pc[t] = "wait" /\ pc \in [Threads -> CallerLabels]
      /\ UNCHANGED <<pending, active>>
  BY Zenon  DEF WaitDone, At, BackAt, diskVars, DInv
<1>1. /\ sem' \in [Semaphores -> SemaphoreState]
      /\ sem'[lock].value = sem[lock].value
      /\ sem[semaphore].value = 0 => sem'[semaphore].value = 0 /\ pc' = pc
      /\ sem[semaphore].value # 0 => /\ sem'[semaphore].value = sem[semaphore].value - 1
                                     /\ pc' = [pc EXCEPT ![t] = "release"]
  BY <1>0, DInvFacts, PValues, ZenonT(60) DEF DInv
<1>2. CASE sem[semaphore].value = 0
  BY <1>0, <1>1, <1>2, Quiet, Zenon DEF InCall
<1>3. CASE sem[semaphore].value # 0
  <2>1. Outstanding /\ \A u \in Threads : InCall(u) <=> u = t
    BY <1>0, Zenon DEF DInv, RequestInv, Outstanding, InCall
  <2>2. pc'[t] = "release" /\ \A u \in Threads : u # t => pc'[u] = pc[u]
    BY <1>0, <1>1, <1>3
  <2>3. \A u \in Threads : InCall(u)' <=> u = t
    BY <2>1, <2>2 DEF InCall
  <2>4. ~Outstanding'
    BY <2>1, <2>2, Zenon DEF Outstanding, InCall
  <2>5. pending = 0 /\ sem'[semaphore].value = 0
    BY <1>1, <1>3, <2>1, DInvFacts DEF DInv, RequestInv
  <2>6. sem'[lock].value = 0
    BY <1>1, <2>1, ZenonT(60) DEF DInv, RequestInv
  <2>7. (\E u \in Threads : InCall(u))' /\ active = FALSE
    <3>1. 0 # 1
      OBVIOUS
    <3> QED BY <2>3, <2>5, <3>1, ZenonT(60) DEF DInv, RequestInv
  <2>8. RequestInv'
    <3>1. 0 + 0 = 0 /\ 0 # 1
      OBVIOUS
    <3> QED BY <1>0, <2>3, <2>4, <2>5, <2>6, <2>7, <3>1, ZenonT(60) DEF RequestInv
  <2> QED BY <1>0, <1>1, <1>3, <2>8, Zenon DEF DInv, CallerLabels
<1> QED BY <1>2, <1>3

\* The disk is idle when a request is made.
LEMMA RequestKeeps == ASSUME DInv, NEW t \in Threads, Request(t) PROVE DInv'
<1>1. /\ pc[t] = "request" /\ pc' = [pc EXCEPT ![t] = "wait"] /\ pc \in [Threads -> CallerLabels]
      /\ pending' = pending + 1 /\ active' = TRUE /\ sem' = sem
  BY DEF Request, At, Goto, DInv
<1>2. pc'[t] = "wait" /\ \A u \in Threads : u # t => pc'[u] = pc[u]
  BY <1>1, Zenon
<1>3. ~Outstanding /\ \A u \in Threads : InCall(u) <=> u = t
  BY <1>1, Zenon DEF DInv, RequestInv, InCall, Outstanding
<1>4. pending = 0 /\ sem[semaphore].value = 0
  BY <1>3, DInvFacts DEF DInv, RequestInv
<1>5. Outstanding' /\ \A u \in Threads : InCall(u)' <=> u = t
  BY <1>2, <1>3 DEF InCall, Outstanding
<1>6. sem[lock].value = 0
  BY <1>3, ZenonT(60) DEF DInv, RequestInv
<1>7. RequestInv'
  BY <1>1, <1>4, <1>5, <1>6 DEF RequestInv
<1> QED BY <1>1, <1>4, <1>7, SMTT(60) DEF DInv, CallerLabels

\* lock->Release() leaves nobody inside.
LEMMA ReleaseKeeps == ASSUME DInv, NEW t \in Threads, Release(t) PROVE DInv'
<1>1. /\ pc[t] = "release" /\ pc' = [pc EXCEPT ![t] = "out"] /\ pc \in [Threads -> CallerLabels]
      /\ sem' = VState(lock) /\ UNCHANGED <<pending, active>>
  BY Zenon  DEF Release, At, Goto, V, diskVars, DInv
<1>2. /\ sem' \in [Semaphores -> SemaphoreState]
      /\ sem'[lock].value = sem[lock].value + 1
      /\ sem'[semaphore].value = sem[semaphore].value
  BY <1>1, DInvFacts, VValues DEF DInv
<1>3. pc'[t] = "out" /\ \A u \in Threads : u # t => pc'[u] = pc[u]
  BY <1>1, ZenonT(60)
<1>4. \A u \in Threads : InCall(u) <=> u = t
  BY <1>1 DEF DInv, RequestInv, InCall
<1>5. \A u \in Threads : ~InCall(u)'
  BY <1>3, <1>4 DEF InCall
<1>6. ~Outstanding /\ ~Outstanding'
  BY <1>1, <1>4, <1>5 DEF Outstanding, InCall
<1>7. sem'[lock].value = 1
  BY <1>2, <1>4, SMTT(60) DEF DInv, RequestInv
<1>8. RequestInv'
  BY <1>1, <1>2, <1>5, <1>6, <1>7, Zenon DEF DInv, RequestInv
<1> QED BY <1>1, <1>2, <1>8 DEF DInv, CallerLabels

\* The completion interrupt turns into a unit of the semaphore.
LEMMA InterruptKeeps == ASSUME DInv, DiskInterrupt PROVE DInv'
<1>1. /\ pending > 0 /\ pending' = pending - 1 /\ active' = FALSE
      /\ sem' = VState(semaphore) /\ pc' = pc
  BY DEF DiskInterrupt, V
<1>2. /\ sem' \in [Semaphores -> SemaphoreState]
      /\ sem'[lock].value = sem[lock].value
      /\ sem'[semaphore].value = sem[semaphore].value + 1
  BY <1>1, DInvFacts, VValues, Zenon DEF DInv
<1>3. pending = 1 /\ sem[semaphore].value = 0 /\ Outstanding
  BY <1>1, DInvFacts, SMTT(60) DEF DInv, RequestInv
<1>4. pending' = 0 /\ sem'[semaphore].value = 1
  <2>1. 1 - 1 = 0 /\ 0 + 1 = 1
    OBVIOUS
  <2> QED BY <1>1, <1>2, <1>3, <2>1, Zenon
<1>5. Outstanding' /\ \A u \in Threads : InCall(u)' <=> InCall(u)
  BY <1>1, <1>3, Zenon DEF Outstanding, InCall
<1>6. RequestInv'
  <2>1. (\E u \in Threads : InCall(u)') <=> \E u \in Threads : InCall(u)
    BY <1>5
  <2> QED BY <1>1, <1>2, <1>4, <1>5, <2>1 DEF DInv, RequestInv
<1>7. active' \in BOOLEAN
  BY <1>1, Zenon
<1>8. pending' \in Nat /\ pc' \in [Threads -> CallerLabels]
  BY <1>1, <1>4 DEF DInv
<1> QED BY <1>2, <1>6, <1>7, <1>8 DEF DInv

\* Every step of the threads, the disk and the scheduler keeps the invariant.
LEMMA DInvNext == DInv /\ [SynchDiskNext]_synchDiskVars => DInv'
<1> SUFFICES ASSUME DInv, [SynchDiskNext]_synchDiskVars PROVE DInv'
  OBVIOUS
<1>1. ASSUME NEW t \in Threads, Call(t) \/ FinishCaller(t) PROVE DInv'
  <2>1. /\ pc[t] = "out" /\ \E label \in {"acquire", "done"} : pc' = [pc EXCEPT ![t] = label]
        /\ sem' = sem /\ UNCHANGED <<pending, active>>
    BY <1>1 DEF Call, FinishCaller, At, Goto, diskVars
  <2>2. pc' \in [Threads -> CallerLabels]
    BY <2>1 DEF DInv, CallerLabels
  <2>3. \A u \in Threads : (InCall(u)' <=> InCall(u)) /\ (pc'[u] = "wait" <=> pc[u] = "wait")
    BY <2>1 DEF DInv, InCall
  <2> QED BY <2>1, <2>2, <2>3, Quiet, ZenonT(60) DEF DInv
<1>2. ASSUME UNCHANGED <<sem, pc, pending, active>> PROVE DInv'
  BY <1>2, Quiet, Zenon DEF DInv, InCall
<1>3. CASE \/ TimeSlice /\ UNCHANGED <<diskVars, request, data, calls>>
           \/ IdleGoesOn \/ DiskHalted \/ UNCHANGED synchDiskVars
  BY <1>2, <1>3, Zenon DEF TimeSlice, IdleGoesOn, IdleReturn, DiskHalted, synchDiskVars, diskVars
<1> QED
  BY <1>1, <1>3, AcquireKeeps, RequestKeeps, WaitDoneKeeps, ReleaseKeeps, InterruptKeeps, Zenon
     DEF SynchDiskNext, ThreadStep

\* The assertion !active of Disk::ReadRequest and WriteRequest never fails, and
\* no more than one completion interrupt is ever scheduled.
THEOREM DiskOneRequest == SynchDiskConstants /\ SynchDiskSpec => []OneRequestAtATime
BY DInvInit, DInvNext, DInvImplies, PTL DEF SynchDiskSpec
-----------------------------------------------------------------------------
(* The calls of ReadSector and WriteSector are indivisible. *)

\* What a thread has asked for, and has been given, by its place in the call.
CallState(t) ==
  /\ pc[t] \in {"out", "done"} => request[t] = None /\ data[t] = None
  /\ pc[t] \in {"acquire", "request"} => request[t] \in Requests /\ data[t] = None
  /\ pc[t] \in {"wait", "release"} => request[t] \in Requests /\ data[t] \in Data

StoreInv ==
  /\ SynchDiskConstants
  /\ pc \in [Threads -> CallerLabels]
  /\ contents \in [Sectors -> Data]
  /\ request \in [Threads -> Requests \cup {None}]
  /\ data \in [Threads -> Data \cup {None}]
  /\ \A t \in Threads : CallState(t)

\* Nobody is in a call at first, in SynchDisk and in the store.
LEMMA StoreInvInit == SynchDiskConstants /\ SynchDiskInit => StoreInv /\ S!Init
BY SMTT(60) DEF SynchDiskInit, DiskInit, StoreInv, CallState, CallerLabels, S!Init

\* A request in progress names a sector, and data to write if it is a write.
LEMMA RequestParts ==
  ASSUME NEW r \in Requests
  PROVE  r.sector \in Sectors /\ (r.write => r.data \in Data)
BY Zenon DEF Requests

\* A step that changes only the place of t, within the call, is not seen by
\* the store.
LEMMA UnseenStep ==
  ASSUME StoreInv, NEW t \in Threads, NEW label \in CallerLabels,
         pc' = pc \/ pc' = [pc EXCEPT ![t] = label],
         <<pc[t], label>> \in {<<"acquire", "request">>, <<"wait", "release">>, <<"out", "done">>},
         UNCHANGED <<contents, request, data>>
  PROVE  StoreInv' /\ UNCHANGED S!storeVars
<1>1. pc' \in [Threads -> CallerLabels] /\ \A u \in Threads : u # t => pc'[u] = pc[u]
  BY DEF StoreInv
<1>2. pc'[t] = pc[t] \/ pc'[t] = label
  BY Zenon DEF StoreInv
<1>3. \A u \in Threads : CallState(u)'
  BY <1>1, <1>2 DEF StoreInv, CallState
<1> QED BY <1>1, <1>3, Zenon DEF StoreInv, SynchDiskConstants, S!storeVars

\* Disk::ReadRequest and WriteRequest are the instant at which a call takes
\* effect: the transfer is of the sector as it is then.
LEMMA RequestPerforms ==
  ASSUME StoreInv, NEW t \in Threads, Request(t)
  PROVE  StoreInv' /\ S!Perform(t)
<1> DEFINE r == request[t]
<1>1. /\ pc[t] = "request" /\ pc' = [pc EXCEPT ![t] = "wait"] /\ UNCHANGED request
      /\ contents' = IF r.write THEN [contents EXCEPT ![r.sector] = r.data] ELSE contents
      /\ data' = [data EXCEPT ![t] = contents'[r.sector]]
  BY Zenon  DEF Request, At, Goto
<1>2. r \in Requests /\ data[t] = None /\ r # None
  BY <1>1 DEF StoreInv, CallState, SynchDiskConstants
<1>3. contents' \in [Sectors -> Data]
  BY <1>1, <1>2, RequestParts, Zenon DEF StoreInv
<1>4. contents'[r.sector] \in Data
  BY <1>2, <1>3, RequestParts, Zenon
<1>5. /\ data' \in [Threads -> Data \cup {None}] /\ data'[t] \in Data
      /\ \A u \in Threads : u # t => data'[u] = data[u]
  BY <1>1, <1>4 DEF StoreInv
<1>6. /\ pc' \in [Threads -> CallerLabels] /\ pc'[t] = "wait"
      /\ \A u \in Threads : u # t => pc'[u] = pc[u]
  BY <1>1, Zenon DEF StoreInv, CallerLabels
<1>7. \A u \in Threads : CallState(u)'
  BY <1>1, <1>2, <1>5, <1>6, SMTT(60) DEF StoreInv, CallState
<1>8. StoreInv'
  BY <1>1, <1>3, <1>5, <1>6, <1>7, Zenon DEF StoreInv, SynchDiskConstants
<1>9. S!Perform(t)
  BY <1>1, <1>2 DEF S!Perform
<1> QED BY <1>8, <1>9

\* A thread calls ReadSector or WriteSector.
LEMMA CallInvokes ==
  ASSUME StoreInv, NEW t \in Threads, Call(t)
  PROVE  StoreInv' /\ \E r \in S!Requests : S!Invoke(t, r)
<1>1. PICK r \in Requests : request' = [request EXCEPT ![t] = r]
  BY ZenonT(60) DEF Call
<1>2. /\ pc[t] = "out" /\ pc' = [pc EXCEPT ![t] = "acquire"] /\ UNCHANGED <<contents, data>>
  BY DEF Call, At, Goto, diskVars
<1>3. request[t] = None /\ data[t] = None
  BY <1>2 DEF StoreInv, CallState
<1>4. /\ pc' \in [Threads -> CallerLabels] /\ pc'[t] = "acquire" /\ request'[t] = r
      /\ \A u \in Threads : u # t => pc'[u] = pc[u] /\ request'[u] = request[u]
  BY <1>1, <1>2, ZenonT(60) DEF StoreInv, CallerLabels
<1>5. \A u \in Threads : CallState(u)'
  BY <1>2, <1>3, <1>4 DEF StoreInv, CallState
<1>6. StoreInv'
  <2>1. SynchDiskConstants'
    BY DEF StoreInv, SynchDiskConstants
  <2>2. contents' \in [Sectors -> Data] /\ data' \in [Threads -> Data \cup {None}]
    BY <1>2, Zenon DEF StoreInv
  <2>3. request' \in [Threads -> Requests \cup {None}]
    BY <1>1 DEF StoreInv
  <2> QED BY <1>4, <1>5, <2>1, <2>2, <2>3, Zenon DEF StoreInv
<1>7. r \in S!Requests /\ S!Invoke(t, r)
  BY <1>1, <1>2, <1>3, ZenonT(60) DEF S!Invoke, S!Requests, Requests
<1> QED BY <1>6, <1>7

\* lock->Release() and the return.
LEMMA ReleaseReturns ==
  ASSUME StoreInv, NEW t \in Threads, Release(t)
  PROVE  StoreInv' /\ S!Return(t)
<1>1. /\ pc[t] = "release" /\ pc' = [pc EXCEPT ![t] = "out"] /\ UNCHANGED contents
      /\ request' = [request EXCEPT ![t] = None] /\ data' = [data EXCEPT ![t] = None]
  BY Zenon DEF Release, At, Goto, diskVars
<1>2. data[t] \in Data /\ data[t] # None
  BY <1>1 DEF StoreInv, CallState, SynchDiskConstants
<1>3. /\ pc' \in [Threads -> CallerLabels] /\ pc'[t] = "out"
      /\ request'[t] = None /\ data'[t] = None
      /\ \A u \in Threads : u # t =>
           pc'[u] = pc[u] /\ request'[u] = request[u] /\ data'[u] = data[u]
  BY <1>1, Zenon DEF StoreInv, CallerLabels
<1>4. \A u \in Threads : CallState(u)'
  BY <1>3, Zenon DEF StoreInv, CallState
<1>5. StoreInv'
  BY <1>1, <1>3, <1>4, Zenon DEF StoreInv, SynchDiskConstants
<1>6. S!Return(t)
  BY <1>1, <1>2 DEF S!Return
<1> QED BY <1>5, <1>6

\* Every step of SynchDisk is a step of the store, or one it does not see.
LEMMA StoreStep ==
  ASSUME StoreInv, [SynchDiskNext]_synchDiskVars
  PROVE  StoreInv' /\ [S!Next]_(S!storeVars)
<1>1. ASSUME NEW t \in Threads, Acquire(t) \/ WaitDone(t) \/ FinishCaller(t)
      PROVE  StoreInv' /\ UNCHANGED S!storeVars
  <2>1. CASE Acquire(t)
    <3>1. /\ pc[t] = "acquire" /\ (pc' = pc \/ pc' = [pc EXCEPT ![t] = "request"])
          /\ UNCHANGED <<contents, request, data>>
      BY <2>1 DEF Acquire, At, BackAt, P, Goto, diskVars
    <3> QED BY <3>1, UnseenStep DEF CallerLabels
  <2>2. CASE WaitDone(t)
    <3>1. /\ pc[t] = "wait" /\ (pc' = pc \/ pc' = [pc EXCEPT ![t] = "release"])
          /\ UNCHANGED <<contents, request, data>>
      BY <2>2 DEF WaitDone, At, BackAt, P, Goto, diskVars
    <3> QED BY <3>1, UnseenStep DEF CallerLabels
  <2>3. CASE FinishCaller(t)
    <3>1. /\ pc[t] = "out" /\ pc' = [pc EXCEPT ![t] = "done"]
          /\ UNCHANGED <<contents, request, data>>
      BY <2>3, Zenon DEF FinishCaller, At, Goto, diskVars
    <3> QED BY <3>1, UnseenStep, Zenon DEF CallerLabels
  <2> QED BY <1>1, <2>1, <2>2, <2>3, Zenon
<1>2. ASSUME UNCHANGED <<pc, contents, request, data>>
      PROVE  StoreInv' /\ UNCHANGED S!storeVars
  BY <1>2 DEF StoreInv, SynchDiskConstants, CallState, S!storeVars
<1>3. CASE \/ DiskInterrupt \/ IdleGoesOn \/ DiskHalted \/ UNCHANGED synchDiskVars
           \/ TimeSlice /\ UNCHANGED <<diskVars, request, data, calls>>
  <2>1. UNCHANGED <<pc, contents, request, data>>
    BY <1>3, Zenon DEF DiskInterrupt, IdleGoesOn, IdleReturn, TimeSlice, DiskHalted, synchDiskVars, diskVars
  <2> QED BY <1>2, <2>1, Zenon
<1>4. ASSUME NEW t \in Threads, ThreadStep(t)
      PROVE  StoreInv' /\ [S!Next]_(S!storeVars)
  BY <1>1, <1>4, CallInvokes, RequestPerforms, ReleaseReturns DEF ThreadStep, S!Next
<1> QED BY <1>3, <1>4 DEF SynchDiskNext

\* SynchDisk implements the store of sectors with indivisible reads and writes,
\* for every number of threads, sectors and calls: each call takes effect once,
\* between its call and its return, whatever the threads, the time slices and
\* the completion interrupts do in between.
THEOREM DiskImplementsStore == SynchDiskConstants /\ SynchDiskSpec => ImplementsStore
<1>1. SynchDiskConstants /\ SynchDiskInit => StoreInv /\ S!Init
  BY StoreInvInit
<1>2. StoreInv /\ [SynchDiskNext]_synchDiskVars => StoreInv' /\ [S!Next]_(S!storeVars)
  BY StoreStep
<1> QED BY <1>1, <1>2, PTL DEF SynchDiskSpec, ImplementsStore, S!Spec
-----------------------------------------------------------------------------
(* The synchronized list. *)

\* The thread holds the lock of the list.
InsideList(t) == pc[t] \in InList /\ t \notin asleep

ListExclusive ==
  /\ \A t, u \in Threads : InsideList(t) /\ InsideList(u) => t = u
  /\ sem[listLock].value = IF \E t \in Threads : InsideList(t) THEN 0 ELSE 1

\* Threads sleep in Acquire or in Wait, and one past the loop of Remove still
\* finds an item.
ListPlaces ==
  /\ pc \in [Threads -> ListLabels]
  /\ list \in Seq(Items) /\ left \subseteq Items /\ item \in [Producers -> SUBSET Items]
  /\ \A t \in asleep : pc[t] \in {"put", "remove", "map", "test"}
  /\ \A t \in Threads : pc[t] = "take" => list # << >>

\* Consumers only wait on listEmpty.
ListWaiters == On(hilos[listEmpty]) \subseteq {t \in Consumers : t \in asleep /\ pc[t] = "test"}

ListInv == SynchInv /\ ListExclusive /\ ListPlaces /\ ListWaiters

\* The threads of the list are the producers, the consumers and the others.
LEMMA ListConstants ==
  /\ Producers \subseteq Threads /\ Consumers \subseteq Threads
  /\ listLock \in Semaphores /\ listEmpty \in Conditions
BY SynchListAssumption

\* What the steps may assume.
LEMMA ListFacts ==
  ASSUME ListInv
  PROVE  /\ sem \in [Semaphores -> SemaphoreState] /\ sem[listLock].value \in Nat
         /\ hilos \in [Conditions -> Seq(Threads)] /\ asleep \subseteq Threads
         /\ hilos[listEmpty] \in Seq(Threads) /\ NoDuplicates(hilos[listEmpty])
         /\ On(hilos[listEmpty]) \subseteq Blocked(sched)
BY SynchInvFacts, ListConstants DEF ListInv

\* The list is empty, every thread is where it begins, nobody waits.
LEMMA ListInvInit == ListInit => ListInv
<1> SUFFICES ASSUME ListInit PROVE ListInv
  OBVIOUS
<1> DEFINE value == [s \in Semaphores |-> 1]
<1>1. value \in [Semaphores -> Nat] /\ SynchInit(FirstCaller, OtherCallers, value)
  BY DEF ListInit, NothingAppended
<1>2. sem = [s \in Semaphores |-> [value |-> 1, queue |-> << >>]]
  BY DEF ListInit, SynchInit
<1>3. asleep = {} /\ hilos = [c \in Conditions |-> << >>]
  BY DEF ListInit, SynchInit
<1> HIDE DEF value
<1>4. SynchInv
  BY <1>1, InitKeeps, SynchListAssumption
<1>5. /\ pc \in [Threads -> ListLabels]
      /\ \A t \in Threads : pc[t] \in {"produce", "remove", "map"}
  BY DEF ListInit, Role, ListLabels
<1>6. sem[listLock].value = 1 /\ \A t \in Threads : ~InsideList(t)
  BY <1>2, <1>5, ListConstants DEF InsideList, InList
<1>7. ListExclusive
  BY <1>6 DEF ListExclusive
<1>8. ListPlaces
  BY <1>3, <1>5 DEF ListPlaces, ListInit, NothingAppended
<1>9. ListWaiters
  BY <1>3, EmptyOn, ListConstants DEF ListWaiters
<1> QED BY <1>4, <1>7, <1>8, <1>9 DEF ListInv

\* Nobody takes or gives back the lock.
LEMMA SameInside ==
  ASSUME ListExclusive, \A t \in Threads : InsideList(t)' <=> InsideList(t),
         sem'[listLock].value = sem[listLock].value
  PROVE  ListExclusive'
<1>1. (\E t \in Threads : InsideList(t)') <=> \E t \in Threads : InsideList(t)
  OBVIOUS
<1> QED BY <1>1 DEF ListExclusive

\* Thread t takes the lock: it is then the only one inside.
LEMMA EntersList ==
  ASSUME ListExclusive, NEW t \in Threads, sem[listLock].value # 0,
         sem'[listLock].value = sem[listLock].value - 1,
         InsideList(t)', \A u \in Threads \ {t} : InsideList(u)' <=> InsideList(u)
  PROVE  ListExclusive'
<1>1. sem[listLock].value = 1 /\ \A u \in Threads : ~InsideList(u)
  BY DEF ListExclusive
<1>2. \A u \in Threads : InsideList(u)' <=> u = t
  BY <1>1
<1> QED BY <1>1, <1>2 DEF ListExclusive

\* Thread t gives the lock back: nobody is inside.
LEMMA LeavesList ==
  ASSUME ListExclusive, NEW t \in Threads, InsideList(t),
         sem'[listLock].value = sem[listLock].value + 1,
         ~InsideList(t)', \A u \in Threads \ {t} : InsideList(u)' <=> InsideList(u)
  PROVE  ListExclusive'
<1>1. sem[listLock].value = 0 /\ \A u \in Threads : InsideList(u) => u = t
  BY DEF ListExclusive
<1>2. \A u \in Threads : ~InsideList(u)'
  BY <1>1
<1> QED BY <1>1, <1>2 DEF ListExclusive

\* lock->Acquire() in the three operations and at the end of Wait: the thread
\* waits where it is, or goes on with the lock.
LEMMA ListPKeeps ==
  ASSUME ListInv, NEW t \in Threads, NEW next \in {"append", "test", "apply"},
         Executing(sched, t), ~InsideList(t), pc[t] \in {"put", "remove", "map", "test"},
         P(t, listLock, next), UNCHANGED <<hilos, list, left, item>>
  PROVE  ListInv'
<1>1. /\ pc \in [Threads -> ListLabels] /\ asleep \subseteq Threads
      /\ t \notin On(hilos[listEmpty])
  <2>1. t \notin Blocked(sched)
    BY DEF Executing, Blocked
  <2> QED BY <2>1, ListFacts DEF ListInv, ListPlaces
<1>2. SynchInv'
  BY PKeeps, ListConstants DEF ListInv
<1>3. /\ sem[listLock].value = 0 =>
           sem'[listLock].value = 0 /\ pc' = pc /\ asleep' = asleep \cup {t}
      /\ sem[listLock].value # 0 =>
           /\ sem'[listLock].value = sem[listLock].value - 1
           /\ pc' = [pc EXCEPT ![t] = next] /\ asleep' = asleep \ {t}
  BY ListFacts, ListConstants, PValues
<1>4. CASE sem[listLock].value = 0
  <2>1. ~InsideList(t)' /\ \A u \in Threads \ {t} : InsideList(u)' <=> InsideList(u)
    BY <1>3, <1>4 DEF InsideList
  <2>2. \A u \in Threads : InsideList(u)' <=> InsideList(u)
    BY <2>1, Zenon
  <2>3. ListExclusive'
    BY <1>3, <1>4, <2>2, SameInside, ZenonT(60) DEF ListInv
  <2>4. ListPlaces' /\ ListWaiters'
    BY <1>3, <1>4 DEF ListInv, ListPlaces, ListWaiters
  <2> QED BY <1>2, <2>3, <2>4 DEF ListInv
<1>5. CASE sem[listLock].value # 0
  <2>1. pc'[t] = next /\ \A u \in Threads \ {t} : pc'[u] = pc[u]
    BY <1>1, <1>3, <1>5, Zenon
  <2>2. InsideList(t)' /\ \A u \in Threads \ {t} : InsideList(u)' <=> InsideList(u)
    BY <1>3, <1>5, <2>1, Zenon DEF InsideList, InList
  <2>3. ListExclusive'
    BY <1>3, <1>5, <2>2, EntersList, Zenon DEF ListInv
  <2>4. ListPlaces'
    BY <1>1, <1>3, <1>5, <2>1, ZenonT(60) DEF ListInv, ListPlaces, ListLabels, InList
  <2>5. ListWaiters'
    BY <1>1, <1>3, <1>5, <2>1, ListConstants DEF ListInv, ListWaiters
  <2> QED BY <1>2, <2>3, <2>4, <2>5, Zenon DEF ListInv
<1> QED BY <1>4, <1>5

\* A thread that is not asleep goes on to another label, inside or outside as
\* before, and touches neither the lock nor the sleepers.
LEMMA ListMoves ==
  ASSUME ListInv, NEW t \in Threads, NEW label \in ListLabels, t \notin asleep,
         pc[t] \in InList <=> label \in InList,
         pc' = [pc EXCEPT ![t] = label], UNCHANGED <<sem, asleep>>
  PROVE  /\ ListExclusive' /\ pc' \in [Threads -> ListLabels]
         /\ pc'[t] = label /\ \A u \in Threads \ {t} : pc'[u] = pc[u]
         /\ \A u \in asleep : pc'[u] \in {"put", "remove", "map", "test"}
<1>1. pc \in [Threads -> ListLabels] /\ asleep \subseteq Threads
  BY ListFacts DEF ListInv, ListPlaces
<1>2. pc'[t] = label /\ \A u \in Threads \ {t} : pc'[u] = pc[u]
  BY <1>1
<1>3. \A u \in Threads : InsideList(u)' <=> InsideList(u)
  BY <1>2 DEF InsideList
<1>4. ListExclusive'
  BY <1>3, SameInside, ZenonT(60) DEF ListInv
<1> QED BY <1>1, <1>2, <1>4, Zenon DEF ListInv, ListPlaces

\* The waiters of listEmpty stay consumers asleep in Wait.
LEMMA SameWaiters ==
  ASSUME ListInv, NEW t \in Threads, t \notin asleep, \A u \in Threads \ {t} : pc'[u] = pc[u],
         asleep \subseteq asleep', On(hilos'[listEmpty]) \subseteq On(hilos[listEmpty])
  PROVE  ListWaiters'
BY ListConstants DEF ListInv, ListWaiters

\* A producer takes up an item, or a thread finishes.
LEMMA OutsideKeeps ==
  ASSUME ListInv, NEW t \in Threads, (t \in Producers /\ Produce(t)) \/ ListFinish(t)
  PROVE  ListInv'
<1>1. CASE t \in Producers /\ Produce(t)
  <2>1. /\ pc[t] = "produce" /\ t \notin asleep /\ pc' = [pc EXCEPT ![t] = "put"]
        /\ UNCHANGED <<sched, sem, hilos, asleep, list>>
    BY <1>1 DEF Produce, At, Goto
  <2>2. PICK x \in left : item' = [item EXCEPT ![t] = {x}] /\ left' = left \ {x}
    BY <1>1, Zenon DEF Produce
  <2>3. left' \subseteq Items /\ item' \in [Producers -> SUBSET Items]
    BY <1>1, <2>2 DEF ListInv, ListPlaces
  <2>4. SynchInv'
    BY <2>1 DEF ListInv, SynchInv, SynchTypeOK, WaitersApart
  <2>5. /\ ListExclusive' /\ pc' \in [Threads -> ListLabels]
        /\ pc'[t] = "put" /\ \A u \in Threads \ {t} : pc'[u] = pc[u]
        /\ \A u \in asleep : pc'[u] \in {"put", "remove", "map", "test"}
    BY <2>1, ListMoves, Zenon DEF ListLabels, InList
  <2>6. ListPlaces'
    BY <2>1, <2>3, <2>5, Zenon DEF ListInv, ListPlaces
  <2>7. ListWaiters'
    BY <2>1, <2>5, SameWaiters
  <2> QED BY <2>4, <2>5, <2>6, <2>7, Zenon DEF ListInv
<1>2. CASE ListFinish(t)
  <2>1. /\ Executing(sched, t) /\ pc[t] \in {"produce", "mapped"} /\ t \notin asleep
        /\ pc' = [pc EXCEPT ![t] = "done"] /\ sched' = Sleep(sched)
        /\ UNCHANGED <<sem, hilos, asleep, list, left, item>>
    BY <1>2 DEF ListFinish, At, Goto
  <2>2. SynchInv'
    BY <2>1, FinishKeeps, Zenon DEF ListInv
  <2>3. /\ ListExclusive' /\ pc' \in [Threads -> ListLabels]
        /\ pc'[t] = "done" /\ \A u \in Threads \ {t} : pc'[u] = pc[u]
        /\ \A u \in asleep : pc'[u] \in {"put", "remove", "map", "test"}
    BY <2>1, ListMoves, Zenon DEF ListLabels, InList
  <2>4. ListPlaces'
    BY <2>1, <2>3, Zenon DEF ListInv, ListPlaces
  <2>5. ListWaiters'
    BY <2>1, <2>3, SameWaiters
  <2> QED BY <2>2, <2>3, <2>4, <2>5, Zenon DEF ListInv
<1> QED BY <1>1, <1>2

\* list->Append(item), listEmpty->Signal(lock) and list->Remove(), with the lock held.
LEMMA InsideKeeps ==
  ASSUME ListInv, NEW t \in Threads,
         (t \in Producers /\ (ListAppend(t) \/ ListSignal(t))) \/ ListRemove(t)
  PROVE  ListInv'
<1>1. CASE t \in Producers /\ ListAppend(t)
  <2>1. /\ pc[t] = "append" /\ t \notin asleep /\ pc' = [pc EXCEPT ![t] = "signal"]
        /\ item' = [item EXCEPT ![t] = {}] /\ UNCHANGED <<sched, sem, hilos, asleep, left>>
    BY <1>1 DEF ListAppend, At, Goto
  <2>2. PICK x \in item[t] : list' = Append(list, x)
    BY <1>1 DEF ListAppend
  <2>3. list' \in Seq(Items) /\ list' # << >>
    BY <1>1, <2>2, AppendOn DEF ListInv, ListPlaces
  <2>4. SynchInv'
    BY <2>1, Zenon DEF ListInv, SynchInv, SynchTypeOK, WaitersApart
  <2>5. /\ ListExclusive' /\ pc' \in [Threads -> ListLabels]
        /\ pc'[t] = "signal" /\ \A u \in Threads \ {t} : pc'[u] = pc[u]
        /\ \A u \in asleep : pc'[u] \in {"put", "remove", "map", "test"}
    BY <2>1, ListMoves, Zenon DEF ListLabels, InList
  <2>6. item' \in [Producers -> SUBSET Items]
    BY <1>1, <2>1, Zenon DEF ListInv, ListPlaces
  <2>7. ListPlaces'
    BY <2>1, <2>3, <2>5, <2>6, Zenon DEF ListInv, ListPlaces
  <2>8. ListWaiters'
    BY <2>1, <2>5, SameWaiters
  <2> QED BY <2>4, <2>5, <2>7, <2>8, Zenon DEF ListInv
<1>2. CASE ListSignal(t)
  <2>1. /\ pc[t] = "signal" /\ t \notin asleep /\ pc' = [pc EXCEPT ![t] = "release"]
        /\ Signal(listEmpty) /\ UNCHANGED <<sem, asleep, list, left, item>>
    BY <1>2 DEF ListSignal, At, Goto
  <2>2. SynchInv'
    BY <2>1, SignalKeeps, ListConstants, Zenon DEF ListInv
  <2>3. On(hilos'[listEmpty]) \subseteq On(hilos[listEmpty])
    <3>1. hilos'[listEmpty] = DropFirst(hilos[listEmpty])
      BY <2>1, ListFacts, ListConstants, Zenon DEF Signal
    <3> QED BY <3>1, ListFacts, TailOn, EmptyOn, ZenonT(60) DEF DropFirst
  <2>4. /\ ListExclusive' /\ pc' \in [Threads -> ListLabels]
        /\ pc'[t] = "release" /\ \A u \in Threads \ {t} : pc'[u] = pc[u]
        /\ \A u \in asleep : pc'[u] \in {"put", "remove", "map", "test"}
    BY <2>1, ListMoves, Zenon DEF ListLabels, InList
  <2>5. ListPlaces'
    BY <2>1, <2>4, Zenon DEF ListInv, ListPlaces
  <2>6. ListWaiters'
    BY <2>1, <2>3, <2>4, SameWaiters, Zenon
  <2> QED BY <2>2, <2>4, <2>5, <2>6, Zenon DEF ListInv
<1>3. CASE ListRemove(t)
  <2>1. /\ pc[t] = "take" /\ t \notin asleep /\ pc' = [pc EXCEPT ![t] = "release"]
        /\ list' = DropFirst(list) /\ UNCHANGED <<sched, sem, hilos, asleep, left, item>>
    BY <1>3 DEF ListRemove, At, Goto
  <2>2. list' \in Seq(Items)
    BY <2>1, TailOn DEF ListInv, ListPlaces, DropFirst
  <2>3. SynchInv'
    BY <2>1, Zenon DEF ListInv, SynchInv, SynchTypeOK, WaitersApart
  <2>4. /\ ListExclusive' /\ pc' \in [Threads -> ListLabels]
        /\ pc'[t] = "release" /\ \A u \in Threads \ {t} : pc'[u] = pc[u]
        /\ \A u \in asleep : pc'[u] \in {"put", "remove", "map", "test"}
    BY <2>1, ListMoves, Zenon DEF ListLabels, InList
  <2>5. \A u \in Threads : pc'[u] # "take"
    <3>1. ASSUME NEW u \in Threads \ {t}, pc[u] = "take" PROVE FALSE
      <4>1. InsideList(u) /\ InsideList(t)
        BY <2>1, <3>1, Zenon DEF ListInv, ListPlaces, InsideList, InList
      <4> QED BY <4>1 DEF ListInv, ListExclusive
    <3> QED BY <2>4, <3>1, Zenon
  <2>6. ListPlaces'
    BY <2>1, <2>2, <2>4, <2>5, Zenon DEF ListInv, ListPlaces
  <2>7. ListWaiters'
    BY <2>1, <2>4, SameWaiters
  <2> QED BY <2>3, <2>4, <2>6, <2>7 DEF ListInv
<1> QED BY <1>1, <1>2, <1>3, Zenon

\* lock->Release(), and Wait up to the switch: the V lets the next one in.
LEMMA ListVKeeps ==
  ASSUME ListInv, NEW t \in Threads,
         ListRelease(t) \/ (t \in Consumers /\ TestEmpty(t) /\ list = << >>)
  PROVE  ListInv'
<1>0. pc \in [Threads -> ListLabels] /\ asleep \subseteq Threads
  BY ListFacts DEF ListInv, ListPlaces
<1>1. CASE ListRelease(t)
  <2>1. PICK label \in {"mapped", "produce", "remove", "map"} : pc' = [pc EXCEPT ![t] = label]
    BY <1>1, Zenon DEF ListRelease, Goto, Role
  <2>2. /\ InsideList(t) /\ t \notin asleep
        /\ V(listLock) /\ UNCHANGED <<hilos, asleep, list, left, item>>
    BY <1>1 DEF ListRelease, At, InsideList, InList
  <2>3. SynchInv'
    BY <2>2, VKeeps, ListConstants DEF ListInv
  <2>4. sem'[listLock].value = sem[listLock].value + 1
    BY <2>2, ListFacts, ListConstants, VValues, Zenon DEF V
  <2>5. pc'[t] = label /\ \A u \in Threads \ {t} : pc'[u] = pc[u]
    BY <1>0, <2>1, Zenon
  <2>6. ~InsideList(t)' /\ \A u \in Threads \ {t} : InsideList(u)' <=> InsideList(u)
    BY <2>2, <2>5, Zenon DEF InsideList, InList
  <2>7. ListExclusive'
    BY <2>2, <2>4, <2>6, LeavesList, Zenon DEF ListInv
  <2>8. ListPlaces'
    BY <1>0, <2>1, <2>2, <2>5, Zenon DEF ListInv, ListPlaces, ListLabels
  <2>9. ListWaiters'
    BY <2>2, <2>5, SameWaiters, Zenon
  <2> QED BY <2>3, <2>7, <2>8, <2>9, Zenon DEF ListInv
<1>2. CASE t \in Consumers /\ TestEmpty(t) /\ list = << >>
  <2>1. /\ Executing(sched, t) /\ pc[t] = "test" /\ t \notin asleep /\ InsideList(t)
        /\ WaitSleep(t, listEmpty, listLock) /\ UNCHANGED <<list, left, item>>
    BY <1>2, Zenon DEF TestEmpty, At, InsideList, InList
  <2>2. SynchInv'
    BY <2>1, WaitSleepKeeps, ListConstants, Zenon DEF ListInv
  <2>3. sem'[listLock].value = sem[listLock].value + 1
    BY <2>1, ListFacts, ListConstants, VValues, Zenon DEF WaitSleep
  <2>4. /\ pc' = pc /\ asleep' = asleep \cup {t}
        /\ hilos'[listEmpty] = Append(hilos[listEmpty], t)
    BY <2>1, ListFacts, ListConstants, Zenon DEF WaitSleep
  <2>5. ~InsideList(t)' /\ \A u \in Threads \ {t} : InsideList(u)' <=> InsideList(u)
    BY <2>4, Zenon DEF InsideList
  <2>6. ListExclusive'
    BY <2>1, <2>3, <2>5, LeavesList, Zenon DEF ListInv
  <2>7. ListPlaces'
    BY <2>1, <2>4, ZenonT(60) DEF ListInv, ListPlaces
  <2>8. ListWaiters'
    <3>1. hilos[listEmpty] \in Seq(Threads)
      BY ListFacts, Zenon
    <3> DEFINE q == hilos[listEmpty]
    <3>2. q \in Seq(Threads) /\ hilos'[listEmpty] = Append(q, t)
      BY <2>4, <3>1, Zenon
    <3> HIDE DEF q
    <3>3. On(hilos'[listEmpty]) = On(q) \cup {t}
      <4>1. On(Append(q, t)) = On(q) \cup {t}
        BY <3>2, AppendOn
      <4> QED BY <3>2, <4>1, Zenon
    <3> QED BY <1>2, <2>1, <2>4, <3>3, Zenon DEF ListInv, ListWaiters, q
  <2> QED BY <2>2, <2>6, <2>7, <2>8, Zenon DEF ListInv
<1> QED BY <1>1, <1>2, Zenon

\* The test of the loop finds an item.
LEMMA TestKeeps ==
  ASSUME ListInv, NEW t \in Threads, TestEmpty(t), list # << >>
  PROVE  ListInv'
<1>1. /\ pc[t] = "test" /\ t \notin asleep /\ pc' = [pc EXCEPT ![t] = "take"]
      /\ UNCHANGED <<sched, sem, hilos, asleep, list, left, item>>
  BY DEF TestEmpty, At, Goto
<1>2. SynchInv'
  BY <1>1 DEF ListInv, SynchInv, SynchTypeOK, WaitersApart
<1>3. /\ ListExclusive' /\ pc' \in [Threads -> ListLabels]
      /\ pc'[t] = "take" /\ \A u \in Threads \ {t} : pc'[u] = pc[u]
      /\ \A u \in asleep : pc'[u] \in {"put", "remove", "map", "test"}
  BY <1>1, ListMoves, ZenonT(60) DEF ListLabels, InList
<1>4. ListPlaces'
  BY <1>1, <1>3 DEF ListInv, ListPlaces
<1>5. ListWaiters'
  BY <1>1, <1>3, SameWaiters, Zenon
<1> QED BY <1>2, <1>3, <1>4, <1>5 DEF ListInv

\* The four places where a thread acquires the lock.
Acquires(t) ==
  \/ ListAcquire(t, "put", "append") \/ ListAcquire(t, "remove", "test")
  \/ ListAcquire(t, "map", "apply") \/ WaitBack(t)

\* An Acquire, the one inside Wait included, keeps the invariant of the list.
LEMMA AcquiresKeeps ==
  ASSUME ListInv, NEW t \in Threads, Acquires(t)
  PROVE  ListInv'
<1>1. PICK next \in {"append", "test", "apply"} :
        /\ Executing(sched, t) /\ ~InsideList(t) /\ pc[t] \in {"put", "remove", "map", "test"}
        /\ P(t, listLock, next) /\ UNCHANGED <<hilos, list, left, item>>
  BY Zenon DEF Acquires, ListAcquire, WaitBack, WaitReturn, At, BackAt, InsideList, InList
<1> QED BY <1>1, ListPKeeps, Zenon

\* What a step of the list's threads can be.
LEMMA ListSteps ==
  ASSUME NEW t \in Threads, ListStep(t)
  PROVE  \/ (t \in Producers /\ Produce(t)) \/ ListFinish(t) \/ Acquires(t)
         \/ (t \in Producers /\ (ListAppend(t) \/ ListSignal(t))) \/ ListRemove(t)
         \/ ListRelease(t) \/ (t \in Consumers /\ TestEmpty(t))
BY Zenon DEF ListStep, AppendStep, RemoveStep, Acquires

\* The steps that only switch, or do nothing.
LEMMA SwitchKeeps ==
  ASSUME ListInv, \/ TimeSlice /\ UNCHANGED <<list, left, item, taken>>
                  \/ ListHalted \/ UNCHANGED listVars
  PROVE  /\ ListInv' /\ UNCHANGED <<sem, hilos, asleep, pc, list, left, item, taken>>
<1>1. UNCHANGED <<sem, hilos, asleep, pc, list, left, item, taken>>
  BY DEF TimeSlice, ListHalted, listVars
<1>2. SynchInv'
  <2>1. CASE TimeSlice
    BY <2>1, TimeSliceKeeps, Zenon DEF ListInv
  <2>2. CASE UNCHANGED listVars
    BY <2>2, Zenon DEF ListInv, listVars, SynchInv, SynchTypeOK, WaitersApart
  <2> QED BY <2>1, <2>2 DEF ListHalted
<1>3. ListExclusive' /\ ListPlaces' /\ ListWaiters'
  <2>1. \A t \in Threads : InsideList(t)' <=> InsideList(t)
    BY <1>1 DEF InsideList
  <2>2. ListExclusive'
    BY <1>1, <2>1, SameInside, Zenon DEF ListInv
  <2> QED BY <1>1, <2>2 DEF ListInv, ListPlaces, ListWaiters
<1> QED BY <1>1, <1>2, <1>3, ZenonT(60) DEF ListInv

\* Every step keeps the invariant.
LEMMA ListInvNext == ListInv /\ [ListNext]_listVars => ListInv'
<1> SUFFICES ASSUME ListInv, [ListNext]_listVars PROVE ListInv'
  BY Zenon
<1>1. ASSUME NEW t \in Threads, ListStep(t) PROVE ListInv'
  BY <1>1, ListSteps, OutsideKeeps, InsideKeeps, ListVKeeps, TestKeeps, AcquiresKeeps, Zenon
<1> QED BY <1>1, SwitchKeeps, Zenon DEF ListNext

\* Append and Remove are the only steps seen of the list: the first adds at its
\* end, the second takes from its front and returns an item that is there.
LEMMA FifoStep == ListInv /\ [ListNext]_listVars => [F!Next]_(F!fifoVars)
<1> SUFFICES ASSUME ListInv, [ListNext]_listVars PROVE [F!Next]_(F!fifoVars)
  OBVIOUS
<1>1. ASSUME UNCHANGED <<list, taken>> PROVE [F!Next]_(F!fifoVars)
  BY <1>1, Zenon DEF F!fifoVars
<1>2. ASSUME NEW t \in Threads, ListStep(t) PROVE [F!Next]_(F!fifoVars)
  <2>1. CASE t \in Producers /\ ListAppend(t)
    <3>1. PICK x \in item[t] : list' = Append(list, x)
      BY <2>1, Zenon DEF ListAppend
    <3>2. x \in Items /\ taken' = taken
      BY <2>1, <3>1 DEF ListInv, ListPlaces, ListAppend
    <3> QED BY <3>1, <3>2, Zenon DEF F!Next, F!Put
  <2>2. CASE ListRemove(t)
    <3>1. pc[t] = "take" /\ list # << >>
      BY <2>2, Zenon DEF ListRemove, At, ListInv, ListPlaces
    <3>2. list' = Tail(list) /\ taken' = Append(taken, Head(list))
      BY <2>2, <3>1, Zenon DEF ListRemove, DropFirst
    <3> QED BY <3>1, <3>2, Zenon DEF F!Next, F!Take
  <2>3. CASE \/ (t \in Producers /\ Produce(t)) \/ ListFinish(t) \/ Acquires(t)
             \/ ListSignal(t) \/ ListRelease(t) \/ TestEmpty(t)
    BY <1>1, <2>3, Zenon
       DEF Produce, ListFinish, Acquires, ListAcquire, WaitBack, ListSignal, ListRelease, TestEmpty
  <2> QED BY <1>2, <2>1, <2>2, <2>3, ListSteps, Zenon
<1>3. CASE \/ TimeSlice /\ UNCHANGED <<list, left, item, taken>>
           \/ ListHalted \/ UNCHANGED listVars
  BY <1>1, <1>3, SwitchKeeps
<1> QED BY <1>2, <1>3 DEF ListNext

\* SynchList is a queue whose Append and Remove are indivisible, and no Remove
\* returns NULL: the list that a consumer has found not empty, at its first test
\* or after any number of waits, still has an item when it takes it, for every
\* number of producers, consumers, mappers and items (synchlist.h:80-130).
THEOREM SynchListIsFifo == ListSpec => ImplementsFifo
<1>1. ListInit => F!Init
  BY Zenon DEF ListInit, NothingAppended, F!Init
<1> QED BY <1>1, ListInvInit, ListInvNext, FifoStep, PTL DEF ListSpec, ImplementsFifo, F!Spec
-----------------------------------------------------------------------------
(* No signal of the list is lost. *)

\* Those who are on their way to an item, or to the signal for it.
Takers == Signalled \cup {t \in Producers : pc[t] = "signal"}

TakerInv == ListInv /\ ItemHasTaker

\* A step that adds no item and takes nobody away keeps ItemHasTaker.
LEMMA MoreTakers ==
  ASSUME TakerInv, list' = list, hilos' = hilos, Takers \subseteq Takers'
  PROVE  ItemHasTaker'
<1>1. Len(list) \in Nat
  BY DEF TakerInv, ListInv, ListPlaces
<1> QED BY <1>1, MatchedMore, Zenon DEF TakerInv, ItemHasTaker, Takers

\* The same, when the thread that moves is not one of them.
LEMMA BystanderMoves ==
  ASSUME TakerInv, NEW t \in Threads, list' = list, hilos' = hilos,
         \/ pc[t] \notin {"test", "take", "signal"}
         \/ pc'[t] \in {"test", "take"} /\ pc[t] # "signal",
         \A u \in Threads \ {t} : pc'[u] = pc[u]
  PROVE  ItemHasTaker'
<1>1. Takers \subseteq Takers'
  BY ListConstants, Zenon DEF Takers, Signalled
<1> QED BY <1>1, MoreTakers, Zenon

\* A new item comes with the producer that will signal it.
LEMMA AppendMatches ==
  ASSUME TakerInv, NEW t \in Threads, t \in Producers, ListAppend(t)
  PROVE  ItemHasTaker'
<1>1. /\ pc[t] = "append" /\ pc' = [pc EXCEPT ![t] = "signal"] /\ hilos' = hilos
      /\ pc \in [Threads -> ListLabels] /\ list \in Seq(Items)
  BY DEF ListAppend, At, Goto, TakerInv, ListInv, ListPlaces
<1>2. PICK x \in item[t] : list' = Append(list, x)
  BY Zenon DEF ListAppend
<1>3. Len(list) \in Nat /\ Len(list') = Len(list) + 1
  BY <1>1, <1>2, SMTT(60) DEF TakerInv, ListInv, ListPlaces
<1>4. t \notin Takers /\ Takers \cup {t} \subseteq Takers'
  BY <1>1, ListConstants, SynchListAssumption DEF Takers, Signalled
<1> DEFINE n == Len(list)
           A == Takers
           B == Takers'
<1>5. ASSUME hilos[listEmpty] # << >> PROVE Matched(Len(list'), Takers')
  <2>1. Matched(n, A) /\ n \in Nat /\ t \notin A /\ A \cup {t} \subseteq B
    BY <1>3, <1>4, <1>5, Zenon DEF TakerInv, ItemHasTaker, Takers
  <2> HIDE DEF n, A, B
  <2>2. Matched(n + 1, B)
    BY <2>1, MatchedAdd, Zenon
  <2> QED BY <1>3, <2>2, Zenon DEF n, B
<1> QED BY <1>1, <1>5, Zenon DEF ItemHasTaker, Takers

\* The signal puts the consumer it wakes in the place of the producer.
LEMMA SignalMatches ==
  ASSUME TakerInv, NEW t \in Threads, ListSignal(t)
  PROVE  ItemHasTaker'
<1>1. /\ pc[t] = "signal" /\ pc' = [pc EXCEPT ![t] = "release"]
      /\ hilos' = [hilos EXCEPT ![listEmpty] = DropFirst(@)] /\ list' = list
      /\ pc \in [Threads -> ListLabels] /\ list \in Seq(Items)
  BY Zenon DEF ListSignal, At, Goto, Signal, TakerInv, ListInv, ListPlaces
<1> DEFINE q == hilos[listEmpty]
           n == Len(list)
           A == Takers
           B == Takers'
<1>2. q \in Seq(Threads) /\ NoDuplicates(q) /\ n \in Nat
  BY <1>1, ListFacts, SMTT(60) DEF TakerInv
<1>3. hilos'[listEmpty] = DropFirst(q)
  BY <1>1, ListFacts, ListConstants, Zenon DEF TakerInv
<1>4. ASSUME DropFirst(q) # << >> PROVE Matched(n, B)
  <2>1. q # << >> /\ DropFirst(q) = Tail(q)
    BY <1>4, ZenonT(60) DEF DropFirst
  <2>2. /\ Head(q) \in Threads /\ Head(q) \notin On(Tail(q))
        /\ On(q) = {Head(q)} \cup On(Tail(q))
    BY <1>2, <2>1, TailOn, TailNoDuplicates
  <2>3. Head(q) \in Consumers /\ pc[Head(q)] = "test"
    BY <2>2, Zenon DEF TakerInv, ListInv, ListWaiters
  <2>4. Head(q) \notin A
    BY <2>2, <2>3, SynchListAssumption, Zenon DEF Takers, Signalled
  <2>5. (A \ {t}) \cup {Head(q)} \subseteq B
    BY <1>1, <1>3, <2>1, <2>2, <2>3, ListConstants, ZenonT(60) DEF Takers, Signalled
  <2>6. Matched(n, A)
    BY <2>1 DEF TakerInv, ItemHasTaker, Takers
  <2> HIDE DEF q, n, A, B
  <2>7. CASE n = 0
    BY <1>2, <2>7, MatchedMore
  <2>8. CASE n # 0
    <3> DEFINE C == A \ {t}
    <3>1. n \in Nat \ {0} /\ n - 1 \in Nat /\ n - 1 + 1 = n
      BY <1>2, <2>8
    <3>2. Matched(n - 1, C)
      BY <2>6, <3>1, MatchedDrop
    <3>3. Head(q) \notin C /\ C \cup {Head(q)} \subseteq B
      BY <2>4, <2>5
    <3> HIDE DEF C
    <3>4. Matched(n - 1 + 1, B)
      BY <3>1, <3>2, <3>3, MatchedAdd, Zenon
    <3> QED BY <3>1, <3>4
  <2> QED BY <2>7, <2>8
<1> QED BY <1>1, <1>3, <1>4, Zenon DEF ItemHasTaker, Takers

\* A consumer takes its item and leaves.
LEMMA RemoveMatches ==
  ASSUME TakerInv, NEW t \in Threads, ListRemove(t)
  PROVE  ItemHasTaker'
<1>1. /\ pc[t] = "take" /\ pc' = [pc EXCEPT ![t] = "release"] /\ hilos' = hilos
      /\ list' = DropFirst(list)
      /\ pc \in [Threads -> ListLabels] /\ list \in Seq(Items) /\ list # << >>
  BY DEF ListRemove, At, Goto, TakerInv, ListInv, ListPlaces
<1> DEFINE n == Len(list)
           A == Takers
           B == Takers'
<1>2. n \in Nat \ {0} /\ Len(list') = n - 1
  BY <1>1 DEF DropFirst
<1>3. A \ {t} \subseteq B
  BY <1>1, ListConstants DEF Takers, Signalled
<1>4. ASSUME hilos[listEmpty] # << >> PROVE Matched(n - 1, B)
  <2>1. Matched(n, A)
    BY <1>4, ZenonT(60) DEF TakerInv, ItemHasTaker, Takers
  <2> HIDE DEF n, A, B
  <2> QED BY <1>2, <1>3, <2>1, MatchedDrop, Zenon
<1> QED BY <1>1, <1>2, <1>4, Zenon DEF ItemHasTaker, Takers

\* Who begins to wait finds the list empty: there is nothing to match.
LEMMA WaitMatches ==
  ASSUME TakerInv, list' = << >>
  PROVE  ItemHasTaker'
<1> DEFINE B == Takers'
<1>1. Len(list') = 0
  OBVIOUS
<1> HIDE DEF B
<1>2. Matched(0, B)
  BY MatchedMore
<1> QED BY <1>1, <1>2 DEF ItemHasTaker, B, Takers

\* A thread that acquires the lock moves to no place of a producer's signal.
LEMMA AcquiresMatch ==
  ASSUME TakerInv, NEW t \in Threads, Acquires(t)
  PROVE  ItemHasTaker'
<1>1. PICK label \in {"put", "remove", "map", "test"}, next \in {"append", "test", "apply"} :
        /\ pc[t] = label /\ (label = "test" => next = "test")
        /\ P(t, listLock, next) /\ UNCHANGED <<hilos, list>>
  BY Zenon DEF Acquires, ListAcquire, WaitBack, WaitReturn, At, BackAt
<1>2. pc' = pc \/ pc' = [pc EXCEPT ![t] = next]
  BY <1>1, Zenon DEF P, Goto
<1>3. \A u \in Threads \ {t} : pc'[u] = pc[u]
  BY <1>2, Zenon DEF TakerInv, ListInv, ListPlaces
<1>4. label = "test" => pc'[t] = "test"
  BY <1>1, <1>2 DEF TakerInv, ListInv, ListPlaces
<1> QED BY <1>1, <1>3, <1>4, BystanderMoves, Zenon

\* No signal of SynchList is lost: while consumers wait, every item on the list
\* has one who is on the way to it, for every number of producers, consumers and
\* items, although Signal wakes one consumer only and another one may take the
\* item before it (synchlist.h:80-111).
THEOREM EveryItemHasTaker == ListSpec => []ItemHasTaker
<1>1. ListInit => TakerInv
  <2> SUFFICES ASSUME ListInit PROVE ItemHasTaker
    BY ListInvInit, Zenon DEF TakerInv
  <2>1. hilos[listEmpty] = << >>
    BY ListConstants DEF ListInit, NothingAppended, SynchInit
  <2> QED BY <2>1 DEF ItemHasTaker
<1>2. TakerInv /\ [ListNext]_listVars => TakerInv'
  <2> SUFFICES ASSUME TakerInv, [ListNext]_listVars PROVE ItemHasTaker'
    BY ListInvNext, Zenon DEF TakerInv
  <2>1. ASSUME NEW t \in Threads, ListStep(t) PROVE ItemHasTaker'
    <3>1. CASE (t \in Producers /\ Produce(t)) \/ ListFinish(t) \/ ListRelease(t)
      <4>1. /\ pc[t] \notin {"test", "take", "signal"} /\ \E label : pc' = [pc EXCEPT ![t] = label]
            /\ list' = list /\ hilos' = hilos
        BY <3>1, Zenon DEF Produce, ListFinish, ListRelease, At, Goto
      <4>2. \A u \in Threads \ {t} : pc'[u] = pc[u]
        BY <4>1 DEF TakerInv, ListInv, ListPlaces
      <4> QED BY <4>1, <4>2, BystanderMoves, Zenon
    <3>2. CASE TestEmpty(t)
      <4>1. CASE list = << >>
        BY <3>2, <4>1, WaitMatches, Zenon DEF TestEmpty
      <4>2. CASE list # << >>
        <5>1. /\ pc[t] = "test" /\ pc' = [pc EXCEPT ![t] = "take"]
              /\ list' = list /\ hilos' = hilos
          BY <3>2, <4>2, Zenon DEF TestEmpty, At, Goto
        <5>2. pc'[t] = "take" /\ \A u \in Threads \ {t} : pc'[u] = pc[u]
          BY <5>1, Zenon DEF TakerInv, ListInv, ListPlaces
        <5> QED BY <5>1, <5>2, BystanderMoves, Zenon
      <4> QED BY <4>1, <4>2
    <3> QED
      BY <2>1, <3>1, <3>2, ListSteps, AppendMatches, SignalMatches, RemoveMatches, AcquiresMatch, Zenon
  <2>2. CASE \/ TimeSlice /\ UNCHANGED <<list, left, item, taken>>
             \/ ListHalted \/ UNCHANGED listVars
    <3>1. UNCHANGED <<hilos, pc, list>>
      BY <2>2, SwitchKeeps DEF TakerInv
    <3> QED BY <3>1, MoreTakers, Zenon DEF Takers, Signalled
  <2> QED BY <2>1, <2>2 DEF ListNext
<1>3. TakerInv => ItemHasTaker
  BY DEF TakerInv
<1> QED BY <1>1, <1>2, <1>3, PTL DEF ListSpec
=============================================================================
