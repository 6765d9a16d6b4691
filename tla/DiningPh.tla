------------------------------ MODULE DiningPh ------------------------------
(***************************************************************************)
(* The dining philosophers monitor (threads/diningph.cc) and the threads   *)
(* that threads/threadtest.cc runs on it: the main thread forks N          *)
(* philosophers, each of which eats Rounds times and finishes.  The lock   *)
(* dp is its semaphore; isHeld and owner, which nothing reads, are in      *)
(* LockUse.  The code has N = 5 and Rounds = 10.                           *)
(***************************************************************************)
EXTENDS Synch

CONSTANTS
  N,        \* the number of philosophers
  Rounds,   \* how often each one eats
  dp        \* the lock of the monitor

\* What the code fixes of the constants.
DiningConstants ==
  /\ N \in Nat /\ N >= 2
  /\ Rounds \in Nat
  /\ Threads = 0..N
  /\ Conditions = 0..(N - 1)
  /\ dp \in Semaphores

Philosophers == 0..(N - 1)

Main == N           \* the thread that runs ThreadTest

Left(i) == (i + N - 1) % N

Right(i) == (i + 1) % N

VARIABLES
  state,    \* DiningPh::state
  eaten,    \* the loop counter of Philo
  forked    \* the loop counter of ThreadTest

diningVars == <<sched, sem, hilos, asleep, pc, state, eaten, forked>>

\* The labels between Acquire and Release, where the thread holds dp unless it
\* is inside Condition::Wait.
Inside == {"hungry", "test", "grant", "check", "unlock",
           "think", "testLeft", "grantLeft", "testRight", "grantRight", "drop"}

PhiloLabels == Inside \cup
  {"fork", "start", "pickup", "eating", "putdown", "thinking", "done"}

DiningTypeOK ==
  /\ SynchTypeOK
  /\ pc \in [Threads -> PhiloLabels]
  /\ state \in [Philosophers -> {"Thinking", "Hungry", "Eating"}]
  /\ eaten \in [Philosophers -> 0..Rounds]
  /\ forked \in 0..N

TableInit ==
  /\ state = [i \in Philosophers |-> "Thinking"]
  /\ eaten = [i \in Philosophers |-> 0]
  /\ forked = 0

DiningInit ==
  /\ SynchInit(Main, << >>, [s \in Semaphores |-> 1])
  /\ pc = [t \in Threads |-> IF t = Main THEN "fork" ELSE "start"]
  /\ TableInit
-----------------------------------------------------------------------------
\* ThreadTest: fork philosopher after philosopher; then main finishes.
ForkPhilo ==
  /\ At(Main, "fork")
  /\ forked < N
  /\ sched' = ReadyToRun(sched, forked)
  /\ forked' = forked + 1
  /\ UNCHANGED <<sem, hilos, asleep, pc, state, eaten>>

\* Thread::Finish: sleep for ever.
FinishPhilo(t) ==
  /\ \/ t = Main /\ At(t, "fork") /\ forked = N
     \/ t \in Philosophers /\ At(t, "pickup") /\ eaten[t] = Rounds
  /\ sched' = Sleep(sched)
  /\ Goto(t, "done")
  /\ UNCHANGED <<sem, hilos, asleep, state, eaten, forked>>

\* The calls of Yield in Philo: before the loop, and after each meal.
PhiloYield(i, label, next) ==
  /\ At(i, label)
  /\ sched' = Yield(sched)
  /\ Goto(i, next)
  /\ UNCHANGED <<sem, hilos, asleep, state, forked>>

StartYield(i) == PhiloYield(i, "start", "pickup") /\ UNCHANGED eaten

EatYield(i) == PhiloYield(i, "eating", "putdown") /\ UNCHANGED eaten

ThinkYield(i) ==
  /\ PhiloYield(i, "thinking", "pickup")
  /\ eaten' = [eaten EXCEPT ![i] = @ + 1]

\* dp->Acquire() and dp->Release().
Enter(i, label, next) ==
  /\ At(i, label) \/ BackAt(i, label)
  /\ P(i, dp, next)
  /\ UNCHANGED <<hilos, state, eaten, forked>>

Leave(i, label, next) ==
  /\ At(i, label)
  /\ V(dp)
  /\ Goto(i, next)
  /\ UNCHANGED <<hilos, asleep, state, eaten, forked>>

\* The assignments state[who] = Hungry and state[who] = Thinking.
SetState(i, label, value, next) ==
  /\ At(i, label)
  /\ state' = [state EXCEPT ![i] = value]
  /\ Goto(i, next)
  /\ UNCHANGED <<sched, sem, hilos, asleep, eaten, forked>>

\* Mutant of CanEat: test() looks at one neighbour only.
CanEatRightFree(j) == state[j] = "Hungry" /\ state[Right(j)] # "Eating"

\* The condition of test(j), evaluated by the thread of philosopher i, and what
\* follows when it holds.
CanEat(j) ==
  /\ state[Left(j)] # "Eating"
  /\ state[j] = "Hungry"
  /\ state[Right(j)] # "Eating"

Test(i, label, j, granted, next) ==
  /\ At(i, label)
  /\ Goto(i, IF CanEat(j) THEN granted ELSE next)
  /\ UNCHANGED <<sched, sem, hilos, asleep, state, eaten, forked>>

Grant(i, label, j, next) ==
  /\ At(i, label)
  /\ state' = [state EXCEPT ![j] = "Eating"]
  /\ Signal(j)
  /\ Goto(i, next)
  /\ UNCHANGED <<sem, asleep, eaten, forked>>

\* Mutant of CheckHungry: the philosopher does not wait.
CheckHungryGoesOn(i) ==
  /\ At(i, "check")
  /\ Goto(i, "unlock")
  /\ UNCHANGED <<sched, sem, hilos, asleep, state, eaten, forked>>

\* if (state[who] == Hungry) self[who]->Wait(dp), on the call and on return.
CheckHungry(i) ==
  /\ At(i, "check")
  /\ IF state[i] = "Hungry"
     THEN WaitSleep(i, i, dp)
     ELSE Goto(i, "unlock") /\ UNCHANGED <<sched, sem, hilos, asleep>>
  /\ UNCHANGED <<state, eaten, forked>>

HungryReturn(i) ==
  /\ BackAt(i, "check")
  /\ WaitReturn(i, dp, "unlock")
  /\ UNCHANGED <<state, eaten, forked>>

\* DiningPh::pickup(i).
Pickup(i) ==
  \/ eaten[i] < Rounds /\ Enter(i, "pickup", "hungry")
  \/ SetState(i, "hungry", "Hungry", "test")
  \/ Test(i, "test", i, "grant", "check")
  \/ Grant(i, "grant", i, "check")
  \/ CheckHungry(i)
  \/ HungryReturn(i)
  \/ Leave(i, "unlock", "eating")

\* DiningPh::putdown(i).
Putdown(i) ==
  \/ Enter(i, "putdown", "think")
  \/ SetState(i, "think", "Thinking", "testLeft")
  \/ Test(i, "testLeft", Left(i), "grantLeft", "testRight")
  \/ Grant(i, "grantLeft", Left(i), "testRight")
  \/ Test(i, "testRight", Right(i), "grantRight", "drop")
  \/ Grant(i, "grantRight", Right(i), "drop")
  \/ Leave(i, "drop", "thinking")

\* One step of a philosopher's thread.
Philo(i) ==
  StartYield(i) \/ Pickup(i) \/ EatYield(i) \/ Putdown(i) \/ ThinkYield(i) \/ FinishPhilo(i)

MainStep == ForkPhilo \/ FinishPhilo(Main)

\* No thread is ready and no device is in use: the machine halts.
DiningHalted == NothingReady /\ UNCHANGED diningVars

DiningNext ==
  \/ MainStep
  \/ \E i \in Philosophers : Philo(i)
  \/ TimeSlice /\ UNCHANGED <<state, eaten, forked>>
  \/ DiningHalted

DiningSpec == DiningInit /\ [][DiningNext]_diningVars
-----------------------------------------------------------------------------
\* Every philosopher has eaten Rounds times, and the program has ended.
DiningFinished == \A t \in Threads : pc[t] = "done"

\* Two neighbours never eat at the same time (diningph.cc:46-56).
NeighboursNeverBothEat ==
  \A i \in Philosophers : state[i] = "Eating" => state[Right(i)] # "Eating"

\* pickup returns only to a philosopher who is Eating, although it tests the
\* state with "if" and not "while" around Wait (diningph.cc:25-26), and stays
\* so until putdown changes it.
PickupReturnsEating ==
  \A i \in Philosophers :
    pc[i] \in {"unlock", "eating", "putdown", "think"} => state[i] = "Eating"
=============================================================================
