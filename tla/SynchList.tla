------------------------------ MODULE SynchList ------------------------------
(***************************************************************************)
(* SynchList (threads/synchlist.h): a list, a lock and the condition       *)
(* listEmpty, used by producers that append the items, by consumers that   *)
(* remove items for ever (as the mailboxes of network/post.cc do), and by  *)
(* threads that Apply a function to the list once.                         *)
(***************************************************************************)
EXTENDS Synch

CONSTANTS
  Items,        \* the things to put on the list, each of them once
  NoItem,       \* what List::Remove returns of an empty list: NULL
  Producers,    \* threads that call Append while items are left
  Consumers,    \* threads that call Remove for ever
  Mappers,      \* threads that call Apply once
  FirstCaller,  \* the thread that runs first
  OtherCallers, \* the others, in ready-list order
  listLock,     \* SynchList::lock
  listEmpty     \* SynchList::listEmpty

ASSUME SynchListAssumption ==
  /\ Threads = Producers \cup Consumers \cup Mappers
  /\ Producers \cap Consumers = {}
  /\ (Producers \cup Consumers) \cap Mappers = {}
  /\ FirstCaller \in Threads
  /\ OtherCallers \in Seq(Threads)
  /\ NoDuplicates(OtherCallers)
  /\ On(OtherCallers) = Threads \ {FirstCaller}
  /\ listLock \in Semaphores
  /\ listEmpty \in Conditions
  /\ NoItem \notin Items

VARIABLES
  list,     \* SynchList::list, from its front
  left,     \* the items no producer has taken up yet
  item,     \* the item of each producer's call
  taken     \* what the calls of Remove have taken off the list, in order

listVars == <<sched, sem, hilos, asleep, pc, list, left, item, taken>>

\* The labels between Acquire and Release.
InList == {"append", "signal", "test", "take", "apply", "release"}

ListLabels == InList \cup {"produce", "put", "remove", "map", "mapped", "done"}

ListTypeOK ==
  /\ SynchTypeOK
  /\ pc \in [Threads -> ListLabels]
  /\ list \in Seq(Items)
  /\ left \in SUBSET Items
  /\ item \in [Producers -> SUBSET Items]
  /\ taken \in Seq(Items \cup {NoItem})

Role(t) == IF t \in Producers THEN "produce" ELSE IF t \in Consumers THEN "remove" ELSE "map"

NothingAppended ==
  /\ list = << >>
  /\ left = Items
  /\ item = [t \in Producers |-> {}]
  /\ taken = << >>

ListInit ==
  /\ SynchInit(FirstCaller, OtherCallers, [s \in Semaphores |-> 1])
  /\ pc = [t \in Threads |-> Role(t)]
  /\ NothingAppended
-----------------------------------------------------------------------------
\* A producer takes up an item and calls Append.
Produce(t) ==
  /\ At(t, "produce")
  /\ \E x \in left :
       /\ item' = [item EXCEPT ![t] = {x}]
       /\ left' = left \ {x}
  /\ Goto(t, "put")
  /\ UNCHANGED <<sched, sem, hilos, asleep, list, taken>>

\* A thread with nothing left to do finishes (Thread::Finish).
ListFinish(t) ==
  /\ \/ At(t, "produce") /\ left = {}
     \/ At(t, "mapped")
  /\ sched' = Sleep(sched)
  /\ Goto(t, "done")
  /\ UNCHANGED <<sem, hilos, asleep, list, left, item, taken>>

\* lock->Acquire() in Append, Remove and Apply.
ListAcquire(t, label, next) ==
  /\ At(t, label) \/ BackAt(t, label)
  /\ P(t, listLock, next)
  /\ UNCHANGED <<hilos, list, left, item, taken>>

\* list->Append(item).  The operations of List are single steps: nothing in
\* list.h enables interrupts, and only there can the timer take the CPU away.
ListAppend(t) ==
  /\ At(t, "append")
  /\ \E x \in item[t] : list' = Append(list, x)
  /\ item' = [item EXCEPT ![t] = {}]
  /\ Goto(t, "signal")
  /\ UNCHANGED <<sched, sem, hilos, asleep, left, taken>>

\* Mutant of ListSignal: no signal when the list was not empty before.
ListSignalOnlyFirst(t) ==
  /\ At(t, "signal")
  /\ IF Len(list) = 1 THEN Signal(listEmpty) ELSE UNCHANGED <<sched, hilos>>
  /\ Goto(t, "release")
  /\ UNCHANGED <<sem, asleep, list, left, item, taken>>

\* listEmpty->Signal(lock).
ListSignal(t) ==
  /\ At(t, "signal")
  /\ Signal(listEmpty)
  /\ Goto(t, "release")
  /\ UNCHANGED <<sem, asleep, list, left, item, taken>>

\* while (list->IsEmpty()) listEmpty->Wait(lock): the test, and the return.
TestEmpty(t) ==
  /\ At(t, "test")
  /\ IF list = << >>
     THEN WaitSleep(t, listEmpty, listLock)
     ELSE Goto(t, "take") /\ UNCHANGED <<sched, sem, hilos, asleep>>
  /\ UNCHANGED <<list, left, item, taken>>

\* Mutant of WaitBack: if in the place of while.
WaitBackTakes(t) ==
  /\ BackAt(t, "test")
  /\ WaitReturn(t, listLock, "take")
  /\ UNCHANGED <<list, left, item, taken>>

WaitBack(t) ==
  /\ BackAt(t, "test")
  /\ WaitReturn(t, listLock, "test")
  /\ UNCHANGED <<list, left, item, taken>>

\* item = list->Remove().
ListRemove(t) ==
  /\ At(t, "take")
  /\ list' = DropFirst(list)
  /\ taken' = Append(taken, IF list = << >> THEN NoItem ELSE Head(list))
  /\ Goto(t, "release")
  /\ UNCHANGED <<sched, sem, hilos, asleep, left, item>>

\* lock->Release(), and back to the caller.
ListRelease(t) ==
  /\ At(t, "release") \/ At(t, "apply")
  /\ V(listLock)
  /\ Goto(t, IF t \in Mappers THEN "mapped" ELSE Role(t))
  /\ UNCHANGED <<hilos, asleep, list, left, item, taken>>

\* One step of a thread in SynchList::Append, Remove or Apply.
AppendStep(t) ==
  Produce(t) \/ ListAcquire(t, "put", "append") \/ ListAppend(t) \/ ListSignal(t)

RemoveStep(t) ==
  ListAcquire(t, "remove", "test") \/ TestEmpty(t) \/ WaitBack(t) \/ ListRemove(t)

ListStep(t) ==
  \/ t \in Producers /\ AppendStep(t)
  \/ t \in Consumers /\ RemoveStep(t)
  \/ t \in Mappers /\ ListAcquire(t, "map", "apply")
  \/ ListRelease(t)
  \/ ListFinish(t)

\* No thread is ready and no device is in use: the machine halts.
ListHalted == NothingReady /\ UNCHANGED listVars

ListNext ==
  \/ \E t \in Threads : ListStep(t)
  \/ ListHalted
  \/ TimeSlice /\ UNCHANGED <<list, left, item, taken>>

ListSpec == ListInit /\ [][ListNext]_listVars
-----------------------------------------------------------------------------
\* SynchList is a first-in first-out queue, and every Remove returns an item,
\* the first of those on the list, each of them once: no consumer comes back
\* from its test or from Wait to a list that another one has emptied.  The
\* lock around test and Remove and the loop around Wait are what it rests on
\* (synchlist.h:100-111; the ASSERT(item != NULL) at 108 is commented out).
F == INSTANCE Fifo WITH contents <- list

ImplementsFifo == F!Spec

\* Consumers that were signalled and have not yet taken their item.
Signalled ==
  {t \in Consumers : pc[t] \in {"test", "take"} /\ t \notin On(hilos[listEmpty])}

\* No wake-up is lost: while consumers wait on listEmpty, every item on the
\* list is matched by a consumer already on its way to it or by a producer
\* that has not yet signalled it (synchlist.h:80-111).
ItemHasTaker ==
  hilos[listEmpty] # << >> =>
    Matched(Len(list), Signalled \cup {t \in Producers : pc[t] = "signal"})

\* Every item has been removed.
ListFinished == On(taken) = Items
=============================================================================
