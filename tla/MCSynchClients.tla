--------------------------- MODULE MCSynchClients ---------------------------
(* Small instances of three users of the synchronization objects: the       *)
(* dining philosophers, the synchronous disk and the synchronized list.     *)
(* They share the kernel state of Synch; which says the one that runs, the  *)
(* others stay as they are made.                                            *)
EXTENDS DiningPh, SynchDisk, SynchList

VARIABLE which

tableVars == <<state, eaten, forked>>
callVars == <<contents, active, pending, request, data, calls>>
queueVars == <<list, left, item, taken>>
vars == <<which, synchVars, tableVars, callVars, queueVars>>

MCThreads == 0..3
MCConditions == 0..2
MCOtherThreads == <<1, 2>>
MCOtherCallers == <<0, 2, 3>>

ASSUME DiningConstants /\ SynchDiskConstants

\* The two values of a sector are alike: the disk starts with one of them.
Init ==
  /\ \/ which = "dining" /\ DiningInit /\ DiskInit /\ NothingAppended
     \/ which = "disk" /\ SynchDiskInit /\ TableInit /\ NothingAppended
     \/ which = "list" /\ ListInit /\ TableInit /\ DiskInit
  /\ contents[0] = "a"

\* Only the client that was chosen moves.  The items of the list are alike:
\* the producers take them up from the smallest.
InDining(A) == which = "dining" /\ A /\ UNCHANGED <<which, callVars, queueVars>>
InDisk(A) == which = "disk" /\ A /\ UNCHANGED <<which, tableVars, queueVars>>
InSynchList(A) ==
  /\ which = "list"
  /\ A
  /\ \A x \in left \ left', y \in left' : x < y
  /\ UNCHANGED <<which, tableVars, callVars>>

Next == InDining(DiningNext) \/ InDisk(SynchDiskNext) \/ InSynchList(ListNext)

\* The step of thread t of the client that runs.
ClientStep(t) ==
  \/ t = Main /\ InDining(MainStep)
  \/ t \in Philosophers /\ InDining(Philo(t))
  \/ InDisk(ThreadStep(t))
  \/ InSynchList(ListStep(t))

\* The timer interrupts at random intervals: it does not for ever stop a thread
\* before the same step.  A scheduled disk interrupt becomes due, and the idle
\* loop runs the thread that a handler has made ready.
Spec ==
  /\ Init /\ [][Next]_vars
  /\ \A t \in Threads : SF_vars(ClientStep(t))
  /\ WF_vars(InDisk(DiskInterrupt))
  /\ WF_vars(InDisk(IdleGoesOn))
-----------------------------------------------------------------------------
\* Nothing waits for ever: all philosophers eat their fill and finish, every
\* request to the disk is answered, and every item appended to the list is
\* removed (diningph.cc:17-44, synchdisk.cc:73-97, synchlist.h:80-111).
AllFinish ==
  <>(CASE which = "dining" -> DiningFinished
       [] which = "disk" -> DiskFinished
       [] which = "list" -> ListFinished)
=============================================================================
