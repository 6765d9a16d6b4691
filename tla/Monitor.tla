------------------------------ MODULE Monitor ------------------------------
(***************************************************************************)
(* What a Lock and its Conditions promise together (the comments of        *)
(* threads/synch.h:56-141): a monitor with Mesa semantics.  At most one    *)
(* thread is inside; Wait leaves the monitor and joins the condition's     *)
(* queue in one step; Signal lets the first waiter compete to enter again, *)
(* Broadcast lets all of them; a thread on a queue cannot enter.           *)
(***************************************************************************)
EXTENDS Sequences, Naturals

CONSTANTS Threads, Conditions, NULL

VARIABLES
  holder,    \* the thread inside, or NULL
  waiting    \* the queue of every condition

monitorVars == <<holder, waiting>>

Waits(t) == \E c \in Conditions : \E i \in 1..Len(waiting[c]) : waiting[c][i] = t

Init ==
  /\ holder = NULL
  /\ waiting = [c \in Conditions |-> << >>]

Enter(t) ==
  /\ holder = NULL
  /\ ~Waits(t)
  /\ holder' = t
  /\ UNCHANGED waiting

Exit(t) ==
  /\ holder = t
  /\ holder' = NULL
  /\ UNCHANGED waiting

Wait(t, c) ==
  /\ holder = t
  /\ holder' = NULL
  /\ waiting' = [waiting EXCEPT ![c] = Append(@, t)]

Signal(t, c) ==
  /\ holder = t
  /\ waiting[c] # << >>
  /\ waiting' = [waiting EXCEPT ![c] = Tail(@)]
  /\ UNCHANGED holder

Broadcast(t, c) ==
  /\ holder = t
  /\ waiting' = [waiting EXCEPT ![c] = << >>]
  /\ UNCHANGED holder

Next ==
  \E t \in Threads :
    \/ Enter(t)
    \/ Exit(t)
    \/ \E c \in Conditions : Wait(t, c) \/ Signal(t, c) \/ Broadcast(t, c)

Spec == Init /\ [][Next]_monitorVars
=============================================================================
