-------------------------------- MODULE Fifo --------------------------------
(***************************************************************************)
(* What SynchList promises (threads/synchlist.h:20-36): a first-in         *)
(* first-out queue whose Append and Remove are indivisible.  Remove waits  *)
(* for an item and returns it, so the results of its calls are the items   *)
(* in the order of the appends, and nothing else.                          *)
(***************************************************************************)
EXTENDS Sequences

CONSTANT Items

VARIABLES
  contents,   \* the items on the list
  taken       \* what the calls of Remove returned, in order

fifoVars == <<contents, taken>>

Init == contents = << >> /\ taken = << >>

Put(x) ==
  /\ contents' = Append(contents, x)
  /\ UNCHANGED taken

Take ==
  /\ contents # << >>
  /\ taken' = Append(taken, Head(contents))
  /\ contents' = Tail(contents)

Next == Take \/ \E x \in Items : Put(x)

Spec == Init /\ [][Next]_fifoVars
=============================================================================
