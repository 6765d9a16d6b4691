---------------------------- MODULE MailService ----------------------------
(***************************************************************************)
(* What the post office of network/post.h promises its clients: each box   *)
(* of each machine is a queue of messages.  Send puts a message at the end *)
(* of the queue or loses it; Receive takes the first one.  A machine that  *)
(* halts loses its queues.                                                 *)
(***************************************************************************)
EXTENDS Sequences

CONSTANTS Machines, Boxes, Messages

VARIABLE mail       \* mail[m][b]: what a Receive of box b on machine m will return, in order

MailInit == mail = [m \in Machines |-> [b \in Boxes |-> <<>>]]

\* A lost message is a step that changes nothing.
Send(m, b, msg) == mail' = [mail EXCEPT ![m][b] = Append(@, msg)]

Receive(m, b) == mail[m][b] # <<>> /\ mail' = [mail EXCEPT ![m][b] = Tail(@)]

Halt(m) == mail' = [mail EXCEPT ![m] = [b \in Boxes |-> <<>>]]

MailNext ==
  \E m \in Machines : \/ Halt(m)
                      \/ \E b \in Boxes : Receive(m, b) \/ \E msg \in Messages : Send(m, b, msg)

MailSpec == MailInit /\ [][MailNext]_mail
=============================================================================
