----------------------------- MODULE PostOffice -----------------------------
(***************************************************************************)
(* Several machines that exchange mail: the simulated network card         *)
(* (machine/network.cc) over the sockets of the host (machine/sysdep.cc),  *)
(* the post office with its postal worker (network/post.cc), and the       *)
(* threads that use it, among them MailTest (network/nettest.cc).          *)
(*                                                                         *)
(* The lock and the semaphores are reduced to what Synch and LockUse show  *)
(* of them: P and Acquire wait, V and Release let one waiter go.           *)
(***************************************************************************)
EXTENDS Integers, Sequences, Selection

CONSTANTS
  Machines,
  Boxes,            \* 0 .. numBoxes - 1
  Users,            \* the threads of each machine
  Programs,         \* [Machines -> [Users -> sequences of operations]], one to choose
  MaxOps,           \* no thread has more operations to do
  None

\* A message: who sent it, the box it is for, the box for the answer, and which
\* of the sender's operations it is.
Packets == [from : Machines, to : Machines, box : Boxes, reply : Boxes, thread : Users,
            n : 0 .. MaxOps - 1]

\* <<"send", m, b, r>> is a Send to box b of machine m with reply box r, and
\* <<"answer", r>> a Send to the reply box of the last message.
Operations ==
  ({"send"} \X Machines \X Boxes \X Boxes) \cup ({"receive", "answer"} \X Boxes) \cup {<<"halt">>}

\* A thread answers only when it has received something.
ASSUME PostOfficeAssumption ==
  /\ None \notin Users /\ None \notin Packets
  /\ MaxOps \in Nat
  /\ \A p \in Programs : \A m \in Machines, t \in Users :
       /\ p[m][t] \in Seq(Operations) /\ Len(p[m][t]) <= MaxOps
       /\ \A k \in 1 .. Len(p[m][t]) :
            p[m][t][k][1] = "answer" => \E j \in 1 .. k - 1 : p[m][t][j][1] = "receive"

VARIABLES
  program,          \* the programs that run, a member of Programs
  reliable,         \* chanceToWork = 1
  patient,          \* nobody sends before every machine is up (main.cc: Delay(2))
  power,            \* "off", "up", "halted" or "aborted" (a failed ASSERT)
  socket,           \* packets in the socket of each machine
  inbox,            \* the packet buffered by the card, None if inHdr.length = 0
  sending,          \* NetworkSendDone interrupts scheduled
  available, sent,  \* the semaphores messageAvailable and messageSent
  lock,             \* the thread that holds sendLock, None if it is free
  worker, hand,     \* the postal worker: "wait", "receive" or "put", and the packet it holds
  boxes,            \* boxes[m][b]: the list of a mailbox
  at,               \* at[m][t]: where thread t is in its current operation
  done,             \* done[m][t]: operations completed
  letter            \* letter[m][t]: the last packet received by the thread

vars == <<program, reliable, patient, power, socket, inbox, sending, available, sent, lock,
          worker, hand, boxes, at, done, letter>>
card == <<socket, inbox, sending>>
office == <<available, sent, lock, worker, hand, boxes>>
clients == <<at, done, letter>>
setting == <<program, reliable, patient>>

Init ==
  /\ program \in Programs
  /\ reliable \in BOOLEAN /\ patient \in BOOLEAN
  /\ power = [m \in Machines |-> "off"]
  /\ socket = [m \in Machines |-> <<>>]
  /\ inbox = [m \in Machines |-> None]
  /\ sending = [m \in Machines |-> 0]
  /\ available = [m \in Machines |-> 0]
  /\ sent = [m \in Machines |-> 0]
  /\ lock = [m \in Machines |-> None]
  /\ worker = [m \in Machines |-> "wait"] /\ hand = [m \in Machines |-> None]
  /\ boxes = [m \in Machines |-> [b \in Boxes |-> <<>>]]
  /\ at = [m \in Machines |-> [t \in Users |-> "idle"]]
  /\ done = [m \in Machines |-> [t \in Users |-> 0]]
  /\ letter = [m \in Machines |-> [t \in Users |-> None]]

\* The constructors of Network and PostOffice: the socket gets its name.
Start(m) ==
  /\ power[m] = "off"
  /\ power' = [power EXCEPT ![m] = "up"]
  /\ UNCHANGED <<setting, card, office, clients>>

-----------------------------------------------------------------------------
(* The network card. *)

CheckPktAvail(m) ==
  /\ power[m] = "up" /\ inbox[m] = None /\ socket[m] # <<>>
  /\ inbox' = [inbox EXCEPT ![m] = Head(socket[m])]
  /\ socket' = [socket EXCEPT ![m] = Tail(@)]
  /\ available' = [available EXCEPT ![m] = @ + 1]        \* IncomingPacket
  /\ UNCHANGED <<setting, power, sending, sent, lock, worker, hand, boxes, clients>>

SendDone(m) ==
  /\ power[m] = "up" /\ sending[m] > 0
  /\ sending' = [sending EXCEPT ![m] = @ - 1]
  /\ sent' = [sent EXCEPT ![m] = @ + 1]                  \* PacketSent
  /\ UNCHANGED <<setting, power, socket, inbox, available, lock, worker, hand, boxes, clients>>

\* sendto fails, and ASSERT aborts the sender, if no socket has that name.
SendToSocket(m, packet) ==
  IF power[packet.to] = "up"
  THEN socket' = [socket EXCEPT ![packet.to] = Append(@, packet)] /\ UNCHANGED power
  ELSE power' = [power EXCEPT ![m] = "aborted"] /\ UNCHANGED socket

\* Network::Send: the interrupt is scheduled, then the packet is lost or goes to
\* the socket of its destination.
NetworkSend(m, packet) ==
  /\ sending' = [sending EXCEPT ![m] = @ + 1]
  /\ \/ ~reliable /\ UNCHANGED <<socket, power>>
     \/ SendToSocket(m, packet)

-----------------------------------------------------------------------------
(* The postal worker. *)

\* PostalDelivery, up to the return of messageAvailable->P().
WorkerWait(m) ==
  /\ power[m] = "up" /\ worker[m] = "wait" /\ available[m] > 0
  /\ available' = [available EXCEPT ![m] = @ - 1]
  /\ worker' = [worker EXCEPT ![m] = "receive"]
  /\ UNCHANGED <<setting, power, card, sent, lock, hand, boxes, clients>>

\* network->Receive empties the card's buffer.
WorkerReceive(m) ==
  /\ power[m] = "up" /\ worker[m] = "receive"
  /\ worker' = [worker EXCEPT ![m] = "put"]
  /\ hand' = [hand EXCEPT ![m] = inbox[m]]
  /\ inbox' = [inbox EXCEPT ![m] = None]
  /\ UNCHANGED <<setting, power, socket, sending, available, sent, lock, boxes, clients>>

\* Mutant of WorkerPut: Prepend instead of Append.
WorkerPutFirst(m) ==
  /\ power[m] = "up" /\ worker[m] = "put"
  /\ boxes' = [boxes EXCEPT ![m][hand[m].box] = <<hand[m]>> \o @]
  /\ hand' = [hand EXCEPT ![m] = None]
  /\ worker' = [worker EXCEPT ![m] = "wait"]
  /\ UNCHANGED <<setting, power, card, available, sent, lock, clients>>

\* MailBox::Put, an Append to the SynchList.
WorkerPut(m) ==
  /\ power[m] = "up" /\ worker[m] = "put"
  /\ boxes' = [boxes EXCEPT ![m][hand[m].box] = Append(@, hand[m])]
  /\ hand' = [hand EXCEPT ![m] = None]
  /\ worker' = [worker EXCEPT ![m] = "wait"]
  /\ UNCHANGED <<setting, power, card, available, sent, lock, clients>>

-----------------------------------------------------------------------------
(* The threads. *)

\* Mutant of MailTest: it halts without waiting for the acknowledgement.
MailTestNoAck(farAddr) ==
  <<<<"send", farAddr, 0, 1>>, <<"receive", 0>>, <<"answer", 1>>, <<"halt">>>>

\* Mutant of MailTest: it waits for the acknowledgement before it sends its own.
MailTestLateAck(farAddr) ==
  <<<<"send", farAddr, 0, 1>>, <<"receive", 0>>, <<"receive", 1>>, <<"answer", 1>>, <<"halt">>>>

\* MailTest(farAddr).
MailTest(farAddr) ==
  <<<<"send", farAddr, 0, 1>>, <<"receive", 0>>, <<"answer", 1>>, <<"receive", 1>>, <<"halt">>>>

Current(m, t) ==
  IF done[m][t] < Len(program[m][t]) THEN program[m][t][done[m][t] + 1] ELSE <<"finished">>

Ready(m, t, place, kinds) ==
  /\ power[m] = "up" /\ at[m][t] = place /\ Current(m, t)[1] \in kinds
  /\ patient => \A n \in Machines : power[n] # "off"

\* PostOffice::Send fills in the headers.
Outgoing(m, t) ==
  LET op == Current(m, t)
      to == IF op[1] = "send" THEN [m |-> op[2], b |-> op[3], r |-> op[4]]
            ELSE [m |-> letter[m][t].from, b |-> letter[m][t].reply, r |-> op[2]]
  IN [from |-> m, to |-> to.m, box |-> to.b, reply |-> to.r, thread |-> t, n |-> done[m][t]]

\* Mutant of SendAcquire: sendLock is not waited for.
SendAcquireBusy(m, t) ==
  /\ Ready(m, t, "idle", {"send", "answer"})
  /\ lock' = [lock EXCEPT ![m] = t]
  /\ at' = [at EXCEPT ![m][t] = "network"]
  /\ UNCHANGED <<setting, power, card, available, sent, worker, hand, boxes, done, letter>>

SendAcquire(m, t) ==
  /\ Ready(m, t, "idle", {"send", "answer"}) /\ lock[m] = None
  /\ lock' = [lock EXCEPT ![m] = t]
  /\ at' = [at EXCEPT ![m][t] = "network"]
  /\ UNCHANGED <<setting, power, card, available, sent, worker, hand, boxes, done, letter>>

SendNetwork(m, t) ==
  /\ Ready(m, t, "network", {"send", "answer"})
  /\ NetworkSend(m, Outgoing(m, t))
  /\ at' = [at EXCEPT ![m][t] = "sent"]
  /\ UNCHANGED <<setting, inbox, office, done, letter>>

SendWait(m, t) ==
  /\ Ready(m, t, "sent", {"send", "answer"}) /\ sent[m] > 0
  /\ sent' = [sent EXCEPT ![m] = @ - 1]
  /\ at' = [at EXCEPT ![m][t] = "release"]
  /\ UNCHANGED <<setting, power, card, available, lock, worker, hand, boxes, done, letter>>

SendRelease(m, t) ==
  /\ Ready(m, t, "release", {"send", "answer"})
  /\ lock' = [lock EXCEPT ![m] = None]
  /\ at' = [at EXCEPT ![m][t] = "idle"]
  /\ done' = [done EXCEPT ![m][t] = @ + 1]
  /\ UNCHANGED <<setting, power, card, available, sent, worker, hand, boxes, letter>>

\* MailBox::Get, a Remove from the SynchList.
Receive(m, t) ==
  LET b == Current(m, t)[2] IN
  /\ Ready(m, t, "idle", {"receive"}) /\ boxes[m][b] # <<>>
  /\ letter' = [letter EXCEPT ![m][t] = Head(boxes[m][b])]
  /\ boxes' = [boxes EXCEPT ![m][b] = Tail(@)]
  /\ done' = [done EXCEPT ![m][t] = @ + 1]
  /\ UNCHANGED <<setting, power, card, available, sent, lock, worker, hand, at>>

\* interrupt->Halt: Cleanup deletes the post office, and the socket goes.
Halt(m, t) ==
  /\ Ready(m, t, "idle", {"halt"})
  /\ power' = [power EXCEPT ![m] = "halted"]
  /\ socket' = [socket EXCEPT ![m] = <<>>]
  /\ inbox' = [inbox EXCEPT ![m] = None]
  /\ worker' = [worker EXCEPT ![m] = "wait"] /\ hand' = [hand EXCEPT ![m] = None]
  /\ boxes' = [boxes EXCEPT ![m] = [b \in Boxes |-> <<>>]]
  /\ UNCHANGED <<setting, sending, available, sent, lock, clients>>

ThreadStep(m, t) ==
  \/ SendAcquire(m, t) \/ SendNetwork(m, t) \/ SendWait(m, t) \/ SendRelease(m, t)
  \/ Receive(m, t) \/ Halt(m, t)

WorkerStep(m) == WorkerWait(m) \/ WorkerReceive(m) \/ WorkerPut(m)

Device(m) == CheckPktAvail(m) \/ SendDone(m)

Next == \E m \in Machines : \/ Start(m) \/ Device(m) \/ WorkerStep(m)
                            \/ \E t \in Users : ThreadStep(m, t)

Spec == Init /\ [][Next]_vars

-----------------------------------------------------------------------------
TypeOK ==
  /\ program \in Programs /\ patient \in BOOLEAN
  /\ power \in [Machines -> {"off", "up", "halted", "aborted"}]
  /\ socket \in [Machines -> Seq(Packets)]
  /\ inbox \in [Machines -> Packets \cup {None}]
  /\ hand \in [Machines -> Packets \cup {None}]
  /\ sending \in [Machines -> Nat] /\ sent \in [Machines -> Nat]
  /\ available \in [Machines -> Nat]
  /\ lock \in [Machines -> Users \cup {None}]
  /\ worker \in [Machines -> {"wait", "receive", "put"}]
  /\ boxes \in [Machines -> [Boxes -> Seq(Packets)]]
  /\ at \in [Machines -> [Users -> {"idle", "network", "sent", "release"}]]
  /\ done \in [Machines -> [Users -> Nat]]
  /\ letter \in [Machines -> [Users -> Packets \cup {None}]]

\* The assertion sendBusy == false of Network::Send can never fail, although no
\* line sets sendBusy: a machine has at most one packet between Send and the
\* return of its messageSent->P(), and the thread that waits for it holds
\* sendLock.  In particular no thread ever consumes another one's PacketSent.
OneSendAtATime ==
  \A m \in Machines :
    /\ sending[m] + sent[m] = IF \E t \in Users : at[m][t] = "sent" THEN 1 ELSE 0
    /\ \A t \in Users : at[m][t] # "idle" => lock[m] = t

\* Once every machine is up, no sender aborts on a missing socket: MailTest
\* halts only when the other machine has sent all it will ever send, also when
\* the network loses packets.
NoAbort == patient => \A m \in Machines : power[m] # "aborted"

\* What a Receive of the box will return: the list of the box, the packet the
\* worker holds, the one in the card and those in the socket.
Held(packet) == IF packet = None THEN <<>> ELSE <<packet>>
Pending(m) == Held(hand[m]) \o Held(inbox[m]) \o socket[m]

For(b) == {p \in Packets : p.box = b}
InTransit(m, b) == boxes[m][b] \o Selected(Pending(m), For(b))

Mail == [m \in Machines |-> [b \in Boxes |-> InTransit(m, b)]]

Service == INSTANCE MailService WITH Messages <- Packets, mail <- Mail

\* The post office implements the mail service: between the Send of a packet
\* and the return of a Receive no message is duplicated, altered, put in
\* another box or overtaken by one sent later to the same box; only the network
\* loses messages, and only in Send.
RefinesMailService == Service!MailSpec

\* With a network that loses nothing, every thread of a patient user completes
\* its program (MailTest: both machines halt), whatever the interleaving of the
\* interrupts, the postal workers and the threads.
Complete(m) == power[m] = "halted" \/ \A t \in Users : done[m][t] = Len(program[m][t])
ReliableMail == (reliable /\ patient) => <>(\A m \in Machines : Complete(m))
=============================================================================
