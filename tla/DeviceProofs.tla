---------------------------- MODULE DeviceProofs ----------------------------
(***************************************************************************)
(* The network with the post office, and the console.  For every number of *)
(* machines, threads and boxes, and every program of the threads:          *)
(*   - sendLock keeps the sends of a machine apart;                        *)
(*   - the post office implements MailService;                             *)
(*   - no assertion fails in patient programs that never halt, nor in      *)
(*     MailTest.                                                           *)
(* For every input, ConsoleTest echoes what is typed.                      *)
(***************************************************************************)
EXTENDS PostOffice, Console, TLAPS

\* Where a thread may be in Send.
Places == {"idle", "network", "sent", "release"}

\* The types of what a Send uses.
SendTypes ==
  /\ at \in [Machines -> [Users -> Places]]
  /\ lock \in [Machines -> Users \cup {None}]
  /\ sending \in [Machines -> Nat]
  /\ sent \in [Machines -> Nat]

\* A thread inside Send holds sendLock, and there is one interrupt to come or
\* one unit of messageSent exactly while a thread waits for it.
Waited(m) == \E t \in Users : at[m][t] = "sent"
SendInv ==
  \A m \in Machines :
    /\ \A t \in Users : at[m][t] # "idle" => lock[m] = t
    /\ sending[m] + sent[m] = IF Waited(m) THEN 1 ELSE 0

\* The two together are inductive.
IInv == SendTypes /\ SendInv

\* None is not a thread.
LEMMA NoneFact == None \notin Users
BY PostOfficeAssumption

\* The invariant gives OneSendAtATime.
LEMMA InvImplies == IInv => OneSendAtATime
BY DEF IInv, SendInv, Waited, OneSendAtATime

\* Every machine starts with the lock free and no send begun.
LEMMA IInvInit == Init => IInv
BY NoneFact DEF Init, IInv, SendTypes, SendInv, Waited, Places

\* A step that leaves alone what a Send uses keeps the invariant.
LEMMA Untouched ==
  ASSUME IInv, UNCHANGED <<at, lock, sending, sent>>
  PROVE  IInv'
BY DEF IInv, SendTypes, SendInv, Waited

\* Every step of every machine keeps the invariant.
LEMMA IInvNext == IInv /\ [Next]_vars => IInv'
<1> SUFFICES ASSUME IInv, [Next]_vars PROVE IInv'
  BY Zenon
<1> USE NoneFact
<1>1. ASSUME NEW m \in Machines, Start(m) \/ CheckPktAvail(m) \/ WorkerStep(m)
      PROVE  IInv'
  BY <1>1, Untouched
     DEF Start, CheckPktAvail, WorkerStep, WorkerWait, WorkerReceive, WorkerPut,
         card, office, clients
<1>2. ASSUME NEW m \in Machines, SendDone(m) PROVE IInv'
  <2>1. at' = at /\ lock' = lock
    BY <1>2 DEF SendDone, clients
  <2>2. /\ sending' = [sending EXCEPT ![m] = @ - 1] /\ sending[m] > 0
        /\ sent' = [sent EXCEPT ![m] = @ + 1]
    BY <1>2 DEF SendDone
  <2>3. SendTypes'
    BY <2>1, <2>2 DEF IInv, SendTypes
  <2>4. \A n \in Machines : sending'[n] + sent'[n] = sending[n] + sent[n]
    BY <2>2 DEF IInv, SendTypes
  <2> QED BY <2>1, <2>3, <2>4 DEF IInv, SendInv, Waited
<1>3. ASSUME NEW m \in Machines, NEW t \in Users, ThreadStep(m, t) PROVE IInv'
  <2>1. CASE Receive(m, t) \/ Halt(m, t)
    BY <2>1, Untouched DEF Receive, Halt, card, clients
  <2>2. CASE SendAcquire(m, t)
    <3>1. /\ at[m][t] = "idle" /\ lock[m] = None
          /\ lock' = [lock EXCEPT ![m] = t] /\ at' = [at EXCEPT ![m][t] = "network"]
          /\ sending' = sending /\ sent' = sent
      BY <2>2 DEF SendAcquire, Ready, card
    <3>2. \A u \in Users : at[m][u] = "idle"
      BY <3>1 DEF IInv, SendInv, SendTypes
    <3>3. SendTypes'
      BY <3>1 DEF IInv, SendTypes, Places
    <3>4. \A n \in Machines : Waited(n)' <=> Waited(n)
      BY <3>1, <3>2 DEF IInv, SendTypes, Waited
    <3>5. ASSUME NEW n \in Machines, NEW u \in Users, at'[n][u] # "idle" PROVE lock'[n] = u
      BY <3>1, <3>2, <3>5 DEF IInv, SendTypes, SendInv
    <3> QED BY <3>1, <3>3, <3>4, <3>5 DEF IInv, SendInv
  <2>3. CASE SendNetwork(m, t)
    <3>1. /\ at[m][t] = "network" /\ at' = [at EXCEPT ![m][t] = "sent"]
          /\ sending' = [sending EXCEPT ![m] = @ + 1] /\ lock' = lock /\ sent' = sent
      BY <2>3 DEF SendNetwork, NetworkSend, Ready, office
    <3>2. ~Waited(m) /\ sending[m] + sent[m] = 0 /\ lock[m] = t
      BY <3>1 DEF IInv, SendInv, Waited
    <3>3. SendTypes'
      BY <3>1 DEF IInv, SendTypes, Places
    <3>4. Waited(m)' /\ \A n \in Machines : n # m => (Waited(n)' <=> Waited(n))
      BY <3>1 DEF IInv, SendTypes, Waited
    <3>5. sending'[m] + sent'[m] = 1
      BY <3>1, <3>2 DEF IInv, SendTypes
    <3>6. \A n \in Machines : n # m => sending'[n] + sent'[n] = sending[n] + sent[n]
      BY <3>1 DEF IInv, SendTypes
    <3>7. ASSUME NEW n \in Machines, NEW u \in Users, at'[n][u] # "idle" PROVE lock'[n] = u
      BY <3>1, <3>2, <3>7 DEF IInv, SendTypes, SendInv
    <3> QED BY <3>3, <3>4, <3>5, <3>6, <3>7 DEF IInv, SendInv
  <2>4. CASE SendWait(m, t)
    <3>1. /\ at[m][t] = "sent" /\ at' = [at EXCEPT ![m][t] = "release"]
          /\ sent[m] > 0 /\ sent' = [sent EXCEPT ![m] = @ - 1]
          /\ lock' = lock /\ sending' = sending
      BY <2>4 DEF SendWait, Ready, card
    <3>2. Waited(m) /\ sending[m] + sent[m] = 1 /\ \A u \in Users : at[m][u] = "sent" => u = t
      BY <3>1 DEF IInv, SendInv, Waited
    <3>3. SendTypes'
      BY <3>1 DEF IInv, SendTypes, Places
    <3>4. ~Waited(m)' /\ \A n \in Machines : n # m => (Waited(n)' <=> Waited(n))
      BY <3>1, <3>2 DEF IInv, SendTypes, Waited
    <3>5. sending'[m] + sent'[m] = 0
      BY <3>1, <3>2 DEF IInv, SendTypes
    <3>6. \A n \in Machines : n # m => sending'[n] + sent'[n] = sending[n] + sent[n]
      BY <3>1 DEF IInv, SendTypes
    <3>7. ASSUME NEW n \in Machines, NEW u \in Users, at'[n][u] # "idle" PROVE lock'[n] = u
      BY <3>1, <3>2, <3>7 DEF IInv, SendTypes, SendInv
    <3> QED BY <3>3, <3>4, <3>5, <3>6, <3>7, Zenon DEF IInv, SendInv
  <2>5. CASE SendRelease(m, t)
    <3>1. /\ at[m][t] = "release" /\ at' = [at EXCEPT ![m][t] = "idle"]
          /\ lock' = [lock EXCEPT ![m] = None] /\ sending' = sending /\ sent' = sent
      BY <2>5 DEF SendRelease, Ready, card
    <3>2. \A u \in Users : u # t => at[m][u] = "idle"
      BY <3>1 DEF IInv, SendInv, SendTypes
    <3>3. SendTypes'
      BY <3>1 DEF IInv, SendTypes, Places
    <3>4. \A n \in Machines : Waited(n)' <=> Waited(n)
      BY <3>1, <3>2 DEF IInv, SendTypes, Waited
    <3>5. ASSUME NEW n \in Machines, NEW u \in Users, at'[n][u] # "idle" PROVE lock'[n] = u
      BY <3>1, <3>2, <3>5 DEF IInv, SendTypes, SendInv
    <3> QED BY <3>1, <3>3, <3>4, <3>5 DEF IInv, SendInv
  <2> QED BY <1>3, <2>1, <2>2, <2>3, <2>4, <2>5, Zenon DEF ThreadStep
<1>4. CASE UNCHANGED vars
  BY <1>4, Untouched DEF vars
<1> QED
  BY <1>1, <1>2, <1>3, <1>4 DEF Next, Device

\* No thread consumes the PacketSent of another one's message, and the card has
\* at most one packet under way, on every machine and for every program.
THEOREM SendsOneAtATime == Spec => []OneSendAtATime
BY IInvInit, IInvNext, InvImplies, PTL DEF Spec
-----------------------------------------------------------------------------
(* The card, the worker and the letters. *)

\* The packet on its way through the office: messageAvailable counts the one in
\* the card that the worker has not asked for, and the worker holds one exactly
\* when it is to put it in a box.
CardInv ==
  \A m \in Machines : power[m] \in {"off", "up"} =>
    /\ hand[m] # None <=> worker[m] = "put"
    /\ available[m] = IF inbox[m] # None /\ worker[m] # "receive" THEN 1 ELSE 0
    /\ worker[m] = "receive" => inbox[m] # None

\* A thread that has received something has a letter.
LetterInv ==
  \A m \in Machines, t \in Users :
    /\ done[m][t] <= Len(program[m][t])
    /\ \A j \in 1 .. done[m][t] : program[m][t][j][1] = "receive" => letter[m][t] # None

\* What both of the results below rest on.
PInv == TypeOK /\ CardInv /\ LetterInv

\* The operations of the programs.
LEMMA ProgramFacts ==
  /\ None \notin Users /\ None \notin Packets /\ MaxOps \in Nat
  /\ \A p \in Programs : \A m \in Machines, t \in Users :
       /\ p[m][t] \in Seq(Operations) /\ Len(p[m][t]) <= MaxOps
       /\ \A k \in 1 .. Len(p[m][t]) :
            p[m][t][k][1] = "answer" => \E j \in 1 .. k - 1 : p[m][t][j][1] = "receive"
BY PostOfficeAssumption

\* What the kind of an operation says of the rest of it.
LEMMA OperationFacts ==
  ASSUME NEW op \in Operations
  PROVE  /\ op[1] = "send" => op[2] \in Machines /\ op[3] \in Boxes /\ op[4] \in Boxes
         /\ op[1] \in {"receive", "answer"} => op[2] \in Boxes
BY DEF Operations

\* A thread in a call has that operation to do.
LEMMA CurrentFacts ==
  ASSUME PInv, NEW m \in Machines, NEW t \in Users,
         NEW kinds \in SUBSET {"send", "answer", "receive", "halt"}, Current(m, t)[1] \in kinds
  PROVE  /\ done[m][t] \in 0 .. MaxOps - 1 /\ done[m][t] < Len(program[m][t])
         /\ Current(m, t) = program[m][t][done[m][t] + 1]
         /\ Current(m, t) \in Operations
<1>1. program[m][t] \in Seq(Operations) /\ Len(program[m][t]) <= MaxOps /\ MaxOps \in Nat
  BY ProgramFacts, Zenon DEF PInv, TypeOK
<1>2. done[m][t] \in Nat
  BY DEF PInv, TypeOK
<1> DEFINE q == program[m][t]
           k == done[m][t]
<1>3. Current(m, t) = IF k < Len(q) THEN q[k + 1] ELSE <<"finished">>
  BY Zenon DEF Current
<1> HIDE DEF q, k
<1>4. k < Len(q)
  <2>1. "finished" \notin kinds
    OBVIOUS
  <2>2. <<"finished">>[1] = "finished"
    OBVIOUS
  <2> QED BY <1>3, <2>1, <2>2, Zenon
<1>5. q[k + 1] \in Operations /\ k \in 0 .. MaxOps - 1
  BY <1>1, <1>2, <1>4 DEF q, k
<1> QED BY <1>3, <1>4, <1>5, Zenon DEF q, k

\* What PostOffice::Send gives to the card is a packet.
LEMMA OutgoingFacts ==
  ASSUME PInv, NEW m \in Machines, NEW t \in Users, Current(m, t)[1] \in {"send", "answer"}
  PROVE  Outgoing(m, t) \in Packets
<1> DEFINE op == Current(m, t)
<1>1. /\ op \in Operations /\ done[m][t] \in 0 .. MaxOps - 1
      /\ op = program[m][t][done[m][t] + 1] /\ done[m][t] < Len(program[m][t])
  BY CurrentFacts, Zenon
<1>2. CASE op[1] = "send"
  <2>1. op[2] \in Machines /\ op[3] \in Boxes /\ op[4] \in Boxes
    BY <1>1, <1>2, OperationFacts, Zenon
  <2> QED BY <1>1, <1>2, <2>1 DEF Outgoing, Packets
<1>3. CASE op[1] = "answer"
  <2>1. op[2] \in Boxes
    BY <1>1, <1>3, OperationFacts, Zenon
  <2>2. letter[m][t] # None
    <3> DEFINE q == program[m][t]
               k == done[m][t] + 1
    <3>1. k \in 1 .. Len(q) /\ q[k][1] = "answer" /\ program \in Programs /\ done[m][t] \in Nat
      BY <1>1, <1>3, ProgramFacts DEF PInv, TypeOK
    <3>2. PICK j \in 1 .. k - 1 : q[j][1] = "receive"
      BY <3>1, ProgramFacts, Zenon
    <3>3. j \in 1 .. done[m][t]
      BY <3>1, <3>2
    <3> QED BY <3>2, <3>3, Zenon DEF PInv, LetterInv
  <2>3. letter[m][t] \in Packets
    <3>1. letter \in [Machines -> [Users -> Packets \cup {None}]]
      BY Zenon DEF PInv, TypeOK
    <3> QED BY <2>2, <3>1
  <2>4. letter[m][t].from \in Machines /\ letter[m][t].reply \in Boxes
    BY <2>3 DEF Packets
  <2> HIDE DEF op
  <2>5. op[1] # "send"
    BY <1>3
  <2> QED BY <1>1, <2>1, <2>4, <2>5 DEF Outgoing, Packets, op
<1> QED BY <1>2, <1>3, Zenon

\* The machines are off and nothing is under way at first.
LEMMA PInvInit == Init => PInv
<1> SUFFICES ASSUME Init PROVE PInv
  OBVIOUS
<1>1. None \notin Packets /\ program \in Programs
  BY ProgramFacts, Zenon DEF Init
<1>2. TypeOK
  BY <1>1 DEF Init, TypeOK
<1>3. CardInv
  BY DEF Init, CardInv
<1>4. ASSUME NEW m \in Machines, NEW t \in Users
      PROVE  /\ done[m][t] <= Len(program[m][t])
             /\ \A j \in 1 .. done[m][t] : program[m][t][j][1] = "receive" => letter[m][t] # None
  <2>1. program[m][t] \in Seq(Operations)
    BY <1>1, ProgramFacts, Zenon
  <2>2. done[m][t] = 0
    BY DEF Init
  <2>3. 1 .. done[m][t] = {} /\ done[m][t] <= Len(program[m][t])
    BY <2>1, <2>2
  <2> QED BY <2>3, Zenon
<1> QED BY <1>2, <1>3, <1>4, Zenon DEF PInv, LetterInv

\* Only what changes done, letter or program can disturb LetterInv.
LEMMA LetterUntouched ==
  ASSUME PInv, UNCHANGED <<program, done, letter>>
  PROVE  LetterInv'
BY Zenon DEF PInv, LetterInv

\* Only what changes the way of a packet can disturb CardInv.
LEMMA CardUntouched ==
  ASSUME PInv, UNCHANGED <<inbox, available, worker, hand>>,
         \A m \in Machines : power'[m] \in {"off", "up"} => power[m] \in {"off", "up"}
  PROVE  CardInv'
BY Zenon DEF PInv, CardInv

\* A thread completes an operation.
LEMMA DoneKeeps ==
  ASSUME PInv, NEW m \in Machines, NEW t \in Users, done[m][t] < Len(program[m][t]),
         done' = [done EXCEPT ![m][t] = @ + 1], program' = program,
         \A n \in Machines, u \in Users : letter'[n][u] = None => letter[n][u] = None,
         program[m][t][done[m][t] + 1][1] = "receive" => letter'[m][t] # None
  PROVE  done' \in [Machines -> [Users -> Nat]] /\ LetterInv'
<1>1. done \in [Machines -> [Users -> Nat]]
  BY Zenon DEF PInv, TypeOK
<1>2. done' \in [Machines -> [Users -> Nat]]
  BY <1>1
<1>3. ASSUME NEW n \in Machines, NEW u \in Users
      PROVE  /\ done'[n][u] <= Len(program[n][u])
             /\ \A j \in 1 .. done'[n][u] : program[n][u][j][1] = "receive" => letter'[n][u] # None
  <2>0. /\ done[n][u] <= Len(program[n][u])
        /\ \A j \in 1 .. done[n][u] : program[n][u][j][1] = "receive" => letter[n][u] # None
        /\ letter'[n][u] = None => letter[n][u] = None
    BY Zenon DEF PInv, LetterInv
  <2>1. CASE n = m /\ u = t
    <3>1. done'[m][t] = done[m][t] + 1 /\ done[m][t] \in Nat
      BY <1>1
    <3>2. program[m][t] \in Seq(Operations)
      BY ProgramFacts, Zenon DEF PInv, TypeOK
    <3>3. done[m][t] + 1 <= Len(program[m][t])
      BY <3>1, <3>2
    <3>4. \A j \in 1 .. done[m][t] + 1 : j \in 1 .. done[m][t] \/ j = done[m][t] + 1
      BY <3>1
    <3> QED BY <2>0, <2>1, <3>1, <3>3, <3>4, Zenon
  <2>2. CASE ~(n = m /\ u = t)
    <3>1. done'[n][u] = done[n][u]
      BY <1>1, <2>2
    <3> QED BY <2>0, <3>1, Zenon
  <2> QED BY <2>1, <2>2, Zenon
<1> QED BY <1>2, <1>3, Zenon DEF LetterInv

\* The steps of the machine itself keep PInv.
LEMMA MachineKeeps ==
  ASSUME PInv, NEW m \in Machines, Start(m) \/ Device(m) \/ WorkerStep(m)
  PROVE  PInv'
<1>0. /\ power \in [Machines -> {"off", "up", "halted", "aborted"}] /\ TypeOK
      /\ socket \in [Machines -> Seq(Packets)]
      /\ inbox \in [Machines -> Packets \cup {None}] /\ hand \in [Machines -> Packets \cup {None}]
      /\ available \in [Machines -> Nat] /\ sending \in [Machines -> Nat] /\ sent \in [Machines -> Nat]
      /\ worker \in [Machines -> {"wait", "receive", "put"}]
      /\ boxes \in [Machines -> [Boxes -> Seq(Packets)]]
      /\ None \notin Packets
  BY ProgramFacts, Zenon DEF PInv, TypeOK
<1>c. /\ CardInv
      /\ power[m] = "up" => /\ hand[m] # None <=> worker[m] = "put"
                            /\ available[m] = IF inbox[m] # None /\ worker[m] # "receive" THEN 1 ELSE 0
                            /\ worker[m] = "receive" => inbox[m] # None
  BY Zenon DEF PInv, CardInv
<1>1. CASE Start(m)
  <2>1. power[m] = "off" /\ power' = [power EXCEPT ![m] = "up"] /\ UNCHANGED <<setting, card, office, clients>>
    BY <1>1, Zenon DEF Start
  <2>2. power' \in [Machines -> {"off", "up", "halted", "aborted"}]
        /\ \A n \in Machines : power'[n] \in {"off", "up"} => power[n] \in {"off", "up"}
    BY <1>0, <2>1
  <2>3. TypeOK'
    BY <1>0, <2>1, <2>2, Zenon DEF TypeOK, setting, card, office, clients
  <2> QED BY <2>1, <2>2, <2>3, LetterUntouched, CardUntouched, Zenon DEF PInv, setting, card, office, clients
<1>2. CASE CheckPktAvail(m)
  <2>1. /\ power[m] = "up" /\ inbox[m] = None /\ socket[m] # <<>>
        /\ inbox' = [inbox EXCEPT ![m] = Head(socket[m])]
        /\ socket' = [socket EXCEPT ![m] = Tail(@)]
        /\ available' = [available EXCEPT ![m] = @ + 1]
        /\ UNCHANGED <<setting, power, sending, sent, lock, worker, hand, boxes, clients>>
    BY <1>2, Zenon DEF CheckPktAvail
  <2>2. Head(socket[m]) \in Packets /\ Tail(socket[m]) \in Seq(Packets)
    BY <1>0, <2>1
  <2>3. /\ inbox' \in [Machines -> Packets \cup {None}] /\ socket' \in [Machines -> Seq(Packets)]
        /\ available' \in [Machines -> Nat]
    BY <1>0, <2>1, <2>2
  <2>4. TypeOK'
    BY <1>0, <2>1, <2>3, Zenon DEF TypeOK, setting, clients
  <2>5. /\ inbox'[m] \in Packets /\ inbox'[m] # None /\ available'[m] = 1 /\ worker[m] # "receive"
        /\ \A n \in Machines : n # m => inbox'[n] = inbox[n] /\ available'[n] = available[n]
    BY <1>0, <1>c, <2>1, <2>2
  <2>6. CardInv'
    BY <1>c, <2>1, <2>5, ZenonT(60) DEF CardInv
  <2> QED BY <2>1, <2>4, <2>6, LetterUntouched, Zenon DEF PInv, setting, clients
<1>3. CASE SendDone(m)
  <2>1. /\ power[m] = "up" /\ sending[m] > 0
        /\ sending' = [sending EXCEPT ![m] = @ - 1]
        /\ sent' = [sent EXCEPT ![m] = @ + 1]
        /\ UNCHANGED <<setting, power, socket, inbox, available, lock, worker, hand, boxes, clients>>
    BY <1>3, Zenon DEF SendDone
  <2>2. sending' \in [Machines -> Nat] /\ sent' \in [Machines -> Nat]
    BY <1>0, <2>1
  <2>3. TypeOK'
    BY <1>0, <2>1, <2>2, Zenon DEF TypeOK, setting, clients
  <2> QED BY <2>1, <2>3, LetterUntouched, CardUntouched, Zenon DEF PInv, setting, clients
<1>4. CASE WorkerWait(m)
  <2>1. /\ power[m] = "up" /\ worker[m] = "wait" /\ available[m] > 0
        /\ available' = [available EXCEPT ![m] = @ - 1]
        /\ worker' = [worker EXCEPT ![m] = "receive"]
        /\ UNCHANGED <<setting, power, card, sent, lock, hand, boxes, clients>>
    BY <1>4, Zenon DEF WorkerWait
  <2>2. available' \in [Machines -> Nat] /\ worker' \in [Machines -> {"wait", "receive", "put"}]
    BY <1>0, <2>1
  <2>3. TypeOK'
    BY <1>0, <2>1, <2>2, Zenon DEF TypeOK, setting, card, clients
  <2>4. inbox[m] # None /\ available[m] = 1 /\ hand[m] = None
    BY <1>0, <1>c, <2>1
  <2>5. /\ available'[m] = 0 /\ worker'[m] = "receive"
        /\ \A n \in Machines : n # m => worker'[n] = worker[n] /\ available'[n] = available[n]
    BY <1>0, <2>1, <2>4
  <2>6. CardInv'
    BY <1>c, <2>1, <2>4, <2>5 DEF CardInv, card
  <2> QED BY <2>1, <2>3, <2>6, LetterUntouched, Zenon DEF PInv, setting, clients
<1>5. CASE WorkerReceive(m)
  <2>1. /\ power[m] = "up" /\ worker[m] = "receive"
        /\ worker' = [worker EXCEPT ![m] = "put"]
        /\ hand' = [hand EXCEPT ![m] = inbox[m]]
        /\ inbox' = [inbox EXCEPT ![m] = None]
        /\ UNCHANGED <<setting, power, socket, sending, available, sent, lock, boxes, clients>>
    BY <1>5, Zenon DEF WorkerReceive
  <2>2. /\ hand' \in [Machines -> Packets \cup {None}] /\ inbox' \in [Machines -> Packets \cup {None}]
        /\ worker' \in [Machines -> {"wait", "receive", "put"}]
    BY <1>0, <2>1
  <2>3. TypeOK'
    BY <1>0, <2>1, <2>2, Zenon DEF TypeOK, setting, clients
  <2>4. inbox[m] # None /\ available[m] = 0
    BY <1>0, <1>c, <2>1
  <2>5. /\ hand'[m] = inbox[m] /\ worker'[m] = "put" /\ inbox'[m] = None
        /\ \A n \in Machines : n # m => worker'[n] = worker[n] /\ hand'[n] = hand[n] /\ inbox'[n] = inbox[n]
    BY <1>0, <2>1
  <2>6. CardInv'
    BY <1>c, <2>1, <2>4, <2>5 DEF CardInv
  <2> QED BY <2>1, <2>3, <2>6, LetterUntouched, Zenon DEF PInv, setting, clients
<1>6. CASE WorkerPut(m)
  <2>1. /\ power[m] = "up" /\ worker[m] = "put"
        /\ boxes' = [boxes EXCEPT ![m][hand[m].box] = Append(@, hand[m])]
        /\ hand' = [hand EXCEPT ![m] = None]
        /\ worker' = [worker EXCEPT ![m] = "wait"]
        /\ UNCHANGED <<setting, power, card, available, sent, lock, clients>>
    BY <1>6, Zenon DEF WorkerPut
  <2>2. hand[m] \in Packets /\ hand[m].box \in Boxes
    BY <1>0, <1>c, <2>1 DEF Packets
  <2>3. /\ hand' \in [Machines -> Packets \cup {None}]
        /\ worker' \in [Machines -> {"wait", "receive", "put"}]
    BY <1>0, <2>1
  <2>4. boxes' \in [Machines -> [Boxes -> Seq(Packets)]]
    BY <1>0, <2>1, <2>2
  <2>5. TypeOK'
    BY <1>0, <2>1, <2>3, <2>4, Zenon DEF TypeOK, setting, card, clients
  <2>6. /\ hand'[m] = None /\ worker'[m] = "wait"
        /\ \A n \in Machines : n # m => worker'[n] = worker[n] /\ hand'[n] = hand[n]
    BY <1>0, <2>1
  <2>7. CardInv'
    BY <1>c, <2>1, <2>6 DEF CardInv, card
  <2> QED BY <2>1, <2>5, <2>7, LetterUntouched, Zenon DEF PInv, setting, clients
<1> QED BY <1>1, <1>2, <1>3, <1>4, <1>5, <1>6, Zenon DEF Device, WorkerStep

\* The steps of the threads keep PInv.
LEMMA ThreadKeeps ==
  ASSUME PInv, NEW m \in Machines, NEW t \in Users, ThreadStep(m, t)
  PROVE  PInv'
<1>0. /\ power \in [Machines -> {"off", "up", "halted", "aborted"}] /\ TypeOK
      /\ socket \in [Machines -> Seq(Packets)]
      /\ inbox \in [Machines -> Packets \cup {None}] /\ hand \in [Machines -> Packets \cup {None}]
      /\ sending \in [Machines -> Nat] /\ sent \in [Machines -> Nat]
      /\ worker \in [Machines -> {"wait", "receive", "put"}]
      /\ boxes \in [Machines -> [Boxes -> Seq(Packets)]]
      /\ at \in [Machines -> [Users -> Places]] /\ lock \in [Machines -> Users \cup {None}]
      /\ letter \in [Machines -> [Users -> Packets \cup {None}]]
      /\ None \notin Packets
  BY ProgramFacts, Zenon DEF PInv, TypeOK, Places
<1>a. ASSUME NEW place \in Places PROVE [at EXCEPT ![m][t] = place] \in [Machines -> [Users -> Places]]
  BY <1>0
<1>1. CASE SendAcquire(m, t)
  <2>1. /\ lock' = [lock EXCEPT ![m] = t] /\ at' = [at EXCEPT ![m][t] = "network"]
        /\ UNCHANGED <<setting, power, card, available, sent, worker, hand, boxes, done, letter>>
    BY <1>1, Zenon DEF SendAcquire
  <2>2. lock' \in [Machines -> Users \cup {None}] /\ at' \in [Machines -> [Users -> Places]]
    BY <1>0, <1>a, <2>1, Zenon DEF Places
  <2>3. TypeOK'
    BY <1>0, <2>1, <2>2, Zenon DEF TypeOK, Places, setting, card
  <2> QED BY <2>1, <2>3, LetterUntouched, CardUntouched, Zenon DEF PInv, setting, card
<1>2. CASE SendNetwork(m, t)
  <2>1. /\ NetworkSend(m, Outgoing(m, t)) /\ at' = [at EXCEPT ![m][t] = "sent"]
        /\ Current(m, t)[1] \in {"send", "answer"}
        /\ UNCHANGED <<setting, inbox, office, done, letter>>
    BY <1>2, Zenon DEF SendNetwork, Ready
  <2>2. Outgoing(m, t) \in Packets
    BY <2>1, OutgoingFacts, Zenon
  <2> DEFINE packet == Outgoing(m, t)
  <2> HIDE DEF packet
  <2>3. packet \in Packets /\ packet.to \in Machines
    BY <2>2 DEF packet, Packets
  <2>4. /\ sending' = [sending EXCEPT ![m] = @ + 1]
        /\ \/ UNCHANGED <<socket, power>>
           \/ socket' = [socket EXCEPT ![packet.to] = Append(@, packet)] /\ UNCHANGED power
           \/ power' = [power EXCEPT ![m] = "aborted"] /\ UNCHANGED socket
    BY <2>1, Zenon DEF NetworkSend, SendToSocket, packet
  <2>5. /\ sending' \in [Machines -> Nat] /\ at' \in [Machines -> [Users -> Places]]
    <3>1. at' \in [Machines -> [Users -> Places]]
      BY <1>a, <2>1, Zenon DEF Places
    <3>2. sending' = [sending EXCEPT ![m] = @ + 1] /\ sending \in [Machines -> Nat]
      BY <1>0, <2>4, Zenon
    <3>3. sending' \in [Machines -> Nat]
      BY <3>2
    <3> QED BY <3>1, <3>3, Zenon
  <2>6. socket' \in [Machines -> Seq(Packets)]
    <3>1. Append(socket[packet.to], packet) \in Seq(Packets) /\ socket \in [Machines -> Seq(Packets)]
      BY <1>0, <2>3
    <3> QED BY <2>3, <2>4, <3>1, Zenon
  <2>7. /\ power' \in [Machines -> {"off", "up", "halted", "aborted"}]
        /\ \A n \in Machines : power'[n] \in {"off", "up"} => power[n] \in {"off", "up"}
    BY <1>0, <2>4, Zenon
  <2>8. TypeOK'
    BY <1>0, <2>1, <2>5, <2>6, <2>7, Zenon DEF TypeOK, Places, setting, office
  <2> QED BY <2>1, <2>7, <2>8, LetterUntouched, CardUntouched, Zenon DEF PInv, setting, office
<1>3. CASE SendWait(m, t)
  <2>1. /\ sent[m] > 0 /\ sent' = [sent EXCEPT ![m] = @ - 1] /\ at' = [at EXCEPT ![m][t] = "release"]
        /\ UNCHANGED <<setting, power, card, available, lock, worker, hand, boxes, done, letter>>
    BY <1>3, Zenon DEF SendWait
  <2>2. sent' \in [Machines -> Nat]
    BY <1>0, <2>1
  <2>3. at' \in [Machines -> [Users -> Places]]
    BY <1>a, <2>1, Zenon DEF Places
  <2>4. TypeOK'
    BY <1>0, <2>1, <2>2, <2>3, Zenon DEF TypeOK, Places, setting, card
  <2> QED BY <2>1, <2>4, LetterUntouched, CardUntouched, Zenon DEF PInv, setting, card
<1>4. CASE SendRelease(m, t)
  <2>1. /\ lock' = [lock EXCEPT ![m] = None] /\ at' = [at EXCEPT ![m][t] = "idle"]
        /\ done' = [done EXCEPT ![m][t] = @ + 1] /\ Current(m, t)[1] \in {"send", "answer"}
        /\ UNCHANGED <<setting, power, card, available, sent, worker, hand, boxes, letter>>
    BY <1>4, Zenon DEF SendRelease, Ready
  <2>2. /\ done[m][t] < Len(program[m][t])
        /\ program[m][t][done[m][t] + 1][1] # "receive"
    BY <2>1, CurrentFacts, Zenon
  <2>3. done' \in [Machines -> [Users -> Nat]] /\ LetterInv'
    BY <2>1, <2>2, DoneKeeps, Zenon DEF setting
  <2>4. lock' \in [Machines -> Users \cup {None}] /\ at' \in [Machines -> [Users -> Places]]
    BY <1>0, <1>a, <2>1, Zenon DEF Places
  <2>5. TypeOK'
    BY <1>0, <2>1, <2>3, <2>4, Zenon DEF TypeOK, Places, setting, card
  <2> QED BY <2>1, <2>3, <2>5, CardUntouched, Zenon DEF PInv, setting, card
<1>5. CASE Receive(m, t)
  <2> DEFINE b == Current(m, t)[2]
  <2>1. /\ Current(m, t)[1] \in {"receive"} /\ boxes[m][b] # <<>>
        /\ letter' = [letter EXCEPT ![m][t] = Head(boxes[m][b])]
        /\ boxes' = [boxes EXCEPT ![m][b] = Tail(@)]
        /\ done' = [done EXCEPT ![m][t] = @ + 1]
        /\ UNCHANGED <<setting, power, card, available, sent, lock, worker, hand, at>>
    BY <1>5, Zenon DEF Receive, Ready
  <2>2. done[m][t] < Len(program[m][t]) /\ Current(m, t) \in Operations
    BY <2>1, CurrentFacts, Zenon
  <2>3. b \in Boxes
    BY <2>1, <2>2, OperationFacts, Zenon
  <2> HIDE DEF b
  <2>4. Head(boxes[m][b]) \in Packets /\ Tail(boxes[m][b]) \in Seq(Packets)
    BY <1>0, <2>1, <2>3
  <2>5. boxes' \in [Machines -> [Boxes -> Seq(Packets)]]
    BY <1>0, <2>1, <2>3, <2>4
  <2>6. /\ letter' \in [Machines -> [Users -> Packets \cup {None}]]
        /\ letter'[m][t] # None
        /\ \A n \in Machines, u \in Users : letter'[n][u] = None => letter[n][u] = None
    BY <1>0, <2>1, <2>4
  <2>7. done' \in [Machines -> [Users -> Nat]] /\ LetterInv'
    BY <2>1, <2>2, <2>6, DoneKeeps, Zenon DEF setting
  <2>8. TypeOK'
    BY <1>0, <2>1, <2>5, <2>6, <2>7, Zenon DEF TypeOK, Places, setting, card
  <2> QED BY <2>1, <2>7, <2>8, CardUntouched, Zenon DEF PInv, setting, card
<1>6. CASE Halt(m, t)
  <2>1. /\ power' = [power EXCEPT ![m] = "halted"]
        /\ socket' = [socket EXCEPT ![m] = <<>>]
        /\ inbox' = [inbox EXCEPT ![m] = None]
        /\ worker' = [worker EXCEPT ![m] = "wait"] /\ hand' = [hand EXCEPT ![m] = None]
        /\ boxes' = [boxes EXCEPT ![m] = [b \in Boxes |-> <<>>]]
        /\ UNCHANGED <<setting, sending, available, sent, lock, clients>>
    BY <1>6, Zenon DEF Halt
  <2>2. /\ power' \in [Machines -> {"off", "up", "halted", "aborted"}]
        /\ socket' \in [Machines -> Seq(Packets)]
    BY <1>0, <2>1
  <2>3. /\ inbox' \in [Machines -> Packets \cup {None}] /\ hand' \in [Machines -> Packets \cup {None}]
        /\ worker' \in [Machines -> {"wait", "receive", "put"}]
    BY <1>0, <2>1
  <2>4. boxes' \in [Machines -> [Boxes -> Seq(Packets)]]
    BY <1>0, <2>1
  <2>5. TypeOK'
    BY <1>0, <2>1, <2>2, <2>3, <2>4, Zenon DEF TypeOK, setting, clients
  <2>6. /\ power'[m] = "halted"
        /\ \A n \in Machines : n # m => /\ power'[n] = power[n] /\ inbox'[n] = inbox[n]
                                        /\ hand'[n] = hand[n] /\ worker'[n] = worker[n]
    BY <1>0, <2>1
  <2>7. CardInv'
    <3> SUFFICES ASSUME NEW n \in Machines, power'[n] \in {"off", "up"}
                 PROVE  /\ hand'[n] # None <=> worker'[n] = "put"
                        /\ available'[n] = IF inbox'[n] # None /\ worker'[n] # "receive" THEN 1 ELSE 0
                        /\ worker'[n] = "receive" => inbox'[n] # None
      BY Zenon DEF CardInv
    <3>1. n # m
      BY <2>6
    <3>2. available' = available /\ power[n] \in {"off", "up"} /\ hand'[n] = hand[n]
          /\ worker'[n] = worker[n] /\ inbox'[n] = inbox[n]
      BY <2>1, <2>6, <3>1, Zenon
    <3> QED BY <3>2, Zenon DEF PInv, CardInv
  <2> QED BY <2>1, <2>5, <2>7, LetterUntouched, Zenon DEF PInv, setting, clients
<1> HIDE DEF PInv
<1> QED BY <1>1, <1>2, <1>3, <1>4, <1>5, <1>6 DEF ThreadStep

\* Every step of every machine keeps PInv.
LEMMA PInvNext == PInv /\ [Next]_vars => PInv'
<1> SUFFICES ASSUME PInv, [Next]_vars PROVE PInv'
  BY Zenon
<1>1. CASE UNCHANGED vars
  BY <1>1, ZenonT(60) DEF vars, PInv, TypeOK, CardInv, LetterInv
<1>2. CASE Next
  BY <1>2, MachineKeeps, ThreadKeeps, Zenon DEF Next
<1> QED BY <1>1, <1>2, Zenon

-----------------------------------------------------------------------------
(* MailTest. *)

\* main.cc: on every machine the main thread runs MailTest with the machine
\* that runs it the other way round, and no other thread uses the post office.
IsMailTest(p, far, main) ==
  /\ far \in [Machines -> Machines] /\ main \in Users
  /\ \A m \in Machines : far[far[m]] = m
  /\ p = [m \in Machines |-> [t \in Users |-> IF t = main THEN MailTest(far[m]) ELSE <<>>]]

\* A program in which no thread halts its machine.
NeverHalts(p) ==
  \A m \in Machines, t \in Users : \A k \in 1 .. Len(p[m][t]) : p[m][t][k][1] # "halt"

\* The machine has given its acknowledgement, the last thing it sends, to the
\* card.
Through(main, m) ==
  \/ done[m][main] >= 3
  \/ done[m][main] = 2 /\ at[m][main] \in {"sent", "release"}

\* The packets that may be on machine m: they come from the other machine, and
\* an acknowledgement only when that machine is through.
RightOnes(far, main, m) ==
  {x \in Packets : /\ x.from = far[m] /\ x.reply = 1
                   /\ x.box = 1 => Through(main, far[m])}

\* Every packet on a machine is right, and so is the letter that MailTest
\* answers; who has the acknowledgement has it from a machine that is through,
\* and nobody halts without it.
TestInv(far, main) ==
  \A m \in Machines :
    /\ socket[m] \in Seq(RightOnes(far, main, m))
    /\ inbox[m] \in RightOnes(far, main, m) \cup {None}
    /\ hand[m] \in RightOnes(far, main, m) \cup {None}
    /\ \A b \in Boxes : boxes[m][b] \in Seq(RightOnes(far, main, m) \cap For(b))
    /\ done[m][main] = 2 => letter[m][main].from = far[m] /\ letter[m][main].reply = 1
    /\ done[m][main] >= 4 => Through(main, far[m])
    /\ power[m] = "halted" => done[m][main] >= 4

\* The strengthening of NoAbort that is inductive, given PInv.
AbortInv ==
  /\ NoAbort
  /\ \/ NeverHalts(program) /\ \A m \in Machines : power[m] # "halted"
     \/ \E far \in [Machines -> Machines], main \in Users :
          IsMailTest(program, far, main) /\ TestInv(far, main)

\* What the operations of MailTest are.
LEMMA TestOps ==
  ASSUME NEW f
  PROVE  /\ Len(MailTest(f)) = 5
         /\ MailTest(f)[1] = <<"send", f, 0, 1>> /\ MailTest(f)[2] = <<"receive", 0>>
         /\ MailTest(f)[3] = <<"answer", 1>> /\ MailTest(f)[4] = <<"receive", 1>>
         /\ MailTest(f)[5] = <<"halt">>
BY DEF MailTest

\* Only the main thread does anything, and how far it is tells what.
LEMMA TestCurrent ==
  ASSUME PInv, NEW far, NEW main, IsMailTest(program, far, main), NEW m \in Machines, NEW t \in Users
  PROVE  /\ Current(m, t)[1] \in {"send", "answer"} =>
              /\ t = main
              /\ \/ done[m][main] = 0 /\ Current(m, t) = <<"send", far[m], 0, 1>>
                 \/ done[m][main] = 2 /\ Current(m, t) = <<"answer", 1>>
         /\ Current(m, t)[1] \in {"receive"} =>
              /\ t = main
              /\ \/ done[m][main] = 1 /\ Current(m, t)[2] = 0
                 \/ done[m][main] = 3 /\ Current(m, t)[2] = 1
         /\ Current(m, t)[1] \in {"halt"} => t = main /\ done[m][main] = 4
<1>1. program[m][t] = IF t = main THEN MailTest(far[m]) ELSE <<>>
  BY Zenon DEF IsMailTest
<1>2. done[m][t] \in Nat
  BY DEF PInv, TypeOK
<1>3. ASSUME NEW kinds \in SUBSET {"send", "answer", "receive", "halt"}, Current(m, t)[1] \in kinds
      PROVE  /\ t = main /\ done[m][main] \in 0 .. 4
             /\ Current(m, t) = MailTest(far[m])[done[m][main] + 1]
  <2>1. done[m][t] < Len(program[m][t]) /\ Current(m, t) = program[m][t][done[m][t] + 1]
    BY <1>3, CurrentFacts, Zenon
  <2>2. t = main
    <3>1. SUFFICES ASSUME t # main PROVE FALSE
      OBVIOUS
    <3>2. Len(program[m][t]) = 0
      BY <1>1, <3>1
    <3> QED BY <1>2, <2>1, <3>2
  <2>3. done[m][main] < 5
    BY <1>1, <2>1, <2>2, TestOps, Zenon
  <2> QED BY <1>1, <1>2, <2>1, <2>2, <2>3
<1> DEFINE q == MailTest(far[m])
           d == done[m][main]
<1>4. /\ q[1] = <<"send", far[m], 0, 1>> /\ q[2] = <<"receive", 0>>
      /\ q[3] = <<"answer", 1>> /\ q[4] = <<"receive", 1>> /\ q[5] = <<"halt">>
  BY TestOps, Zenon
<1> HIDE DEF q, d
<1>5. d \in 0 .. 4 =>
        \/ d = 0 /\ q[d + 1] = <<"send", far[m], 0, 1>>
        \/ d = 1 /\ q[d + 1] = <<"receive", 0>>
        \/ d = 2 /\ q[d + 1] = <<"answer", 1>>
        \/ d = 3 /\ q[d + 1] = <<"receive", 1>>
        \/ d = 4 /\ q[d + 1] = <<"halt">>
  BY <1>4
<1>6. Current(m, t)[1] \in {"send", "answer"} =>
              /\ t = main
              /\ \/ done[m][main] = 0 /\ Current(m, t) = <<"send", far[m], 0, 1>>
                 \/ done[m][main] = 2 /\ Current(m, t) = <<"answer", 1>>
  <2>1. SUFFICES ASSUME Current(m, t)[1] \in {"send", "answer"} PROVE t = main /\
                 \/ d = 0 /\ Current(m, t) = <<"send", far[m], 0, 1>>
                 \/ d = 2 /\ Current(m, t) = <<"answer", 1>>
    BY DEF d
  <2>2. t = main /\ d \in 0 .. 4 /\ Current(m, t) = q[d + 1]
    <3>1. {"send", "answer"} \in SUBSET {"send", "answer", "receive", "halt"}
      OBVIOUS
    <3> QED BY <1>3, <2>1, <3>1, Zenon DEF d, q
  <2> QED BY <1>5, <2>1, <2>2
<1>7. Current(m, t)[1] \in {"receive"} =>
              /\ t = main
              /\ \/ done[m][main] = 1 /\ Current(m, t)[2] = 0
                 \/ done[m][main] = 3 /\ Current(m, t)[2] = 1
  <2>1. SUFFICES ASSUME Current(m, t)[1] \in {"receive"} PROVE t = main /\
                 \/ d = 1 /\ Current(m, t)[2] = 0
                 \/ d = 3 /\ Current(m, t)[2] = 1
    BY DEF d
  <2>2. t = main /\ d \in 0 .. 4 /\ Current(m, t) = q[d + 1]
    <3>1. {"receive"} \in SUBSET {"send", "answer", "receive", "halt"}
      OBVIOUS
    <3> QED BY <1>3, <2>1, <3>1, Zenon DEF d, q
  <2> QED BY <1>5, <2>1, <2>2
<1>8. Current(m, t)[1] \in {"halt"} => t = main /\ done[m][main] = 4
  <2>1. SUFFICES ASSUME Current(m, t)[1] \in {"halt"} PROVE t = main /\ d = 4
    BY DEF d
  <2>2. t = main /\ d \in 0 .. 4 /\ Current(m, t) = q[d + 1]
    <3>1. {"halt"} \in SUBSET {"send", "answer", "receive", "halt"}
      OBVIOUS
    <3> QED BY <1>3, <2>1, <3>1, Zenon DEF d, q
  <2> QED BY <1>5, <2>1, <2>2
<1> QED BY <1>6, <1>7, <1>8

\* The index after a number of elements that is not all.
LEMMA NextIndex ==
  ASSUME NEW X, NEW s \in Seq(X), NEW d \in Nat, d < Len(s)
  PROVE  d + 1 \in 1 .. Len(s)
OBVIOUS

\* The parts of a sequence that is not empty.
LEMMA SeqHeadTail ==
  ASSUME NEW X, NEW s \in Seq(X), s # <<>>
  PROVE  Head(s) \in X /\ Tail(s) \in Seq(X)
OBVIOUS

\* A sequence with one more element.
LEMMA SeqAppend ==
  ASSUME NEW X, NEW s \in Seq(X), NEW x \in X
  PROVE  Append(s, x) \in Seq(X)
OBVIOUS

\* Sequences over a larger set.
LEMMA SeqGrows ==
  ASSUME NEW A, NEW B, A \subseteq B
  PROVE  Seq(A) \subseteq Seq(B)
OBVIOUS

\* While nobody becomes less through, what was right stays right.
LEMMA RightStays ==
  ASSUME NEW far, NEW main, IsMailTest(program, far, main), TestInv(far, main),
         \A m \in Machines : Through(main, m) => Through(main, m)'
  PROVE  \A m \in Machines :
           /\ RightOnes(far, main, m) \subseteq RightOnes(far, main, m)'
           /\ socket[m] \in Seq(RightOnes(far, main, m)')
           /\ inbox[m] \in RightOnes(far, main, m)' \cup {None}
           /\ hand[m] \in RightOnes(far, main, m)' \cup {None}
           /\ \A b \in Boxes : boxes[m][b] \in Seq(RightOnes(far, main, m)' \cap For(b))
<1> TAKE m \in Machines
<1> DEFINE A == RightOnes(far, main, m)
           B == RightOnes(far, main, m)'
<1>1. far[m] \in Machines
  BY Zenon DEF IsMailTest
<1>2. A \subseteq B
  BY <1>1, ZenonT(60) DEF RightOnes
<1>3. /\ socket[m] \in Seq(A) /\ inbox[m] \in A \cup {None} /\ hand[m] \in A \cup {None}
      /\ \A b \in Boxes : boxes[m][b] \in Seq(A \cap For(b))
  BY Zenon DEF TestInv
<1> HIDE DEF A, B
<1>4. Seq(A) \subseteq Seq(B)
  BY <1>2, SeqGrows, Zenon
<1>5. \A b \in Boxes : Seq(A \cap For(b)) \subseteq Seq(B \cap For(b))
  <2> TAKE b \in Boxes
  <2> DEFINE C == A \cap For(b)
             D == B \cap For(b)
  <2>1. C \subseteq D
    BY <1>2
  <2> HIDE DEF C, D
  <2>2. Seq(C) \subseteq Seq(D)
    BY <2>1, SeqGrows, Zenon
  <2> QED BY <2>2, Zenon DEF C, D
<1>6. /\ A \subseteq B /\ socket[m] \in Seq(B) /\ inbox[m] \in B \cup {None} /\ hand[m] \in B \cup {None}
      /\ \A b \in Boxes : boxes[m][b] \in Seq(B \cap For(b))
  BY <1>2, <1>3, <1>4, <1>5, Zenon
<1> QED BY <1>6 DEF A, B

\* The steps of the machine move right packets about.
LEMMA MachineTest ==
  ASSUME PInv, NEW far, NEW main, IsMailTest(program, far, main), TestInv(far, main),
         NEW m \in Machines, Start(m) \/ Device(m) \/ WorkerStep(m)
  PROVE  TestInv(far, main)'
<1>1. UNCHANGED <<at, done, letter>>
  BY Zenon DEF Start, Device, WorkerStep, CheckPktAvail, SendDone, WorkerWait, WorkerReceive, WorkerPut, clients
<1>2. \A n \in Machines : power'[n] = "halted" => power[n] = "halted"
  <2>1. power' = power \/ power' = [power EXCEPT ![m] = "up"]
    BY Zenon DEF Start, Device, WorkerStep, CheckPktAvail, SendDone, WorkerWait, WorkerReceive, WorkerPut
  <2>2. power \in [Machines -> {"off", "up", "halted", "aborted"}]
    BY Zenon DEF PInv, TypeOK
  <2> QED BY <2>1, <2>2
<1>3. \A n \in Machines : /\ RightOnes(far, main, n)' = RightOnes(far, main, n)
                          /\ Through(main, far[n])' <=> Through(main, far[n])
  BY <1>1, Zenon DEF RightOnes, Through
<1>4. ASSUME NEW n \in Machines
      PROVE  /\ done'[n][main] = 2 => letter'[n][main].from = far[n] /\ letter'[n][main].reply = 1
             /\ done'[n][main] >= 4 => Through(main, far[n])'
             /\ power'[n] = "halted" => done'[n][main] >= 4
  BY <1>1, <1>2, <1>3, Zenon DEF TestInv
<1> DEFINE R(n) == RightOnes(far, main, n)
<1>5. \A n \in Machines : /\ socket[n] \in Seq(R(n)) /\ inbox[n] \in R(n) \cup {None}
                          /\ hand[n] \in R(n) \cup {None}
                          /\ \A b \in Boxes : boxes[n][b] \in Seq(R(n) \cap For(b))
  BY Zenon DEF TestInv
<1>t. /\ socket \in [Machines -> Seq(Packets)]
      /\ inbox \in [Machines -> Packets \cup {None}] /\ hand \in [Machines -> Packets \cup {None}]
      /\ boxes \in [Machines -> [Boxes -> Seq(Packets)]]
      /\ None \notin Packets
  BY ProgramFacts, Zenon DEF PInv, TypeOK
<1>6. ASSUME NEW n \in Machines
      PROVE  /\ socket'[n] \in Seq(R(n)) /\ inbox'[n] \in R(n) \cup {None}
             /\ hand'[n] \in R(n) \cup {None}
             /\ \A b \in Boxes : boxes'[n][b] \in Seq(R(n) \cap For(b))
  <2> HIDE DEF R
  <2>1. CASE Start(m) \/ SendDone(m) \/ WorkerWait(m)
    <3>1. UNCHANGED <<socket, inbox, hand, boxes>>
      BY <2>1, Zenon DEF Start, SendDone, WorkerWait, card, office
    <3> QED BY <1>5, <3>1, Zenon
  <2>2. CASE CheckPktAvail(m)
    <3>1. /\ UNCHANGED <<hand, boxes>> /\ socket[m] # <<>>
          /\ inbox' = [inbox EXCEPT ![m] = Head(socket[m])]
          /\ socket' = [socket EXCEPT ![m] = Tail(@)]
      BY <2>2, Zenon DEF CheckPktAvail
    <3>2. Head(socket[m]) \in R(m) /\ Tail(socket[m]) \in Seq(R(m))
      <4>1. socket[m] \in Seq(R(m))
        BY <1>5, Zenon
      <4> QED BY <3>1, <4>1, SeqHeadTail, Zenon
    <3>3. /\ inbox'[n] = IF n = m THEN Head(socket[m]) ELSE inbox[n]
          /\ socket'[n] = IF n = m THEN Tail(socket[m]) ELSE socket[n]
      BY <1>t, <3>1, Zenon
    <3> QED BY <1>5, <3>1, <3>2, <3>3, Zenon
  <2>3. CASE WorkerReceive(m)
    <3>1. /\ UNCHANGED <<socket, boxes>>
          /\ hand' = [hand EXCEPT ![m] = inbox[m]] /\ inbox' = [inbox EXCEPT ![m] = None]
      BY <2>3, Zenon DEF WorkerReceive
    <3>2. /\ hand'[n] = IF n = m THEN inbox[m] ELSE hand[n]
          /\ inbox'[n] = IF n = m THEN None ELSE inbox[n]
      BY <1>t, <3>1, Zenon
    <3> QED BY <1>5, <3>1, <3>2, Zenon
  <2>4. CASE WorkerPut(m)
    <3>1. /\ hand[m] # None /\ UNCHANGED <<socket, inbox>>
          /\ boxes' = [boxes EXCEPT ![m][hand[m].box] = Append(@, hand[m])]
          /\ hand' = [hand EXCEPT ![m] = None]
      BY <2>4, Zenon DEF WorkerPut, card, PInv, CardInv
    <3>2. hand[m] \in R(m) /\ hand[m] \in Packets
      BY <1>5, <1>t, <3>1
    <3>3. hand[m].box \in Boxes /\ hand[m] \in For(hand[m].box)
      BY <3>2 DEF Packets, For
    <3> DEFINE c == hand[m].box
    <3>4. Append(boxes[m][c], hand[m]) \in Seq(R(m) \cap For(c))
      <4>1. boxes[m][c] \in Seq(R(m) \cap For(c))
        BY <1>5, <3>3, Zenon
      <4>2. hand[m] \in R(m) \cap For(c)
        BY <3>2, <3>3, Zenon
      <4> QED BY <4>1, <4>2, SeqAppend, Zenon
    <3>5. /\ hand'[n] = IF n = m THEN None ELSE hand[n]
          /\ \A b \in Boxes : boxes'[n][b] = IF n = m /\ b = c THEN Append(boxes[m][c], hand[m]) ELSE boxes[n][b]
      BY <1>t, <3>1, <3>3
    <3> QED BY <1>5, <3>1, <3>4, <3>5, ZenonT(60)
  <2> QED BY <2>1, <2>2, <2>3, <2>4, Zenon DEF Device, WorkerStep
<1> QED BY <1>3, <1>4, <1>6, Zenon DEF TestInv

\* A step of a thread that moves no packet.
LEMMA CallTest ==
  ASSUME PInv, NEW far, NEW main, IsMailTest(program, far, main), TestInv(far, main),
         NEW m \in Machines, NEW t \in Users,
         SendAcquire(m, t) \/ SendWait(m, t) \/ SendRelease(m, t)
  PROVE  TestInv(far, main)'
<1>1. /\ power[m] = "up" /\ Current(m, t)[1] \in {"send", "answer"}
      /\ UNCHANGED <<power, socket, inbox, hand, boxes, letter>>
  BY Zenon DEF SendAcquire, SendWait, SendRelease, Ready, card
<1>2. t = main /\ done[m][main] \in {0, 2}
  <2>1. t = main /\ (done[m][main] = 0 \/ done[m][main] = 2)
    BY <1>1, TestCurrent, ZenonT(60)
  <2> QED BY <2>1, Zenon
<1>3. /\ at \in [Machines -> [Users -> Places]] /\ done \in [Machines -> [Users -> Nat]]
  BY Zenon DEF PInv, TypeOK, Places
<1>4. \/ at[m][main] = "idle" /\ at'[m][main] = "network" /\ done'[m][main] = done[m][main]
      \/ at[m][main] = "sent" /\ at'[m][main] = "release" /\ done'[m][main] = done[m][main]
      \/ at[m][main] = "release" /\ at'[m][main] = "idle" /\ done'[m][main] = done[m][main] + 1
  <2>1. CASE SendAcquire(m, t)
    <3>1. at[m][main] = "idle" /\ at' = [at EXCEPT ![m][main] = "network"] /\ done' = done
      BY <1>2, <2>1, Zenon DEF SendAcquire, Ready
    <3> QED BY <1>2, <1>3, <3>1
  <2>2. CASE SendWait(m, t)
    <3>1. at[m][main] = "sent" /\ at' = [at EXCEPT ![m][main] = "release"] /\ done' = done
      BY <1>2, <2>2, Zenon DEF SendWait, Ready
    <3> QED BY <1>2, <1>3, <3>1
  <2>3. CASE SendRelease(m, t)
    <3>1. at[m][main] = "release" /\ at' = [at EXCEPT ![m][main] = "idle"]
          /\ done' = [done EXCEPT ![m][main] = @ + 1]
      BY <1>2, <2>3, Zenon DEF SendRelease, Ready
    <3> QED BY <1>2, <1>3, <3>1
  <2> QED BY <2>1, <2>2, <2>3, Zenon
<1>5. \A n \in Machines : n # m => at'[n][main] = at[n][main] /\ done'[n][main] = done[n][main]
  <2>1. \/ at' = [at EXCEPT ![m][t] = "network"]
        \/ at' = [at EXCEPT ![m][t] = "release"]
        \/ at' = [at EXCEPT ![m][t] = "idle"]
    BY Zenon DEF SendAcquire, SendWait, SendRelease
  <2>2. done' = done \/ done' = [done EXCEPT ![m][t] = @ + 1]
    BY Zenon DEF SendAcquire, SendWait, SendRelease
  <2> QED BY <1>3, <2>1, <2>2
<1>6. ASSUME NEW n \in Machines PROVE Through(main, n) => Through(main, n)'
  <2>1. CASE n = m
    <3>1. ~(0 >= 3) /\ ~(2 >= 3) /\ 2 + 1 >= 3
      OBVIOUS
    <3> QED BY <1>2, <1>4, <2>1, <3>1, ZenonT(60) DEF Through
  <2>2. CASE n # m
    BY <1>5, <2>2, Zenon DEF Through
  <2> QED BY <2>1, <2>2, Zenon
<1>7. ASSUME NEW n \in Machines
      PROVE  /\ done'[n][main] = 2 => letter'[n][main].from = far[n] /\ letter'[n][main].reply = 1
             /\ done'[n][main] >= 4 => Through(main, far[n])'
             /\ power'[n] = "halted" => done'[n][main] >= 4
  <2>0. /\ done[n][main] = 2 => letter[n][main].from = far[n] /\ letter[n][main].reply = 1
        /\ done[n][main] >= 4 => Through(main, far[n])
        /\ power[n] = "halted" => done[n][main] >= 4
    BY Zenon DEF TestInv
  <2>1. far[n] \in Machines
    BY Zenon DEF IsMailTest
  <2>2. CASE n # m
    BY <1>1, <1>5, <1>6, <2>0, <2>1, <2>2, Zenon
  <2>3. CASE n = m
    <3>1. done'[m][main] \in {0, 1, 2, 3} /\ (done'[m][main] = 2 => done[m][main] = 2)
      <4>1. 0 + 1 = 1 /\ 2 + 1 = 3 /\ 0 # 2 /\ 1 # 2
        OBVIOUS
      <4> QED BY <1>2, <1>4, <4>1, ZenonT(60)
    <3>2. ~(done'[m][main] >= 4)
      BY <3>1
    <3>3. power'[m] # "halted" /\ letter' = letter
      BY <1>1
    <3> QED BY <2>0, <2>3, <3>1, <3>2, <3>3, Zenon
  <2> QED BY <2>2, <2>3, Zenon
<1> QED BY <1>1, <1>6, <1>7, RightStays, ZenonT(60) DEF TestInv

\* MailTest never gives the card a packet for a machine that has halted: that
\* machine had the acknowledgement, so the sender is through.
LEMMA NetworkTest ==
  ASSUME PInv, NEW far, NEW main, IsMailTest(program, far, main), TestInv(far, main),
         NEW m \in Machines, NEW t \in Users, SendNetwork(m, t)
  PROVE  /\ TestInv(far, main)'
         /\ NoAbort => NoAbort'
<1>1. /\ power[m] = "up" /\ Current(m, t)[1] \in {"send", "answer"} /\ at[m][t] = "network"
      /\ patient => \A n \in Machines : power[n] # "off"
      /\ NetworkSend(m, Outgoing(m, t)) /\ at' = [at EXCEPT ![m][t] = "sent"]
      /\ UNCHANGED <<patient, inbox, hand, boxes, done, letter>>
  BY Zenon DEF SendNetwork, Ready, setting, office
<1>2. /\ t = main
      /\ \/ done[m][main] = 0 /\ Current(m, t) = <<"send", far[m], 0, 1>>
         \/ done[m][main] = 2 /\ Current(m, t) = <<"answer", 1>>
  BY <1>1, TestCurrent
<1>3. /\ at \in [Machines -> [Users -> Places]] /\ socket \in [Machines -> Seq(Packets)]
      /\ power \in [Machines -> {"off", "up", "halted", "aborted"}]
  BY Zenon DEF PInv, TypeOK, Places
<1>4. /\ at'[m][main] = "sent"
      /\ \A n \in Machines : n # m => at'[n][main] = at[n][main]
  BY <1>1, <1>2, <1>3
<1>5. far[m] \in Machines /\ far[far[m]] = m /\ \A n \in Machines : far[n] \in Machines
  BY Zenon DEF IsMailTest
<1>6. ASSUME NEW n \in Machines PROVE Through(main, n) => Through(main, n)'
  <2>1. CASE n = m
    BY <1>1, <1>2, <2>1 DEF Through
  <2>2. CASE n # m
    BY <1>1, <1>4, <2>2, Zenon DEF Through
  <2> QED BY <2>1, <2>2, Zenon
<1>7. PICK x \in Packets : x = Outgoing(m, t)
  BY <1>1, OutgoingFacts, Zenon
<1>8. x.to = far[m] /\ x.from = m /\ x.reply = 1 /\ (x.box = 1 => done[m][main] = 2)
  <2>1. CASE done[m][main] = 0 /\ Current(m, t) = <<"send", far[m], 0, 1>>
    <3>1. /\ Current(m, t)[1] = "send" /\ Current(m, t)[2] = far[m]
          /\ Current(m, t)[3] = 0 /\ Current(m, t)[4] = 1
      BY <2>1
    <3>2. 0 # 1
      OBVIOUS
    <3> QED BY <1>7, <3>1, <3>2, Zenon DEF Outgoing
  <2>2. CASE done[m][main] = 2 /\ Current(m, t) = <<"answer", 1>>
    <3>1. letter[m][t].from = far[m] /\ letter[m][t].reply = 1
      BY <1>2, <2>2, Zenon DEF TestInv
    <3>2. Current(m, t)[1] # "send" /\ Current(m, t)[2] = 1
      BY <2>2
    <3> QED BY <1>7, <2>2, <3>1, <3>2 DEF Outgoing
  <2> QED BY <1>2, <2>1, <2>2, Zenon
<1>9. \A n \in Machines : /\ power'[n] = power[n] \/ power'[n] = "aborted"
                          /\ \/ socket'[n] = socket[n]
                             \/ n = far[m] /\ socket'[n] = Append(socket[n], x)
  <2>1. \/ UNCHANGED <<socket, power>>
        \/ socket' = [socket EXCEPT ![far[m]] = Append(@, x)] /\ UNCHANGED power
        \/ power' = [power EXCEPT ![m] = "aborted"] /\ UNCHANGED socket
    BY <1>1, <1>7, <1>8, Zenon DEF NetworkSend, SendToSocket
  <2>2. CASE UNCHANGED <<socket, power>>
    BY <2>2, Zenon
  <2>3. CASE socket' = [socket EXCEPT ![far[m]] = Append(@, x)] /\ UNCHANGED power
    BY <1>3, <1>5, <2>3, Zenon
  <2>4. CASE power' = [power EXCEPT ![m] = "aborted"] /\ UNCHANGED socket
    BY <1>3, <2>4, Zenon
  <2> QED BY <2>1, <2>2, <2>3, <2>4, Zenon
<1>10. x \in RightOnes(far, main, far[m])'
  <2>1. done[m][main] = 2 => Through(main, m)'
    BY <1>1, <1>4 DEF Through
  <2> QED BY <1>5, <1>8, <2>1, Zenon DEF RightOnes
<1>11. ASSUME NEW n \in Machines PROVE socket'[n] \in Seq(RightOnes(far, main, n)')
  <2> DEFINE R == RightOnes(far, main, n)'
  <2>1. socket[n] \in Seq(R)
    BY <1>6, RightStays, Zenon
  <2>2. n = far[m] => x \in R
    BY <1>10, Zenon
  <2> HIDE DEF R
  <2>3. CASE socket'[n] = socket[n]
    BY <2>1, <2>3, Zenon DEF R
  <2>4. CASE n = far[m] /\ socket'[n] = Append(socket[n], x)
    <3>1. socket'[n] \in Seq(R)
      BY <2>1, <2>2, <2>4
    <3> QED BY <3>1 DEF R
  <2> QED BY <1>9, <2>3, <2>4, Zenon
<1>12. ASSUME NEW n \in Machines
       PROVE  /\ done'[n][main] = 2 => letter'[n][main].from = far[n] /\ letter'[n][main].reply = 1
              /\ done'[n][main] >= 4 => Through(main, far[n])'
              /\ power'[n] = "halted" => done'[n][main] >= 4
  <2>1. power'[n] = "halted" => power[n] = "halted"
    BY <1>9
  <2> QED BY <1>1, <1>5, <1>6, <2>1, Zenon DEF TestInv
<1>13. TestInv(far, main)'
  BY <1>1, <1>6, <1>11, <1>12, RightStays, ZenonT(60) DEF TestInv
<1>14. ASSUME NoAbort PROVE NoAbort'
  <2>1. SUFFICES ASSUME patient PROVE \A n \in Machines : power'[n] # "aborted"
    BY <1>1, Zenon DEF NoAbort
  <2>2. \A n \in Machines : power[n] # "aborted" /\ power[n] # "off"
    BY <1>1, <1>14, <2>1, Zenon DEF NoAbort
  <2>3. ~Through(main, m)
    BY <1>1, <1>2 DEF Through
  <2>4. power[far[m]] # "halted"
    BY <1>5, <2>3, Zenon DEF TestInv
  <2>5. power[far[m]] = "up"
    BY <1>3, <1>5, <2>2, <2>4
  <2>6. power' = power
    BY <1>1, <1>7, <1>8, <2>5, Zenon DEF NetworkSend, SendToSocket
  <2> QED BY <2>2, <2>6, Zenon
<1> QED BY <1>13, <1>14, Zenon

\* MailTest receives the message, then the acknowledgement, which says that the
\* other machine is through.
LEMMA ReceiveTest ==
  ASSUME PInv, NEW far, NEW main, IsMailTest(program, far, main), TestInv(far, main),
         NEW m \in Machines, NEW t \in Users, Receive(m, t)
  PROVE  TestInv(far, main)'
<1>r. power[m] = "up" /\ Current(m, t)[1] \in {"receive"}
  BY Zenon DEF Receive, Ready
<1>k. Current(m, t) \in Operations
  BY <1>r, CurrentFacts, Zenon
<1>b. PICK b \in Boxes : b = Current(m, t)[2]
  BY <1>r, <1>k, OperationFacts, Zenon
<1>1. /\ boxes[m][b] # <<>>
      /\ letter' = [letter EXCEPT ![m][t] = Head(boxes[m][b])]
      /\ boxes' = [boxes EXCEPT ![m][b] = Tail(@)]
      /\ done' = [done EXCEPT ![m][t] = @ + 1]
      /\ UNCHANGED <<power, socket, inbox, hand, at>>
  BY <1>b, Zenon DEF Receive, card
<1>2. /\ t = main
      /\ \/ done[m][main] = 1 /\ b = 0
         \/ done[m][main] = 3 /\ b = 1
  BY <1>r, <1>b, TestCurrent
<1>3. /\ done \in [Machines -> [Users -> Nat]] /\ boxes \in [Machines -> [Boxes -> Seq(Packets)]]
      /\ letter \in [Machines -> [Users -> Packets \cup {None}]]
  BY Zenon DEF PInv, TypeOK
<1>4. /\ done'[m][main] = done[m][main] + 1 /\ letter'[m][main] = Head(boxes[m][b])
      /\ \A n \in Machines : n # m => done'[n][main] = done[n][main] /\ letter'[n][main] = letter[n][main]
  BY <1>1, <1>2, <1>3
<1>5. \A n \in Machines, c \in Boxes :
        boxes'[n][c] = IF n = m /\ c = b THEN Tail(boxes[m][b]) ELSE boxes[n][c]
  BY <1>1, <1>3
<1>6. ASSUME NEW n \in Machines PROVE Through(main, n) => Through(main, n)'
  <2>1. CASE n = m
    <3>1. ~(1 >= 3) /\ 1 # 2 /\ 3 + 1 >= 3
      OBVIOUS
    <3> QED BY <1>2, <1>4, <2>1, <3>1, ZenonT(60) DEF Through
  <2>2. CASE n # m
    BY <1>1, <1>4, <2>2, Zenon DEF Through
  <2> QED BY <2>1, <2>2, Zenon
<1>7. Head(boxes[m][b]) \in RightOnes(far, main, m) \cap For(b)
  <2> DEFINE R == RightOnes(far, main, m) \cap For(b)
  <2>1. boxes[m][b] \in Seq(R)
    BY Zenon DEF TestInv
  <2> HIDE DEF R
  <2>2. Head(boxes[m][b]) \in R
    BY <1>1, <2>1
  <2> QED BY <2>2 DEF R
<1>8. ASSUME NEW n \in Machines, NEW c \in Boxes
      PROVE  boxes'[n][c] \in Seq(RightOnes(far, main, n)' \cap For(c))
  <2> DEFINE R == RightOnes(far, main, n)' \cap For(c)
  <2>1. boxes[n][c] \in Seq(R)
    BY <1>6, RightStays, Zenon
  <2> HIDE DEF R
  <2>2. boxes[n][c] # <<>> => Tail(boxes[n][c]) \in Seq(R)
    BY <2>1
  <2>3. CASE n = m /\ c = b
    <3>1. boxes'[n][c] = Tail(boxes[n][c]) /\ boxes[n][c] # <<>>
      BY <1>1, <1>5, <2>3, Zenon
    <3> QED BY <2>2, <3>1, Zenon DEF R
  <2>4. CASE ~(n = m /\ c = b)
    <3>1. boxes'[n][c] = boxes[n][c]
      BY <1>5, <2>4, Zenon
    <3> QED BY <2>1, <3>1, Zenon DEF R
  <2> QED BY <2>3, <2>4, Zenon
<1>9. far[m] \in Machines /\ \A n \in Machines : far[n] \in Machines
  BY Zenon DEF IsMailTest
<1>10. ASSUME NEW n \in Machines
       PROVE  /\ done'[n][main] = 2 => letter'[n][main].from = far[n] /\ letter'[n][main].reply = 1
              /\ done'[n][main] >= 4 => Through(main, far[n])'
              /\ power'[n] = "halted" => done'[n][main] >= 4
  <2>1. CASE n # m
    BY <1>1, <1>4, <1>6, <1>9, <2>1, ZenonT(60) DEF TestInv
  <2>2. CASE n = m
    <3>1. letter'[m][main].from = far[m] /\ letter'[m][main].reply = 1
      BY <1>4, <1>7, Zenon DEF RightOnes
    <3>2. done'[m][main] >= 4 => b = 1
      BY <1>2, <1>4
    <3>3. b = 1 => Through(main, far[m])
      BY <1>7, Zenon DEF RightOnes, For
    <3>4. power'[m] # "halted"
      BY <1>r, <1>1
    <3> QED BY <1>6, <1>9, <2>2, <3>1, <3>2, <3>3, <3>4, Zenon
  <2> QED BY <2>1, <2>2, Zenon
<1> QED BY <1>1, <1>6, <1>8, <1>10, RightStays, ZenonT(60) DEF TestInv

\* A machine halts after its last operation, with nothing left on it.
LEMMA HaltTest ==
  ASSUME PInv, NEW far, NEW main, IsMailTest(program, far, main), TestInv(far, main),
         NEW m \in Machines, NEW t \in Users, Halt(m, t)
  PROVE  TestInv(far, main)'
<1>1. /\ Current(m, t)[1] \in {"halt"}
      /\ socket' = [socket EXCEPT ![m] = <<>>] /\ inbox' = [inbox EXCEPT ![m] = None]
      /\ hand' = [hand EXCEPT ![m] = None] /\ power' = [power EXCEPT ![m] = "halted"]
      /\ boxes' = [boxes EXCEPT ![m] = [b \in Boxes |-> <<>>]]
      /\ UNCHANGED <<at, done, letter>>
  BY Zenon DEF Halt, Ready, clients
<1>2. done[m][main] = 4
  BY <1>1, TestCurrent
<1>3. /\ socket \in [Machines -> Seq(Packets)] /\ inbox \in [Machines -> Packets \cup {None}]
      /\ hand \in [Machines -> Packets \cup {None}] /\ boxes \in [Machines -> [Boxes -> Seq(Packets)]]
      /\ power \in [Machines -> {"off", "up", "halted", "aborted"}]
  BY Zenon DEF PInv, TypeOK
<1>4. /\ socket'[m] = <<>> /\ inbox'[m] = None /\ hand'[m] = None /\ \A b \in Boxes : boxes'[m][b] = <<>>
      /\ \A n \in Machines : n # m => /\ socket'[n] = socket[n] /\ inbox'[n] = inbox[n]
                                      /\ hand'[n] = hand[n] /\ boxes'[n] = boxes[n] /\ power'[n] = power[n]
  BY <1>1, <1>3
<1>5. \A n \in Machines : /\ RightOnes(far, main, n)' = RightOnes(far, main, n)
                          /\ Through(main, far[n])' <=> Through(main, far[n])
  BY <1>1, Zenon DEF RightOnes, Through
<1>6. \A S : <<>> \in Seq(S)
  OBVIOUS
<1>7. done[m][main] >= 4
  BY <1>2
<1>8. ASSUME NEW n \in Machines
      PROVE  /\ socket'[n] \in Seq(RightOnes(far, main, n))
             /\ inbox'[n] \in RightOnes(far, main, n) \cup {None}
             /\ hand'[n] \in RightOnes(far, main, n) \cup {None}
             /\ \A b \in Boxes : boxes'[n][b] \in Seq(RightOnes(far, main, n) \cap For(b))
             /\ done[n][main] = 2 => letter[n][main].from = far[n] /\ letter[n][main].reply = 1
             /\ done[n][main] >= 4 => Through(main, far[n])
             /\ power'[n] = "halted" => done[n][main] >= 4
  <2>1. CASE n # m
    BY <1>4, <2>1, Zenon DEF TestInv
  <2>2. CASE n = m
    <3>1. /\ done[n][main] = 2 => letter[n][main].from = far[n] /\ letter[n][main].reply = 1
          /\ done[n][main] >= 4 => Through(main, far[n])
      BY Zenon DEF TestInv
    <3> QED BY <1>4, <1>6, <1>7, <2>2, <3>1, Zenon
  <2> QED BY <2>1, <2>2, Zenon
<1> QED BY <1>1, <1>5, <1>8, ZenonT(60) DEF TestInv

\* Programs that never halt leave every machine up.
LEMMA NeverHaltsKeeps ==
  ASSUME PInv, [Next]_vars, NeverHalts(program), \A m \in Machines : power[m] # "halted"
  PROVE  /\ \A m \in Machines : power'[m] # "halted"
         /\ NoAbort => NoAbort'
<1>1. power \in [Machines -> {"off", "up", "halted", "aborted"}]
  BY Zenon DEF PInv, TypeOK
<1>2. ASSUME NEW m \in Machines, NEW t \in Users PROVE ~Halt(m, t)
  <2>1. SUFFICES ASSUME Halt(m, t) PROVE FALSE
    BY Zenon
  <2>2. Current(m, t)[1] \in {"halt"}
    BY <2>1, Zenon DEF Halt, Ready
  <2>3. /\ done[m][t] \in 0 .. MaxOps - 1 /\ done[m][t] < Len(program[m][t])
        /\ Current(m, t) = program[m][t][done[m][t] + 1]
    BY <2>2, CurrentFacts, Zenon
  <2>4. program[m][t] \in Seq(Operations) /\ MaxOps \in Nat
    BY ProgramFacts, Zenon DEF PInv, TypeOK
  <2>5. done[m][t] + 1 \in 1 .. Len(program[m][t])
    <3>1. done[m][t] \in Nat
      BY Zenon DEF PInv, TypeOK
    <3> QED BY <2>3, <2>4, <3>1, NextIndex, Zenon
  <2> QED BY <2>2, <2>3, <2>5, Zenon DEF NeverHalts
<1>3. \A m \in Machines : power'[m] # "aborted" => power'[m] \in {power[m], "up"}
  <2>1. \/ power' = power
        \/ \E m \in Machines : power' = [power EXCEPT ![m] = "up"] \/ power' = [power EXCEPT ![m] = "aborted"]
    <3>1. CASE UNCHANGED vars
      BY <3>1, Zenon DEF vars
    <3>2. ASSUME NEW m \in Machines, Start(m) \/ Device(m) \/ WorkerStep(m)
          PROVE  power' = power \/ power' = [power EXCEPT ![m] = "up"]
      BY <3>2, Zenon DEF Start, Device, WorkerStep, CheckPktAvail, SendDone, WorkerWait, WorkerReceive, WorkerPut
    <3>3. ASSUME NEW m \in Machines, NEW t \in Users, ThreadStep(m, t), ~SendNetwork(m, t)
          PROVE  power' = power
      BY <1>2, <3>3, Zenon DEF ThreadStep, SendAcquire, SendWait, SendRelease, Receive
    <3>4. ASSUME NEW m \in Machines, NEW t \in Users, SendNetwork(m, t)
          PROVE  power' = power \/ power' = [power EXCEPT ![m] = "aborted"]
      BY <3>4, Zenon DEF SendNetwork, NetworkSend, SendToSocket
    <3> QED BY <3>1, <3>2, <3>3, <3>4, Zenon DEF Next
  <2> QED BY <1>1, <2>1
<1>4. \A m \in Machines : power'[m] # "halted"
  BY <1>3
<1>5. NoAbort => NoAbort'
  <2> SUFFICES ASSUME \E m \in Machines, t \in Users : SendNetwork(m, t), NoAbort
               PROVE  NoAbort'
    <3>1. CASE UNCHANGED vars
      BY <3>1, Zenon DEF vars, NoAbort
    <3>2. ASSUME NEW m \in Machines, Start(m) \/ Device(m) \/ WorkerStep(m) PROVE NoAbort => NoAbort'
      <4>1. patient' = patient /\ (power' = power \/ power' = [power EXCEPT ![m] = "up"])
        BY <3>2, Zenon DEF Start, Device, WorkerStep, CheckPktAvail, SendDone, WorkerWait, WorkerReceive,
                           WorkerPut, setting
      <4> QED BY <1>1, <4>1, Zenon DEF NoAbort
    <3>3. ASSUME NEW m \in Machines, NEW t \in Users, ThreadStep(m, t), ~SendNetwork(m, t)
          PROVE  NoAbort => NoAbort'
      <4>1. patient' = patient /\ power' = power
        BY <1>2, <3>3, Zenon DEF ThreadStep, SendAcquire, SendWait, SendRelease, Receive, setting
      <4> QED BY <4>1, Zenon DEF NoAbort
    <3> QED BY <3>1, <3>2, <3>3, Zenon DEF Next
  <2>1. PICK m \in Machines, t \in Users : SendNetwork(m, t)
    BY Zenon
  <2>2. /\ Current(m, t)[1] \in {"send", "answer"} /\ NetworkSend(m, Outgoing(m, t)) /\ patient' = patient
        /\ patient => \A n \in Machines : power[n] # "off"
    BY <2>1, Zenon DEF SendNetwork, Ready, setting
  <2>3. PICK x \in Packets : x = Outgoing(m, t)
    BY <2>2, OutgoingFacts, Zenon
  <2>4. x.to \in Machines
    BY DEF Packets
  <2>5. ASSUME patient PROVE power' = power
    <3>1. power[x.to] = "up"
      BY <1>1, <2>2, <2>4, <2>5 DEF NoAbort
    <3> QED BY <2>2, <2>3, <3>1, Zenon DEF NetworkSend, SendToSocket
  <2> QED BY <2>2, <2>5, Zenon DEF NoAbort
<1> QED BY <1>4, <1>5, Zenon

\* The machines start off, and MailTest has done nothing.
LEMMA AbortInvInit ==
  ASSUME \A p \in Programs :
           NeverHalts(p) \/ \E far \in [Machines -> Machines], main \in Users : IsMailTest(p, far, main),
         Init
  PROVE  AbortInv
<1>1. /\ program \in Programs /\ \A m \in Machines : power[m] = "off"
  BY Zenon DEF Init
<1>2. NoAbort
  BY <1>1 DEF NoAbort
<1>3. \A m \in Machines : power[m] # "halted"
  BY <1>1
<1>4. ASSUME NEW far \in [Machines -> Machines], NEW main \in Users PROVE TestInv(far, main)
  <2>1. \A m \in Machines : /\ socket[m] = <<>> /\ inbox[m] = None /\ hand[m] = None
                            /\ \A b \in Boxes : boxes[m][b] = <<>>
                            /\ done[m][main] = 0
    BY Zenon DEF Init
  <2>2. \A S : <<>> \in Seq(S)
    OBVIOUS
  <2>3. \A m \in Machines : done[m][main] # 2 /\ ~(done[m][main] >= 4)
    BY <2>1
  <2> QED BY <1>3, <2>1, <2>2, <2>3, Zenon DEF TestInv
<1> QED BY <1>1, <1>2, <1>3, <1>4, Zenon DEF AbortInv

\* Every step keeps it, whichever of the two kinds the program is of.
LEMMA AbortInvNext ==
  ASSUME PInv, AbortInv, [Next]_vars
  PROVE  AbortInv'
<1>1. program' = program
  <2>1. CASE UNCHANGED vars
    BY <2>1, Zenon DEF vars
  <2>2. ASSUME NEW m \in Machines, Start(m) \/ Device(m) \/ WorkerStep(m) PROVE program' = program
    BY <2>2, Zenon DEF Start, Device, WorkerStep, CheckPktAvail, SendDone, WorkerWait, WorkerReceive,
                       WorkerPut, setting
  <2>3. ASSUME NEW m \in Machines, NEW t \in Users, ThreadStep(m, t) PROVE program' = program
    BY <2>3, Zenon DEF ThreadStep, SendAcquire, SendNetwork, SendWait, SendRelease, Receive, Halt, setting
  <2> QED BY <2>1, <2>2, <2>3, Zenon DEF Next
<1>2. CASE NeverHalts(program) /\ \A m \in Machines : power[m] # "halted"
  <2>1. (\A m \in Machines : power'[m] # "halted") /\ NoAbort'
    BY <1>2, NeverHaltsKeeps, Zenon DEF AbortInv
  <2>2. NeverHalts(program')
    BY <1>1, <1>2, Zenon
  <2> QED BY <2>1, <2>2, Zenon DEF AbortInv
<1>3. CASE \E far \in [Machines -> Machines], main \in Users :
             IsMailTest(program, far, main) /\ TestInv(far, main)
  <2>1. PICK far \in [Machines -> Machines], main \in Users :
          IsMailTest(program, far, main) /\ TestInv(far, main)
    BY <1>3, Zenon
  <2>2. NoAbort
    BY Zenon DEF AbortInv
  <2>3. power \in [Machines -> {"off", "up", "halted", "aborted"}]
    BY Zenon DEF PInv, TypeOK
  <2>4. TestInv(far, main)' /\ NoAbort'
    <3>1. CASE UNCHANGED vars
      <4>1. UNCHANGED <<patient, power, socket, inbox, hand, boxes, at, done, letter>>
        BY <3>1, Zenon DEF vars
      <4>2. \A n \in Machines : RightOnes(far, main, n)' = RightOnes(far, main, n)
        BY <4>1, Zenon DEF RightOnes, Through
      <4> QED BY <2>1, <2>2, <4>1, <4>2, Zenon DEF NoAbort, TestInv, Through
    <3>2. ASSUME NEW m \in Machines, Start(m) \/ Device(m) \/ WorkerStep(m)
          PROVE  TestInv(far, main)' /\ NoAbort'
      <4>1. patient' = patient /\ (power' = power \/ power' = [power EXCEPT ![m] = "up"])
        BY <3>2, Zenon DEF Start, Device, WorkerStep, CheckPktAvail, SendDone, WorkerWait, WorkerReceive,
                           WorkerPut, setting
      <4>2. NoAbort'
        BY <2>2, <2>3, <4>1, Zenon DEF NoAbort
      <4> QED BY <2>1, <3>2, <4>2, MachineTest, Zenon
    <3>3. ASSUME NEW m \in Machines, NEW t \in Users,
                 SendAcquire(m, t) \/ SendWait(m, t) \/ SendRelease(m, t) \/ Receive(m, t) \/ Halt(m, t)
          PROVE  TestInv(far, main)' /\ NoAbort'
      <4>1. patient' = patient /\ (power' = power \/ power' = [power EXCEPT ![m] = "halted"])
        BY <3>3, Zenon DEF SendAcquire, SendWait, SendRelease, Receive, Halt, setting
      <4>2. NoAbort'
        BY <2>2, <2>3, <4>1 DEF NoAbort
      <4> QED BY <2>1, <3>3, <4>2, CallTest, ReceiveTest, HaltTest, Zenon
    <3>4. ASSUME NEW m \in Machines, NEW t \in Users, SendNetwork(m, t)
          PROVE  TestInv(far, main)' /\ NoAbort'
      BY <2>1, <2>2, <3>4, NetworkTest, Zenon
    <3> QED BY <3>1, <3>2, <3>3, <3>4, Zenon DEF Next, ThreadStep
  <2>5. IsMailTest(program, far, main)'
    BY <1>1, <2>1, Zenon DEF IsMailTest
  <2> QED BY <2>4, <2>5, Zenon DEF AbortInv
<1> QED BY <1>2, <1>3, Zenon DEF AbortInv

\* NoAbort for every number of machines, threads and boxes: when all threads
\* wait until every machine is up, no packet is sent to a machine that is not
\* there, which is what the assertion of SendToSocket needs.  The programs are
\* those that never halt a machine, and MailTest, which halts it when it has had
\* its acknowledgement.
THEOREM NobodyAborts ==
  ASSUME \A p \in Programs :
           NeverHalts(p) \/ \E far \in [Machines -> Machines], main \in Users : IsMailTest(p, far, main)
  PROVE  Spec => []NoAbort
<1>1. Init => PInv /\ AbortInv
  BY PInvInit, AbortInvInit, Zenon
<1>2. (PInv /\ AbortInv) /\ [Next]_vars => (PInv /\ AbortInv)'
  BY PInvNext, AbortInvNext, Zenon
<1>3. PInv /\ AbortInv => NoAbort
  BY Zenon DEF AbortInv
<1> QED BY <1>1, <1>2, <1>3, PTL DEF Spec
-----------------------------------------------------------------------------
(* The elements of a sequence that are in a set. *)

\* Sequences are equal when they have the same elements.
LEMMA SameSequence ==
  ASSUME NEW X, NEW p \in Seq(X), NEW q \in Seq(X),
         Len(p) = Len(q), \A i \in 1 .. Len(p) : p[i] = q[i]
  PROVE  p = q
OBVIOUS

\* An element that comes last is last of all.
LEMMA AppendLast ==
  \A X : \A p \in Seq(X), q \in Seq(X), x \in X : p \o Append(q, x) = Append(p \o q, x)
<1> SUFFICES ASSUME NEW X, NEW p \in Seq(X), NEW q \in Seq(X), NEW x \in X
             PROVE  p \o Append(q, x) = Append(p \o q, x)
  BY Zenon
<1> DEFINE a == p \o Append(q, x)
           c == Append(p \o q, x)
<1>1. a \in Seq(X) /\ c \in Seq(X) /\ Len(a) = Len(c)
  OBVIOUS
<1>2. \A i \in 1 .. Len(a) : a[i] = c[i]
  OBVIOUS
<1> HIDE DEF a, c
<1>3. a = c
  BY <1>1, <1>2, SameSequence, Zenon
<1> QED BY <1>3, Zenon DEF a, c

INSTANCE WellFoundedInduction

\* A set of natural numbers that is not empty has a least element.
LEMMA LeastNat ==
  ASSUME NEW T \in SUBSET Nat, T # {}
  PROVE  \E n \in T : \A k \in T : n <= k
<1> DEFINE R == OpToRel(<, Nat)
<1>1. IsWellFoundedOn(R, Nat)
  BY NatLessThanWellFounded
<1>2. \A x, y \in Nat : x < y => <<x, y>> \in R
  BY DEF OpToRel
<1> HIDE DEF R
<1>3. \E n \in T : \A k \in T : ~(<<k, n>> \in R)
  BY <1>1, WFMin, Zenon
<1>4. PICK n \in T : \A k \in T : ~(<<k, n>> \in R)
  BY <1>3
<1>5. \A k \in T : ~(k < n)
  BY <1>2, <1>4, Zenon
<1>6. \A k \in T : n <= k
  BY <1>5
<1> QED BY <1>6

\* Induction up to n, by the least number it fails for.  (The theorems of the
\* library take the property as an operator, which no prover here can use.)
LEMMA UpTo ==
  ASSUME NEW n \in Nat, NEW T, 0 \in T, \A k \in 0 .. n - 1 : k \in T => k + 1 \in T
  PROVE  \A k \in 0 .. n : k \in T
<1> DEFINE Bad == {k \in 0 .. n : k \notin T}
<1> SUFFICES ASSUME Bad # {} PROVE FALSE
  OBVIOUS
<1>1. Bad \in SUBSET Nat
  OBVIOUS
<1>2. PICK b \in Bad : \A k \in Bad : b <= k
  <2> HIDE DEF Bad
  <2> QED BY <1>1, LeastNat
<1>3. b \in 1 .. n /\ b \notin T /\ b - 1 \in 0 .. n - 1
  BY <1>2
<1>4. b - 1 \notin Bad
  BY <1>2, <1>3
<1> QED BY <1>3, <1>4

\* The function that Selected defines, by its equation.
Step(s, S, g, n) ==
  IF n = 0 THEN <<>> ELSE IF s[n] \in S THEN Append(g[n - 1], s[n]) ELSE g[n - 1]
Table(s, S) == CHOOSE g : g = [n \in 0 .. Len(s) |-> Step(s, S, g, n)]

\* Selected is the last entry of its table.
LEMMA SelectedDef == ASSUME NEW s, NEW S PROVE Selected(s, S) = Table(s, S)[Len(s)]
BY DEF Selected, Table, Step

\* The equation of the table has a solution, entry by entry.
LEMMA TableExists ==
  ASSUME NEW X, NEW s \in Seq(X), NEW S
  PROVE  \E g \in [0 .. Len(s) -> Seq(X)] : \A n \in 0 .. Len(s) : g[n] = Step(s, S, g, n)
<1> DEFINE Good(k) == \E g \in [0 .. k -> Seq(X)] : \A n \in 0 .. k : g[n] = Step(s, S, g, n)
           T == {k \in 0 .. Len(s) : Good(k)}
<1>1. 0 \in T
  <2> DEFINE h == [n \in 0 .. 0 |-> <<>>]
  <2>1. h \in [0 .. 0 -> Seq(X)]
    OBVIOUS
  <2>2. \A n \in 0 .. 0 : h[n] = <<>> /\ n = 0
    OBVIOUS
  <2>3. 0 \in 0 .. Len(s)
    OBVIOUS
  <2> HIDE DEF h
  <2>4. \A n \in 0 .. 0 : h[n] = Step(s, S, h, n)
    BY <2>2, Zenon DEF Step
  <2> QED BY <2>1, <2>3, <2>4, Zenon
<1>2. ASSUME NEW k \in 0 .. Len(s) - 1, k \in T PROVE k + 1 \in T
  <2>1. PICK g \in [0 .. k -> Seq(X)] : \A n \in 0 .. k : g[n] = Step(s, S, g, n)
    BY <1>2
  <2> DEFINE v == IF s[k + 1] \in S THEN Append(g[k], s[k + 1]) ELSE g[k]
             h == [n \in 0 .. k + 1 |-> IF n = k + 1 THEN v ELSE g[n]]
  <2>2. v \in Seq(X)
    BY <2>1
  <2>3. h \in [0 .. k + 1 -> Seq(X)]
    BY <2>2
  <2>4. ASSUME NEW n \in 0 .. k PROVE h[n] = Step(s, S, h, n)
    <3>1. h[n] = g[n] /\ g[n] = Step(s, S, g, n)
      BY <2>1
    <3>2. n # 0 => h[n - 1] = g[n - 1]
      OBVIOUS
    <3> QED BY <3>1, <3>2, Zenon DEF Step
  <2>5. h[k + 1] = Step(s, S, h, k + 1)
    <3>1. h[k + 1] = v /\ h[k] = g[k] /\ (k + 1) - 1 = k /\ k + 1 # 0
      OBVIOUS
    <3> HIDE DEF h
    <3> QED BY <3>1 DEF Step
  <2>6. \A n \in 0 .. k + 1 : n \in 0 .. k \/ n = k + 1
    OBVIOUS
  <2> HIDE DEF h
  <2>7. \A n \in 0 .. k + 1 : h[n] = Step(s, S, h, n)
    BY <2>4, <2>5, <2>6, Zenon
  <2>8. Good(k + 1)
    BY <2>3, <2>7, Zenon
  <2>9. k + 1 \in 0 .. Len(s)
    OBVIOUS
  <2> QED BY <2>8, <2>9, Zenon
<1>3. Len(s) \in Nat /\ Len(s) \in 0 .. Len(s)
  OBVIOUS
<1> HIDE DEF T
<1>4. \A k \in 0 .. Len(s) : k \in T
  BY <1>1, <1>2, <1>3, UpTo
<1> QED BY <1>3, <1>4, Zenon DEF T

\* So the table satisfies it.
LEMMA TableIs ==
  ASSUME NEW X, NEW s \in Seq(X), NEW S
  PROVE  /\ Table(s, S)[0] = <<>>
         /\ \A k \in 0 .. Len(s) - 1 :
              Table(s, S)[k + 1] = IF s[k + 1] \in S THEN Append(Table(s, S)[k], s[k + 1])
                                   ELSE Table(s, S)[k]
<1>1. PICK g \in [0 .. Len(s) -> Seq(X)] : \A n \in 0 .. Len(s) : g[n] = Step(s, S, g, n)
  BY TableExists, ZenonT(60)
<1>2. g = [n \in 0 .. Len(s) |-> Step(s, S, g, n)]
  BY <1>1, Zenon
<1>3. Table(s, S) = [n \in 0 .. Len(s) |-> Step(s, S, Table(s, S), n)]
  BY <1>2, Zenon DEF Table
<1>4. \A n \in 0 .. Len(s) : Table(s, S)[n] = Step(s, S, Table(s, S), n)
  BY <1>3, Zenon
<1>5. 0 \in 0 .. Len(s)
      /\ \A k \in 0 .. Len(s) - 1 : k + 1 \in 0 .. Len(s) /\ (k + 1) - 1 = k /\ k + 1 # 0
  OBVIOUS
<1> QED BY <1>4, <1>5, Zenon DEF Step

\* The entries are sequences over the same set.
LEMMA TableType ==
  ASSUME NEW X, NEW s \in Seq(X), NEW S
  PROVE  \A n \in 0 .. Len(s) : Table(s, S)[n] \in Seq(X)
<1> DEFINE t == Table(s, S)
           T == {k \in 0 .. Len(s) : t[k] \in Seq(X)}
<1>1. /\ t[0] = <<>>
      /\ \A k \in 0 .. Len(s) - 1 :
           t[k + 1] = IF s[k + 1] \in S THEN Append(t[k], s[k + 1]) ELSE t[k]
  BY TableIs
<1> HIDE DEF t
<1>2. 0 \in T
  <2>1. 0 \in 0 .. Len(s) /\ <<>> \in Seq(X)
    OBVIOUS
  <2> QED BY <1>1, <2>1, Zenon
<1>3. ASSUME NEW k \in 0 .. Len(s) - 1, k \in T PROVE k + 1 \in T
  <2>1. k + 1 \in 1 .. Len(s)
    OBVIOUS
  <2>2. t[k + 1] = IF s[k + 1] \in S THEN Append(t[k], s[k + 1]) ELSE t[k]
    BY <1>1
  <2>3. t[k] \in Seq(X) /\ s[k + 1] \in X
    BY <1>3, <2>1
  <2>4. t[k + 1] \in Seq(X)
    BY <2>2, <2>3
  <2> QED BY <2>1, <2>4
<1>4. Len(s) \in Nat
  OBVIOUS
<1> HIDE DEF T
<1>5. \A k \in 0 .. Len(s) : k \in T
  BY <1>2, <1>3, <1>4, UpTo
<1> QED BY <1>5 DEF T, t

\* One more element at the end is selected if it is in the set.
LEMMA SelectedAppend ==
  ASSUME NEW X, NEW s \in Seq(X), NEW x \in X, NEW S
  PROVE  Selected(Append(s, x), S) = IF x \in S THEN Append(Selected(s, S), x) ELSE Selected(s, S)
<1> DEFINE a == Append(s, x)
           t == Table(s, S)
           u == Table(a, S)
           T == {k \in 0 .. Len(s) : u[k] = t[k]}
<1>1. a \in Seq(X) /\ Len(a) = Len(s) + 1 /\ a[Len(s) + 1] = x /\ Len(s) \in Nat
      /\ \A n \in 1 .. Len(s) : a[n] = s[n]
  OBVIOUS
<1> HIDE DEF a
<1>2. /\ t[0] = <<>>
      /\ \A k \in 0 .. Len(s) - 1 :
           t[k + 1] = IF s[k + 1] \in S THEN Append(t[k], s[k + 1]) ELSE t[k]
  BY TableIs
<1>3. /\ u[0] = <<>>
      /\ \A k \in 0 .. Len(a) - 1 :
           u[k + 1] = IF a[k + 1] \in S THEN Append(u[k], a[k + 1]) ELSE u[k]
  BY <1>1, TableIs
<1>4. Selected(s, S) = t[Len(s)] /\ Selected(a, S) = u[Len(a)]
  BY SelectedDef
<1> HIDE DEF t, u
<1>5. 0 \in T
  BY <1>1, <1>2, <1>3
<1>6. ASSUME NEW k \in 0 .. Len(s) - 1, k \in T PROVE k + 1 \in T
  <2>1. k + 1 \in 1 .. Len(s) /\ k \in 0 .. Len(a) - 1
    BY <1>1
  <2>2. a[k + 1] = s[k + 1] /\ u[k] = t[k]
    BY <1>1, <1>6, <2>1
  <2>3. t[k + 1] = u[k + 1]
    BY <1>2, <1>3, <2>1, <2>2, Zenon
  <2> QED BY <2>1, <2>3
<1>7. u[Len(s)] = t[Len(s)]
  <2> HIDE DEF T
  <2>1. \A k \in 0 .. Len(s) : k \in T
    BY <1>1, <1>5, <1>6, UpTo, Zenon
  <2> QED BY <1>1, <2>1 DEF T
<1>8. u[Len(a)] = IF x \in S THEN Append(t[Len(s)], x) ELSE t[Len(s)]
  BY <1>1, <1>3, <1>7
<1> QED BY <1>4, <1>8 DEF a

\* So is the first element, before what is selected from the others.
LEMMA SelectedTail ==
  ASSUME NEW X, NEW s \in Seq(X), s # <<>>, NEW S
  PROVE  Selected(s, S) = IF Head(s) \in S THEN <<Head(s)>> \o Selected(Tail(s), S)
                          ELSE Selected(Tail(s), S)
<1> DEFINE r == Tail(s)
           t == Table(s, S)
           u == Table(r, S)
           pre == IF Head(s) \in S THEN <<Head(s)>> ELSE <<>>
           T == {k \in 0 .. Len(r) : t[k + 1] = pre \o u[k]}
<1>1. r \in Seq(X) /\ Len(s) = Len(r) + 1 /\ Len(r) \in Nat /\ Head(s) = s[1] /\ s[1] \in X
      /\ \A n \in 1 .. Len(r) : r[n] = s[n + 1] /\ r[n] \in X
  OBVIOUS
<1> HIDE DEF r
<1>2. /\ t[0] = <<>>
      /\ \A k \in 0 .. Len(s) - 1 :
           t[k + 1] = IF s[k + 1] \in S THEN Append(t[k], s[k + 1]) ELSE t[k]
  BY TableIs
<1>3. /\ u[0] = <<>>
      /\ \A k \in 0 .. Len(r) - 1 :
           u[k + 1] = IF r[k + 1] \in S THEN Append(u[k], r[k + 1]) ELSE u[k]
  BY <1>1, TableIs
<1>4. Selected(s, S) = t[Len(s)] /\ Selected(r, S) = u[Len(r)]
  BY SelectedDef
<1>5. \A n \in 0 .. Len(r) : u[n] \in Seq(X)
  BY <1>1, TableType
<1> HIDE DEF t, u
<1>6. pre \in Seq(X)
  BY <1>1
<1>7. t[0 + 1] = IF s[0 + 1] \in S THEN Append(t[0], s[0 + 1]) ELSE t[0]
  <2>1. 0 \in 0 .. Len(s) - 1
    BY <1>1
  <2> QED BY <1>2, <2>1, Zenon
<1>8. t[1] = IF s[1] \in S THEN <<s[1]>> ELSE <<>>
  BY <1>1, <1>2, <1>7
<1>9. t[1] = pre \o u[0]
  BY <1>1, <1>3, <1>8
<1> HIDE DEF pre
<1>10. 0 \in T
  BY <1>1, <1>9
<1>11. ASSUME NEW k \in 0 .. Len(r) - 1, k \in T PROVE k + 1 \in T
  <2>1. k + 1 \in 1 .. Len(r) /\ k + 1 \in 0 .. Len(s) - 1 /\ k \in 0 .. Len(r)
    BY <1>1
  <2> DEFINE j == k + 1
             x == r[j]
             w == u[k]
  <2>2. t[j] = pre \o w
    BY <1>11
  <2>3. x = s[j + 1] /\ x \in X /\ w \in Seq(X)
    BY <1>1, <1>5, <2>1
  <2>4. t[j + 1] = IF x \in S THEN Append(t[j], x) ELSE t[j]
    BY <1>2, <2>1, <2>3
  <2>5. u[j] = IF x \in S THEN Append(w, x) ELSE w
    BY <1>3
  <2>6. j \in 0 .. Len(r)
    BY <2>1
  <2> HIDE DEF j, x, w
  <2>7. Append(pre \o w, x) = pre \o Append(w, x)
    <3>1. pre \o Append(w, x) = Append(pre \o w, x)
      BY <1>6, <2>3, AppendLast, SMTT(60)
    <3> QED BY <3>1, Zenon
  <2>8. t[j + 1] = pre \o u[j]
    BY <2>2, <2>4, <2>5, <2>7, Zenon
  <2>9. j \in T
    BY <2>6, <2>8
  <2> QED BY <2>9 DEF j
<1>12. t[Len(r) + 1] = pre \o u[Len(r)]
  <2> HIDE DEF T
  <2>1. \A k \in 0 .. Len(r) : k \in T
    BY <1>1, <1>10, <1>11, UpTo, Zenon
  <2> QED BY <1>1, <2>1 DEF T
<1>13. Selected(s, S) = pre \o Selected(r, S) /\ Selected(r, S) \in Seq(X)
  BY <1>1, <1>4, <1>5, <1>12
<1> QED BY <1>13 DEF pre, r

\* What is selected is a sequence over the same set.
LEMMA SelectedType ==
  ASSUME NEW X, NEW s \in Seq(X), NEW S
  PROVE  Selected(s, S) \in Seq(X)
<1>1. Len(s) \in 0 .. Len(s)
  OBVIOUS
<1>2. Table(s, S)[Len(s)] \in Seq(X)
  BY <1>1, TableType
<1> QED BY <1>2, SelectedDef, Zenon

\* There is nothing to select from the empty sequence.
LEMMA SelectedEmpty ==
  ASSUME NEW X, NEW s \in Seq(X), s = <<>>, NEW S
  PROVE  Selected(s, S) = <<>>
<1>1. Len(s) = 0
  OBVIOUS
<1>2. Table(s, S)[0] = <<>>
  <2> DEFINE w == s
  <2>1. w \in Seq(X)
    OBVIOUS
  <2> HIDE DEF w
  <2>2. Table(w, S)[0] = <<>>
    BY <2>1, TableIs
  <2> QED BY <2>2 DEF w
<1> QED BY <1>1, <1>2, SelectedDef
-----------------------------------------------------------------------------
(* The post office implements MailService. *)

\* The first packet of a queue.
LEMMA FirstPacket == \A s \in Seq(Packets) : s # <<>> => Head(s) \in Packets
OBVIOUS

\* The first packet of the socket goes to the card.
LEMMA TakesFromSocket ==
  \A h \in Seq(Packets), s \in Seq(Packets) : s # <<>> => (h \o <<>>) \o s = (h \o <<Head(s)>>) \o Tail(s)
<1> SUFFICES ASSUME NEW h \in Seq(Packets), NEW s \in Seq(Packets), s # <<>>
             PROVE  (h \o <<>>) \o s = (h \o <<Head(s)>>) \o Tail(s)
  BY Zenon
<1> DEFINE a == (h \o <<>>) \o s
           c == (h \o <<Head(s)>>) \o Tail(s)
<1>1. a \in Seq(Packets) /\ c \in Seq(Packets) /\ Len(a) = Len(c)
  OBVIOUS
<1>2. \A i \in 1 .. Len(a) : a[i] = c[i]
  OBVIOUS
<1> HIDE DEF a, c
<1>3. a = c
  BY <1>1, <1>2, SameSequence, Zenon
<1> QED BY <1>3, Zenon DEF a, c

\* The packet of the card goes to the hand of the worker.
LEMMA CardToHand ==
  \A x \in Packets, s \in Seq(Packets) : (<<>> \o <<x>>) \o s = (<<x>> \o <<>>) \o s
<1> SUFFICES ASSUME NEW x \in Packets, NEW s \in Seq(Packets)
             PROVE  (<<>> \o <<x>>) \o s = (<<x>> \o <<>>) \o s
  BY Zenon
<1> DEFINE a == (<<>> \o <<x>>) \o s
           c == (<<x>> \o <<>>) \o s
<1>1. a \in Seq(Packets) /\ c \in Seq(Packets) /\ Len(a) = Len(c)
  OBVIOUS
<1>2. \A i \in 1 .. Len(a) : a[i] = c[i]
  OBVIOUS
<1> HIDE DEF a, c
<1>3. a = c
  BY <1>1, <1>2, SameSequence, Zenon
<1> QED BY <1>3, Zenon DEF a, c

\* The packet of the hand goes to the end of a box.
LEMMA HandToBox ==
  \A d \in Seq(Packets), x \in Packets, s \in Seq(Packets) : Append(d, x) \o s = d \o (<<x>> \o s)
<1> SUFFICES ASSUME NEW d \in Seq(Packets), NEW x \in Packets, NEW s \in Seq(Packets)
             PROVE  Append(d, x) \o s = d \o (<<x>> \o s)
  BY Zenon
<1> DEFINE a == Append(d, x) \o s
           c == d \o (<<x>> \o s)
<1>1. a \in Seq(Packets) /\ c \in Seq(Packets) /\ Len(a) = Len(c)
  OBVIOUS
<1>2. \A i \in 1 .. Len(a) : a[i] = c[i]
  OBVIOUS
<1> HIDE DEF a, c
<1>3. a = c
  BY <1>1, <1>2, SameSequence, Zenon
<1> QED BY <1>3, Zenon DEF a, c

\* A packet that comes last is last of all.
LEMMA AtTheEnd ==
  \A d \in Seq(Packets), s \in Seq(Packets), x \in Packets : d \o Append(s, x) = Append(d \o s, x)
BY AppendLast

\* A Receive takes the first packet of all.
LEMMA OutOfBox ==
  \A d \in Seq(Packets), s \in Seq(Packets) : d # <<>> => Tail(d) \o s = Tail(d \o s)
<1> SUFFICES ASSUME NEW d \in Seq(Packets), NEW s \in Seq(Packets), d # <<>>
             PROVE  Tail(d) \o s = Tail(d \o s)
  BY Zenon
<1> DEFINE a == Tail(d) \o s
           c == Tail(d \o s)
<1>1. a \in Seq(Packets) /\ c \in Seq(Packets) /\ Len(a) = Len(c)
  OBVIOUS
<1>2. \A i \in 1 .. Len(a) : a[i] = c[i]
  OBVIOUS
<1> HIDE DEF a, c
<1>3. a = c
  BY <1>1, <1>2, SameSequence, Zenon
<1> QED BY <1>3, Zenon DEF a, c

\* What is held, and what is pending, are sequences of packets.
LEMMA HeldFacts ==
  /\ Held(None) = <<>>
  /\ \A x \in Packets : Held(x) = <<x>>
  /\ \A x \in Packets \cup {None} : Held(x) \in Seq(Packets)
<1>1. Held(None) = <<>>
  BY Zenon DEF Held
<1>2. \A x \in Packets : Held(x) = <<x>>
  BY ProgramFacts, Zenon DEF Held
<1>3. <<>> \in Seq(Packets) /\ \A x \in Packets : <<x>> \in Seq(Packets)
  OBVIOUS
<1> QED BY <1>1, <1>2, <1>3, Zenon

\* The types of what is on its way to a box.
LEMMA PendingFacts ==
  ASSUME PInv, NEW m \in Machines
  PROVE  /\ Held(hand[m]) \in Seq(Packets) /\ Held(inbox[m]) \in Seq(Packets)
         /\ socket[m] \in Seq(Packets) /\ Pending(m) \in Seq(Packets)
         /\ \A b \in Boxes : /\ boxes[m][b] \in Seq(Packets)
                             /\ Selected(Pending(m), For(b)) \in Seq(Packets)
<1>1. /\ hand[m] \in Packets \cup {None} /\ inbox[m] \in Packets \cup {None}
      /\ socket[m] \in Seq(Packets) /\ \A b \in Boxes : boxes[m][b] \in Seq(Packets)
  BY DEF PInv, TypeOK
<1>2. Held(hand[m]) \in Seq(Packets) /\ Held(inbox[m]) \in Seq(Packets)
  BY <1>1, HeldFacts, Zenon
<1>3. Pending(m) \in Seq(Packets)
  <2>1. \A p, q \in Seq(Packets) : p \o q \in Seq(Packets)
    OBVIOUS
  <2> QED BY <1>1, <1>2, <2>1, Zenon DEF Pending
<1>4. \A b \in Boxes : Selected(Pending(m), For(b)) \in Seq(Packets)
  BY <1>3, SelectedType, Zenon
<1> QED BY <1>1, <1>2, <1>3, <1>4, Zenon

\* Where neither the box nor the way to it changes, nothing is in transit that
\* was not.
LEMMA SameTransit ==
  ASSUME NEW m \in Machines, NEW b \in Boxes,
         boxes'[m][b] = boxes[m][b], Pending(m)' = Pending(m)
  PROVE  InTransit(m, b)' = InTransit(m, b)
BY Zenon DEF InTransit

\* What is pending changes only with the socket, the card or the hand.
LEMMA SamePending ==
  ASSUME NEW m \in Machines, hand'[m] = hand[m], inbox'[m] = inbox[m], socket'[m] = socket[m]
  PROVE  Pending(m)' = Pending(m)
BY Zenon DEF Pending

\* The mail service sees what is in transit.
LEMMA MailIs == \A m \in Machines, b \in Boxes : Mail[m][b] = InTransit(m, b)
BY Zenon DEF Mail

\* The mail is the same when nothing enters or leaves the transit.
LEMMA MailStutters ==
  ASSUME \A m \in Machines, b \in Boxes : InTransit(m, b)' = InTransit(m, b)
  PROVE  Mail' = Mail
BY Zenon DEF Mail

\* The mail of one box changes with what is in transit to it.
LEMMA MailChanges ==
  ASSUME NEW m \in Machines, NEW b \in Boxes, NEW v, InTransit(m, b)' = v,
         \A n \in Machines, c \in Boxes : n # m \/ c # b => InTransit(n, c)' = InTransit(n, c)
  PROVE  Mail' = [Mail EXCEPT ![m][b] = v]
<1>1. Mail' = [n \in Machines |-> [c \in Boxes |-> IF n = m /\ c = b THEN v ELSE InTransit(n, c)]]
  BY ZenonT(60) DEF Mail
<1>2. Mail = [n \in Machines |-> [c \in Boxes |-> InTransit(n, c)]]
  BY DEF Mail
<1> QED BY <1>1, <1>2, Zenon

\* The steps of the machine move packets towards the boxes: the service stutters.
LEMMA MachineRefines ==
  ASSUME PInv, NEW m \in Machines, Start(m) \/ Device(m) \/ WorkerStep(m)
  PROVE  Mail' = Mail
<1>0. /\ socket \in [Machines -> Seq(Packets)]
      /\ inbox \in [Machines -> Packets \cup {None}] /\ hand \in [Machines -> Packets \cup {None}]
      /\ boxes \in [Machines -> [Boxes -> Seq(Packets)]]
      /\ None \notin Packets
  BY ProgramFacts, Zenon DEF PInv, TypeOK
<1>c. power[m] = "up" => /\ hand[m] # None <=> worker[m] = "put"
                         /\ worker[m] = "receive" => inbox[m] # None
  BY Zenon DEF PInv, CardInv
<1>1. CASE Start(m) \/ SendDone(m) \/ WorkerWait(m)
  <2>1. UNCHANGED <<socket, inbox, hand, boxes>>
    BY <1>1, Zenon DEF Start, SendDone, WorkerWait, card, office
  <2> QED BY <2>1, SamePending, SameTransit, MailStutters, Zenon
<1>2. CASE CheckPktAvail(m) \/ WorkerReceive(m)
  <2>1. /\ boxes' = boxes
        /\ \A n \in Machines \ {m} : hand'[n] = hand[n] /\ inbox'[n] = inbox[n] /\ socket'[n] = socket[n]
    BY <1>0, <1>2, ZenonT(60) DEF CheckPktAvail, WorkerReceive
  <2>2. ASSUME CheckPktAvail(m) PROVE Pending(m)' = Pending(m)
    <3>1. /\ inbox[m] = None /\ socket[m] # <<>> /\ hand'[m] = hand[m]
          /\ inbox'[m] = Head(socket[m]) /\ socket'[m] = Tail(socket[m])
      BY <1>0, <2>2, ZenonT(60) DEF CheckPktAvail
    <3> DEFINE s == socket[m]
               h == Held(hand[m])
    <3>2. s \in Seq(Packets) /\ h \in Seq(Packets) /\ s # <<>>
      BY <3>1, PendingFacts, Zenon
    <3>3. Head(s) \in Packets
      BY <3>2, FirstPacket, Zenon
    <3>4. Pending(m) = (h \o <<>>) \o s /\ Pending(m)' = (h \o <<Head(s)>>) \o Tail(s)
      BY <3>1, <3>3, HeldFacts, Zenon DEF Pending
    <3> HIDE DEF s, h
    <3> QED BY <3>2, <3>4, TakesFromSocket, Zenon
  <2>3. ASSUME WorkerReceive(m) PROVE Pending(m)' = Pending(m)
    <3>1. /\ hand[m] = None /\ inbox[m] \in Packets /\ socket'[m] = socket[m]
          /\ hand'[m] = inbox[m] /\ inbox'[m] = None
      <4>1. power[m] = "up" /\ worker[m] = "receive" /\ hand' = [hand EXCEPT ![m] = inbox[m]]
            /\ inbox' = [inbox EXCEPT ![m] = None] /\ socket' = socket
        BY <2>3, Zenon DEF WorkerReceive
      <4> QED BY <1>0, <1>c, <4>1
    <3> DEFINE s == socket[m]
               x == inbox[m]
    <3>2. Pending(m) = (<<>> \o <<x>>) \o s /\ Pending(m)' = (<<x>> \o <<>>) \o s
      BY <3>1, HeldFacts, Zenon DEF Pending
    <3>3. s \in Seq(Packets) /\ x \in Packets
      BY <3>1, PendingFacts, Zenon
    <3> HIDE DEF s, x
    <3> QED BY <3>2, <3>3, CardToHand, ZenonT(60)
  <2>4. Pending(m)' = Pending(m)
    BY <1>2, <2>2, <2>3, Zenon
  <2> QED BY <2>1, <2>4, SamePending, SameTransit, MailStutters, ZenonT(60)
<1>3. CASE WorkerPut(m)
  <2>1. /\ hand[m] \in Packets /\ boxes' = [boxes EXCEPT ![m][hand[m].box] = Append(@, hand[m])]
        /\ hand' = [hand EXCEPT ![m] = None] /\ UNCHANGED <<socket, inbox>>
    <3>1. power[m] = "up" /\ worker[m] = "put" /\ hand' = [hand EXCEPT ![m] = None]
          /\ boxes' = [boxes EXCEPT ![m][hand[m].box] = Append(@, hand[m])]
          /\ UNCHANGED <<socket, inbox>>
      BY <1>3, Zenon DEF WorkerPut, card
    <3> QED BY <1>0, <1>c, <3>1
  <2> DEFINE x == hand[m]
             i == Held(inbox[m])
             s == socket[m]
             w == (<<x>> \o i) \o s
             rest == (<<>> \o i) \o s
  <2>2. x \in Packets /\ x.box \in Boxes
    BY <2>1 DEF Packets
  <2>3. i \in Seq(Packets) /\ s \in Seq(Packets)
    BY PendingFacts, Zenon
  <2>4. Pending(m) = w /\ Pending(m)' = rest
    <3>1. hand'[m] = None /\ inbox'[m] = inbox[m] /\ socket'[m] = socket[m]
      BY <1>0, <2>1
    <3> QED BY <2>2, <3>1, HeldFacts, Zenon DEF Pending
  <2>5. \A n \in Machines \ {m} : /\ hand'[n] = hand[n] /\ inbox'[n] = inbox[n] /\ socket'[n] = socket[n]
                                  /\ \A b \in Boxes : boxes'[n][b] = boxes[n][b]
    BY <1>0, <2>1
  <2>6. /\ boxes'[m][x.box] = Append(boxes[m][x.box], x)
        /\ \A b \in Boxes : b # x.box => boxes'[m][b] = boxes[m][b]
    BY <1>0, <2>1, <2>2
  <2> HIDE DEF x, i, s
  <2>7. /\ w \in Seq(Packets) /\ w # <<>>
        /\ Head(w) = x /\ Tail(w) = rest /\ rest \in Seq(Packets)
    <3>1. /\ w \in Seq(Packets) /\ Len(w) = 1 + Len(i) + Len(s) /\ Head(w) = x /\ w # <<>>
          /\ rest \in Seq(Packets)
      BY <2>2, <2>3
    <3>2. Tail(w) \in Seq(Packets) /\ Len(Tail(w)) = Len(rest)
      BY <2>2, <2>3
    <3>3. \A k \in 1 .. Len(rest) : Tail(w)[k] = rest[k]
      BY <2>2, <2>3
    <3>4. Tail(w) = rest
      <4> HIDE DEF w, rest
      <4> QED BY <3>1, <3>2, <3>3
    <3> QED BY <3>1, <3>4
  <2> HIDE DEF w, rest
  <2>8. ASSUME NEW S
        PROVE  Selected(w, S) = IF x \in S THEN <<x>> \o Selected(rest, S) ELSE Selected(rest, S)
    <3>1. Selected(w, S) = IF Head(w) \in S THEN <<Head(w)>> \o Selected(Tail(w), S)
                           ELSE Selected(Tail(w), S)
      BY <2>7, SelectedTail
    <3> QED BY <2>7, <3>1, Zenon
  <2>9. ASSUME NEW b \in Boxes PROVE InTransit(m, b)' = InTransit(m, b)
    <3>1. /\ x \in For(b) <=> b = x.box
          /\ boxes[m][b] \in Seq(Packets) /\ Selected(rest, For(b)) \in Seq(Packets)
      BY <2>2, <2>7, PendingFacts, SelectedType, Zenon DEF For
    <3>2. InTransit(m, b)' = boxes'[m][b] \o Selected(rest, For(b))
      BY <2>4, Zenon DEF InTransit
    <3>3. InTransit(m, b) = boxes[m][b] \o (IF b = x.box THEN <<x>> \o Selected(rest, For(b))
                                            ELSE Selected(rest, For(b)))
      BY <2>4, <2>8, <3>1, Zenon DEF InTransit
    <3>4. CASE b = x.box
      <4> DEFINE d == boxes[m][b]
                 r == Selected(rest, For(b))
      <4>1. /\ d \in Seq(Packets) /\ r \in Seq(Packets)
            /\ InTransit(m, b)' = Append(d, x) \o r /\ InTransit(m, b) = d \o (<<x>> \o r)
        BY <2>6, <3>1, <3>2, <3>3, <3>4, Zenon
      <4> HIDE DEF d, r
      <4> QED BY <2>2, <4>1, HandToBox, Zenon
    <3>5. CASE b # x.box
      BY <2>6, <3>2, <3>3, <3>5, Zenon
    <3> QED BY <3>4, <3>5, Zenon
  <2> QED BY <2>5, <2>9, SamePending, SameTransit, MailStutters, ZenonT(60)
<1> QED BY <1>1, <1>2, <1>3, Zenon DEF Device, WorkerStep

\* A packet that reaches the socket of its destination is the last of its box
\* there.
LEMMA SocketRefines ==
  ASSUME PInv, NEW x \in Packets,
         socket' = [socket EXCEPT ![x.to] = Append(@, x)], UNCHANGED <<inbox, hand, boxes>>
  PROVE  Service!Send(x.to, x.box, x)
<1> DEFINE n == x.to
           b == x.box
<1>1. n \in Machines /\ b \in Boxes /\ \A c \in Boxes : x \in For(c) <=> c = b
  BY DEF Packets, For
<1>2. /\ socket'[n] = Append(socket[n], x)
      /\ \A k \in Machines \ {n} : socket'[k] = socket[k]
  <2>1. socket \in [Machines -> Seq(Packets)]
    BY Zenon DEF PInv, TypeOK
  <2> QED BY <1>1, <2>1, Zenon
<1> HIDE DEF n, b
<1> DEFINE w == Pending(n)
<1>3. w \in Seq(Packets) /\ \A c \in Boxes : /\ boxes[n][c] \in Seq(Packets)
                                             /\ Selected(w, For(c)) \in Seq(Packets)
  BY <1>1, PendingFacts, Zenon
<1>4. Pending(n)' = Append(w, x)
  <2> DEFINE d == Held(hand[n]) \o Held(inbox[n])
             s == socket[n]
  <2>1. d \in Seq(Packets) /\ s \in Seq(Packets)
    <3>1. Held(hand[n]) \in Seq(Packets) /\ Held(inbox[n]) \in Seq(Packets) /\ socket[n] \in Seq(Packets)
      BY <1>1, PendingFacts, Zenon
    <3> QED BY <3>1
  <2>2. Pending(n)' = d \o Append(s, x) /\ w = d \o s
    BY <1>2, Zenon DEF Pending
  <2> HIDE DEF d, s, w
  <2> QED BY <2>1, <2>2, AtTheEnd, Zenon
<1> HIDE DEF w
<1>5. ASSUME NEW c \in Boxes
      PROVE  InTransit(n, c)' = IF c = b THEN Append(InTransit(n, c), x) ELSE InTransit(n, c)
  <2> DEFINE d == boxes[n][c]
             r == Selected(w, For(c))
             a == Append(w, x)
  <2>1. Selected(a, For(c)) = IF x \in For(c) THEN Append(r, x) ELSE r
    BY <1>3, SelectedAppend, Zenon
  <2> HIDE DEF a
  <2>2. InTransit(n, c)' = d \o Selected(a, For(c)) /\ InTransit(n, c) = d \o r
    BY <1>4, Zenon DEF InTransit, w, a
  <2>3. d \in Seq(Packets) /\ r \in Seq(Packets)
    BY <1>3, Zenon
  <2> HIDE DEF d, r
  <2>4. d \o Append(r, x) = Append(d \o r, x)
    BY <2>3, AtTheEnd, Zenon
  <2> QED BY <1>1, <2>1, <2>2, <2>4, Zenon
<1>6. \A k \in Machines, c \in Boxes : k # n \/ c # b => InTransit(k, c)' = InTransit(k, c)
  <2>1. \A k \in Machines : k # n => Pending(k)' = Pending(k)
    BY <1>2, SamePending, Zenon
  <2>2. \A k \in Machines, c \in Boxes : k # n => InTransit(k, c)' = InTransit(k, c)
    BY <2>1, SameTransit, Zenon
  <2> QED BY <1>5, <2>2, Zenon
<1>7. Mail' = [Mail EXCEPT ![n][b] = Append(InTransit(n, b), x)]
  <2> DEFINE v == Append(InTransit(n, b), x)
  <2>1. InTransit(n, b)' = v
    BY <1>1, <1>5, Zenon
  <2> HIDE DEF v
  <2>2. Mail' = [Mail EXCEPT ![n][b] = v]
    BY <1>1, <1>6, <2>1, MailChanges
  <2> QED BY <2>2 DEF v
<1>8. Mail[n][b] = InTransit(n, b)
  BY <1>1, MailIs, Zenon
<1> QED BY <1>7, <1>8, Zenon DEF Service!Send, n, b

\* A Receive takes the first message in transit to its box.
LEMMA ReceiveRefines ==
  ASSUME PInv, NEW m \in Machines, NEW t \in Users, Receive(m, t)
  PROVE  \E b \in Boxes : Service!Receive(m, b)
<1>r. Current(m, t)[1] \in {"receive"}
  BY Zenon DEF Receive, Ready
<1>2. Current(m, t) \in Operations
  BY <1>r, CurrentFacts, Zenon
<1>3. Current(m, t)[2] \in Boxes
  BY <1>r, <1>2, OperationFacts, Zenon
<1>b. PICK b \in Boxes : b = Current(m, t)[2]
  BY <1>3, Zenon
<1>1. /\ boxes[m][b] # <<>>
      /\ boxes' = [boxes EXCEPT ![m][b] = Tail(@)]
      /\ UNCHANGED <<socket, inbox, hand>>
  BY <1>b, Zenon DEF Receive, card
<1>4. /\ boxes'[m][b] = Tail(boxes[m][b])
      /\ \A n \in Machines, c \in Boxes : n # m \/ c # b => boxes'[n][c] = boxes[n][c]
  <2>1. boxes \in [Machines -> [Boxes -> Seq(Packets)]]
    BY Zenon DEF PInv, TypeOK
  <2> QED BY <1>1, <2>1
<1>5. \A n \in Machines : Pending(n)' = Pending(n)
  BY <1>1, SamePending, Zenon
<1>6. InTransit(m, b) # <<>> /\ InTransit(m, b)' = Tail(InTransit(m, b))
  <2> DEFINE d == boxes[m][b]
             r == Selected(Pending(m), For(b))
  <2>1. d \in Seq(Packets) /\ r \in Seq(Packets) /\ d # <<>>
    BY <1>1, PendingFacts, Zenon
  <2>2. InTransit(m, b) = d \o r /\ InTransit(m, b)' = Tail(d) \o r
    BY <1>4, <1>5, Zenon DEF InTransit
  <2> HIDE DEF d, r
  <2>3. d \o r # <<>>
    BY <2>1
  <2> QED BY <2>1, <2>2, <2>3, OutOfBox, Zenon
<1>7. \A n \in Machines, c \in Boxes : n # m \/ c # b => InTransit(n, c)' = InTransit(n, c)
  BY <1>4, <1>5, SameTransit, Zenon
<1>8. Mail' = [Mail EXCEPT ![m][b] = Tail(InTransit(m, b))]
  <2> DEFINE v == Tail(InTransit(m, b))
  <2>1. InTransit(m, b)' = v
    BY <1>6, Zenon
  <2> HIDE DEF v
  <2>2. Mail' = [Mail EXCEPT ![m][b] = v]
    BY <1>7, <2>1, MailChanges
  <2> QED BY <2>2 DEF v
<1>9. Mail[m][b] = InTransit(m, b)
  BY MailIs, Zenon
<1> QED BY <1>6, <1>8, <1>9, Zenon DEF Service!Receive

\* A machine that halts loses what was in transit to it.
LEMMA HaltRefines ==
  ASSUME PInv, NEW m \in Machines, NEW t \in Users, Halt(m, t)
  PROVE  Service!Halt(m)
<1>1. /\ socket' = [socket EXCEPT ![m] = <<>>] /\ inbox' = [inbox EXCEPT ![m] = None]
      /\ hand' = [hand EXCEPT ![m] = None]
      /\ boxes' = [boxes EXCEPT ![m] = [b \in Boxes |-> <<>>]]
  BY Zenon DEF Halt
<1>2. /\ socket \in [Machines -> Seq(Packets)] /\ inbox \in [Machines -> Packets \cup {None}]
      /\ hand \in [Machines -> Packets \cup {None}] /\ boxes \in [Machines -> [Boxes -> Seq(Packets)]]
  BY Zenon DEF PInv, TypeOK
<1>3. /\ socket'[m] = <<>> /\ inbox'[m] = None /\ hand'[m] = None /\ \A b \in Boxes : boxes'[m][b] = <<>>
      /\ \A n \in Machines : n # m => /\ socket'[n] = socket[n] /\ inbox'[n] = inbox[n]
                                      /\ hand'[n] = hand[n] /\ boxes'[n] = boxes[n]
  BY <1>1, <1>2
<1>4. ASSUME NEW b \in Boxes PROVE InTransit(m, b)' = <<>>
  <2> DEFINE w == (<<>> \o <<>>) \o <<>>
  <2>1. w \in Seq(Packets) /\ w = <<>>
    OBVIOUS
  <2>2. Pending(m)' = w
    BY <1>3, HeldFacts, Zenon DEF Pending
  <2> HIDE DEF w
  <2>3. Selected(w, For(b)) = <<>>
    BY <2>1, SelectedEmpty, Zenon
  <2>4. InTransit(m, b)' = <<>> \o <<>>
    BY <1>3, <2>2, <2>3, Zenon DEF InTransit
  <2> QED BY <2>4
<1>5. \A n \in Machines, b \in Boxes : n # m => InTransit(n, b)' = InTransit(n, b)
  <2>1. \A n \in Machines : n # m => Pending(n)' = Pending(n)
    BY <1>3, SamePending, Zenon
  <2> QED BY <1>3, <2>1, SameTransit, Zenon
<1>6. Mail' = [n \in Machines |-> IF n = m THEN [b \in Boxes |-> <<>>] ELSE [b \in Boxes |-> InTransit(n, b)]]
  BY <1>4, <1>5, ZenonT(60) DEF Mail
<1>7. Mail = [n \in Machines |-> [b \in Boxes |-> InTransit(n, b)]]
  BY DEF Mail
<1>8. Mail' = [Mail EXCEPT ![m] = [b \in Boxes |-> <<>>]]
  BY <1>6, <1>7
<1> QED BY <1>8, Zenon DEF Service!Halt

\* A step of a thread is one of the mail service, or changes no mail.
LEMMA ThreadRefines ==
  ASSUME PInv, NEW m \in Machines, NEW t \in Users, ThreadStep(m, t)
  PROVE  Service!MailNext \/ Mail' = Mail
<1>1. CASE SendAcquire(m, t) \/ SendWait(m, t) \/ SendRelease(m, t)
  <2>1. UNCHANGED <<socket, inbox, hand, boxes>>
    BY <1>1, Zenon DEF SendAcquire, SendWait, SendRelease, card
  <2> QED BY <2>1, SamePending, SameTransit, MailStutters, Zenon
<1>2. CASE SendNetwork(m, t)
  <2>1. /\ NetworkSend(m, Outgoing(m, t)) /\ Current(m, t)[1] \in {"send", "answer"}
        /\ UNCHANGED <<inbox, hand, boxes>>
    BY <1>2, Zenon DEF SendNetwork, Ready, office
  <2>2. PICK x \in Packets : x = Outgoing(m, t)
    BY <2>1, OutgoingFacts, Zenon
  <2>3. \/ socket' = socket
        \/ socket' = [socket EXCEPT ![x.to] = Append(@, x)]
    BY <2>1, <2>2, Zenon DEF NetworkSend, SendToSocket
  <2>4. CASE socket' = socket
    BY <2>1, <2>4, SamePending, SameTransit, MailStutters, Zenon
  <2>5. CASE socket' = [socket EXCEPT ![x.to] = Append(@, x)]
    <3>1. Service!Send(x.to, x.box, x)
      BY <2>1, <2>5, SocketRefines, Zenon
    <3>2. x.to \in Machines /\ x.box \in Boxes
      BY DEF Packets
    <3> QED BY <3>1, <3>2, Zenon DEF Service!MailNext
  <2> QED BY <2>3, <2>4, <2>5, Zenon
<1>3. CASE Receive(m, t)
  BY <1>3, ReceiveRefines, Zenon DEF Service!MailNext
<1>4. CASE Halt(m, t)
  BY <1>4, HaltRefines, Zenon DEF Service!MailNext
<1> QED BY <1>1, <1>2, <1>3, <1>4, Zenon DEF ThreadStep

\* No mail is in transit when the machines are off.
LEMMA InitRefines == Init => Service!MailInit
<1> SUFFICES ASSUME Init PROVE Service!MailInit
  OBVIOUS
<1>1. ASSUME NEW m \in Machines, NEW b \in Boxes PROVE InTransit(m, b) = <<>>
  <2> DEFINE w == (<<>> \o <<>>) \o <<>>
  <2>1. w \in Seq(Packets) /\ w = <<>>
    OBVIOUS
  <2>2. Pending(m) = w /\ boxes[m][b] = <<>>
    <3>1. hand[m] = None /\ inbox[m] = None /\ socket[m] = <<>> /\ boxes[m][b] = <<>>
      BY Zenon DEF Init
    <3> QED BY <3>1, HeldFacts, Zenon DEF Pending
  <2> HIDE DEF w
  <2>3. Selected(w, For(b)) = <<>>
    BY <2>1, SelectedEmpty, Zenon
  <2>4. InTransit(m, b) = <<>> \o <<>>
    BY <2>2, <2>3, Zenon DEF InTransit
  <2> QED BY <2>4
<1> QED BY <1>1, Zenon DEF Service!MailInit, Mail

\* So is every step.
LEMMA NextRefines == PInv /\ [Next]_vars => [Service!MailNext]_Mail
<1> SUFFICES ASSUME PInv, [Next]_vars PROVE Service!MailNext \/ Mail' = Mail
  BY Zenon
<1>1. CASE UNCHANGED vars
  <2>1. UNCHANGED <<socket, inbox, hand, boxes>>
    BY <1>1, Zenon DEF vars
  <2> QED BY <2>1, SamePending, SameTransit, MailStutters, Zenon
<1>2. CASE Next
  BY <1>2, MachineRefines, ThreadRefines, Zenon DEF Next
<1> QED BY <1>1, <1>2, Zenon

\* The post office implements MailService: from the network to the mailboxes,
\* through the socket, the card and the worker, a machine that does not halt
\* loses no packet, and none is duplicated, put in another box or overtaken by
\* one for the same box, for every number of machines, threads and boxes and
\* every program.
THEOREM PostOfficeRefines == Spec => RefinesMailService
<1>1. Init => PInv
  BY PInvInit
<1>2. PInv /\ [Next]_vars => PInv'
  BY PInvNext
<1> QED BY <1>1, <1>2, InitRefines, NextRefines, PTL DEF Spec, RefinesMailService, Service!MailSpec
-----------------------------------------------------------------------------
(* The console. *)

\* The character in the buffer of the device.
Buffered == IF incoming = EOF THEN <<>> ELSE <<incoming>>

\* The types of the console.
ConsoleTypes ==
  /\ script \in Seq(Chars) /\ read \in Seq(Chars) /\ echo \in Seq(Chars)
  /\ incoming \in Chars /\ ch \in Chars
  /\ putBusy \in BOOLEAN
  /\ readAvail \in Nat /\ writeDone \in Nat
  /\ line \in {"wait", "echo", "done", "returned", "abort"}

\* The strengthening of EchoFaithful that is inductive: the characters read
\* are those echoed and then the one in the buffer, and a V of writeDone is to
\* come exactly while ConsoleTest waits for it.
EchoInv ==
  /\ ConsoleTypes
  /\ Len(echo) + readAvail + (IF line = "echo" THEN 1 ELSE 0) = Len(read) \/ line = "abort"
  /\ Proper(read) = Proper(echo) \o Buffered
  /\ line \in {"wait", "echo", "returned"} => ~putBusy /\ writeDone = 0
  /\ line = "done" => \/ putBusy /\ writeDone = 0
                      \/ ~putBusy /\ writeDone = 1

\* EOF is a character.
LEMMA EOFFact == EOF \in Chars
BY Zenon DEF Chars

\* One more character that is not EOF, and one that is.
LEMMA ProperAppend ==
  ASSUME NEW s \in Seq(Chars), NEW c \in Chars
  PROVE  Proper(Append(s, c)) = IF c = EOF THEN Proper(s) ELSE Append(Proper(s), c)
<1>1. Selected(Append(s, c), Chars \ {EOF})
        = IF c \in Chars \ {EOF} THEN Append(Selected(s, Chars \ {EOF}), c)
          ELSE Selected(s, Chars \ {EOF})
  BY SelectedAppend
<1>2. c \in Chars \ {EOF} <=> c # EOF
  OBVIOUS
<1> QED BY <1>1, <1>2, Zenon DEF Proper

\* Without its EOFs, a sequence of characters is one still.
LEMMA ProperType == ASSUME NEW s \in Seq(Chars) PROVE Proper(s) \in Seq(Chars)
BY SelectedType DEF Proper

\* What a sequence is appended to is a beginning of the result.
LEMMA Beginning ==
  \A p, q \in Seq(Chars) : \E n \in 0 .. Len(p \o q) : p = SubSeq(p \o q, 1, n)
<1> SUFFICES ASSUME NEW p \in Seq(Chars), NEW q \in Seq(Chars)
             PROVE  \E n \in 0 .. Len(p \o q) : p = SubSeq(p \o q, 1, n)
  OBVIOUS
<1>1. Len(p) \in 0 .. Len(p \o q)
  OBVIOUS
<1>2. p = SubSeq(p \o q, 1, Len(p))
  OBVIOUS
<1> QED BY <1>1, <1>2, Zenon

\* EchoInv is strong enough.
LEMMA EchoImplies == EchoInv => EchoFaithful
<1> SUFFICES ASSUME EchoInv PROVE EchoFaithful
  OBVIOUS
<1>1. Buffered \in Seq(Chars)
  BY DEF Buffered, EchoInv, ConsoleTypes
<1>2. Proper(echo) \in Seq(Chars)
  BY ProperType DEF EchoInv, ConsoleTypes
<1>3. \E n \in 0 .. Len(Proper(echo) \o Buffered) :
        Proper(echo) = SubSeq(Proper(echo) \o Buffered, 1, n)
  BY <1>1, <1>2, Beginning, Zenon
<1>4. \E n \in 0 .. Len(Proper(read)) : Proper(echo) = SubSeq(Proper(read), 1, n)
  BY <1>3, Zenon DEF EchoInv
<1> QED BY <1>4, Zenon DEF EchoInv, EchoFaithful

\* Nothing is read, echoed or buffered at first.
LEMMA EchoInvInit == ConsoleInit => EchoInv
<1> SUFFICES ASSUME ConsoleInit PROVE EchoInv
  OBVIOUS
<1>1. script \in Seq(Chars)
  <2>1. PICK n \in 0 .. MaxTyped : script \in [1 .. n -> Chars]
    BY Zenon DEF ConsoleInit
  <2>2. n \in Nat
    BY ConsoleAssumption
  <2> QED BY <2>1, <2>2
<1>2. ConsoleTypes
  <2>1. read \in Seq(Chars) /\ echo \in Seq(Chars)
    BY DEF ConsoleInit
  <2>2. readAvail \in Nat /\ writeDone \in Nat
    BY DEF ConsoleInit
  <2> QED BY <1>1, <2>1, <2>2, EOFFact, Zenon DEF ConsoleInit, ConsoleTypes
<1>3. Proper(read) = Proper(echo) \o Buffered
  <2>1. Proper(read) = <<>> /\ Proper(echo) = <<>>
    BY <1>2, SelectedEmpty, Zenon DEF ConsoleInit, Proper, ConsoleTypes
  <2> QED BY <2>1 DEF ConsoleInit, Buffered
<1>4. Len(echo) + readAvail + (IF line = "echo" THEN 1 ELSE 0) = Len(read)
  BY DEF ConsoleInit
<1>5. line = "wait" /\ putBusy = FALSE /\ writeDone = 0
  BY DEF ConsoleInit
<1> QED BY <1>2, <1>3, <1>4, <1>5 DEF EchoInv

\* Every step of the device and of ConsoleTest keeps EchoInv.
LEMMA EchoInvNext == EchoInv /\ [ConsoleNext]_consoleVars => EchoInv'
<1> SUFFICES ASSUME EchoInv, [ConsoleNext]_consoleVars PROVE EchoInv'
  OBVIOUS
<1> USE DEF EchoInv, ConsoleTypes
<1>1. CASE UNCHANGED consoleVars
  <2>1. /\ script' = script /\ read' = read /\ echo' = echo /\ incoming' = incoming /\ ch' = ch
        /\ putBusy' = putBusy /\ readAvail' = readAvail /\ writeDone' = writeDone /\ line' = line
    BY <1>1, Zenon DEF consoleVars
  <2>2. Buffered' = Buffered
    BY <2>1, Zenon DEF Buffered
  <2> QED BY <2>1, <2>2, Zenon DEF Proper
<1>2. ASSUME Running, incoming = EOF, script # <<>>,
             incoming' = Head(script), script' = Tail(script),
             read' = Append(read, Head(script)), readAvail' = readAvail + 1,
             UNCHANGED <<line, closed, putBusy, writeDone, ch, echo>>
      PROVE  EchoInv'
  <2>1. Head(script) \in Chars /\ Tail(script) \in Seq(Chars)
    BY <1>2
  <2>2. Proper(echo) \in Seq(Chars) /\ Proper(read) = Proper(echo)
    BY <1>2, ProperType DEF Buffered
  <2>3. Proper(read') = Proper(echo') \o Buffered'
    <3>1. Proper(read') = IF Head(script) = EOF THEN Proper(read)
                          ELSE Append(Proper(read), Head(script))
      BY <1>2, <2>1, ProperAppend, Zenon
    <3>2. Proper(echo') = Proper(echo)
      BY <1>2
    <3>3. Buffered' = IF Head(script) = EOF THEN <<>> ELSE <<Head(script)>>
      BY <1>2 DEF Buffered
    <3> DEFINE p == Proper(echo)
               c == Head(script)
    <3>4. p \in Seq(Chars) /\ c \in Chars
      BY <2>1, <2>2
    <3> HIDE DEF p, c
    <3>5. p \o <<>> = p /\ p \o <<c>> = Append(p, c)
      BY <3>4
    <3> QED BY <2>2, <3>1, <3>2, <3>3, <3>5, Zenon DEF p, c
  <2>4. ConsoleTypes'
    BY <1>2, <2>1
  <2>5. Len(echo') + readAvail' + (IF line' = "echo" THEN 1 ELSE 0) = Len(read') \/ line' = "abort"
    BY <1>2, <2>1
  <2> QED BY <1>2, <2>3, <2>4, <2>5, Zenon DEF Proper
<1>3. ASSUME Running, line' = "abort",
             UNCHANGED <<script, read, incoming, readAvail, closed, putBusy, writeDone, ch, echo>>
      PROVE  EchoInv'
  BY <1>3 DEF Buffered
<1>4. CASE Running /\ WriteDone
  <2>1. /\ putBusy /\ putBusy' = FALSE /\ writeDone' = writeDone + 1
        /\ UNCHANGED <<script, closed, read, incoming, readAvail, line, ch, echo>>
    BY <1>4, Zenon DEF WriteDone
  <2>2. line = "done" /\ writeDone = 0
    BY <1>4, <2>1 DEF Running
  <2>3. Buffered' = Buffered
    BY <2>1 DEF Buffered
  <2>4. writeDone' = 1 /\ writeDone' \in Nat
    BY <2>1, <2>2
  <2>5. ConsoleTypes'
    BY <2>1, <2>4, Zenon
  <2>6. Len(echo') + readAvail' + (IF line' = "echo" THEN 1 ELSE 0) = Len(read')
    BY <2>1, <2>2
  <2>7. Proper(read') = Proper(echo') \o Buffered'
    BY <2>1, <2>3, Zenon
  <2>8. line' = "done" /\ line' \notin {"wait", "echo", "returned"}
    BY <2>1, <2>2
  <2> QED BY <2>1, <2>4, <2>5, <2>6, <2>7, <2>8, Zenon DEF Proper
<1>5. CASE Running /\ WaitChar
  BY <1>5 DEF WaitChar, Buffered
<1>6. CASE Running /\ EchoChar
  <2>1. ~putBusy /\ line = "echo" /\ writeDone = 0
    BY <1>6 DEF EchoChar
  <2>2. /\ ch' = incoming /\ incoming' = EOF /\ line' = "done"
        /\ echo' = Append(echo, incoming) /\ putBusy' = TRUE
        /\ UNCHANGED <<script, closed, read, readAvail, writeDone>>
    BY <1>6, <2>1, Zenon DEF EchoChar
  <2>3. Proper(read') = Proper(echo') \o Buffered'
    <3>1. Proper(echo') = IF incoming = EOF THEN Proper(echo) ELSE Append(Proper(echo), incoming)
      BY <2>2, ProperAppend
    <3>2. Proper(read') = Proper(echo) \o Buffered
      BY <2>2
    <3>3. Buffered' = <<>>
      BY <2>2 DEF Buffered
    <3> DEFINE p == Proper(echo)
    <3>4. p \in Seq(Chars) /\ incoming \in Chars
      BY ProperType
    <3> HIDE DEF p
    <3>5. p \o <<>> = p /\ p \o <<incoming>> = Append(p, incoming)
          /\ Append(p, incoming) \o <<>> = Append(p, incoming)
      BY <3>4
    <3> QED BY <3>1, <3>2, <3>3, <3>5, Zenon DEF p, Buffered
  <2>4. ConsoleTypes'
    BY <2>2, EOFFact
  <2>5. Len(echo') + readAvail' + (IF line' = "echo" THEN 1 ELSE 0) = Len(read')
    BY <2>1, <2>2
  <2> QED BY <2>1, <2>2, <2>3, <2>4, <2>5, Zenon DEF Proper
<1>7. CASE Running /\ WaitDone
  <2>1. /\ line = "done" /\ writeDone > 0 /\ writeDone' = writeDone - 1
        /\ line' = IF ch = Quit THEN "returned" ELSE "wait"
        /\ UNCHANGED <<script, closed, read, incoming, putBusy, readAvail, ch, echo>>
    BY <1>7, Zenon DEF WaitDone
  <2>2. line' \in {"returned", "wait"}
    BY <2>1
  <2>3. ~putBusy /\ writeDone' = 0
    BY <2>1
  <2>4. Buffered' = Buffered
    BY <2>1 DEF Buffered
  <2>5. ConsoleTypes'
    BY <2>1, <2>2, <2>3
  <2>6. Len(echo') + readAvail' + (IF line' = "echo" THEN 1 ELSE 0) = Len(read')
    BY <2>1, <2>2
  <2>7. Proper(read') = Proper(echo') \o Buffered'
    BY <2>1, <2>4, Zenon
  <2> QED BY <2>1, <2>2, <2>3, <2>5, <2>6, <2>7, Zenon DEF Proper
<1> QED BY <1>1, <1>2, <1>3, <1>4, <1>5, <1>6, <1>7, Zenon DEF ConsoleNext, CheckCharAvail, ConsoleTest

\* EchoFaithful for every input of any characters, closed or not: ConsoleTest
\* echoes what the device reads, each character once and in order but for the
\* bytes that look like EOF, and PutChar finds the device idle.
THEOREM EchoesInOrder == ConsoleSpec => []EchoFaithful
<1>1. ConsoleInit => EchoInv
  BY EchoInvInit
<1>2. EchoInv /\ [ConsoleNext]_consoleVars => EchoInv'
  BY EchoInvNext
<1>3. EchoInv => EchoFaithful
  BY EchoImplies
<1> QED BY <1>1, <1>2, <1>3, PTL DEF ConsoleSpec
=============================================================================
