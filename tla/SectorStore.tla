----------------------------- MODULE SectorStore -----------------------------
(***************************************************************************)
(* What SynchDisk promises (filesys/synchdisk.h): each ReadSector or       *)
(* WriteSector takes effect at one instant between its call and its        *)
(* return, exactly once.                                                   *)
(***************************************************************************)
CONSTANTS Threads, Sectors, Data, None

VARIABLES
  contents,   \* what every sector holds
  call,       \* the request of every thread that is inside a call, or None
  reply       \* the data read or written, once the request has been performed

storeVars == <<contents, call, reply>>

Requests == [write : {TRUE}, sector : Sectors, data : Data]
              \cup [write : {FALSE}, sector : Sectors, data : {None}]

Invoke(t, r) ==
  /\ call[t] = None
  /\ call' = [call EXCEPT ![t] = r]
  /\ UNCHANGED <<contents, reply>>

Perform(t) ==
  /\ call[t] # None /\ reply[t] = None
  /\ contents' = IF call[t].write
                 THEN [contents EXCEPT ![call[t].sector] = call[t].data]
                 ELSE contents
  /\ reply' = [reply EXCEPT ![t] = contents'[call[t].sector]]
  /\ UNCHANGED call

Return(t) ==
  /\ reply[t] # None
  /\ call' = [call EXCEPT ![t] = None]
  /\ reply' = [reply EXCEPT ![t] = None]
  /\ UNCHANGED contents

Init ==
  /\ contents \in [Sectors -> Data]
  /\ call = [t \in Threads |-> None]
  /\ reply = [t \in Threads |-> None]

Next ==
  \E t \in Threads : Perform(t) \/ Return(t) \/ \E r \in Requests : Invoke(t, r)

Spec == Init /\ [][Next]_storeVars
=============================================================================
