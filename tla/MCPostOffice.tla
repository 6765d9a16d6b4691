---------------------------- MODULE MCPostOffice ----------------------------
(***************************************************************************)
(* Two machines: MailTest on both, and two threads that send while two     *)
(* threads wait on one box; each refines the abstract mail service.        *)
(***************************************************************************)
EXTENDS PostOffice

\* Two senders that compete for sendLock, and two receivers of the same box.
Senders == [t \in Users |-> IF t = 1 THEN <<<<"send", 2, 0, 1>>, <<"send", 2, 1, 1>>>>
                              ELSE <<<<"send", 2, 0, 0>>>>]
Receivers == [t \in Users |-> IF t = 1 THEN <<<<"receive", 0>>, <<"receive", 1>>>>
                                ELSE <<<<"receive", 0>>>>]

Trade == [m \in Machines |-> IF m = 1 THEN Senders ELSE Receivers]

MCPrograms ==
  {Trade, [m \in Machines |-> [t \in Users |-> IF t = 1 THEN MailTest(3 - m) ELSE <<>>]]}

MCMachines == {1, 2}
MCUsers == {1, 2}
MCBoxes == {0, 1}

=============================================================================
