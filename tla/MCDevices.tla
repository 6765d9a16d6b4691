----------------------------- MODULE MCDevices -----------------------------
(***************************************************************************)
(* Small instances of three devices and their clients: machines that       *)
(* exchange mail (MCPostOffice), the console with ConsoleTest (Console),   *)
(* and the time a request to the disk takes (DiskHead).  They share no     *)
(* state: which says the one that runs, the others stand.                  *)
(***************************************************************************)
EXTENDS MCPostOffice, Console, DiskHead

VARIABLE which

devVars == <<which, vars, consoleVars, headVars>>

MailStill == Init /\ ~reliable /\ ~patient /\ program = Trade
ConsoleStill == ConsoleInit /\ script = <<>> /\ ~closed

DevInit ==
  \/ which = "mail" /\ ConsoleStill /\ HeadInit /\ Init
  \/ which = "console" /\ MailStill /\ HeadInit /\ ConsoleInit
  \/ which = "disk" /\ MailStill /\ ConsoleStill /\ HeadInit

InMail(A) == which = "mail" /\ A /\ UNCHANGED <<which, consoleVars, headVars>>
InConsole(A) == which = "console" /\ A /\ UNCHANGED <<which, vars, headVars>>

DevNext ==
  \/ InMail(Next)
  \/ InConsole(ConsoleNext)
  \/ which = "disk" /\ HeadNext /\ UNCHANGED <<which, vars, consoleVars>>

\* The fairness of PostOffice; the console polls for ever, completes what is
\* written, and the thread of ConsoleTest gets the CPU when it can run.
DevSpec ==
  /\ DevInit /\ [][DevNext]_devVars
  /\ \A m \in Machines :
       /\ WF_devVars(InMail(Start(m)))
       /\ WF_devVars(InMail(CheckPktAvail(m))) /\ WF_devVars(InMail(SendDone(m)))
       /\ WF_devVars(InMail(WorkerStep(m)))
       /\ \A t \in Users : SF_devVars(InMail(ThreadStep(m, t)))
  /\ WF_devVars(InConsole(Running /\ CheckCharAvail))
  /\ WF_devVars(InConsole(Running /\ WriteDone))
  /\ WF_devVars(InConsole(Running /\ ConsoleTest))
=============================================================================
