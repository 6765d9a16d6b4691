------------------------------ MODULE Console ------------------------------
(***************************************************************************)
(* The simulated console (machine/console.cc) and ConsoleTest              *)
(* (userprog/progtest.cc), which echoes what is typed until a 'q'.         *)
(*                                                                         *)
(* The device buffers one character.  An empty buffer is the value EOF     *)
(* stored in a char, which is also what the byte 255 looks like.           *)
(***************************************************************************)
EXTENDS Integers, Sequences, Selection

CONSTANTS
  Quit,     \* the character 'q'
  EOF,      \* (char) EOF
  Others,   \* other characters
  MaxTyped  \* bound on the length of the input

ASSUME ConsoleAssumption == MaxTyped \in Nat

Chars == Others \cup {Quit, EOF}

VARIABLES
  script,     \* what the user will type, or the rest of the input file
  closed,     \* the input ends after the script (a file, a closed terminal)
  read,       \* what the device has read
  incoming,   \* Console::incoming
  putBusy,    \* Console::putBusy: a ConsoleWriteDone interrupt is scheduled
  readAvail, writeDone,  \* the values of the semaphores
  line,       \* where ConsoleTest is: "wait", "echo", "done", "returned", or "abort"
  ch,         \* its variable
  echo        \* what it has written

consoleVars == <<script, closed, read, incoming, putBusy, readAvail, writeDone, line, ch, echo>>

\* Console::Console and the start of ConsoleTest: nothing enables interrupts
\* between the creation of the console and that of the semaphores.
ConsoleInit ==
  /\ script \in UNION {[1..n -> Chars] : n \in 0..MaxTyped} /\ closed \in BOOLEAN
  /\ read = <<>> /\ echo = <<>>
  /\ incoming = EOF /\ ch = EOF
  /\ putBusy = FALSE
  /\ readAvail = 0 /\ writeDone = 0
  /\ line = "wait"

Running == line \notin {"returned", "abort"}
-----------------------------------------------------------------------------
\* Mutant of CheckCharAvail: it does not look whether a character is buffered.
CheckCharAvailAlways ==
  /\ script # <<>>
  /\ incoming' = Head(script) /\ script' = Tail(script)
  /\ read' = Append(read, Head(script))
  /\ readAvail' = readAvail + 1
  /\ UNCHANGED <<closed, putBusy, writeDone, line, ch, echo>>

\* Console::CheckCharAvail when PollFile finds something: a character, read
\* into the buffer and announced by ReadAvail; or the end of the input, where
\* Read returns nothing and its assertion fails.
CheckCharAvail ==
  /\ incoming = EOF
  /\ \/ /\ script # <<>>
        /\ incoming' = Head(script) /\ script' = Tail(script)
        /\ read' = Append(read, Head(script))
        /\ readAvail' = readAvail + 1
        /\ UNCHANGED line
     \/ /\ script = <<>> /\ closed
        /\ line' = "abort"
        /\ UNCHANGED <<script, read, incoming, readAvail>>
  /\ UNCHANGED <<closed, putBusy, writeDone, ch, echo>>

\* Mutant of WriteDone: the handler does not wake the writer.
WriteDoneSilent ==
  /\ putBusy /\ putBusy' = FALSE
  /\ UNCHANGED <<script, closed, read, incoming, readAvail, writeDone, line, ch, echo>>

\* Console::WriteDone, and the handler WriteDone of progtest.cc.
WriteDone ==
  /\ putBusy /\ putBusy' = FALSE
  /\ writeDone' = writeDone + 1
  /\ UNCHANGED <<script, closed, read, incoming, readAvail, line, ch, echo>>

\* readAvail->P().
WaitChar ==
  /\ line = "wait" /\ readAvail > 0
  /\ readAvail' = readAvail - 1
  /\ line' = "echo"
  /\ UNCHANGED <<script, closed, read, incoming, putBusy, writeDone, ch, echo>>

\* ch = GetChar(); PutChar(ch): no interrupt comes between them.
EchoChar ==
  /\ line = "echo"
  /\ ch' = incoming /\ incoming' = EOF
  /\ IF putBusy THEN line' = "abort" /\ UNCHANGED <<echo, putBusy>>
     ELSE line' = "done" /\ echo' = Append(echo, incoming) /\ putBusy' = TRUE
  /\ UNCHANGED <<script, closed, read, readAvail, writeDone>>

\* writeDone->P(), and the test for 'q'; main halts when ConsoleTest returns.
WaitDone ==
  /\ line = "done" /\ writeDone > 0
  /\ writeDone' = writeDone - 1
  /\ line' = IF ch = Quit THEN "returned" ELSE "wait"
  /\ UNCHANGED <<script, closed, read, incoming, putBusy, readAvail, ch, echo>>

ConsoleTest == WaitChar \/ EchoChar \/ WaitDone

ConsoleNext == Running /\ (CheckCharAvail \/ WriteDone \/ ConsoleTest)

ConsoleSpec == ConsoleInit /\ [][ConsoleNext]_consoleVars
-----------------------------------------------------------------------------
Proper(s) == Selected(s, Chars \ {EOF})

\* Each character the device reads is echoed once or still has its V of
\* readAvail to come, and the echo keeps the order of all but the bytes that
\* equal EOF: such a byte leaves the buffer open, so that the characters after
\* it overtake it.  The assertion of PutChar never fails.
EchoFaithful ==
  /\ Len(echo) + readAvail + (IF line = "echo" THEN 1 ELSE 0) = Len(read) \/ line = "abort"
  /\ \E n \in 0 .. Len(Proper(read)) : Proper(echo) = SubSeq(Proper(read), 1, n)
  /\ line = "echo" => ~putBusy

\* A 'q' that is typed at a terminal that stays open ends the test.
QuitEnds == (~closed /\ \E i \in DOMAIN script : script[i] = Quit) ~> (line = "returned")
=============================================================================
