SPECIFICATION DevSpec
CONSTANTS
  Machines <- MCMachines
  Boxes <- MCBoxes
  Users <- MCUsers
  Programs <- MCPrograms
  None = None
  MaxOps = 5
  Quit = "q"
  EOF = "EOF"
  Others = {"a", "b"}
  MaxTyped = 4
  SectorsPerTrack = 3
  NumTracks = 3
  RotationTime = 3
  SeekTime = 2
  MaxTicks = 40
INVARIANTS OneSendAtATime NoAbort EchoFaithful LatencyRight
PROPERTIES RefinesMailService ReliableMail QuitEnds
CHECK_DEADLOCK FALSE
