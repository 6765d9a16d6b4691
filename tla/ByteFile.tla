------------------------------ MODULE ByteFile ------------------------------
(***************************************************************************)
(* What an OpenFile promises: a file of fixed length is an array of bytes  *)
(* with a position; a transfer stops at the end of the file, returns how   *)
(* many bytes it moved, and changes no byte outside its range.             *)
(***************************************************************************)
EXTENDS Integers

CONSTANTS Bytes, MaxLength, Positions

VARIABLES
  content,       \* the bytes, from 0
  seekPosition,
  reply          \* the bytes the last call moved, from 0

\* How many of numBytes bytes at position are in the file: they are the first.
Count(numBytes, position) ==
  CHOOSE k \in 0 .. MaxLength :
    {q \in DOMAIN content : position <= q /\ q < position + numBytes} = position .. position + k - 1

Init ==
  /\ \E n \in 0 .. MaxLength : content \in [0 .. n - 1 -> Bytes]
  /\ seekPosition = 0
  /\ reply = << >>

Seek(p) ==
  /\ seekPosition' = p
  /\ UNCHANGED <<content, reply>>

ReadAt(n, p) ==
  /\ DOMAIN reply' = 0 .. Count(n, p) - 1
  /\ \A i \in DOMAIN reply' : reply'[i] = content[p + i]
  /\ UNCHANGED content

WriteAt(n, p) ==
  /\ DOMAIN reply' = 0 .. Count(n, p) - 1
  /\ DOMAIN content' = DOMAIN content
  /\ \A q \in DOMAIN content :
       content'[q] = IF q - p \in DOMAIN reply' THEN reply'[q - p] ELSE content[q]

Next ==
  \/ \E p \in Positions : Seek(p)
  \/ \E n \in -1 .. MaxLength + 1 :
       \/ /\ UNCHANGED seekPosition
          /\ \E p \in Positions : ReadAt(n, p) \/ WriteAt(n, p)
       \/ /\ seekPosition' = seekPosition + Count(n, seekPosition)
          /\ ReadAt(n, seekPosition) \/ WriteAt(n, seekPosition)

Spec == Init /\ [][Next]_<<content, seekPosition, reply>>
=============================================================================
