------------------------------- MODULE MCFiles -------------------------------
(* A small instance of the file system and, beside it, one of an open file  *)
(* at the level of bytes.  They share no state: which says the one that     *)
(* runs, the other stays as it is made.                                     *)
EXTENDS MCFileSys, OpenFile

VARIABLE which

\* A file whose sectors are out of order, with a last sector that is full,
\* partly used, or missing.
MCFileHeaders == [numBytes : {0, 4, 5}, dataSectors : {[s \in 0..2 |-> (s + 2) % 3]}]
\* Bytes to write, no two of whose sectors are alike.
MCSources == {[i \in 0..4 |-> IF i \in {1, 2, 4} THEN 1 ELSE 0]}

ASSUME OpenFileConstants

MCInit ==
  \/ which = "FileSys" /\ FileInit /\ hdr.numBytes = 0 /\ disk = [s \in 0..2 |-> [o \in 0..1 |-> 0]] /\ Init
  \/ which = "OpenFile" /\ Init /\ FileInit

MCNext ==
  \/ which = "FileSys" /\ Next /\ UNCHANGED <<which, fileVars>>
  \/ which = "OpenFile" /\ FileNext /\ UNCHANGED <<which, vars>>

MCSpec == MCInit /\ [][MCNext]_<<which, vars, fileVars>>
=============================================================================
