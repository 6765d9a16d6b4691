----------------------------- MODULE FileStore -----------------------------
(***************************************************************************)
(* What the file system promises to a caller that keeps to its rules: a    *)
(* set of named files of fixed sizes, each an array of blocks that only a  *)
(* write to that file changes.  Creating and removing a file are atomic,   *)
(* and a crash changes nothing: a file whose Create or Remove it cuts      *)
(* short is simply not there.                                              *)
(***************************************************************************)
EXTENDS Naturals

CONSTANTS Names, Data

VARIABLE files   \* from the names of the files to their blocks

Init == DOMAIN files = {}

\* A new file's blocks hold whatever the disk held.
Create(name) ==
  /\ name \notin DOMAIN files
  /\ DOMAIN files' = DOMAIN files \cup {name}
  /\ \A m \in DOMAIN files : files'[m] = files[m]

Remove(name) ==
  /\ name \in DOMAIN files
  /\ files' = [m \in DOMAIN files \ {name} |-> files[m]]

Write(name, k, d) ==
  /\ name \in DOMAIN files /\ k \in DOMAIN files[name]
  /\ files' = [files EXCEPT ![name][k] = d]

Next ==
  \E name \in Names :
    \/ Create(name)
    \/ Remove(name)
    \/ name \in DOMAIN files /\ \E k \in DOMAIN files[name], d \in Data : Write(name, k, d)

Spec == Init /\ [][Next]_files
=============================================================================
