----------------------------- MODULE MCFileSys -----------------------------
(* Constants for Files.cfg and FileSize.cfg. *)
EXTENDS FileSys, TLC

CONSTANTS a, b, c, d1, d2, h1

ThreeNames == {a, b, c}
TwoData == {d1, d2}
OneHandle == {h1}
MCSymmetry == Permutations(ThreeNames) \cup Permutations(TwoData)
=============================================================================
