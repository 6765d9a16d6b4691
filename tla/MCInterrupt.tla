---------------------------- MODULE MCInterrupt ----------------------------
(* Constants for Interrupt.cfg. *)
EXTENDS Interrupt

CONSTANTS t1, t2, t3

MCThreads == {t1, t2, t3}
MCOtherThreads == <<t2, t3>>
=============================================================================
