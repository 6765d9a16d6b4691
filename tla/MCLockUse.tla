----------------------------- MODULE MCLockUse -----------------------------
(* Three threads, one lock with one condition, one further semaphore. *)
EXTENDS LockUse

CONSTANTS t1, t2, t3, s1

Others == <<t2, t3>>

StartValues == [s \in Semaphores |-> IF s = TheLock THEN 1 ELSE 0]
=============================================================================
