------------------------------ MODULE MCKernel ------------------------------
(* Small instances of the life of threads (ThreadLife) and of the locks,     *)
(* conditions and semaphores they use (MCLockUse).  The two share no state:  *)
(* which says the one that runs, the other stands.                           *)
EXTENDS MCLockUse, ThreadLife

VARIABLE which

kernelVars == <<which, vars, lifeVars>>

KernelInit == which \in {"life", "locks"} /\ LifeInit /\ Init

InLife(A) == which = "life" /\ A /\ UNCHANGED <<which, vars>>

KernelNext ==
  \/ InLife(LifeNext)
  \/ which = "locks" /\ Next /\ UNCHANGED <<which, lifeVars>>

\* The fairness of LifeSpec.
KernelSpec ==
  /\ KernelInit /\ [][KernelNext]_kernelVars
  /\ WF_kernelVars(InLife(ThreadYield)) /\ WF_kernelVars(InLife(IdleSwitch))
=============================================================================
