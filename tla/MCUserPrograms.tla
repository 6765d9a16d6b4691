--------------------------- MODULE MCUserPrograms ---------------------------
(* A small instance of what a user program meets: the system calls and      *)
(* address spaces of the build with a page table (Processes), the TLB and   *)
(* the inverted page table of the build with virtual memory                 *)
(* (VirtualMemory), the tools that make its executable (Executable), and    *)
(* the processor compared with the stand-alone interpreter (MipsExecute).   *)
(* They share no state: which says the one that runs, the others stand.     *)
EXTENDS VirtualMemory, Processes, Executable

VARIABLES which, cpu, mem, resident, ir, status, steps

cpuvars == <<cpu, mem, resident, ir, status, steps>>
vars == <<which, vmvars, pvars, xvars, cpuvars>>

MCMaxAccesses == <<8, 4>>

\* A register, and shift amounts and immediates on both sides of the sign.
R(fs, rds, shamts) ==
  [op : {0}, rs : {1}, rt : {2}, rd : rds, shamt : shamts, funct : fs, imm : {0}, target : {0}]
I(ops, rss, rts, imms) ==
  [op : ops, rs : rss, rt : rts, rd : {0}, shamt : {0}, funct : {0}, imm : imms, target : {0}]
J(ops, targets) ==
  [op : ops, rs : {0}, rt : {0}, rd : {0}, shamt : {0}, funct : {0}, imm : {0}, target : targets]

MCInstrs ==
  R({2, 3, 0}, {1}, {1, 7}) \cup R((4 .. 63) \ {9}, {2}, {0}) \cup R({9}, {1, 31}, {0})
    \cup R({33}, {0}, {0}) \cup I({35}, {1}, {0}, {0})
    \cup I({1}, {1, 31}, {0, 1, 2, 16, 17}, {2}) \cup J({2, 3}, {1})
    \cup I((4 .. 15) \cup {32, 33, 36, 37, 40, 41}, {1}, {2}, {1, 15})
    \cup I({34, 35, 38, 42, 43, 46}, {1}, {2}, {0, 4}) \cup I(16 .. 63, {0}, {1}, {4})

MCStart == {<<0, 5>>, <<4, 255>>, <<8, 129>>, <<128, 255>>, <<127, 2>>, <<255, 1>>, <<200, 128>>}
MCRegs == {0, 1, 2, 31}

Cpu == INSTANCE MipsExecute WITH
  ByteBits <- 2, PageSize <- 8, NumPages <- 2, MaxSteps <- 2,
  Regs <- MCRegs, Instrs <- MCInstrs, Start <- MCStart

\* One of its initial states for each that does not run.
VMStill == VMInit /\ algorithm = 2 /\ readOnly = [e \in Entries |-> FALSE]
\* Of the entries of the TLB only the first may happen to be read-only.
FirstReadOnly == \A e \in Entries : readOnly[e] => e = 0
ProcessesStill == StartProcess /\ Len(table[1]) = Min(ProgramSizes)
ExecutableStill == /\ ExeInit
                   /\ tool = "coff2flat" /\ wrong = "nothing" /\ Top = 6
                   /\ \A s \in 1..6 : sections[s].s_size = 1

CpuStill == Cpu!Init /\ ir.op = 2 /\ resident = {} /\ cpu.reg[1] = 0

Init ==
  \/ which = "processes" /\ ExecutableStill /\ VMStill /\ CpuStill /\ StartProcess
  \/ which = "memory" /\ ExecutableStill /\ ProcessesStill /\ CpuStill /\ VMInit /\ FirstReadOnly
  \/ which = "executable" /\ VMStill /\ ProcessesStill /\ CpuStill /\ ExeInit
  \/ which = "processor" /\ ExecutableStill /\ VMStill /\ ProcessesStill /\ Cpu!Init

Next ==
  \/ which = "processes" /\ ProcNext /\ UNCHANGED <<which, vmvars, xvars, cpuvars>>
  \/ which = "memory" /\ VMNext /\ UNCHANGED <<which, pvars, xvars, cpuvars>>
  \/ which = "executable" /\ ExeNext /\ UNCHANGED <<which, vmvars, pvars, cpuvars>>
  \/ which = "processor" /\ Cpu!Next /\ UNCHANGED <<which, vmvars, pvars, xvars>>

\* The kernel goes on with what it has begun, and the timer keeps firing.
Spec ==
  /\ Init /\ [][Next]_vars
  /\ WF_vars(which = "processes" /\ KernelSteps /\ UNCHANGED <<which, vmvars, xvars, cpuvars>>)
  /\ WF_vars(which = "processes" /\ TimerYield /\ UNCHANGED <<which, vmvars, xvars, cpuvars>>)
-----------------------------------------------------------------------------
\* RefinesExecute and ArithmeticExact of MipsExecute.
RefinesExecute == Cpu!RefinesExecute
ArithmeticExact == Cpu!ArithmeticExact
=============================================================================
