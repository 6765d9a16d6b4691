---------------------------- MODULE MipsExecute ----------------------------
(***************************************************************************)
(* The simulated processor compared, instruction by instruction, with the  *)
(* stand-alone interpreter (Execute), and the arithmetic it does by hand   *)
(* compared with the integers.                                             *)
(***************************************************************************)
EXTENDS Mips

\* The registers with the delayed load already applied.
Settled == DelayedLoad(cpu, 0, 0).reg

E == INSTANCE Execute WITH
       Reg <- Settled, HI <- cpu.hi, LO <- cpu.lo, pc <- cpu.pc, npc <- cpu.npc,
       running <- status # "IllegalInstr"

-----------------------------------------------------------------------------
TypeOK ==
  /\ cpu.reg \in [Regs -> Word] /\ cpu.reg[0] = 0
  /\ {cpu.hi, cpu.lo, cpu.pc, cpu.npc, cpu.loadValue, cpu.badVAddr} \subseteq Word
  /\ cpu.load \in Regs
  /\ mem \in [Addresses -> Byte]
  /\ resident \subseteq Pages
  /\ status \in {"user", "Syscall", "Overflow", "AddressError", "IllegalInstr", "crash"}
  /\ steps \in 0 .. MaxSteps

\* A program keeps to the load delay if an instruction neither reads nor writes
\* the register that the instruction before it loads.
Named(d) == {TypeToReg(t, d) : t \in opStrings(d.opCode)}
              \cup (IF d.opCode \in {"JAL", "BGEZAL", "BLTZAL"} THEN {31} ELSE {})
KeepsLoadDelay == cpu.load = 0 \/ cpu.load \notin Named(Decode(ir))

\* The instructions the two interpreters treat alike.  They differ, by design
\* or not, in: OR and the logical right shifts; the high word of a product and
\* LWL, LWR, SWL, SWR, which Execute gets wrong or lacks; logical operations
\* with a negative immediate; the link register of JALR as its target; the
\* division by zero; a transfer in the delay slot of another; SYSCALL and BREAK.
Transfers == {"J", "JAL", "JR", "JALR", "BEQ", "BNE", "BLEZ", "BGTZ", "BLTZ", "BGEZ", "BLTZAL", "BGEZAL"}
Comparable ==
  LET d == Decode(ir) IN
  /\ d.opCode \notin {"OR", "MULT", "MULTU", "LWL", "LWR", "SWL", "SWR", "SYSCALL"}
  /\ d.opCode \in {"SRL", "SRLV"} => ~Negative(cpu.reg[d.rt])
  /\ d.opCode \in {"ANDI", "ORI", "XORI"} => d.extra >= 0
  /\ E!Operation(ir) # "BREAK"
  /\ d.opCode = "JALR" => d.rd # d.rs
  /\ d.opCode \in {"DIV", "DIVU"} => cpu.reg[d.rt] # 0
  /\ d.opCode \in Transfers => cpu.npc = Wrap(cpu.pc + 4)

\* The simulator implements the interpreter of bin/execute.c for every program
\* that keeps to the load delay: whatever instruction the two decoders make of
\* a word, a step of OneInstruction that completes is the step Execute takes,
\* one that page-faults and is restarted changes nothing Execute can see, and
\* what one calls illegal the other refuses.
RefinesExecute ==
  [][(status = "user" /\ KeepsLoadDelay /\ Comparable) =>
       \/ (steps' = steps + 1 \/ status' = "IllegalInstr") /\ E!Step(ir)
       \/ status' = "user" /\ steps' = steps /\ UNCHANGED E!evars
       \/ status' \in {"Overflow", "AddressError", "crash"}]_vars

\* ADD, ADDI and SUB trap if and only if the mathematical result is not an int
\* (the sign tests of OneInstruction); MULT and MULTU leave in HI and LO the two
\* words of the product (the loop of Mult, with its carries and early exit).
ArithmeticExact ==
  [][LET d == Decode(ir)
         a == cpu.reg[d.rs]
         b == cpu.reg[d.rt]
         second == IF d.opCode = "ADDI" THEN d.extra ELSE Signed(b)
         r == IF d.opCode = "SUB" THEN Signed(a) - second ELSE Signed(a) + second
         hilo == cpu'.hi * Radix + cpu'.lo
         completes == steps' = steps + 1
     IN (status = "user" /\ KeepsLoadDelay) =>
          /\ d.opCode \in {"ADD", "ADDI", "SUB"} =>
               /\ status' = "Overflow" => r \notin -SignBit .. SignBit - 1
               /\ completes => r \in -SignBit .. SignBit - 1
          /\ completes /\ d.opCode = "MULTU" => hilo = a * b
          /\ completes /\ d.opCode = "MULT" =>
               hilo = (Signed(a) * Signed(b)) % (Radix * Radix)]_vars
=============================================================================
