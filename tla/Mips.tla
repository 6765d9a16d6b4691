-------------------------------- MODULE Mips --------------------------------
(***************************************************************************)
(* The simulated MIPS processor (machine/mipssim.cc, machine.cc and the    *)
(* memory accesses of translate.cc): the registers with the delayed load,  *)
(* the two program counters, and OneInstruction, which may trap in the     *)
(* middle of an instruction.                                               *)
(*                                                                         *)
(* mem is the virtual memory of the running program and resident the set   *)
(* of pages with a valid translation; the frames behind it are the subject *)
(* of VirtualMemory.  ir is the instruction that the program has at pc; a  *)
(* program is any sequence of the instructions of Instrs.                  *)
(***************************************************************************)
EXTENDS Words, Sequences

CONSTANTS
  Regs,          \* the general registers in use
  Instrs,        \* instructions, records of the fields of the word
  Start,         \* the pairs of values registers 1 and 2 may start with
  PageSize, NumPages,
  MaxSteps       \* bound: instructions executed

VARIABLES
  cpu,           \* [reg, hi, lo, pc, npc, load, loadValue, badVAddr]
  mem, resident,
  ir,
  status,        \* "user", the exception that ended the run, or "crash"
  steps

vars == <<cpu, mem, resident, ir, status, steps>>

NoInstr == [op |-> 0, rs |-> 0, rt |-> 0, rd |-> 0, shamt |-> 0, funct |-> 0,
            imm |-> 0, target |-> 0]
Pages == 0 .. NumPages - 1
Addresses == 0 .. PageSize * NumPages - 1
Page(addr) == addr \div PageSize

-----------------------------------------------------------------------------
(* Decoding. *)

opTable ==
  <<"SPECIAL", "BCOND", "J", "JAL", "BEQ", "BNE", "BLEZ", "BGTZ",
    "ADDI", "ADDIU", "SLTI", "SLTIU", "ANDI", "ORI", "XORI", "LUI",
    "UNIMP", "UNIMP", "UNIMP", "UNIMP", "RES", "RES", "RES", "RES",
    "RES", "RES", "RES", "RES", "RES", "RES", "RES", "RES",
    "LB", "LH", "LWL", "LW", "LBU", "LHU", "LWR", "RES",
    "SB", "SH", "SWL", "SW", "RES", "RES", "SWR", "RES",
    "UNIMP", "UNIMP", "UNIMP", "UNIMP", "RES", "RES", "RES", "RES",
    "UNIMP", "UNIMP", "UNIMP", "UNIMP", "RES", "RES", "RES", "RES">>

specialTable ==
  <<"SLL", "RES", "SRL", "SRA", "SLLV", "RES", "SRLV", "SRAV",
    "JR", "JALR", "RES", "RES", "SYSCALL", "UNIMP", "RES", "RES",
    "MFHI", "MTHI", "MFLO", "MTLO", "RES", "RES", "RES", "RES",
    "MULT", "MULTU", "DIV", "DIVU", "RES", "RES", "RES", "RES",
    "ADD", "ADDU", "SUB", "SUBU", "AND", "OR", "XOR", "NOR",
    "RES", "RES", "SLT", "SLTU">> \o [k \in 1 .. 20 |-> "RES"]

\* IFMT for all but SPECIAL (RFMT) and the two jumps (JFMT).
Decode(i) ==
  LET op == opTable[i.op + 1] IN
  [opCode |-> CASE op = "SPECIAL" -> specialTable[i.funct + 1]
                [] op = "BCOND" -> IF i.rt \in {0, 1, 16, 17}
                                   THEN [x \in {0, 1, 16, 17} |->
                                          CASE x = 0 -> "BLTZ" [] x = 1 -> "BGEZ"
                                            [] x = 16 -> "BLTZAL" [] x = 17 -> "BGEZAL"][i.rt]
                                   ELSE "UNIMP"
                [] OTHER -> op,
   rs |-> i.rs, rt |-> i.rt, rd |-> i.rd,
   extra |-> CASE op = "SPECIAL" -> i.shamt
               [] op \in {"J", "JAL"} -> i.target
               [] OTHER -> SignExtend(i.imm, WordBits \div 2)]

\* The registers an instruction names, from the table of printed forms.
RdRsRt == {"ADD", "ADDU", "AND", "NOR", "OR", "SLLV", "SLT", "SLTU", "SRAV", "SRLV", "SUB",
           "SUBU", "XOR"}
RtRs == {"ADDI", "ADDIU", "ANDI", "LB", "LBU", "LH", "LHU", "LW", "LWL", "LWR", "ORI", "SB", "SH",
         "SLTI", "SLTIU", "SW", "SWL", "SWR", "XORI", "BEQ", "BNE", "DIV", "DIVU", "MULT",
         "MULTU"}
opStrings(op) ==
  CASE op \in RdRsRt -> {"RD", "RS", "RT"}
    [] op \in RtRs -> {"RT", "RS"}
    [] op \in {"SLL", "SRA", "SRL"} -> {"RD", "RT"}
    [] op \in {"JALR", "JR"} -> {"RD", "RS"}
    [] op \in {"BGEZ", "BGEZAL", "BGTZ", "BLEZ", "BLTZ", "BLTZAL", "MTHI", "MTLO"} -> {"RS"}
    [] op \in {"MFHI", "MFLO"} -> {"RD"}
    [] op = "LUI" -> {"RT"}
    [] OTHER -> {}

TypeToReg(type, d) == CASE type = "RS" -> d.rs [] type = "RT" -> d.rt [] type = "RD" -> d.rd

-----------------------------------------------------------------------------
(* The parts of an instruction. *)

\* A program at its first instruction, with the operands of Start already in
\* two registers and its pages all absent or all present.
Init ==
  /\ \E s \in Start :
       cpu = [reg |-> [x \in Regs |-> IF x \in {1, 2} THEN s[x] ELSE 0], hi |-> 0, lo |-> 0,
              pc |-> 0, npc |-> 4, load |-> 0, loadValue |-> 0, badVAddr |-> 0]
  /\ mem = [a \in Addresses |-> (5 * a + 3) % 2 ^ ByteBits]
  /\ resident \in {{}, Pages}
  /\ ir \in Instrs
  /\ status = "user"
  /\ steps = 0

DelayedLoad(c, nextReg, nextValue) ==
  [c EXCEPT !.reg = [@ EXCEPT ![c.load] = c.loadValue, ![0] = 0],
            !.load = nextReg, !.loadValue = nextValue]

\* Mutant of Trap: the pending load is dropped when the handler is called.
TrapDropsLoad(c, addr) == [c EXCEPT !.load = 0, !.loadValue = 0, !.badVAddr = addr]

\* What RaiseException does to the registers before it calls the handler.
Trap(c, addr) == [DelayedLoad(c, 0, 0) EXCEPT !.badVAddr = addr]

\* The first Translate of an access and, if it faults, the handler: a set of
\* pairs of the registers and the resident pages.  The handler may evict other
\* pages, and it may fail to install the page (see VirtualMemory).
Touch(c, pages, addr) ==
  IF Page(addr) \in pages THEN {<<c, pages>>}
  ELSE {<<Trap(c, addr), p>> : p \in SUBSET Pages}

Illegal(addr, size) == addr % size # 0 \/ addr \notin Addresses

\* RaiseException for what the kernel answers with ASSERT(false), and for a
\* system call.
RaiseException(which, c, pages, addr) ==
  /\ cpu' = Trap(c, addr)
  /\ resident' = pages
  /\ status' = which
  /\ UNCHANGED <<mem, ir, steps>>

\* A ReadMem or WriteMem that returns false: Run calls OneInstruction again.
Restart(c, pages) == cpu' = c /\ resident' = pages /\ UNCHANGED <<mem, ir, status, steps>>

\* An ASSERT of the simulator, or a division that stops the host.
Crash(c, pages) == status' = "crash" /\ cpu' = c /\ resident' = pages /\ UNCHANGED <<mem, ir, steps>>

\* The end of OneInstruction; c holds the results of the switch.
Complete(c, pages, nextReg, nextValue, pcAfter) ==
  /\ cpu' = [DelayedLoad(c, nextReg, nextValue) EXCEPT !.pc = c.npc, !.npc = pcAfter]
  /\ resident' = pages
  /\ steps' = steps + 1
  /\ IF steps' = MaxSteps THEN ir' = NoInstr ELSE ir' \in Instrs
  /\ UNCHANGED status

Put(c, r, v) == [c EXCEPT !.reg[r] = v]
Done(c, pages) == Complete(c, pages, 0, 0, Wrap(c.npc + 4)) /\ UNCHANGED mem
Bit(p) == IF p THEN 1 ELSE 0

\* The part of ReadMem and WriteMem that is not the transfer of the bytes:
\* Use(c, pages) is what follows when the translation succeeds.
Access(c, pages, addr, size, Use(_, _)) ==
  IF Illegal(addr, size) THEN RaiseException("AddressError", c, pages, addr)
  ELSE \E t \in Touch(c, pages, addr) :
         IF Page(addr) \in t[2] THEN Use(t[1], t[2]) ELSE Restart(t[1], t[2])

WriteMem(c, pages, addr, size, value) ==
  Access(c, pages, addr, size,
         LAMBDA c1, p1 : /\ mem' = Store(mem, addr, size, value)
                         /\ Complete(c1, p1, 0, 0, Wrap(c1.npc + 4)))

\* Mutant of MultLoop: the carry out of the low word is lost.
MultLoopNoCarry(a0, b0) ==
  [lo |-> Wrap(a0 * b0), hi |-> ((a0 \div 2 ^ (WordBits \div 2)) * b0) \div 2 ^ (WordBits \div 2)]

\* The carry-propagating loop over the bits of a.
MultLoop(a0, b0) ==
  LET loop[k \in 0 .. WordBits] ==
        IF k = 0 THEN [a |-> a0, bLo |-> b0, bHi |-> 0, lo |-> 0, hi |-> 0, out |-> FALSE]
        ELSE LET m == loop[k - 1]
                 lo1 == Wrap(m.lo + m.bLo)
                 n == IF m.a % 2 = 0 THEN m
                      ELSE [m EXCEPT !.lo = lo1, !.hi = Wrap(m.hi + Bit(lo1 < m.bLo) + m.bHi),
                                     !.out = m.a = 1]
             IN IF m.out THEN m ELSE IF n.out THEN n
                ELSE [n EXCEPT !.bHi = Wrap(2 * m.bHi) + Bit(Negative(m.bLo)),
                               !.bLo = Wrap(2 * m.bLo), !.a = Sar(m.a, 1)]
  IN loop[WordBits]

Mult(a, b, signedArith) ==
  LET A(w) == IF signedArith THEN Wrap(Abs(Signed(w))) ELSE w
      m == MultLoop(A(a), A(b))
  IN IF a = 0 \/ b = 0 THEN [hi |-> 0, lo |-> 0]
     ELSE IF signedArith /\ Negative(a) # Negative(b)
     THEN [hi |-> Wrap(Complement(m.hi) + Bit(m.lo = 0)), lo |-> Wrap(-m.lo)]
     ELSE [hi |-> m.hi, lo |-> m.lo]

-----------------------------------------------------------------------------
(* The switch of OneInstruction, one action for each of its stretches.  d is *)
(* the decoded instruction, c and pages the registers and the resident pages *)
(* after its fetch.                                                          *)

Overflows(op, a, b, r) ==
  CASE op \in {"ADD", "ADDI"} -> Negative(a) = Negative(b) /\ Negative(b) # Negative(r)
    [] op = "SUB" -> Negative(a) # Negative(b) /\ Negative(a) # Negative(r)
    [] OTHER -> FALSE

AddAnd(d, c, pages) ==
  LET op == d.opCode
      imm == op \in {"ADDI", "ADDIU", "ANDI"}
      a == c.reg[d.rs]
      b == IF imm THEN Wrap(d.extra) ELSE c.reg[d.rt]
      v == CASE op = "AND" -> a & b
             [] op = "ANDI" -> a & (b % 2 ^ (WordBits \div 2))
             [] OTHER -> Wrap(a + b)
  IN /\ op \in {"ADD", "ADDI", "ADDIU", "ADDU", "AND", "ANDI"}
     /\ IF Overflows(op, a, b, v) THEN RaiseException("Overflow", c, pages, 0)
        ELSE Done(Put(c, IF imm THEN d.rt ELSE d.rd, v), pages)

Branch(d, c, pages) ==
  LET op == d.opCode
      link == op \in {"BGEZAL", "BLTZAL"}
      c1 == IF link THEN Put(c, 31, Wrap(c.npc + 4)) ELSE c
      a == c1.reg[d.rs]
      taken == CASE op = "BEQ" -> a = c1.reg[d.rt]
                 [] op = "BNE" -> a # c1.reg[d.rt]
                 [] op = "BGTZ" -> Signed(a) > 0
                 [] op = "BLEZ" -> Signed(a) <= 0
                 [] op \in {"BGEZ", "BGEZAL"} -> ~Negative(a)
                 [] op \in {"BLTZ", "BLTZAL"} -> Negative(a)
  IN /\ op \in {"BEQ", "BNE", "BGTZ", "BLEZ", "BGEZ", "BGEZAL", "BLTZ", "BLTZAL"}
     /\ Complete(c1, pages, 0, 0, Wrap(c.npc + 4 * (IF taken THEN d.extra ELSE 1)))
     /\ UNCHANGED mem

\* The most negative int divided by -1 stops the host.
Div(d, c, pages) ==
  LET a == c.reg[d.rs]
      b == c.reg[d.rt]
      u == d.opCode = "DIVU"
  IN /\ d.opCode \in {"DIV", "DIVU"}
     /\ IF b = 0 THEN Done([c EXCEPT !.lo = 0, !.hi = 0], pages)
        ELSE IF ~u /\ a = SignBit /\ b = Radix - 1 THEN Crash(c, pages)
        ELSE Done([c EXCEPT !.lo = IF u THEN a \div b ELSE Wrap(Quotient(Signed(a), Signed(b))),
                            !.hi = IF u THEN a % b ELSE Wrap(Remainder(Signed(a), Signed(b)))],
                  pages)

\* JALR writes its link before it reads the target.
Jump(d, c, pages) ==
  LET op == d.opCode
      region == 2 ^ (WordBits - WordBits \div 8)
      after == Wrap(c.npc + 4)
      c1 == CASE op = "JAL" -> Put(c, 31, after)
              [] op = "JALR" -> Put(c, d.rd, after)
              [] OTHER -> c
  IN /\ op \in {"J", "JAL", "JALR", "JR"}
     /\ Complete(c1, pages, 0, 0,
                 IF op \in {"J", "JAL"}
                 THEN ((after \div region) * region) + ((4 * d.extra) % region)
                 ELSE c1.reg[d.rs])
     /\ UNCHANGED mem

SizeOf(op) == CASE op \in {"LB", "LBU", "SB"} -> 1 [] op \in {"LH", "LHU", "SH"} -> 2 [] OTHER -> 4

\* The ASSERT leaves LWL and LWR only the aligned case of their switches.
Loaded(op, addr, old) ==
  LET value == Fetch(mem, addr, SizeOf(op)) IN
  CASE op \in {"LB", "LH"} -> Wrap(SignExtend(value, SizeOf(op) * ByteBits))
    [] op = "LWR" -> (old - (old % 2 ^ ByteBits)) + (value \div 2 ^ (3 * ByteBits))
    [] OTHER -> value

Load(d, c, pages) ==
  LET op == d.opCode
      addr == Wrap(c.reg[d.rs] + d.extra)
  IN \/ /\ op = "LUI"
        /\ Done(Put(c, d.rt, Shl(Wrap(d.extra), WordBits \div 2)), pages)
     \/ /\ op \in {"LB", "LBU", "LH", "LHU", "LW", "LWL", "LWR"}
        /\ IF op \in {"LWL", "LWR"} /\ addr % 4 # 0 THEN Crash(c, pages)
           ELSE Access(c, pages, addr, SizeOf(op),
             LAMBDA c1, p1 :
               LET old == IF c1.load = d.rt THEN c1.loadValue ELSE c1.reg[d.rt]
               IN /\ Complete(c1, p1, d.rt, Loaded(op, addr, old), Wrap(c1.npc + 4))
                  /\ UNCHANGED mem)

HiLo(d, c, pages) ==
  LET op == d.opCode
      a == c.reg[d.rs]
      p == Mult(a, c.reg[d.rt], op = "MULT")
  IN /\ op \in {"MFHI", "MFLO", "MTHI", "MTLO", "MULT", "MULTU"}
     /\ Done(CASE op = "MFHI" -> Put(c, d.rd, c.hi)
               [] op = "MFLO" -> Put(c, d.rd, c.lo)
               [] op = "MTHI" -> [c EXCEPT !.hi = a]
               [] op = "MTLO" -> [c EXCEPT !.lo = a]
               [] OTHER -> [c EXCEPT !.hi = p.hi, !.lo = p.lo], pages)

\* OR reads its first operand twice.
NorOr(d, c, pages) ==
  /\ d.opCode \in {"NOR", "OR", "ORI"}
  /\ Done(CASE d.opCode = "NOR" -> Put(c, d.rd, Complement(c.reg[d.rs] | c.reg[d.rt]))
            [] d.opCode = "OR" -> Put(c, d.rd, c.reg[d.rs] | c.reg[d.rs])
            [] d.opCode = "ORI" ->
                 Put(c, d.rt, c.reg[d.rs] | (Wrap(d.extra) % 2 ^ (WordBits \div 2))), pages)

StoreSmall(d, c, pages) ==
  /\ d.opCode \in {"SB", "SH"}
  /\ WriteMem(c, pages, Wrap(c.reg[d.rs] + d.extra), SizeOf(d.opCode), c.reg[d.rt])

ShiftLeft(d, c, pages) ==
  /\ d.opCode \in {"SLL", "SLLV"}
  /\ Done(Put(c, d.rd, Shl(c.reg[d.rt], IF d.opCode = "SLL" THEN d.extra
                                        ELSE c.reg[d.rs] % WordBits)), pages)

SetLess(d, c, pages) ==
  LET op == d.opCode
      imm == op \in {"SLTI", "SLTIU"}
      a == c.reg[d.rs]
      b == IF imm THEN Wrap(d.extra) ELSE c.reg[d.rt]
  IN /\ op \in {"SLT", "SLTI", "SLTU", "SLTIU"}
     /\ Done(Put(c, IF imm THEN d.rt ELSE d.rd,
                 Bit(IF op \in {"SLT", "SLTI"} THEN Signed(a) < Signed(b) ELSE a < b)), pages)

\* tmp is an int: the logical shifts are arithmetic too.
ShiftRight(d, c, pages) ==
  /\ d.opCode \in {"SRA", "SRAV", "SRL", "SRLV"}
  /\ Done(Put(c, d.rd, Sar(c.reg[d.rt], IF d.opCode \in {"SRA", "SRL"} THEN d.extra
                                        ELSE c.reg[d.rs] % WordBits)), pages)

Sub(d, c, pages) ==
  LET v == Wrap(c.reg[d.rs] - c.reg[d.rt])
  IN /\ d.opCode \in {"SUB", "SUBU"}
     /\ IF Overflows(d.opCode, c.reg[d.rs], c.reg[d.rt], v)
        THEN RaiseException("Overflow", c, pages, 0)
        ELSE Done(Put(c, d.rd, v), pages)

\* SWL and SWR read the word they change; only their aligned case is reached.
StoreWord(d, c, pages) ==
  LET op == d.opCode
      addr == Wrap(c.reg[d.rs] + d.extra)
      low == 2 ^ (3 * ByteBits)
  IN /\ op \in {"SW", "SWL", "SWR"}
     /\ IF op = "SW" THEN WriteMem(c, pages, addr, 4, c.reg[d.rt])
        ELSE IF addr % 4 # 0 THEN Crash(c, pages)
        ELSE Access(c, pages, addr, 4,
               LAMBDA c1, p1 :
                 WriteMem(c1, p1, addr, 4,
                   IF op = "SWL" THEN c1.reg[d.rt]
                   ELSE (Fetch(mem, addr, 4) % low) + Shl(c1.reg[d.rt], 3 * ByteBits)))

SyscallXor(d, c, pages) ==
  LET op == d.opCode
      a == c.reg[d.rs]
  IN CASE op = "SYSCALL" -> RaiseException("Syscall", c, pages, 0)
       [] op \in {"RES", "UNIMP"} -> RaiseException("IllegalInstr", c, pages, 0)
       [] op = "XOR" -> Done(Put(c, d.rd, a ^^ c.reg[d.rt]), pages)
       [] op = "XORI" -> Done(Put(c, d.rt, a ^^ (Wrap(d.extra) % 2 ^ (WordBits \div 2))), pages)
       [] OTHER -> FALSE

Execute(d, c, pages) ==
  \/ AddAnd(d, c, pages) \/ Branch(d, c, pages) \/ Div(d, c, pages) \/ Jump(d, c, pages)
  \/ Load(d, c, pages) \/ HiLo(d, c, pages) \/ NorOr(d, c, pages) \/ StoreSmall(d, c, pages)
  \/ ShiftLeft(d, c, pages) \/ SetLess(d, c, pages) \/ ShiftRight(d, c, pages)
  \/ Sub(d, c, pages) \/ StoreWord(d, c, pages) \/ SyscallXor(d, c, pages)

OneInstruction ==
  /\ status = "user" /\ steps < MaxSteps
  /\ Access(cpu, resident, cpu.pc, 4, LAMBDA c, pages : Execute(Decode(ir), c, pages))

\* A system call writes its result to register 2 and steps over the instruction.
returnFromSystemCall ==
  /\ status = "Syscall"
  /\ \E v \in {0, Radix - 1} :
       cpu' = [cpu EXCEPT !.reg[2] = v, !.pc = cpu.npc, !.npc = Wrap(cpu.npc + 4)]
  /\ status' = "user"
  /\ steps' = steps + 1
  /\ IF steps' = MaxSteps THEN ir' = NoInstr ELSE ir' \in Instrs
  /\ UNCHANGED <<mem, resident>>

Next == OneInstruction \/ returnFromSystemCall

Spec == Init /\ [][Next]_vars
=============================================================================
