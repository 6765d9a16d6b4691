------------------------------ MODULE Execute ------------------------------
(***************************************************************************)
(* The stand-alone MIPS interpreter of bin/execute.c: registers, HI and    *)
(* LO, the two program counters of the branch delay slot, and a flat       *)
(* memory.  It has no load delay, no address translation and no            *)
(* exceptions, which makes it the reference for the simulator of the       *)
(* kernel (Mips).                                                          *)
(*                                                                         *)
(* An instruction is the record of its fields (bin/instr.h): op, rs, rt,   *)
(* rd, shamt, funct, the immediate imm of half a word and the target of a  *)
(* jump.  They overlap in the word; an operation uses those of its format. *)
(***************************************************************************)
EXTENDS Words, Sequences

CONSTANT Regs       \* the general registers in use; 0 and 31 are among them

VARIABLES
  Reg, HI, LO,
  pc, npc,
  mem,              \* a function from addresses to bytes
  running           \* FALSE once the interpreter has called exit

evars == <<Reg, HI, LO, pc, npc, mem, running>>

HalfBits == WordBits \div 2
immed(i) == SignExtend(i.imm, HalfBits)

\* The numbers of bin/encode.h.
NormalOpcodes ==
  [J |-> \o2, JAL |-> \o3, BEQ |-> \o4, BNE |-> \o5, BLEZ |-> \o6, BGTZ |-> \o7,
   ADDI |-> \o10, ADDIU |-> \o11, SLTI |-> \o12, SLTIU |-> \o13, ANDI |-> \o14,
   ORI |-> \o15, XORI |-> \o16, LUI |-> \o17, LB |-> \o40, LH |-> \o41, LWL |-> \o42,
   LW |-> \o43, LBU |-> \o44, LHU |-> \o45, LWR |-> \o46, SB |-> \o50, SH |-> \o51,
   SWL |-> \o52, SW |-> \o53, SWR |-> \o56]

SpecialOpcodes ==
  [SLL |-> \o0, SRL |-> \o2, SRA |-> \o3, SLLV |-> \o4, SRLV |-> \o6, SRAV |-> \o7,
   JR |-> \o10, JALR |-> \o11, SYSCALL |-> \o14, BREAK |-> \o15, MFHI |-> \o20,
   MTHI |-> \o21, MFLO |-> \o22, MTLO |-> \o23, MULT |-> \o30, MULTU |-> \o31,
   DIV |-> \o32, DIVU |-> \o33, ADD |-> \o40, ADDU |-> \o41, SUB |-> \o42, SUBU |-> \o43,
   AND |-> \o44, OR |-> \o45, XOR |-> \o46, NOR |-> \o47, SLT |-> \o52, SLTU |-> \o53]

BcondOpcodes == [BLTZ |-> \o0, BGEZ |-> \o1, BLTZAL |-> \o20, BGEZAL |-> \o21]

\* The operation the nested switches select for an instruction, "none" if u()
\* or exit is called.
Selected(table, number) ==
  IF \E name \in DOMAIN table : table[name] = number
  THEN CHOOSE name \in DOMAIN table : table[name] = number
  ELSE "none"

Operation(i) ==
  CASE i.op = 0 -> Selected(SpecialOpcodes, i.funct)
    [] i.op = 1 -> Selected(BcondOpcodes, i.rt)
    [] OTHER -> Selected(NormalOpcodes, i.op)

-----------------------------------------------------------------------------
\* Each of the following is the new value of one register, of HI and LO or of
\* npc, for the operations of one part of the switch; a, b are Reg[rs], Reg[rt].

\* A shift by a register is by its low bits, as on the hosts that run this.
Shifted(op, i, a, b) ==
  CASE op = "SLL" -> Shl(b, i.shamt)
    [] op = "SRL" -> Shr(b, i.shamt)
    [] op = "SRA" -> Sar(b, i.shamt)
    [] op = "SLLV" -> Shl(b, a % WordBits)
    [] op = "SRLV" -> Shr(b, a % WordBits)
    [] op = "SRAV" -> Sar(b, a % WordBits)

Bit(p) == IF p THEN 1 ELSE 0

Arithmetic(op, a, b) ==
  CASE op \in {"ADD", "ADDU"} -> Wrap(a + b)
    [] op \in {"SUB", "SUBU"} -> Wrap(a - b)
    [] op = "AND" -> a & b
    [] op = "OR" -> a | b
    [] op = "XOR" -> a ^^ b
    [] op = "NOR" -> Complement(a | b)
    [] op = "SLT" -> Bit(Signed(a) < Signed(b))
    [] op = "SLTU" -> Bit(a < b)

Immediate(op, i, a) ==
  CASE op \in {"ADDI", "ADDIU"} -> Wrap(a + immed(i))
    [] op = "SLTI" -> Bit(Signed(a) < immed(i))
    [] op = "SLTIU" -> Bit(a < Wrap(immed(i)))
    [] op = "ANDI" -> a & Wrap(immed(i))
    [] op = "ORI" -> a | Wrap(immed(i))
    [] op = "XORI" -> a ^^ Wrap(immed(i))
    [] op = "LUI" -> Shl(i.imm, HalfBits)

WordOf(addr) == addr - (addr % 4)

\* The bytes are char and short, signed on the hosts that run this.
Loaded(op, m, addr, b) ==
  CASE op = "LB" -> Wrap(SignExtend(Fetch(m, addr, 1), ByteBits))
    [] op = "LBU" -> Fetch(m, addr, 1)
    [] op = "LH" -> Wrap(SignExtend(Fetch(m, addr, 2), 2 * ByteBits))
    [] op = "LHU" -> Fetch(m, addr, 2)
    [] op = "LW" -> Fetch(m, addr, 4)
    [] op = "LWL" -> b | Shl(Fetch(m, WordOf(addr), 4), ByteBits * (addr % 4))
    [] op = "LWR" -> LET kept == IF addr % 4 = 0 THEN 0 ELSE Shl(Radix - 1, ByteBits * (addr % 4))
                     IN (b & kept) | Sar(Fetch(m, WordOf(addr), 4), ByteBits * ((-addr) % 4))

\* HI from the products of the halves, without the carries between them.
HighProduct(x, y) ==
  LET xl == x % 2 ^ HalfBits   xh == Shr(x, HalfBits)
      yl == y % 2 ^ HalfBits   yh == Shr(y, HalfBits)
  IN Wrap(xh * yh + Sar(Wrap(xh * yl), HalfBits) + Sar(Wrap(yh * xl), HalfBits))

Product(op, a, b) ==
  IF op = "MULTU" THEN <<HighProduct(a, b), Wrap(a * b)>>
  ELSE LET x == Wrap(Abs(Signed(a)))
           y == Wrap(Abs(Signed(b)))
           low == Wrap(x * y)
       IN IF Negative(a) = Negative(b) THEN <<HighProduct(x, y), low>>
          ELSE <<Wrap(Complement(HighProduct(x, y)) + Bit(low = 0)), Wrap(-low)>>

\* A division by zero, and the most negative int by -1, stop the host program.
Divides(op, a, b) == b # 0 /\ ~(op = "DIV" /\ a = SignBit /\ b = Radix - 1)

Division(op, a, b) ==
  IF op = "DIVU" THEN <<a % b, a \div b>>
  ELSE <<Wrap(Remainder(Signed(a), Signed(b))), Wrap(Quotient(Signed(a), Signed(b)))>>

Taken(op, a, b) ==
  CASE op = "BEQ" -> a = b
    [] op = "BNE" -> a # b
    [] op = "BLEZ" -> Signed(a) <= 0
    [] op = "BGTZ" -> Signed(a) > 0
    [] op \in {"BLTZ", "BLTZAL"} -> Negative(a)
    [] op \in {"BGEZ", "BGEZAL"} -> ~Negative(a)

\* The target keeps the top bits of the instruction's own address.
JumpTarget(i, xpc) ==
  LET region == 2 ^ (WordBits - WordBits \div 8)
  IN ((xpc \div region) * region) + ((4 * i.target) % region)

-----------------------------------------------------------------------------
\* One turn of the loop, from the test of instr to the Reg[0] = 0 of the next.
Next1(branch) == pc' = npc /\ npc' = branch
GoOn == Next1(Wrap(npc + 4))
Set(r, v) == Reg' = [Reg EXCEPT ![r] = v, ![0] = 0]

Branch(op, i) ==
  LET link == Set(31, Wrap(pc + 8))
      a == IF op \in {"BLTZAL", "BGEZAL"} /\ i.rs = 31 THEN Wrap(pc + 8) ELSE Reg[i.rs]
  IN /\ Next1(IF Taken(op, a, Reg[i.rt]) THEN Wrap(pc + 4 + 4 * immed(i)) ELSE Wrap(npc + 4))
     /\ IF op \in {"BLTZAL", "BGEZAL"} THEN link ELSE UNCHANGED Reg
     /\ UNCHANGED <<HI, LO, mem, running>>

Jump(op, i) ==
  /\ Next1(IF op \in {"J", "JAL"} THEN JumpTarget(i, pc) ELSE Reg[i.rs])
  /\ CASE op = "JAL" -> Set(31, Wrap(pc + 8))
       [] op = "JALR" -> Set(i.rd, Wrap(pc + 8))
       [] OTHER -> UNCHANGED Reg
  /\ UNCHANGED <<HI, LO, mem, running>>

HiLo(op, i) ==
  /\ GoOn
  /\ CASE op = "MFHI" -> Set(i.rd, HI) /\ UNCHANGED <<HI, LO>>
       [] op = "MFLO" -> Set(i.rd, LO) /\ UNCHANGED <<HI, LO>>
       [] op = "MTHI" -> HI' = Reg[i.rs] /\ UNCHANGED <<Reg, LO>>
       [] op = "MTLO" -> LO' = Reg[i.rs] /\ UNCHANGED <<Reg, HI>>
  /\ UNCHANGED <<mem, running>>

MultDiv(op, i) ==
  /\ GoOn
  /\ op \in {"DIV", "DIVU"} => Divides(op, Reg[i.rs], Reg[i.rt])
  /\ <<HI', LO'>> = IF op \in {"MULT", "MULTU"} THEN Product(op, Reg[i.rs], Reg[i.rt])
                    ELSE Division(op, Reg[i.rs], Reg[i.rt])
  /\ UNCHANGED <<Reg, mem, running>>

Write(r, v) == GoOn /\ Set(r, v) /\ UNCHANGED <<HI, LO, mem, running>>

Address(i) == Wrap(Reg[i.rs] + immed(i))

StoreWord(op, i) ==
  /\ GoOn
  /\ mem' = Store(mem, Address(i), [SB |-> 1, SH |-> 2, SW |-> 4][op], Reg[i.rt])
  /\ UNCHANGED <<Reg, HI, LO, running>>

\* u(), and the exit for a coprocessor instruction.
Exit == running' = FALSE /\ UNCHANGED <<Reg, HI, LO, pc, npc, mem>>

\* What the host's call returns goes to Reg[1]; the buffer a read fills is left
\* out.  Number 1, SYS_exit, and the unknown ones stop the interpreter.
system_trap ==
  IF Reg[2] \in {3, 4, 5, 6, 17, 19, 54, 62, 64}
  THEN GoOn /\ UNCHANGED <<HI, LO, mem, running>> /\ \E v \in Word : Set(1, v)
  ELSE Exit

Step(i) ==
  LET op == Operation(i) IN
  /\ running
  /\ CASE op \in {"SLL", "SRL", "SRA", "SLLV", "SRLV", "SRAV"} ->
            Write(i.rd, Shifted(op, i, Reg[i.rs], Reg[i.rt]))
       [] op \in {"ADD", "ADDU", "SUB", "SUBU", "AND", "OR", "XOR", "NOR", "SLT", "SLTU"} ->
            Write(i.rd, Arithmetic(op, Reg[i.rs], Reg[i.rt]))
       [] op \in {"ADDI", "ADDIU", "SLTI", "SLTIU", "ANDI", "ORI", "XORI", "LUI"} ->
            Write(i.rt, Immediate(op, i, Reg[i.rs]))
       [] op \in {"LB", "LBU", "LH", "LHU", "LW", "LWL", "LWR"} ->
            Write(i.rt, Loaded(op, mem, Address(i), Reg[i.rt]))
       [] op \in {"SB", "SH", "SW"} -> StoreWord(op, i)
       [] op \in {"MFHI", "MFLO", "MTHI", "MTLO"} -> HiLo(op, i)
       [] op \in {"MULT", "MULTU", "DIV", "DIVU"} -> MultDiv(op, i)
       [] op \in {"J", "JAL", "JR", "JALR"} -> Jump(op, i)
       [] op \in {"BEQ", "BNE", "BLEZ", "BGTZ", "BLTZ", "BGEZ", "BLTZAL", "BGEZAL"} -> Branch(op, i)
       [] op \in {"SYSCALL", "BREAK"} -> system_trap
       [] op \in {"SWL", "SWR", "none"} -> Exit
=============================================================================
