---------------------------- MODULE Instructions ----------------------------
(***************************************************************************)
(* What the simulator makes of an instruction: Riscv::execute of riscv.cpp *)
(* without its traps and CSRs (they are in Simulator), load and store with *)
(* SimpleMemory of memory.h, and riscv_inst_decode of riscv_inst_dump.cpp, *)
(* which writes the trace.                                                 *)
(*                                                                         *)
(* Registers have W bits.  C leaves a shift by the width or more undefined *)
(* (slli with bit 25 set, sll by a register above 31): the machines the    *)
(* simulator is built for shift by the low bits of the count.              *)
(***************************************************************************)
EXTENDS Isa, Arithmetic

CONSTANTS BitAnd(_, _), BitOr(_, _), BitXor(_, _)  (* &, | and ^ of C and of Verilog *)

-----------------------------------------------------------------------------
(* Decoding: the first comparison that holds, in the order of the code.    *)

Order ==
  <<"andi", "ori", "xori", "addi", "slti", "sltiu", "slli", "srli", "srai", "lui", "auipc",
    "add", "sub", "slt", "sltu", "xor", "or", "and", "sll", "srl", "sra", "jal", "jalr",
    "beq", "bne", "blt", "bge", "bltu", "bgeu", "lb", "lh", "lw", "lbu", "lhu", "lwu",
    "sb", "sh", "sw", "mul", "mulh", "mulhsu", "mulhu", "div", "divu", "rem", "remu",
    "ecall", "ebreak", "mret", "sret", "sfence", "fence", "ifence",
    "csrrw", "csrrs", "csrrc", "csrrwi", "csrrsi", "csrrci", "wfi">>

First(w) ==
  LET hits == {i \in DOMAIN Order : Matches(w, Encoding[Order[i]])}
  IN  IF hits = {} THEN "illegal" ELSE Order[CHOOSE i \in hits : \A j \in hits : i <= j]

(* An opcode of zero is refused before any comparison. *)
AllZero(w) == \A field \in DOMAIN w : w[field] = 0

Executes(w) == IF AllZero(w) THEN "illegal" ELSE First(w)

Fences == {"sfence", "fence", "ifence"}
Stores == {"sb", "sh", "sw"}
ShiftImmediates == {"slli", "srli", "srai"}
CondBranches == {"beq", "bne", "blt", "bge", "bltu", "bgeu"}

(* reg_rd goes to m_gpr[rd] unless the branch of the code has set rd to 0: *)
(* a fence has no result, but leaves rd as it is in the word.              *)
WritesRd(w) ==
  w.rd # 0 /\ Executes(w) \notin CondBranches \cup Stores \cup {"illegal"}

-----------------------------------------------------------------------------
(* Results: the value written to rd.                                       *)

SimImmediate(op, a, imm) ==
  CASE op = "andi"  -> BitAnd(a, imm)
    [] op = "ori"   -> BitOr(a, imm)
    [] op = "xori"  -> BitXor(a, imm)
    [] op = "addi"  -> Wrap(a + imm)
    [] op = "slti"  -> Truth(Signed(a) < Signed(imm))
    [] op = "sltiu" -> Truth(a < imm)
    [] op = "slli"  -> Wrap(a * 2^(imm % W))
    [] op = "srli"  -> a \div 2^(imm % W)
    [] op = "srai"  -> Wrap(Signed(a) \div 2^(imm % W))

SimUpper(op, imm, pc) ==
  CASE op = "lui"   -> imm
    [] op = "auipc" -> Wrap(imm + pc)

SimRegister(op, a, b) ==
  CASE op = "add"  -> Wrap(a + b)
    [] op = "sub"  -> Wrap(a - b)
    [] op = "slt"  -> Truth(Signed(a) < Signed(b))
    [] op = "sltu" -> Truth(a < b)
    [] op = "xor"  -> BitXor(a, b)
    [] op = "or"   -> BitOr(a, b)
    [] op = "and"  -> BitAnd(a, b)
    [] op = "sll"  -> Wrap(a * 2^(b % W))
    [] op = "srl"  -> a \div 2^(b % W)
    [] op = "sra"  -> Wrap(Signed(a) \div 2^(b % W))

(* jal, jalr: reg_rd, and pc. *)
SimLink(pc) == Wrap(pc + 4)

SimJump(op, a, imm, pc) ==
  CASE op = "jal"  -> Wrap(pc + imm)
    [] op = "jalr" -> LET sum == Wrap(a + imm) IN sum - (sum % 2)

SimTakes(op, a, b) ==
  CASE op = "beq"  -> a = b
    [] op = "bne"  -> a # b
    [] op = "blt"  -> Signed(a) < Signed(b)
    [] op = "bge"  -> Signed(a) >= Signed(b)
    [] op = "bltu" -> a < b
    [] op = "bgeu" -> a >= b

(* long long res, and its upper half. *)
SimMultiply(op, a, b) ==
  CASE op = "mul"    -> Wrap(Signed(a) * Signed(b))
    [] op = "mulh"   -> Wrap((Signed(a) * Signed(b)) \div 2^W)
    [] op = "mulhsu" -> Wrap((Signed(a) * b) \div 2^W)
    [] op = "mulhu"  -> (a * b) \div 2^W

(* / and % of C: towards zero, the remainder with the sign of the dividend. *)
Size(x) == IF x < 0 THEN -x ELSE x
Quotient(x, y) ==
  LET size == Size(x) \div Size(y) IN IF (x < 0) = (y < 0) THEN size ELSE -size
Remainder(x, y) == LET size == Size(x) % Size(y) IN IF x < 0 THEN -size ELSE size

Least == 2^(W - 1)
MinusOne == 2^W - 1

SimDivide(op, a, b) ==
  CASE op = "div"  -> IF a = Least /\ b = MinusOne THEN a
                      ELSE IF b # 0 THEN Wrap(Quotient(Signed(a), Signed(b)))
                      ELSE MinusOne
    [] op = "divu" -> IF b # 0 THEN a \div b ELSE MinusOne
    [] op = "rem"  -> IF a = Least /\ b = MinusOne THEN 0
                      ELSE IF b # 0 THEN Wrap(Remainder(Signed(a), Signed(b)))
                      ELSE a
    [] op = "remu" -> IF b # 0 THEN a % b ELSE a

-----------------------------------------------------------------------------
(* Memory: a word is its bytes by lane, lane 0 the lowest.                 *)

Lane == 0 .. 3
Byte == 0 .. 255
Width(op) ==
  CASE op \in {"lb", "lbu", "sb"} -> 1 [] op \in {"lh", "lhu", "sh"} -> 2 [] OTHER -> 4

(* The last argument of load().  It is TRUE for lw, too, and ignored.      *)
SignedLoad(op) == op \in {"lb", "lh", "lw"}

(* The assertions of SimpleMemory: they end the program.                   *)
Aborts(op, address) == address % Width(op) # 0

(* Lanes from the address on, sign-extended or not. *)
SimLoad(op, memory, address) ==
  LET word == memory[address \div 4]
      width == Width(op)
      top == word[(address % 4) + width - 1]
      fill == IF SignedLoad(op) /\ top >= 128 THEN 255 ELSE 0
  IN  [l \in Lane |-> IF l < width THEN word[(address % 4) + l] ELSE fill]

SimStore(op, memory, address, data) ==
  LET first == address % 4
  IN  [memory EXCEPT ![address \div 4] =
         [l \in Lane |-> IF l \in first .. first + Width(op) - 1 THEN data[l - first] ELSE @[l]]]

-----------------------------------------------------------------------------
(* riscv_inst_decode: the mnemonic and the operands it prints.             *)

Mnemonic(op) ==
  CASE op \in Fences -> "sfence"
    [] op = "csrrw" -> "csrw" [] op = "csrrs" -> "csrs" [] op = "csrrc" -> "csrc"
    [] op = "csrrwi" -> "csrwi" [] op = "csrrsi" -> "csrsi" [] op = "csrrci" -> "csrci"
    [] op = "illegal" -> "invalid!"
    [] OTHER -> op

ImmediateText(op, w) ==
  <<w.rd, w.rs1, IF op \in ShiftImmediates THEN Shamt(w) ELSE TypeI(w)>>
UpperText(w) == <<w.rd, TypeU(w)>>
(* A slip: an operand printed twice. *)
RegisterTextTwice(w) == <<w.rd, w.rs1, w.rs1>>
RegisterText(w) == <<w.rd, w.rs1, w.rs2>>
BranchText(op, w) ==
  CASE op = "jal"  -> <<w.rd, TypeUJ(w)>>
    [] op = "jalr" -> <<w.rs1, TypeI(w)>>
    [] OTHER       -> <<w.rs1, w.rs2, TypeSB(w)>>
MemoryText(op, w) ==
  IF op \in Stores THEN <<TypeS(w), w.rs1, w.rs2>> ELSE <<w.rd, TypeI(w), w.rs1>>
CsrText(w) == <<w.rd, w.rs1, TypeI(w)>>

Text(w) ==
  LET op == First(w)
  IN  <<Mnemonic(op),
        CASE op \in DOMAIN ImmediateCodes -> ImmediateText(op, w)
          [] op \in DOMAIN UpperCodes -> UpperText(w)
          [] op \in DOMAIN RegisterCodes \cup DOMAIN MultiplyCodes -> RegisterText(w)
          [] op \in DOMAIN BranchCodes -> BranchText(op, w)
          [] op \in DOMAIN MemoryCodes -> MemoryText(op, w)
          [] op \in DOMAIN CsrCodes -> CsrText(w)
          [] OTHER -> <<>> >>

(* What execute() takes from the word: which branch, and the fields it     *)
(* uses there.                                                             *)
Effect(w) ==
  LET op == Executes(w)
      rd == IF WritesRd(w) THEN w.rd ELSE 0
  IN  CASE op \in Fences -> <<"fence", rd>>
        [] op \in ShiftImmediates -> <<op, rd, w.rs1, Shamt(w) % 32>>
        [] op \in (DOMAIN ImmediateCodes \ ShiftImmediates) \cup {"jalr"} -> <<op, rd, w.rs1, TypeI(w)>>
        [] op \in DOMAIN UpperCodes -> <<op, rd, TypeU(w)>>
        [] op = "jal" -> <<op, rd, TypeUJ(w)>>
        [] op \in CondBranches -> <<op, w.rs1, w.rs2, TypeSB(w)>>
        [] op \in Stores -> <<op, w.rs1, w.rs2, TypeS(w)>>
        [] op \in DOMAIN MemoryCodes \ Stores -> <<op, rd, w.rs1, TypeI(w)>>
        [] op \in DOMAIN CsrCodes -> <<op, rd, w.rs1, TypeI(w)>>
        [] op \in DOMAIN RegisterCodes \cup DOMAIN MultiplyCodes -> <<op, rd, w.rs1, w.rs2>>
        [] OTHER -> <<op>>
=============================================================================
