------------------------------ MODULE Execute ------------------------------
(***************************************************************************)
(* The units of the core against the simulator: the decoder, the ALU and   *)
(* the branches of riscv_exec.v and riscv_alu.v, riscv_multiplier.v,       *)
(* riscv_divider.v (module Divider), and the byte lanes of riscv_lsu.v.    *)
(*                                                                         *)
(* One instruction is in the units at a time: it is issued, the flops of   *)
(* the first stage show what it does, and it retires.  Only the divider    *)
(* keeps state from one instruction to the next.  Encodings and immediates *)
(* are compared on words of 32 bits, results on operands of W bits, where  *)
(* an immediate is any number of W bits.                                   *)
(***************************************************************************)
EXTENDS Decoder, Instructions, Divider

CONSTANTS
  Words,      (* words to decode                                           *)
  FenceRd,    (* registers in the rd field of fence and fence.i            *)
  Addresses,  (* addresses of instructions: multiples of 4                 *)
  Offsets,    (* immediates of branches: even numbers                      *)
  Memories,   (* contents of the two words that are loaded and stored to   *)
  Stored      (* what is stored                                            *)

ASSUME ExecuteAssumption ==
  /\ Words \subseteq WordFields
  /\ FenceRd \subseteq 0 .. 31
  /\ Addresses \cup Offsets \subseteq Number
  /\ \A pc \in Addresses : pc % 4 = 0
  /\ \A imm \in Offsets : imm % 2 = 0
  /\ Memories \subseteq [0 .. 1 -> [Lane -> Byte]]
  /\ Stored \subseteq [Lane -> Byte]

VARIABLES
  now,  (* what the units were given: a word, an operation, an access       *)
  core  (* what they made of it                                             *)

executeVars == <<now, core, divVars>>

Idle == [kind |-> "idle"]

-----------------------------------------------------------------------------
(* Immediates of riscv_exec.v and riscv_lsu.v: {bit 31 repeated, ...}.     *)

RtlImmediates(w) ==
  LET sign == -SignBit(w)
      low30 == w.f7 % 64                           (* bits 30:25 *)
  IN  [imm12  |-> sign * 2^11 + low30 * 2^5 + w.rs2,
       bimm   |-> sign * 2^12 + (w.rd % 2) * 2^11 + low30 * 2^5 + (w.rd \div 2) * 2,
       jimm20 |-> sign * 2^20 + w.rs1 * 2^15 + w.f3 * 2^12 + (w.rs2 % 2) * 2^11
                    + low30 * 2^5 + (w.rs2 \div 2) * 2,
       imm20  |-> (sign * 2^19 + low30 * 2^13 + w.rs2 * 2^8 + w.rs1 * 2^3 + w.f3) * 2^12,
       store  |-> sign * 2^11 + low30 * 2^5 + w.rd,
       shamt  |-> w.rs2]

-----------------------------------------------------------------------------
(* riscv_alu.v                                                             *)

(* Each of the five stages of a shift moves by 2^i places, if bit i of the *)
(* amount is set; a narrower machine has fewer of them.                    *)
Shifts(b, i) == 2^i < W /\ Bit(b, i) = 1

ShiftLeft(a, b) ==
  LET stage(x, i) == IF Shifts(b, i) THEN Wrap(x * 2^(2^i)) ELSE x
  IN  stage(stage(stage(stage(stage(a, 0), 1), 2), 3), 4)

ShiftRight(a, b, arithmetic) ==
  LET fill(n) == IF arithmetic /\ Negative(a) THEN 2^W - 2^(W - n) ELSE 0
      stage(x, i) == IF Shifts(b, i) THEN fill(2^i) + (x \div 2^(2^i)) ELSE x
  IN  stage(stage(stage(stage(stage(a, 0), 1), 2), 3), 4)

Alu(func, a, b) ==
  LET sub == Wrap(a - b)
  IN  CASE func = "SHIFTL" -> ShiftLeft(a, b)
        [] func = "SHIFTR" -> ShiftRight(a, b, FALSE)
        [] func = "SHIFTR_ARITH" -> ShiftRight(a, b, TRUE)
        [] func = "ADD" -> Wrap(a + b)
        [] func = "SUB" -> sub
        [] func = "AND" -> BitAnd(a, b)
        [] func = "OR" -> BitOr(a, b)
        [] func = "XOR" -> BitXor(a, b)
        [] func = "LESS_THAN" -> Truth(a < b)
        [] func = "LESS_THAN_SIGNED" ->
             IF Negative(a) # Negative(b) THEN Truth(Negative(a)) ELSE Truth(Negative(sub))
        [] func = "NONE" -> a

(* riscv_exec.v: alu_func_r; other instructions leave ALU_NONE.            *)
AluFunction ==
  [add |-> "ADD", addi |-> "ADD", auipc |-> "ADD", jal |-> "ADD", jalr |-> "ADD",
   sub |-> "SUB", and |-> "AND", andi |-> "AND", or |-> "OR", ori |-> "OR",
   xor |-> "XOR", xori |-> "XOR", sll |-> "SHIFTL", slli |-> "SHIFTL",
   srl |-> "SHIFTR", srli |-> "SHIFTR", sra |-> "SHIFTR_ARITH", srai |-> "SHIFTR_ARITH",
   slt |-> "LESS_THAN_SIGNED", slti |-> "LESS_THAN_SIGNED",
   sltu |-> "LESS_THAN", sltiu |-> "LESS_THAN", lui |-> "NONE"]

(* alu_input_a_r and alu_input_b_r.  A shift amount is an immediate.       *)
AluInputs(op, a, b, imm, pc) ==
  CASE op \in DOMAIN RegisterCodes -> <<a, b>>
    [] op \in DOMAIN ImmediateCodes -> <<a, imm>>
    [] op = "lui" -> <<imm, 0>>
    [] op = "auipc" -> <<pc, imm>>
    [] op \in {"jal", "jalr"} -> <<pc, 4>>

AluResult(op, a, b, imm, pc) ==
  IF op \in DOMAIN AluFunction
  THEN LET inputs == AluInputs(op, a, b, imm, pc)
       IN  Alu(AluFunction[op], inputs[1], inputs[2])
  ELSE 0

-----------------------------------------------------------------------------
(* Branches of riscv_exec.v                                                *)

LessThanSigned(x, y) ==
  IF Negative(x) # Negative(y) THEN Negative(x) ELSE Negative(Wrap(x - y))
(* A slip: the operands of the subtraction the other way round. *)
GreaterThanSwapped(x, y) ==
  IF Negative(x) # Negative(y) THEN Negative(y) ELSE Negative(Wrap(x - y))
GreaterThanSigned(x, y) ==
  IF Negative(x) # Negative(y) THEN Negative(y) ELSE Negative(Wrap(y - x))

BranchTaken(op, a, b) ==
  CASE op \in {"jal", "jalr"} -> TRUE
    [] op = "beq"  -> a = b
    [] op = "bne"  -> a # b
    [] op = "blt"  -> LessThanSigned(a, b)
    [] op = "bge"  -> GreaterThanSigned(a, b) \/ a = b
    [] op = "bltu" -> a < b
    [] op = "bgeu" -> a >= b
    [] OTHER       -> FALSE

BranchTarget(op, a, imm, pc) ==
  IF op = "jalr" THEN 2 * (Wrap(a + imm) \div 2) ELSE Wrap(pc + imm)

(* pc_x_q *)
NextPc(op, a, b, imm, pc) ==
  IF BranchTaken(op, a, b) THEN BranchTarget(op, a, imm, pc) ELSE Wrap(pc + 4)

-----------------------------------------------------------------------------
(* riscv_multiplier.v: operands of W + 1 bits, as the numbers they mean.   *)

OperandA(op, a) == IF op \in {"mulhsu", "mulh"} THEN Signed(a) ELSE a
OperandB(op, b) == IF op = "mulh" THEN Signed(b) ELSE b

MulResult(op, a, b) ==
  LET product == OperandA(op, a) * OperandB(op, b)
  IN  IF op = "mul" THEN Wrap(product) ELSE Wrap(product \div 2^W)

-----------------------------------------------------------------------------
(* riscv_lsu.v                                                             *)

Unaligned(op, addr) ==
  \/ op \in {"sw", "lw", "lwu"} /\ addr % 4 # 0
  \/ op \in {"sh", "lh", "lhu"} /\ addr % 2 # 0

(* mem_wr_r: the lanes written *)
Strobe(op, addr) ==
  IF Unaligned(op, addr) THEN {}
  ELSE CASE op = "sw" -> Lane
         [] op = "sh" -> IF addr % 4 = 2 THEN {2, 3} ELSE {0, 1}
         [] op = "sb" -> {addr % 4}
         [] OTHER     -> {}

(* A slip: the half word left in the lanes it has in the register. *)
StoreDataInPlace(op, addr, data) ==
  IF op = "sb" THEN [l \in Lane |-> data[0]] ELSE data

(* mem_data_r: the stored half or byte in its lanes *)
StoreData(op, addr, data) ==
  CASE op = "sw" -> data
    [] op = "sh" -> [l \in Lane |-> IF l \in Strobe(op, addr) THEN data[l % 2] ELSE 0]
    [] op = "sb" -> [l \in Lane |-> IF l \in Strobe(op, addr) THEN data[0] ELSE 0]

(* wb_result_r, from the word of the response and the request that waits   *)
(* for it: its low address bits, mem_xb_q, mem_xh_q and mem_ls_q.          *)
LoadResult(op, addr, word) ==
  LET half == IF Bit(addr, 1) = 1 THEN 2 ELSE 0
      signed == op \in {"lb", "lh", "lw"}
      extend(byte) == IF signed /\ byte >= 128 THEN 255 ELSE 0
  IN  CASE op \in {"lb", "lbu"} ->
             [l \in Lane |-> IF l = 0 THEN word[addr % 4] ELSE extend(word[addr % 4])]
        [] op \in {"lh", "lhu"} ->
             [l \in Lane |-> IF l < 2 THEN word[half + l] ELSE extend(word[half + 1])]
        [] OTHER -> word

-----------------------------------------------------------------------------
(* Steps                                                                   *)

ExecuteInit == now = Idle /\ core = Idle /\ DivInit

Used(w) == Executes(w) \in Fences => w.rd \in FenceRd

Decode(w, fault) ==
  /\ Used(w)
  /\ now' = [kind |-> "word", word |-> w, fault |-> fault]
  /\ core' = [units |-> Units(w, fault), invalid |-> Invalid(w),
              rdValid |-> RdValid(w), imm |-> RtlImmediates(w)]
  /\ UNCHANGED divVars

Operate(op, a, b, imm, pc) ==
  /\ now' = [kind |-> "op", op |-> op, a |-> a, b |-> b, imm |-> imm, pc |-> pc]
  /\ core' = [result |-> IF op \in DOMAIN MultiplyCodes THEN MulResult(op, a, b)
                         ELSE AluResult(op, a, b, imm, pc),
              pcx    |-> NextPc(op, a, b, imm, pc)]
  /\ UNCHANGED divVars

AccessMemory(op, addr, memory, data) ==
  /\ now' = [kind |-> "access", op |-> op, addr |-> addr, memory |-> memory, data |-> data]
  /\ core' = [fault  |-> Unaligned(op, addr),
              memory |-> [memory EXCEPT ![addr \div 4] =
                            [l \in Lane |-> IF l \in Strobe(op, addr)
                                            THEN StoreData(op, addr, data)[l] ELSE @[l]]],
              result |-> IF op \in Stores \/ Unaligned(op, addr) THEN Nothing
                         ELSE LoadResult(op, addr, memory[addr \div 4])]
  /\ UNCHANGED divVars

Retire ==
  /\ now # Idle
  /\ now' = Idle /\ core' = Idle
  /\ UNCHANGED divVars

StartDivision(d) ==
  /\ Divide(d)
  /\ UNCHANGED <<now, core>>

DivisionStep(squash) ==
  /\ DivideOn(squash)
  /\ UNCHANGED <<now, core>>

(* Operands an instruction looks at; the others are 0. *)
Operands(op) ==
  CASE op \in DOMAIN RegisterCodes \cup DOMAIN MultiplyCodes ->
         [a : Number, b : Number, imm : {0}, pc : {0}]
    [] op \in DOMAIN ImmediateCodes -> [a : Number, b : {0}, imm : Number, pc : {0}]
    [] op \in DOMAIN UpperCodes -> [a : {0}, b : {0}, imm : Number, pc : Addresses]
    [] op = "jal" -> [a : {0}, b : {0}, imm : Offsets, pc : Addresses]
    [] op = "jalr" -> [a : Number, b : {0}, imm : Number, pc : Addresses]
    [] OTHER -> [a : Number, b : Number, imm : Offsets, pc : Addresses]

Operations ==
  DOMAIN RegisterCodes \cup DOMAIN ImmediateCodes \cup DOMAIN UpperCodes \cup
  DOMAIN BranchCodes \cup {"mul", "mulh", "mulhsu", "mulhu"}

(* The units are given one thing at a time, and the other units while the  *)
(* divider is fresh: it is not part of what they look at.                  *)
Free == now = Idle /\ div = DivReset

ExecuteNext ==
  \/ Free /\ \E w \in Words, fault \in BOOLEAN : Decode(w, fault)
  \/ Free /\ \E op \in Operations : \E x \in Operands(op) : Operate(op, x.a, x.b, x.imm, x.pc)
  \/ Free /\ \E op \in DOMAIN MemoryCodes, addr \in 0 .. 7, memory \in Memories, data \in Stored :
              AccessMemory(op, addr, memory, data)
  \/ Retire
  \/ now = Idle /\ \E d \in IF div = DivReset THEN Divisions ELSE Again : StartDivision(d)
  \/ \E squash \in BOOLEAN : DivisionStep(squash)

ExecuteSpec == ExecuteInit /\ [][ExecuteNext]_executeVars

-----------------------------------------------------------------------------
(* Properties                                                              *)

Unit(op) ==
  CASE op \in DOMAIN ImmediateCodes \cup DOMAIN UpperCodes \cup DOMAIN RegisterCodes -> "exec"
    [] op \in DOMAIN BranchCodes -> "branch"
    [] op \in DOMAIN MemoryCodes -> "lsu"
    [] op \in DivisionNames -> "div"
    [] op \in DOMAIN MultiplyCodes \ DivisionNames -> "mul"
    [] OTHER -> "csr"

(* Every immediate the core puts together bit by bit is the number the     *)
(* simulator's macros give: bits in their places, and the sign.            *)
ImmediatesAgree ==
  now.kind = "word" =>
    core.imm = [imm12 |-> TypeI(now.word), bimm |-> TypeSB(now.word),
                jimm20 |-> TypeUJ(now.word), imm20 |-> TypeU(now.word),
                store |-> TypeS(now.word), shamt |-> Shamt(now.word) % 32]

(* The core takes a word for an instruction exactly if the simulator does, *)
(* sends it to one unit, the one that does what the simulator's branch     *)
(* does, and writes a register exactly if the simulator writes it.  Only   *)
(* the returns of levels the simulator does not have (uret, and level 2)   *)
(* are the core's alone.  A fetch fault goes to the CSR unit alone.  The   *)
(* immediates are those the simulator takes out of the word.               *)
DecodersAgree ==
  /\ ImmediatesAgree
  /\ now.kind = "word" =>
       LET w == now.word
           op == Executes(w)
       IN  IF now.fault THEN core.units = {"csr"}
           ELSE /\ core.invalid = (op = "illegal" /\ ~ Matches(w, Eret))
                /\ core.units = {Unit(op)}
                /\ (core.rdValid /\ w.rd # 0) = WritesRd(w)

(* Words that differ from w in one bit. *)
FieldBits == [f7 |-> 7, rs2 |-> 5, rs1 |-> 5, f3 |-> 3, rd |-> 5, op |-> 7]
Neighbours(w) ==
  UNION {{[w EXCEPT ![field] = IF Bit(@, i) = 1 THEN @ - 2^i ELSE @ + 2^i] :
            i \in 0 .. FieldBits[field] - 1} : field \in DOMAIN FieldBits}

(* The trace tells what was executed: no bit of a word changes what the    *)
(* simulator does with it and leaves the line printed for it as it is.     *)
(* Only jalr is printed without its destination.                           *)
DisassemblyTells ==
  now.kind = "word" =>
    LET text == Text(now.word)
        effect == Effect(now.word)
    IN  \A v \in Neighbours(now.word) :
          Used(v) /\ Text(v) = text => Effect(v) = effect \/ text[1] = "jalr"

(* An instruction leaves the value in its register, and the address of the *)
(* next one, that it has in the simulator.                                 *)
OutcomesAgree ==
  now.kind = "op" =>
    LET op == now.op
    IN  /\ core.pcx = IF op \in {"jal", "jalr"} THEN SimJump(op, now.a, now.imm, now.pc)
                      ELSE IF op \in CondBranches
                           THEN Wrap(now.pc + IF SimTakes(op, now.a, now.b) THEN now.imm ELSE 4)
                      ELSE Wrap(now.pc + 4)
        /\ op \notin CondBranches =>
             core.result =
               CASE op \in {"jal", "jalr"} -> SimLink(now.pc)
                 [] op \in DOMAIN UpperCodes -> SimUpper(op, now.imm, now.pc)
                 [] op \in DOMAIN MultiplyCodes -> SimMultiply(op, now.a, now.b)
                 [] op \in DOMAIN ImmediateCodes -> SimImmediate(op, now.a, now.imm)
                 [] OTHER -> SimRegister(op, now.a, now.b)

(* A load or store touches the bytes, and a load returns the number, that  *)
(* it does in SimpleMemory; where the simulator aborts on a misaligned     *)
(* address, the core reports a fault and touches nothing.                  *)
AccessesAgree ==
  now.kind = "access" =>
    LET op == now.op
    IN  IF Aborts(op, now.addr)
        THEN core.fault /\ core.memory = now.memory
        ELSE /\ ~ core.fault
             /\ core.memory = IF op \in Stores
                              THEN SimStore(op, now.memory, now.addr, now.data) ELSE now.memory
             /\ op \notin Stores => core.result = SimLoad(op, now.memory, now.addr)

(* The pipeline that waits for a division never takes another one's        *)
(* answer, whatever was squashed before, and what it takes is what C's     *)
(* division gives, for division by zero and of the least number, too.      *)
DivisionIsOwn ==
  valid /\ asked # Nothing => result = SimDivide(asked.op, asked.a, asked.b)
=============================================================================
