-------------------------------- MODULE Isa --------------------------------
(***************************************************************************)
(* The instruction encodings of riscv_isa.h, which the simulator and the   *)
(* disassembler decode with; riscv_defs.v repeats them for the core.       *)
(*                                                                         *)
(* An instruction word is the record of its fields                         *)
(*   f7 31:25, rs2 24:20, rs1 19:15, f3 14:12, rd 11:7, op 6:0.            *)
(* A pair of INST_X and INST_X_MASK is the record of the fields the mask   *)
(* keeps, with the values they must have.  The masks are                   *)
(*   0x7f        op                    0xfe00707f  op, f3, f7              *)
(*   0x707f      op, f3                0xfe007fff  op, rd, f3, f7          *)
(*   0xfc00707f  op, f3, f6            0xffff8fff  all but f3              *)
(*   0xffffffff  all                   0xcfffffff  all but bits 29:28      *)
(* where f6 is 31:26, and f7p is f7 without bits 29:28.                    *)
(***************************************************************************)
EXTENDS Integers, Sequences, FiniteSets

WordFields == [f7 : 0 .. 127, rs2 : 0 .. 31, rs1 : 0 .. 31, f3 : 0 .. 7, rd : 0 .. 31, op : 0 .. 127]

-----------------------------------------------------------------------------
(* Encodings                                                               *)

Code1(op) == [op |-> op]
Code3(op, f3) == [op |-> op, f3 |-> f3]
Code6(op, f3, f6) == [op |-> op, f3 |-> f3, f6 |-> f6]
Code7(op, f3, f7) == [op |-> op, f3 |-> f3, f7 |-> f7]
System(f7, rs2) == [op |-> \h73, rd |-> 0, f3 |-> 0, rs1 |-> 0, rs2 |-> rs2, f7 |-> f7]

ImmediateCodes ==
  [andi |-> Code3(\h13, 7), addi |-> Code3(\h13, 0), slti |-> Code3(\h13, 2),
   sltiu |-> Code3(\h13, 3), ori |-> Code3(\h13, 6), xori |-> Code3(\h13, 4),
   slli |-> Code6(\h13, 1, 0), srli |-> Code6(\h13, 5, 0), srai |-> Code6(\h13, 5, 16)]

UpperCodes == [lui |-> Code1(\h37), auipc |-> Code1(\h17)]

RegisterCodes ==
  [add |-> Code7(\h33, 0, 0), sub |-> Code7(\h33, 0, 32), slt |-> Code7(\h33, 2, 0),
   sltu |-> Code7(\h33, 3, 0), xor |-> Code7(\h33, 4, 0), or |-> Code7(\h33, 6, 0),
   and |-> Code7(\h33, 7, 0), sll |-> Code7(\h33, 1, 0), srl |-> Code7(\h33, 5, 0),
   sra |-> Code7(\h33, 5, 32)]

BranchCodes ==
  [jal |-> Code1(\h6f), jalr |-> Code3(\h67, 0),
   beq |-> Code3(\h63, 0), bne |-> Code3(\h63, 1), blt |-> Code3(\h63, 4),
   bge |-> Code3(\h63, 5), bltu |-> Code3(\h63, 6), bgeu |-> Code3(\h63, 7)]

MemoryCodes ==
  [lb |-> Code3(\h03, 0), lh |-> Code3(\h03, 1), lw |-> Code3(\h03, 2),
   lbu |-> Code3(\h03, 4), lhu |-> Code3(\h03, 5), lwu |-> Code3(\h03, 6),
   sb |-> Code3(\h23, 0), sh |-> Code3(\h23, 1), sw |-> Code3(\h23, 2)]

SystemCodes ==
  [ecall |-> System(0, 0), ebreak |-> System(0, 1),
   mret |-> System(24, 2), sret |-> System(8, 2),
   sfence |-> [op |-> \h73, rd |-> 0, f3 |-> 0, f7 |-> 9],
   fence |-> Code3(\h0f, 0), ifence |-> Code3(\h0f, 1)]

CsrCodes ==
  [csrrw |-> Code3(\h73, 1), csrrs |-> Code3(\h73, 2), csrrc |-> Code3(\h73, 3),
   csrrwi |-> Code3(\h73, 5), csrrsi |-> Code3(\h73, 6), csrrci |-> Code3(\h73, 7)]

MultiplyCodes ==
  [mul |-> Code7(\h33, 0, 1), mulh |-> Code7(\h33, 1, 1), mulhsu |-> Code7(\h33, 2, 1),
   mulhu |-> Code7(\h33, 3, 1), div |-> Code7(\h33, 4, 1), divu |-> Code7(\h33, 5, 1),
   rem |-> Code7(\h33, 6, 1), remu |-> Code7(\h33, 7, 1)]

WaitCodes == [wfi |-> [op |-> \h73, rd |-> 0, rs1 |-> 0, rs2 |-> 5, f7 |-> 8]]

Names ==
  DOMAIN ImmediateCodes \cup DOMAIN UpperCodes \cup DOMAIN RegisterCodes \cup DOMAIN BranchCodes
  \cup DOMAIN MemoryCodes \cup DOMAIN SystemCodes \cup DOMAIN CsrCodes \cup DOMAIN MultiplyCodes
  \cup DOMAIN WaitCodes

Encoding ==
  [name \in Names |->
     CASE name \in DOMAIN ImmediateCodes -> ImmediateCodes[name]
       [] name \in DOMAIN UpperCodes     -> UpperCodes[name]
       [] name \in DOMAIN RegisterCodes  -> RegisterCodes[name]
       [] name \in DOMAIN BranchCodes    -> BranchCodes[name]
       [] name \in DOMAIN MemoryCodes    -> MemoryCodes[name]
       [] name \in DOMAIN SystemCodes    -> SystemCodes[name]
       [] name \in DOMAIN CsrCodes       -> CsrCodes[name]
       [] name \in DOMAIN MultiplyCodes  -> MultiplyCodes[name]
       [] OTHER                          -> WaitCodes[name]]

(* A field of a word, or the part of one that a mask keeps.                *)
Part(w, field) ==
  CASE field = "f6" -> w.f7 \div 2
    [] field = "f7p" -> ((w.f7 \div 32) * 32) + (w.f7 % 8)
    [] OTHER -> w[field]

(* (w & mask) == code                                                      *)
Matches(w, code) == \A field \in DOMAIN code : Part(w, field) = code[field]

-----------------------------------------------------------------------------
(* Immediates: signed numbers of 32 bits.                                  *)

SignBit(w) == w.f7 \div 64

(* OPCODE_ITYPE_IMM and typei_imm, storeimm, bimm, jimm20 and imm20.       *)
TypeI(w) == (w.f7 * 32 + w.rs2) - SignBit(w) * 2^12

TypeS(w) == (w.rd + w.f7 * 2^5) - SignBit(w) * 2^12

TypeSB(w) ==
  (w.rd \div 2) * 2 + (w.f7 % 64) * 2^5 + (w.rd % 2) * 2^11 - SignBit(w) * 2^12

TypeUJ(w) ==
  (w.rs2 \div 2) * 2 + (w.f7 % 64) * 2^5 + (w.rs2 % 2) * 2^11
    + (w.f3 + w.rs1 * 2^3) * 2^12 - SignBit(w) * 2^20

TypeU(w) == (w.f3 + w.rs1 * 2^3 + w.rs2 * 2^8 + w.f7 * 2^13 - SignBit(w) * 2^20) * 2^12

(* The 6 bits the simulator shifts by: bit 25 is the lowest of f7.         *)
Shamt(w) == w.rs2 + (w.f7 % 2) * 2^5
=============================================================================
