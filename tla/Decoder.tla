------------------------------ MODULE Decoder ------------------------------
(***************************************************************************)
(* riscv_decoder.v: whether the core takes a word for an instruction,      *)
(* which unit it goes to and whether it writes a register.  The units      *)
(* compare the word again with the encodings of riscv_defs.v, which are    *)
(* those of riscv_isa.h but for INST_ERET, where one encoding stands for   *)
(* the returns of all four levels.                                         *)
(***************************************************************************)
EXTENDS Isa

CONSTANT MulDiv  (* SUPPORT_MULDIV *)

ASSUME DecoderAssumption == MulDiv \in BOOLEAN

Eret == [op |-> \h73, rd |-> 0, f3 |-> 0, rs1 |-> 0, rs2 |-> 2, f7p |-> 0]

Is(w, names) == \E name \in names : Matches(w, Encoding[name])

(* The word shown for a fetch that faulted. *)
NoWord == [f7 |-> 0, rs2 |-> 0, rs1 |-> 0, f3 |-> 0, rd |-> 0, op |-> 0]

(* A load/store, branch, multiplication, ... of the wires of that name.    *)
Exec(w) == Is(w, DOMAIN ImmediateCodes \cup DOMAIN UpperCodes \cup DOMAIN RegisterCodes)
LoadStore(w) == Is(w, DOMAIN MemoryCodes)
Branch(w) == Is(w, DOMAIN BranchCodes)
Mul(w) == MulDiv /\ Is(w, {"mul", "mulh", "mulhsu", "mulhu"})
Div(w) == MulDiv /\ Is(w, {"div", "divu", "rem", "remu"})
CsrOp(w) ==
  \/ Is(w, DOMAIN CsrCodes \cup DOMAIN WaitCodes)
  \/ Is(w, {"ecall", "ebreak", "fence", "ifence", "sfence"})
  \/ Matches(w, Eret)

Invalid(w) ==
  ~ (Exec(w) \/ LoadStore(w) \/ Branch(w) \/ Mul(w) \/ Div(w) \/ CsrOp(w))

(* The units the word is sent to: an invalid one, or a fetch fault, goes to *)
(* the CSR unit, which turns it into an exception.                         *)
Units(w, fault) ==
  LET word == IF fault THEN NoWord ELSE w
      goes == [exec |-> Exec(word), lsu |-> LoadStore(word), branch |-> Branch(word),
               mul |-> Mul(word), div |-> Div(word),
               csr |-> CsrOp(word) \/ Invalid(word) \/ fault]
  IN  {unit \in DOMAIN goes : goes[unit]}

(* A slip: every branch writes a register. *)
RdValidBranches(w) ==
  Exec(w) \/ Branch(w) \/ Is(w, {"lb", "lh", "lw", "lbu", "lhu", "lwu"})
  \/ Is(w, DOMAIN MultiplyCodes) \/ Is(w, DOMAIN CsrCodes)

RdValid(w) ==
  \/ Is(w, {"jalr", "jal"} \cup DOMAIN UpperCodes)
  \/ Is(w, DOMAIN ImmediateCodes \cup DOMAIN RegisterCodes)
  \/ Is(w, {"lb", "lh", "lw", "lbu", "lhu", "lwu"})
  \/ Is(w, DOMAIN MultiplyCodes)
  \/ Is(w, DOMAIN CsrCodes)
=============================================================================
