------------------------------ MODULE Privileged ------------------------------
(***************************************************************************)
(* The privileged architecture as riscv_isa.h and riscv_defs.v define it:  *)
(* levels, the bits of the status and interrupt registers, and the CSRs.   *)
(*                                                                         *)
(* A word is the set of its bits that are 1, so that | is \cup, & is \cap, *)
(* & ~ is \ and the constant 1 << n is {n}.                                *)
(***************************************************************************)
EXTENDS Naturals

Weights == <<1, 2, 4, 8, 16, 32, 64, 128>>

Word(n) == {b \in 0 .. 7 : (n \div Weights[b + 1]) % 2 = 1}

(* Programs live in the first three words, and wrap: bound. *)
Pcs == {Word(0), Word(4), Word(8)}

Plus4 ==
  [pc \in Pcs |-> CHOOSE next \in Pcs :
     \E n \in {0, 4, 8} : pc = Word(n) /\ next = Word((n + 4) % 12)]

---------------------------------------------------------------------------
(* Levels and the status register.                                         *)

PRIV_USER    == 0
PRIV_SUPER   == 1
PRIV_MACHINE == 3
Level        == {PRIV_USER, PRIV_SUPER, PRIV_MACHINE}

SR_UIE  == {0}
SR_SIE  == {1}
SR_MIE  == {3}
SR_UPIE == {4}
SR_SPIE == {5}
SR_MPIE == {7}
SR_SPP  == {8}
SR_MPP  == {11, 12}
SR_SUM  == {18}

SR_SMODE_MASK == SR_UIE \cup SR_SIE \cup SR_UPIE \cup SR_SPIE \cup SR_SPP \cup SR_SUM

Mpp(level) == {11 + b : b \in Word(level)}

SR_GET_MPP(sr) == CHOOSE level \in 0 .. 3 : Mpp(level) = sr \cap SR_MPP

---------------------------------------------------------------------------
(* Interrupts and causes.                                                  *)

IRQ_S_SOFT  == 1
IRQ_M_SOFT  == 3
IRQ_S_TIMER == 5
IRQ_M_TIMER == 7
IRQ_S_EXT   == 9
IRQ_M_EXT   == 11

S_Irqs   == {IRQ_S_SOFT, IRQ_S_TIMER, IRQ_S_EXT}
M_Irqs   == {IRQ_M_SOFT, IRQ_M_TIMER, IRQ_M_EXT}
IRQ_MASK == S_Irqs \cup M_Irqs

MCAUSE_BREAKPOINT      == 3
MCAUSE_ECALL_U         == 8
MCAUSE_PAGE_FAULT_LOAD == 13
Interrupt              == 31           (* the bit MCAUSE_INT               *)

---------------------------------------------------------------------------
(* The registers.  sstatus, sie and sip are views of the machine's.        *)

Csr == {"mstatus", "mie", "mip", "mideleg", "medeleg", "mepc", "mcause", "mtvec", "mscratch",
        "sepc", "scause", "stvec", "stval", "satp", "sscratch"}

Backing(a) ==
  CASE a = "sstatus" -> "mstatus"
    [] a = "sie"     -> "mie"
    [] a = "sip"     -> "mip"
    [] OTHER         -> a

AllOnes == 0 .. 31

Mask(a) ==
  CASE a = "sstatus"             -> SR_SMODE_MASK
    [] a \in {"sie", "sip"}      -> S_Irqs
    [] a \in {"mie", "mip"}      -> IRQ_MASK
    [] a \in {"mcause", "scause"} -> {Interrupt} \cup (0 .. 3)
    [] OTHER                     -> AllOnes

(* Bits 29:28 of the address: the level an access takes. *)
CsrLevel(a) ==
  IF a \in {"sstatus", "sie", "sip", "sepc", "scause", "stvec", "stval", "satp", "sscratch"}
  THEN PRIV_SUPER ELSE PRIV_MACHINE

CsrReset == [a \in Csr |-> {}]
===============================================================================
