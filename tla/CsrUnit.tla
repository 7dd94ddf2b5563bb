-------------------------------- MODULE CsrUnit --------------------------------
(***************************************************************************)
(* Traps, interrupts and CSRs of the core: riscv_csr.v, riscv_csr_regfile.v*)
(* and as much of riscv_issue.v and riscv_pipe_ctrl.v as carries a CSR     *)
(* instruction or a trap from issue to writeback.  A step is one rising    *)
(* clock edge.  Nothing stalls here: what stalls do is in Pipeline.        *)
(*                                                                         *)
(* SUPPORT_SUPER and SUPPORT_MTIMECMP are 1.  mtval, which the simulator   *)
(* lacks, and the counters are left out; the timer is whoever programmed   *)
(* it, and interrupts when it likes.                                       *)
(***************************************************************************)
EXTENDS Simulator

VARIABLES
  reg,          (* csr_*_q, csr_sr_q is reg["mstatus"]                     *)
  mpriv,        (* csr_mpriv_q                                             *)
  irqPriv,      (* irq_priv_q: the level of the interrupts a cycle ago     *)
  mipUpd,       (* csr_mip_upd_q: mip has been read, to be written         *)
  mipNext,      (* csr_mip_next_q: interrupts that came since              *)
  csrE1,        (* rd_valid_e1_q, rd_result_e1_q, csr_wdata_e1_q,          *)
                (* exception_e1_q                                          *)
  takeInterrupt,(* take_interrupt_q                                        *)
  csrPending,   (* csr_pending_q                                           *)
  branchCsr,    (* branch_q                                                *)
  squashQ,      (* squash_e1_e2_q                                          *)
  dec,          (* what fetch offers: {} or {[i, pc]}                      *)
  fetchPc,      (* where fetch goes on                                     *)
  e1, e2, wb    (* the stages of riscv_pipe_ctrl                           *)

regVars  == <<reg, mpriv, irqPriv, mipUpd, mipNext>>
pipeVars == <<csrE1, takeInterrupt, csrPending, branchCsr, squashQ, dec, fetchPc, e1, e2, wb>>
unitVars == <<regVars, pipeVars>>

(* exception_i: its type and its low bits. *)
Exc(type, n) == [type |-> type, n |-> n]
None == Exc("none", 0)

(* Instructions that csr_o of the decoder selects.                         *)
CsrClass == CsrOps \cup {"ecall", "ebreak", "mret", "sret", "fencei", "wfi"}

NoAnswer == [write |-> FALSE, result |-> {}, wdata |-> {}, exc |-> None]

UnitInit(boot) ==
  /\ reg = boot.csr /\ mpriv = boot.mpriv /\ irqPriv = PRIV_MACHINE
  /\ mipUpd = FALSE /\ mipNext = {}
  /\ csrE1 = NoAnswer /\ takeInterrupt = FALSE /\ csrPending = FALSE
  /\ branchCsr = FALSE /\ squashQ = FALSE
  /\ dec = {} /\ fetchPc = {} /\ e1 = {} /\ e2 = {} /\ wb = {}

---------------------------------------------------------------------------
(* Interrupts.                                                             *)

M_Interrupts ==
  IF mpriv < PRIV_MACHINE \/ reg["mstatus"] \cap SR_MIE # {}
  THEN (reg["mip"] \cap reg["mie"]) \ reg["mideleg"] ELSE {}

S_Interrupts ==
  IF mpriv < PRIV_SUPER \/ (mpriv = PRIV_SUPER /\ reg["mstatus"] \cap SR_SIE # {})
  THEN reg["mip"] \cap reg["mie"] \cap reg["mideleg"] ELSE {}

(* interrupt_o *)
Masked == IF M_Interrupts # {} THEN M_Interrupts ELSE S_Interrupts

IrqPriv == IF M_Interrupts # {} THEN PRIV_MACHINE ELSE PRIV_SUPER

---------------------------------------------------------------------------
(* Issue, E1 and E2.                                                       *)

ExceptionE2(x) ==
  IF x.i.op = "pagefault" /\ x.exc = None THEN Exc("trap", MCAUSE_PAGE_FAULT_LOAD) ELSE x.exc

(* squash_e1_e2_w *)
Raises == \E x \in e2 : ExceptionE2(x) # None
Squash == Raises \/ squashQ

OpcodeValid == dec # {} /\ ~Squash /\ ~branchCsr

(* Mutation: an instruction does not wait for the CSR operation before it. *)
IssueOverlapped ==
  /\ OpcodeValid
  /\ \A d \in dec : ~(d.i.op \in CsrClass /\ \E x \in e1 : x.i.op = "pagefault")

(* No CSR operation in the cycle after an access. *)
Issue ==
  /\ OpcodeValid /\ ~csrPending
  /\ \A d \in dec : ~(d.i.op \in CsrClass /\ \E x \in e1 : x.i.op = "pagefault")

IssueCsr == \E d \in dec : d.i.op \in CsrClass

(* csr_opcode_valid_o *)
CsrValid == Issue /\ ~takeInterrupt

(* csr_ren_i and csr_raddr_i: any instruction issued, with bits 31:20 of it. *)
Reads(a) == CsrValid /\ \E d \in dec : Backing(d.i.csr) = a

(* The masks of riscv_defs.v: those of the simulator, but for delegation.   *)
CoreMask(a) == IF a \in {"medeleg", "mideleg"} THEN 0 .. 15 ELSE Mask(a)

RData(a) == reg[Backing(a)] \cap CoreMask(a)

CsrFault(i) == i.op \in CsrOps /\ mpriv < CsrLevel(i.csr)

ReturnLevel(op) == IF op = "mret" THEN PRIV_MACHINE ELSE PRIV_SUPER

(* Exceptions known in E1.  satp_update_w: csrrs and csrrc write when rs1  *)
(* is not x0, whose value is not known to be zero: data # {} stands for it.*)
EarlyException(i) ==
  CASE i.op = "ecall"  -> Exc("trap", MCAUSE_ECALL_U + mpriv)
    [] i.op \in {"mret", "sret"} ->
         IF mpriv < ReturnLevel(i.op) THEN Exc("trap", 2) ELSE Exc("eret", ReturnLevel(i.op))
    [] i.op = "ebreak" -> Exc("trap", MCAUSE_BREAKPOINT)
    [] CsrFault(i)     -> Exc("trap", 2)
    [] i.op = "fencei" -> Exc("fence", 0)
    [] i.op \in CsrOps /\ i.csr = "satp" /\ (i.op = "csrrw" \/ i.data # {}) -> Exc("fence", 0)
    [] OTHER           -> None

(* A CSR instruction writes even when rs1 is x0: what it has read.         *)
Answer(i) ==
  IF i.op \in CsrOps
  THEN [write |-> ~CsrFault(i), result |-> RData(i.csr),
        wdata |-> Updated(i.op, RData(i.csr), i.data), exc |-> EarlyException(i)]
  ELSE [NoAnswer EXCEPT !.exc = EarlyException(i)]

CsrAnswer ==
  csrE1' = IF CsrValid THEN CHOOSE a \in {Answer(d.i) : d \in dec} : TRUE ELSE NoAnswer

StageE1 ==
  e1' = IF Issue THEN {[i |-> d.i, pc |-> d.pc, intr |-> takeInterrupt] : d \in dec} ELSE {}

(* What E1 hands on: an interrupt is launched in place of its instruction. *)
StageE2 ==
  e2' = IF Squash THEN {}
        ELSE {[i |-> x.i, pc |-> x.pc, write |-> csrE1.write, result |-> csrE1.result,
               wdata |-> csrE1.wdata,
               exc |-> IF x.intr THEN Exc("interrupt", 0) ELSE csrE1.exc] : x \in e1}

(* Exception - squash writeback of rd; the write of the CSR goes on.       *)
StageWb ==
  wb' = {[i |-> x.i, pc |-> x.pc, write |-> x.write, result |-> x.result,
          wdata |-> x.wdata, exc |-> ExceptionE2(x),
          rd |-> x.i.op \in CsrOps /\ x.i.rd /\ ExceptionE2(x) = None] : x \in e2}

(* interrupt_inhibit_o *)
Inhibit == csrPending \/ IssueCsr

---------------------------------------------------------------------------
(* Writeback: the next state of the registers.                             *)

TrapTo(level, pc, cause, tval) ==
  IF level = PRIV_MACHINE
  THEN [reg EXCEPT !["mstatus"] = (Saved(@, SR_MIE, SR_MPIE) \ SR_MPP) \cup Mpp(mpriv),
                   !["mepc"] = pc, !["mcause"] = cause]
  ELSE [reg EXCEPT !["mstatus"] = (Saved(@, SR_SIE, SR_SPIE) \ SR_SPP)
                                     \cup (IF mpriv = PRIV_SUPER THEN SR_SPP ELSE {}),
                   !["sepc"] = pc, !["scause"] = cause, !["stval"] = tval]

(* Piority encoded interrupt cause: of the level's own interrupts, or, if  *)
(* there is none, what the register holds.                                 *)
InterruptCause ==
  LET own == Masked \cap (IF irqPriv = PRIV_MACHINE THEN M_Irqs ELSE S_Irqs)
  IN IF own # {} THEN CauseWord(TRUE, Min(own))
     ELSE reg[IF irqPriv = PRIV_MACHINE THEN "mcause" ELSE "scause"]

(* exception_s_w *)
ToSuper(x) == mpriv <= PRIV_SUPER /\ x.exc.n \in reg["medeleg"]

TrapLevel(x) ==
  CASE x.exc.type = "interrupt" -> irqPriv
    [] x.exc.type = "trap"      -> IF ToSuper(x) THEN PRIV_SUPER ELSE PRIV_MACHINE

TrapValue(x) ==
  IF x.exc.type = "trap" /\ x.exc.n = MCAUSE_PAGE_FAULT_LOAD THEN x.i.data ELSE {}

TrapCause(x) ==
  IF x.exc.type = "interrupt" THEN InterruptCause ELSE CauseWord(FALSE, x.exc.n)

Returned(x) ==
  [reg EXCEPT !["mstatus"] =
     IF x.exc.n = PRIV_MACHINE
     THEN (Popped(@, SR_MIE, SR_MPIE) \ SR_MPP) \cup Mpp(PRIV_USER)
     ELSE Popped(@, SR_SIE, SR_SPIE) \ SR_SPP]

(* The write port: a view replaces its own bits and keeps the others.      *)
Written(x) ==
  IF ~x.write THEN reg
  ELSE [reg EXCEPT ![Backing(x.i.csr)] =
          (@ \ CoreMask(x.i.csr)) \cup (x.wdata \cap CoreMask(x.i.csr))]

Retired(x) ==
  CASE x.exc.type \in {"interrupt", "trap"} -> TrapTo(TrapLevel(x), x.pc, TrapCause(x), TrapValue(x))
    [] x.exc.type = "eret"                  -> Returned(x)
    [] OTHER                                -> Written(x)

LevelAfter(x) ==
  CASE x.exc.type \in {"interrupt", "trap"} -> TrapLevel(x)
    [] x.exc.type = "eret" ->
         IF x.exc.n = PRIV_MACHINE THEN SR_GET_MPP(reg["mstatus"])
         ELSE IF reg["mstatus"] \cap SR_SPP # {} THEN PRIV_SUPER ELSE PRIV_USER
    [] OTHER -> mpriv

(* csr_target_o *)
Target(x) ==
  CASE x.exc.type \in {"interrupt", "trap"} ->
         reg[IF TrapLevel(x) = PRIV_MACHINE THEN "mtvec" ELSE "stvec"]
    [] x.exc.type = "eret"  -> reg[IF x.exc.n = PRIV_MACHINE THEN "mepc" ELSE "sepc"]
    [] x.exc.type = "fence" -> Plus4[x.pc]

(* External and timer interrupts: for the level they are delegated to.     *)
Raised(lines) ==
  (IF "ext" \in lines
   THEN {IF IRQ_M_EXT \in reg["mideleg"] THEN IRQ_S_EXT ELSE IRQ_M_EXT} ELSE {})
  \cup
  (IF "timer" \in lines
   THEN {IF IRQ_M_TIMER \in reg["mideleg"] THEN IRQ_S_TIMER ELSE IRQ_M_TIMER} ELSE {})

(* Mutation: interrupts are buffered in the cycle of the read only. *)
BufferOnRead == Reads("mip")

(* buffer_mip_w: mip is between its read and its write. *)
BufferMip == Reads("mip") \/ mipUpd

WritesMip == \E x \in wb : x.write /\ Backing(x.i.csr) = "mip"

Registers(lines) ==
  LET next == mipNext \cup Raised(lines)
      done == IF wb = {} THEN reg ELSE CHOOSE r \in {Retired(x) : x \in wb} : TRUE
  IN /\ reg' = [done EXCEPT !["mip"] = @ \cup next]
     /\ mipNext' = IF BufferMip THEN next ELSE {}
     /\ mpriv' = IF wb = {} THEN mpriv ELSE CHOOSE l \in {LevelAfter(x) : x \in wb} : TRUE
     /\ irqPriv' = IF Masked # {} THEN IrqPriv ELSE irqPriv
     /\ mipUpd' = IF Reads("mip") THEN TRUE
                  ELSE mipUpd /\ ~(WritesMip \/ \E x \in wb : x.exc # None)

---------------------------------------------------------------------------
(* Fetch: offers the instruction at fetchPc, drops what it holds when the  *)
(* CSR unit branches.                                                      *)

Accepts == Issue /\ ~takeInterrupt

Branches == \E x \in wb : x.exc # None

Fetch(offer) ==
  /\ dec' = IF branchCsr THEN {}
            ELSE IF dec = {} \/ Accepts THEN {[i |-> i, pc |-> fetchPc] : i \in offer}
            ELSE dec
  /\ fetchPc' = IF Branches THEN CHOOSE t \in {Target(x) : x \in wb} : TRUE
                ELSE IF ~branchCsr /\ (dec = {} \/ Accepts) /\ offer # {} THEN Plus4[fetchPc]
                ELSE fetchPc

(* One clock: lines are the interrupt inputs, offer what fetch finds.      *)
Clock(lines, offer) ==
  /\ Registers(lines)
  /\ CsrAnswer /\ StageE1 /\ StageE2 /\ StageWb
  /\ takeInterrupt' = (Masked # {} /\ ~Inhibit)
  /\ csrPending' = IF Squash THEN FALSE
                   ELSE IF CsrValid /\ IssueCsr THEN TRUE
                   ELSE csrPending /\ ~\E x \in wb : x.i.op \in CsrClass
  /\ squashQ' = Raises
  /\ branchCsr' = Branches
  /\ Fetch(offer)
===============================================================================
