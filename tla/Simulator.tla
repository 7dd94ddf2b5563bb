------------------------------- MODULE Simulator -------------------------------
(***************************************************************************)
(* The instruction set simulator between its instructions: class Riscv of  *)
(* riscv.cpp with its privileged state, traps, CSRs, interrupts, timer and *)
(* breakpoints.  What ordinary instructions compute is in Instructions,    *)
(* address translation in Mmu.                                             *)
(*                                                                         *)
(* A simulator is a record, and a method an operator from one to the next. *)
(* error() prints and calls exit(-1) whatever its argument terminal says   *)
(* (riscv.cpp:97), so nothing after a call of it happens.                  *)
(***************************************************************************)
EXTENDS Privileged, FiniteSetsExt

CONSTANT TimeWrap   (* bound: the timer wraps at TimeWrap, 2^32 in the code *)

ASSUME SimulatorAssumption == TimeWrap \in Nat \ {0}

(* An instruction: data is what a CSR instruction reads from rs1 or has in *)
(* the word, the address of an access that faults, or is unused.           *)
Instr(op, a, data, rd) == [op |-> op, csr |-> a, data |-> data, rd |-> rd]

CsrOps == {"csrrw", "csrrs", "csrrc"}

(* m_pc, m_pc_x, m_csr_*, m_break; exit: whether the process has ended.    *)
Sim == [pc : Pcs, pcx : Pcs, mpriv : Level, csr : [Csr -> SUBSET AllOnes],
        mtime : 0 .. TimeWrap - 1, mtimecmp : SUBSET (0 .. 7),
        brk : BOOLEAN, exit : {"running", "done", "error"}]

Reset(start) ==
  [pc |-> start, pcx |-> start, mpriv |-> PRIV_MACHINE, csr |-> CsrReset,
   mtime |-> 0, mtimecmp |-> {}, brk |-> FALSE, exit |-> "running"]

Error(s) == [s EXCEPT !.exit = "error"]

---------------------------------------------------------------------------
(* Traps.                                                                  *)

(* Interrupt save and disable: the enable bit moves to its previous bit.   *)
Saved(sr, enable, previous) ==
  ((sr \ previous) \cup (IF sr \cap enable # {} THEN previous ELSE {})) \ enable

Delegated(s, irq, n) ==
  /\ s.mpriv <= PRIV_SUPER
  /\ n \in (IF irq THEN s.csr.mideleg ELSE s.csr.medeleg)

CauseWord(irq, n) == Word(n) \cup (IF irq THEN {Interrupt} ELSE {})

ToSupervisor(s, cause, pc, badaddr) ==
  [s EXCEPT !.mpriv = PRIV_SUPER, !.pc = s.csr.stvec,
     !.csr.mstatus = (Saved(@, SR_SIE, SR_SPIE) \ SR_SPP)
                        \cup (IF s.mpriv = PRIV_SUPER THEN SR_SPP ELSE {}),
     !.csr.sepc = pc, !.csr.scause = cause, !.csr.stval = badaddr]

ToMachine(s, cause, pc) ==
  [s EXCEPT !.mpriv = PRIV_MACHINE, !.pc = s.csr.mtvec,
     !.csr.mstatus = (Saved(@, SR_MIE, SR_MPIE) \ SR_MPP) \cup Mpp(s.mpriv),
     !.csr.mepc = pc, !.csr.mcause = cause]

SimException(s, irq, n, pc, badaddr) ==
  IF Delegated(s, irq, n) THEN ToSupervisor(s, CauseWord(irq, n), pc, badaddr)
  ELSE ToMachine(s, CauseWord(irq, n), pc)

(* Interrupt enable pop. *)
Popped(sr, enable, previous) ==
  (sr \ enable) \cup previous \cup (IF sr \cap previous # {} THEN enable ELSE {})

(* mret and sret assert the level they return from: another one aborts.    *)
Mret(s) ==
  IF s.mpriv # PRIV_MACHINE THEN Error(s)
  ELSE [s EXCEPT !.mpriv = SR_GET_MPP(s.csr.mstatus), !.pc = s.csr.mepc,
          !.csr.mstatus = (Popped(@, SR_MIE, SR_MPIE) \ SR_MPP) \cup Mpp(PRIV_USER)]

Sret(s) ==
  IF s.mpriv # PRIV_SUPER THEN Error(s)
  ELSE [s EXCEPT !.mpriv = IF s.csr.mstatus \cap SR_SPP # {} THEN PRIV_SUPER ELSE PRIV_USER,
          !.pc = s.csr.sepc,
          !.csr.mstatus = Popped(@, SR_SIE, SR_SPIE) \ SR_SPP]

Ecall(s)  == SimException(s, FALSE, MCAUSE_ECALL_U + s.mpriv, s.pc, {})
Ebreak(s) == [SimException(s, FALSE, MCAUSE_BREAKPOINT, s.pc, {}) EXCEPT !.brk = TRUE]

(* A load whose page may not be read: mmu_d_translate raises it.           *)
LoadFault(s, address) ==
  SimException(s, FALSE, MCAUSE_PAGE_FAULT_LOAD, s.pc, address)

---------------------------------------------------------------------------
(* access_csr.                                                             *)

Updated(op, old, data) ==
  CASE op = "csrrw" -> data
    [] op = "csrrs" -> old \cup data
    [] op = "csrrc" -> old \ data

TimerBit(s) == IF IRQ_S_TIMER \in s.csr.mideleg THEN IRQ_S_TIMER ELSE IRQ_M_TIMER

(* CSR_STD: a plain write replaces the variable, the bits of sstatus, sie  *)
(* and sip that a supervisor may not see included.                         *)
StandardAccess(s, op, a, data) ==
  [s EXCEPT !.csr[Backing(a)] = Updated(op, @, data \cap Mask(a))]

(* A write of the time sets the next interrupt and clears the pending one. *)
TimeAccess(s, op, data) ==
  IF op = "csrrc" \/ data = {} THEN s
  ELSE [s EXCEPT !.mtimecmp = data, !.csr.mip = @ \ {TimerBit(s)}]

(* CSR_SIM_CTRL: bits 31:24 are the command, and 0 ends the process.       *)
ControlAccess(s, data) ==
  IF data \cap (24 .. 31) = {} THEN [s EXCEPT !.exit = "done"] ELSE s

Constants == {"misa", "mhartid", "pmpcfg0", "pmpcfg1", "pmpcfg2", "pmpaddr0", "mtimeh"}

AccessCsr(s, op, a, data) ==
  CASE Backing(a) \in Csr -> StandardAccess(s, op, a, data)
    [] a = "mtime"        -> TimeAccess(s, op, data)
    [] a = "sim_ctrl"     -> ControlAccess(s, data)
    [] a \in Constants    -> s
    [] OTHER              -> Error(s)

(* result, for the standard registers. *)
ReadCsr(s, a) == s.csr[Backing(a)] \cap Mask(a)

---------------------------------------------------------------------------
(* execute, step.                                                          *)

Advanced(s) == [s EXCEPT !.pc = Plus4[@]]

(* The instruction itself, up to "Pending interrupt". *)
Instruction(s, i) ==
  LET at == [s EXCEPT !.pcx = s.pc] IN
  CASE i.op = "ecall"     -> Ecall(at)
    [] i.op = "ebreak"    -> Ebreak(at)
    [] i.op = "mret"      -> Mret(at)
    [] i.op = "sret"      -> Sret(at)
    [] i.op \in CsrOps    -> Advanced(AccessCsr(at, i.op, i.csr, i.data))
    [] i.op = "pagefault" -> LoadFault(at, i.data)
    [] i.op = "illegal"   -> Error(at)
    [] OTHER              -> Advanced(at)

Excepts(i) == i.op \in {"ecall", "ebreak", "pagefault", "illegal"}

(* interrupts: those of machine level before those of supervisor level.    *)
Enabled(s) ==
  LET pending == s.csr.mip \cap s.csr.mie
      m_enabled == s.mpriv < PRIV_MACHINE \/ s.csr.mstatus \cap SR_MIE # {}
      s_enabled == \/ s.mpriv < PRIV_SUPER
                   \/ s.mpriv = PRIV_SUPER /\ s.csr.mstatus \cap SR_SIE # {}
      m_interrupts == IF m_enabled THEN pending \ s.csr.mideleg ELSE {}
      s_interrupts == IF s_enabled THEN pending \cap s.csr.mideleg ELSE {}
  IN IF m_interrupts # {} THEN m_interrupts ELSE s_interrupts

(* Only service one interrupt per cycle: the lowest number. *)
Interrupted(s) ==
  IF Enabled(s) = {} THEN s ELSE SimException(s, TRUE, Min(Enabled(s)), s.pc, {})

Executed(s, i) == IF Excepts(i) THEN Instruction(s, i) ELSE Interrupted(Instruction(s, i))

RaiseTimer(s) == [s EXCEPT !.csr.mip = @ \cup {TimerBit(s)}]

Tick(s) ==
  LET t == [s EXCEPT !.mtime = (@ + 1) % TimeWrap]
  IN  IF Word(t.mtime) = t.mtimecmp THEN RaiseTimer(t) ELSE t

(* m_break is set when the instruction executed is at a breakpoint. *)
Step(s, i, breakpoints) ==
  LET t == Executed(s, i)
  IN  IF t.exit # "running" THEN t
      ELSE [Tick(t) EXCEPT !.brk = @ \/ t.pcx \in breakpoints]

SetInterrupt(s) == [s EXCEPT !.csr.mip = @ \cup {IRQ_M_EXT}]
===============================================================================
