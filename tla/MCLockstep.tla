------------------------------ MODULE MCLockstep ------------------------------
(***************************************************************************)
(* A finite instance of Lockstep: machine code that has delegated nothing, *)
(* or software and timer interrupts with two exceptions, and programs at   *)
(* the three levels.                                                       *)
(***************************************************************************)
EXTENDS Lockstep

Boot(level, mideleg, medeleg, mie) ==
  [mpriv |-> level,
   csr   |-> [CsrReset EXCEPT !["mideleg"] = mideleg, !["medeleg"] = medeleg, !["mie"] = mie,
                !["mtvec"] = Word(0), !["stvec"] = Word(8), !["sepc"] = Word(4)]]

MCBoots ==
  {Boot(PRIV_MACHINE, {}, {}, {IRQ_M_SOFT, IRQ_M_TIMER, IRQ_M_EXT}),
   Boot(PRIV_SUPER, {IRQ_S_SOFT, IRQ_S_TIMER, IRQ_M_TIMER},
        {MCAUSE_ECALL_U, MCAUSE_PAGE_FAULT_LOAD},
        {IRQ_S_SOFT, IRQ_S_TIMER, IRQ_M_SOFT, IRQ_M_EXT})}
  \cup
  IF Undelegated
  THEN {Boot(PRIV_MACHINE, {}, {}, {IRQ_S_SOFT, IRQ_M_SOFT, IRQ_M_EXT})} ELSE {}

Csrrw(a, data, rd) == Instr("csrrw", a, data, rd)
Csrrs(a, data, rd) == Instr("csrrs", a, data, rd)
Csrrc(a, data, rd) == Instr("csrrc", a, data, rd)
Plain(op)          == Instr(op, "none", {}, FALSE)

MachineProgram ==
  {Csrrw("mstatus", Mpp(PRIV_SUPER) \cup SR_MPIE \cup SR_SPIE, TRUE),
   Csrrs("mstatus", SR_MIE, FALSE), Csrrs("mip", {}, TRUE),
   Csrrc("mip", {IRQ_M_TIMER, IRQ_M_EXT}, TRUE),
   Csrrs("mip", {IRQ_S_SOFT, IRQ_M_SOFT}, FALSE),
   Csrrw("medeleg", {MCAUSE_ECALL_U}, TRUE), Csrrs("medeleg", {MCAUSE_ECALL_U, 16}, TRUE),
   Plain("mret"), Plain("ecall")}

SuperProgram ==
  {Csrrs("sstatus", SR_SIE, TRUE), Csrrc("sip", {IRQ_S_SOFT, IRQ_S_TIMER}, TRUE),
   Csrrw("satp", {31}, FALSE), Csrrw("satp", {}, TRUE), Csrrw("sstatus", {}, FALSE),
   Plain("sret"), Plain("ecall"), Instr("pagefault", "none", Word(4), FALSE)}

UserProgram == {Plain("ecall"), Plain("ebreak"), Instr("pagefault", "none", Word(4), FALSE)}

MCProgram(level) ==
  (CASE level = PRIV_MACHINE -> MachineProgram
     [] level = PRIV_SUPER   -> SuperProgram
     [] level = PRIV_USER    -> UserProgram
     [] OTHER                -> {})
  \cup {Instr("nop", "mip", {}, FALSE)}
===============================================================================
