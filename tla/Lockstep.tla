------------------------------- MODULE Lockstep -------------------------------
(***************************************************************************)
(* The core and the simulator on one program, as a trace of the core is    *)
(* compared with the simulator: the simulator executes an instruction when *)
(* the core retires it, and takes an interrupt when the core takes one.    *)
(* An interrupt that arrives between the read of mip by an instruction and *)
(* its write comes, for the simulator, after that instruction, which it    *)
(* executes at once.                                                       *)
(*                                                                         *)
(* The simulator is the simpler of the two, and programs that depend on    *)
(* what it leaves out are kept away: CSRs above the current level and      *)
(* illegal instructions (it exits), mret and sret at another level than    *)
(* their own (it aborts), mideleg with only one of the two timer bits, or  *)
(* with MEIP (it raises MEIP and the core SEIP).  Seven more differences   *)
(* are constants, FALSE to keep the case away.                             *)
(***************************************************************************)
EXTENDS CsrUnit

CONSTANTS
  Boots,        (* the registers and the level that boot code leaves       *)
  Program(_),   (* instructions fetch may find, by level                   *)
  MaxCsr,       (* bound: instructions other than nop                      *)
  MaxIrq,       (* bound: interrupts from outside                          *)
  WholeViews,   (* csrrw of sstatus, sie, sip                              *)
  LateMachine,  (* a machine interrupt while a supervisor one is launched  *)
  StrayMip,     (* an instruction that is none of CSR, with mip's address  *)
  AdjacentMip,  (* two accesses of mip or sip without a pause              *)
  SatpRd,       (* a write of satp with a destination register             *)
  WideDelegation, (* a write of medeleg with bits that the core has not    *)
  Undelegated   (* supervisor interrupts enabled for machine level, or     *)
                (* machine ones delegated                                  *)

---------------------------------------------------------------------------
(* Boot code and programs that the simulator is meant for.                 *)

(* Registers that hold addresses of instructions. *)
PcRegs == {"mepc", "sepc", "mtvec", "stvec"}

GoodRegisters(r) ==
  /\ r \in [Csr -> SUBSET AllOnes]
  /\ \A a \in Csr : r[a] \subseteq CoreMask(a)
  /\ \A a \in PcRegs : r[a] \in Pcs

(* Both timer bits or none, and not MEIP. *)
GoodDelegation(d) == (IRQ_S_TIMER \in d <=> IRQ_M_TIMER \in d) /\ IRQ_M_EXT \notin d

(* Interrupts enabled are taken at their own level. *)
OwnLevel(d, w) == w \ d \subseteq M_Irqs /\ w \cap d \subseteq S_Irqs

GoodBoot(b) ==
  /\ b.mpriv \in 0 .. 3
  /\ GoodRegisters(b.csr)
  /\ GoodDelegation(b.csr["mideleg"])
  /\ OwnLevel(b.csr["mideleg"], b.csr["mie"])

(* Delegation is left as boot code made it, addresses are of instructions, *)
(* and no access is above the level.                                       *)
TameAccess(level, i) ==
  /\ Backing(i.csr) \in Csr \ {"mideleg"}
  /\ ~(level < CsrLevel(i.csr))
  /\ Backing(i.csr) \in PcRegs =>
       IF i.op = "csrrw" THEN i.data \in Pcs ELSE i.data = {}
  /\ Backing(i.csr) = "mie" /\ i.op # "csrrc" =>
       \A b \in Boots : OwnLevel(b.csr["mideleg"], i.data \cap Mask(i.csr))

Tame(level, i) ==
  /\ i.data \subseteq AllOnes /\ i.rd \in BOOLEAN
  /\ i.op # "illegal"
  /\ i.op = "mret" => level = PRIV_MACHINE
  /\ i.op = "sret" => level = PRIV_SUPER
  /\ i.op \in CsrOps => TameAccess(level, i)
  /\ i.op \notin CsrOps /\ Backing(i.csr) = "mip" => i.op = "nop" /\ i.csr = "mip"

(* All that the simulator leaves out is kept away. *)
Sound ==
  /\ ~WholeViews /\ ~LateMachine /\ ~StrayMip /\ ~AdjacentMip /\ ~SatpRd
  /\ ~WideDelegation
  /\ \A b \in Boots : GoodBoot(b)
  /\ \A level \in 0 .. 3 : \A i \in Program(level) : Tame(level, i)

ASSUME LockstepAssumption ==
  ~(\/ WholeViews \/ LateMachine \/ StrayMip \/ AdjacentMip
    \/ SatpRd \/ WideDelegation \/ Undelegated) => Sound

---------------------------------------------------------------------------
VARIABLES
  sim,          (* the simulator                                           *)
  late,         (* interrupts it has still to be told of                   *)
  csrs, irqs    (* counters of the bounds                                  *)

vars == <<unitVars, sim, late, csrs, irqs>>

Nop == Instr("nop", "none", {}, FALSE)

Init ==
  \E boot \in Boots :
    /\ UnitInit(boot)
    /\ sim = [Reset({}) EXCEPT !.csr = boot.csr, !.mpriv = boot.mpriv]
    /\ late = {} /\ csrs = 0 /\ irqs = 0

---------------------------------------------------------------------------
(* The simulator's side of a clock.                                        *)

Touches(x, a) == x.i.op \in CsrOps /\ Backing(x.i.csr) = a

(* Between the read of mip and its write, by an instruction that is not    *)
(* squashed in this clock.                                                 *)
MipInFlight ==
  \/ CsrValid /\ \E d \in dec : Touches(d, "mip")
  \/ \E x \in e1 : ~x.intr /\ ~Squash /\ Touches(x, "mip")
  \/ \E x \in e2 : x.exc = None /\ Touches(x, "mip")

Follow(s) ==
  IF wb = {} THEN s
  ELSE LET x == CHOOSE y \in wb : TRUE IN
       IF x.exc.type = "interrupt" THEN Interrupted(s) ELSE Instruction(s, x.i)

Told(s, lines) ==
  LET t == IF "timer" \in lines THEN RaiseTimer(s) ELSE s
  IN  IF "ext" \in lines THEN SetInterrupt(t) ELSE t

---------------------------------------------------------------------------
(* What may happen in a clock.                                             *)

(* The level that the interrupts raised by lines would be taken at.        *)
SupervisorLaunched ==
  \E x \in e2 : x.exc.type = "interrupt" /\ IrqPriv = PRIV_SUPER

Allowed(lines) ==
  SupervisorLaunched /\ ~LateMachine => Raised(lines) \subseteq reg["mideleg"]

Lines == {{}} \cup (IF irqs < MaxIrq THEN {{"ext"}, {"timer"}} ELSE {})

(* An access of mip is in the pipeline.                                    *)
MipBusy == \E x \in e1 \cup e2 \cup wb \cup dec : Touches(x, "mip")

Views == {"sstatus", "sie", "sip"}

(* The registers that delegate have 16 bits in the core.                   *)
Wide(i) ==
  /\ i.op \in {"csrrw", "csrrs"} /\ i.csr = "medeleg"
  /\ ~(i.data \subseteq CoreMask("medeleg"))

Common(i) ==
  /\ i.op = "csrrw" /\ i.csr \in Views => WholeViews
  /\ i.op \in CsrOps /\ i.csr = "satp" /\ i.rd => SatpRd
  /\ Wide(i) => WideDelegation
  /\ i.op = "nop" /\ i.csr = "mip" => StrayMip
  /\ i.op \in CsrOps /\ Backing(i.csr) = "mip" /\ MipBusy => AdjacentMip

Offers ==
  {{Nop}} \cup
  (IF csrs < MaxCsr THEN {{i} : i \in {j \in Program(mpriv) : Common(j)}} ELSE {})

Counted(offer) == IF dec' # dec /\ offer # {Nop} THEN 1 ELSE 0

Cycle(lines, offer) ==
  /\ Clock(lines, offer)
  /\ sim' = IF MipInFlight THEN Follow(sim) ELSE Told(Follow(sim), late \cup lines)
  /\ late' = IF MipInFlight THEN late \cup lines ELSE {}
  /\ csrs' = csrs + Counted(offer)
  /\ irqs' = IF lines = {} THEN irqs ELSE irqs + 1

Next ==
  \E lines \in Lines : Allowed(lines) /\ \E offer \in Offers : Cycle(lines, offer)

Spec == Init /\ [][Next]_vars

---------------------------------------------------------------------------
(* The registers of the core are those of the simulator after every        *)
(* instruction: status, delegation, epc, cause and tval of every trap and  *)
(* return, the level, and the interrupts pending, none of which is lost    *)
(* between the read of mip and its write, or comes back after it.          *)
SameState ==
  /\ reg = Told(sim, late).csr
  /\ mpriv = sim.mpriv

(* What the core retires is what the simulator would execute next, traps   *)
(* and returns having gone to the same place, and the register read from a *)
(* CSR gets the same value.                                                *)
RetirementsAgree ==
  \A x \in wb :
    /\ x.pc = sim.pc
    /\ x.exc.type # "interrupt" /\ x.i.op \in CsrOps =>
         x.rd = x.i.rd /\ x.result = ReadCsr(sim, x.i.csr)
===============================================================================
