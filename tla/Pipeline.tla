------------------------------ MODULE Pipeline ------------------------------
(***************************************************************************)
(* From issue to writeback: riscv_issue.v with riscv_pipe_ctrl.v, the      *)
(* load/store unit (module Lsu), riscv_divider.v, and what riscv_csr.v,    *)
(* riscv_exec.v and riscv_multiplier.v add: which result is where, which   *)
(* exception is raised, and when an interrupt is launched.  A step is one  *)
(* rising clock edge.                                                      *)
(*                                                                         *)
(* The fetch unit (module Fetch) offers the instructions of the program in *)
(* order; they are numbered modulo Numbers from each trap on.  What an     *)
(* instruction computes is its number, so that an operand that is not the  *)
(* newest value of its register is seen; a value that has reached the      *)
(* register file in order is File, anything else is Junk.                  *)
(***************************************************************************)
EXTENDS Naturals, Sequences

CONSTANTS
  Reg,          (* register numbers, 0 among them                          *)
  Instructions, (* the instructions programs are made of                   *)
  Numbers,      (* bound: instructions are numbered modulo Numbers         *)
  DivCycles,    (* cycles of a division, 32 in the code                    *)
  LoadBypass,   (* SUPPORT_LOAD_BYPASS                                     *)
  MulBypass,    (* SUPPORT_MUL_BYPASS                                      *)
  FifoDepth,    (* depth of the FIFO of the load/store unit                *)
  LateMaintenance,  (* the data cache may let a maintenance request wait   *)
  StrayCsr      (* a word that fetch drops may look like a CSR instruction *)

(* fault: a fetch that failed; badbranch: taken, to a misaligned target;   *)
(* cacheop: a CSR instruction that maintains the data cache; barrier: one  *)
(* that flushes the pipeline (fence.i, sfence, a write of satp).           *)
CsrKind == {"csr", "ecall", "xret", "barrier", "cacheop", "fault"}
Kind == {"alu", "branch", "badbranch", "load", "store", "mul", "div"} \cup CsrKind

Instruction == [kind : Kind, rd : Reg, src : SUBSET Reg]

ASSUME PipelineAssumption ==
  /\ Reg \subseteq Nat /\ 0 \in Reg
  /\ Instructions \subseteq Instruction
  /\ Numbers \in Nat /\ Numbers > 4
  /\ DivCycles \in Nat \ {0}
  /\ LoadBypass \in BOOLEAN /\ MulBypass \in BOOLEAN
  /\ FifoDepth \in Nat \ {0, 1}
  /\ LateMaintenance \in BOOLEAN /\ StrayCsr \in BOOLEAN

Seq0    == 0 .. Numbers - 1
File    == Numbers
Junk    == Numbers + 1
Value   == Seq0 \cup {File, Junk}

(* What ends an instruction before its time. *)
Exception == {"none", "trap", "mem", "xret", "barrier", "intr"}

VARIABLES
  dec,          (* what fetch offers: {} or {an instruction}               *)
  bubble,       (* cycles fetch offers nothing after a branch              *)
  nextSeq,      (* the number of the next instruction fetch offers         *)
  e1,           (* registers *_e1_q: {} or {an instruction}                *)
  csrE1,        (* exception_e1_q and rd_result_e1_q of riscv_csr          *)
  e2,           (* registers *_e2_q                                        *)
  wb,           (* registers *_wb_q                                        *)
  squashQ,      (* squash_e1_e2_q                                          *)
  divPending,   (* div_pending_q                                           *)
  csrPending,   (* csr_pending_q                                           *)
  div,          (* div_busy_q, q_mask_q: {} or {a division}                *)
  divDone,      (* valid_q, wb_result_q of the divider                     *)
  takeInterrupt,(* take_interrupt_q                                        *)
  irq,          (* an enabled interrupt is pending, interrupt_w            *)
  branchCsr,    (* branch_q of riscv_csr                                   *)
  held, unalignedE2, pending, fifo, owed,   (* the load/store unit         *)
  file,         (* the register file                                       *)
  newest,       (* history: the newest value of each register              *)
  commit        (* history: the number of the oldest instruction not done  *)

L == INSTANCE Lsu WITH Id <- Seq0

pipeVars == <<e1, csrE1, e2, wb, squashQ, divPending, csrPending, div, divDone,
              takeInterrupt, irq, branchCsr, file>>
vars == <<dec, bubble, nextSeq, pipeVars, held, unalignedE2, pending, fifo,
          owed, newest, commit>>

The(S) == CHOOSE x \in S : TRUE

---------------------------------------------------------------------------
(* The wires.  m: what memory drives (module Lsu).                         *)

Access == L!Access

Stall(m) ==
  \/ \E x \in e1 : x.kind = "div" /\ divDone = {}
  \/ \E x \in e2 : x.kind \in Access /\ ~L!WritebackValid(m)

ExceptionOf(x, m) ==
  IF x.valid /\ x.kind \in Access /\ L!WritebackValid(m)
  THEN IF L!WritebackFault(m) THEN "mem" ELSE "none"
  ELSE x.exc

(* squash_e1_e2_w: the instruction in E2 ends with an exception.           *)
Raises(m) == \E x \in e2 : ExceptionOf(x, m) # "none"

(* Mutation: the squash lasts one cycle only. *)
SquashOnce(m) == Raises(m)

Squash(m) == Raises(m) \/ squashQ

OpcodeValid(m) == dec # {} /\ ~Squash(m) /\ ~branchCsr

(* Mutation: the scoreboard forgets multiplications in E1. *)
ScoreboardLoads ==
  {x.rd : x \in {y \in e1 : y.kind = "load"}} \cup
  {x.rd : x \in {y \in e2 : \/ y.kind = "load" /\ ~LoadBypass
                            \/ y.kind = "mul" /\ ~MulBypass}}

(* Registers whose value cannot be bypassed yet. *)
Scoreboard ==
  {x.rd : x \in {y \in e1 : y.kind \in {"load", "mul"}}} \cup
  {x.rd : x \in {y \in e2 : \/ y.kind = "load" /\ ~LoadBypass
                            \/ y.kind = "mul" /\ ~MulBypass}}

(* Mutation: the rule looks at loads only. *)
AfterLoad(i) ==
  /\ \E x \in e1 : x.kind = "load"
  /\ i.kind \in {"mul", "div"} \cup CsrKind

(* No multiply, division or CSR operation in the cycle after an access.    *)
AfterAccess(i) ==
  /\ \E x \in e1 : x.kind \in Access
  /\ i.kind \in {"mul", "div"} \cup CsrKind

Issue(m) ==
  /\ OpcodeValid(m)
  /\ ~(L!StallUpstream(m) \/ Stall(m) \/ divPending \/ csrPending)
  /\ \A i \in dec : /\ ~AfterAccess(i)
                    /\ (i.src \cup {i.rd}) \cap Scoreboard = {}

FetchAccept(m) == OpcodeValid(m) => Issue(m) /\ ~takeInterrupt

Issued(kinds, m) == Issue(m) /\ \E i \in dec : i.kind \in kinds

(* The same for the units that an interrupt keeps out.                     *)
Launched(kinds, m) == Issued(kinds, m) /\ ~takeInterrupt

(* branch_request_o: a trap, or a branch that is taken.                    *)
BranchRequest(m) == branchCsr \/ Issued({"branch", "badbranch"}, m)

Inhibit(c) ==
  csrPending \/ (IF dec = {} THEN c.stray ELSE The(dec).kind \in CsrKind)

---------------------------------------------------------------------------
(* What is where: results and operands.                                    *)

ExecValue(x) == IF x.kind \in {"alu", "branch", "badbranch"} THEN x.seq ELSE Junk

MemValue(m) ==
  IF L!WritebackValid(m) /\ L!Answered # {} THEN The(L!Answered).id ELSE Junk

ResultE2(x, m) ==
  IF LoadBypass /\ x.kind \in Access THEN MemValue(m)
  ELSE IF MulBypass /\ x.kind = "mul" THEN x.seq
  ELSE x.val

ResultWb(x, m) ==
  IF x.valid /\ x.kind \in Access THEN MemValue(m)
  ELSE IF x.valid /\ x.kind = "mul" THEN x.seq
  ELSE x.val

(* Newest version of operand takes priority. *)
Operand(r, m) ==
  LET inE1 == {x \in e1 : x.rd = r}
      inE2 == {x \in e2 : x.rd = r /\ x.valid /\ ~Stall(m)}
      inWb == {x \in wb : x.rd = r /\ x.valid /\ ~Stall(m)}
  IN IF inE1 # {} THEN ExecValue(The(inE1))
     ELSE IF inE2 # {} THEN ResultE2(The(inE2), m)
     ELSE IF inWb # {} THEN The(inWb).val
     ELSE file[r]

---------------------------------------------------------------------------
(* The registers.                                                          *)

StageE1(m) ==
  e1' = IF Stall(m) THEN e1
        ELSE IF Issue(m) /\ ~Squash(m)
          THEN {[kind |-> IF takeInterrupt THEN "intr" ELSE i.kind,
                 rd   |-> IF takeInterrupt THEN 0 ELSE i.rd,
                 seq  |-> i.seq,
                 exc  |-> IF i.kind \in {"fault", "badbranch"} THEN "trap"
                          ELSE "none"] : i \in dec}
        ELSE {}

EarlyException(kind) ==
  CASE kind \in {"ecall", "fault"} -> "trap"
    [] kind = "xret"    -> "xret"
    [] kind = "barrier" -> "barrier"
    [] OTHER            -> "none"

(* The CSR unit answers in E1, for one cycle, whether E1 stalls or not.    *)
CsrUnit(m) ==
  csrE1' = IF Issue(m) /\ ~takeInterrupt
           THEN {[exc |-> EarlyException(i.kind), seq |-> i.seq] : i \in dec}
           ELSE {}

ValueE1(x) ==
  IF x.kind = "div" THEN IF divDone = {} THEN Junk ELSE The(divDone)
  ELSE IF x.kind \in CsrKind THEN IF csrE1 = {} THEN Junk ELSE The(csrE1).seq
  ELSE ExecValue(x)

ExceptionE1(x) ==
  IF x.kind = "intr" THEN "intr"
  ELSE IF x.exc # "none" THEN x.exc
  ELSE IF csrE1 = {} THEN "none" ELSE The(csrE1).exc

StageE2(m) ==
  e2' = IF Stall(m) THEN e2
        ELSE IF Squash(m) THEN {}
        ELSE {[kind |-> x.kind, rd |-> x.rd, seq |-> x.seq,
               valid |-> x.kind = "intr" \/ x.exc = "none",
               exc |-> ExceptionE1(x), val |-> ValueE1(x)] : x \in e1}

Squashing(m) ==
  squashQ' = IF Stall(m) THEN squashQ ELSE Raises(m)

(* What writeback needs of an instruction: an exception keeps it from      *)
(* writing a register.                                                     *)
StageWb(m) ==
  wb' = IF Stall(m) THEN wb
        ELSE {[csr   |-> x.kind \in CsrKind,
               sets  |-> x.kind = "csr",
               rd    |-> IF ExceptionOf(x, m) # "none" THEN 0 ELSE x.rd,
               seq   |-> x.seq,
               valid |-> x.valid /\ ExceptionOf(x, m) # "mem",
               exc   |-> ExceptionOf(x, m),
               val   |-> ResultWb(x, m)] : x \in e2}

RegisterFile(m) ==
  file' = [r \in Reg |->
             IF ~Stall(m) /\ \E x \in wb : x.valid /\ x.rd = r /\ r # 0
             THEN IF \E x \in wb : x.val = x.seq THEN File ELSE Junk
             ELSE file[r]]

(* A division ends for the issue stage when the divider is done, or when   *)
(* it is squashed.                                                         *)
DivPending(m) ==
  divPending' = IF Squash(m) THEN FALSE
                ELSE Issued({"div"}, m) \/ (divPending /\ divDone = {})

(* Mutation: a squash does not end a CSR operation. *)
CsrPendingKept(m) ==
  csrPending' = \/ Launched(CsrKind, m)
                \/ csrPending /\ ~(~Stall(m) /\ \E x \in wb : x.csr)

CsrPending(m) ==
  csrPending' = IF Squash(m) THEN FALSE
                ELSE \/ Launched(CsrKind, m)
                     \/ csrPending /\ ~(~Stall(m) /\ \E x \in wb : x.csr)

DivComplete == \E v \in div : v.left = 0

Divider(m) ==
  /\ div' = IF Issued({"div"}, m)
            THEN {[id |-> i.seq, left |-> DivCycles] : i \in dec}
            ELSE {[v EXCEPT !.left = @ - 1] : v \in {u \in div : u.left > 0}}
  /\ divDone' = IF DivComplete THEN {v.id : v \in div} ELSE {}

(* What the CSR file makes of the instruction in writeback.                *)
ChangesCsr ==
  \E x \in wb : \/ x.exc \in {"trap", "mem", "xret", "intr"}
                \/ x.exc = "none" /\ x.sets

Csrs(c) ==
  /\ irq' = IF ChangesCsr THEN c.csr ELSE irq \/ c.rise
  /\ branchCsr' = \E x \in wb : x.exc # "none"

Interrupts(c) == takeInterrupt' = (irq /\ ~Inhibit(c))

LsuIssue(c, m) ==
  IF Launched(Access \cup {"cacheop"}, m)
  THEN {[op |-> i.kind, id |-> i.seq,
         unaligned |-> c.unaligned /\ i.kind \in Access] : i \in dec}
  ELSE {}

---------------------------------------------------------------------------
(* The fetch unit: after a branch nothing is offered for two cycles, then  *)
(* one instruction after the other, each until it is accepted.             *)
Numbered(i, n) == [kind |-> i.kind, rd |-> i.rd, src |-> i.src, seq |-> n]

Offers(m) == bubble = 0 /\ (dec = {} \/ FetchAccept(m)) /\ ~BranchRequest(m)

FetchUnit(c, m) ==
  /\ dec' = IF BranchRequest(m) THEN {}
            ELSE IF Offers(m) THEN {Numbered(i, nextSeq) : i \in c.offer}
            ELSE dec
  /\ bubble' = IF BranchRequest(m) THEN 1 ELSE IF bubble > 0 THEN bubble - 1 ELSE 0
  /\ nextSeq' = IF branchCsr THEN 0
                ELSE IF Offers(m) /\ c.offer # {} THEN (nextSeq + 1) % Numbers
                ELSE nextSeq

(* History: an instruction that is issued is the newest to write its       *)
(* register; what an exception squashes never wrote, but a barrier has     *)
(* been executed.                                                          *)
History(m) ==
  /\ newest' =
       [r \in Reg |->
          IF ~Stall(m) /\ Raises(m)
          THEN IF \E x \in e2 : x.rd = r /\ r # 0 /\ ExceptionOf(x, m) = "barrier"
               THEN The(e2).seq ELSE File
          ELSE IF Issue(m) /\ ~takeInterrupt /\ r # 0 /\ \E i \in dec : i.rd = r
               THEN The(dec).seq
          ELSE IF ~Stall(m) /\ \E x \in wb : x.valid /\ x.rd = r /\ x.seq = newest[r]
               THEN File
          ELSE newest[r]]
  /\ commit' = IF branchCsr THEN 0
               ELSE IF wb # {} /\ ~Stall(m) THEN (commit + 1) % Numbers
               ELSE commit

(* The cycle after reset: the branch to the reset vector is requested.     *)
Init ==
  /\ dec = {} /\ bubble = 0 /\ nextSeq = 0
  /\ e1 = {} /\ csrE1 = {} /\ e2 = {} /\ wb = {}
  /\ squashQ = FALSE /\ divPending = FALSE /\ csrPending = FALSE
  /\ div = {} /\ divDone = {}
  /\ takeInterrupt = FALSE /\ irq = FALSE /\ branchCsr = TRUE
  /\ file = [r \in Reg |-> File]
  /\ newest = file /\ commit = 0
  /\ L!Init

Clock(c, m) ==
  /\ StageE1(m) /\ CsrUnit(m) /\ StageE2(m) /\ Squashing(m) /\ StageWb(m)
  /\ RegisterFile(m) /\ DivPending(m) /\ CsrPending(m) /\ Divider(m)
  /\ Csrs(c) /\ Interrupts(c)
  /\ L!Clock(LsuIssue(c, m), m)
  /\ FetchUnit(c, m) /\ History(m)

(* What the parts around drive, varied where it is looked at.  unaligned:   *)
(* the address of a load or store; stray: what the decoder makes of no     *)
(* instruction; rise: a new interrupt; csr: what is pending and enabled    *)
(* after a change of a CSR; offer: what fetch has next.                    *)
If(b) == IF b THEN BOOLEAN ELSE {FALSE}

CoreInputs(m) ==
  [unaligned : If(\E i \in dec : i.kind \in Access),
   stray     : If(dec = {} /\ StrayCsr),
   rise      : If(~irq),
   csr       : If(ChangesCsr),
   offer     : IF Offers(m) THEN {{}} \cup {{i} : i \in Instructions} ELSE {{}}]

Next == \E m \in L!MemoryInputs : \E c \in CoreInputs(m) : Clock(c, m)

Spec == Init /\ [][Next]_vars

---------------------------------------------------------------------------
(* Properties.                                                             *)

Stage == [kind : Kind \cup {"intr"}, rd : Reg, seq : Seq0, exc : Exception]

(* Every register holds a value of its width. *)
TypeOK ==
  /\ e1 \in {{}} \cup {{x} : x \in Stage}
  /\ \A x \in e2 : x.val \in Value /\ x.exc \in Exception /\ x.seq \in Seq0
  /\ \A x \in wb : x.val \in Value /\ x.exc \in Exception /\ x.seq \in Seq0
  /\ \A v \in div : v.left \in 0 .. DivCycles
  /\ file \in [Reg -> Value] /\ newest \in [Reg -> Value]
  /\ commit \in Seq0 /\ nextSeq \in Seq0 /\ bubble \in 0 .. 1
  /\ Len(fifo) <= FifoDepth /\ owed <= FifoDepth

(* An instruction is issued with the newest value of every register it     *)
(* reads ("Newest version of operand takes priority"), wherever that value *)
(* is and whatever stalls or is squashed around it.                        *)
OperandsCurrent ==
  \A m \in L!MemoryInputs :
    Issue(m) => \A i \in dec : \A r \in i.src \ {0} : Operand(r, m) = newest[r]

(* Instructions reach writeback in program order, each once; the one that  *)
(* raises an exception is the oldest not done, nothing after it is left in *)
(* the pipeline or issued, and what comes next comes from the trap.        *)
PreciseExceptions ==
  /\ \A x \in wb : x.seq = commit
  /\ (\E x \in wb : x.exc # "none") \/ branchCsr =>
       /\ e1 = {} /\ e2 = {}
       /\ \A m \in L!MemoryInputs : ~Issue(m)

(* What lasts for one cycle never meets a stall: a result of the CSR unit, *)
(* an exception in writeback (taken twice it would save the wrong state),  *)
(* and the end of a division behind an access.                             *)
NothingMissed ==
  \A m \in L!MemoryInputs :
    Stall(m) =>
      /\ \A x \in e1 : x.kind \notin CsrKind
      /\ \A x \in wb : x.exc = "none"
      /\ (\E x \in e1 : x.kind = "div") => \A x \in e2 : x.kind \notin Access

(* The access is that of the instruction in E2, or in E1 and on its way    *)
(* there.                                                                  *)
Executed(o, m) ==
  \/ \E x \in e2 : x.seq = o.id /\ x.kind = o.op
  \/ \E x \in e1 : x.seq = o.id /\ x.kind = o.op /\ ~Squash(m) /\ ~Stall(m)

(* Memory is never asked to read or write for an instruction that is       *)
(* squashed and executed again later.                                      *)
NoSquashedAccess ==
  \A m \in L!MemoryInputs : \A o \in held :
    o.op \in Access /\ L!Issues(m) => Executed(o, m)

(* The answer an access in E2 takes is its own, whatever was squashed      *)
(* before, and there is room to remember what was asked.  Every register   *)
(* keeps to its width.                                                     *)
AnswersBelong ==
  /\ TypeOK
  /\ \A m \in L!MemoryInputs :
       /\ L!WritebackValid(m) =>
            /\ L!Answered # {}
            /\ \A o \in L!Answered, x \in e2 :
                 x.kind \in Access => x.seq = o.id /\ x.kind = o.op
       /\ L!Push(m) => Len(fifo) < FifoDepth

(* Whatever holds instructions back has its cause under way, so that it    *)
(* ends when memory answers: a division the issue stage or E1 waits for is *)
(* being done, a CSR operation is in the pipeline, an access in E2 has its *)
(* operation in the load/store unit, and an operation waits there only for *)
(* an answer that memory owes.                                             *)
NothingWaitsInVain ==
  /\ divPending => div # {} \/ divDone # {}
  /\ csrPending => \/ \E x \in e1 \cup e2 : x.kind \in CsrKind
                   \/ \E x \in wb : x.csr
  /\ \A x \in e1 : x.kind = "div" =>
       divDone = {x.seq} \/ \E v \in div : v.id = x.seq
  /\ \A x \in e2 : x.kind \in Access =>
       \/ \E o \in held : o.id = x.seq
       \/ \E n \in 1 .. Len(fifo) : fifo[n].id = x.seq
  /\ pending <=> owed > 0
  /\ Len(fifo) = owed + (IF unalignedE2 THEN 1 ELSE 0)

=============================================================================
