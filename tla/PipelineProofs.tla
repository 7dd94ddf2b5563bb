---------------------------- MODULE PipelineProofs ----------------------------
(***************************************************************************)
(* Proofs about Pipeline, for all registers and programs, every length of  *)
(* a division and either setting of the bypasses.  They assume Sound, as   *)
(* Pipeline.cfg does, since the code breaks the properties otherwise.      *)
(***************************************************************************)
EXTENDS Pipeline, Integers, SequenceTheorems, TLAPS

(* A maintenance request is accepted at once; a word that fetch drops does *)
(* not look like a CSR instruction; branches go to aligned targets.        *)
Sound ==
  /\ ~LateMaintenance /\ ~StrayCsr
  /\ \A i \in Instructions : i.kind # "badbranch"

Single(S) == \A x, y \in S : x = y

(* Every register keeps to its range, and holds one thing at most.         *)
TypeInv ==
  /\ TypeOK
  /\ Single(dec) /\ Single(e1) /\ Single(csrE1) /\ Single(e2) /\ Single(wb)
  /\ Single(div) /\ Single(divDone) /\ Single(held)
  /\ \A i \in dec : /\ i.kind \in Kind \ {"badbranch"} /\ i.rd \in Reg
                    /\ i.src \subseteq Reg /\ i.seq \in Seq0
  /\ \A x \in e2 : x.kind \in Kind \cup {"intr"} /\ x.rd \in Reg
  /\ \A x \in wb : x.rd \in Reg
  /\ \A c \in csrE1 : c.seq \in Seq0 /\ c.exc \in {"none", "trap", "xret", "barrier"}
  /\ divDone \subseteq Seq0 /\ div \subseteq [id : Seq0, left : 0 .. DivCycles]
  /\ {squashQ, divPending, csrPending, takeInterrupt, irq, branchCsr} \subseteq BOOLEAN
  /\ {unalignedE2, pending} \subseteq BOOLEAN
  /\ held \subseteq L!Operation

(* An exception in writeback leaves nothing behind it, and becomes a       *)
(* branch in the next cycle.                                               *)
TrapInv ==
  /\ squashQ <=> \E x \in wb : x.exc # "none"
  /\ squashQ \/ branchCsr => e1 = {} /\ e2 = {}
  /\ branchCsr => wb = {} /\ ~squashQ

(* Which instructions may carry an exception, and what may follow one that *)
(* does, or an access.                                                     *)
StageInv ==
  /\ \A x \in e1 : x.kind \notin CsrKind \cup {"intr"} =>
       x.kind # "badbranch" /\ x.exc = "none" /\ \A c \in csrE1 : c.exc = "none"
  /\ \A x \in e2 : /\ x.exc # "none" => x.kind \in CsrKind \cup {"intr"}
                   /\ x.kind \in Access => x.valid
  /\ \A x \in e2, y \in e1 :
       /\ x.kind \in Access => y.kind \notin {"mul", "div"} \cup CsrKind
       /\ x.exc # "none" => y.kind \in CsrKind \cup {"intr"}

(* Behind an interrupt nothing is issued that computes or accesses: it     *)
(* goes on being taken, or a CSR instruction is next.                      *)
IntrInv ==
  /\ takeInterrupt => irq \/ branchCsr
  /\ (\E x \in e1 : x.kind = "intr") =>
       irq /\ ~csrPending /\ (takeInterrupt \/ \E i \in dec : i.kind \in CsrKind)

(* One CSR operation is in the pipeline at a time.                         *)
CsrInv ==
  /\ \A x \in wb : (x.csr /\ x.exc = "none" => csrPending) /\ (x.sets => x.csr)
  /\ \A x \in e1 \cup e2 : x.kind \in CsrKind => csrPending
  /\ \A x \in e1 : x.kind \in CsrKind =>
       (\A y \in e2 : y.kind \notin CsrKind) /\ (\A z \in wb : ~z.csr)
  /\ \A y \in e2 : y.kind \in CsrKind => \A z \in wb : ~z.csr
  /\ csrPending => \/ \E x \in e1 \cup e2 : x.kind \in CsrKind
                   \/ \E x \in wb : x.csr

One(S) == IF S = {} THEN 0 ELSE 1

After(n) == (commit + n) % Numbers

(* The numbers of the instructions from writeback to fetch.                *)
OrderInv ==
  /\ bubble > 0 => dec = {}
  /\ \A x \in wb : x.seq = commit
  /\ \A x \in e2 : x.seq = After(One(wb))
  /\ (\A y \in e2 : y.exc = "none") =>
       /\ \A x \in e1 : x.seq = After(One(wb) + One(e2))
       /\ ~squashQ /\ ~branchCsr /\ (\A x \in e1 : x.kind # "intr") =>
            /\ dec = {} => nextSeq = After(One(wb) + One(e2) + One(e1))
            /\ \A i \in dec : /\ i.seq = After(One(wb) + One(e2) + One(e1))
                              /\ nextSeq = (i.seq + 1) % Numbers

Waits == pending \/ unalignedE2

Of(o, x) == x.seq = o.id /\ x.kind = o.op

(* The load/store unit waits for one answer at a time, that of the access  *)
(* in E2 or of a maintenance request; what it holds is that of E1, or of   *)
(* E2 when it has not been accepted.                                       *)
LsuInv ==
  /\ owed \in {0, 1} /\ (pending <=> owed = 1) /\ ~(pending /\ unalignedE2)
  /\ fifo \in Seq(L!Operation)
  /\ Len(fifo) = IF Waits THEN 1 ELSE 0
  /\ Waits => IF Head(fifo).op = "cacheop"
              THEN pending /\ held = {} /\ \A x \in e1 \cup e2 : x.kind \notin Access
              ELSE /\ \E x \in e2 : Of(Head(fifo), x)
                   /\ unalignedE2 => e1 = {} /\ held = {}
  /\ \A o \in held :
       \/ \E x \in e1 : Of(o, x) /\ (o.op = "cacheop" => ~Waits)
       \/ ~Waits /\ e1 = {} /\ o.op # "cacheop" /\ ~o.unaligned /\ \E x \in e2 : Of(o, x)
  /\ \A x \in e1 : x.kind \in Access => \E o \in held : Of(o, x)
  /\ \A x \in e2 : x.kind \in Access =>
       \/ Waits /\ Of(Head(fifo), x)
       \/ ~Waits /\ e1 = {} /\ \E o \in held : Of(o, x)

(* A division that is waited for is being done.                            *)
DivInv ==
  /\ divPending => div # {} \/ divDone # {}
  /\ \A x \in e1 : x.kind = "div" => divDone = {x.seq} \/ \E v \in div : v.id = x.seq

IInv ==
  /\ TypeInv /\ TrapInv /\ StageInv /\ IntrInv /\ CsrInv /\ OrderInv /\ LsuInv /\ DivInv

-----------------------------------------------------------------------------
(* Numbers modulo Numbers.                                                 *)

LEMMA ModIs ==
  ASSUME NEW a \in Seq0, NEW n \in 0 .. 4
  PROVE  /\ (a + n) % Numbers = IF a + n < Numbers THEN a + n ELSE a + n - Numbers
         /\ (a + n) % Numbers \in Seq0
<1>1. Numbers \in Nat /\ Numbers > 4 /\ a \in Nat /\ a < Numbers /\ n \in Nat /\ n <= 4
  BY PipelineAssumption DEF Seq0
<1>2. CASE a + n < Numbers
  BY <1>1, <1>2 DEF Seq0
<1>3. CASE a + n >= Numbers
  <2>1. a + n = Numbers * 1 + (a + n - Numbers) /\ a + n - Numbers \in 0 .. Numbers - 1
    BY <1>1, <1>3
  <2> QED
    BY <1>1, <1>3, <2>1 DEF Seq0
<1> QED
  BY <1>1, <1>2, <1>3

LEMMA AfterIs ==
  ASSUME commit \in Seq0, NEW n \in 0 .. 4
  PROVE  /\ After(n) \in Seq0
         /\ After(n) = IF commit + n < Numbers THEN commit + n ELSE commit + n - Numbers
  BY ModIs DEF After

LEMMA AfterNone == ASSUME commit \in Seq0 PROVE After(0) = commit
<1>1. 0 \in 0 .. 4 /\ commit + 0 = commit /\ commit < Numbers /\ Numbers \in Nat /\ commit \in Nat
  BY PipelineAssumption DEF Seq0
<1> QED
  BY <1>1, AfterIs

LEMMA AfterOne ==
  ASSUME commit \in Seq0, NEW n \in 0 .. 3
  PROVE  (After(n) + 1) % Numbers = After(n + 1) /\ (After(1) + n) % Numbers = After(n + 1)
<1>1. Numbers \in Nat /\ Numbers > 4 /\ commit \in Nat /\ commit < Numbers
  BY PipelineAssumption DEF Seq0
<1>2. n \in 0 .. 4 /\ n + 1 \in 0 .. 4 /\ 1 \in 0 .. 4 /\ commit + (n + 1) = commit + n + 1
  BY <1>1
<1>3. After(n) \in Seq0 /\ After(1) \in Seq0
  BY <1>2, AfterIs
<1>4. /\ After(n) = IF commit + n < Numbers THEN commit + n ELSE commit + n - Numbers
      /\ After(n + 1) = IF commit + n + 1 < Numbers THEN commit + n + 1 ELSE commit + n + 1 - Numbers
      /\ After(1) = IF commit + 1 < Numbers THEN commit + 1 ELSE commit + 1 - Numbers
  BY <1>1, <1>2, AfterIs
<1>5. /\ (After(n) + 1) % Numbers = IF After(n) + 1 < Numbers THEN After(n) + 1 ELSE After(n) + 1 - Numbers
      /\ (After(1) + n) % Numbers = IF After(1) + n < Numbers THEN After(1) + n ELSE After(1) + n - Numbers
  BY <1>2, <1>3, ModIs
<1> QED
  BY <1>1, <1>4, <1>5

-----------------------------------------------------------------------------
(* The wires.                                                              *)

LEMMA MemoryWires ==
  ASSUME Sound, LsuInv, NEW m \in L!MemoryInputs
  PROVE  /\ m.ack => pending
         /\ m.error => m.ack
         /\ \A o \in held : o.op = "cacheop" => m.accept
         /\ L!Delay(m) <=> pending /\ ~(m.ack /\ ~m.error)
         /\ L!WritebackValid(m) <=> m.ack \/ unalignedE2
         /\ L!WritebackValid(m) => Waits
         /\ m.ack /\ m.error => L!Delay(m)
<1>1. /\ m.ack => owed > 0
      /\ m.error => m.ack
      /\ ~LateMaintenance /\ (\E o \in held : o.op = "cacheop") => m.accept
  BY DEF L!MemoryInputs
<1>2. m.ack => pending
  BY <1>1 DEF LsuInv
<1>3. L!Delay(m) <=> pending /\ ~(m.ack /\ ~m.error)
  BY DEF L!Delay, L!CompleteOk
<1>4. L!WritebackValid(m) <=> m.ack \/ unalignedE2
  BY DEF L!WritebackValid
<1>5. \A o \in held : o.op = "cacheop" => m.accept
  BY <1>1 DEF Sound
<1> QED
  BY <1>1, <1>2, <1>3, <1>4, <1>5 DEF Waits

LEMMA AccessIs == Access = {"load", "store"}
  BY DEF Access, L!Access

(* An access raises an exception only by its answer, whatever else does    *)
(* has it from before.                                                     *)
LEMMA RaisesIs ==
  ASSUME StageInv, NEW m, NEW x \in e2
  PROVE  ExceptionOf(x, m) = IF x.kind \in Access
                               THEN IF L!WritebackValid(m) /\ L!WritebackFault(m) THEN "mem" ELSE "none"
                               ELSE x.exc
<1>1. /\ x.kind \in Access => x.valid /\ x.exc = "none"
  BY AccessIs DEF StageInv, CsrKind
<1> QED
  BY <1>1 DEF ExceptionOf

LEMMA RaisingGoesOn ==
  ASSUME TypeInv, TrapInv, StageInv, NEW m, Raises(m)
  PROVE  /\ ~Stall(m) /\ ~squashQ /\ ~branchCsr
         /\ \A y \in e1 : y.kind \in CsrKind \cup {"intr"} \/ (\E x \in e2 : x.kind \in Access)
<1>1. PICK x \in e2 : ExceptionOf(x, m) # "none"
  BY DEF Raises
<1>2. \A y \in e2 : y = x
  BY DEF TypeInv, Single
<1>3. e2 # {}
  BY <1>1
<1>4. ~squashQ /\ ~branchCsr
  BY <1>3 DEF TrapInv
<1>5. CASE x.kind \in Access
  <2>1. L!WritebackValid(m)
    BY <1>1, <1>5, RaisesIs
  <2>2. \A y \in e1 : y.kind # "div"
    BY <1>5 DEF StageInv
  <2> QED
    BY <1>2, <1>4, <1>5, <2>1, <2>2 DEF Stall
<1>6. CASE x.kind \notin Access
  <2>1. x.exc # "none"
    BY <1>1, <1>6, RaisesIs
  <2>2. \A y \in e1 : y.kind \in CsrKind \cup {"intr"}
    BY <2>1 DEF StageInv
  <2>3. \A y \in e1 : y.kind # "div"
    BY <2>2 DEF CsrKind
  <2> QED
    BY <1>2, <1>4, <1>6, <2>2, <2>3 DEF Stall
<1> QED
  BY <1>5, <1>6

LEMMA StallKeeps ==
  ASSUME TypeInv, TrapInv, StageInv, NEW m, Stall(m)
  PROVE  /\ \A x \in e1 : x.kind \notin CsrKind
         /\ \A x \in wb : x.exc = "none"
         /\ (\E x \in e1 : x.kind = "div") => \A x \in e2 : x.kind \notin Access
         /\ ~squashQ /\ ~branchCsr
<1>1. ~squashQ /\ ~branchCsr
  BY DEF TrapInv, Stall
<1>2. \A x \in wb : x.exc = "none"
  BY <1>1 DEF TrapInv
<1>3. (\E x \in e1 : x.kind = "div") => \A x \in e2 : x.kind \notin Access
  BY DEF StageInv
<1>4. \A x \in e1 : x.kind \notin CsrKind
  <2>1. CASE \E y \in e1 : y.kind = "div" /\ divDone = {}
    BY <2>1 DEF CsrKind, TypeInv, Single
  <2>2. CASE \E x \in e2 : x.kind \in Access
    BY <2>2 DEF StageInv
  <2> QED
    BY <2>1, <2>2 DEF Stall
<1> QED
  BY <1>1, <1>2, <1>3, <1>4

LEMMA IssueWires ==
  ASSUME TypeInv, TrapInv, StageInv, NEW m, Issue(m)
  PROVE  /\ dec # {} /\ ~Raises(m) /\ ~squashQ /\ ~Squash(m) /\ ~branchCsr /\ ~Stall(m)
         /\ ~divPending /\ ~csrPending
         /\ ~L!StallUpstream(m)
         /\ \A i \in dec : \A x \in e1 : x.kind \in Access => i.kind \notin {"mul", "div"} \cup CsrKind
<1>1. /\ OpcodeValid(m)
      /\ ~(L!StallUpstream(m) \/ Stall(m) \/ divPending \/ csrPending)
      /\ \A i \in dec : ~AfterAccess(i)
  BY DEF Issue
<1> QED
  BY <1>1 DEF OpcodeValid, Squash, AfterAccess

-----------------------------------------------------------------------------
(* The stages: where what is in them comes from.                           *)

LEMMA E1Comes ==
  ASSUME TypeInv, TrapInv, StageInv, NEW m, StageE1(m)
  PROVE  /\ Stall(m) => e1' = e1
         /\ ~Stall(m) /\ ~Issue(m) => e1' = {}
         /\ Issue(m) => e1' # {} /\ Single(e1)'
         /\ Issue(m) => \A x \in e1' : \E i \in dec :
              /\ x.seq = i.seq
              /\ takeInterrupt => x.kind = "intr" /\ x.rd = 0
              /\ ~takeInterrupt => x.kind = i.kind /\ x.rd = i.rd
              /\ x.exc = IF i.kind \in {"fault", "badbranch"} THEN "trap" ELSE "none"
         /\ Issue(m) => \A i \in dec : \E x \in e1' :
              /\ x.seq = i.seq
              /\ takeInterrupt => x.kind = "intr" /\ x.rd = 0
              /\ ~takeInterrupt => x.kind = i.kind /\ x.rd = i.rd
<1> DEFINE In(i) == [kind |-> IF takeInterrupt THEN "intr" ELSE i.kind,
                     rd   |-> IF takeInterrupt THEN 0 ELSE i.rd,
                     seq  |-> i.seq,
                     exc  |-> IF i.kind \in {"fault", "badbranch"} THEN "trap" ELSE "none"]
<1>1. Stall(m) => e1' = e1
  BY DEF StageE1
<1>2. ~Stall(m) /\ ~Issue(m) => e1' = {}
  BY DEF StageE1
<1>3. Issue(m) => e1' = {In(i) : i \in dec} /\ ~Stall(m) /\ dec # {}
  <2>1. ~Stall(m) /\ Issue(m) /\ ~Squash(m) => e1' = {In(i) : i \in dec}
    BY DEF StageE1
  <2> QED
    BY <2>1, IssueWires
<1>4. Single(dec)
  BY DEF TypeInv
<1>5. ASSUME Issue(m) PROVE e1' # {} /\ Single(e1)'
  BY <1>3, <1>4, <1>5 DEF Single
<1>6. \A i : /\ In(i).seq = i.seq
             /\ takeInterrupt => In(i).kind = "intr" /\ In(i).rd = 0
             /\ ~takeInterrupt => In(i).kind = i.kind /\ In(i).rd = i.rd
             /\ In(i).exc = IF i.kind \in {"fault", "badbranch"} THEN "trap" ELSE "none"
  OBVIOUS
<1> HIDE DEF In
<1> QED
  BY <1>1, <1>2, <1>3, <1>5, <1>6

LEMMA E2Comes ==
  ASSUME NEW m, StageE2(m)
  PROVE  /\ Stall(m) => e2' = e2
         /\ ~Stall(m) /\ Squash(m) => e2' = {}
         /\ ~Stall(m) /\ ~Squash(m) =>
              /\ e2' = {} <=> e1 = {}
              /\ Single(e1) => Single(e2)'
              /\ \A y \in e2' : \E x \in e1 :
                   /\ y.kind = x.kind /\ y.rd = x.rd /\ y.seq = x.seq
                   /\ y.valid <=> x.kind = "intr" \/ x.exc = "none"
                   /\ y.exc = ExceptionE1(x) /\ y.val = ValueE1(x)
              /\ \A x \in e1 : \E y \in e2' :
                   /\ y.kind = x.kind /\ y.rd = x.rd /\ y.seq = x.seq
                   /\ y.valid <=> x.kind = "intr" \/ x.exc = "none"
                   /\ y.exc = ExceptionE1(x) /\ y.val = ValueE1(x)
<1> DEFINE In(x) == [kind |-> x.kind, rd |-> x.rd, seq |-> x.seq,
                     valid |-> x.kind = "intr" \/ x.exc = "none",
                     exc |-> ExceptionE1(x), val |-> ValueE1(x)]
<1>1. /\ Stall(m) => e2' = e2
      /\ ~Stall(m) /\ Squash(m) => e2' = {}
      /\ ~Stall(m) /\ ~Squash(m) => e2' = {In(x) : x \in e1}
  BY DEF StageE2
<1>2. \A x : /\ In(x).kind = x.kind /\ In(x).rd = x.rd /\ In(x).seq = x.seq
             /\ In(x).valid <=> x.kind = "intr" \/ x.exc = "none"
             /\ In(x).exc = ExceptionE1(x) /\ In(x).val = ValueE1(x)
  OBVIOUS
<1> HIDE DEF In
<1>3. ASSUME ~Stall(m), ~Squash(m) PROVE (e2' = {} <=> e1 = {}) /\ (Single(e1) => Single(e2)')
  <2>1. e2' = {In(x) : x \in e1}
    BY <1>1, <1>3
  <2> QED
    BY <2>1 DEF Single
<1> QED
  BY <1>1, <1>2, <1>3

LEMMA WbComes ==
  ASSUME NEW m, StageWb(m)
  PROVE  /\ Stall(m) => wb' = wb
         /\ ~Stall(m) =>
              /\ wb' = {} <=> e2 = {}
              /\ Single(e2) => Single(wb)'
              /\ \A y \in wb' : \E x \in e2 :
                   /\ y.seq = x.seq /\ (y.csr <=> x.kind \in CsrKind) /\ (y.sets <=> x.kind = "csr")
                   /\ y.rd = IF ExceptionOf(x, m) # "none" THEN 0 ELSE x.rd
                   /\ y.valid <=> x.valid /\ ExceptionOf(x, m) # "mem"
                   /\ y.exc = ExceptionOf(x, m) /\ y.val = ResultWb(x, m)
              /\ \A x \in e2 : \E y \in wb' :
                   /\ y.seq = x.seq /\ (y.csr <=> x.kind \in CsrKind) /\ (y.sets <=> x.kind = "csr")
                   /\ y.rd = IF ExceptionOf(x, m) # "none" THEN 0 ELSE x.rd
                   /\ y.valid <=> x.valid /\ ExceptionOf(x, m) # "mem"
                   /\ y.exc = ExceptionOf(x, m) /\ y.val = ResultWb(x, m)
<1> DEFINE In(x) == [csr   |-> x.kind \in CsrKind,
                     sets  |-> x.kind = "csr",
                     rd    |-> IF ExceptionOf(x, m) # "none" THEN 0 ELSE x.rd,
                     seq   |-> x.seq,
                     valid |-> x.valid /\ ExceptionOf(x, m) # "mem",
                     exc   |-> ExceptionOf(x, m),
                     val   |-> ResultWb(x, m)]
<1>1. (Stall(m) => wb' = wb) /\ (~Stall(m) => wb' = {In(x) : x \in e2})
  BY DEF StageWb
<1>2. \A x : /\ In(x).seq = x.seq /\ (In(x).csr <=> x.kind \in CsrKind) /\ (In(x).sets <=> x.kind = "csr")
             /\ In(x).rd = IF ExceptionOf(x, m) # "none" THEN 0 ELSE x.rd
             /\ In(x).valid <=> x.valid /\ ExceptionOf(x, m) # "mem"
             /\ In(x).exc = ExceptionOf(x, m) /\ In(x).val = ResultWb(x, m)
  OBVIOUS
<1> HIDE DEF In
<1>3. ASSUME ~Stall(m) PROVE (wb' = {} <=> e2 = {}) /\ (Single(e2) => Single(wb)')
  <2>1. wb' = {In(x) : x \in e2}
    BY <1>1, <1>3
  <2> QED
    BY <2>1 DEF Single
<1> QED
  BY <1>1, <1>2, <1>3

LEMMA CsrComes ==
  ASSUME TypeInv, NEW m, CsrUnit(m)
  PROVE  /\ ~(Issue(m) /\ ~takeInterrupt) => csrE1' = {}
         /\ Single(csrE1)'
         /\ Issue(m) /\ ~takeInterrupt =>
              /\ \A c \in csrE1' : \E i \in dec : c.exc = EarlyException(i.kind) /\ c.seq = i.seq
              /\ \A i \in dec : \E c \in csrE1' : c.exc = EarlyException(i.kind) /\ c.seq = i.seq
<1> DEFINE In(i) == [exc |-> EarlyException(i.kind), seq |-> i.seq]
<1>1. csrE1' = IF Issue(m) /\ ~takeInterrupt THEN {In(i) : i \in dec} ELSE {}
  BY DEF CsrUnit
<1>2. \A i : In(i).exc = EarlyException(i.kind) /\ In(i).seq = i.seq
  OBVIOUS
<1> HIDE DEF In
<1>3. Single(csrE1)'
  BY <1>1 DEF TypeInv, Single
<1> QED
  BY <1>1, <1>2, <1>3

LEMMA TheOnly == ASSUME NEW S, Single(S), NEW x \in S PROVE The(S) = x
  BY DEF The, Single

-----------------------------------------------------------------------------
(* Exceptions, interrupts and CSR operations.                              *)

LEMMA TrapInvKept ==
  ASSUME IInv, NEW m, NEW c, Clock(c, m)
  PROVE  TrapInv'
<1> USE DEF IInv
<1>1. /\ StageE1(m) /\ StageE2(m) /\ StageWb(m)
      /\ squashQ' = IF Stall(m) THEN squashQ ELSE Raises(m)
      /\ branchCsr' = \E x \in wb : x.exc # "none"
  BY DEF Clock, Squashing, Csrs
<1>2. /\ squashQ <=> \E x \in wb : x.exc # "none"
      /\ squashQ \/ branchCsr => e1 = {} /\ e2 = {}
      /\ squashQ \in BOOLEAN
  BY DEF TrapInv, TypeInv
<1>3. squashQ' <=> \E x \in wb' : x.exc # "none"
  <2>1. CASE Stall(m)
    BY <1>1, <1>2, <2>1, WbComes
  <2>2. CASE ~Stall(m)
    <3>1. squashQ' <=> Raises(m)
      BY <1>1, <2>2
    <3>2. (\E x \in wb' : x.exc # "none") <=> \E x \in e2 : ExceptionOf(x, m) # "none"
      BY <1>1, <2>2, WbComes
    <3> QED
      BY <3>1, <3>2 DEF Raises
  <2> QED
    BY <2>1, <2>2
<1>4. squashQ \/ Raises(m) => ~Stall(m) /\ e1' = {} /\ e2' = {}
  <2> SUFFICES ASSUME squashQ \/ Raises(m) PROVE ~Stall(m) /\ e1' = {} /\ e2' = {}
    OBVIOUS
  <2>1. ~Stall(m)
    BY <1>2, RaisingGoesOn DEF Stall
  <2>2. ~Issue(m) /\ Squash(m)
    BY IssueWires DEF Squash
  <2> QED
    BY <1>1, <2>1, <2>2, E1Comes, E2Comes
<1>5. squashQ' => e1' = {} /\ e2' = {}
  BY <1>1, <1>4
<1>6. branchCsr' => e1' = {} /\ e2' = {} /\ wb' = {} /\ ~squashQ'
  <2> SUFFICES ASSUME branchCsr' PROVE e1' = {} /\ e2' = {} /\ wb' = {} /\ ~squashQ'
    OBVIOUS
  <2>1. squashQ
    BY <1>1, <1>2
  <2>2. e2 = {} /\ ~Stall(m)
    BY <1>2, <1>4, <2>1
  <2>3. wb' = {}
    BY <1>1, <2>2, WbComes
  <2> QED
    BY <1>3, <1>4, <2>1, <2>3
<1> QED
  BY <1>3, <1>5, <1>6 DEF TrapInv

LEMMA StageInvKept ==
  ASSUME IInv, NEW m, NEW c, Clock(c, m)
  PROVE  StageInv'
<1> USE DEF IInv
<1>1. StageE1(m) /\ StageE2(m) /\ CsrUnit(m)
  BY DEF Clock
<1>2. Single(dec) /\ Single(e1) /\ Single(csrE1) /\ \A i \in dec : i.kind \in Kind \ {"badbranch"}
  BY DEF TypeInv
<1>3. \A k \in Kind : k \notin CsrKind => EarlyException(k) = "none"
  BY DEF EarlyException, CsrKind
<1>4. ASSUME NEW x \in e1', x.kind \notin CsrKind \cup {"intr"}
      PROVE  x.kind # "badbranch" /\ x.exc = "none" /\ \A k \in csrE1' : k.exc = "none"
  <2>1. CASE Stall(m)
    <3>1. csrE1' = {} /\ e1' = e1
      BY <1>1, <2>1, E1Comes, CsrComes, IssueWires
    <3> QED
      BY <1>4, <3>1 DEF StageInv
  <2>2. CASE ~Stall(m)
    <3>1. Issue(m)
      BY <1>1, <2>2, E1Comes
    <3>2. PICK i \in dec :
            /\ takeInterrupt => x.kind = "intr"
            /\ ~takeInterrupt => x.kind = i.kind
            /\ x.exc = IF i.kind \in {"fault", "badbranch"} THEN "trap" ELSE "none"
      BY <1>1, <3>1, E1Comes
    <3>3. ~takeInterrupt /\ x.kind = i.kind /\ i.kind \in Kind \ CsrKind /\ i.kind # "badbranch"
      BY <1>2, <1>4, <3>2
    <3>4. x.exc = "none"
      BY <3>2, <3>3 DEF CsrKind
    <3>5. ASSUME NEW k \in csrE1' PROVE k.exc = "none"
      <4>1. PICK j \in dec : k.exc = EarlyException(j.kind)
        BY <1>1, <3>1, <3>3, CsrComes
      <4>2. j = i
        BY <1>2 DEF Single
      <4> QED
        BY <1>3, <3>3, <4>1, <4>2
    <3> QED
      BY <3>3, <3>4, <3>5
  <2> QED
    BY <2>1, <2>2
<1>5. ASSUME NEW y \in e2'
      PROVE  /\ y.exc # "none" => y.kind \in CsrKind \cup {"intr"}
             /\ y.kind \in Access => y.valid
  <2>1. CASE Stall(m)
    BY <1>1, <2>1, E2Comes DEF StageInv
  <2>2. CASE ~Stall(m)
    <3>1. PICK x \in e1 : /\ y.kind = x.kind
                          /\ y.valid <=> x.kind = "intr" \/ x.exc = "none"
                          /\ y.exc = ExceptionE1(x)
      BY <1>1, <2>2, E2Comes
    <3>2. x.kind \notin CsrKind \cup {"intr"} => x.exc = "none" /\ \A k \in csrE1 : k.exc = "none"
      BY DEF StageInv
    <3>3. csrE1 # {} => The(csrE1) \in csrE1
      BY DEF The
    <3>4. x.kind \notin CsrKind \cup {"intr"} => ExceptionE1(x) = "none"
      BY <3>2, <3>3 DEF ExceptionE1
    <3>5. x.kind \in Access => x.kind \notin CsrKind \cup {"intr"}
      BY AccessIs DEF CsrKind
    <3> QED
      BY <3>1, <3>2, <3>4, <3>5
  <2> QED
    BY <2>1, <2>2
<1>6. ASSUME NEW x \in e2', NEW y \in e1'
      PROVE  /\ x.kind \in Access => y.kind \notin {"mul", "div"} \cup CsrKind
             /\ x.exc # "none" => y.kind \in CsrKind \cup {"intr"}
  <2>1. CASE Stall(m)
    BY <1>1, <2>1, E1Comes, E2Comes DEF StageInv
  <2>2. CASE ~Stall(m)
    <3>1. Issue(m)
      BY <1>1, <2>2, E1Comes
    <3>2. PICK i \in dec : (takeInterrupt => y.kind = "intr") /\ (~takeInterrupt => y.kind = i.kind)
      BY <1>1, <3>1, E1Comes
    <3>3. PICK z \in e1 : x.kind = z.kind /\ x.exc = ExceptionE1(z)
      BY <1>1, <2>2, E2Comes
    <3>4. ASSUME x.kind \in Access PROVE y.kind \notin {"mul", "div"} \cup CsrKind
      <4>1. i.kind \notin {"mul", "div"} \cup CsrKind
        BY <3>1, <3>3, <3>4, IssueWires
      <4> QED
        BY <3>2, <4>1 DEF CsrKind
    <3>5. ASSUME x.exc # "none" PROVE y.kind \in CsrKind \cup {"intr"}
      <4>1. z.kind \in CsrKind \cup {"intr"}
        BY <1>5, <3>3, <3>5
      <4>2. z.kind \notin CsrKind
        BY <3>1, IssueWires DEF CsrInv
      <4>3. takeInterrupt \/ \E j \in dec : j.kind \in CsrKind
        BY <4>1, <4>2 DEF IntrInv
      <4> QED
        BY <1>2, <3>2, <4>3 DEF Single
    <3> QED
      BY <3>4, <3>5
  <2> QED
    BY <2>1, <2>2
<1> QED
  BY <1>4, <1>5, <1>6 DEF StageInv

LEMMA InputsAre ==
  ASSUME NEW m, NEW c \in CoreInputs(m)
  PROVE  /\ Sound => ~c.stray
         /\ c.unaligned \in BOOLEAN /\ c.csr \in BOOLEAN /\ c.rise \in BOOLEAN
         /\ c.offer = {} \/ \E i \in Instructions : c.offer = {i}
         /\ ~Offers(m) => c.offer = {}
<1>1. /\ c.unaligned \in If(\E i \in dec : i.kind \in Access)
      /\ c.stray \in If(dec = {} /\ StrayCsr)
      /\ c.rise \in If(~irq)
      /\ c.csr \in If(ChangesCsr)
      /\ c.offer \in IF Offers(m) THEN {{}} \cup {{i} : i \in Instructions} ELSE {{}}
  BY DEF CoreInputs
<1>2. \A b : If(b) \subseteq BOOLEAN /\ (~b => If(b) = {FALSE})
  BY DEF If
<1>3. Sound => c.stray = FALSE
  BY <1>1, <1>2 DEF Sound
<1> QED
  BY <1>1, <1>2, <1>3

(* An instruction stays on offer until it is accepted. *)
LEMMA OfferStays ==
  ASSUME NEW m, NEW c, FetchUnit(c, m), dec # {}, ~Squash(m), ~branchCsr,
         ~Issue(m) \/ takeInterrupt,
         Issue(m) => \A i \in dec : i.kind \notin {"branch", "badbranch"}
  PROVE  dec' = dec /\ nextSeq' = nextSeq
<1>1. OpcodeValid(m) /\ ~FetchAccept(m)
  BY DEF OpcodeValid, FetchAccept
<1>2. ~BranchRequest(m)
  BY DEF BranchRequest, Issued
<1>3. ~Offers(m)
  BY <1>1 DEF Offers
<1> QED
  BY <1>2, <1>3 DEF FetchUnit

LEMMA IntrInvKept ==
  ASSUME IInv, Sound, NEW m, NEW c \in CoreInputs(m), Clock(c, m)
  PROVE  IntrInv'
<1> USE DEF IInv
<1>1. /\ StageE1(m) /\ FetchUnit(c, m) /\ CsrPending(m)
      /\ irq' = IF ChangesCsr THEN c.csr ELSE irq \/ c.rise
      /\ branchCsr' = \E x \in wb : x.exc # "none"
      /\ takeInterrupt' = (irq /\ ~Inhibit(c))
  BY DEF Clock, Csrs, Interrupts
<1>2. Single(dec) /\ \A i \in dec : i.kind \in Kind \ {"badbranch"}
  BY DEF TypeInv
<1>3. /\ \A x \in wb : (x.csr /\ x.exc = "none" => csrPending) /\ (x.sets => x.csr)
      /\ squashQ <=> \E x \in wb : x.exc # "none"
  BY DEF CsrInv, TrapInv
<1>4. ~csrPending /\ ~squashQ => ~ChangesCsr
  BY <1>3 DEF ChangesCsr
<1>5. Inhibit(c) <=> csrPending \/ \E i \in dec : i.kind \in CsrKind
  <2>1. dec = {} => (Inhibit(c) <=> csrPending)
    BY InputsAre DEF Inhibit
  <2>2. ASSUME NEW i \in dec PROVE Inhibit(c) <=> csrPending \/ \E j \in dec : j.kind \in CsrKind
    <3>1. The(dec) = i
      BY <1>2, TheOnly
    <3> QED
      BY <1>2, <3>1 DEF Inhibit, Single
  <2> QED
    BY <2>1, <2>2
<1>6. takeInterrupt' => irq' \/ branchCsr'
  BY <1>1, <1>3, <1>4, <1>5
<1>7. ASSUME NEW x \in e1', x.kind = "intr"
      PROVE  irq' /\ ~csrPending' /\ (takeInterrupt' \/ \E i \in dec' : i.kind \in CsrKind)
  <2>1. CASE Stall(m)
    <3>1. irq /\ ~csrPending /\ (takeInterrupt \/ \E i \in dec : i.kind \in CsrKind)
      BY <1>1, <1>7, <2>1, E1Comes DEF IntrInv
    <3>2. ~Issue(m) /\ ~squashQ /\ ~branchCsr /\ ~Raises(m)
      BY <2>1, IssueWires, StallKeeps, RaisingGoesOn
    <3>3. irq'
      BY <1>1, <1>4, <3>1, <3>2
    <3>4. ~csrPending'
      BY <1>1, <3>1, <3>2 DEF CsrPending, Launched, Issued
    <3>5. CASE \E i \in dec : i.kind \in CsrKind
      <4>1. dec' = dec
        BY <1>1, <3>2, <3>5, OfferStays DEF Squash
      <4> QED
        BY <3>3, <3>4, <3>5, <4>1
    <3>6. CASE ~\E i \in dec : i.kind \in CsrKind
      BY <1>1, <1>5, <3>1, <3>3, <3>4, <3>6
    <3> QED
      BY <3>5, <3>6
  <2>2. CASE ~Stall(m)
    <3>1. Issue(m)
      BY <1>1, <1>7, <2>2, E1Comes
    <3>2. PICK i \in dec : ~takeInterrupt => x.kind = i.kind
      BY <1>1, <1>7, <3>1, E1Comes
    <3>3. takeInterrupt
      BY <1>2, <1>7, <3>2 DEF Kind, CsrKind
    <3>4. dec # {} /\ ~squashQ /\ ~Squash(m) /\ ~branchCsr /\ ~csrPending
      BY <3>1, IssueWires
    <3>5. irq /\ irq'
      BY <1>1, <1>4, <3>3, <3>4 DEF IntrInv
    <3>6. ~csrPending'
      BY <1>1, <3>3, <3>4 DEF CsrPending, Launched
    <3>7. CASE i.kind \in CsrKind
      <4>1. \A j \in dec : j.kind \notin {"branch", "badbranch"}
        BY <1>2, <3>7 DEF Single, CsrKind
      <4>2. dec' = dec
        BY <1>1, <3>3, <3>4, <4>1, OfferStays
      <4> QED
        BY <3>5, <3>6, <3>7, <4>2
    <3>8. CASE i.kind \notin CsrKind
      BY <1>1, <1>2, <1>5, <3>4, <3>5, <3>6, <3>8 DEF Single
    <3> QED
      BY <3>7, <3>8
  <2> QED
    BY <2>1, <2>2
<1> QED
  BY <1>6, <1>7 DEF IntrInv

LEMMA CsrInvKept ==
  ASSUME IInv, NEW m, NEW c, Clock(c, m)
  PROVE  CsrInv'
<1> USE DEF IInv
<1>1. /\ StageE1(m) /\ StageE2(m) /\ StageWb(m)
      /\ csrPending' = IF Squash(m) THEN FALSE
                       ELSE \/ Launched(CsrKind, m)
                            \/ csrPending /\ ~(~Stall(m) /\ \E x \in wb : x.csr)
  BY DEF Clock, CsrPending
<1>2. Single(dec) /\ Single(e1) /\ Single(e2) /\ Single(wb) /\ csrPending \in BOOLEAN
  BY DEF TypeInv
<1>3. /\ \A x \in wb : (x.csr /\ x.exc = "none" => csrPending) /\ (x.sets => x.csr)
      /\ \A x \in e1 \cup e2 : x.kind \in CsrKind => csrPending
      /\ \A x \in e1 : x.kind \in CsrKind =>
           (\A y \in e2 : y.kind \notin CsrKind) /\ (\A z \in wb : ~z.csr)
      /\ \A y \in e2 : y.kind \in CsrKind => \A z \in wb : ~z.csr
      /\ csrPending => \/ \E x \in e1 \cup e2 : x.kind \in CsrKind
                       \/ \E x \in wb : x.csr
  BY DEF CsrInv
<1>4. /\ Stall(m) => /\ e1' = e1 /\ e2' = e2 /\ wb' = wb /\ ~Issue(m) /\ ~Squash(m)
                     /\ csrPending' = csrPending
      /\ Issue(m) => ~csrPending /\ ~Squash(m) /\ ~Stall(m)
  <2>1. Stall(m) => ~Issue(m) /\ ~Squash(m)
    BY IssueWires, StallKeeps, RaisingGoesOn DEF Squash
  <2>2. Stall(m) => e1' = e1 /\ e2' = e2 /\ wb' = wb
    BY <1>1, E1Comes, E2Comes, WbComes
  <2>3. Stall(m) => csrPending' = csrPending
    BY <1>1, <1>2, <2>1 DEF Launched, Issued
  <2> QED
    BY <2>1, <2>2, <2>3, IssueWires
<1>5. CASE Stall(m)
  BY <1>3, <1>4, <1>5 DEF CsrInv
<1>6. CASE ~Stall(m)
  <2>1. ASSUME NEW x \in e1', x.kind \in CsrKind
        PROVE  Issue(m) /\ csrPending' /\ ~csrPending
    <3>1. Issue(m)
      BY <1>1, <1>6, E1Comes
    <3>2. PICK i \in dec : (takeInterrupt => x.kind = "intr") /\ (~takeInterrupt => x.kind = i.kind)
      BY <1>1, <3>1, E1Comes
    <3>3. Launched(CsrKind, m)
      BY <2>1, <3>1, <3>2 DEF Launched, Issued, CsrKind
    <3> QED
      BY <1>1, <1>4, <3>1, <3>3
  <2>2. ASSUME NEW y \in e2' PROVE ~Squash(m) /\ \E x \in e1 : x.kind = y.kind
    BY <1>1, <1>6, E2Comes
  <2>3. ASSUME NEW z \in wb'
        PROVE  \E y \in e2 : (z.csr <=> y.kind \in CsrKind) /\ (z.sets <=> y.kind = "csr") /\ z.exc = ExceptionOf(y, m)
    BY <1>1, <1>6, WbComes
  <2>4. ASSUME NEW z \in wb' PROVE (z.csr /\ z.exc = "none" => csrPending') /\ (z.sets => z.csr)
    <3>1. PICK y \in e2 : (z.csr <=> y.kind \in CsrKind) /\ (z.sets <=> y.kind = "csr") /\ z.exc = ExceptionOf(y, m)
      BY <2>3
    <3>2. z.sets => z.csr
      BY <3>1 DEF CsrKind
    <3>3. ASSUME z.csr, z.exc = "none" PROVE csrPending'
      <4>1. ~Raises(m)
        BY <1>2, <3>1, <3>3 DEF Raises, Single
      <4>2. ~squashQ
        BY DEF TrapInv
      <4>3. csrPending /\ ~\E x \in wb : x.csr
        BY <1>3, <3>1, <3>3
      <4> QED
        BY <1>1, <4>1, <4>2, <4>3 DEF Squash
    <3> QED
      BY <3>2, <3>3
  <2>5. ASSUME NEW y \in e2', y.kind \in CsrKind
        PROVE  csrPending' /\ \A z \in wb' : ~z.csr
    <3>1. PICK x \in e1 : x.kind = y.kind
      BY <2>2
    <3>2. csrPending /\ (\A v \in e2 : v.kind \notin CsrKind) /\ (\A z \in wb : ~z.csr)
      BY <1>3, <2>5, <3>1
    <3> QED
      BY <1>1, <2>2, <2>3, <3>2
  <2>6. ASSUME NEW x \in e1', x.kind \in CsrKind
        PROVE  (\A y \in e2' : y.kind \notin CsrKind) /\ (\A z \in wb' : ~z.csr)
    <3>1. ~csrPending
      BY <2>1, <2>6
    <3>2. \A y \in e1 \cup e2 : y.kind \notin CsrKind
      BY <1>3, <3>1
    <3> QED
      BY <2>2, <2>3, <3>2
  <2>7. ASSUME csrPending'
        PROVE  \/ \E x \in e1' \cup e2' : x.kind \in CsrKind
               \/ \E x \in wb' : x.csr
    <3>1. ~Squash(m)
      BY <1>1, <2>7
    <3>2. CASE Launched(CsrKind, m)
      <4>1. PICK i \in dec : i.kind \in CsrKind
        BY <3>2 DEF Launched, Issued
      <4>2. Issue(m) /\ ~takeInterrupt
        BY <3>2 DEF Launched, Issued
      <4>3. \E x \in e1' : x.kind = i.kind
        BY <1>1, <4>2, E1Comes
      <4> QED
        BY <4>1, <4>3
    <3>3. CASE csrPending /\ ~\E x \in wb : x.csr
      <4>1. CASE \E x \in e1 : x.kind \in CsrKind
        BY <1>1, <1>6, <3>1, <4>1, E2Comes
      <4>2. CASE \E x \in e2 : x.kind \in CsrKind
        BY <1>1, <1>6, <4>2, WbComes
      <4> QED
        BY <1>3, <3>3, <4>1, <4>2
    <3> QED
      BY <1>1, <1>6, <2>7, <3>1, <3>2, <3>3
  <2> QED
    BY <2>1, <2>4, <2>5, <2>6, <2>7 DEF CsrInv
<1> QED
  BY <1>5, <1>6

-----------------------------------------------------------------------------
(* The divider.                                                            *)

LEMMA DivInvKept ==
  ASSUME IInv, NEW m, NEW c, Clock(c, m)
  PROVE  DivInv'
<1> USE DEF IInv
<1> DEFINE Begin(i) == [id |-> i.seq, left |-> DivCycles]
           Goes(v) == [v EXCEPT !.left = @ - 1]
<1>1. /\ StageE1(m)
      /\ divPending' = IF Squash(m) THEN FALSE
                       ELSE Issued({"div"}, m) \/ (divPending /\ divDone = {})
      /\ div' = IF Issued({"div"}, m) THEN {Begin(i) : i \in dec}
                ELSE {Goes(v) : v \in {u \in div : u.left > 0}}
      /\ divDone' = IF \E v \in div : v.left = 0 THEN {v.id : v \in div} ELSE {}
  BY DEF Clock, DivPending, Divider, DivComplete
<1>2. /\ \A i : Begin(i).id = i.seq
      /\ \A v \in div : Goes(v).id = v.id /\ v.left \in Nat
  BY PipelineAssumption DEF TypeInv
<1> HIDE DEF Begin, Goes
<1>3. ASSUME Issued({"div"}, m)
      PROVE  dec # {} /\ div' = {Begin(i) : i \in dec}
  BY <1>1, <1>3 DEF Issued
<1>4. ASSUME ~Issued({"div"}, m), NEW v \in div
      PROVE  v.id \in divDone' \/ \E w \in div' : w.id = v.id
  <2>1. CASE v.left = 0
    BY <1>1, <2>1
  <2>2. CASE v.left # 0
    <3>1. v.left > 0
      BY <1>2, <2>2
    <3>2. Goes(v) \in div'
      BY <1>1, <1>4, <3>1
    <3> QED
      BY <1>2, <3>2
  <2> QED
    BY <2>1, <2>2
<1>5. ASSUME divPending' PROVE div' # {} \/ divDone' # {}
  <2>1. CASE Issued({"div"}, m)
    BY <1>3, <2>1
  <2>2. CASE ~Issued({"div"}, m)
    <3>1. divPending /\ divDone = {}
      BY <1>1, <1>5, <2>2
    <3>2. PICK v \in div : TRUE
      BY <3>1 DEF DivInv
    <3> QED
      BY <1>4, <2>2, <3>2
  <2> QED
    BY <2>1, <2>2
<1>6. ASSUME NEW x \in e1', x.kind = "div"
      PROVE  divDone' = {x.seq} \/ \E v \in div' : v.id = x.seq
  <2>1. CASE Stall(m)
    <3>1. x \in e1 /\ ~Issue(m)
      BY <1>1, <2>1, E1Comes, IssueWires
    <3>2. divDone = {}
      <4>1. \A y \in e2 : y.kind \notin Access
        BY <1>6, <2>1, <3>1, StallKeeps
      <4> QED
        BY <2>1, <4>1 DEF Stall
    <3>3. PICK v \in div : v.id = x.seq
      BY <1>6, <3>1, <3>2 DEF DivInv
    <3>4. ~Issued({"div"}, m)
      BY <3>1 DEF Issued
    <3>5. CASE v.id \in divDone'
      <4>1. \A w \in div : w = v
        BY DEF TypeInv, Single
      <4>2. divDone' = {w.id : w \in div}
        BY <1>1, <3>5
      <4> QED
        BY <3>3, <4>1, <4>2
    <3> QED
      BY <1>4, <3>3, <3>4, <3>5
  <2>2. CASE ~Stall(m)
    <3>1. Issue(m)
      BY <1>1, <1>6, <2>2, E1Comes
    <3>2. PICK i \in dec :
            x.seq = i.seq /\ (takeInterrupt => x.kind = "intr") /\ (~takeInterrupt => x.kind = i.kind)
      BY <1>1, <3>1, E1Comes
    <3>3. Issued({"div"}, m)
      BY <1>6, <3>1, <3>2 DEF Issued
    <3> QED
      BY <1>2, <1>3, <3>2, <3>3
  <2> QED
    BY <2>1, <2>2
<1> QED
  BY <1>5, <1>6 DEF DivInv

-----------------------------------------------------------------------------
(* The load/store unit.                                                    *)

(* What the issue stage hands over is what enters E1. *)
LEMMA HandedOver ==
  ASSUME IInv, NEW m, NEW c \in CoreInputs(m), StageE1(m)
  PROVE  /\ LsuIssue(c, m) \subseteq L!Operation /\ Single(LsuIssue(c, m))
         /\ ~Issue(m) => LsuIssue(c, m) = {}
         /\ \A o \in LsuIssue(c, m) : \E x \in e1' : Of(o, x)
         /\ \A o \in LsuIssue(c, m) : o.op = "cacheop" => \A x \in e1 : x.kind \notin Access
         /\ Issue(m) => \A x \in e1' : x.kind \in Access => \E o \in LsuIssue(c, m) : Of(o, x)
<1> USE DEF IInv
<1> DEFINE Given(i) == [op |-> i.kind, id |-> i.seq,
                        unaligned |-> c.unaligned /\ i.kind \in Access]
<1>1. LsuIssue(c, m) = IF Launched(Access \cup {"cacheop"}, m) THEN {Given(i) : i \in dec} ELSE {}
  BY DEF LsuIssue
<1>2. Single(dec) /\ \A i \in dec : i.kind \in Kind \ {"badbranch"} /\ i.seq \in Seq0
  BY DEF TypeInv
<1>3. /\ \A i : Given(i).op = i.kind /\ Given(i).id = i.seq
      /\ \A i \in dec : i.kind \in Access \cup {"cacheop"} => Given(i) \in L!Operation
  <2>1. ASSUME NEW i \in dec, i.kind \in Access \cup {"cacheop"} PROVE Given(i) \in L!Operation
    <3>1. (c.unaligned /\ i.kind \in Access) \in BOOLEAN
      OBVIOUS
    <3>2. (c.unaligned /\ i.kind \in Access) => i.kind # "cacheop"
      BY AccessIs
    <3> QED
      BY <1>2, <2>1, <3>1, <3>2 DEF L!Operation, Access
  <2> QED
    BY <2>1
<1> HIDE DEF Given
<1>4. ASSUME Launched(Access \cup {"cacheop"}, m)
      PROVE  Issue(m) /\ ~takeInterrupt /\ \A i \in dec : i.kind \in Access \cup {"cacheop"}
  BY <1>2, <1>4 DEF Launched, Issued, Single
<1>5. LsuIssue(c, m) \subseteq L!Operation /\ Single(LsuIssue(c, m))
  BY <1>1, <1>2, <1>3, <1>4 DEF Single
<1>6. ~Issue(m) => LsuIssue(c, m) = {}
  BY <1>1, <1>4
<1>7. ASSUME NEW o \in LsuIssue(c, m)
      PROVE  /\ \E x \in e1' : Of(o, x)
             /\ o.op = "cacheop" => \A x \in e1 : x.kind \notin Access
  <2>1. Issue(m) /\ ~takeInterrupt /\ \E i \in dec : o.op = i.kind /\ o.id = i.seq
    BY <1>1, <1>3, <1>4
  <2>2. PICK i \in dec : o.op = i.kind /\ o.id = i.seq
    BY <2>1
  <2>3. \E x \in e1' : x.seq = i.seq /\ x.kind = i.kind
    BY <2>1, E1Comes
  <2>4. o.op = "cacheop" => \A x \in e1 : x.kind \notin Access
    BY <2>1, <2>2, IssueWires DEF CsrKind
  <2> QED
    BY <2>2, <2>3, <2>4 DEF Of
<1>8. ASSUME Issue(m), NEW x \in e1', x.kind \in Access
      PROVE  \E o \in LsuIssue(c, m) : Of(o, x)
  <2>1. PICK i \in dec : /\ x.seq = i.seq
                         /\ takeInterrupt => x.kind = "intr"
                         /\ ~takeInterrupt => x.kind = i.kind
    BY <1>8, E1Comes
  <2>2. ~takeInterrupt /\ x.kind = i.kind
    BY <1>8, <2>1, AccessIs
  <2>3. Launched(Access \cup {"cacheop"}, m)
    BY <1>8, <2>2 DEF Launched, Issued
  <2>4. Given(i) \in LsuIssue(c, m)
    BY <1>1, <2>3
  <2> QED
    BY <1>3, <2>1, <2>2, <2>4 DEF Of
<1> QED
  BY <1>5, <1>6, <1>7, <1>8

(* An access in E1 that waits for no answer goes on to E2. *)
LEMMA AccessGoesOn ==
  ASSUME IInv, Sound, NEW m \in L!MemoryInputs, ~L!Delay(m), NEW x \in e1, x.kind \in Access
  PROVE  ~unalignedE2 /\ ~Stall(m) /\ ~Squash(m)
<1> USE DEF IInv
<1>1. \A y \in e1 : y = x
  BY DEF TypeInv, Single
<1>2. ~unalignedE2 /\ ~squashQ
  BY DEF LsuInv, TrapInv, Waits
<1>3. pending => L!WritebackValid(m) /\ ~m.error
  BY MemoryWires
<1>4. ASSUME NEW y \in e2 PROVE ExceptionOf(y, m) = "none" /\ ~(y.kind \in Access /\ ~L!WritebackValid(m))
  <2>1. CASE y.kind \in Access
    <3>1. pending
      BY <1>2, <2>1 DEF LsuInv, Waits
    <3> QED
      BY <1>2, <1>3, <2>1, <3>1, RaisesIs DEF L!WritebackFault
  <2>2. CASE y.kind \notin Access
    <3>1. x.kind \notin CsrKind \cup {"intr"}
      BY AccessIs DEF CsrKind
    <3>2. y.exc = "none"
      BY <3>1 DEF StageInv
    <3> QED
      BY <2>2, <3>2, RaisesIs
  <2> QED
    BY <2>1, <2>2
<1>5. x.kind # "div"
  BY AccessIs
<1> QED
  BY <1>1, <1>2, <1>4, <1>5 DEF Stall, Squash, Raises

(* What the unit and its FIFO are after a clock: an operation that has been *)
(* sent is waited for, and otherwise the answer may still be out.          *)
LEMMA WaitsNext ==
  ASSUME IInv, Sound, NEW m \in L!MemoryInputs, NEW issued, L!Clock(issued, m)
  PROVE  /\ owed' \in {0, 1} /\ (pending' <=> owed' = 1)
         /\ unalignedE2' <=> L!UnalignedE1 /\ ~L!Delay(m)
         /\ Len(fifo) < FifoDepth
         /\ L!Push(m) => /\ ~L!Delay(m) /\ ~unalignedE2 /\ ~m.error
                         /\ \E o \in held : fifo' = <<o>> /\ (o.unaligned <=> unalignedE2')
                                            /\ (o.unaligned <=> ~pending')
                                            /\ (~o.unaligned => m.accept)
         /\ ~L!Push(m) => /\ pending' <=> pending /\ ~m.ack
                          /\ ~unalignedE2'
                          /\ fifo' = IF pending /\ ~m.ack THEN fifo ELSE <<>>
<1> USE DEF IInv
<1>1. /\ unalignedE2' = (L!UnalignedE1 /\ ~L!Delay(m))
      /\ pending' = (L!Issues(m) \/ (pending /\ ~m.ack))
      /\ owed' = owed + (IF L!Issues(m) THEN 1 ELSE 0) - (IF m.ack THEN 1 ELSE 0)
      /\ fifo' = LET popped == IF L!WritebackValid(m) /\ fifo # <<>> THEN Tail(fifo) ELSE fifo
                 IN IF L!Push(m) /\ Len(fifo) < FifoDepth THEN Append(popped, L!The(held)) ELSE popped
  BY DEF L!Clock, L!Fifo, L!Memory
<1>2. /\ owed \in {0, 1} /\ (pending <=> owed = 1) /\ ~(pending /\ unalignedE2)
      /\ fifo \in Seq(L!Operation) /\ Len(fifo) = IF Waits THEN 1 ELSE 0
      /\ held \subseteq L!Operation /\ Single(held)
  BY DEF LsuInv, TypeInv
<1>3. Len(fifo) < FifoDepth
  BY <1>2, PipelineAssumption
<1>4. \A o \in held : o.op \in Access \cup {"cacheop"} /\ o.unaligned \in BOOLEAN
                      /\ (o.unaligned => o.op # "cacheop")
  BY <1>2 DEF L!Operation, Access
<1>5. /\ m.ack => pending
      /\ m.error => m.ack
      /\ L!Delay(m) <=> pending /\ ~(m.ack /\ ~m.error)
      /\ L!WritebackValid(m) <=> m.ack \/ unalignedE2
  BY MemoryWires
<1>6. \A o \in held : o.op = "cacheop" => ~Waits
  BY DEF LsuInv
<1>7. ASSUME NEW o \in held
      PROVE  /\ L!UnalignedE1 <=> o.unaligned
             /\ L!Requests(m) <=> ~o.unaligned /\ (o.op \in Access => ~L!Delay(m))
  BY <1>2 DEF L!UnalignedE1, L!Requests, Single, Access
<1>8. held = {} => ~L!UnalignedE1 /\ ~L!Requests(m)
  BY DEF L!UnalignedE1, L!Requests
<1>9. L!Issues(m) => L!Requests(m) /\ m.accept /\ ~L!Delay(m) /\ ~L!UnalignedE1
  <2>1. ASSUME L!Issues(m), NEW o \in held PROVE ~L!Delay(m) /\ ~L!UnalignedE1
    <3>1. L!Requests(m)
      BY <2>1 DEF L!Issues
    <3>2. ~o.unaligned /\ (o.op \in Access => ~L!Delay(m))
      BY <1>7, <3>1
    <3>3. o.op = "cacheop" => ~L!Delay(m)
      BY <1>5, <1>6 DEF Waits
    <3> QED
      BY <1>4, <1>7, <3>2, <3>3
  <2> QED
    BY <1>8, <2>1 DEF L!Issues
<1>10. owed' \in {0, 1} /\ (pending' <=> owed' = 1)
  <2>1. pending' <=> L!Issues(m) \/ (pending /\ ~m.ack)
    BY <1>1
  <2>2. L!Issues(m) /\ m.ack => owed = 1 /\ owed' = owed + 1 - 1
    BY <1>1, <1>2, <1>5
  <2>3. L!Issues(m) /\ ~m.ack => owed = 0 /\ owed' = owed + 1 - 0
    BY <1>1, <1>2, <1>5, <1>9
  <2>4. ~L!Issues(m) /\ m.ack => owed = 1 /\ owed' = owed + 0 - 1
    BY <1>1, <1>2, <1>5
  <2>5. ~L!Issues(m) /\ ~m.ack => owed' = owed + 0 - 0
    BY <1>1
  <2>6. ~L!Issues(m) /\ ~m.ack => owed' = owed
    BY <1>2, <2>5
  <2>7. L!Issues(m) => owed' = 1
    BY <2>2, <2>3
  <2>8. ~L!Issues(m) /\ m.ack => owed' = 0
    BY <2>4
  <2> QED
    BY <1>2, <2>1, <2>6, <2>7, <2>8
<1>11. L!Push(m) => ~L!Delay(m) /\ held # {}
  BY <1>8, <1>9 DEF L!Push, L!Issues
<1>12. unalignedE2 => held = {}
  BY <1>2 DEF LsuInv, Waits
<1>13. L!WritebackValid(m) \/ ~Waits => (IF L!WritebackValid(m) /\ fifo # <<>> THEN Tail(fifo) ELSE fifo) = <<>>
  <2>1. Len(fifo) = 0 => fifo = <<>>
    BY <1>2, EmptySeq
  <2>2. Len(fifo) = 1 => Tail(fifo) = <<>> /\ fifo # <<>>
    <3> SUFFICES ASSUME Len(fifo) = 1 PROVE Tail(fifo) = <<>> /\ fifo # <<>>
      OBVIOUS
    <3>1. fifo # <<>>
      OBVIOUS
    <3>2. Tail(fifo) \in Seq(L!Operation) /\ Len(Tail(fifo)) = 0
      BY <1>2, <3>1, HeadTailProperties
    <3> QED
      BY <3>1, <3>2, EmptySeq
  <2> QED
    BY <1>2, <2>1, <2>2
<1>14. ASSUME L!Push(m)
       PROVE  /\ ~L!Delay(m) /\ ~unalignedE2 /\ ~m.error
              /\ \E o \in held : fifo' = <<o>> /\ (o.unaligned <=> unalignedE2')
                                 /\ (o.unaligned <=> ~pending')
                                 /\ (~o.unaligned => m.accept)
  <2>1. PICK o \in held : TRUE
    BY <1>11, <1>14
  <2>2. L!The(held) = o
    BY <1>2, <2>1 DEF L!The, Single
  <2>3. ~L!Delay(m) /\ ~unalignedE2 /\ ~m.error /\ (pending => m.ack)
    BY <1>5, <1>11, <1>12, <1>14
  <2>4. L!WritebackValid(m) \/ ~Waits
    BY <1>5, <2>3 DEF Waits
  <2>5. fifo' = Append(<<>>, o)
    BY <1>1, <1>3, <1>13, <1>14, <2>2, <2>4
  <2>6. fifo' = <<o>>
    BY <2>5
  <2>7. o.unaligned <=> unalignedE2'
    BY <1>1, <1>7, <2>3
  <2>8. (o.unaligned <=> ~pending') /\ (~o.unaligned => m.accept)
    <3>1. ~o.unaligned => L!Issues(m)
      BY <1>7, <1>14 DEF L!Push
    <3>2. o.unaligned => ~L!Issues(m)
      BY <1>7, <1>9
    <3> QED
      BY <1>1, <1>9, <2>3, <3>1, <3>2
  <2> QED
    BY <2>1, <2>3, <2>6, <2>7, <2>8
<1>15. ASSUME ~L!Push(m)
       PROVE  /\ pending' <=> pending /\ ~m.ack
              /\ ~unalignedE2'
              /\ fifo' = IF pending /\ ~m.ack THEN fifo ELSE <<>>
  <2>1. pending' <=> pending /\ ~m.ack
    BY <1>1, <1>15 DEF L!Push
  <2>2. ~unalignedE2'
    BY <1>1, <1>15 DEF L!Push
  <2>3. pending /\ ~m.ack => ~L!WritebackValid(m)
    BY <1>2, <1>5
  <2>4. ~(pending /\ ~m.ack) => L!WritebackValid(m) \/ ~Waits
    BY <1>5 DEF Waits
  <2> QED
    BY <1>1, <1>13, <1>15, <2>1, <2>2, <2>3, <2>4
<1> QED
  BY <1>1, <1>3, <1>10, <1>14, <1>15

LEMMA LsuInvKept ==
  ASSUME IInv, Sound, NEW m \in L!MemoryInputs, NEW c \in CoreInputs(m), Clock(c, m)
  PROVE  LsuInv'
<1> USE DEF IInv
<1> DEFINE issued == LsuIssue(c, m)
<1>1. StageE1(m) /\ StageE2(m) /\ L!Clock(issued, m)
  BY DEF Clock
<1>2. held' = IF (m.ack /\ m.error) \/ unalignedE2 THEN {}
              ELSE IF L!Keeps(m) \/ (L!Requests(m) /\ ~m.accept) THEN held
              ELSE issued
  BY <1>1 DEF L!Clock, L!HeldAfter
<1>3. /\ owed' \in {0, 1} /\ (pending' <=> owed' = 1)
      /\ unalignedE2' <=> L!UnalignedE1 /\ ~L!Delay(m)
      /\ L!Push(m) => /\ ~L!Delay(m) /\ ~unalignedE2 /\ ~m.error
                      /\ \E o \in held : fifo' = <<o>> /\ (o.unaligned <=> unalignedE2')
                                         /\ (o.unaligned <=> ~pending')
                                         /\ (~o.unaligned => m.accept)
      /\ ~L!Push(m) => /\ pending' <=> pending /\ ~m.ack
                       /\ ~unalignedE2'
                       /\ fifo' = IF pending /\ ~m.ack THEN fifo ELSE <<>>
  BY <1>1, WaitsNext
<1>4. /\ ~(pending /\ unalignedE2) /\ fifo \in Seq(L!Operation) /\ Len(fifo) = IF Waits THEN 1 ELSE 0
      /\ Waits => IF Head(fifo).op = "cacheop"
                  THEN pending /\ held = {} /\ \A x \in e1 \cup e2 : x.kind \notin Access
                  ELSE /\ \E x \in e2 : Of(Head(fifo), x)
                       /\ unalignedE2 => e1 = {} /\ held = {}
      /\ \A o \in held :
           \/ \E x \in e1 : Of(o, x) /\ (o.op = "cacheop" => ~Waits)
           \/ ~Waits /\ e1 = {} /\ o.op # "cacheop" /\ ~o.unaligned /\ \E x \in e2 : Of(o, x)
      /\ \A x \in e1 : x.kind \in Access => \E o \in held : Of(o, x)
      /\ \A x \in e2 : x.kind \in Access =>
           \/ Waits /\ Of(Head(fifo), x)
           \/ ~Waits /\ e1 = {} /\ \E o \in held : Of(o, x)
  BY DEF LsuInv
<1>5. /\ Single(held) /\ Single(e1) /\ Single(e2) /\ held \subseteq L!Operation
      /\ \A o \in L!Operation : o.op \in Access \cup {"cacheop"} /\ (o.unaligned => o.op # "cacheop")
  BY DEF TypeInv, L!Operation, Access
<1>6. /\ issued \subseteq L!Operation /\ Single(issued)
      /\ ~Issue(m) => issued = {}
      /\ \A o \in issued : \E x \in e1' : Of(o, x)
      /\ \A o \in issued : o.op = "cacheop" => \A x \in e1 : x.kind \notin Access
      /\ Issue(m) => \A x \in e1' : x.kind \in Access => \E o \in issued : Of(o, x)
  BY <1>1, HandedOver
<1>7. /\ m.ack => pending
      /\ m.error => m.ack
      /\ \A o \in held : o.op = "cacheop" => m.accept
      /\ L!Delay(m) <=> pending /\ ~(m.ack /\ ~m.error)
      /\ L!WritebackValid(m) <=> m.ack \/ unalignedE2
      /\ L!WritebackValid(m) => Waits
  BY MemoryWires
<1>8. Issue(m) => ~L!Delay(m) /\ ~L!UnalignedE1 /\ ~(L!Requests(m) /\ ~m.accept) /\ ~Stall(m) /\ ~Squash(m)
  BY IssueWires DEF L!StallUpstream
<1>9. ASSUME NEW o \in held
      PROVE  /\ L!UnalignedE1 <=> o.unaligned
             /\ L!Requests(m) <=> ~o.unaligned /\ (o.op \in Access => ~L!Delay(m))
             /\ L!Keeps(m) <=> o.op \in Access /\ L!Delay(m)
  BY <1>5 DEF L!UnalignedE1, L!Requests, L!Keeps, Single, Access
<1>10. held = {} => ~L!UnalignedE1 /\ ~L!Requests(m) /\ ~L!Keeps(m)
  BY DEF L!UnalignedE1, L!Requests, L!Keeps
<1>11. ~Stall(m) => /\ \A y \in e2' : \E x \in e1 : y.kind = x.kind /\ y.seq = x.seq
                    /\ ~Squash(m) => \A x \in e1 : \E y \in e2' : y.kind = x.kind /\ y.seq = x.seq
                    /\ Single(e2)'
                    /\ ~Issue(m) => e1' = {}
                    /\ Squash(m) => e2' = {} /\ e1' = {}
  <2>1. Squash(m) => ~Issue(m)
    BY <1>8
  <2> QED
    BY <1>1, <1>5, <2>1, E1Comes, E2Comes DEF Single
<1>12. Stall(m) => e1' = e1 /\ e2' = e2 /\ ~Issue(m)
  BY <1>1, E1Comes, E2Comes, IssueWires
<1>13. ASSUME ~L!Delay(m), NEW x \in e1, x.kind \in Access
       PROVE  ~unalignedE2 /\ ~Stall(m) /\ ~Squash(m)
  BY <1>13, AccessGoesOn
<1>14. \A o, x, y : Of(o, x) /\ y.kind = x.kind /\ y.seq = x.seq => Of(o, y)
  BY DEF Of
<1>15. /\ owed' \in {0, 1} /\ (pending' <=> owed' = 1) /\ ~(pending' /\ unalignedE2')
       /\ fifo' \in Seq(L!Operation) /\ Len(fifo') = IF pending' \/ unalignedE2' THEN 1 ELSE 0
  <2>1. CASE L!Push(m)
    <3>1. PICK o \in held : fifo' = <<o>> /\ (o.unaligned <=> unalignedE2') /\ (o.unaligned <=> ~pending')
      BY <1>3, <2>1
    <3>2. o \in L!Operation
      BY <1>5
    <3>3. fifo' \in Seq(L!Operation) /\ Len(fifo') = 1
      BY <3>1, <3>2
    <3> QED
      BY <1>3, <3>1, <3>3
  <2>2. CASE ~L!Push(m)
    <3>1. <<>> \in Seq(L!Operation) /\ Len(<<>>) = 0
      OBVIOUS
    <3> QED
      BY <1>3, <1>4, <2>2, <3>1 DEF Waits
  <2> QED
    BY <2>1, <2>2
<1> DEFINE Wait == pending' \/ unalignedE2'
           Rest ==
             /\ Wait => IF Head(fifo').op = "cacheop"
                        THEN pending' /\ held' = {} /\ \A x \in e1' \cup e2' : x.kind \notin Access
                        ELSE /\ \E x \in e2' : Of(Head(fifo'), x)
                             /\ unalignedE2' => e1' = {} /\ held' = {}
             /\ \A o \in held' :
                  \/ \E x \in e1' : Of(o, x) /\ (o.op = "cacheop" => ~Wait)
                  \/ ~Wait /\ e1' = {} /\ o.op # "cacheop" /\ ~o.unaligned /\ \E x \in e2' : Of(o, x)
             /\ \A x \in e1' : x.kind \in Access => \E o \in held' : Of(o, x)
             /\ \A x \in e2' : x.kind \in Access =>
                  \/ Wait /\ Of(Head(fifo'), x)
                  \/ ~Wait /\ e1' = {} /\ \E o \in held' : Of(o, x)
<1> SUFFICES Rest
  BY <1>15 DEF LsuInv, Waits
(* An operation is sent. *)
<1>16. CASE L!Push(m)
  <2>1. ~L!Delay(m) /\ ~unalignedE2 /\ ~m.error
    BY <1>3, <1>16
  <2>2. PICK o \in held : fifo' = <<o>> /\ (o.unaligned <=> unalignedE2') /\ (o.unaligned <=> ~pending')
                          /\ (~o.unaligned => m.accept)
    BY <1>3, <1>16
  <2>3. Head(fifo') = o /\ Wait
    BY <2>2
  <2>4. held' = issued
    <3>1. ~L!Keeps(m) /\ ~(L!Requests(m) /\ ~m.accept)
      BY <1>9, <2>1, <2>2
    <3> QED
      BY <1>2, <2>1, <3>1
  <2>5. o.unaligned => ~Issue(m)
    BY <1>8, <1>9
  <2>6. CASE o.op = "cacheop"
    <3>1. ~o.unaligned /\ pending'
      BY <1>5, <2>2, <2>6
    <3>2. PICK x \in e1 : Of(o, x)
      BY <1>4, <2>6
    <3>3. x.kind \in CsrKind /\ \A y \in e1 : y.kind \notin Access
      BY <1>5, <2>6, <3>2, AccessIs DEF Of, CsrKind, Single
    <3>4. ~Stall(m) /\ ~Issue(m)
      BY <3>2, <3>3, StallKeeps, IssueWires DEF CsrInv
    <3>5. e1' = {} /\ held' = {} /\ \A y \in e2' : y.kind \notin Access
      BY <1>6, <1>11, <2>4, <3>3, <3>4
    <3> QED
      BY <2>3, <2>6, <3>1, <3>5
  <2>7. CASE o.op # "cacheop" /\ \E x \in e1 : Of(o, x)
    <3>1. PICK x \in e1 : Of(o, x)
      BY <2>7
    <3>2. x.kind \in Access
      BY <1>5, <2>7, <3>1 DEF Of
    <3>3. ~Stall(m) /\ ~Squash(m)
      BY <1>13, <2>1, <3>2
    <3>4. PICK y \in e2' : Of(o, y)
      BY <1>11, <1>14, <3>1, <3>3
    <3>5. \A z \in e2' : Of(o, z)
      BY <1>11, <3>3, <3>4 DEF Single
    <3>6. unalignedE2' => e1' = {} /\ held' = {}
      BY <1>6, <1>11, <2>2, <2>4, <2>5, <3>3
    <3>7. \A p \in held' : p.op # "cacheop" /\ \E z \in e1' : Of(p, z)
      BY <1>6, <2>4, <3>2
    <3>8. \A z \in e1' : z.kind \in Access => \E p \in held' : Of(p, z)
      BY <1>6, <1>11, <2>4, <3>3
    <3> QED
      BY <2>3, <2>7, <3>4, <3>5, <3>6, <3>7, <3>8
  <2>8. CASE o.op # "cacheop" /\ ~\E x \in e1 : Of(o, x)
    <3>1. ~Waits /\ e1 = {} /\ ~o.unaligned
      BY <1>4, <2>8
    <3>2. PICK x \in e2 : Of(o, x)
      BY <1>4, <2>8
    <3>3. Stall(m)
      BY <1>5, <1>7, <2>8, <3>1, <3>2 DEF Stall, Of
    <3>4. e1' = {} /\ e2' = e2 /\ held' = {}
      BY <1>6, <1>12, <2>4, <3>1, <3>3
    <3>5. \A z \in e2 : Of(o, z)
      BY <1>5, <3>2 DEF Single
    <3> QED
      BY <2>2, <2>3, <2>8, <3>1, <3>2, <3>4, <3>5
  <2> QED
    BY <2>6, <2>7, <2>8
(* The answer is not here yet. *)
<1>17. CASE ~L!Push(m) /\ pending /\ ~m.ack
  <2>1. Wait /\ pending' /\ ~unalignedE2' /\ fifo' = fifo /\ Waits /\ L!Delay(m) /\ ~unalignedE2
    BY <1>3, <1>4, <1>7, <1>17 DEF Waits
  <2>2. ~Issue(m) /\ issued = {}
    BY <1>6, <1>8, <2>1
  <2>3. CASE Head(fifo).op = "cacheop"
    <3>1. held = {} /\ \A x \in e1 \cup e2 : x.kind \notin Access
      BY <1>4, <2>1, <2>3
    <3>2. held' = {}
      BY <1>2, <1>10, <1>17, <2>1, <2>2, <3>1
    <3>3. \A x \in e1' \cup e2' : x.kind \notin Access
      BY <1>11, <1>12, <2>2, <3>1
    <3> QED
      BY <2>1, <2>3, <3>2, <3>3
  <2>4. CASE Head(fifo).op # "cacheop"
    <3>1. PICK x \in e2 : Of(Head(fifo), x)
      BY <1>4, <2>1, <2>4
    <3>2. Head(fifo) \in L!Operation
      BY <1>4, <2>1, HeadTailProperties, EmptySeq
    <3>3. Stall(m)
      BY <1>5, <1>7, <1>17, <2>1, <2>4, <3>1, <3>2 DEF Stall, Of
    <3>4. e1' = e1 /\ e2' = e2
      BY <1>12, <3>3
    <3>5. \A o \in held : (\E y \in e1 : Of(o, y)) /\ o.op # "cacheop"
      BY <1>4, <2>1
    <3>6. held' = held
      <4>1. CASE held = {}
        BY <1>2, <1>10, <1>17, <2>1, <2>2, <4>1
      <4>2. CASE held # {}
        <5>1. PICK o \in held : TRUE
          BY <4>2
        <5>2. L!Keeps(m)
          BY <1>5, <1>9, <2>1, <3>5, <5>1
        <5> QED
          BY <1>2, <1>17, <2>1, <5>2
      <4> QED
        BY <4>1, <4>2
    <3> QED
      BY <1>4, <2>1, <2>4, <3>1, <3>4, <3>5, <3>6
  <2> QED
    BY <2>3, <2>4
(* Nothing is waited for, or the answer comes. *)
<1>18. CASE ~L!Push(m) /\ ~(pending /\ ~m.ack)
  <2>1. ~Wait
    BY <1>3, <1>18
  <2>2. CASE (m.ack /\ m.error) \/ unalignedE2
    <3>1. held' = {} /\ Waits /\ L!WritebackValid(m)
      BY <1>2, <1>7, <2>2
    <3>2. CASE Head(fifo).op = "cacheop"
      <4>1. pending /\ \A x \in e1 \cup e2 : x.kind \notin Access
        BY <1>4, <3>1, <3>2
      <4>2. L!Delay(m)
        BY <1>4, <1>7, <2>2, <4>1
      <4>3. ~Issue(m)
        BY <1>8, <4>2
      <4>4. \A x \in e1' \cup e2' : x.kind \notin Access
        BY <1>11, <1>12, <4>1, <4>3
      <4> QED
        BY <2>1, <3>1, <4>4
    <3>3. CASE Head(fifo).op # "cacheop"
      <4>1. PICK x \in e2 : Of(Head(fifo), x)
        BY <1>4, <3>1, <3>3
      <4>2. Head(fifo) \in L!Operation
        BY <1>4, <3>1, HeadTailProperties, EmptySeq
      <4>3. x.kind \in Access
        BY <1>5, <3>3, <4>1, <4>2 DEF Of
      <4>4. ExceptionOf(x, m) = "mem"
        BY <2>2, <3>1, <4>3, RaisesIs DEF L!WritebackFault
      <4>5. Raises(m)
        BY <4>4 DEF Raises
      <4>6. ~Stall(m) /\ Squash(m)
        BY <4>5, RaisingGoesOn DEF Squash
      <4>7. e1' = {} /\ e2' = {}
        BY <1>11, <4>6
      <4> QED
        BY <2>1, <3>1, <4>7
    <3> QED
      BY <3>2, <3>3
  <2>3. CASE ~(m.ack /\ m.error) /\ ~unalignedE2
    <3>1. ~L!Delay(m)
      BY <1>7, <1>18, <2>3
    <3>2. held' = IF L!Keeps(m) \/ (L!Requests(m) /\ ~m.accept) THEN held ELSE issued
      BY <1>2, <2>3
    <3>3. CASE held = {}
      <4>1. held' = issued
        BY <1>10, <3>2, <3>3
      <4>2. \A x \in e1 : x.kind \notin Access
        BY <1>4, <3>3
      <4>3. ASSUME Stall(m) PROVE \A x \in e2 : x.kind \notin Access
        <5>1. \A x \in e2 : x.kind \in Access => Waits
          BY <1>4, <3>3
        <5>2. Waits => L!WritebackValid(m)
          BY <1>7, <1>18, <2>3 DEF Waits
        <5> QED
          BY <4>3, <5>1, <5>2, StallKeeps DEF Stall
      <4>4. \A y \in e2' : y.kind \notin Access
        BY <1>11, <1>12, <4>2, <4>3
      <4>5. \A x \in e1' : x.kind \in Access => \E o \in held' : Of(o, x)
        <5>1. CASE Stall(m)
          BY <1>12, <4>2, <5>1
        <5>2. CASE ~Stall(m)
          BY <1>6, <1>11, <4>1, <5>2
        <5> QED
          BY <5>1, <5>2
      <4>6. \A o \in held' : \E x \in e1' : Of(o, x)
        BY <1>6, <4>1
      <4> QED
        BY <2>1, <4>4, <4>5, <4>6
    <3>4. CASE held # {}
      <4>1. PICK o \in held : TRUE
        BY <3>4
      <4>2. ~o.unaligned /\ L!Requests(m) /\ ~m.accept
        <5>1. ~o.unaligned
          BY <1>9, <1>18, <3>1 DEF L!Push
        <5>2. L!Requests(m)
          BY <1>9, <3>1, <5>1
        <5> QED
          BY <1>18, <5>1, <5>2 DEF L!Push, L!Issues
      <4>3. held' = held /\ ~Issue(m) /\ o.op # "cacheop" /\ o.op \in Access
        BY <1>5, <1>7, <1>8, <3>2, <4>2
      <4>4. \A p \in held : p = o
        BY <1>5 DEF Single
      <4>5. e1' = {} /\ (\E x \in e2' : Of(o, x)) /\ \A y \in e2' : Of(o, y)
        <5>1. CASE \E x \in e1 : Of(o, x)
          <6>1. PICK x \in e1 : Of(o, x)
            BY <5>1
          <6>2. ~Stall(m) /\ ~Squash(m)
            BY <1>13, <3>1, <4>3, <6>1 DEF Of
          <6>3. PICK y \in e2' : Of(o, y)
            BY <1>11, <1>14, <6>1, <6>2
          <6> QED
            BY <1>11, <4>3, <6>2, <6>3 DEF Single
        <5>2. CASE ~\E x \in e1 : Of(o, x)
          <6>1. ~Waits /\ e1 = {}
            BY <1>4, <5>2
          <6>2. PICK x \in e2 : Of(o, x)
            BY <1>4, <5>2
          <6>3. Stall(m)
            BY <1>7, <4>3, <6>1, <6>2 DEF Stall, Of
          <6> QED
            BY <1>5, <1>12, <6>1, <6>2, <6>3 DEF Single
        <5> QED
          BY <5>1, <5>2
      <4> QED
        BY <2>1, <4>2, <4>3, <4>4, <4>5
    <3> QED
      BY <3>3, <3>4
  <2> QED
    BY <2>2, <2>3
<1> QED
  BY <1>16, <1>17, <1>18

-----------------------------------------------------------------------------
(* The order of the program.                                               *)

LEMMA OrderInvKept ==
  ASSUME IInv, Sound, NEW m, NEW c \in CoreInputs(m), Clock(c, m)
  PROVE  OrderInv'
<1> USE DEF IInv
<1> DEFINE n1 == One(wb)
           n2 == One(e2)
           n3 == One(e1)
           Next3 == After(n1 + n2 + n3)
<1>1. /\ StageE1(m) /\ StageE2(m) /\ StageWb(m) /\ FetchUnit(c, m)
      /\ squashQ' = IF Stall(m) THEN squashQ ELSE Raises(m)
      /\ branchCsr' = \E x \in wb : x.exc # "none"
      /\ commit' = IF branchCsr THEN 0
                   ELSE IF wb # {} /\ ~Stall(m) THEN (commit + 1) % Numbers
                   ELSE commit
  BY DEF Clock, Squashing, Csrs, History
<1>2. /\ Single(dec) /\ Single(e1) /\ Single(e2) /\ Single(wb)
      /\ commit \in Seq0 /\ bubble \in 0 .. 1
  BY DEF TypeInv, TypeOK
<1>3. /\ squashQ <=> \E x \in wb : x.exc # "none"
      /\ squashQ \/ branchCsr => e1 = {} /\ e2 = {}
      /\ branchCsr => wb = {} /\ ~squashQ
  BY DEF TrapInv
<1>4. /\ bubble > 0 => dec = {}
      /\ \A x \in wb : x.seq = commit
      /\ \A x \in e2 : x.seq = After(n1)
      /\ (\A y \in e2 : y.exc = "none") =>
           /\ \A x \in e1 : x.seq = After(n1 + n2)
           /\ ~squashQ /\ ~branchCsr /\ (\A x \in e1 : x.kind # "intr") =>
                /\ dec = {} => nextSeq = Next3
                /\ \A i \in dec : i.seq = Next3 /\ nextSeq = (i.seq + 1) % Numbers
  BY DEF OrderInv
<1>5. /\ \A S : One(S) \in 0 .. 1 /\ (S = {} <=> One(S) = 0) /\ (S # {} <=> One(S) = 1)
      /\ \A S, T : (S = {} <=> T = {}) => One(S) = One(T)
  BY DEF One
<1>6. n1 \in 0 .. 1 /\ n2 \in 0 .. 1 /\ n3 \in 0 .. 1
  BY <1>5
<1>7. Stall(m) => /\ e1' = e1 /\ e2' = e2 /\ wb' = wb /\ ~Issue(m) /\ commit' = commit
                  /\ ~squashQ /\ ~branchCsr /\ ~Raises(m)
  BY <1>1, E1Comes, E2Comes, WbComes, IssueWires, StallKeeps, RaisingGoesOn
<1>8. ASSUME ~Stall(m), ~branchCsr
      PROVE  /\ commit' = After(n1)
             /\ \A n \in 0 .. 3 : (commit' + n) % Numbers = After(n1 + n)
  <2>1. CASE wb = {}
    <3>1. n1 = 0 /\ commit' = commit /\ commit' = After(0)
      BY <1>1, <1>2, <1>5, <1>8, <2>1, AfterNone
    <3> QED
      BY <3>1 DEF After
  <2>2. CASE wb # {}
    <3>1. n1 = 1 /\ commit' = After(1)
      BY <1>1, <1>5, <1>8, <2>2 DEF After
    <3>2. \A n \in 0 .. 3 : (After(1) + n) % Numbers = After(n + 1) /\ n + 1 = 1 + n
      BY <1>2, AfterOne
    <3> QED
      BY <3>1, <3>2
  <2> QED
    BY <2>1, <2>2
<1> HIDE DEF Next3, n1, n2, n3
<1>9. ~Stall(m) => One(wb') = n2
  BY <1>1, <1>5, WbComes DEF n2
<1>10. ~Stall(m) /\ ~Squash(m) => One(e2') = n3
  BY <1>1, <1>5, E2Comes DEF n3
<1>11. \A x \in wb' : x.seq = commit'
  <2>1. CASE Stall(m)
    BY <1>4, <1>7, <2>1
  <2>2. CASE ~Stall(m)
    <3>1. branchCsr => wb' = {}
      BY <1>1, <1>3, <2>2, WbComes
    <3>2. \A x \in wb' : \E y \in e2 : x.seq = y.seq
      BY <1>1, <2>2, WbComes
    <3> QED
      BY <1>4, <1>8, <2>2, <3>1, <3>2
  <2> QED
    BY <2>1, <2>2
<1>12. ~Squash(m) /\ ~Stall(m) => \A y \in e2 : y.exc = "none"
  <2> SUFFICES ASSUME ~Squash(m), ~Stall(m), NEW y \in e2 PROVE y.exc = "none"
    OBVIOUS
  <2>1. ExceptionOf(y, m) = "none"
    BY DEF Squash, Raises
  <2> QED
    BY <2>1, RaisesIs, AccessIs DEF StageInv, CsrKind
<1>13. \A x \in e2' : x.seq = (commit' + One(wb')) % Numbers
  <2>1. CASE Stall(m)
    BY <1>4, <1>7, <2>1 DEF After, n1
  <2>2. CASE ~Stall(m)
    <3> SUFFICES ASSUME NEW x \in e2' PROVE x.seq = (commit' + One(wb')) % Numbers
      OBVIOUS
    <3>1. ~Squash(m) /\ \E y \in e1 : x.seq = y.seq
      BY <1>1, <2>2, E2Comes
    <3>2. x.seq = After(n1 + n2) /\ ~branchCsr
      BY <1>3, <1>4, <1>12, <2>2, <3>1
    <3> QED
      BY <1>6, <1>8, <1>9, <2>2, <3>2
  <2> QED
    BY <2>1, <2>2
<1>14. ASSUME ~Stall(m), ~Squash(m), \A y \in e2' : y.exc = "none", NEW x \in e1
       PROVE  x.kind # "intr"
  <2>1. \E y \in e2' : y.exc = ExceptionE1(x)
    BY <1>1, <1>14, E2Comes
  <2> QED
    BY <1>14, <2>1 DEF ExceptionE1
<1>15. ASSUME \A y \in e2' : y.exc = "none", NEW x \in e1'
       PROVE  x.seq = (commit' + (One(wb') + One(e2'))) % Numbers
  <2>1. CASE Stall(m)
    BY <1>4, <1>7, <1>15, <2>1 DEF After, n1, n2
  <2>2. CASE ~Stall(m)
    <3>1. Issue(m)
      BY <1>1, <1>15, <2>2, E1Comes
    <3>2. ~Squash(m) /\ ~squashQ /\ ~branchCsr
      BY <3>1, IssueWires
    <3>3. \E i \in dec : x.seq = i.seq
      BY <1>1, <3>1, E1Comes
    <3>4. x.seq = Next3
      BY <1>4, <1>12, <1>14, <1>15, <2>2, <3>2, <3>3
    <3>5. n2 + n3 \in 0 .. 3 /\ n1 + (n2 + n3) = n1 + n2 + n3
      BY <1>6
    <3> QED
      BY <1>8, <1>9, <1>10, <2>2, <3>2, <3>4, <3>5 DEF Next3
  <2> QED
    BY <2>1, <2>2
<1>16. bubble' > 0 => dec' = {}
  <2>1. bubble' = IF BranchRequest(m) THEN 1 ELSE IF bubble > 0 THEN bubble - 1 ELSE 0
    BY <1>1 DEF FetchUnit
  <2>2. BranchRequest(m) => dec' = {}
    BY <1>1 DEF FetchUnit
  <2> QED
    BY <1>2, <2>1, <2>2
(* What fetch offers is next, given that what it offered before was. *)
<1>17. ASSUME NEW n, ~branchCsr, dec = {} => nextSeq = n,
              \A i \in dec : i.seq = n /\ nextSeq = (i.seq + 1) % Numbers,
              Issue(m) => ~takeInterrupt,
              dec # {} => ~Squash(m),
              NEW next, next = IF Issue(m) THEN (n + 1) % Numbers ELSE n
       PROVE  /\ dec' = {} => nextSeq' = next
              /\ \A i \in dec' : i.seq = next /\ nextSeq' = (i.seq + 1) % Numbers
  <2>1. /\ dec' = IF BranchRequest(m) THEN {}
                  ELSE IF Offers(m) THEN {Numbered(i, nextSeq) : i \in c.offer} ELSE dec
        /\ nextSeq' = IF Offers(m) /\ c.offer # {} THEN (nextSeq + 1) % Numbers ELSE nextSeq
    BY <1>1, <1>17 DEF FetchUnit
  <2>2. \A i : Numbered(i, nextSeq).seq = nextSeq
    BY DEF Numbered
  <2>3. CASE dec # {} /\ ~Issue(m)
    <3>1. dec' = dec /\ nextSeq' = nextSeq
      BY <1>1, <1>17, <2>3, OfferStays
    <3> QED
      BY <1>17, <2>3, <3>1
  <2>4. CASE dec = {} \/ Issue(m)
    <3>1. nextSeq = next
      BY <1>17, <2>4, IssueWires
    <3>2. CASE BranchRequest(m)
      BY <2>1, <3>1, <3>2 DEF Offers
    <3>3. CASE ~BranchRequest(m) /\ Offers(m)
      <4>1. dec' = {Numbered(i, nextSeq) : i \in c.offer}
        BY <2>1, <3>3
      <4>2. c.offer = {} => nextSeq' = nextSeq
        BY <2>1
      <4>3. c.offer # {} => nextSeq' = (nextSeq + 1) % Numbers
        BY <2>1, <3>3
      <4> QED
        BY <2>2, <3>1, <4>1, <4>2, <4>3
    <3>4. CASE ~BranchRequest(m) /\ ~Offers(m)
      <4>1. dec' = dec /\ nextSeq' = nextSeq
        BY <2>1, <3>4
      <4>2. dec = {}
        <5>1. Issue(m) => FetchAccept(m)
          BY <1>17 DEF FetchAccept
        <5>2. bubble # 0
          BY <2>4, <3>4, <5>1 DEF Offers
        <5> QED
          BY <1>2, <1>4, <5>2
      <4> QED
        BY <3>1, <4>1, <4>2
    <3> QED
      BY <3>2, <3>3, <3>4
  <2> QED
    BY <2>3, <2>4
<1> DEFINE next == (commit' + (One(wb') + One(e2') + One(e1'))) % Numbers
<1>18. ASSUME \A y \in e2' : y.exc = "none", ~squashQ', ~branchCsr', \A x \in e1' : x.kind # "intr"
       PROVE  /\ dec' = {} => nextSeq' = next
              /\ \A i \in dec' : i.seq = next /\ nextSeq' = (i.seq + 1) % Numbers
  <2>1. Issue(m) => ~takeInterrupt
    BY <1>1, <1>18, E1Comes
  <2>2. ~squashQ
    BY <1>1, <1>3, <1>18
  <2>3. CASE branchCsr
    <3>1. dec' = {} /\ nextSeq' = 0 /\ commit' = 0
      BY <1>1, <2>3 DEF FetchUnit, BranchRequest
    <3>2. ~Stall(m) /\ ~Issue(m) /\ e1 = {} /\ e2 = {}
      BY <1>3, <1>7, <2>3, IssueWires
    <3>3. wb' = {} /\ e2' = {} /\ e1' = {}
      BY <1>1, <3>2, E1Comes, E2Comes, WbComes
    <3>4. One(wb') = 0 /\ One(e2') = 0 /\ One(e1') = 0
      BY <1>5, <3>3
    <3>5. next = (0 + 0) % Numbers /\ 0 \in Seq0 /\ 0 \in 0 .. 4
      BY <3>1, <3>4, PipelineAssumption DEF Seq0
    <3>6. next = 0
      BY <3>5, ModIs, PipelineAssumption
    <3> QED
      BY <3>1, <3>6
  <2>4. CASE ~branchCsr /\ Stall(m)
    <3>1. /\ dec = {} => nextSeq = Next3
          /\ \A i \in dec : i.seq = Next3 /\ nextSeq = (i.seq + 1) % Numbers
      BY <1>4, <1>7, <1>18, <2>2, <2>4
    <3>2. next = Next3 /\ ~Issue(m) /\ ~Squash(m)
      BY <1>7, <2>2, <2>4 DEF Squash, Next3, After, n1, n2, n3
    <3> HIDE DEF next
    <3> QED
      BY <1>17, <2>4, <3>1, <3>2
  <2>5. CASE ~branchCsr /\ ~Stall(m)
    <3>1. ~Squash(m)
      BY <1>1, <1>18, <2>2, <2>5 DEF Squash
    <3>2. (\A y \in e2 : y.exc = "none") /\ \A x \in e1 : x.kind # "intr"
      BY <1>12, <1>14, <1>18, <2>5, <3>1
    <3>3. /\ dec = {} => nextSeq = Next3
          /\ \A i \in dec : i.seq = Next3 /\ nextSeq = (i.seq + 1) % Numbers
      BY <1>4, <2>2, <2>5, <3>2
    <3>4. next = IF Issue(m) THEN (Next3 + 1) % Numbers ELSE Next3
      <4>1. One(wb') = n2 /\ One(e2') = n3
        BY <1>9, <1>10, <2>5, <3>1
      <4>2. n2 + n3 \in 0 .. 3 /\ n2 + n3 + 1 \in 0 .. 3 /\ n1 + n2 + n3 \in 0 .. 3
            /\ n1 + (n2 + n3) = n1 + n2 + n3 /\ n1 + (n2 + n3 + 1) = n1 + n2 + n3 + 1
        BY <1>6
      <4>3. CASE Issue(m)
        <5>1. One(e1') = 1
          BY <1>1, <1>5, <4>3, E1Comes
        <5>2. next = After(n1 + n2 + n3 + 1)
          BY <1>8, <2>5, <4>1, <4>2, <5>1
        <5> QED
          BY <1>2, <4>2, <4>3, <5>2, AfterOne DEF Next3
      <4>4. CASE ~Issue(m)
        <5>1. One(e1') = 0
          BY <1>1, <1>5, <2>5, <4>4, E1Comes
        <5>2. n2 + n3 + 0 = n2 + n3
          BY <1>6
        <5> QED
          BY <1>8, <2>5, <4>1, <4>2, <4>4, <5>1, <5>2 DEF Next3
      <4> QED
        BY <4>3, <4>4
    <3> HIDE DEF next
    <3> QED
      BY <1>17, <2>1, <2>5, <3>1, <3>3, <3>4
  <2> QED
    BY <2>3, <2>4, <2>5
<1> QED
  BY <1>11, <1>13, <1>15, <1>16, <1>18 DEF OrderInv, After

-----------------------------------------------------------------------------
(* Ranges.                                                                 *)

LEMMA ValuesAre ==
  ASSUME IInv, NEW m
  PROVE  /\ \A x \in e1 : ValueE1(x) \in Value /\ ExceptionE1(x) \in Exception
         /\ \A x \in e2 : ResultWb(x, m) \in Value /\ ExceptionOf(x, m) \in Exception
<1> USE DEF IInv
<1>1. Junk \in Value /\ Seq0 \subseteq Value /\ {"none", "mem", "intr"} \subseteq Exception
      /\ {"none", "trap", "xret", "barrier"} \subseteq Exception
  BY DEF Value, Exception
<1>2. /\ \A x \in e1 : x.seq \in Seq0 /\ x.exc \in Exception
      /\ \A x \in e2 : x.val \in Value /\ x.exc \in Exception /\ x.seq \in Seq0
  BY DEF TypeInv, TypeOK, Stage
<1>3. /\ divDone # {} => The(divDone) \in divDone
      /\ csrE1 # {} => The(csrE1) \in csrE1
  BY DEF The
<1>4. /\ divDone \subseteq Seq0
      /\ \A k \in csrE1 : k.seq \in Seq0 /\ k.exc \in {"none", "trap", "xret", "barrier"}
  BY DEF TypeInv
<1>5. MemValue(m) \in Value
  <2>1. L!WritebackValid(m) /\ L!Answered # {} => The(L!Answered) = Head(fifo) /\ fifo # <<>>
    BY DEF The, L!Answered
  <2>2. fifo # <<>> => Head(fifo).id \in Seq0
    BY HeadTailProperties DEF LsuInv, L!Operation
  <2> QED
    BY <1>1, <2>1, <2>2 DEF MemValue
<1>6. ASSUME NEW x \in e1 PROVE ValueE1(x) \in Value
  <2>1. ExecValue(x) \in Value
    BY <1>1, <1>2 DEF ExecValue
  <2> QED
    BY <1>1, <1>3, <1>4, <2>1 DEF ValueE1
<1>7. ASSUME NEW x \in e1 PROVE ExceptionE1(x) \in Exception
  BY <1>1, <1>2, <1>3, <1>4 DEF ExceptionE1
<1>8. ASSUME NEW x \in e2 PROVE ResultWb(x, m) \in Value
  BY <1>1, <1>2, <1>5 DEF ResultWb
<1>9. ASSUME NEW x \in e2 PROVE ExceptionOf(x, m) \in Exception
  BY <1>1, <1>2 DEF ExceptionOf
<1> QED
  BY <1>6, <1>7, <1>8, <1>9

LEMMA StagesKept ==
  ASSUME IInv, NEW m, NEW c, Clock(c, m)
  PROVE  /\ e1' \in {{}} \cup {{x} : x \in Stage}
         /\ Single(e1)' /\ Single(e2)' /\ Single(wb)' /\ Single(csrE1)'
         /\ \A x \in e2' : /\ x.val \in Value /\ x.exc \in Exception /\ x.seq \in Seq0
                           /\ x.kind \in Kind \cup {"intr"} /\ x.rd \in Reg
         /\ \A x \in wb' : /\ x.val \in Value /\ x.exc \in Exception /\ x.seq \in Seq0
                           /\ x.rd \in Reg
         /\ \A k \in csrE1' : k.seq \in Seq0 /\ k.exc \in {"none", "trap", "xret", "barrier"}
<1> USE DEF IInv
<1>1. StageE1(m) /\ StageE2(m) /\ StageWb(m) /\ CsrUnit(m)
  BY DEF Clock
<1>2. /\ e1 \in {{}} \cup {{x} : x \in Stage}
      /\ \A x \in e2 : /\ x.val \in Value /\ x.exc \in Exception /\ x.seq \in Seq0
                       /\ x.kind \in Kind \cup {"intr"} /\ x.rd \in Reg
      /\ \A x \in wb : /\ x.val \in Value /\ x.exc \in Exception /\ x.seq \in Seq0
                       /\ x.rd \in Reg
      /\ Single(dec) /\ Single(e1) /\ Single(e2) /\ Single(wb)
      /\ \A i \in dec : i.kind \in Kind /\ i.rd \in Reg /\ i.seq \in Seq0
  BY DEF TypeInv, TypeOK
<1>3. 0 \in Reg
  BY PipelineAssumption
<1>4. e1' \in {{}} \cup {{x} : x \in Stage}
  <2> DEFINE In(i) == [kind |-> IF takeInterrupt THEN "intr" ELSE i.kind,
                       rd   |-> IF takeInterrupt THEN 0 ELSE i.rd,
                       seq  |-> i.seq,
                       exc  |-> IF i.kind \in {"fault", "badbranch"} THEN "trap" ELSE "none"]
  <2>1. e1' = IF Stall(m) THEN e1 ELSE IF Issue(m) /\ ~Squash(m) THEN {In(i) : i \in dec} ELSE {}
    BY <1>1 DEF StageE1
  <2>2. \A i \in dec : In(i) \in Stage
    <3> SUFFICES ASSUME NEW i \in dec PROVE In(i) \in Stage
      OBVIOUS
    <3>1. i.kind \in Kind /\ i.rd \in Reg /\ i.seq \in Seq0
      BY <1>2
    <3>2. (IF i.kind \in {"fault", "badbranch"} THEN "trap" ELSE "none") \in Exception
      BY DEF Exception
    <3> QED
      BY <1>3, <3>1, <3>2 DEF Stage
  <2> HIDE DEF In
  <2>3. dec = {} \/ \E i \in dec : dec = {i}
    BY <1>2 DEF Single
  <2>4. {In(i) : i \in dec} \in {{}} \cup {{x} : x \in Stage}
    BY <2>2, <2>3
  <2> QED
    BY <1>2, <2>1, <2>4
<1>5. \A x \in e1 : x.kind \in Kind \cup {"intr"} /\ x.rd \in Reg /\ x.seq \in Seq0
  BY <1>2 DEF Stage
<1>6. Single(e1)'
  BY <1>4 DEF Single
<1>7. /\ Single(e2)'
      /\ \A x \in e2' : /\ x.val \in Value /\ x.exc \in Exception /\ x.seq \in Seq0
                        /\ x.kind \in Kind \cup {"intr"} /\ x.rd \in Reg
  <2>1. CASE Stall(m)
    BY <1>1, <1>2, <2>1, E2Comes DEF Single
  <2>2. CASE ~Stall(m) /\ Squash(m)
    BY <1>1, <2>2, E2Comes DEF Single
  <2>3. CASE ~Stall(m) /\ ~Squash(m)
    <3>1. Single(e2)'
      BY <1>1, <1>2, <2>3, E2Comes
    <3>2. ASSUME NEW y \in e2'
          PROVE  /\ y.val \in Value /\ y.exc \in Exception /\ y.seq \in Seq0
                 /\ y.kind \in Kind \cup {"intr"} /\ y.rd \in Reg
      <4>1. PICK x \in e1 : /\ y.kind = x.kind /\ y.rd = x.rd /\ y.seq = x.seq
                            /\ y.exc = ExceptionE1(x) /\ y.val = ValueE1(x)
        BY <1>1, <2>3, E2Comes
      <4> QED
        BY <1>5, <4>1, ValuesAre
    <3> QED
      BY <3>1, <3>2
  <2> QED
    BY <2>1, <2>2, <2>3
<1>8. /\ Single(wb)'
      /\ \A x \in wb' : /\ x.val \in Value /\ x.exc \in Exception /\ x.seq \in Seq0
                        /\ x.rd \in Reg
  <2>1. CASE Stall(m)
    BY <1>1, <1>2, <2>1, WbComes DEF Single
  <2>2. CASE ~Stall(m)
    <3>1. Single(wb)'
      BY <1>1, <1>2, <2>2, WbComes
    <3>2. ASSUME NEW y \in wb'
          PROVE  y.val \in Value /\ y.exc \in Exception /\ y.seq \in Seq0 /\ y.rd \in Reg
      <4>1. PICK x \in e2 : /\ y.seq = x.seq
                            /\ y.rd = IF ExceptionOf(x, m) # "none" THEN 0 ELSE x.rd
                            /\ y.exc = ExceptionOf(x, m) /\ y.val = ResultWb(x, m)
        BY <1>1, <2>2, WbComes
      <4> QED
        BY <1>2, <1>3, <4>1, ValuesAre
    <3> QED
      BY <3>1, <3>2
  <2> QED
    BY <2>1, <2>2
<1>9. /\ Single(csrE1)'
      /\ \A k \in csrE1' : k.seq \in Seq0 /\ k.exc \in {"none", "trap", "xret", "barrier"}
  <2>1. \A k : EarlyException(k) \in {"none", "trap", "xret", "barrier"}
    BY DEF EarlyException
  <2> QED
    BY <1>1, <1>2, <2>1, CsrComes
<1> QED
  BY <1>4, <1>6, <1>7, <1>8, <1>9

LEMMA TypeInvKept ==
  ASSUME IInv, Sound, NEW m \in L!MemoryInputs, NEW c \in CoreInputs(m), Clock(c, m), LsuInv'
  PROVE  TypeInv'
<1> USE DEF IInv
<1>1. /\ FetchUnit(c, m) /\ Divider(m) /\ RegisterFile(m) /\ History(m)
      /\ L!Clock(LsuIssue(c, m), m) /\ StageE1(m)
  BY DEF Clock
<1>2. /\ Single(dec) /\ Single(e2) /\ Single(div) /\ Single(divDone) /\ Single(held)
      /\ \A i \in dec : /\ i.kind \in Kind \ {"badbranch"} /\ i.rd \in Reg
                        /\ i.src \subseteq Reg /\ i.seq \in Seq0
      /\ divDone \subseteq Seq0 /\ div \subseteq [id : Seq0, left : 0 .. DivCycles]
      /\ held \subseteq L!Operation
      /\ file \in [Reg -> Value] /\ newest \in [Reg -> Value]
      /\ commit \in Seq0 /\ nextSeq \in Seq0 /\ bubble \in 0 .. 1
      /\ \A x \in e2 : x.seq \in Seq0
  BY DEF TypeInv, TypeOK
<1>3. 0 \in Seq0 /\ \A n \in Seq0 : (n + 1) % Numbers \in Seq0
  <2>1. 1 \in 0 .. 4 /\ 0 \in Seq0
    BY PipelineAssumption DEF Seq0
  <2> QED
    BY <2>1, ModIs
<1>4. /\ Single(dec)'
      /\ \A i \in dec' : /\ i.kind \in Kind \ {"badbranch"} /\ i.rd \in Reg
                         /\ i.src \subseteq Reg /\ i.seq \in Seq0
      /\ nextSeq' \in Seq0 /\ bubble' \in 0 .. 1
  <2>1. /\ dec' = IF BranchRequest(m) THEN {}
                  ELSE IF Offers(m) THEN {Numbered(i, nextSeq) : i \in c.offer} ELSE dec
        /\ nextSeq' = IF branchCsr THEN 0
                      ELSE IF Offers(m) /\ c.offer # {} THEN (nextSeq + 1) % Numbers ELSE nextSeq
        /\ bubble' = IF BranchRequest(m) THEN 1 ELSE IF bubble > 0 THEN bubble - 1 ELSE 0
    BY <1>1 DEF FetchUnit
  <2>2. c.offer = {} \/ \E i \in Instructions : c.offer = {i}
    BY InputsAre
  <2>3. \A i \in Instructions : /\ i.kind \in Kind \ {"badbranch"} /\ i.rd \in Reg /\ i.src \subseteq Reg
    BY PipelineAssumption DEF Instruction, Sound
  <2>4. \A i : /\ Numbered(i, nextSeq).kind = i.kind /\ Numbered(i, nextSeq).rd = i.rd
               /\ Numbered(i, nextSeq).src = i.src /\ Numbered(i, nextSeq).seq = nextSeq
    BY DEF Numbered
  <2>5. CASE c.offer = {}
    BY <1>2, <1>3, <2>1, <2>5 DEF Single
  <2>6. CASE \E i \in Instructions : c.offer = {i}
    <3>1. PICK i \in Instructions : c.offer = {i}
      BY <2>6
    <3>2. {Numbered(j, nextSeq) : j \in c.offer} = {Numbered(i, nextSeq)}
      BY <3>1
    <3>3. dec' \in {{}, {Numbered(i, nextSeq)}, dec}
      BY <2>1, <3>2
    <3>4. nextSeq' \in Seq0
      BY <1>2, <1>3, <2>1
    <3>5. bubble' \in 0 .. 1
      BY <1>2, <2>1
    <3> QED
      BY <1>2, <2>3, <2>4, <3>3, <3>4, <3>5 DEF Single
  <2> QED
    BY <2>2, <2>5, <2>6
<1>5. /\ Single(div)' /\ Single(divDone)'
      /\ divDone' \subseteq Seq0 /\ div' \subseteq [id : Seq0, left : 0 .. DivCycles]
  <2> DEFINE Begin(i) == [id |-> i.seq, left |-> DivCycles]
             Goes(v) == [v EXCEPT !.left = @ - 1]
  <2>1. /\ div' = IF Issued({"div"}, m) THEN {Begin(i) : i \in dec}
                  ELSE {Goes(v) : v \in {u \in div : u.left > 0}}
        /\ divDone' = IF DivComplete THEN {v.id : v \in div} ELSE {}
    BY <1>1 DEF Divider
  <2>2. \A i \in dec : Begin(i) \in [id : Seq0, left : 0 .. DivCycles]
    BY <1>2, PipelineAssumption
  <2>3. \A v \in div : v.left > 0 => Goes(v) \in [id : Seq0, left : 0 .. DivCycles]
    BY <1>2, PipelineAssumption
  <2> HIDE DEF Begin, Goes
  <2> QED
    BY <1>2, <2>1, <2>2, <2>3 DEF Single
<1>6. Single(held)' /\ held' \subseteq L!Operation
  <2>1. held' = L!HeldAfter(LsuIssue(c, m), m)
    BY <1>1 DEF L!Clock
  <2>2. held' \in {{}, held, LsuIssue(c, m)}
    BY <2>1 DEF L!HeldAfter
  <2>3. LsuIssue(c, m) \subseteq L!Operation /\ Single(LsuIssue(c, m))
    BY <1>1, HandedOver
  <2> QED
    BY <1>2, <2>2, <2>3 DEF Single
<1>7. file' \in [Reg -> Value] /\ newest' \in [Reg -> Value] /\ commit' \in Seq0
  <2>1. File \in Value /\ Junk \in Value /\ Seq0 \subseteq Value
    BY DEF Value
  <2>2. file' \in [Reg -> Value]
    BY <1>1, <1>2, <2>1 DEF RegisterFile
  <2>3. /\ e2 # {} => The(e2) \in e2
        /\ dec # {} => The(dec) \in dec
    BY DEF The
  <2>4. newest' \in [Reg -> Value]
    <3>1. newest' =
       [r \in Reg |->
          IF ~Stall(m) /\ Raises(m)
          THEN IF \E x \in e2 : x.rd = r /\ r # 0 /\ ExceptionOf(x, m) = "barrier"
               THEN The(e2).seq ELSE File
          ELSE IF Issue(m) /\ ~takeInterrupt /\ r # 0 /\ \E i \in dec : i.rd = r
               THEN The(dec).seq
          ELSE IF ~Stall(m) /\ \E x \in wb : x.valid /\ x.rd = r /\ x.seq = newest[r]
               THEN File
          ELSE newest[r]]
      BY <1>1 DEF History
    <3>2. (\E x \in e2 : TRUE) => The(e2).seq \in Value
      BY <1>2, <2>1, <2>3
    <3>3. (\E i \in dec : TRUE) => The(dec).seq \in Value
      BY <1>2, <2>1, <2>3
    <3>4. \A r \in Reg : newest[r] \in Value
      BY <1>2
    <3> QED
      BY <2>1, <3>1, <3>2, <3>3, <3>4
  <2>5. commit' \in Seq0
    BY <1>1, <1>2, <1>3 DEF History
  <2> QED
    BY <2>2, <2>4, <2>5
<1>8. /\ {squashQ, divPending, csrPending, takeInterrupt, irq, branchCsr}' \subseteq BOOLEAN
      /\ {unalignedE2, pending}' \subseteq BOOLEAN
  <2>1. squashQ' \in BOOLEAN
    <3>1. squashQ' = IF Stall(m) THEN squashQ ELSE Raises(m)
      BY DEF Clock, Squashing
    <3>2. squashQ \in BOOLEAN /\ Raises(m) \in BOOLEAN
      BY DEF TypeInv, Raises
    <3> QED
      BY <3>1, <3>2
  <2>2. divPending' \in BOOLEAN
    <3>1. divPending' = IF Squash(m) THEN FALSE ELSE Issued({"div"}, m) \/ (divPending /\ divDone = {})
      BY DEF Clock, DivPending
    <3> QED
      BY <3>1
  <2>3. csrPending' \in BOOLEAN
    <3>1. csrPending' = IF Squash(m) THEN FALSE
                        ELSE Launched(CsrKind, m) \/ (csrPending /\ ~(~Stall(m) /\ \E x \in wb : x.csr))
      BY DEF Clock, CsrPending
    <3> QED
      BY <3>1
  <2>4. takeInterrupt' \in BOOLEAN
    BY DEF Clock, Interrupts
  <2>5. irq' \in BOOLEAN
    <3>1. irq' = IF ChangesCsr THEN c.csr ELSE irq \/ c.rise
      BY DEF Clock, Csrs
    <3>2. c.csr \in BOOLEAN /\ (irq \/ c.rise) \in BOOLEAN
      BY InputsAre
    <3> QED
      BY <3>1, <3>2
  <2>6. branchCsr' \in BOOLEAN
    BY DEF Clock, Csrs
  <2>7. unalignedE2' \in BOOLEAN /\ pending' \in BOOLEAN
    BY <1>1 DEF L!Clock
  <2> QED
    BY <2>1, <2>2, <2>3, <2>4, <2>5, <2>6, <2>7
<1>9. Len(fifo') <= FifoDepth /\ owed' <= FifoDepth
  <2>1. Len(fifo') \in {0, 1} /\ owed' \in {0, 1}
    BY DEF LsuInv
  <2>2. FifoDepth \in Nat /\ 0 <= FifoDepth /\ 1 <= FifoDepth
    BY PipelineAssumption
  <2> QED
    BY <2>1, <2>2
<1>10. /\ e1' \in {{}} \cup {{x} : x \in Stage}
       /\ Single(e1)' /\ Single(e2)' /\ Single(wb)' /\ Single(csrE1)'
       /\ \A x \in e2' : /\ x.val \in Value /\ x.exc \in Exception /\ x.seq \in Seq0
                         /\ x.kind \in Kind \cup {"intr"} /\ x.rd \in Reg
       /\ \A x \in wb' : /\ x.val \in Value /\ x.exc \in Exception /\ x.seq \in Seq0
                         /\ x.rd \in Reg
       /\ \A k \in csrE1' : k.seq \in Seq0 /\ k.exc \in {"none", "trap", "xret", "barrier"}
  BY StagesKept
<1>11. TypeOK'
  <2>1. \A v \in div' : v.left \in 0 .. DivCycles
    BY <1>5
  <2> QED
    BY <1>4, <1>7, <1>9, <1>10, <2>1 DEF TypeOK
<1> QED
  BY <1>4, <1>5, <1>6, <1>8, <1>10, <1>11 DEF TypeInv

-----------------------------------------------------------------------------
(* The invariant holds.                                                    *)

LEMMA InitSound ==
  ASSUME Init
  PROVE  IInv
<1> USE DEF Init, L!Init
<1>1. /\ 0 \in Seq0 /\ FifoDepth \in Nat /\ File \in Value /\ 0 \in 0 .. 1
  BY PipelineAssumption DEF Seq0, Value
<1>2. TypeInv
  <2>1. TypeOK
    <3>1. file \in [Reg -> Value] /\ newest \in [Reg -> Value]
      BY <1>1
    <3>2. Len(fifo) <= FifoDepth /\ owed <= FifoDepth
      BY <1>1
    <3> QED
      BY <1>1, <3>1, <3>2 DEF TypeOK
  <2> QED
    BY <2>1 DEF TypeInv, Single
<1>3. TrapInv /\ StageInv /\ IntrInv /\ CsrInv
  BY DEF TrapInv, StageInv, IntrInv, CsrInv
<1>4. OrderInv
  BY <1>1 DEF OrderInv
<1>5. LsuInv
  <2>1. <<>> \in Seq(L!Operation) /\ Len(<<>>) = 0
    OBVIOUS
  <2> QED
    BY <2>1 DEF LsuInv, Waits
<1>6. DivInv
  BY DEF DivInv
<1> QED
  BY <1>2, <1>3, <1>4, <1>5, <1>6 DEF IInv

LEMMA StutterKeeps ==
  ASSUME IInv, UNCHANGED vars
  PROVE  IInv'
<1> USE DEF IInv, vars, pipeVars
<1>1. TypeInv'
  BY DEF TypeInv, TypeOK, Single
<1>2. TrapInv' /\ StageInv'
  BY DEF TrapInv, StageInv
<1>3. IntrInv' /\ CsrInv'
  BY DEF IntrInv, CsrInv
<1>4. OrderInv'
  BY DEF OrderInv, After
<1>5. LsuInv' /\ DivInv'
  BY DEF LsuInv, DivInv, Waits
<1> QED
  BY <1>1, <1>2, <1>3, <1>4, <1>5

(* Every register keeps to its range and the invariant holds, for every    *)
(* number of registers and every length of a division.                     *)
THEOREM InvariantHolds == Sound => (Spec => []IInv)
<1> SUFFICES ASSUME Sound PROVE Spec => []IInv
  OBVIOUS
<1>1. Init => IInv
  BY InitSound
<1>2. IInv /\ [Next]_vars => IInv'
  <2>1. ASSUME IInv, Next PROVE IInv'
    <3>1. PICK m \in L!MemoryInputs : \E c \in CoreInputs(m) : Clock(c, m)
      BY <2>1 DEF Next
    <3>2. PICK c \in CoreInputs(m) : Clock(c, m)
      BY <3>1
    <3>3. TrapInv' /\ StageInv' /\ CsrInv' /\ DivInv'
      BY <2>1, <3>2, TrapInvKept, StageInvKept, CsrInvKept, DivInvKept
    <3>4. IntrInv' /\ OrderInv' /\ LsuInv'
      BY <2>1, <3>2, IntrInvKept, OrderInvKept, LsuInvKept
    <3>5. TypeInv'
      BY <2>1, <3>2, <3>4, TypeInvKept
    <3> QED
      BY <3>3, <3>4, <3>5 DEF IInv
  <2> QED
    BY <2>1, StutterKeeps
<1> QED
  BY <1>1, <1>2, PTL DEF Spec

LEMMA PreciseFollows == ASSUME IInv PROVE PreciseExceptions
<1> USE DEF IInv
<1>1. \A x \in wb : x.seq = commit
  BY DEF OrderInv
<1>2. ASSUME (\E x \in wb : x.exc # "none") \/ branchCsr
      PROVE  e1 = {} /\ e2 = {} /\ \A m \in L!MemoryInputs : ~Issue(m)
  <2>1. squashQ \/ branchCsr
    BY <1>2 DEF TrapInv
  <2>2. \A m : ~Issue(m)
    BY <2>1, IssueWires
  <2> QED
    BY <2>1, <2>2 DEF TrapInv
<1> QED
  BY <1>1, <1>2 DEF PreciseExceptions

(* Instructions reach writeback in program order, and one that raises an   *)
(* exception leaves nothing behind it.                                     *)
THEOREM PreciseExceptionsCorrect == Sound => (Spec => []PreciseExceptions)
<1>1. IInv => PreciseExceptions
  BY PreciseFollows
<1> QED
  BY <1>1, InvariantHolds, PTL

LEMMA MissedFollows == ASSUME IInv PROVE NothingMissed
<1> USE DEF IInv
<1>1. ASSUME NEW m, Stall(m)
      PROVE  /\ \A x \in e1 : x.kind \notin CsrKind
             /\ \A x \in wb : x.exc = "none"
             /\ (\E x \in e1 : x.kind = "div") => \A x \in e2 : x.kind \notin Access
  BY <1>1, StallKeeps
<1> QED
  BY <1>1 DEF NothingMissed

(* What lasts for one cycle never meets a stall.                           *)
THEOREM NothingMissedCorrect == Sound => (Spec => []NothingMissed)
<1>1. IInv => NothingMissed
  BY MissedFollows
<1> QED
  BY <1>1, InvariantHolds, PTL

LEMMA SquashedFollows == ASSUME IInv, Sound PROVE NoSquashedAccess
<1> USE DEF IInv
<1> SUFFICES ASSUME NEW m \in L!MemoryInputs, NEW o \in held, o.op \in Access, L!Issues(m)
             PROVE  Executed(o, m)
  BY DEF NoSquashedAccess
<1>1. ~L!Delay(m)
  BY DEF L!Issues, L!Requests, TypeInv, Single, Access
<1>2. CASE \E x \in e1 : Of(o, x)
  <2>1. PICK x \in e1 : Of(o, x)
    BY <1>2
  <2>2. x.kind \in Access
    BY <2>1 DEF Of
  <2>3. ~Stall(m) /\ ~Squash(m)
    BY <1>1, <2>2, AccessGoesOn
  <2> QED
    BY <2>1, <2>3 DEF Executed, Of
<1>3. CASE \E x \in e2 : Of(o, x)
  BY <1>3 DEF Executed, Of
<1> QED
  BY <1>2, <1>3 DEF LsuInv

(* Memory is not asked to read or write for an instruction that is         *)
(* squashed and executed again.                                            *)
THEOREM NoSquashedAccessCorrect == Sound => (Spec => []NoSquashedAccess)
<1> SUFFICES ASSUME Sound PROVE Spec => []NoSquashedAccess
  OBVIOUS
<1>1. IInv => NoSquashedAccess
  BY SquashedFollows
<1> QED
  BY <1>1, InvariantHolds, PTL

LEMMA AnswersFollow == ASSUME IInv, Sound PROVE AnswersBelong
<1> USE DEF IInv
<1>1. TypeOK
  BY DEF TypeInv
<1>2. ASSUME NEW m \in L!MemoryInputs, L!WritebackValid(m)
      PROVE  /\ L!Answered # {}
             /\ \A o \in L!Answered, x \in e2 : x.kind \in Access => x.seq = o.id /\ x.kind = o.op
  <2>1. Waits
    BY <1>2, MemoryWires
  <2>2. fifo # <<>> /\ L!Answered = {Head(fifo)}
    BY <2>1 DEF LsuInv, L!Answered
  <2>3. ASSUME NEW x \in e2, x.kind \in Access PROVE Of(Head(fifo), x)
    BY <2>1, <2>3 DEF LsuInv
  <2> QED
    BY <2>2, <2>3 DEF Of
<1>3. Len(fifo) < FifoDepth
  <2>1. Len(fifo) \in {0, 1}
    BY DEF LsuInv
  <2>2. 0 < FifoDepth /\ 1 < FifoDepth
    BY PipelineAssumption
  <2> QED
    BY <2>1, <2>2
<1> QED
  BY <1>1, <1>2, <1>3 DEF AnswersBelong

(* The answer an access takes is its own, and there is room to remember    *)
(* what was asked.                                                         *)
THEOREM AnswersBelongCorrect == Sound => (Spec => []AnswersBelong)
<1> SUFFICES ASSUME Sound PROVE Spec => []AnswersBelong
  OBVIOUS
<1>1. IInv => AnswersBelong
  BY AnswersFollow
<1> QED
  BY <1>1, InvariantHolds, PTL

LEMMA WaitingFollows == ASSUME IInv PROVE NothingWaitsInVain
<1> USE DEF IInv
<1>1. /\ divPending => div # {} \/ divDone # {}
      /\ \A x \in e1 : x.kind = "div" => divDone = {x.seq} \/ \E v \in div : v.id = x.seq
  BY DEF DivInv
<1>2. csrPending => \/ \E x \in e1 \cup e2 : x.kind \in CsrKind
                    \/ \E x \in wb : x.csr
  BY DEF CsrInv
<1>3. Len(fifo) = (IF Waits THEN 1 ELSE 0) /\ owed \in {0, 1} /\ (pending <=> owed = 1)
      /\ ~(pending /\ unalignedE2)
  BY DEF LsuInv
<1>4. ASSUME NEW x \in e2, x.kind \in Access
      PROVE  (\E o \in held : o.id = x.seq) \/ \E n \in 1 .. Len(fifo) : fifo[n].id = x.seq
  <2>1. CASE Waits
    <3>1. Of(Head(fifo), x)
      BY <1>4, <2>1 DEF LsuInv
    <3>2. Head(fifo) = fifo[1] /\ 1 \in 1 .. Len(fifo)
      BY <1>3, <2>1
    <3>3. fifo[1].id = x.seq
      BY <3>1, <3>2 DEF Of
    <3> QED
      BY <3>2, <3>3
  <2>2. CASE ~Waits
    <3>1. \E o \in held : Of(o, x)
      BY <1>4, <2>2 DEF LsuInv
    <3> QED
      BY <3>1 DEF Of
  <2> QED
    BY <2>1, <2>2
<1>5. (pending <=> owed > 0) /\ Len(fifo) = owed + (IF unalignedE2 THEN 1 ELSE 0)
  <2>1. CASE pending
    <3>1. owed = 1 /\ ~unalignedE2 /\ Len(fifo) = 1
      BY <1>3, <2>1 DEF Waits
    <3> QED
      BY <2>1, <3>1
  <2>2. CASE ~pending
    <3>1. owed = 0 /\ Len(fifo) = IF unalignedE2 THEN 1 ELSE 0
      BY <1>3, <2>2 DEF Waits
    <3> QED
      BY <2>2, <3>1
  <2> QED
    BY <2>1, <2>2
<1> QED
  BY <1>1, <1>2, <1>4, <1>5 DEF NothingWaitsInVain

(* Whatever holds instructions back has its cause under way.               *)
THEOREM NothingWaitsInVainCorrect == Sound => (Spec => []NothingWaitsInVain)
<1>1. IInv => NothingWaitsInVain
  BY WaitingFollows
<1> QED
  BY <1>1, InvariantHolds, PTL

-----------------------------------------------------------------------------
(* Operands.                                                               *)

(* Stores have no destination; a write of satp that has one loses it.      *)
NoDestination == \A i \in Instructions : i.kind \in {"store", "barrier"} => i.rd = 0

(* No division begins in the cycle in which another one completes.         *)
DivisionsApart == DivComplete => \A v \in div' : v.left # DivCycles

(* An instruction that is to write a register has its number for a result, *)
(* or will have it when it leaves E2.                                      *)
ValueInv ==
  /\ \A i \in dec : i.kind \in {"store", "barrier"} => i.rd = 0
  /\ \A x \in e1 : /\ x.exc \in {"none", "trap"}
                   /\ x.kind \in {"store", "intr"} => x.rd = 0
                   /\ x.kind \in CsrKind => \E k \in csrE1 : k.seq = x.seq
                   /\ x.kind = "div" => divPending /\ (divDone = {} \/ divDone = {x.seq})
                   /\ \A k \in csrE1 : k.exc = "barrier" => x.rd = 0
  /\ \A x \in e2 : /\ x.exc = "none" => x.valid
                   /\ x.kind = "store" \/ x.exc = "barrier" => x.rd = 0
                   /\ x.exc = "none" /\ x.rd # 0 /\ x.kind \notin {"load", "mul"} => x.val = x.seq
  /\ \A x \in wb : /\ x.exc # "none" => x.rd = 0
                   /\ x.rd # 0 => x.valid /\ x.val = x.seq
  /\ \A r \in Reg : file[r] = File

(* The newest value of a register is that of the youngest instruction that *)
(* is to write it, and otherwise in the register file.                     *)
NewestInv ==
  (\A y \in e2 : y.exc = "none") =>
    \A r \in Reg \ {0} :
      /\ \A x \in e1 : x.rd = r => newest[r] = x.seq
      /\ (\A x \in e1 : x.rd # r) =>
           /\ \A x \in e2 : x.rd = r => newest[r] = x.seq
           /\ (\A x \in e2 : x.rd # r) =>
                /\ \A x \in wb : x.rd = r => newest[r] = x.seq
                /\ (\A x \in wb : x.rd # r) => newest[r] = File

(* Without an exception, each instruction in E2 has none yet. *)
LEMMA NoneRaised ==
  ASSUME StageInv, NEW m, ~Raises(m)
  PROVE  \A y \in e2 : y.exc = "none" /\ ExceptionOf(y, m) = "none"
<1> SUFFICES ASSUME NEW y \in e2 PROVE y.exc = "none" /\ ExceptionOf(y, m) = "none"
  OBVIOUS
<1>1. ExceptionOf(y, m) = "none"
  BY DEF Raises
<1> QED
  BY <1>1, RaisesIs, AccessIs DEF StageInv, CsrKind

(* The answer an access takes when it leaves E2 is its own. *)
LEMMA AnswerIsOwn ==
  ASSUME IInv, Sound, NEW m \in L!MemoryInputs, ~Stall(m), NEW x \in e2, x.kind \in Access
  PROVE  MemValue(m) = x.seq
<1> USE DEF IInv
<1>1. L!WritebackValid(m)
  BY DEF Stall
<1>2. Waits
  BY <1>1, MemoryWires
<1>3. fifo # <<>> /\ Of(Head(fifo), x)
  BY <1>2 DEF LsuInv
<1>4. L!Answered = {Head(fifo)} /\ The(L!Answered) = Head(fifo)
  BY <1>3 DEF L!Answered, The
<1> QED
  BY <1>1, <1>3, <1>4 DEF MemValue, Of

(* What is offered and what enters E1. *)
LEMMA ValuesEnter ==
  ASSUME IInv, ValueInv, Sound, NoDestination,
         NEW m \in L!MemoryInputs, NEW c \in CoreInputs(m), Clock(c, m), DivisionsApart
  PROVE  /\ \A i \in dec' : i.kind \in {"store", "barrier"} => i.rd = 0
         /\ \A x \in e1' : /\ x.exc \in {"none", "trap"}
                           /\ x.kind \in {"store", "intr"} => x.rd = 0
                           /\ x.kind \in CsrKind => \E k \in csrE1' : k.seq = x.seq
                           /\ x.kind = "div" => divPending' /\ (divDone' = {} \/ divDone' = {x.seq})
                           /\ \A k \in csrE1' : k.exc = "barrier" => x.rd = 0
<1> USE DEF IInv
<1>1. /\ StageE1(m) /\ CsrUnit(m) /\ FetchUnit(c, m)
      /\ divPending' = IF Squash(m) THEN FALSE
                       ELSE Issued({"div"}, m) \/ (divPending /\ divDone = {})
      /\ divDone' = IF DivComplete THEN {v.id : v \in div} ELSE {}
  BY DEF Clock, DivPending, Divider
<1>2. Single(dec) /\ Single(div) /\ \A i \in dec : i.kind \in Kind \ {"badbranch"}
  BY DEF TypeInv
<1>3. \A i \in dec : i.kind \in {"store", "barrier"} => i.rd = 0
  BY DEF ValueInv
<1>4. ASSUME Issued({"div"}, m) PROVE divDone' = {}
  <2>1. PICK i \in dec : TRUE
    BY <1>4 DEF Issued
  <2> DEFINE begun == [id |-> i.seq, left |-> DivCycles]
  <2>2. begun \in div'
    BY <1>4, <2>1 DEF Clock, Divider
  <2>3. begun.left = DivCycles
    OBVIOUS
  <2> HIDE DEF begun
  <2>4. ~DivComplete
    BY <2>2, <2>3 DEF DivisionsApart
  <2> QED
    BY <1>1, <2>4
<1>5. ASSUME NEW i \in dec', i.kind \in {"store", "barrier"} PROVE i.rd = 0
  <2>1. dec' \subseteq dec \cup {Numbered(j, nextSeq) : j \in c.offer}
    BY <1>1 DEF FetchUnit
  <2>2. \A j : Numbered(j, nextSeq).kind = j.kind /\ Numbered(j, nextSeq).rd = j.rd
    BY DEF Numbered
  <2>3. \A j \in c.offer : j \in Instructions
    BY InputsAre
  <2> QED
    BY <1>3, <1>5, <2>1, <2>2, <2>3 DEF NoDestination
<1>6. ASSUME NEW x \in e1'
      PROVE  /\ x.exc \in {"none", "trap"}
             /\ x.kind \in {"store", "intr"} => x.rd = 0
             /\ x.kind \in CsrKind => \E k \in csrE1' : k.seq = x.seq
             /\ x.kind = "div" => divPending' /\ (divDone' = {} \/ divDone' = {x.seq})
             /\ \A k \in csrE1' : k.exc = "barrier" => x.rd = 0
  <2>1. CASE Stall(m)
    <3>1. x \in e1 /\ ~Issue(m) /\ ~Squash(m) /\ csrE1' = {} /\ x.kind \notin CsrKind
      BY <1>1, <1>6, <2>1, E1Comes, IssueWires, CsrComes, StallKeeps, RaisingGoesOn DEF Squash
    <3>2. ASSUME x.kind = "div" PROVE divPending' /\ (divDone' = {} \/ divDone' = {x.seq})
      <4>1. \A y \in e2 : y.kind \notin Access
        BY <2>1, <3>1, <3>2, StallKeeps
      <4>2. divDone = {} /\ divPending
        BY <2>1, <3>1, <3>2, <4>1 DEF Stall, ValueInv
      <4>3. \E v \in div : v.id = x.seq
        BY <3>1, <3>2, <4>2 DEF DivInv
      <4>4. {v.id : v \in div} = {x.seq}
        BY <1>2, <4>3 DEF Single
      <4> QED
        BY <1>1, <3>1, <4>2, <4>4
    <3> QED
      BY <3>1, <3>2 DEF ValueInv
  <2>2. CASE ~Stall(m)
    <3>1. Issue(m) /\ ~Squash(m)
      BY <1>1, <1>6, <2>2, E1Comes, IssueWires
    <3>2. PICK i \in dec :
            /\ x.seq = i.seq
            /\ takeInterrupt => x.kind = "intr" /\ x.rd = 0
            /\ ~takeInterrupt => x.kind = i.kind /\ x.rd = i.rd
            /\ x.exc = IF i.kind \in {"fault", "badbranch"} THEN "trap" ELSE "none"
      BY <1>1, <1>6, <3>1, E1Comes
    <3>3. x.exc \in {"none", "trap"}
      BY <3>2
    <3>4. x.kind \in {"store", "intr"} => x.rd = 0
      BY <1>2, <1>3, <3>2 DEF Kind, CsrKind
    <3>5. ASSUME x.kind \in CsrKind PROVE \E k \in csrE1' : k.seq = x.seq
      <4>1. ~takeInterrupt
        BY <3>2, <3>5 DEF CsrKind
      <4> QED
        BY <1>1, <3>1, <3>2, <4>1, CsrComes
    <3>6. ASSUME x.kind = "div" PROVE divPending' /\ divDone' = {}
      <4>1. Issued({"div"}, m)
        BY <3>1, <3>2, <3>6 DEF Issued
      <4> QED
        BY <1>1, <1>4, <3>1, <4>1
    <3>7. ASSUME NEW k \in csrE1', k.exc = "barrier" PROVE x.rd = 0
      <4>1. CASE takeInterrupt
        BY <3>2, <4>1
      <4>2. CASE ~takeInterrupt
        <5>1. PICK j \in dec : k.exc = EarlyException(j.kind)
          BY <1>1, <3>1, <3>7, <4>2, CsrComes
        <5>2. j = i /\ i.kind = "barrier"
          BY <1>2, <3>7, <5>1 DEF Single, EarlyException
        <5> QED
          BY <1>3, <3>2, <4>2, <5>2
      <4> QED
        BY <4>1, <4>2
    <3> QED
      BY <3>3, <3>4, <3>5, <3>6, <3>7
  <2> QED
    BY <2>1, <2>2
<1> QED
  BY <1>5, <1>6

(* What reaches E2 and writeback has its number for a value. *)
LEMMA ValuesGoOn ==
  ASSUME IInv, ValueInv, Sound, NEW m \in L!MemoryInputs, NEW c, Clock(c, m)
  PROVE  /\ \A y \in e2' : /\ y.exc = "none" => y.valid
                           /\ y.kind = "store" \/ y.exc = "barrier" => y.rd = 0
                           /\ y.exc = "none" /\ y.rd # 0 /\ y.kind \notin {"load", "mul"} => y.val = y.seq
         /\ \A y \in wb' : /\ y.exc # "none" => y.rd = 0
                           /\ y.rd # 0 => y.valid /\ y.val = y.seq
         /\ \A r \in Reg : file'[r] = File
<1> USE DEF IInv
<1>1. StageE2(m) /\ StageWb(m) /\ RegisterFile(m)
  BY DEF Clock
<1>2. Single(e1) /\ Single(csrE1) /\ Single(divDone) /\ Single(e2) /\ Single(wb)
      /\ \A x \in e1 : x.kind \in Kind \cup {"intr"}
  BY DEF TypeInv, TypeOK, Stage
<1>3. csrE1 # {} => The(csrE1) \in csrE1
  BY DEF The
<1>4. ASSUME NEW x \in e1, ~Stall(m), ExceptionE1(x) = "none"
      PROVE  /\ x.kind # "intr" /\ x.exc = "none"
             /\ x.rd # 0 /\ x.kind \notin {"load", "mul"} => ValueE1(x) = x.seq
  <2>1. x.kind # "intr" /\ x.exc = "none"
    BY <1>4 DEF ExceptionE1
  <2>2. CASE x.kind = "div"
    <3>1. divDone # {}
      BY <1>4, <2>2 DEF Stall
    <3>2. divDone = {x.seq}
      BY <2>2, <3>1 DEF ValueInv
    <3>3. The(divDone) = x.seq
      BY <3>2 DEF The
    <3> QED
      BY <2>1, <2>2, <3>1, <3>3 DEF ValueE1
  <2>3. CASE x.kind \in CsrKind
    <3>1. PICK k \in csrE1 : k.seq = x.seq
      BY <2>3 DEF ValueInv
    <3>2. The(csrE1) = k /\ csrE1 # {}
      BY <1>2, <3>1, TheOnly
    <3>3. x.kind # "div"
      BY <2>3 DEF CsrKind
    <3> QED
      BY <2>1, <2>3, <3>1, <3>2, <3>3 DEF ValueE1
  <2>4. CASE x.kind \notin CsrKind \cup {"div"}
    <3>1. x.kind = "store" => x.rd = 0
      BY DEF ValueInv
    <3>2. ValueE1(x) = ExecValue(x)
      BY <2>4 DEF ValueE1
    <3>3. x.kind \in {"alu", "branch", "badbranch"} => ExecValue(x) = x.seq
      BY DEF ExecValue
    <3>4. x.kind \in {"alu", "branch", "badbranch", "load", "store", "mul"}
      BY <1>2, <2>1, <2>4 DEF Kind
    <3> QED
      BY <2>1, <3>1, <3>2, <3>3, <3>4
  <2> QED
    BY <2>2, <2>3, <2>4
<1>5. ASSUME NEW x \in e1, ExceptionE1(x) = "barrier" PROVE x.rd = 0
  <2>1. x.exc \in {"none", "trap"} /\ \A k \in csrE1 : k.exc = "barrier" => x.rd = 0
    BY DEF ValueInv
  <2>2. csrE1 # {} /\ The(csrE1).exc = "barrier"
    BY <1>5, <2>1 DEF ExceptionE1
  <2> QED
    BY <1>3, <2>1, <2>2
<1>6. ASSUME NEW y \in e2'
      PROVE  /\ y.exc = "none" => y.valid
             /\ y.kind = "store" \/ y.exc = "barrier" => y.rd = 0
             /\ y.exc = "none" /\ y.rd # 0 /\ y.kind \notin {"load", "mul"} => y.val = y.seq
  <2>1. CASE Stall(m)
    BY <1>1, <1>6, <2>1, E2Comes DEF ValueInv
  <2>2. CASE ~Stall(m)
    <3>1. PICK x \in e1 : /\ y.kind = x.kind /\ y.rd = x.rd /\ y.seq = x.seq
                          /\ y.valid <=> x.kind = "intr" \/ x.exc = "none"
                          /\ y.exc = ExceptionE1(x) /\ y.val = ValueE1(x)
      BY <1>1, <2>2, E2Comes
    <3>2. x.kind = "store" => x.rd = 0
      BY DEF ValueInv
    <3>3. y.exc = "none" => y.valid
      BY <1>4, <2>2, <3>1
    <3>4. y.kind = "store" \/ y.exc = "barrier" => y.rd = 0
      BY <1>5, <3>1, <3>2
    <3>5. y.exc = "none" /\ y.rd # 0 /\ y.kind \notin {"load", "mul"} => y.val = y.seq
      BY <1>4, <2>2, <3>1
    <3> QED
      BY <3>3, <3>4, <3>5
  <2> QED
    BY <2>1, <2>2
<1>7. ASSUME NEW y \in wb'
      PROVE  /\ y.exc # "none" => y.rd = 0
             /\ y.rd # 0 => y.valid /\ y.val = y.seq
  <2>1. CASE Stall(m)
    BY <1>1, <1>7, <2>1, WbComes DEF ValueInv
  <2>2. CASE ~Stall(m)
    <3>1. PICK x \in e2 : /\ y.seq = x.seq
                          /\ y.rd = IF ExceptionOf(x, m) # "none" THEN 0 ELSE x.rd
                          /\ y.valid <=> x.valid /\ ExceptionOf(x, m) # "mem"
                          /\ y.exc = ExceptionOf(x, m) /\ y.val = ResultWb(x, m)
      BY <1>1, <2>2, WbComes
    <3>2. y.exc # "none" => y.rd = 0
      BY <3>1
    <3>3. ASSUME y.rd # 0 PROVE y.valid /\ y.val = y.seq
      <4>1. ExceptionOf(x, m) = "none" /\ y.rd = x.rd /\ x.rd # 0
        BY <3>1, <3>3
      <4>2. x.exc = "none"
        BY <4>1, RaisesIs, AccessIs DEF StageInv, CsrKind
      <4>3. x.valid /\ x.kind # "store" /\ (x.kind \notin {"load", "mul"} => x.val = x.seq)
        BY <4>1, <4>2 DEF ValueInv
      <4>4. x.kind \in Access => ResultWb(x, m) = x.seq
        BY <2>2, <4>3, AnswerIsOwn DEF ResultWb
      <4>5. x.kind \notin Access => ResultWb(x, m) = x.seq
        <5>1. x.kind \notin Access => x.kind # "load"
          BY AccessIs
        <5> QED
          BY <4>3, <5>1 DEF ResultWb
      <4> QED
        BY <3>1, <4>1, <4>3, <4>4, <4>5
    <3> QED
      BY <3>2, <3>3
  <2> QED
    BY <2>1, <2>2
<1>8. ASSUME NEW r \in Reg PROVE file'[r] = File
  <2>1. file'[r] = IF ~Stall(m) /\ \E x \in wb : x.valid /\ x.rd = r /\ r # 0
                   THEN IF \E x \in wb : x.val = x.seq THEN File ELSE Junk
                   ELSE file[r]
    BY <1>1 DEF RegisterFile
  <2>2. ASSUME \E x \in wb : x.valid /\ x.rd = r /\ r # 0 PROVE \E x \in wb : x.val = x.seq
    BY <2>2 DEF ValueInv
  <2>3. file[r] = File
    BY DEF ValueInv
  <2> QED
    BY <2>1, <2>2, <2>3
<1> QED
  BY <1>6, <1>7, <1>8

LEMMA NewestKept ==
  ASSUME IInv, ValueInv, NewestInv, NEW m, NEW c, Clock(c, m)
  PROVE  NewestInv'
<1> USE DEF IInv
<1>1. /\ StageE1(m) /\ StageE2(m) /\ StageWb(m)
      /\ newest' =
           [r \in Reg |->
              IF ~Stall(m) /\ Raises(m)
              THEN IF \E x \in e2 : x.rd = r /\ r # 0 /\ ExceptionOf(x, m) = "barrier"
                   THEN The(e2).seq ELSE File
              ELSE IF Issue(m) /\ ~takeInterrupt /\ r # 0 /\ \E i \in dec : i.rd = r
                   THEN The(dec).seq
              ELSE IF ~Stall(m) /\ \E x \in wb : x.valid /\ x.rd = r /\ x.seq = newest[r]
                   THEN File
              ELSE newest[r]]
  BY DEF Clock, History
<1>2. /\ Single(dec) /\ Single(e1) /\ Single(e2) /\ Single(wb)
      /\ Single(e1)' /\ Single(e2)' /\ Single(wb)'
  BY StagesKept DEF TypeInv
<1>3. 0 \in Reg
  BY PipelineAssumption
<1> SUFFICES ASSUME \A y \in e2' : y.exc = "none", NEW r \in Reg \ {0}
             PROVE  /\ \A x \in e1' : x.rd = r => newest'[r] = x.seq
                    /\ (\A x \in e1' : x.rd # r) =>
                         /\ \A x \in e2' : x.rd = r => newest'[r] = x.seq
                         /\ (\A x \in e2' : x.rd # r) =>
                              /\ \A x \in wb' : x.rd = r => newest'[r] = x.seq
                              /\ (\A x \in wb' : x.rd # r) => newest'[r] = File
  BY DEF NewestInv
<1>4. newest'[r] = IF ~Stall(m) /\ Raises(m)
                   THEN IF \E x \in e2 : x.rd = r /\ ExceptionOf(x, m) = "barrier"
                        THEN The(e2).seq ELSE File
                   ELSE IF Issue(m) /\ ~takeInterrupt /\ \E i \in dec : i.rd = r
                        THEN The(dec).seq
                   ELSE IF ~Stall(m) /\ \E x \in wb : x.valid /\ x.rd = r /\ x.seq = newest[r]
                        THEN File
                   ELSE newest[r]
  BY <1>1
<1>5. CASE Stall(m)
  <2>1. /\ e1' = e1 /\ e2' = e2 /\ wb' = wb /\ ~Issue(m)
    BY <1>1, <1>5, E1Comes, E2Comes, WbComes, IssueWires
  <2>2. newest'[r] = newest[r]
    BY <1>4, <1>5, <2>1
  <2> QED
    BY <2>1, <2>2 DEF NewestInv
<1>6. CASE ~Stall(m) /\ Raises(m)
  <2>1. e1' = {} /\ e2' = {}
    BY <1>1, <1>6, E1Comes, E2Comes, IssueWires DEF Squash
  <2>2. ASSUME NEW x \in e2 PROVE ~(x.rd = r /\ ExceptionOf(x, m) = "barrier")
    <3>1. ExceptionOf(x, m) = "barrier" => x.exc = "barrier"
      BY RaisesIs
    <3> QED
      BY <3>1 DEF ValueInv
  <2>3. newest'[r] = File
    BY <1>4, <1>6, <2>2
  <2>4. ASSUME NEW y \in wb' PROVE y.rd # r
    <3>1. PICK x \in e2 : y.rd = IF ExceptionOf(x, m) # "none" THEN 0 ELSE x.rd
      BY <1>1, <1>6, WbComes
    <3>2. ExceptionOf(x, m) # "none"
      BY <1>2, <1>6 DEF Raises, Single
    <3> QED
      BY <3>1, <3>2
  <2> QED
    BY <2>1, <2>3, <2>4
<1>7. CASE ~Stall(m) /\ ~Raises(m)
  <2>1. \A y \in e2 : y.exc = "none" /\ ExceptionOf(y, m) = "none"
    BY <1>7, NoneRaised
  <2>2. /\ \A x \in e1 : x.rd = r => newest[r] = x.seq
        /\ (\A x \in e1 : x.rd # r) =>
             /\ \A x \in e2 : x.rd = r => newest[r] = x.seq
             /\ (\A x \in e2 : x.rd # r) =>
                  /\ \A x \in wb : x.rd = r => newest[r] = x.seq
                  /\ (\A x \in wb : x.rd # r) => newest[r] = File
    BY <2>1 DEF NewestInv
  <2>3. e1 # {} => ~Squash(m)
    BY <1>7 DEF Squash, TrapInv
  <2>4. /\ \A y \in e2' : \E x \in e1 : y.rd = x.rd /\ y.seq = x.seq
        /\ \A x \in e1 : \E y \in e2' : y.rd = x.rd /\ y.seq = x.seq
        /\ \A y \in wb' : \E x \in e2 : y.rd = x.rd /\ y.seq = x.seq
        /\ \A x \in e2 : \E y \in wb' : y.rd = x.rd /\ y.seq = x.seq
    BY <1>1, <1>7, <2>1, <2>3, E2Comes, WbComes
  <2>5. CASE Issue(m) /\ ~takeInterrupt /\ \E i \in dec : i.rd = r
    <3>1. PICK i \in dec : i.rd = r
      BY <2>5
    <3>2. newest'[r] = i.seq
      BY <1>2, <1>4, <1>7, <2>5, TheOnly
    <3>3. \E x \in e1' : x.seq = i.seq /\ x.rd = r
      BY <1>1, <2>5, <3>1, E1Comes
    <3> QED
      BY <1>2, <3>2, <3>3 DEF Single
  <2>6. CASE ~(Issue(m) /\ ~takeInterrupt /\ \E i \in dec : i.rd = r)
    <3>1. \A x \in e1' : x.rd # r
      <4> SUFFICES ASSUME NEW x \in e1' PROVE x.rd # r
        OBVIOUS
      <4>1. Issue(m)
        BY <1>1, <1>7, E1Comes
      <4>2. PICK i \in dec : /\ takeInterrupt => x.rd = 0
                             /\ ~takeInterrupt => x.rd = i.rd
        BY <1>1, <4>1, E1Comes
      <4> QED
        BY <2>6, <4>1, <4>2
    <3>2. newest'[r] = IF \E x \in wb : x.valid /\ x.rd = r /\ x.seq = newest[r] THEN File ELSE newest[r]
      BY <1>4, <1>7, <2>6
    <3>3. ASSUME NEW z \in wb
          PROVE  (\A x \in e1 : x.seq # z.seq) /\ (\A x \in e2 : x.seq # z.seq)
      <4>1. z.seq = commit /\ commit \in Seq0 /\ One(wb) = 1 /\ One(e2) \in 0 .. 1
        BY DEF OrderInv, TypeInv, TypeOK, One
      <4>2. \A n \in 1 .. 2 : After(n) # commit
        <5> SUFFICES ASSUME NEW n \in 1 .. 2 PROVE After(n) # commit
          OBVIOUS
        <5>1. Numbers \in Nat /\ Numbers > 4 /\ commit \in Nat /\ commit < Numbers
          BY <4>1, PipelineAssumption DEF Seq0
        <5>2. n \in 0 .. 4
          OBVIOUS
        <5>3. After(n) = IF commit + n < Numbers THEN commit + n ELSE commit + n - Numbers
          BY <4>1, <5>2, AfterIs
        <5> QED
          BY <5>1, <5>3
      <4>3. \A x \in e2 : x.seq = After(1)
        BY <4>1 DEF OrderInv
      <4>4. \A x \in e1 : x.seq = After(1 + One(e2))
        BY <2>1, <4>1 DEF OrderInv
      <4>5. 1 \in 1 .. 2 /\ 1 + One(e2) \in 1 .. 2
        BY <4>1
      <4> QED
        BY <4>1, <4>2, <4>3, <4>4, <4>5
    <3>4. CASE \E x \in e1 : x.rd = r
      <4>1. PICK x \in e1 : x.rd = r
        BY <3>4
      <4>2. newest[r] = x.seq
        BY <2>2, <4>1
      <4>3. newest'[r] = x.seq
        BY <3>2, <3>3, <4>2
      <4>4. PICK y \in e2' : y.rd = x.rd /\ y.seq = x.seq
        BY <2>4
      <4> QED
        BY <1>2, <3>1, <4>1, <4>3, <4>4 DEF Single
    <3>5. CASE (\A x \in e1 : x.rd # r) /\ \E x \in e2 : x.rd = r
      <4>1. PICK x \in e2 : x.rd = r
        BY <3>5
      <4>2. newest[r] = x.seq
        BY <2>2, <3>5, <4>1
      <4>3. newest'[r] = x.seq
        BY <3>2, <3>3, <4>2
      <4>4. PICK y \in wb' : y.rd = x.rd /\ y.seq = x.seq
        BY <2>4
      <4>5. \A y2 \in e2' : y2.rd # r
        BY <2>4, <3>5
      <4> QED
        BY <1>2, <3>1, <4>1, <4>3, <4>4, <4>5 DEF Single
    <3>6. CASE (\A x \in e1 : x.rd # r) /\ (\A x \in e2 : x.rd # r)
      <4>1. (\A y \in e2' : y.rd # r) /\ (\A y \in wb' : y.rd # r)
        BY <2>4, <3>6
      <4>2. newest'[r] = File
        <5>1. CASE \E z \in wb : z.rd = r
          <6>1. PICK z \in wb : z.rd = r
            BY <5>1
          <6>2. newest[r] = z.seq
            BY <2>2, <3>6, <6>1
          <6>3. z.valid
            BY <6>1 DEF ValueInv
          <6> QED
            BY <3>2, <6>1, <6>2, <6>3
        <5>2. CASE \A z \in wb : z.rd # r
          BY <2>2, <3>2, <3>6, <5>2
        <5> QED
          BY <5>1, <5>2
      <4> QED
        BY <3>1, <4>1, <4>2
    <3> QED
      BY <3>4, <3>5, <3>6
  <2> QED
    BY <2>5, <2>6
<1> QED
  BY <1>5, <1>6, <1>7

LEMMA OperandsFollow ==
  ASSUME IInv, ValueInv, NewestInv, Sound
  PROVE  OperandsCurrent
<1> USE DEF IInv
<1> SUFFICES ASSUME NEW m \in L!MemoryInputs, Issue(m), NEW i \in dec, NEW r \in i.src \ {0}
             PROVE  Operand(r, m) = newest[r]
  BY DEF OperandsCurrent
<1>1. /\ ~Raises(m) /\ ~Stall(m) /\ ~divPending /\ ~csrPending /\ r \notin Scoreboard
  BY IssueWires DEF Issue
<1>2. r \in Reg \ {0}
  BY DEF TypeInv
<1>3. /\ Single(e1) /\ Single(e2) /\ Single(wb) /\ \A x \in e1 : x.kind \in Kind \cup {"intr"}
  BY DEF TypeInv, TypeOK, Stage
<1>4. \A y \in e2 : y.exc = "none" /\ y.valid
  BY <1>1, NoneRaised DEF ValueInv
<1>5. /\ \A x \in e1 : x.rd = r => newest[r] = x.seq
      /\ (\A x \in e1 : x.rd # r) =>
           /\ \A x \in e2 : x.rd = r => newest[r] = x.seq
           /\ (\A x \in e2 : x.rd # r) =>
                /\ \A x \in wb : x.rd = r => newest[r] = x.seq
                /\ (\A x \in wb : x.rd # r) => newest[r] = File
  BY <1>2, <1>4 DEF NewestInv
<1> DEFINE inE1 == {x \in e1 : x.rd = r}
           inE2 == {x \in e2 : x.rd = r /\ x.valid /\ ~Stall(m)}
           inWb == {x \in wb : x.rd = r /\ x.valid /\ ~Stall(m)}
<1>6. Operand(r, m) = IF inE1 # {} THEN ExecValue(The(inE1))
                      ELSE IF inE2 # {} THEN ResultE2(The(inE2), m)
                      ELSE IF inWb # {} THEN The(inWb).val
                      ELSE file[r]
  BY DEF Operand
<1>7. CASE \E x \in e1 : x.rd = r
  <2>1. PICK x \in e1 : x.rd = r
    BY <1>7
  <2>2. The(inE1) = x /\ inE1 # {}
    BY <1>3, <2>1, TheOnly DEF Single
  <2>3. x.kind \notin {"load", "mul"}
    BY <1>1, <2>1 DEF Scoreboard
  <2>4. x.kind \notin {"store", "intr", "div"}
    BY <1>1, <1>2, <2>1 DEF ValueInv
  <2>5. x.kind \notin CsrKind
    BY <1>1 DEF CsrInv
  <2>6. ExecValue(x) = x.seq
    BY <1>3, <2>3, <2>4, <2>5 DEF ExecValue, Kind
  <2> QED
    BY <1>5, <1>6, <2>1, <2>2, <2>6
<1>8. CASE (\A x \in e1 : x.rd # r) /\ \E x \in e2 : x.rd = r
  <2>1. PICK x \in e2 : x.rd = r
    BY <1>8
  <2>2. inE1 = {} /\ inE2 # {} /\ The(inE2) = x
    BY <1>1, <1>3, <1>4, <1>8, <2>1, TheOnly DEF Single
  <2>3. (x.kind = "load" => LoadBypass) /\ (x.kind = "mul" => MulBypass)
    BY <1>1, <2>1 DEF Scoreboard
  <2>4. x.kind # "store" /\ (x.kind \notin {"load", "mul"} => x.val = x.seq)
    BY <1>2, <1>4, <2>1 DEF ValueInv
  <2>5. x.kind \in Access => MemValue(m) = x.seq
    BY <1>1, AnswerIsOwn
  <2>6. ResultE2(x, m) = x.seq
    BY <2>3, <2>4, <2>5, AccessIs DEF ResultE2
  <2> QED
    BY <1>5, <1>6, <1>8, <2>1, <2>2, <2>6
<1>9. CASE (\A x \in e1 : x.rd # r) /\ (\A x \in e2 : x.rd # r)
  <2>1. inE1 = {} /\ inE2 = {}
    BY <1>9
  <2>2. CASE \E x \in wb : x.rd = r
    <3>1. PICK x \in wb : x.rd = r
      BY <2>2
    <3>2. x.valid /\ x.val = x.seq
      BY <1>2, <3>1 DEF ValueInv
    <3>3. inWb # {} /\ The(inWb) = x
      BY <1>1, <1>3, <3>1, <3>2, TheOnly DEF Single
    <3> QED
      BY <1>5, <1>6, <1>9, <2>1, <3>1, <3>2, <3>3
  <2>3. CASE \A x \in wb : x.rd # r
    <3>1. inWb = {} /\ file[r] = File
      BY <1>2, <2>3 DEF ValueInv
    <3> QED
      BY <1>5, <1>6, <1>9, <2>1, <2>3, <3>1
  <2> QED
    BY <2>2, <2>3
<1> QED
  BY <1>7, <1>8, <1>9

(* An instruction is issued with the newest value of every register it     *)
(* reads, as long as no division begins in the cycle in which one that was *)
(* abandoned completes.                                                    *)
THEOREM OperandsCurrentCorrect ==
  Sound /\ NoDestination => (Spec /\ [][DivisionsApart]_vars => []OperandsCurrent)
<1> SUFFICES ASSUME Sound, NoDestination
             PROVE  Spec /\ [][DivisionsApart]_vars => []OperandsCurrent
  OBVIOUS
<1>1. Init => ValueInv /\ NewestInv
  BY DEF Init, ValueInv, NewestInv
<1>2. IInv /\ ValueInv /\ NewestInv /\ [Next]_vars /\ [DivisionsApart]_vars
        => (ValueInv /\ NewestInv)'
  <2>1. ASSUME IInv, ValueInv, NewestInv, Next, DivisionsApart
        PROVE  (ValueInv /\ NewestInv)'
    <3>1. PICK m \in L!MemoryInputs : \E c \in CoreInputs(m) : Clock(c, m)
      BY <2>1 DEF Next
    <3>2. PICK c \in CoreInputs(m) : Clock(c, m)
      BY <3>1
    <3>3. NewestInv'
      BY <2>1, <3>2, NewestKept
    <3>4. ValueInv'
      BY <2>1, <3>2, ValuesEnter, ValuesGoOn DEF ValueInv
    <3> QED
      BY <3>3, <3>4
  <2>2. ASSUME ValueInv, NewestInv, UNCHANGED vars
        PROVE  (ValueInv /\ NewestInv)'
    BY <2>2 DEF ValueInv, NewestInv, vars, pipeVars
  <2> QED
    BY <2>1, <2>2
<1>3. IInv /\ ValueInv /\ NewestInv => OperandsCurrent
  BY OperandsFollow
<1> QED
  BY <1>1, <1>2, <1>3, InvariantHolds, PTL DEF Spec

=============================================================================
