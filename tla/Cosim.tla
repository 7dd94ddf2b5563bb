--------------------------------- MODULE Cosim ---------------------------------
(***************************************************************************)
(* Processors under the co-simulation interface (cosim_api.h), and the     *)
(* framework that steps several of them and compares (cosim_api.cpp).      *)
(*                                                                         *)
(* A processor is a record: the simulator of module Simulator, a memory,   *)
(* one general register, and the events pushed and not yet popped.  Kind   *)
(* "sim" is class Riscv.  The others have the memory of the testbench,     *)
(* execute the same instructions, and may go wrong (see Wrong): kind "rtl" *)
(* shows what the simulator shows, and kind "bench" shows what the two     *)
(* test benches do, which is the address of the last instruction, and no   *)
(* register, event or stop.  Programs consist of what Simulator executes,  *)
(* and of lw and sw of that register with a constant address.              *)
(***************************************************************************)
EXTENDS Simulator, Regions, SequencesExt

CONSTANTS
  Code          (* the words that are instructions, and what they say      *)

EventKinds == {"load", "load_result", "store"}

NoEvents == [kind \in EventKinds |-> <<>>]

Cpu(kind) ==
  [kind |-> kind, sim |-> Reset(Word(0)), mem |-> <<>>, x1 |-> WordOf("zero"), events |-> NoEvents]

(* A word that Code does not name is no instruction. *)
Decoded(word) ==
  LET names == {n \in DOMAIN Code : word = WordOf(n)}
  IN  IF names = {} THEN [instr |-> Instr("illegal", "none", {}, FALSE), address |-> 0]
      ELSE Code[CHOOSE n \in names : TRUE]

AddressOf(pc) == CHOOSE a \in {0, 4, 8} : Word(a) = pc

---------------------------------------------------------------------------
(* What a processor's memory is asked for.                                 *)

Created(c, base, size) ==
  [c EXCEPT !.mem = IF c.kind = "sim" THEN Attach(@, base, size) ELSE BenchCreate(@, base, size)]

CreateFails(c) == c.kind = "sim" /\ ~CanAttach(c.mem)

CreateAborts(c, base, size) == c.kind # "sim" /\ BenchAborts(c.mem, base, size)

Word32(c, a) == IF c.kind = "sim" THEN Read32(c.mem, a) ELSE BenchRead32(c.mem, a)

AfterStore(c, a, word) ==
  [c EXCEPT !.mem = IF c.kind = "sim" THEN Write32(@, a, word) ELSE BenchWrite32(@, a, word)]

AccessFails(c, a) ==
  IF c.kind = "sim" THEN ~Mapped(c.mem, a) \/ WordAborts(c.mem, a)
  ELSE \E b \in a .. a + WordBytes - 1 : ~Mapped(c.mem, b)

---------------------------------------------------------------------------
(* Riscv::step, with get_opcode, load and store.                           *)

PushesEvents(c) == c.kind # "bench"

Push(c, kind, event) ==
  IF PushesEvents(c) THEN [c EXCEPT !.events[kind] = Append(@, event)] ELSE c

(* The address is pushed before the access is made, the result after it.   *)
Load(c, a) ==
  LET tried == Push(c, "load", <<a>>) IN
  IF AccessFails(c, a) THEN [tried EXCEPT !.sim = Error(@)]
  ELSE Push([tried EXCEPT !.x1 = Word32(c, a)], "load_result", <<Word32(c, a)>>)

Store(c, a) ==
  LET tried == Push(c, "store", <<a, c.x1>>) IN
  IF AccessFails(c, a) THEN [tried EXCEPT !.sim = Error(@)] ELSE AfterStore(tried, a, c.x1)

Accessed(c, d) ==
  CASE d.instr.op = "lw" -> Load(c, d.address)
    [] d.instr.op = "sw" -> Store(c, d.address)
    [] OTHER             -> c

(* Fetching from no memory reads 0, which is no instruction; fetching a    *)
(* word across words of a SimpleMemory fails its assertion.                *)
Opcode(c) == Decoded(Word32(c, AddressOf(c.sim.pc)))

CpuStep(c) ==
  IF c.kind = "sim" /\ WordAborts(c.mem, AddressOf(c.sim.pc)) THEN [c EXCEPT !.sim = Error(@)]
  ELSE LET t == Accessed(c, Opcode(c)) IN
       IF t.sim.exit # "running" THEN t
       ELSE [t EXCEPT !.sim = Step(@, Opcode(c).instr, {})]

(* What a step from c that should have come to t may come to instead:      *)
(* another instruction done, another register written, another word        *)
(* stored, a load or a store not told of; and none done, where a step is   *)
(* one clock.                                                              *)
Wrong(c, t) ==
  LET d     == Opcode(c)
      other == WordOf("wrong")
  IN  {[t EXCEPT !.sim.pcx = pc] : pc \in Pcs \ {t.sim.pcx}}
      \cup {[t EXCEPT !.x1 = other]}
      \cup (IF d.instr.op = "sw"
            THEN {[AfterStore(t, d.address, other) EXCEPT
                     !.events = Push(c, "store", <<d.address, other>>).events]}
            ELSE {})
      \cup ({[t EXCEPT !.events = c.events]} \ {t})
      \cup (IF c.kind = "bench" THEN {c} ELSE {})

---------------------------------------------------------------------------
(* cosim: cpus is the sequence of processors attached.                     *)

(* Mutation: the loop over the kinds of event ends one short. *)
ReadyExceptLast(cpus, kind) ==
  kind # "store" /\ \A c \in DOMAIN cpus : cpus[c].events[kind] # <<>>

Ready(cpus, kind) == \A c \in DOMAIN cpus : cpus[c].events[kind] # <<>>

EventMismatch(cpus) ==
  \E kind \in EventKinds :
    /\ Ready(cpus, kind)
    /\ \E c \in DOMAIN cpus : Head(cpus[c].events[kind]) # Head(cpus[1].events[kind])

(* One event of each kind that all have. *)
EventsPopped(cpus) ==
  [c \in DOMAIN cpus |->
     [cpus[c] EXCEPT !.events =
        [kind \in EventKinds |-> IF Ready(cpus, kind) THEN Tail(@[kind]) ELSE @[kind]]]]

GetRegValid(c) == c.kind # "bench"

(* get_pc against that of the first, and the registers that both show. *)
StateMismatch(cpus) ==
  \E c \in DOMAIN cpus :
    \/ cpus[c].sim.pcx # cpus[1].sim.pcx
    \/ GetRegValid(cpus[1]) /\ GetRegValid(cpus[c]) /\ cpus[c].x1 # cpus[1].x1

GetStopped(cpus) == \E c \in DOMAIN cpus : cpus[c].kind # "bench" /\ cpus[c].sim.brk

GetPc(cpus) == cpus[1].sim.pcx

ResetAll(cpus, start) ==
  [c \in DOMAIN cpus |-> [cpus[c] EXCEPT !.sim = Reset(start), !.x1 = WordOf("zero")]]

(* Every memory is attached for all addresses but the last of the space.   *)
ValidAddr(a) == a < Space - 1

WriteFails(cpus, a) == ValidAddr(a) /\ \E c \in DOMAIN cpus : ~Mapped(cpus[c].mem, a)

(* Each byte is written to the first region that has it. *)
Filled(m, bytes) ==
  [j \in DOMAIN m |-> [m[j] EXCEPT !.bytes =
     [p \in DOMAIN @ |->
        LET b == m[j].base + p IN
        IF b \in DOMAIN bytes /\ ValidAddr(b) /\ Mapped(m, b) /\ Home(m, b) = j
        THEN bytes[b] ELSE @[p]]]]

WriteAll(cpus, bytes) == [c \in DOMAIN cpus |-> [cpus[c] EXCEPT !.mem = Filled(@, bytes)]]
================================================================================
