--------------------------------- MODULE Host ---------------------------------
(***************************************************************************)
(* The program around the processors: riscv_main.cpp with its loader       *)
(* elf_load.cpp, run by main.cpp on one simulator, or on the framework     *)
(* with a simulator and another processor attached.  It makes the          *)
(* memories, loads the sections of a file, steps until it is told to stop, *)
(* and dumps a part of the memory.                                         *)
(*                                                                         *)
(* image and trace are ghosts: the bytes the program loaded and stored,    *)
(* and the addresses of the instructions executed.                         *)
(***************************************************************************)
EXTENDS Cosim, Integers

CONSTANTS
  Files,        (* what the file may hold: sections, entry point, and the  *)
                (* addresses of the dump                                   *)
  Options,      (* of the command line: memory, stop_pc, max_cycles        *)
  Attachments,  (* what is attached: <<"sim">>, and a "rtl" or a "bench"   *)
                (* beside it                                               *)
  MaxSteps      (* bound: steps of a run that nothing else ends            *)

ASSUME HostAssumption == MaxSteps \in Nat

VARIABLES
  file, options, cpus,
  phase,        (* "make", "load", "loop" or "ended"                       *)
  section,      (* section_idx, from 1                                     *)
  current,      (* current_pc                                              *)
  cycles,       (* _cycles                                                 *)
  failure,      (* why the process ended before its time                   *)
  dump,         (* what at_exit wrote                                      *)
  erred,        (* whether a processor has gone wrong                      *)
  image, trace

hostVars == <<file, options, cpus, phase, section, current, cycles, failure, dump, erred, image, trace>>

NoLimit == -1

Segment(s) == s.base .. s.base + s.size - 1

(* The bytes of a section: those of the file, or zeros. *)
SectionBytes(s) ==
  [a \in Segment(s) |->
     IF s.bits = "progbits"
     THEN WordOf(s.words[(a - s.base) \div WordBytes + 1])[(a - s.base) % WordBytes]
     ELSE Zero]

(* f, and g where f is not defined. *)
Over(f, g) == [a \in DOMAIN f \cup DOMAIN g |-> IF a \in DOMAIN f THEN f[a] ELSE g[a]]

CreatedAll(cs, base, size) == [c \in DOMAIN cs |-> Created(cs[c], base, size)]

CreationAborts(cs, base, size) == \E c \in DOMAIN cs : CreateAborts(cs[c], base, size)

HostInit ==
  /\ file \in Files /\ options \in Options
  /\ \E attached \in Attachments : cpus = [c \in DOMAIN attached |-> Cpu(attached[c])]
  /\ phase = "make" /\ section = 1
  /\ current = Word(0) /\ cycles = 0 /\ failure = "none" /\ dump = <<>> /\ erred = FALSE
  /\ image = <<>> /\ trace = <<>>

Ends(why) == phase' = "ended" /\ failure' = why

(* The memory of -b and -s, if there is one; whether the simulator could   *)
(* make it is not asked.                                                   *)
MakeMemory ==
  LET m == options.memory IN
  /\ phase = "make"
  /\ CASE m.size = 0                    -> phase' = "load" /\ UNCHANGED <<cpus, failure>>
       [] m.size > 0 /\ CreationAborts(cpus, m.base, m.size) -> Ends("abort") /\ UNCHANGED cpus
       [] OTHER -> /\ cpus' = CreatedAll(cpus, m.base, m.size)
                   /\ phase' = "load" /\ UNCHANGED failure
  /\ UNCHANGED <<file, options, section, current, cycles, dump, erred, image, trace>>

---------------------------------------------------------------------------
(* elf_load: a section at a time.  A region that cannot be made and an     *)
(* address no memory is attached for end it with a message; a byte that no *)
(* region has ends the process.                                            *)

LoadSection ==
  LET s       == file.sections[section]
      made    == CreatedAll(cpus, s.base, s.size)
      aborts  == CreationAborts(cpus, s.base, s.size)
      refused == \E c \in DOMAIN cpus : CreateFails(cpus[c])
      bad     == {a \in Segment(s) : s.bits = "progbits" /\ (WriteFails(made, a) \/ ~ValidAddr(a))}
  IN
  /\ phase = "load" /\ section <= Len(file.sections)
  /\ section' = section + 1
  /\ \/ /\ aborts
        /\ Ends("abort") /\ UNCHANGED <<cpus, image>>
     \/ /\ ~aborts /\ refused
        /\ cpus' = made
        /\ Ends("allocate") /\ UNCHANGED image
     \/ /\ ~aborts /\ ~refused /\ bad # {}
        /\ Ends(IF ValidAddr(Min(bad)) THEN "write" ELSE "address")
        /\ UNCHANGED <<cpus, image>>
     \/ /\ ~aborts /\ ~refused /\ bad = {}
        /\ cpus' = IF s.bits = "progbits" THEN WriteAll(made, SectionBytes(s)) ELSE made
        /\ image' = Over(SectionBytes(s), image)
        /\ UNCHANGED <<phase, failure>>
  /\ UNCHANGED <<file, options, current, cycles, dump, erred, trace>>

Start ==
  /\ phase = "load" /\ section > Len(file.sections)
  /\ cpus' = ResetAll(cpus, file.start)
  /\ phase' = "loop"
  /\ UNCHANGED <<file, options, section, current, cycles, failure, dump, erred, image, trace>>

---------------------------------------------------------------------------
(* The loop of riscv_main.                                                 *)

(* The break out of the loop comes after a step: a limit of 0 is none.     *)
LimitReached == cycles # 0 /\ cycles = options.max

(* Mutation: whether a processor has stopped is not asked. *)
GoesOnStopped == current # options.stop /\ ~LimitReached

(* The condition of the loop, and the break. *)
GoesOn == current # options.stop /\ ~GetStopped(cpus) /\ ~LimitReached

(* The ghosts after cs has become ds. *)
Observe(cs, ds) ==
  /\ trace' = Append(trace, ds[1].sim.pcx)
  /\ image' = IF ds[1].sim.exit = "running" /\ Len(ds[1].events.store) > Len(cs[1].events.store)
              THEN LET e == Last(ds[1].events.store)
                   IN  Over([a \in e[1] .. e[1] + WordBytes - 1 |-> e[2][a - e[1]]], image)
              ELSE image

(* The processors whose step has ended the process. *)
Dead(cs) == {c \in DOMAIN cs : cs[c].sim.exit # "running"}

(* main.cpp: the simulator is stepped itself, and nothing pops its events. *)
StepSim ==
  /\ phase = "loop" /\ Len(cpus) = 1 /\ GoesOn /\ cycles < MaxSteps
  /\ cpus' = <<CpuStep(cpus[1])>>
  /\ current' = GetPc(cpus) /\ cycles' = cycles + 1
  /\ Observe(cpus, cpus')
  /\ IF Dead(cpus') # {} THEN Ends(cpus'[1].sim.exit) ELSE UNCHANGED <<phase, failure>>
  /\ UNCHANGED <<file, options, section, dump, erred>>

(* cosim::step: the events of the steps before, the steps, their results.  *)
StepCosim ==
  LET ready == EventsPopped(cpus) IN
  /\ phase = "loop" /\ Len(cpus) = 2 /\ GoesOn /\ cycles < MaxSteps
  /\ \/ /\ EventMismatch(cpus)
        /\ Ends("mismatch")
        /\ UNCHANGED <<cpus, current, cycles, erred, image, trace>>
     \/ /\ ~EventMismatch(cpus)
        /\ \/ /\ cpus' = [c \in DOMAIN cpus |-> CpuStep(ready[c])]
              /\ UNCHANGED erred
           \/ /\ ~erred /\ erred' = TRUE
              /\ \E rtl \in Wrong(ready[2], CpuStep(ready[2])) :
                   cpus' = <<CpuStep(ready[1]), rtl>>
        /\ current' = GetPc(cpus) /\ cycles' = cycles + 1
        /\ Observe(ready, cpus')
        /\ CASE Dead(cpus') # {}        -> Ends(cpus'[Min(Dead(cpus'))].sim.exit)
             [] Dead(cpus') = {} /\ StateMismatch(cpus') -> Ends("mismatch")
             [] OTHER                -> UNCHANGED <<phase, failure>>
  /\ UNCHANGED <<file, options, section, dump>>

(* at_exit: the bytes from one symbol to another, of the first memory. *)
AtExit ==
  /\ phase = "loop" /\ (~GoesOn \/ cycles = MaxSteps)
  /\ dump' = [a \in file.dump |-> Read(cpus[1].mem, a)]
  /\ Ends("none")
  /\ UNCHANGED <<file, options, cpus, section, current, cycles, erred, image, trace>>

HostNext == MakeMemory \/ LoadSection \/ Start \/ StepSim \/ StepCosim \/ AtExit

HostSpec == HostInit /\ [][HostNext]_hostVars

---------------------------------------------------------------------------
Reported(why) == phase = "ended" /\ failure = why

(* The program sees the memory it was linked for.  A file whose sections   *)
(* are apart and in the lower half of the space is refused only for want   *)
(* of regions; from then on every byte of it, and every whole word, reads  *)
(* in the memory of each processor as the section had it or as the last    *)
(* store left it, however regions overlap or are cut, and the dump holds   *)
(* the same (elf_load.cpp:55, riscv.cpp:291, testbench.h:114, cosim_api.   *)
(* cpp:283).                                                               *)
Placed == {file.sections[k] : k \in DOMAIN file.sections} \cup {options.memory}

FitsSpace == \A r \in Placed : r.base + r.size <= Space \div 2

WholeWords == {a \in DOMAIN image : a % WordBytes = 0 /\ a .. a + WordBytes - 1 \subseteq DOMAIN image}

MemoryIsProgram ==
  /\ FitsSpace =>
       /\ failure \notin {"write", "address"}
       /\ failure = "abort" => \E c \in DOMAIN cpus : Len(cpus[c].mem) = BenchRegions
  /\ failure = "allocate" => Len(cpus[1].mem) = MaxRegions
  /\ phase = "loop" =>
       \A c \in DOMAIN cpus : c = 1 \/ ~erred =>
         /\ \A a \in DOMAIN image : Read(cpus[c].mem, a) = image[a]
         /\ \A a \in WholeWords : Word32(cpus[c], a) = [k \in 0 .. WordBytes - 1 |-> image[a + k]]
  /\ Reported("none") => \A a \in file.dump \cap DOMAIN image : dump[a] = image[a]

(* A run stops where it was told to, and nowhere else.  The instruction at *)
(* stop_pc is executed and at most one after it, none after a break or     *)
(* beyond max_cycles; and the memory is dumped for one of these reasons    *)
(* only (riscv_main.cpp:176).                                              *)
WordAt(pc) == [k \in 0 .. WordBytes - 1 |-> image[AddressOf(pc) + k]]

BreakOrLimit == GetStopped(cpus) \/ Len(trace) = options.max \/ Len(trace) = MaxSteps

StopsWhenTold ==
  /\ \A k \in DOMAIN trace :
       /\ trace[k] = options.stop => Len(trace) <= k + 1
       /\ WordAt(trace[k]) = WordOf("ebreak") => Len(trace) = k
  /\ options.max \notin {NoLimit, 0} => Len(trace) <= options.max
  /\ Reported("none") =>
       BreakOrLimit \/ \E k \in DOMAIN trace : trace[k] = options.stop

(* Processors that go different ways are told apart by what they show.  As *)
(* long as the framework goes on, they have executed the same instruction  *)
(* last; with the same result, if the second shows its registers; and if   *)
(* it tells of its loads and stores, their memories differ at most in the  *)
(* word of the store still to be compared (cosim_api.cpp:111, :155).       *)
Uncompared(c) ==
  LET q == cpus[c].events.store
  IN  IF q = <<>> THEN {} ELSE Last(q)[1] .. Last(q)[1] + WordBytes - 1

DivergenceReported ==
  phase = "loop" /\ Len(cpus) = 2 =>
    /\ cpus[2].sim.pcx = cpus[1].sim.pcx
    /\ GetRegValid(cpus[2]) => cpus[2].x1 = cpus[1].x1
    /\ PushesEvents(cpus[2]) =>
         \A a \in DOMAIN image :
           Read(cpus[1].mem, a) # Read(cpus[2].mem, a) => a \in Uncompared(1) \cup Uncompared(2)
===============================================================================
