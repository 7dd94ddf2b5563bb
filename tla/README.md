# A TLA+ development of riscv_vip

riscv_vip is a 32-bit RISC-V processor in Verilog (`src/core/riscv`), its
memory systems (`src/top_cache_axi`, `src/top_tcm_axi`, `src/top_tcm_wrapper`)
and an instruction-set simulator that checks it (`src/isa_sim`). This
directory specifies the hardware cycle by cycle and the simulator call by call,
compares the two with each other, checks all of it on small instances with TLC,
and proves theorems about some of the parts for every instance with TLAPS.

Everything in the hardware happens at the rising edge of one clock. A step of
a hardware specification here is one such edge: the registers are loaded from the
wires of the cycle, all at once, and the wires are operators over the
registers and the inputs of the cycle. What makes the hardware hard is not
threads but the neighbours of each part, which may accept, answer, branch or
fault in any cycle; these are the nondeterministic inputs of each `Next`. The
simulator is sequential; there a step is a call, and what is hard is that it
was written apart from the hardware and has to say the same.

## 1. Inventory

| component | source | state | operations | spoken to by | status |
|---|---|---|---|---|---|
| data cache | `top_cache_axi/src_v/dcache_core*.v` | request buffer, FSM of ten states, replacement way, flush counter, evict pointer and skid buffer, tag and data RAMs | read, write, flush, write-back, invalidate, evict, refill | LSU through the mux; bus through dcache_axi | `DCacheCore`, proved |
| AXI port of the data cache | `dcache_axi.v`, `dcache_axi_axi.v` | request FIFO, beat counters, skid buffer, outstanding counter | split write bursts over AW/W, reads on AR, merge B and R | data cache; AXI slave | `DCacheAxi`, proved |
| data cache port | `dcache_mux.v`, `dcache_pmem_mux.v`, `dcache_if_pmem.v` | last path, pending counter, two FIFOs, delayed selector | choose path, serve uncached access, drop maintenance | LSU; cache; bus | `DCachePort`, proved |
| fetch unit | `core/riscv/riscv_fetch.v` | pc, branch buffer, request tracking, skid buffer | fetch, branch, stall | decoder; instruction cache; exec and csr (branches) | `Fetch`, proved |
| instruction cache | `icache*.v` | lookup, FSM, RAMs, replacement way, refill pointer | lookup, refill, flush, invalidate | fetch unit; AXI slave | `ICache`, proved |
| front end | `riscv_core.v`, `riscv_top.v` | none of its own | fence.i from csr to cache | the two above, csr | wiring, not modelled |
| load/store unit | `riscv_lsu.v` | request register, pending flag, FIFO | load, store, maintenance, misaligned access, fault | issue; data memory | `Lsu`; byte lanes in `Execute` |
| issue and pipeline | `riscv_issue.v`, `riscv_pipe_ctrl.v`, `riscv_divider.v`, `riscv_multiplier.v` | three stages, squash flag, pending flags, register file | issue, bypass, stall, squash, write back | fetch, LSU, csr, exec | `Pipeline`; `Divider`, `Execute` |
| CSRs | `riscv_csr.v`, `riscv_csr_regfile.v` | machine and supervisor registers, privilege, interrupts | CSR access, trap, return, interrupt, fences | issue, fetch, LSU | `CsrUnit`, proved; `Pipeline` has when it stalls and traps |
| decoder, ALU, exec | `riscv_decode.v`, `riscv_decoder.v`, `riscv_alu.v`, `riscv_exec.v` | branch registers of exec | combinational | issue, fetch | `Decoder`, `Execute` |
| MMU | `riscv_mmu.v` | walk FSM, two one-entry TLBs, fault registers | translate, walk, flush | fetch, LSU, csr | `Mmu`, proved |
| TCM | `top_tcm_*/src_v/*` | dual-ported RAM, accept flag, response FIFOs | core access, AXI slave access, uncached access | fetch, LSU, AXI | `Tcm`, without its uncached port, proved |
| simulator | `isa_sim/riscv.cpp`, `memory.h` | registers, CSRs, timer, memory regions | step, trap, CSR access, walk, load, store | co-simulation, main loop | `Instructions`, `Simulator`, `Regions`; translation in `Mmu` |
| co-simulation | `isa_sim/cosim_api.cpp` | processors, event queues | attach, step, compare, load, dump | main loop; simulator, test bench | `Cosim` |
| program | `isa_sim/main.cpp`, `riscv_main.cpp`, `elf_load.cpp` | pc, cycle count | load a file, step until told to stop, dump | command line | `Host` |
| disassembler | `isa_sim/riscv_inst_dump.cpp` | none | name a word | trace | `Instructions` |
| memory of the test bench | `top_cache_axi/tb/testbench.h`, `tb_memory.h` | regions | create, read, write | co-simulation | `Regions`, `Host` |
| trace in Verilog | `riscv_trace_sim.v` | none | | | not modelled: strings for waveforms |
| tops, bus drivers of the test benches, UART/VPI | `vtop*`, `*/tb`, `vpi` | wiring, SystemC | | | not modelled |
| verilog-axi | `ip/axi` | | | | third party, not modelled |

How they interact. The fetch unit asks the instruction cache for the word at
its program counter and gives what comes back to the decoder, under the
program counter it was asked for. Issue takes it when its operands can be
read or bypassed. ALU, multiplier and CSR results travel with the instruction
through E1, E2 and WB; a division stalls E1 until the divider is done; a load or
store enters the LSU in E1 and must be answered while its instruction is in
E2, which stalls until then. Exceptions travel to WB, where riscv_csr turns them into a
branch. Loads and stores go through dcache_mux to the cache or to the uncached
path, and both share one bus through dcache_pmem_mux and dcache_axi. fence.i
is a pulse from csr to the instruction cache, and later a branch. The program
makes memories in every processor attached, loads the file into all of them, and
steps them together; the framework compares their events, program counters and
registers after each step.

What is hard, and what makes each part right:

- *data cache*: the read-first RAMs answer one cycle late, so every decision
  is made with tags read a cycle earlier at an address someone else chose; the
  evict pointer runs ahead of the bus and is caught by a skid buffer; requests,
  flushes and bus delays interleave. Right when a program cannot tell it from
  memory, and when a flush or write-back leaves memory up to date.
- *AXI port*: address and data of a beat are taken independently. Right when
  each channel carries each beat once, in order, held until taken.
- *data cache port*: two paths answer on one set of wires. Right when every
  answer is that of the oldest request, and comes.
- *fetch unit*: branches cross requests and answers. Right when the decoder is
  given exactly the instructions of the path, in order, none lost.
- *instruction cache*: a flush must outlast refills; lines must not be valid
  early. Right when an instruction is no older than the last fence.i.
- *pipeline and LSU*: five places hold a register's newest value; stalls,
  squashes, faults and interrupts cross. Right when operands are current,
  exceptions are precise, no squashed instruction touches memory, and nothing
  is waited for that does not come.
- *MMU*: two sides and a walker share one data port, while software rewrites
  the tables. Right when each access is made where, and only if, the tables
  say so, as the simulator reads them, and each side gets its own answers.
- *TCM*: two sides share one RAM port that changes hands every cycle, with
  answers a cycle behind. Right when every write lands once at its address and
  every answer is that of the oldest access.
- *CSRs*: a CSR is read in one cycle and written in a later one, while
  interrupts arrive, and a trap may undo what is between. Right when the
  registers, the level and what is retired are the simulator's, instruction by
  instruction.
- *decoder, ALU, multiplier, divider, byte lanes*: each is written twice, in
  Verilog bit by bit and in C by masks and shifts. Right when both agree on
  every word and every operand.
- *simulator and program*: regions overlap and are cut; two loops and three
  counters decide when to stop; two processors report events at different times. Right
  when a program sees the memory it was linked for, stops where it was
  told, and a divergence is never passed over.

`PROJECT.json` lists the hazards at their lines, with the property that covers
each or the reason why none does.

## 2. Plan

| | modules | about | state |
|---|---|---|---|
| 1 | `DCacheCore`, `MemoryPort`, `DCacheCoreInv`, `DCacheCoreProofs` | the data cache implements a memory | checked, proved |
| 2 | `DCacheAxi`, `DCacheAxiProofs` | its AXI port | checked, proved |
| 3 | `DCachePort`, `PortProofs` | cached and uncached path on one bus | checked, proved |
| 4 | `Fetch`, `ICache`, `FrontEndProofs` | instructions in order, and none stale | checked, proved |
| 5 | `Lsu`, `Pipeline`, `PipelineProofs` | operands, exceptions, accesses | checked, proved |
| 6 | `Mmu`, `MmuProofs` | page walk and TLBs against the simulator's translation | checked, proved |
| 7 | `Tcm`, `PortProofs` | core and AXI slave on one RAM | checked, proved |
| 8 | `Isa`, `Decoder`, `Instructions`, `Arithmetic`, `Divider`, `Execute`, `SimulatorProofs` | what every instruction computes, core against simulator | checked, proved |
| 9 | `Privileged`, `Simulator`, `CsrUnit`, `Lockstep`, `SimulatorProofs` | traps, CSRs and interrupts, core against simulator | checked, proved |
| 10 | `Regions`, `Cosim`, `Host`, `HostProofs` | loading, stepping, comparing, stopping | checked, proved |
| 11 | `DPort` | TCM or uncached port; maintenance requests that are never acknowledged | to do |

What is left after that: the instruction port of the TCM; the system-on-chip tops;
and the liveness of `Pipeline` (that instructions keep retiring) on a smaller
instance.

## 3. Modules

Each module names the signals its variables and operators stand for; the map
in `PROJECT.json` gives the lines. The conventions that all share:

- A word stands for one byte lane whose strobe is on; addresses are records of
  tag, set and word, and counters have the widths of the code.
- One request carries one operation. The code has one strobe for each, and
  the LSU raises one at a time.
- `Init` is the state after reset. The RAMs have no reset, so their contents
  (`PowerUpTags`, `PowerUpData`, `Junk`) are arbitrary in `Init`; with that a
  reset in the middle of operation is a new behaviour.
- A variable marked *history* is read by properties only.
- A definition under a comment that begins with "Mutation:" is a bug one could
  have made there. No specification uses it; substituted for the definition
  below it, it makes a property fail, which shows that the property depends
  on that line of the code.

**DCacheCore** is `dcache_core.v`. `m` is the request buffer (`mem_*_m_q`),
`state` the FSM, `tagOut` and `dataOut` the outputs of the read-first RAMs,
`memory` and `burst` the bus: what it stores and the burst it is in, which
`dcache_axi.v` keeps in order. There is one action for each state of the FSM
and each way out of it that changes the RAMs differently (`ResetTags`,
`FlushAddress`, `FlushDirty`, `FlushClean`, `LookupMiss`, `LookupServe`,
`Refill`, `WriteAfterRefill`, `ReadAfterRefill`, `Evict`, `EvictWait`,
`Writeback`, `Invalidate`), and all of them end in `Clock`, what every cycle
does. The CPU side need not hold a request that was not accepted.
`arch` is a history variable: what a memory would hold. The response tag is left out, and
`pmem_addr_q`, which reaches the bus only on beats whose address is ignored.

**MemoryPort** is what the CPU is promised: one request at a time, a read
answered with the last value written. `DCacheCore` implements it under
`pending <- m`, `contents <- arch`, `answer <- ` the acknowledge wires.

**DCacheCoreInv** is the inductive invariant (section 6).

**DCacheAxi** is `dcache_axi.v` around `dcache_axi_axi.v`. `due` lists
what each channel still has to carry. The cache side sends a write burst beat by
beat and changes direction only when nothing is owed: `DCachePort` shows
(`OneOutstanding`) that this is how it is used. The contents of the skid
buffer are kept only while it is valid.

**DCachePort** is `dcache_mux.v`, `dcache_if_pmem.v` and `dcache_pmem_mux.v`,
around a cache reduced to phases (lookup, evict, refill, acknowledge). A burst
of the cache is one transaction. `MaxEvicts` bounds the evictions of one request.

**Fetch** is `riscv_fetch.v`. `pcF` counts words. The memory answers with the
request it was asked, so `InOrder` sees whose answer is whose. `stall_q`, which
is not read, is left out, and the branch target only exists while `branch_q`.

**ICache** is `icache.v`. A word is its address and a version; stores change
versions at any time, `floor` is what the last flush or invalidate demands.
Lookups accepted in the cycle of a flush are marked `doomed` and exempt from
`FreshInstructions`: the RAMs show the tags of before the flush, and the core discards
what it fetches between a fence.i and its branch. `riscv_fetch` ties the
invalidate input off; it is modelled nevertheless.

**Lsu** is `riscv_lsu.v` with its FIFO; an operation carries the number of its
instruction instead of an address. **Pipeline** composes it with issue, pipe
control, the divider (a counter of `DivCycles`) and the parts of csr and exec
that trap and branch. Instructions are numbered modulo `Numbers`, an
instruction computes its own number, and a value that has reached the register
file in order is `File`. So `OperandsCurrent` compares the operand issue takes
with the number of the newest instruction that writes the register. `irq`
is the wire `interrupt_w`; pending bits are sticky, so it falls only when a CSR
changes. What instructions compute is in `Execute`, the CSRs in `CsrUnit`.

**Tcm** is `tcm_mem.v` around `tcm_mem_pmem.v`. The AXI master holds what it
offers; it offers the beats of a write from the cycle of its address on, since
no wire looks at data that come before. `burst`, `due`, `cpuDue` and
`contents` are what both sides must see, computed from what was taken; the
properties compare the registers with them. The instruction port has a RAM port
of its own and always accepts; it is left out.

**Mmu** is `riscv_mmu.v` with SUPPORT_MMU, which no top level sets. `Walks`,
`FetchOutcome` and `DataOutcome` are `mmu_walk`, `mmu_i_translate` and
`mmu_d_translate` of the simulator (`isa_sim/riscv.cpp`): a page, a page fault, or
the `error` that ends it, with nothing for a walk that goes on after the second level
or a leaf where there is no memory (`NoMemory`). `TranslationsLegal` compares what
the TLBs hold and forbid with them, and fails where the simulator would exit. Software
may change a PTE in any cycle; `seen` is what each PTE has been since the last
flush, so an entry is legal if a walk over those could have found it. A
superpage is a PTE of the first level with a permission. `mode` (satp and the
bits of mstatus) changes between accesses only, as a CSR write empties the
pipeline.

**Isa** has the encodings (`riscv_isa.h`, `riscv_defs.v`) and the immediates the
simulator takes out of a word. A word is the record of its fields; a mask and a
match become the fields that are fixed. **Decoder** is `riscv_decoder.v`: the
unit a word goes to, whether it is valid, whether it writes rd.
**Instructions** is the simulator's chain of comparisons in its order, what
each branch computes, its loads and stores, and what the disassembler prints.
`&`, `|` and `^` of C and Verilog are constants, the same for both; the instance
gives them their bits. **Arithmetic** has numbers of `W` bits, a power of two up
to 32, as the stages of a shift move by powers of two. **Divider** is `riscv_divider.v`, one
bit of the quotient per edge, and `asked`, the division the pipeline waits
for; a squash clears `asked` and not the divider. **Execute** composes them
with the ALU, the branches, the multiplier and the byte lanes: `now` is what
the units are given, `core` what they made of it.

**Privileged** has the CSRs, their bits and views, and the causes. A register
is the set of its bits that are on, so that masks are intersections.
**Simulator** is `riscv.cpp` between instructions: each method an operator from
a simulator to the next. **CsrUnit** is `riscv_csr.v`, `riscv_csr_regfile.v` and
as much of issue and pipe control as carries a CSR instruction or a trap from
issue to writeback, cycle by cycle. **Lockstep** runs both: the simulator executes
when the core retires and interrupts when the core does; `late` holds the
interrupts that came between the read and the write of `mip`. `Sound` collects
what a program must keep away from, as the simulator leaves it out.

**Regions** has the memories: the simulator's regions (`memory.h`) and those of
the test bench, which are made of whole lines and cut where others are. A byte is a
pair of its word's name and its place. **Cosim** has a processor behind
`cosim_cpu_api`, its event queues and the comparison, which asks of each register
whether it is valid (`GetRegValid`). Beside the simulator, "sim", there may be a
processor that does what the simulator does until it goes wrong once, in a way it
chooses (`Wrong`): of kind "rtl", which shows its registers and pushes its events as
the simulator does, or of kind "bench", which shows what the repository's test benches
do, the address of the last instruction and nothing else.
**Host** is `main.cpp`, `riscv_main.cpp` and `elf_load.cpp`: `MakeMemory`,
`LoadSection`, `Start`, `StepSim` or `StepCosim`, `AtExit`. `image` and `trace` are
history: the bytes loaded and stored, the instructions executed.

The modules whose names begin with MC are the instances.

## 4. Runs

Deadlock is checked in every run but `Host`: in every state of the hardware there is
a next cycle, while the program ends.

| run | instance | shows |
|---|---|---|
| `DCacheCore` | one set, three lines of three words, a bus without errors | a read returns the last write; the inductive invariant holds, and with it that no write is lost, write-back reaches memory, no line is held twice, and cache and bus agree on every burst; the cache implements `MemoryPort` |
| `DCacheControl` | two sets, every kind of request, a bus that may fail any burst | the part of the invariant about control holds whatever is asked and whatever the bus answers, so a flush leaves no line; an error belongs to its request; every request is answered |
| `DCacheAxi` | bursts of one to three beats, two payloads, FIFO of two | `NothingLost`: each channel carries each beat once, in order, and responses are tracked; offers are held until taken; every burst is answered |
| `DCachePort` | three tags, FIFOs of two, two evictions per request | every answer is told, with the tag of the oldest request; `PathsApart`: one transaction on the bus at a time, that of the oldest request, none forgotten; every request is answered |
| `Fetch` | three words, two privilege levels | the decoder is given the path of the branches, in order, and goes on being given it |
| `ICache` | two sets, two tags, lines of two words, one word stored to, one address that fails | an instruction is the word asked for and no older than the last flush; `RefillsConsistent`: no line twice, refill and bus agree, an error belongs to its lookup; every lookup is answered |
| `Pipeline` | one register besides x0, twelve kinds of instructions | operands are the newest, exceptions precise, one-cycle results never missed, no squashed access reaches memory, answers belong to their access, nothing waits in vain |
| `Tcm` | two words, bursts of one and of three beats, a core that reads, writes and maintains one word, FIFOs of two | every write lands once, at its address; answers and identifiers are those of the oldest access, on both sides; neither direction of the AXI side keeps out the other |
| `Mmu` | two pages under one first-level PTE that may become a superpage, one page missing; fetch in M and U, and in S from the missing page once it is there; data in M and S | accesses are where, and only if, the simulator's translation says; answers belong; every miss ends after two walks |
| `Execute` | registers of four bits with all operands; every f3 of every opcode, every f7 asked for and its neighbours, every encoding with one bit flipped; all pairs of operands to divide, abandoned at any edge and followed by another | core and simulator take the same words for the same instructions with the same immediates; the disassembly tells them apart; results, branches, accesses agree; a division is answered with its own result |
| `Lockstep` | machine code with nothing delegated, or supervisor code with three interrupts and two exceptions delegated, which goes to the other levels; three instructions other than nop, two interrupts, in any cycle | the registers, the level, and each instruction retired with what it read are the simulator's |
| `Host` | eight programs of three words in seven layouts of sections, with and without a memory made before; the simulator alone, or with a processor that shows all, or one that shows its pc only; stop addresses and limits | the program sees its memory, stops where told, and a divergence in what a processor shows is reported |

Why the bounds are enough:

- *Cache geometry.* A set has two ways, in the code and here. Three lines that
  conflict for one set make every replacement happen; three words are the
  least for which the evict pointer has a first, a middle and a last beat. Two
  sets tell the set of a request from the set of the flush counter or of the
  request before. The theorems hold for every geometry. In `DCacheCore.cfg` one
  word is tracked: the other writes store what is there, to make lines dirty,
  and every word of memory starts with a value of its own. In
  `DCacheControl.cfg` words have one value, as a failing bus delivers anything;
  that a flush leaves memory up to date follows from `NoLostWrite`, a part of
  `IInv` and a theorem.
- *AXI.* With three beats both beat counters count up and down; FIFO depth and
  the limit of two bursts are those of the code.
- *Port.* Three requests exceed what any FIFO holds.
- *Instruction cache.* `MaxVersion` is one: a word is old or new. Both sets are
  used, so the counter of a flush passes through its last value.
- *Pipeline.* `Numbers` is five: there are at most four instructions between
  the oldest not done and the next one fetched. One register
  suffices for a dependency, and a second one would only add independent
  instructions. `DivCycles` is four.
- *TCM.* Addresses wrap around after two words, so a burst of three beats
  passes through both and returns; the FIFOs (four deep in the code) are full
  with two, which the core and a slow master reach.
- *MMU.* Each TLB has one entry, so two pages replace each other. A missing
  page faults, a readable one faults for stores, and the PTE that turns
  from a pointer into a superpage makes both levels and both ways of ending a
  walk happen, in either order with the walk.
- *Execute.* Words have their 32 bits; what is bounded is which words. A mask
  that asks for a bit too many or too few shows on the encoding with that bit
  flipped. Nothing in ALU, multiplier and divider depends on the width but the number
  of stages and edges; four bits have a sign, a carry, a shift of two
  stages and all the corners of division. The theorems hold for every word and
  for the 32 bits of the code.
- *Lockstep.* The pipeline holds three instructions, so three that are not nop
  meet in every order and distance, with one interrupt before and one between.
- *Host.* A hundred and twenty-eight addresses, lines of eight: sections begin in a line of
  another, end the space, and reach out of the memory of the options. Three
  regions are too few for some files, which is the case of a full table. `MaxSteps`,
  six, is a run that nothing else ends.

Some instances are restricted where the code is known to fail, so that the
properties can show the rest. Each restriction is a named constant or bound, and
lifting it makes TLC find a counterexample:

- `Pipeline`, `DivCycles` = 4, and `Execute`, `AbandonAtEnd` = FALSE: no division
  begins in the cycle an abandoned one completes (section 7).
- `Pipeline`, `StrayCsr` = FALSE: a word dropped by fetch does not look like a
  CSR instruction. Otherwise it cancels `take_interrupt_q` while an interrupt
  that was put on a branch waits in E1; the access at the branch target reaches
  memory, is squashed, and is executed again (`NoSquashedAccess`).
- `Pipeline`, `LateMaintenance` = FALSE: a maintenance request is accepted at
  once. Otherwise a load issued behind one that is accepted late takes its
  acknowledge (`AnswersBelong`).
- `Pipeline`: taken branches go to aligned targets, and a write of `satp` has no
  destination register (see the hazards at `riscv_pipe_ctrl.v:200` and `:422`).
- `Tcm`, `ZeroStrobes` = FALSE: every beat of a write has a strobe on. One
  without is taken on its channel, but is no request to the RAM: with the port the
  core's it waits for ever, else its burst gets no response
  (`NothingWaitsInVain`).
- `Mmu`, `FlushInWalk` = FALSE: TLBs are flushed between walks. A flush
  during a walk does not stop it, and an entry read before the flush
  is installed after it (`TranslationsLegal`).
- `Mmu`: only reads of the first level fail, since an error of the second is not
  looked at (`riscv_mmu.v:266`); no PTE is writable without being readable,
  SUM is on and MXR off: in these simulator and hardware differ; S fetches from no
  user page, no PTE of the second level is a pointer, and `NoMemory` is empty:
  in these the simulator exits or walks astray (section 7), and `TranslationsLegal`
  fails; cache maintenance runs without translation (hazard at `riscv_mmu.v:480`).
- `Execute`, `FenceRd` = {0}: the simulator writes 0 to the register in the rd
  field of a fence (`riscv.cpp:1516`), the core does not (`DecodersAgree`), and
  the disassembler does not print it (`DisassemblyTells`).
- `Lockstep`, seven constants, FALSE: `WholeViews` (`csrrw` of sstatus, sie or sip
  replaces the whole machine register in the simulator, `riscv.cpp:657`);
  `LateMachine` (a machine interrupt that arrives while a supervisor one is launched
  is recorded as supervisor's, `riscv_csr_regfile.v:284`); `StrayMip` and
  `AdjacentMip` (any word with the bits of mip's address starts the hold of mip,
  and back-to-back accesses end it early); `SatpRd` (`riscv_pipe_ctrl.v:422`);
  `WideDelegation` (a write of medeleg with a bit of 16 to 31, which the simulator
  keeps, `riscv_isa.h:529`, and the core masks off, `riscv_defs.v:349`; the same is true
  of mideleg, which no program of the run writes);
  `Undelegated` (supervisor interrupts not delegated, or machine ones
  delegated: core and simulator choose different bits).
- `Host`: `SharedWords` (two sections in one word: the region of the first
  reads beyond its end, `memory.h:65`), `CrossingSections` (the test bench
  rounds the base down and the size up, each on its own, so a section may reach
  beyond the region made for it, `testbench.h:116`) and `StopAtZero` (`-r 0` stops
  before the first instruction), FALSE.

## 5. Fairness

The clock ticks: `WF_vars(Next)`. Beyond it, liveness is only promised by
parts that wait for another part if that part is live:

- `DCacheCore`: `ResponsiveBus`, a cycle in which the bus accepts and answers
  what it owes, is possible in every state and happens again and again.
  `EveryBurstAnswered` of `DCacheAxi` is what makes this so, for any AXI slave that
  is live.
- `DCacheAxi`: each channel on its own is ready again and again and the slave
  answers what it can answer; AXI demands no more, and in particular not that
  AW and W are ever ready together. The cache side ends bursts it has begun.
- `DCachePort`, `ICache`: `Serves`, and `Fetch`: `FetchServes`, a cycle in which
  the neighbours do all they owe, again and again. For `Fetch` it asks decoder and
  memory to be ready in the same cycle: a decoder that has nothing to issue is
  ready, and an idle memory stays ready.

Weak fairness suffices since each of these cycles is possible in every state
in which something is waited for. Liveness is checked, not proved. For
`Pipeline`, `Tcm` and `Mmu` there is no liveness property and no fairness.
`NothingWaitsInVain` says of the first two that whatever waits has its cause
under way, and bounds how often a command of the AXI side is passed by another;
`MissesResolved` bounds the walks a miss takes. `Execute`, `Lockstep` and
`Host` compare; nothing in them waits.

## 6. What is proved

For every number of sets and tags, every `LineWords` from 2 to 256
(`SizeAssumption`; the burst length has eight bits), every set of values and of
requests of the right type, and arbitrary RAM contents before reset:

1. `TypeCorrect`, `ControlCorrect`, `OneCopyCorrect`, `BusInStepCorrect`,
   `ErrorCorrect` (`DCacheCoreProofs`): types, the control invariant, no
   line twice, agreement with the bus, errors. They hold for every request and a
   bus that fails at will.
2. `InvariantCorrect`, `NoLostWriteCorrect`, `ReadsCorrect`, `FlushCorrect`,
   `WritebackCorrect`, `RefinementCorrect` (the same module): the cache is a
   memory. They assume `QuietInputs`: no bus errors (a line refilled with an
   error is garbage) and no invalidate (which is meant to lose writes, and in
   this code loses them of the wrong line, section 7).
3. `FetchInvariantHolds`, `TypeCorrect`, `InOrderCorrect`, `AnswersTrackedCorrect`
   (`FrontEndProofs`), for every address space and every set of privileges.
4. `PortInvariantHolds`, `PathsApartCorrect`, `AnswersToldCorrect`
   (`PortProofs`), for every set of tags, FIFOs of 1 to 15 entries
   (`PortAssumption`; the counter of the multiplexer has five bits) and any number
   of evictions.
5. `TypeCorrect`, `HeldUntilTakenCorrect`, `InvariantHolds`,
   `NothingLostCorrect` (`DCacheAxiProofs`), for every set of payloads,
   bursts of up to 256 beats and FIFOs of any depth (`AxiAssumption`).
6. `InvariantHolds`, `RefillsConsistentCorrect`, `FreshInstructionsCorrect`
   (`FrontEndProofs`), for every number of sets and tags, every length of line,
   requests, stores and bus failures in any order, and arbitrary RAM contents
   before reset (`CacheAssumption`).
7. `InvariantHolds`, `BeatsServedCorrect`, `AnswersMatchCorrect`,
   `NothingWaitsInVainCorrect` (`PortProofs`), for every size of the RAM, any
   bursts of up to 256 beats, any requests of the core and FIFOs of any depth
   (`TcmAssumption`). They assume `~ZeroStrobes`, as the run does: a beat without a
   strobe is taken and gets no answer (section 4).
8. `AnswersBelongCorrect` (`MmuProofs`), for all page tables, updates of them,
   privileges and modes (`MmuAssumption`: every address a walk can reach is one of
   the tables'), and flushes at any time. `InvariantHolds`, `MissesResolvedCorrect`
   and `TranslationsLegalCorrect` assume `~FlushInWalk`, since the code breaks them
   otherwise (section 4); the last also assumes `Agreed`: the PTEs, fetches and modes
   are those to which core and simulator give the same meaning (no W without R; S
   does not access user pages without SUM, nor fetch from them; MXR makes nothing
   readable; no pointer at the second level; leaves where the simulator has
   memory).
9. `InvariantHolds`, `PreciseExceptionsCorrect`, `NothingMissedCorrect`,
   `NoSquashedAccessCorrect`, `AnswersBelongCorrect`, `NothingWaitsInVainCorrect`
   (`PipelineProofs`), for every program, set of registers and length of a division,
   either setting of both bypasses and a FIFO of two or more entries
   (`PipelineAssumption`; the code has two). They assume `Sound`, the
   restrictions of the run: no `LateMaintenance`, no `StrayCsr`, aligned branch
   targets (section 4). `OperandsCurrentCorrect` also assumes `NoDestination` (a
   barrier with a destination loses it, `riscv_pipe_ctrl.v:422`; a store has none)
   and, of the behaviour, `DivisionsApart`: no division begins in the cycle in
   which another completes. So it covers the 32 cycles of the code, where only an
   abandoned division can break it (section 7); with the four of the run, TLC
   finds no behaviour that does.
10. `InvariantHolds`, `SameStateCorrect`, `RetirementsAgreeCorrect`
   (`SimulatorProofs`), for every program, every state boot code leaves, and any
   number of instructions and interrupts, the latter in any cycle. They assume
   `Sound`: the constants of section 4 are FALSE; boot code delegates both timer
   interrupts or none, and not MEIP, and enables only interrupts that are taken at
   their own level, and leaves every register within the core's mask (`CoreMask`, 16 bits of
   medeleg and mideleg); the program leaves mideleg alone, keeps addresses of
   instructions in the epc and tvec registers (the model has no other addresses), and does
   not access a CSR above its level, return from another level than the one it
   names, or execute an illegal instruction. `LockstepAssumption` has TLC
   confirm that the instance of the run is `Sound`.
11. `DecodersAgreeCorrect`, `DisassemblyTellsCorrect`, `OutcomesAgreeCorrect`,
   `AccessesAgreeCorrect`, `DivisionIsOwnCorrect` (`SimulatorProofs`), for every
   word of 32 bits, all operands, offsets and addresses, and registers of 2, 4,
   8, 16 or 32 bits (`WidthAssumption`). The first assumes a core with the
   multiplier (`MulDiv`, as SUPPORT_MULDIV is by default), the first two
   fences without a register (`FenceRd` = {0}), which is what assemblers emit,
   and the last that no division starts in the cycle in which an abandoned one
   completes (section 7).

12. `MemoryIsProgramCorrect`, `StopsWhenToldCorrect`, `DivergenceReportedCorrect`
   (`HostProofs`), for every file, command line and set of instructions, any
   number of regions, lines of any length and address spaces of any size. They assume
   `Sane`: one simulator, or one and another processor of either kind, is attached; a word of zeros is
   no instruction and ebreak is itself; and programs leave only addresses of
   instructions in the epc and tvec registers. They say what holds in a run that is
   `Ordinary`: sections and memory are of whole words, sections are apart and within
   the lines that the test bench makes for them (section 4, `CrossingSections`), and all
   so far below the end of the space that the test bench can make all its regions,
   wherever it has to move them; no load reads a word that the file holds as an
   ebreak (stored over an instruction already executed it would make
   `StopsWhenTold` speak of a break that was none); and `-r` is not 0. The run also has
   sections, and a memory of the options, at the end of the space, which the
   theorems leave out.

The argument for the cache. None of the properties is inductive. `ControlInv`
adds what each FSM state knows: which request it works for (`PhaseInv`); that
the tag outputs it decides by are those of the set it decides about
(`TagOutInv`); that the victim is dirty when it is evicted and clean when it is
overwritten, and that the line looked for is not in the other way
(`VictimInv`); that the flush counter separates cleared sets from the others
(`FlushInv`); where the burst is (`BurstInv`). `STATE_INVALIDATE` is missing
from `TagOutInv`: it does decide by the wrong tags, but it only clears valid
bits, so control survives. `DataInv` adds where the data is: the RAM output at
the moment of a read (`ReadInv`), the words of a victim that have reached memory
and the one on the bus, in the RAM output or in the skid buffer (`EvictInv`), the
words of a refill that have arrived (`RefillInv`). Each conjunct has a lemma of
its own, `PhaseStep`, `TagOutStep` and so on, over lemmas about what a step does to each RAM.
The refinement then maps each step to `Wait`, `Take` or a stutter.

The argument for the fetch unit is that the instruction due next is in
exactly one place: in the skid buffer, else on its way, else still to be asked for at
`pc_f_q`, else in the branch buffer.

The argument for the data cache port is whose turn it is: nobody's, with
everything empty; the cache's, with one request, which has the bus while the
cache waits for it; or the uncached path's, with as many requests as its FIFO of
tags holds. There the FIFO of requests lacks the first request exactly while that
one is at work (`Follows`), and the counter is the number of tags (`Owes`). An
uncached cycle answers, starts and takes a request, each or not; the lemmas take
these one after the other. That the turn changes only when nothing is owed is
`Hold`, and that the counter cannot wrap follows from the depth of the FIFOs.

The argument for the AXI port, for what is offered, is that a beat of which nothing was taken is on
offer again in the next cycle, from the head of the FIFO with the same place in
its burst or from the skid buffer, and that the limit on outstanding bursts,
once it lets a beat through, does not take it back before the beat is accepted.
For what is carried, it is that at any time either writes or reads are owed
(`Writing`, `Reading`), and that what the channels still owe is what the port
still holds. Each write beat in the FIFO has a rank, how many beats of its burst
come after it (`Ranks`); the data channel owes every beat in the FIFO, marked last where
the rank is 0, the address channel each beat that follows a rank of 0, and
before these the half that the skid buffer holds (`Queued`). The responses owed are those
outstanding and the ranks of 0 in the FIFO. A cycle is proved as what leaves
(`Drained`: nothing, the head of the FIFO, the data or the address from the skid
buffer), then what enters. The direction turns only where nothing is owed,
where both invariants hold.

The argument for the instruction cache is what each state knows of the sets
(`SetsInv`): cleared below the flush pointer; in a refill neither way holds the line
looked for, and the victim's way may hold anything; everywhere else no line
is held twice and each holds words no older than the last flush. The RAM outputs
are those of the lookup (`OutputsInv`), except for a lookup taken along with a
flush, which may see those of the set flushed last: its set is cleared, and the
core discards its answer. The words of a refill that have arrived are those of
the bus, or the lookup carries an error (`RefillInv`).

The argument for the TCM has four parts. The burst registers are the burst
the AXI master believes to be served, and the beats it has not handed over are
those of the write that waits or goes on (`BurstInv`, `MasterInv`), so each
access to the RAM is made at the address its beat has. Who has asked for the port
without getting it still asks, and gets it in the next cycle (`HoldInv`). The
FIFO of requests is as long as the responses in the other FIFO and the one the RAM
is putting out (`AnswersTracked`), so that word is for the youngest request
(`LastAnswer`). And the priority bit says how often a waiting command has been passed
(`PassedInv`): what has been passed twice goes first, unless it is served already.

The argument for the MMU starts with who waits for what: the registers that keep a
request keep the one still asked for (`RequestInv`), and the port owes the
load/store unit and the walker one answer each at most, which `OwedMoves` counts
on the queue of the port (`BelongInv`). Since who misses is not accepted, its page,
privilege and mode stay while the walker works (`MissWaits`); so the address
bus shows the page the walk began with, `virt`, at each level, and the PTE read
last is one that a walk over the tables since the last flush would meet there
(`WalkInv`). What a walk may find only grows between flushes (`WalksGrow`),
so entries stay legal while software rewrites the tables (`TlbInv`).
`EffortInv` says what the walks counted have left: after one for data, or two for an
instruction, the entry is that of the page still asked for, and no walk for
that side goes on or can start. The theorem about `AnswersBelong` uses the
first part only, so it does not depend on when TLBs are flushed.

The argument for the pipeline begins with exceptions (`TrapInv`): when one is in
writeback, or has become a branch, E1 and E2 are empty. So what matters is
what can be in E1 behind an exception in E2, and that is a CSR instruction or
an interrupt (`StageInv`), because a CSR instruction keeps others from being issued
(`CsrInv`) and behind an interrupt in E1 only another interrupt, or a CSR
instruction, is issued (`IntrInv`; this is where a stray CSR word does its harm).
Then no stall can meet an exception, and an access in E1 whose predecessor
was answered without a fault goes on to E2 in the cycle in which it is sent; hence the
operation held by the load/store unit, and the head of its FIFO, are those of
E1 or E2, one at a time (`LsuInv`, with `WaitsNext` for what the unit's registers
become). The numbers from writeback to fetch are consecutive as long as no
exception is among them (`OrderInv`). `DivInv` follows a division from the
issue stage to the divider. For the operands, `ValueInv` says that what is to
write a register has its number for a result when it leaves E2, and `NewestInv`
that the newest value of a register is that of the youngest instruction to
write it, in the order E1, E2, writeback, register file: the order of the
bypasses. That two stages do not hold the same number, modulo `Numbers`, comes from
`OrderInv`.

The argument for core and simulator has two halves. The first is about one
instruction: if both have the same registers and level, then what the core writes at
writeback is what the simulator's method makes of them (`TrapRetires`,
`ReturnRetires`, `InterruptRetires`, `AccessRetires`, `OtherRetires`). These compare
the register file's masks and merges with the simulator's, for every delegation
that is `Sound`: the masks differ for medeleg and mideleg, which is why medeleg
is written with bits of the core only (`Wide`), so that what either keeps is the same
(`GoodAccess`, `SameRead`). The second is that the registers an instruction was given when it issued
are still those when it retires. `Path` says at which stage the instruction is that the
simulator executes next, and that what follows it there is what the simulator comes to,
or is flushed; `Items` that the answers the CSR unit keeps for each stage are
those the simulator would read; `Alone` that a CSR instruction has the pipeline to
itself from issue to writeback, which is why nothing changes the register
between its read and its write but an interrupt that arrives; `Flushed` that behind
an exception or a branch the pipeline is empty. Interrupts do arrive between: for these,
`Buffered` says that the bits held back while mip is read and not yet written are those
the simulator has still to be told of, that nothing is held when the next read
begins (where `AdjacentMip` and `StrayMip` do their harm), and `Pending` that an interrupt
launched is still pending, and at its level, when it retires (where `LateMachine`
does).

The argument for the units begins with `CoreShows`: what they show is what
the decoder, the ALU and the branches, or the byte lanes make of the last thing they were
given. The rest is about these functions. For the decoders, the masks become
conditions on the fields of a word (`ImmediateMatch` and the lemmas after it),
from which follow the order in which the simulator asks (only wfi overlaps with another)
and the wires of the core, class by class. The disassembler tells
more than the property asks: any two words printed alike, not only neighbours, are
executed alike, but for jalr (`TextTells`). A shift in five stages is one shift by the
sum of their distances (`LeftStage`, `RightStage`), with the ones that come in from
the left added up (`Fill`). The comparisons look at the sign of a difference that may wrap;
they are right because it is taken only where the signs are equal (`LessFacts`).
The divider keeps an invariant of its own (`DivInv`): with x and v the
magnitudes, and 2v for the bit before the first edge, what is found and what is left make up the dividend, x = v * quotient +
dividend, the rest is below twice the divisor, and the divisor stands at the
place of the mask; where v is 0 the quotient fills with ones instead. So the answer
is C's quotient or remainder, and `asked` ties it to the division the
pipeline waits for.

The argument for the program has three parts. A memory is told by what it reads
at each address (`Shows`): making a region changes nothing but that zeros are
read as zeros (`Extended`), because the first region that has an address wins and
the test bench starts a new one behind those before it; and writing a byte or a word changes
what is read there and nowhere else (`Painted`), because the four
bytes of a word lie in one region (`WholeHome`). A step of a processor is then told by
the bytes its memory shows, not by how its regions lie. Before the loop
all memories show `image`, and no event is left (`Loading`). In the loop the first
processor's memory shows it (`Running`), and the second has executed the same
instruction last (`Paired`). Before it goes wrong it agrees in every respect. After that,
of a "bench" no more is known, and the framework learns no more: a wrong register or a
wrong store goes unreported until it takes the program another way. An "rtl" still
agrees in every respect, or it went wrong in a way that no register has shown yet: then
its memory differs in the last store, whose event is still to be compared with
another one (`Wronged`); one step later that comparison ends the process. That runs stop in time
is that `current` is one step behind the trace (`Following`), and that only the last
instruction traced may be an ebreak (`Tracing`), as what was executed before is neither
overwritten by one nor was one.

The constants' assumptions (`SizeAssumption`, `DataAssumption`,
`FetchAssumption`, `RegionsAssumption`, `HostAssumption`, `PortAssumption`, `AxiAssumption`, `CacheAssumption`,
`TcmAssumption`, `MmuAssumption`, `PipelineAssumption`, `LockstepAssumption`,
`WidthAssumption`, `DecoderAssumption`, `DividerAssumption`, `ExecuteAssumption`) are
evaluated by TLC in every run of their modules.

Only model-checked: `EveryRequestAnswered`, `EveryBurstAnswered`, `Delivers` and the
other liveness properties, since liveness under fairness and `ENABLED` are out of
the prover's reach. Every invariant and every safety property of a step that a run
checks is proved, under the hypotheses named above.

## 7. Where the code does not do what it says, or the two disagree

Found while modelling; the first three are not part of a run, the others are the
restrictions of section 4 and notes on the side.

- **Invalidate** (`dcache_core.v:257`): the tags compared in STATE_INVALIDATE
  are those of the set of the previous request. An invalidate that follows an
  access to another set is acknowledged and drops nothing, unlike the comments at
  `:339` and `:803`. To see it, check `InvalidateDropsLine` of `DCacheCore` with
  `DCacheControl.cfg` and `Requests <- MCInvalidateRequests`.
- **fence.i** (`riscv_fetch.v:231`): the flush pulse lasts one cycle and is lost
  when the instruction cache is refilling, which takes a flush only while it
  looks up; old instructions run after the fence. `ICache` shows what a flush that
  is taken does.
- **Abandoned division** (`riscv_issue.v:415`, `riscv_divider.v:162`): a
  division replaced by an interrupt goes on in the divider; one of the handler
  issued in the cycle in which it completes takes its quotient, although the comment
  at `riscv_issue.v:338` says that divisions are waited for. To see it, set
  `AbandonAtEnd` in `Execute.cfg`, or `DivCycles` to 8 in `Pipeline.cfg`.

Core and simulator: the core takes uret and a return from level 2 for instructions, the
simulator does not; a misaligned access is an exception of the core and a failed
assertion of the simulator; `csrrw stvec, x0` matches the mask of wfi where that is asked
first; medeleg and mideleg have 16 bits in the core and 32 in the simulator (section 4,
`WideDelegation`); a shift by 32 or more is undefined in the simulator's C; misa differs.

Translation: `mmu_walk` counts its levels with an unsigned `i` and asks `i >= 0`
(`riscv.cpp:391`), so a valid pointer at the second level does not end the walk but
leads it on with shifts by negative counts; the core takes it for a page
without permissions and faults. A fetch in S from a user page (`riscv.cpp:490`), an
access in S to one without SUM (`:553`) and a leaf whose page the simulator has no
memory for (`:452`) end the simulator, which the core answers with page faults, or
with an access. To see each, add such a PTE or fetch to `MCMmu`, or give
`NoMemory` a page.

The disassembler prints jalr without its destination (`riscv_inst_dump.cpp`).

The program: the instruction at `-r` is executed, and one more, since
`current_pc` lags by a step (`riscv_main.cpp:183`), although the help says "Stop at
PC address"; `-c 0` is no limit; `get_fault` is never seen true, since `error` exits
(`riscv.cpp:97`); a region that ends with the address space is never found
(`riscv.cpp:281`); a program that ends itself with sim_ctrl is not dumped; a
file that cannot be loaded still returns 0; without the framework nothing pops the
events, so the queues grow with every load and store; the events of the last
step are not compared; the text dump leaves out an incomplete row of
16 bytes.

Co-simulation: the test benches, the only processors beside the simulator, call no
register valid (`testbench.h:182`; `:143` in the other) and push no events, so `cosim::step` would
compare neither registers (`cosim_api.cpp:155`) nor loads and stores with them, only
the pc; that they have stopped they never say either (`:151`). A step of theirs is one
clock (`:153`) and one of the simulator an instruction, so the pcs would differ as soon
as the pipeline waits. No program of the repository attaches both: `main.cpp` has the
simulator alone, and `testbench.h:52` the bench alone.

## 8. What is not modelled

- The TCM's choice between memory and uncached port (`dport_mux.v`,
  `dport_axi.v`): planned (section 2). The first is a near copy of
  `dcache_mux.v`, the second of `dcache_if_pmem.v`, which are in `DCachePort`.
- The performance counters, `mtval` and the timer of the core, which the
  simulator has not, or has otherwise.
- `riscv_xilinx_2r1w`, an alternative register file with the same behaviour.
- The text layout of traces and the symbol table of the loader.
- Wiring, bus drivers of the test benches, vendored and third-party code, as listed in
  section 1.
