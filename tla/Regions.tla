-------------------------------- MODULE Regions --------------------------------
(***************************************************************************)
(* The memories behind the loader.  The simulator has up to MaxRegions     *)
(* regions in the order they were created, which may overlap (riscv.cpp),  *)
(* each an array of words (memory.h).  The testbench of the cached core    *)
(* has up to BenchRegions regions of whole lines, cut where others are     *)
(* (testbench.h, tb_memory.h).                                             *)
(*                                                                         *)
(* A byte is a pair, the name of its word and its place in it, so that a   *)
(* word put together from two others is seen.                              *)
(***************************************************************************)
EXTENDS Naturals, Sequences, FiniteSetsExt

CONSTANTS
  Space,        (* bound: the size of the address space, 2^32 in the code  *)
  MaxRegions,   (* MAX_MEM_REGIONS: 16 in the code                         *)
  BenchRegions, (* TB_MEM_MAX_REGIONS: 10 in the code                      *)
  BenchLine     (* a region of the testbench is of such lines: 32          *)

ASSUME RegionsAssumption ==
  /\ Space \in Nat \ {0} /\ BenchLine \in Nat \ {0}
  /\ MaxRegions \in Nat /\ BenchRegions \in Nat

WordBytes == 4

Zero == <<"zero", 0>>
Junk == <<"junk", 0>>

WordOf(name) ==
  [place \in 0 .. WordBytes - 1 |-> IF name = "zero" THEN Zero ELSE <<name, place>>]

Region(base, size, bytes) == [base |-> base, size |-> size, bytes |-> bytes]

(* base + size is computed in 32 bits: a region that ends with the address *)
(* space ends at 0, and is never found.                                    *)
Within(a, base, size) == a >= base /\ a < (base + size) % Space

Hits(m, a) == {j \in DOMAIN m : Within(a, m[j].base, m[j].size)}

Mapped(m, a) == Hits(m, a) # {}

(* Every search takes the first region. *)
Home(m, a) == Min(Hits(m, a))

Offset(m, a) == a - m[Home(m, a)].base

Read(m, a) == IF Mapped(m, a) THEN m[Home(m, a)].bytes[Offset(m, a)] ELSE Zero

---------------------------------------------------------------------------
(* The simulator's.                                                        *)

RoundUp(n, unit) == unit * ((n + unit - 1) \div unit)

(* A new array of whole words, of which reset clears the first size bytes: *)
(* what the others hold nobody knows.                                      *)
SimpleMemory(base, size) ==
  Region(base, size,
         [o \in 0 .. RoundUp(size, WordBytes) - 1 |-> IF o < size THEN Zero ELSE Junk])

CanAttach(m) == Len(m) < MaxRegions

Attach(m, base, size) == IF CanAttach(m) THEN Append(m, SimpleMemory(base, size)) ELSE m

(* A word lies in the region of its first byte; SimpleMemory asserts that  *)
(* its place in the region, not its address, is that of a word.            *)
WordAborts(m, a) == Mapped(m, a) /\ Offset(m, a) % WordBytes # 0

Read32(m, a) ==
  IF Mapped(m, a)
  THEN [k \in 0 .. WordBytes - 1 |-> m[Home(m, a)].bytes[Offset(m, a) + k]]
  ELSE WordOf("zero")

Write32(m, a, word) ==
  LET o == Offset(m, a) IN
  [m EXCEPT ![Home(m, a)].bytes =
     [p \in DOMAIN @ |-> IF p \in o .. o + WordBytes - 1 THEN word[p - o] ELSE @[p]]]

---------------------------------------------------------------------------
(* The testbench's.                                                        *)

(* The first address from base on, and the last up to base + size - 1,     *)
(* that no region has.                                                     *)
FirstFree(m, base) == Min({a \in base .. Space : ~Mapped(m, a)})

LastFree(m, base, size) == Max({a \in 0 .. base + size - 1 : ~Mapped(m, a)})

(* add_region refuses a region that begins or ends in another. *)
AddRegion(m, base, size) ==
  IF Len(m) = BenchRegions \/ Mapped(m, base) \/ Mapped(m, base + size - 1) THEN m
  ELSE Append(m, Region(base, size, [o \in 0 .. size - 1 |-> Junk]))

(* memset over the array of the region that base is in. *)
Cleared(m, base, size) ==
  [m EXCEPT ![Home(m, base)].bytes =
     [o \in DOMAIN @ |-> IF o < size THEN Zero ELSE @[o]]]

BenchLines(base, size) == [first |-> base - (base % BenchLine), length |-> RoundUp(size, BenchLine)]

(* Mutation: what other regions have is not left out. *)
WholeLines(m, base, size) == BenchLines(base, size)

(* create_memory: base is rounded down and size up, each on its own, and   *)
(* base moves up without size becoming less.                               *)
CutLines(m, base, size) ==
  LET lines == BenchLines(base, size)
      first == FirstFree(m, lines.first)
  IN  [first |-> first, length |-> LastFree(m, first, lines.length) + 1 - first]

BenchCreate(m, base, size) ==
  LET lines == CutLines(m, base, size)
  IN  Cleared(AddRegion(m, lines.first, lines.length), lines.first, lines.length)

(* get_array asserts that a region has the first address. *)
BenchAborts(m, base, size) ==
  LET lines == CutLines(m, base, size)
  IN  ~Mapped(AddRegion(m, lines.first, lines.length), lines.first)

(* A word of the bus is put together from its bytes, each looked up. *)
BenchRead32(m, a) == [k \in 0 .. WordBytes - 1 |-> Read(m, a + k)]

BenchWrite32(m, a, word) ==
  [j \in DOMAIN m |->
     [m[j] EXCEPT !.bytes =
        [p \in DOMAIN @ |-> LET b == m[j].base + p IN
           IF b \in a .. a + WordBytes - 1 /\ Home(m, b) = j THEN word[b - a] ELSE @[p]]]]
================================================================================
