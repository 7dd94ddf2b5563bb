---------------------------- MODULE SimulatorProofs ----------------------------
(***************************************************************************)
(* Proofs that the core does what the simulator does.                      *)
(*                                                                         *)
(* Execute: what an instruction computes, for every word of 32 bits, all   *)
(* operands and registers of up to 32 bits.                                *)
(*                                                                         *)
(* Lockstep: traps, CSRs and interrupts, for every program, every state    *)
(* boot code leaves and every arrival of interrupts, as long as the        *)
(* program keeps away from what the simulator leaves out (Sound).  The     *)
(* invariant says which item of the pipeline is the instruction the        *)
(* simulator executes next, what the CSR unit has answered it, and which   *)
(* interrupts each side knows of.                                          *)
(***************************************************************************)
EXTENDS Execute, Lockstep, TLAPS

---------------------------------------------------------------------------
(* The encodings.                                                          *)

(* The names in each table of encodings. *)
LEMMA ImmediateNames ==
  DOMAIN ImmediateCodes = {"andi", "addi", "slti", "sltiu", "ori", "xori", "slli", "srli", "srai"}
BY DEF ImmediateCodes

LEMMA UpperNames == DOMAIN UpperCodes = {"lui", "auipc"}
BY DEF UpperCodes

LEMMA RegisterNames ==
  DOMAIN RegisterCodes = {"add", "sub", "slt", "sltu", "xor", "or", "and", "sll", "srl", "sra"}
BY DEF RegisterCodes

LEMMA BranchNames ==
  DOMAIN BranchCodes = {"jal", "jalr", "beq", "bne", "blt", "bge", "bltu", "bgeu"}
BY DEF BranchCodes

LEMMA MemoryNames ==
  DOMAIN MemoryCodes = {"lb", "lh", "lw", "lbu", "lhu", "lwu", "sb", "sh", "sw"}
BY DEF MemoryCodes

LEMMA SystemNames ==
  DOMAIN SystemCodes = {"ecall", "ebreak", "mret", "sret", "sfence", "fence", "ifence"}
BY DEF SystemCodes

LEMMA CsrNames ==
  DOMAIN CsrCodes = {"csrrw", "csrrs", "csrrc", "csrrwi", "csrrsi", "csrrci"}
BY DEF CsrCodes

LEMMA MultiplyNames ==
  DOMAIN MultiplyCodes = {"mul", "mulh", "mulhsu", "mulhu", "div", "divu", "rem", "remu"}
BY DEF MultiplyCodes

LEMMA WaitNames == DOMAIN WaitCodes = {"wfi"}
BY DEF WaitCodes

(* The encoding of a name is the one of its table. *)
LEMMA EncodingFacts ==
  /\ \A n \in DOMAIN ImmediateCodes : Encoding[n] = ImmediateCodes[n]
  /\ \A n \in DOMAIN UpperCodes : Encoding[n] = UpperCodes[n]
  /\ \A n \in DOMAIN RegisterCodes : Encoding[n] = RegisterCodes[n]
  /\ \A n \in DOMAIN BranchCodes : Encoding[n] = BranchCodes[n]
  /\ \A n \in DOMAIN MemoryCodes : Encoding[n] = MemoryCodes[n]
  /\ \A n \in DOMAIN SystemCodes : Encoding[n] = SystemCodes[n]
  /\ \A n \in DOMAIN CsrCodes : Encoding[n] = CsrCodes[n]
  /\ \A n \in DOMAIN MultiplyCodes : Encoding[n] = MultiplyCodes[n]
  /\ \A n \in DOMAIN WaitCodes : Encoding[n] = WaitCodes[n]
BY ImmediateNames, UpperNames, RegisterNames, BranchNames, MemoryNames, SystemNames, CsrNames,
   MultiplyNames, WaitNames DEF Encoding, Names

(* What each comparison asks of the fields of a word. *)
LEMMA ImmediateMatch ==
  ASSUME NEW w \in WordFields
  PROVE  /\ \A n \in DOMAIN ImmediateCodes : Matches(w, Encoding[n]) => w.op = 19
         /\ Matches(w, Encoding["andi"]) <=> w.op = 19 /\ w.f3 = 7
         /\ Matches(w, Encoding["addi"]) <=> w.op = 19 /\ w.f3 = 0
         /\ Matches(w, Encoding["slti"]) <=> w.op = 19 /\ w.f3 = 2
         /\ Matches(w, Encoding["sltiu"]) <=> w.op = 19 /\ w.f3 = 3
         /\ Matches(w, Encoding["ori"]) <=> w.op = 19 /\ w.f3 = 6
         /\ Matches(w, Encoding["xori"]) <=> w.op = 19 /\ w.f3 = 4
         /\ Matches(w, Encoding["slli"]) <=> w.op = 19 /\ w.f3 = 1 /\ w.f7 \div 2 = 0
         /\ Matches(w, Encoding["srli"]) <=> w.op = 19 /\ w.f3 = 5 /\ w.f7 \div 2 = 0
         /\ Matches(w, Encoding["srai"]) <=> w.op = 19 /\ w.f3 = 5 /\ w.f7 \div 2 = 16
BY ImmediateNames, EncodingFacts DEF Matches, Part, ImmediateCodes, Code3, Code6, WordFields

LEMMA UpperMatch ==
  ASSUME NEW w \in WordFields
  PROVE  /\ Matches(w, Encoding["lui"]) <=> w.op = 55
         /\ Matches(w, Encoding["auipc"]) <=> w.op = 23
BY UpperNames, EncodingFacts DEF Matches, Part, UpperCodes, Code1, WordFields

LEMMA RegisterMatch ==
  ASSUME NEW w \in WordFields
  PROVE  /\ Matches(w, Encoding["add"]) <=> w.op = 51 /\ w.f3 = 0 /\ w.f7 = 0
         /\ Matches(w, Encoding["sub"]) <=> w.op = 51 /\ w.f3 = 0 /\ w.f7 = 32
         /\ Matches(w, Encoding["slt"]) <=> w.op = 51 /\ w.f3 = 2 /\ w.f7 = 0
         /\ Matches(w, Encoding["sltu"]) <=> w.op = 51 /\ w.f3 = 3 /\ w.f7 = 0
         /\ Matches(w, Encoding["xor"]) <=> w.op = 51 /\ w.f3 = 4 /\ w.f7 = 0
         /\ Matches(w, Encoding["or"]) <=> w.op = 51 /\ w.f3 = 6 /\ w.f7 = 0
         /\ Matches(w, Encoding["and"]) <=> w.op = 51 /\ w.f3 = 7 /\ w.f7 = 0
         /\ Matches(w, Encoding["sll"]) <=> w.op = 51 /\ w.f3 = 1 /\ w.f7 = 0
         /\ Matches(w, Encoding["srl"]) <=> w.op = 51 /\ w.f3 = 5 /\ w.f7 = 0
         /\ Matches(w, Encoding["sra"]) <=> w.op = 51 /\ w.f3 = 5 /\ w.f7 = 32
BY RegisterNames, EncodingFacts DEF Matches, Part, RegisterCodes, Code7, WordFields

LEMMA BranchMatch ==
  ASSUME NEW w \in WordFields
  PROVE  /\ Matches(w, Encoding["jal"]) <=> w.op = 111
         /\ Matches(w, Encoding["jalr"]) <=> w.op = 103 /\ w.f3 = 0
         /\ Matches(w, Encoding["beq"]) <=> w.op = 99 /\ w.f3 = 0
         /\ Matches(w, Encoding["bne"]) <=> w.op = 99 /\ w.f3 = 1
         /\ Matches(w, Encoding["blt"]) <=> w.op = 99 /\ w.f3 = 4
         /\ Matches(w, Encoding["bge"]) <=> w.op = 99 /\ w.f3 = 5
         /\ Matches(w, Encoding["bltu"]) <=> w.op = 99 /\ w.f3 = 6
         /\ Matches(w, Encoding["bgeu"]) <=> w.op = 99 /\ w.f3 = 7
BY BranchNames, EncodingFacts DEF Matches, Part, BranchCodes, Code1, Code3, WordFields

LEMMA MemoryMatch ==
  ASSUME NEW w \in WordFields
  PROVE  /\ Matches(w, Encoding["lb"]) <=> w.op = 3 /\ w.f3 = 0
         /\ Matches(w, Encoding["lh"]) <=> w.op = 3 /\ w.f3 = 1
         /\ Matches(w, Encoding["lw"]) <=> w.op = 3 /\ w.f3 = 2
         /\ Matches(w, Encoding["lbu"]) <=> w.op = 3 /\ w.f3 = 4
         /\ Matches(w, Encoding["lhu"]) <=> w.op = 3 /\ w.f3 = 5
         /\ Matches(w, Encoding["lwu"]) <=> w.op = 3 /\ w.f3 = 6
         /\ Matches(w, Encoding["sb"]) <=> w.op = 35 /\ w.f3 = 0
         /\ Matches(w, Encoding["sh"]) <=> w.op = 35 /\ w.f3 = 1
         /\ Matches(w, Encoding["sw"]) <=> w.op = 35 /\ w.f3 = 2
BY MemoryNames, EncodingFacts DEF Matches, Part, MemoryCodes, Code3, WordFields

LEMMA SystemMatch ==
  ASSUME NEW w \in WordFields
  PROVE  /\ Matches(w, Encoding["ecall"]) <=>
              w.op = 115 /\ w.rd = 0 /\ w.f3 = 0 /\ w.rs1 = 0 /\ w.rs2 = 0 /\ w.f7 = 0
         /\ Matches(w, Encoding["ebreak"]) <=>
              w.op = 115 /\ w.rd = 0 /\ w.f3 = 0 /\ w.rs1 = 0 /\ w.rs2 = 1 /\ w.f7 = 0
         /\ Matches(w, Encoding["mret"]) <=>
              w.op = 115 /\ w.rd = 0 /\ w.f3 = 0 /\ w.rs1 = 0 /\ w.rs2 = 2 /\ w.f7 = 24
         /\ Matches(w, Encoding["sret"]) <=>
              w.op = 115 /\ w.rd = 0 /\ w.f3 = 0 /\ w.rs1 = 0 /\ w.rs2 = 2 /\ w.f7 = 8
         /\ Matches(w, Encoding["sfence"]) <=> w.op = 115 /\ w.rd = 0 /\ w.f3 = 0 /\ w.f7 = 9
         /\ Matches(w, Encoding["fence"]) <=> w.op = 15 /\ w.f3 = 0
         /\ Matches(w, Encoding["ifence"]) <=> w.op = 15 /\ w.f3 = 1
         /\ Matches(w, Encoding["wfi"]) <=>
              w.op = 115 /\ w.rd = 0 /\ w.rs1 = 0 /\ w.rs2 = 5 /\ w.f7 = 8
         /\ Matches(w, Eret) <=>
              w.op = 115 /\ w.rd = 0 /\ w.f3 = 0 /\ w.rs1 = 0 /\ w.rs2 = 2 /\ w.f7 \in {0, 8, 16, 24}
<1>1. Matches(w, Eret) <=>
        w.op = 115 /\ w.rd = 0 /\ w.f3 = 0 /\ w.rs1 = 0 /\ w.rs2 = 2 /\ w.f7 \in {0, 8, 16, 24}
  BY DEF Matches, Part, Eret, WordFields
<1> QED BY <1>1, SystemNames, WaitNames, EncodingFacts
        DEF Matches, Part, SystemCodes, WaitCodes, System, Code3, WordFields

LEMMA CsrMatch ==
  ASSUME NEW w \in WordFields
  PROVE  /\ Matches(w, Encoding["csrrw"]) <=> w.op = 115 /\ w.f3 = 1
         /\ Matches(w, Encoding["csrrs"]) <=> w.op = 115 /\ w.f3 = 2
         /\ Matches(w, Encoding["csrrc"]) <=> w.op = 115 /\ w.f3 = 3
         /\ Matches(w, Encoding["csrrwi"]) <=> w.op = 115 /\ w.f3 = 5
         /\ Matches(w, Encoding["csrrsi"]) <=> w.op = 115 /\ w.f3 = 6
         /\ Matches(w, Encoding["csrrci"]) <=> w.op = 115 /\ w.f3 = 7
BY CsrNames, EncodingFacts DEF Matches, Part, CsrCodes, Code3, WordFields

LEMMA MultiplyMatch ==
  ASSUME NEW w \in WordFields
  PROVE  /\ Matches(w, Encoding["mul"]) <=> w.op = 51 /\ w.f3 = 0 /\ w.f7 = 1
         /\ Matches(w, Encoding["mulh"]) <=> w.op = 51 /\ w.f3 = 1 /\ w.f7 = 1
         /\ Matches(w, Encoding["mulhsu"]) <=> w.op = 51 /\ w.f3 = 2 /\ w.f7 = 1
         /\ Matches(w, Encoding["mulhu"]) <=> w.op = 51 /\ w.f3 = 3 /\ w.f7 = 1
         /\ Matches(w, Encoding["div"]) <=> w.op = 51 /\ w.f3 = 4 /\ w.f7 = 1
         /\ Matches(w, Encoding["divu"]) <=> w.op = 51 /\ w.f3 = 5 /\ w.f7 = 1
         /\ Matches(w, Encoding["rem"]) <=> w.op = 51 /\ w.f3 = 6 /\ w.f7 = 1
         /\ Matches(w, Encoding["remu"]) <=> w.op = 51 /\ w.f3 = 7 /\ w.f7 = 1
BY MultiplyNames, EncodingFacts DEF Matches, Part, MultiplyCodes, Code7, WordFields

(* Which fields a match fixes, table by table. *)
LEMMA TableMatch ==
  ASSUME NEW w \in WordFields, NEW n, Matches(w, Encoding[n])
  PROVE  /\ n \in DOMAIN ImmediateCodes => w.op = 19
         /\ n \in DOMAIN UpperCodes => w.op \in {55, 23}
         /\ n \in DOMAIN RegisterCodes => w.op = 51 /\ w.f7 \in {0, 32}
         /\ n \in DOMAIN BranchCodes => w.op \in {111, 103, 99}
         /\ n \in DOMAIN MemoryCodes => w.op \in {3, 35}
         /\ n \in DOMAIN SystemCodes => w.op = 15 \/ (w.op = 115 /\ w.f3 = 0 /\ w.rd = 0)
         /\ n \in DOMAIN CsrCodes => w.op = 115 /\ w.f3 \notin {0, 4}
         /\ n \in DOMAIN MultiplyCodes => w.op = 51 /\ w.f7 = 1
         /\ n = "wfi" => w.op = 115 /\ w.rd = 0
<1>1. n \in DOMAIN ImmediateCodes => w.op = 19
  BY ImmediateMatch
<1>2. n \in DOMAIN UpperCodes => w.op \in {55, 23}
  BY UpperMatch, UpperNames
<1>3. n \in DOMAIN RegisterCodes => w.op = 51 /\ w.f7 \in {0, 32}
  BY RegisterMatch, RegisterNames
<1>4. n \in DOMAIN BranchCodes => w.op \in {111, 103, 99}
  BY BranchMatch, BranchNames
<1>5. n \in DOMAIN MemoryCodes => w.op \in {3, 35}
  BY MemoryMatch, MemoryNames
<1>6. n \in DOMAIN SystemCodes => w.op = 15 \/ (w.op = 115 /\ w.f3 = 0 /\ w.rd = 0)
  BY SystemMatch, SystemNames
<1>7. n \in DOMAIN CsrCodes => w.op = 115 /\ w.f3 \notin {0, 4}
  BY CsrMatch, CsrNames
<1>8. n \in DOMAIN MultiplyCodes => w.op = 51 /\ w.f7 = 1
  BY MultiplyMatch, MultiplyNames
<1>9. n = "wfi" => w.op = 115 /\ w.rd = 0
  BY SystemMatch
<1> QED BY <1>1, <1>2, <1>3, <1>4, <1>5, <1>6, <1>7, <1>8, <1>9

(* Only wfi leaves to the order of the comparisons what a word is. *)
LEMMA OneMatch ==
  ASSUME NEW w \in WordFields, NEW n \in Names \ {"wfi"}, NEW m \in Names \ {"wfi"},
         Matches(w, Encoding[n]), Matches(w, Encoding[m])
  PROVE  n = m
<1>1. CASE n \in DOMAIN ImmediateCodes
  <2>1. m \in DOMAIN ImmediateCodes
    BY <1>1, TableMatch, WaitNames DEF Names
  <2> QED BY <1>1, <2>1, ImmediateMatch, ImmediateNames
<1>2. CASE n \in DOMAIN UpperCodes
  <2>1. m \in DOMAIN UpperCodes
    BY <1>2, TableMatch, WaitNames DEF Names
  <2> QED BY <1>2, <2>1, UpperMatch, UpperNames
<1>3. CASE n \in DOMAIN RegisterCodes
  <2>1. m \in DOMAIN RegisterCodes
    BY <1>3, TableMatch, WaitNames DEF Names
  <2> QED BY <1>3, <2>1, RegisterMatch, RegisterNames
<1>4. CASE n \in DOMAIN BranchCodes
  <2>1. m \in DOMAIN BranchCodes
    BY <1>4, TableMatch, WaitNames DEF Names
  <2> QED BY <1>4, <2>1, BranchMatch, BranchNames
<1>5. CASE n \in DOMAIN MemoryCodes
  <2>1. m \in DOMAIN MemoryCodes
    BY <1>5, TableMatch, WaitNames DEF Names
  <2> QED BY <1>5, <2>1, MemoryMatch, MemoryNames
<1>6. CASE n \in DOMAIN SystemCodes
  <2>1. m \in DOMAIN SystemCodes
    BY <1>6, TableMatch, WaitNames DEF Names
  <2> QED BY <1>6, <2>1, SystemMatch, SystemNames
<1>7. CASE n \in DOMAIN CsrCodes
  <2>1. m \in DOMAIN CsrCodes
    BY <1>7, TableMatch, WaitNames DEF Names
  <2> QED BY <1>7, <2>1, CsrMatch, CsrNames
<1>8. CASE n \in DOMAIN MultiplyCodes
  <2>1. m \in DOMAIN MultiplyCodes
    BY <1>8, TableMatch, WaitNames DEF Names
  <2> QED BY <1>8, <2>1, MultiplyMatch, MultiplyNames
<1> QED BY <1>1, <1>2, <1>3, <1>4, <1>5, <1>6, <1>7, <1>8, WaitNames DEF Names

(* The chain of comparisons has every name once, wfi last. *)
LEMMA OrderFacts ==
  /\ DOMAIN Order = 1 .. 60
  /\ \A i \in 1 .. 60 : Order[i] \in Names
  /\ \A i, j \in 1 .. 60 : Order[i] = Order[j] => i = j
  /\ \A i \in 1 .. 60 : Order[i] = "wfi" => i = 60
  /\ \A n \in Names : \E i \in 1 .. 60 : Order[i] = n
<1>1. DOMAIN Order = 1 .. 60
  BY DEF Order
<1>2. \A i \in 1 .. 60 : Order[i] \in Names
  BY ImmediateNames, UpperNames, RegisterNames, BranchNames, MemoryNames, SystemNames,
     CsrNames, MultiplyNames, WaitNames DEF Order, Names
<1>3. \A i, j \in 1 .. 60 : Order[i] = Order[j] => i = j
  BY DEF Order
<1>4. \A i \in 1 .. 60 : Order[i] = "wfi" => i = 60
  BY DEF Order
<1>5. \A n \in Names : \E i \in 1 .. 60 : Order[i] = n
  BY ImmediateNames, UpperNames, RegisterNames, BranchNames, MemoryNames, SystemNames,
     CsrNames, MultiplyNames, WaitNames DEF Order, Names
<1> QED BY <1>1, <1>2, <1>3, <1>4, <1>5

(* What the first comparison that holds tells. *)
LEMMA FirstFacts ==
  ASSUME NEW w \in WordFields
  PROVE  \/ First(w) = "illegal" /\ \A n \in Names : ~ Matches(w, Encoding[n])
         \/ /\ First(w) \in Names /\ Matches(w, Encoding[First(w)])
            /\ First(w) = "wfi" => \A n \in Names : Matches(w, Encoding[n]) => n = "wfi"
<1> DEFINE hits == {i \in DOMAIN Order : Matches(w, Encoding[Order[i]])}
<1>1. CASE hits = {}
  BY <1>1, OrderFacts DEF First
<1>2. CASE hits # {}
  <2>1. ASSUME NEW i \in hits, i # 60, NEW j \in hits, j # 60 PROVE i = j
    <3>1. i \in 1 .. 60 /\ j \in 1 .. 60
      BY OrderFacts
    <3>2. Order[i] \in Names \ {"wfi"} /\ Order[j] \in Names \ {"wfi"}
      BY <2>1, <3>1, OrderFacts
    <3>3. Order[i] = Order[j]
      BY <3>2, OneMatch
    <3> QED BY <3>1, <3>3, OrderFacts
  <2>2. PICK i \in hits : i # 60 \/ hits = {60}
    BY <1>2
  <2>3. ASSUME NEW j \in hits PROVE i <= j
    <3>1. i \in 1 .. 60 /\ j \in 1 .. 60
      BY OrderFacts
    <3> QED BY <2>1, <2>2, <3>1
  <2>4. PICK k \in 1 .. 60 :
          /\ k \in hits /\ \A j \in hits : k <= j
          /\ First(w) = Order[k]
    BY <1>2, <2>2, <2>3, OrderFacts DEF First
  <2>6. ASSUME Order[k] = "wfi", NEW n \in Names, Matches(w, Encoding[n]) PROVE n = "wfi"
    <3>1. PICK j \in 1 .. 60 : Order[j] = n
      BY OrderFacts
    <3>2. j \in hits
      BY <2>6, <3>1, OrderFacts
    <3>3. k \in 1 .. 60 /\ k = 60
      BY <2>4, <2>6, OrderFacts
    <3>4. k <= j
      BY <2>4, <3>2
    <3>5. Order[j] = Order[k]
      BY <3>1, <3>3, <3>4
    <3> QED BY <2>6, <3>1, <3>5, Zenon
  <2>7. First(w) \in Names /\ Matches(w, Encoding[First(w)])
    <3>1. k \in 1 .. 60 /\ Matches(w, Encoding[Order[k]])
      BY <2>4, OrderFacts
    <3> QED BY <2>4, <3>1, OrderFacts
  <2>8. First(w) = "wfi" => \A n \in Names : Matches(w, Encoding[n]) => n = "wfi"
    BY <2>4, <2>6
  <2> QED BY <2>7, <2>8
<1> QED BY <1>1, <1>2

---------------------------------------------------------------------------
(* The decoder.                                                            *)

(* A word of zeros matches nothing. *)
LEMMA ExecutesFirst ==
  ASSUME NEW w \in WordFields
  PROVE  Executes(w) = First(w)
<1>1. AllZero(w) => w.op = 0
  BY DEF AllZero, WordFields
<1>2. ASSUME w.op = 0, NEW n \in Names PROVE ~ Matches(w, Encoding[n])
  BY <1>2, TableMatch, WaitNames DEF Names
<1>3. AllZero(w) => First(w) = "illegal"
  BY <1>1, <1>2, FirstFacts
<1> QED BY <1>3 DEF Executes

(* What each wire says of the fields. *)
LEMMA WireFacts ==
  ASSUME NEW w \in WordFields
  PROVE  /\ Exec(w) => w.op \in {19, 55, 23} \/ (w.op = 51 /\ w.f7 \in {0, 32})
         /\ LoadStore(w) => w.op \in {3, 35}
         /\ Branch(w) => w.op \in {111, 103, 99}
         /\ Mul(w) => w.op = 51 /\ w.f7 = 1 /\ w.f3 < 4
         /\ Div(w) => w.op = 51 /\ w.f7 = 1 /\ w.f3 >= 4
         /\ CsrOp(w) => w.op \in {15, 115}
<1>1. Exec(w) => w.op \in {19, 55, 23} \/ (w.op = 51 /\ w.f7 \in {0, 32})
  BY TableMatch DEF Exec, Is
<1>2. LoadStore(w) => w.op \in {3, 35}
  BY TableMatch DEF LoadStore, Is
<1>3. Branch(w) => w.op \in {111, 103, 99}
  BY TableMatch DEF Branch, Is
<1>4. Mul(w) => w.op = 51 /\ w.f7 = 1 /\ w.f3 < 4
  BY MultiplyMatch DEF Mul, Is
<1>5. Div(w) => w.op = 51 /\ w.f7 = 1 /\ w.f3 >= 4
  BY MultiplyMatch DEF Div, Is
<1>6. CsrOp(w) => w.op \in {15, 115}
  BY TableMatch, SystemMatch, SystemNames, WaitNames DEF CsrOp, Is
<1> QED BY <1>1, <1>2, <1>3, <1>4, <1>5, <1>6

(* The unit of an instruction is the only one that takes it. *)
LEMMA UnitNames ==
  ASSUME NEW n \in Names
  PROVE  /\ n \in DOMAIN ImmediateCodes \cup DOMAIN UpperCodes \cup DOMAIN RegisterCodes =>
              Unit(n) = "exec"
         /\ n \in DOMAIN BranchCodes => Unit(n) = "branch"
         /\ n \in DOMAIN MemoryCodes => Unit(n) = "lsu"
         /\ n \in {"mul", "mulh", "mulhsu", "mulhu"} => Unit(n) = "mul"
         /\ n \in {"div", "divu", "rem", "remu"} => Unit(n) = "div"
         /\ n \in DOMAIN SystemCodes \cup DOMAIN CsrCodes \cup DOMAIN WaitCodes => Unit(n) = "csr"
<1> USE ImmediateNames, UpperNames, RegisterNames, BranchNames, MemoryNames, SystemNames, CsrNames,
        MultiplyNames, WaitNames DEF Unit, DivisionNames
<1>1. n \in DOMAIN ImmediateCodes \cup DOMAIN UpperCodes \cup DOMAIN RegisterCodes =>
        Unit(n) = "exec"
  OBVIOUS
<1>2. n \in DOMAIN BranchCodes => Unit(n) = "branch"
  OBVIOUS
<1>3. n \in DOMAIN MemoryCodes => Unit(n) = "lsu"
  OBVIOUS
<1>4. n \in {"mul", "mulh", "mulhsu", "mulhu"} => Unit(n) = "mul"
  OBVIOUS
<1>5. n \in {"div", "divu", "rem", "remu"} => Unit(n) = "div"
  OBVIOUS
<1>6. n \in DOMAIN SystemCodes \cup DOMAIN CsrCodes \cup DOMAIN WaitCodes => Unit(n) = "csr"
  OBVIOUS
<1> HIDE DEF Unit, DivisionNames
<1> QED BY <1>1, <1>2, <1>3, <1>4, <1>5, <1>6

(* The wires of the decoder that are high for an instruction. *)
LEMMA UnitFacts ==
  ASSUME NEW w \in WordFields, MulDiv = TRUE, NEW n \in Names, Matches(w, Encoding[n])
  PROVE  /\ Exec(w) <=> Unit(n) = "exec"
         /\ LoadStore(w) <=> Unit(n) = "lsu"
         /\ Branch(w) <=> Unit(n) = "branch"
         /\ Mul(w) <=> Unit(n) = "mul"
         /\ Div(w) <=> Unit(n) = "div"
         /\ CsrOp(w) <=> Unit(n) = "csr"
<1>1. CASE n \in DOMAIN ImmediateCodes \cup DOMAIN UpperCodes \cup DOMAIN RegisterCodes
  <2>1. Exec(w)
    BY <1>1 DEF Exec, Is
  <2>2. Unit(n) = "exec"
    BY <1>1, UnitNames
  <2> QED BY <2>1, <2>2, WireFacts
<1>2. CASE n \in DOMAIN BranchCodes
  <2>1. Branch(w)
    BY <1>2 DEF Branch, Is
  <2>2. Unit(n) = "branch"
    BY <1>2, UnitNames
  <2> QED BY <2>1, <2>2, WireFacts
<1>3. CASE n \in DOMAIN MemoryCodes
  <2>1. LoadStore(w)
    BY <1>3 DEF LoadStore, Is
  <2>2. Unit(n) = "lsu"
    BY <1>3, UnitNames
  <2> QED BY <2>1, <2>2, WireFacts
<1>4. CASE n \in {"mul", "mulh", "mulhsu", "mulhu"}
  <2>1. Mul(w)
    BY <1>4 DEF Mul, Is
  <2>2. Unit(n) = "mul"
    BY <1>4, UnitNames
  <2> QED BY <2>1, <2>2, WireFacts DEF WordFields
<1>5. CASE n \in {"div", "divu", "rem", "remu"}
  <2>1. Div(w)
    BY <1>5 DEF Div, Is
  <2>2. Unit(n) = "div"
    BY <1>5, UnitNames
  <2> QED BY <2>1, <2>2, WireFacts DEF WordFields
<1>6. CASE n \in DOMAIN SystemCodes \cup DOMAIN CsrCodes \cup DOMAIN WaitCodes
  <2>1. Unit(n) = "csr"
    BY <1>6, UnitNames
  <2>2. CASE n \in {"mret", "sret"}
    BY <2>1, <2>2, WireFacts, SystemMatch DEF CsrOp
  <2>3. CASE n \notin {"mret", "sret"}
    <3>1. CsrOp(w)
      BY <1>6, <2>3, SystemNames DEF CsrOp, Is
    <3> QED BY <2>1, <3>1, WireFacts
  <2> QED BY <2>2, <2>3
<1> QED BY <1>1, <1>2, <1>3, <1>4, <1>5, <1>6, MultiplyNames DEF Names

(* A word that is no instruction goes to no unit but the one of CSRs. *)
LEMMA NoneMatches ==
  ASSUME NEW w \in WordFields, \A n \in Names : ~ Matches(w, Encoding[n])
  PROVE  /\ ~ Exec(w) /\ ~ LoadStore(w) /\ ~ Branch(w) /\ ~ Mul(w) /\ ~ Div(w)
         /\ ~ RdValid(w)
         /\ CsrOp(w) <=> Matches(w, Eret)
<1>1. ~ Exec(w) /\ ~ LoadStore(w) /\ ~ Branch(w)
  BY DEF Exec, LoadStore, Branch, Is, Names
<1>2. ~ Mul(w) /\ ~ Div(w)
  BY MultiplyNames DEF Mul, Div, Is, Names
<1>3. ~ RdValid(w)
  BY BranchNames, MemoryNames DEF RdValid, Is, Names
<1>4. CsrOp(w) <=> Matches(w, Eret)
  BY SystemNames DEF CsrOp, Is, Names
<1> QED BY <1>1, <1>2, <1>3, <1>4

(* The core writes a register for what is not a branch, a store or a fence. *)
LEMMA RdFacts ==
  ASSUME NEW w \in WordFields, NEW n \in Names, Matches(w, Encoding[n]), n = First(w),
         n \in {"fence", "ifence"} => w.rd = 0, w.rd # 0
  PROVE  RdValid(w) <=> n \notin CondBranches \cup Stores
<1>1. CASE n \in CondBranches
  <2>1. ASSUME NEW m \in {"jalr", "jal"} PROVE ~ Matches(w, Encoding[m])
    BY <1>1, BranchMatch DEF CondBranches
  <2>2. w.op = 99
    BY <1>1, BranchMatch DEF CondBranches
  <2> QED BY <1>1, <2>1, <2>2, TableMatch, MemoryNames DEF RdValid, Is
<1>2. CASE n \in Stores
  <2>1. ASSUME NEW m \in {"lb", "lh", "lw", "lbu", "lhu", "lwu"} PROVE ~ Matches(w, Encoding[m])
    BY <1>2, MemoryMatch DEF Stores
  <2>2. w.op = 35
    BY <1>2, MemoryMatch DEF Stores
  <2> QED BY <1>2, <2>1, <2>2, TableMatch, BranchNames DEF RdValid, Is
<1>3. CASE n \in DOMAIN SystemCodes \cup DOMAIN WaitCodes
  BY <1>3, SystemMatch, SystemNames, WaitNames
<1>4. CASE n \notin CondBranches \cup Stores \cup DOMAIN SystemCodes \cup DOMAIN WaitCodes
  BY <1>4, BranchNames, MemoryNames DEF RdValid, Is, Names, CondBranches, Stores
<1> QED BY <1>1, <1>2, <1>3, <1>4

(* Who takes a word, and who takes a fetch fault. *)
LEMMA UnitsFacts ==
  ASSUME NEW w
  PROVE  /\ Units(w, FALSE) \subseteq {"exec", "lsu", "branch", "mul", "div", "csr"}
         /\ "exec" \in Units(w, FALSE) <=> Exec(w)
         /\ "lsu" \in Units(w, FALSE) <=> LoadStore(w)
         /\ "branch" \in Units(w, FALSE) <=> Branch(w)
         /\ "mul" \in Units(w, FALSE) <=> Mul(w)
         /\ "div" \in Units(w, FALSE) <=> Div(w)
         /\ "csr" \in Units(w, FALSE) <=> CsrOp(w) \/ Invalid(w)
BY DEF Units

(* A fetch fault shows the units a word of zeros. *)
LEMMA FaultFacts ==
  ASSUME NEW w
  PROVE  /\ Units(w, TRUE) \subseteq {"exec", "lsu", "branch", "mul", "div", "csr"}
         /\ "exec" \in Units(w, TRUE) <=> Exec(NoWord)
         /\ "lsu" \in Units(w, TRUE) <=> LoadStore(NoWord)
         /\ "branch" \in Units(w, TRUE) <=> Branch(NoWord)
         /\ "mul" \in Units(w, TRUE) <=> Mul(NoWord)
         /\ "div" \in Units(w, TRUE) <=> Div(NoWord)
         /\ "csr" \in Units(w, TRUE)
BY DEF Units

(* Core and simulator take a word for the same instruction. *)
LEMMA DecodeFacts ==
  ASSUME NEW w \in WordFields, MulDiv = TRUE, Executes(w) \in Fences => w.rd = 0
  PROVE  /\ Units(w, TRUE) = {"csr"}
         /\ Invalid(w) = (Executes(w) = "illegal" /\ ~ Matches(w, Eret))
         /\ Units(w, FALSE) = {Unit(Executes(w))}
         /\ (RdValid(w) /\ w.rd # 0) = WritesRd(w)
<1>1. Units(w, TRUE) = {"csr"}
  <2>1. NoWord \in WordFields /\ NoWord.op = 0
    BY DEF NoWord, WordFields
  <2>2. ~ Exec(NoWord) /\ ~ LoadStore(NoWord) /\ ~ Branch(NoWord) /\ ~ Mul(NoWord) /\ ~ Div(NoWord)
    BY <2>1, WireFacts
  <2>3. \A u \in {"exec", "lsu", "branch", "mul", "div", "csr"} :
          u \in Units(w, TRUE) <=> u = "csr"
    BY <2>2, FaultFacts
  <2>4. Units(w, TRUE) \subseteq {"exec", "lsu", "branch", "mul", "div", "csr"}
    BY FaultFacts
  <2> QED BY <2>3, <2>4
<1>2. Invalid(w) <=> ~ (Exec(w) \/ LoadStore(w) \/ Branch(w) \/ Mul(w) \/ Div(w) \/ CsrOp(w))
  BY DEF Invalid
<1>3. CASE First(w) = "illegal" /\ \A n \in Names : ~ Matches(w, Encoding[n])
  <2>1. Invalid(w) <=> ~ Matches(w, Eret)
    BY <1>2, <1>3, NoneMatches
  <2>2. Units(w, FALSE) = {"csr"}
    <3>1. \A u \in {"exec", "lsu", "branch", "mul", "div", "csr"} :
            u \in Units(w, FALSE) <=> u = "csr"
      BY <1>2, <1>3, NoneMatches, UnitsFacts
    <3>2. Units(w, FALSE) \subseteq {"exec", "lsu", "branch", "mul", "div", "csr"}
      BY UnitsFacts
    <3> QED BY <3>1, <3>2
  <2>3. Unit("illegal") = "csr"
    BY ImmediateNames, UpperNames, RegisterNames, BranchNames, MemoryNames, MultiplyNames
    DEF Unit, DivisionNames
  <2>4. ~ RdValid(w) /\ ~ WritesRd(w)
    BY <1>3, NoneMatches, ExecutesFirst DEF WritesRd
  <2>5. Executes(w) = "illegal"
    BY <1>3, ExecutesFirst
  <2>6. Invalid(w) = (Executes(w) = "illegal" /\ ~ Matches(w, Eret))
    BY <2>1, <2>5 DEF Invalid, Matches
  <2>7. (RdValid(w) /\ w.rd # 0) = WritesRd(w)
    BY <2>4 DEF RdValid, WritesRd
  <2> QED BY <1>1, <2>2, <2>3, <2>5, <2>6, <2>7
<1>4. CASE First(w) \in Names /\ Matches(w, Encoding[First(w)])
  <2>1. Executes(w) = First(w) /\ First(w) # "illegal"
    BY <1>4, ExecutesFirst, ImmediateNames, UpperNames, RegisterNames, BranchNames, MemoryNames,
       SystemNames, CsrNames, MultiplyNames, WaitNames DEF Names
  <2>2. Unit(First(w)) \in {"exec", "lsu", "branch", "mul", "div", "csr"}
    BY <1>4, UnitNames, MultiplyNames DEF Names
  <2>3. ~ Invalid(w)
    BY <1>2, <1>4, <2>2, UnitFacts
  <2>4. Units(w, FALSE) = {Unit(First(w))}
    <3>1. \A u \in {"exec", "lsu", "branch", "mul", "div", "csr"} :
            u \in Units(w, FALSE) <=> u = Unit(First(w))
      BY <1>4, <2>3, UnitFacts, UnitsFacts
    <3>2. Units(w, FALSE) \subseteq {"exec", "lsu", "branch", "mul", "div", "csr"}
      BY UnitsFacts
    <3> QED BY <2>2, <3>1, <3>2
  <2>5. w.rd # 0 => (RdValid(w) <=> First(w) \notin CondBranches \cup Stores)
    BY <1>4, <2>1, RdFacts DEF Fences
  <2>6. (RdValid(w) /\ w.rd # 0) = WritesRd(w)
    BY <2>1, <2>5 DEF WritesRd
  <2>7. Invalid(w) = (Executes(w) = "illegal" /\ ~ Matches(w, Eret))
    BY <2>1, <2>3 DEF Invalid
  <2> QED BY <1>1, <2>1, <2>4, <2>6, <2>7
<1> QED BY <1>3, <1>4, FirstFacts

---------------------------------------------------------------------------
(* What the units show is what they make of what they were given.          *)

(* The units were given a word, an operation or an access. *)
Decoding(w, fault) ==
  /\ now = [kind |-> "word", word |-> w, fault |-> fault]
  /\ core = [units |-> Units(w, fault), invalid |-> Invalid(w),
             rdValid |-> RdValid(w), imm |-> RtlImmediates(w)]

Operating(op, a, b, imm, pc) ==
  /\ now = [kind |-> "op", op |-> op, a |-> a, b |-> b, imm |-> imm, pc |-> pc]
  /\ core = [result |-> IF op \in DOMAIN MultiplyCodes THEN MulResult(op, a, b)
                        ELSE AluResult(op, a, b, imm, pc),
             pcx    |-> NextPc(op, a, b, imm, pc)]

Accessing(op, addr, memory, data) ==
  /\ now = [kind |-> "access", op |-> op, addr |-> addr, memory |-> memory, data |-> data]
  /\ core = [fault  |-> Unaligned(op, addr),
             memory |-> [memory EXCEPT ![addr \div 4] =
                           [l \in Lane |-> IF l \in Strobe(op, addr)
                                           THEN StoreData(op, addr, data)[l] ELSE @[l]]],
             result |-> IF op \in Stores \/ Unaligned(op, addr) THEN Nothing
                        ELSE LoadResult(op, addr, memory[addr \div 4])]

(* The invariant. *)
CoreShows ==
  \/ now = Idle
  \/ \E w \in Words, fault \in BOOLEAN : Used(w) /\ Decoding(w, fault)
  \/ \E op \in Operations : \E x \in Operands(op) : Operating(op, x.a, x.b, x.imm, x.pc)
  \/ \E op \in DOMAIN MemoryCodes, addr \in 0 .. 7, memory \in Memories, data \in Stored :
       Accessing(op, addr, memory, data)

(* At any time the units show what the decoder, the ALU and the branches,  *)
(* or the byte lanes make of the last thing they were given, or nothing.   *)
THEOREM CoreShowsInvariant == ExecuteSpec => []CoreShows
<1>1. ExecuteInit => CoreShows
  BY DEF ExecuteInit, CoreShows
<1>2. CoreShows /\ [ExecuteNext]_executeVars => CoreShows'
  <2> SUFFICES ASSUME CoreShows, [ExecuteNext]_executeVars PROVE CoreShows'
    OBVIOUS
  <2>1. ASSUME NEW w \in Words, NEW fault \in BOOLEAN, Decode(w, fault) PROVE CoreShows'
    BY <2>1 DEF Decode, CoreShows, Decoding
  <2>2. ASSUME NEW op \in Operations, NEW x \in Operands(op), Operate(op, x.a, x.b, x.imm, x.pc)
        PROVE  CoreShows'
    <3>1. Operating(op, x.a, x.b, x.imm, x.pc)'
      BY <2>2 DEF Operate, Operating
    <3> QED BY <3>1 DEF CoreShows
  <2>3. ASSUME NEW op \in DOMAIN MemoryCodes, NEW addr \in 0 .. 7, NEW memory \in Memories,
               NEW data \in Stored, AccessMemory(op, addr, memory, data)
        PROVE  CoreShows'
    <3>1. Accessing(op, addr, memory, data)'
      BY <2>3 DEF AccessMemory, Accessing
    <3> QED BY <3>1 DEF CoreShows
  <2>4. CASE Retire
    BY <2>4 DEF Retire, CoreShows
  <2>5. CASE UNCHANGED <<now, core>>
    BY <2>5 DEF CoreShows, Decoding, Operating, Accessing
  <2> QED BY <2>1, <2>2, <2>3, <2>4, <2>5
          DEF ExecuteNext, executeVars, StartDivision, DivisionStep
<1> QED BY <1>1, <1>2, PTL DEF ExecuteSpec

---------------------------------------------------------------------------
(* The decoders.                                                           *)

(* The ranges of the fields of a word. *)
LEMMA FieldRanges ==
  ASSUME NEW w \in WordFields
  PROVE  /\ w.f7 \in 0 .. 127 /\ w.rs2 \in 0 .. 31 /\ w.rs1 \in 0 .. 31
         /\ w.f3 \in 0 .. 7 /\ w.rd \in 0 .. 31 /\ w.op \in 0 .. 127
BY DEF WordFields

(* The sums of the two long immediates, with their powers of two written   *)
(* out.                                                                    *)
LEMMA JumpSum ==
  ASSUME NEW sign \in Int, NEW low \in Int, NEW f3 \in Int, NEW rs1 \in Int,
         NEW even \in Int, NEW odd \in Int
  PROVE  (-sign) * 1048576 + rs1 * 32768 + f3 * 4096 + odd * 2048 + low * 32 + even * 2
           = even * 2 + low * 32 + odd * 2048 + (f3 + rs1 * 8) * 4096 - sign * 1048576
BY SMT

LEMMA UpperSum ==
  ASSUME NEW sign \in Int, NEW low \in Int, NEW f7 \in Int, f7 = 64 * sign + low, NEW f3 \in Int,
         NEW rs1 \in Int, NEW rs2 \in Int
  PROVE  (-sign) * 524288 + low * 8192 + rs2 * 256 + rs1 * 8 + f3
           = f3 + rs1 * 8 + rs2 * 256 + f7 * 8192 - sign * 1048576
BY SMT

(* The immediates of the core are those of the simulator. *)
LEMMA ImmediateFacts ==
  ASSUME NEW w \in WordFields
  PROVE  RtlImmediates(w) =
           [imm12 |-> TypeI(w), bimm |-> TypeSB(w), jimm20 |-> TypeUJ(w), imm20 |-> TypeU(w),
            store |-> TypeS(w), shamt |-> Shamt(w) % 32]
<1> DEFINE sign == SignBit(w)
           low == w.f7 % 64
<1>1. sign \in {0, 1} /\ low \in 0 .. 63 /\ w.f7 = 64 * sign + low
  BY FieldRanges DEF SignBit
<1>2. (-sign) * 2^11 + low * 2^5 + w.rs2 = TypeI(w)
  BY <1>1, FieldRanges DEF TypeI
<1>3. (-sign) * 2^12 + (w.rd % 2) * 2^11 + low * 2^5 + (w.rd \div 2) * 2 = TypeSB(w)
  BY <1>1, FieldRanges DEF TypeSB
<1>4. (-sign) * 2^20 + w.rs1 * 2^15 + w.f3 * 2^12 + (w.rs2 % 2) * 2^11 + low * 2^5
        + (w.rs2 \div 2) * 2 = TypeUJ(w)
  <2>1. 2^20 = 1048576 /\ 2^15 = 32768 /\ 2^12 = 4096 /\ 2^11 = 2048 /\ 2^5 = 32 /\ 2^3 = 8
    BY SMT
  <2>2. w.rs2 \div 2 \in Int /\ w.rs2 % 2 \in Int
    BY FieldRanges
  <2>3. TypeUJ(w) = (w.rs2 \div 2) * 2 + low * 32 + (w.rs2 % 2) * 2048 + (w.f3 + w.rs1 * 8) * 4096
                     - sign * 1048576
    BY <2>1, SMT DEF TypeUJ
  <2>4. (-sign) * 1048576 + w.rs1 * 32768 + w.f3 * 4096 + (w.rs2 % 2) * 2048 + low * 32
          + (w.rs2 \div 2) * 2
          = (w.rs2 \div 2) * 2 + low * 32 + (w.rs2 % 2) * 2048 + (w.f3 + w.rs1 * 8) * 4096
              - sign * 1048576
    <3> HIDE DEF sign, low
    <3> QED BY <1>1, <2>2, FieldRanges, JumpSum, SMT
  <2> QED BY <2>1, <2>3, <2>4, SMT
<1>5. ((-sign) * 2^19 + low * 2^13 + w.rs2 * 2^8 + w.rs1 * 2^3 + w.f3) * 2^12 = TypeU(w)
  <2>1. 2^20 = 1048576 /\ 2^19 = 524288 /\ 2^13 = 8192 /\ 2^12 = 4096 /\ 2^8 = 256 /\ 2^3 = 8
    BY SMT
  <2>2. TypeU(w) = (w.f3 + w.rs1 * 8 + w.rs2 * 256 + w.f7 * 8192 - sign * 1048576) * 4096
    BY <2>1, SMT DEF TypeU
  <2>3. (-sign) * 524288 + low * 8192 + w.rs2 * 256 + w.rs1 * 8 + w.f3
          = w.f3 + w.rs1 * 8 + w.rs2 * 256 + w.f7 * 8192 - sign * 1048576
    <3> HIDE DEF sign, low
    <3>1. w.f7 * 8192 = 524288 * sign + 8192 * low
      BY <1>1, FieldRanges, SMT
    <3>2. sign \in Int /\ low \in Int /\ w.f7 \in Int /\ w.f3 \in Int /\ w.rs1 \in Int /\ w.rs2 \in Int
      BY <1>1, FieldRanges
    <3>3. (-sign) * 524288 = 524288 * sign - sign * 1048576
      BY <3>2, SMT
    <3>4. low * 8192 = 8192 * low
      BY <3>2, SMT
    <3> QED BY <3>1, <3>2, <3>3, <3>4, SMT
  <2> QED BY <2>1, <2>2, <2>3, SMT
<1>6. (-sign) * 2^11 + low * 2^5 + w.rd = TypeS(w)
  BY <1>1, FieldRanges DEF TypeS
<1>7. w.rs2 = Shamt(w) % 32
  BY FieldRanges DEF Shamt
<1> QED BY <1>2, <1>3, <1>4, <1>5, <1>6, <1>7, Zenon DEF RtlImmediates

(* riscv_decoder.v and the chain of riscv.cpp take the same words of 32    *)
(* bits for the same instructions, send each to one unit, write a register *)
(* for the same ones and give them the same immediates.  A core without    *)
(* the multiplier refuses its instructions, and a fence with a register in *)
(* its rd field would have the simulator write it.                         *)
THEOREM DecodersAgreeCorrect ==
  ASSUME MulDiv = TRUE, FenceRd = {0}
  PROVE  ExecuteSpec => []DecodersAgree
<1>1. CoreShows => DecodersAgree
  <2> SUFFICES ASSUME CoreShows, now.kind = "word" PROVE DecodersAgree
    BY DEF DecodersAgree, ImmediatesAgree
  <2>1. PICK w \in Words, fault \in BOOLEAN : Used(w) /\ Decoding(w, fault)
    BY DEF CoreShows, Idle, Operating, Accessing
  <2>2. w \in WordFields
    BY ExecuteAssumption
  <2>3. now.word = w /\ now.fault = fault /\ core.imm = RtlImmediates(w)
    BY <2>1 DEF Decoding
  <2>4. core.units = Units(w, fault) /\ core.invalid = Invalid(w) /\ core.rdValid = RdValid(w)
    BY <2>1 DEF Decoding
  <2>5. ImmediatesAgree
    BY <2>2, <2>3, ImmediateFacts DEF ImmediatesAgree
  <2>6. Executes(w) \in Fences => w.rd = 0
    BY <2>1 DEF Used
  <2> QED BY <2>2, <2>3, <2>4, <2>5, <2>6, DecodeFacts DEF DecodersAgree
<1> QED BY <1>1, CoreShowsInvariant, PTL

---------------------------------------------------------------------------
(* The disassembly.                                                        *)

(* The number with one bit flipped. *)
FlippedBit(x, i) == IF Bit(x, i) = 1 THEN x - 2^i ELSE x + 2^i

(* Flipping a bit keeps a field in its range, and so a word a word. *)
LEMMA FlipFacts ==
  ASSUME NEW x, NEW i
  PROVE  /\ x \in 0 .. 127 /\ i \in 0 .. 6 => FlippedBit(x, i) \in 0 .. 127
         /\ x \in 0 .. 31 /\ i \in 0 .. 4 => FlippedBit(x, i) \in 0 .. 31
         /\ x \in 0 .. 7 /\ i \in 0 .. 2 => FlippedBit(x, i) \in 0 .. 7
<1>1. CASE i = 0
  BY <1>1 DEF FlippedBit, Bit
<1>2. CASE i = 1
  BY <1>2 DEF FlippedBit, Bit
<1>3. CASE i = 2
  BY <1>3 DEF FlippedBit, Bit
<1>4. CASE i = 3
  BY <1>4 DEF FlippedBit, Bit
<1>5. CASE i = 4
  BY <1>5 DEF FlippedBit, Bit
<1>6. CASE i = 5
  BY <1>6 DEF FlippedBit, Bit
<1>7. CASE i = 6
  BY <1>7 DEF FlippedBit, Bit
<1> QED BY <1>1, <1>2, <1>3, <1>4, <1>5, <1>6, <1>7

LEMMA NeighboursAreWords ==
  ASSUME NEW w \in WordFields, NEW v \in Neighbours(w)
  PROVE  v \in WordFields
<1>0. PICK field \in DOMAIN FieldBits : \E i \in 0 .. FieldBits[field] - 1 :
        v = [w EXCEPT ![field] = FlippedBit(@, i)]
  BY DEF Neighbours, FlippedBit
<1>1. PICK i \in 0 .. FieldBits[field] - 1 : v = [w EXCEPT ![field] = FlippedBit(@, i)]
  BY <1>0
<1>2. field \in {"f7", "rs2", "rs1", "f3", "rd", "op"}
  BY DEF FieldBits
<1>3. FlippedBit(w[field], i) \in
        (IF field \in {"f7", "op"} THEN 0 .. 127 ELSE IF field = "f3" THEN 0 .. 7 ELSE 0 .. 31)
  <2>1. CASE field \in {"f7", "op"}
    BY <1>1, <2>1, FieldRanges, FlipFacts DEF FieldBits
  <2>2. CASE field = "f3"
    BY <1>1, <2>2, FieldRanges, FlipFacts DEF FieldBits
  <2>3. CASE field \in {"rs2", "rs1", "rd"}
    BY <1>1, <2>3, FieldRanges, FlipFacts DEF FieldBits
  <2> QED BY <1>2, <2>1, <2>2, <2>3
<1> QED BY <1>1, <1>2, <1>3 DEF WordFields

(* Every line begins with a name of its own, but for the fences. *)
LEMMA MnemonicFacts ==
  ASSUME NEW n \in Names \cup {"illegal"}, NEW m \in Names \cup {"illegal"},
         Mnemonic(n) = Mnemonic(m)
  PROVE  n = m \/ (n \in Fences /\ m \in Fences)
<1> DEFINE own == (Names \ Fences) \ DOMAIN CsrCodes
<1>1. \A o \in own : Mnemonic(o) = o
  BY CsrNames, ImmediateNames, UpperNames, RegisterNames, BranchNames, MemoryNames, SystemNames,
     MultiplyNames, WaitNames DEF Mnemonic, Fences, Names
<1>2. \A o \in Fences : Mnemonic(o) = "sfence"
  BY DEF Mnemonic, Fences
<1>3. Mnemonic("illegal") = "invalid!"
  BY DEF Mnemonic, Fences
<1>4. /\ Mnemonic("csrrw") = "csrw" /\ Mnemonic("csrrs") = "csrs" /\ Mnemonic("csrrc") = "csrc"
      /\ Mnemonic("csrrwi") = "csrwi" /\ Mnemonic("csrrsi") = "csrsi" /\ Mnemonic("csrrci") = "csrci"
  BY DEF Mnemonic, Fences
<1>5. own \cap {"sfence", "invalid!", "csrw", "csrs", "csrc", "csrwi", "csrsi", "csrci"} = {}
  BY CsrNames, ImmediateNames, UpperNames, RegisterNames, BranchNames, MemoryNames, SystemNames,
     MultiplyNames, WaitNames DEF Fences, Names
<1>6. n \in own \cup Fences \cup {"illegal"} \cup DOMAIN CsrCodes
  OBVIOUS
<1>7. m \in own \cup Fences \cup {"illegal"} \cup DOMAIN CsrCodes
  OBVIOUS
<1> HIDE DEF own
<1>8. CASE n \in own
  BY <1>1, <1>2, <1>3, <1>4, <1>5, <1>7, <1>8, CsrNames
<1>9. CASE m \in own
  BY <1>1, <1>2, <1>3, <1>4, <1>5, <1>6, <1>9, CsrNames
<1>10. CASE n \notin own /\ m \notin own
  BY <1>2, <1>3, <1>4, <1>6, <1>7, <1>10, CsrNames
<1> QED BY <1>8, <1>9, <1>10

(* What the line of an instruction prints, and what the instruction does.  *)
LEMMA TextFacts ==
  ASSUME NEW w
  PROVE  /\ Text(w)[1] = Mnemonic(First(w))
         /\ First(w) \in DOMAIN ImmediateCodes => Text(w)[2] = ImmediateText(First(w), w)
         /\ First(w) \in DOMAIN UpperCodes => Text(w)[2] = UpperText(w)
         /\ First(w) \in DOMAIN RegisterCodes \cup DOMAIN MultiplyCodes => Text(w)[2] = RegisterText(w)
         /\ First(w) \in DOMAIN BranchCodes => Text(w)[2] = BranchText(First(w), w)
         /\ First(w) \in DOMAIN MemoryCodes => Text(w)[2] = MemoryText(First(w), w)
         /\ First(w) \in DOMAIN CsrCodes => Text(w)[2] = CsrText(w)
<1> USE ImmediateNames, UpperNames, RegisterNames, BranchNames, MemoryNames, CsrNames, MultiplyNames
    DEF Text
<1> DEFINE n == First(w)
<1>1. Text(w)[1] = Mnemonic(n)
  OBVIOUS
<1>2. n \in DOMAIN ImmediateCodes => Text(w)[2] = ImmediateText(n, w)
  OBVIOUS
<1>3. n \in DOMAIN UpperCodes => Text(w)[2] = UpperText(w)
  OBVIOUS
<1>4. n \in DOMAIN RegisterCodes \cup DOMAIN MultiplyCodes => Text(w)[2] = RegisterText(w)
  OBVIOUS
<1>5. n \in DOMAIN BranchCodes => Text(w)[2] = BranchText(n, w)
  OBVIOUS
<1>6. n \in DOMAIN MemoryCodes => Text(w)[2] = MemoryText(n, w)
  OBVIOUS
<1>7. n \in DOMAIN CsrCodes => Text(w)[2] = CsrText(w)
  OBVIOUS
<1> HIDE DEF Text
<1> QED BY <1>1, <1>2, <1>3, <1>4, <1>5, <1>6, <1>7

(* The register that the simulator writes, or none. *)
RdWritten(w) == IF WritesRd(w) THEN w.rd ELSE 0

(* Effect, class by class. *)
LEMMA EffectFacts ==
  ASSUME NEW w
  PROVE  /\ Executes(w) \in Fences => Effect(w) = <<"fence", RdWritten(w)>>
         /\ Executes(w) \in ShiftImmediates =>
              Effect(w) = <<Executes(w), RdWritten(w), w.rs1, Shamt(w) % 32>>
         /\ Executes(w) \in DOMAIN ImmediateCodes \ ShiftImmediates =>
              Effect(w) = <<Executes(w), RdWritten(w), w.rs1, TypeI(w)>>
         /\ Executes(w) \in DOMAIN UpperCodes => Effect(w) = <<Executes(w), RdWritten(w), TypeU(w)>>
         /\ Executes(w) = "jal" => Effect(w) = <<Executes(w), RdWritten(w), TypeUJ(w)>>
         /\ Executes(w) \in CondBranches => Effect(w) = <<Executes(w), w.rs1, w.rs2, TypeSB(w)>>
         /\ Executes(w) \in Stores => Effect(w) = <<Executes(w), w.rs1, w.rs2, TypeS(w)>>
         /\ Executes(w) \in DOMAIN MemoryCodes \ Stores =>
              Effect(w) = <<Executes(w), RdWritten(w), w.rs1, TypeI(w)>>
         /\ Executes(w) \in DOMAIN CsrCodes =>
              Effect(w) = <<Executes(w), RdWritten(w), w.rs1, TypeI(w)>>
         /\ Executes(w) \in DOMAIN RegisterCodes \cup DOMAIN MultiplyCodes =>
              Effect(w) = <<Executes(w), RdWritten(w), w.rs1, w.rs2>>
         /\ Executes(w) \in (DOMAIN SystemCodes \ Fences) \cup DOMAIN WaitCodes \cup {"illegal"} =>
              Effect(w) = <<Executes(w)>>
<1> USE ImmediateNames, UpperNames, RegisterNames, BranchNames, MemoryNames, SystemNames, CsrNames,
        MultiplyNames, WaitNames DEF Effect, Fences, ShiftImmediates, CondBranches, Stores
<1> DEFINE n == Executes(w)
           rd == RdWritten(w)
<1> USE DEF RdWritten
<1>1. n \in Fences => Effect(w) = <<"fence", rd>>
  OBVIOUS
<1>2. n \in ShiftImmediates => Effect(w) = <<n, rd, w.rs1, Shamt(w) % 32>>
  OBVIOUS
<1>3. n \in DOMAIN ImmediateCodes \ ShiftImmediates => Effect(w) = <<n, rd, w.rs1, TypeI(w)>>
  OBVIOUS
<1>4. n \in DOMAIN UpperCodes => Effect(w) = <<n, rd, TypeU(w)>>
  OBVIOUS
<1>5. n = "jal" => Effect(w) = <<n, rd, TypeUJ(w)>>
  OBVIOUS
<1>6. n \in CondBranches => Effect(w) = <<n, w.rs1, w.rs2, TypeSB(w)>>
  OBVIOUS
<1>7. n \in Stores => Effect(w) = <<n, w.rs1, w.rs2, TypeS(w)>>
  OBVIOUS
<1>8. n \in DOMAIN MemoryCodes \ Stores => Effect(w) = <<n, rd, w.rs1, TypeI(w)>>
  OBVIOUS
<1>9. n \in DOMAIN CsrCodes => Effect(w) = <<n, rd, w.rs1, TypeI(w)>>
  OBVIOUS
<1>10. n \in DOMAIN RegisterCodes \cup DOMAIN MultiplyCodes => Effect(w) = <<n, rd, w.rs1, w.rs2>>
  OBVIOUS
<1>11. n \in (DOMAIN SystemCodes \ Fences) \cup DOMAIN WaitCodes \cup {"illegal"} =>
         Effect(w) = <<n>>
  OBVIOUS
<1> HIDE DEF RdWritten, Effect, Fences, ShiftImmediates, CondBranches, Stores
<1> QED BY <1>1, <1>2, <1>3, <1>4, <1>5, <1>6, <1>7, <1>8, <1>9, <1>10, <1>11

(* Two words of one line do the same. *)
LEMMA TextTells ==
  ASSUME NEW w \in WordFields, NEW v \in WordFields, Text(w) = Text(v),
         Executes(w) \in Fences => w.rd = 0, Executes(v) \in Fences => v.rd = 0
  PROVE  Effect(w) = Effect(v) \/ Text(w)[1] = "jalr"
<1>1. PICK n, m : /\ n = First(w) /\ n = Executes(w) /\ n \in Names \cup {"illegal"}
                  /\ m = First(v) /\ m = Executes(v) /\ m \in Names \cup {"illegal"}
  BY ExecutesFirst, FirstFacts
<1>2. n = m \/ (n \in Fences /\ m \in Fences)
  BY <1>1, <1>1, TextFacts, MnemonicFacts
<1>3. CASE n \in Fences
  <2>1. RdWritten(w) = 0 /\ RdWritten(v) = 0
    BY <1>1, <1>2, <1>3 DEF RdWritten
  <2> QED BY <1>1, <1>2, <1>3, <2>1, EffectFacts
<1>4. ASSUME n = m, w.rd = v.rd
      PROVE  RdWritten(w) = RdWritten(v)
  BY <1>1, <1>4 DEF WritesRd, RdWritten
<1>5. CASE n = m /\ n \in DOMAIN ImmediateCodes
  <2>1. ImmediateText(n, w) = ImmediateText(n, v)
    BY <1>1, <1>5, TextFacts
  <2>2. /\ w.rd = v.rd /\ w.rs1 = v.rs1
        /\ IF n \in ShiftImmediates THEN Shamt(w) = Shamt(v) ELSE TypeI(w) = TypeI(v)
    BY <2>1 DEF ImmediateText
  <2> QED BY <1>1, <1>4, <1>5, <2>2, EffectFacts
<1>6. CASE n = m /\ n \in DOMAIN UpperCodes
  <2>1. UpperText(w) = UpperText(v)
    BY <1>1, <1>6, TextFacts
  <2>2. w.rd = v.rd /\ TypeU(w) = TypeU(v)
    BY <2>1 DEF UpperText
  <2> QED BY <1>1, <1>4, <1>6, <2>2, EffectFacts
<1>7. CASE n = m /\ n \in DOMAIN RegisterCodes \cup DOMAIN MultiplyCodes
  <2>1. RegisterText(w) = RegisterText(v)
    BY <1>1, <1>7, TextFacts
  <2>2. w.rd = v.rd /\ w.rs1 = v.rs1 /\ w.rs2 = v.rs2
    BY <2>1 DEF RegisterText
  <2> QED BY <1>1, <1>4, <1>7, <2>2, EffectFacts
<1>8. CASE n = m /\ n = "jalr"
  <2>1. n \notin Fences /\ Mnemonic(n) = "jalr"
    BY <1>8 DEF Mnemonic, Fences
  <2> QED BY <1>1, <1>8, <2>1, TextFacts
<1>9. CASE n = m /\ n = "jal"
  <2>1. BranchText(n, w) = BranchText(n, v)
    BY <1>1, <1>9, TextFacts, BranchNames
  <2>2. w.rd = v.rd /\ TypeUJ(w) = TypeUJ(v)
    BY <1>9, <2>1 DEF BranchText
  <2> QED BY <1>1, <1>4, <1>9, <2>2, EffectFacts
<1>10. CASE n = m /\ n \in CondBranches
  <2>1. BranchText(n, w) = BranchText(n, v)
    BY <1>1, <1>10, TextFacts, BranchNames DEF CondBranches
  <2>2. w.rs1 = v.rs1 /\ w.rs2 = v.rs2 /\ TypeSB(w) = TypeSB(v)
    BY <1>10, <2>1 DEF BranchText, CondBranches
  <2> QED BY <1>1, <1>10, <2>2, EffectFacts
<1>11. CASE n = m /\ n \in Stores
  <2>1. MemoryText(n, w) = MemoryText(n, v)
    BY <1>1, <1>11, TextFacts, MemoryNames DEF Stores
  <2>2. w.rs1 = v.rs1 /\ w.rs2 = v.rs2 /\ TypeS(w) = TypeS(v)
    BY <1>11, <2>1 DEF MemoryText
  <2> QED BY <1>1, <1>11, <2>2, EffectFacts
<1>12. CASE n = m /\ n \in DOMAIN MemoryCodes \ Stores
  <2>1. MemoryText(n, w) = MemoryText(n, v)
    BY <1>1, <1>12, TextFacts
  <2>2. w.rd = v.rd /\ w.rs1 = v.rs1 /\ TypeI(w) = TypeI(v)
    BY <1>12, <2>1 DEF MemoryText
  <2> QED BY <1>1, <1>4, <1>12, <2>2, EffectFacts
<1>13. CASE n = m /\ n \in DOMAIN CsrCodes
  <2>1. CsrText(w) = CsrText(v)
    BY <1>1, <1>13, TextFacts
  <2>2. w.rd = v.rd /\ w.rs1 = v.rs1 /\ TypeI(w) = TypeI(v)
    BY <2>1 DEF CsrText
  <2> QED BY <1>1, <1>4, <1>13, <2>2, EffectFacts
<1>14. CASE n = m /\ n \in (DOMAIN SystemCodes \ Fences) \cup DOMAIN WaitCodes \cup {"illegal"}
  BY <1>1, <1>14, EffectFacts
<1>15. DOMAIN BranchCodes = {"jal", "jalr"} \cup CondBranches
  BY BranchNames DEF CondBranches
<1> QED BY <1>1, <1>2, <1>3, <1>5, <1>6, <1>7, <1>8, <1>9, <1>10, <1>11, <1>12, <1>13, <1>14, <1>15
        DEF Names

(* riscv_inst_decode prints two words that differ in one bit alike only if *)
(* Riscv::execute does the same for them, jalr apart; any two words, in    *)
(* fact (TextTells).                                                       *)
THEOREM DisassemblyTellsCorrect ==
  ASSUME FenceRd = {0}
  PROVE  ExecuteSpec => []DisassemblyTells
<1>1. CoreShows => DisassemblyTells
  <2> SUFFICES ASSUME CoreShows, now.kind = "word", NEW v \in Neighbours(now.word), Used(v),
                      Text(v) = Text(now.word)
               PROVE  Effect(v) = Effect(now.word) \/ Text(now.word)[1] = "jalr"
    BY DEF DisassemblyTells
  <2>1. PICK w \in Words, fault \in BOOLEAN : Used(w) /\ Decoding(w, fault)
    BY DEF CoreShows, Idle, Operating, Accessing
  <2>2. w \in WordFields /\ now.word = w
    BY <2>1, ExecuteAssumption DEF Decoding
  <2>3. v \in WordFields
    BY <2>2, NeighboursAreWords
  <2>4. (Executes(w) \in Fences => w.rd = 0) /\ (Executes(v) \in Fences => v.rd = 0)
    BY <2>1 DEF Used
  <2> QED BY <2>2, <2>3, <2>4, TextTells
<1> QED BY <1>1, CoreShowsInvariant, PTL

---------------------------------------------------------------------------
(* Loads and stores.                                                       *)

(* The width of an access, and when it is misaligned. *)
LEMMA WidthFacts ==
  ASSUME NEW op \in DOMAIN MemoryCodes
  PROVE  /\ op \in {"lb", "lbu", "sb"} => Width(op) = 1
         /\ op \in {"lh", "lhu", "sh"} => Width(op) = 2
         /\ op \in {"lw", "lwu", "sw"} => Width(op) = 4
BY MemoryNames DEF Width

LEMMA FaultsAgree ==
  ASSUME NEW op \in DOMAIN MemoryCodes, NEW addr \in 0 .. 7
  PROVE  Aborts(op, addr) = Unaligned(op, addr)
<1>1. addr % 1 = 0
  OBVIOUS
<1> QED BY <1>1, WidthFacts, MemoryNames DEF Aborts, Unaligned

(* The lanes of a store that is aligned. *)
LEMMA StrobeFacts ==
  ASSUME NEW op \in DOMAIN MemoryCodes, NEW addr \in 0 .. 7, ~ Unaligned(op, addr)
  PROVE  /\ op \in Stores => Strobe(op, addr) = (addr % 4) .. ((addr % 4) + Width(op) - 1)
         /\ op \notin Stores => Strobe(op, addr) = {}
<1>1. addr % 4 \in {0, 1, 2, 3} /\ (addr % 2 = 0 => addr % 4 \in {0, 2})
  OBVIOUS
<1>2. op \notin Stores => Strobe(op, addr) = {}
  BY MemoryNames DEF Strobe, Stores
<1>3. CASE op = "sw"
  BY <1>1, <1>2, <1>3, WidthFacts DEF Strobe, Unaligned, Lane, Stores
<1>4. CASE op = "sh"
  <2>1. CASE addr % 4 = 2
    <3>1. Strobe(op, addr) = {2, 3}
      BY <1>4, <2>1 DEF Strobe
    <3>2. Width(op) = 2 /\ op \in Stores
      BY <1>4, WidthFacts DEF Stores
    <3>3. {2, 3} = 2 .. (2 + 2 - 1)
      OBVIOUS
    <3> QED BY <2>1, <3>1, <3>2, <3>3
  <2>2. CASE addr % 4 = 0
    <3>1. Strobe(op, addr) = {0, 1}
      BY <1>4, <2>2 DEF Strobe
    <3>2. Width(op) = 2 /\ op \in Stores
      BY <1>4, WidthFacts DEF Stores
    <3>3. {0, 1} = 0 .. (0 + 2 - 1)
      OBVIOUS
    <3> QED BY <2>2, <3>1, <3>2, <3>3
  <2> QED BY <1>1, <1>4, <2>1, <2>2 DEF Unaligned
<1>5. CASE op = "sb"
  BY <1>1, <1>2, <1>5, WidthFacts DEF Strobe, Unaligned, Stores
<1> QED BY <1>2, <1>3, <1>4, <1>5 DEF Stores

(* What a store puts on its lanes. *)
LEMMA StoreFacts ==
  ASSUME NEW op \in Stores, NEW addr \in 0 .. 7, ~ Unaligned(op, addr), NEW data,
         NEW l \in Strobe(op, addr), l \in Lane
  PROVE  StoreData(op, addr, data)[l] = data[l - (addr % 4)]
<1>1. addr % 4 \in {0, 1, 2, 3} /\ (addr % 2 = 0 => addr % 4 \in {0, 2})
  OBVIOUS
<1>2. CASE op = "sw"
  <2>1. addr % 4 = 0 /\ l - 0 = l
    BY <1>2 DEF Unaligned, Lane
  <2> QED BY <1>2, <2>1 DEF StoreData
<1>3. CASE op = "sh"
  <2>1. l % 2 = l - (addr % 4)
    BY <1>1, <1>3, StrobeFacts, WidthFacts, MemoryNames DEF Stores, Unaligned
  <2> QED BY <1>3, <2>1 DEF StoreData
<1>4. CASE op = "sb"
  <2>1. 0 = l - (addr % 4)
    BY <1>1, <1>4, StrobeFacts, WidthFacts, MemoryNames DEF Stores, Unaligned
  <2> QED BY <1>4, <2>1 DEF StoreData
<1> QED BY <1>2, <1>3, <1>4 DEF Stores

(* The bytes that riscv_lsu.v extracts and extends are those of memory.h. *)
LEMMA LoadsAgree ==
  ASSUME NEW op \in DOMAIN MemoryCodes \ Stores, NEW addr \in 0 .. 7, ~ Unaligned(op, addr),
         NEW memory \in [0 .. 1 -> [Lane -> Byte]]
  PROVE  LoadResult(op, addr, memory[addr \div 4]) = SimLoad(op, memory, addr)
<1> DEFINE word == memory[addr \div 4]
<1>1. addr % 4 \in {0, 1, 2, 3} /\ (addr % 2 = 0 => addr % 4 \in {0, 2})
  OBVIOUS
<1>2. addr \div 4 \in 0 .. 1
  OBVIOUS
<1>3. word \in [Lane -> Byte]
  BY <1>2
<1>4. CASE op \in {"lb", "lbu"}
  <2>1. Width(op) = 1 /\ (addr % 4) + 1 - 1 = addr % 4
    BY <1>1, <1>4, WidthFacts
  <2>2. \A l \in Lane : (l < 1 <=> l = 0) /\ (addr % 4) + 0 = addr % 4
    BY <1>1 DEF Lane
  <2>3. SignedLoad(op) <=> op \in {"lb", "lh", "lw"}
    BY DEF SignedLoad
  <2> HIDE DEF word
  <2>4. SimLoad(op, memory, addr) =
          [l \in Lane |-> IF l < 1 THEN word[(addr % 4) + l]
                          ELSE IF SignedLoad(op) /\ word[addr % 4] >= 128 THEN 255 ELSE 0]
    BY <2>1 DEF SimLoad, word
  <2>5. LoadResult(op, addr, word) =
          [l \in Lane |-> IF l = 0 THEN word[addr % 4]
                          ELSE IF op \in {"lb", "lh", "lw"} /\ word[addr % 4] >= 128 THEN 255 ELSE 0]
    BY <1>4 DEF LoadResult
  <2> QED BY <2>2, <2>3, <2>4, <2>5 DEF word
<1>5. CASE op \in {"lh", "lhu"}
  <2>1. Width(op) = 2 /\ (addr % 4) + 2 - 1 = (addr % 4) + 1
    BY <1>1, <1>5, WidthFacts
  <2>2. (IF Bit(addr, 1) = 1 THEN 2 ELSE 0) = addr % 4
    BY <1>1, <1>5 DEF Unaligned, Bit
  <2>3. SignedLoad(op) <=> op \in {"lb", "lh", "lw"}
    BY DEF SignedLoad
  <2> HIDE DEF word
  <2>4. SimLoad(op, memory, addr) =
          [l \in Lane |-> IF l < 2 THEN word[(addr % 4) + l]
                          ELSE IF SignedLoad(op) /\ word[(addr % 4) + 1] >= 128 THEN 255 ELSE 0]
    BY <2>1 DEF SimLoad, word
  <2>5. LoadResult(op, addr, word) =
          [l \in Lane |-> IF l < 2 THEN word[(addr % 4) + l]
                          ELSE IF op \in {"lb", "lh", "lw"} /\ word[(addr % 4) + 1] >= 128 THEN 255
                          ELSE 0]
    BY <1>5, <2>2 DEF LoadResult
  <2> QED BY <2>3, <2>4, <2>5 DEF word
<1>6. CASE op \in {"lw", "lwu"}
  <2>1. Width(op) = 4 /\ addr % 4 = 0
    BY <1>6, WidthFacts DEF Unaligned
  <2>2. \A l \in Lane : l < 4 /\ (addr % 4) + l = l
    BY <2>1 DEF Lane
  <2>3. SimLoad(op, memory, addr) = [l \in Lane |-> word[l]]
    BY <2>1, <2>2 DEF SimLoad
  <2>4. LoadResult(op, addr, word) = word
    BY <1>6 DEF LoadResult
  <2> QED BY <1>3, <2>3, <2>4
<1> QED BY <1>4, <1>5, <1>6, MemoryNames DEF Stores

(* A load or a store has in riscv_lsu.v, with its lanes, strobes and sign  *)
(* extension, the effect it has in memory.h, and faults where that aborts, *)
(* for all contents of memory and all that is stored.                      *)
THEOREM AccessesAgreeCorrect == ExecuteSpec => []AccessesAgree
<1>1. CoreShows => AccessesAgree
  <2> SUFFICES ASSUME CoreShows, now.kind = "access" PROVE AccessesAgree
    BY DEF AccessesAgree
  <2>1. PICK op \in DOMAIN MemoryCodes, addr \in 0 .. 7, memory \in Memories, data \in Stored :
          Accessing(op, addr, memory, data)
    BY DEF CoreShows, Idle, Operating, Decoding
  <2>2. memory \in [0 .. 1 -> [Lane -> Byte]] /\ data \in [Lane -> Byte] /\ addr \div 4 \in 0 .. 1
    BY <2>1, ExecuteAssumption
  <2>3. /\ now.op = op /\ now.addr = addr /\ now.memory = memory /\ now.data = data
        /\ core.fault = Unaligned(op, addr)
        /\ core.memory = [memory EXCEPT ![addr \div 4] =
                             [l \in Lane |-> IF l \in Strobe(op, addr)
                                             THEN StoreData(op, addr, data)[l] ELSE @[l]]]
        /\ core.result = IF op \in Stores \/ Unaligned(op, addr) THEN Nothing
                         ELSE LoadResult(op, addr, memory[addr \div 4])
    BY <2>1 DEF Accessing
  <2>4. ASSUME Strobe(op, addr) = {} PROVE core.memory = memory
    <3>1. [l \in Lane |-> IF l \in Strobe(op, addr)
                          THEN StoreData(op, addr, data)[l] ELSE memory[addr \div 4][l]]
            = memory[addr \div 4]
      BY <2>2, <2>4
    <3> QED BY <2>2, <2>3, <3>1
  <2>5. CASE Unaligned(op, addr)
    <3>1. Strobe(op, addr) = {}
      BY <2>5 DEF Strobe
    <3> QED BY <2>3, <2>4, <2>5, <3>1, FaultsAgree DEF AccessesAgree
  <2>6. CASE ~ Unaligned(op, addr) /\ op \notin Stores
    BY <2>2, <2>3, <2>4, <2>6, FaultsAgree, StrobeFacts, LoadsAgree DEF AccessesAgree
  <2>7. CASE ~ Unaligned(op, addr) /\ op \in Stores
    <3>1. ASSUME NEW l \in Lane
          PROVE  (IF l \in Strobe(op, addr) THEN StoreData(op, addr, data)[l]
                  ELSE memory[addr \div 4][l])
                 = (IF l \in (addr % 4) .. ((addr % 4) + Width(op) - 1) THEN data[l - (addr % 4)]
                    ELSE memory[addr \div 4][l])
      BY <2>7, StrobeFacts, StoreFacts
    <3>2. core.memory = SimStore(op, memory, addr, data)
      BY <2>2, <2>3, <3>1 DEF SimStore
    <3> QED BY <2>3, <2>7, <3>2, FaultsAgree DEF AccessesAgree
  <2> QED BY <2>5, <2>6, <2>7
<1> QED BY <1>1, CoreShowsInvariant, PTL

---------------------------------------------------------------------------
(* Numbers of W bits.                                                      *)

(* Powers of two at the width of a register. *)
LEMMA PowerFacts ==
  /\ W \in Nat /\ 2^W \in Nat /\ 2^(W - 1) \in Nat
  /\ 2^(W - 1) >= 2
  /\ 2^W = 2 * 2^(W - 1)
<1>1. CASE W = 2
  BY <1>1, SMT
<1>2. CASE W = 4
  BY <1>2, SMT
<1>3. CASE W = 8
  BY <1>3, SMT
<1>4. CASE W = 16
  BY <1>4, SMT
<1>5. CASE W = 32
  BY <1>5, SMT
<1> QED BY <1>1, <1>2, <1>3, <1>4, <1>5, WidthAssumption

(* The quotient and the remainder are the only numbers that they can be.   *)
LEMMA DivisionUnique ==
  ASSUME NEW v \in Nat, v > 0, NEW q \in Int, NEW r \in Int, 0 <= r, r < v
  PROVE  (v * q + r) \div v = q /\ (v * q + r) % v = r
BY SMT

LEMMA DivisionFacts ==
  ASSUME NEW x \in Int, NEW v \in Nat, v > 0
  PROVE  /\ x \div v \in Int /\ x % v \in 0 .. v - 1
         /\ x = v * (x \div v) + (x % v)
BY SMT

(* Multiples of the modulus do not count. *)
LEMMA ModuloShift ==
  ASSUME NEW x \in Int, NEW k \in Int, NEW v \in Nat, v > 0
  PROVE  (x + v * k) % v = x % v
<1>1. x \div v \in Int /\ x % v \in 0 .. v - 1 /\ x = v * (x \div v) + (x % v)
  BY DivisionFacts
<1> DEFINE q == x \div v
           r == x % v
<1>2. q \in Int /\ r \in 0 .. v - 1 /\ x = v * q + r
  BY <1>1
<1> HIDE DEF q, r
<1>3. x + v * k = v * (q + k) + r
  BY <1>2, SMT
<1>4. (v * (q + k) + r) % v = r
  BY <1>2, DivisionUnique
<1> QED BY <1>3, <1>4 DEF r

LEMMA WrapFacts ==
  ASSUME NEW x \in Int
  PROVE  /\ Wrap(x) \in Number
         /\ \A k \in Int : Wrap(x + 2^W * k) = Wrap(x)
         /\ \E k \in Int : x = 2^W * k + Wrap(x)
<1>1. 2^W \in Nat /\ 2^W > 0
  BY PowerFacts
<1>2. Wrap(x) \in Number
  BY <1>1, DivisionFacts DEF Wrap, Number
<1>3. \A k \in Int : Wrap(x + 2^W * k) = Wrap(x)
  BY <1>1, ModuloShift DEF Wrap
<1>4. \E k \in Int : x = 2^W * k + Wrap(x)
  BY <1>1, DivisionFacts DEF Wrap
<1> QED BY <1>2, <1>3, <1>4

LEMMA WrapOfNumber ==
  ASSUME NEW x \in Number
  PROVE  Wrap(x) = x /\ x \in Nat
<1>1. 2^W \in Nat /\ x \in 0 .. 2^W - 1
  BY PowerFacts DEF Number
<1> QED BY <1>1 DEF Wrap

(* The sign of a number is its highest bit. *)
LEMMA SignFacts ==
  ASSUME NEW x \in Number
  PROVE  /\ Negative(x) <=> x >= 2^(W - 1)
         /\ Signed(x) = IF x >= 2^(W - 1) THEN x - 2^W ELSE x
         /\ Signed(x) \in -(2^(W - 1)) .. 2^(W - 1) - 1
<1>1. 2^(W - 1) \in Nat /\ 2^(W - 1) > 0 /\ 2^W = 2 * 2^(W - 1) /\ x \in 0 .. 2^W - 1
  BY PowerFacts DEF Number
<1> DEFINE h == 2^(W - 1)
<1>2. h \in Nat /\ h > 0 /\ x \in Nat /\ x < 2 * h
  BY <1>1
<1>3. Negative(x) <=> x >= 2^(W - 1)
  <2> HIDE DEF h
  <2>1. (x \div h) % 2 = 1 <=> x >= h
    <3>1. CASE x < h
      <4>1. x = h * 0 + x
        BY <1>2
      <4>2. x \div h = 0
        BY <1>2, <3>1, <4>1, DivisionUnique
      <4> QED BY <1>2, <3>1, <4>2
    <3>2. CASE x >= h
      <4>1. x = h * 1 + (x - h)
        BY <1>2
      <4>2. x \div h = 1
        BY <1>2, <3>2, <4>1, DivisionUnique
      <4> QED BY <3>2, <4>2
    <3> QED BY <1>2, <3>1, <3>2
  <2> QED BY <2>1 DEF Negative, Bit, h
<1>4. Signed(x) = IF x >= 2^(W - 1) THEN x - 2^W ELSE x
  BY <1>3 DEF Signed
<1>5. Signed(x) \in -(2^(W - 1)) .. 2^(W - 1) - 1
  BY <1>1, <1>4
<1> QED BY <1>3, <1>4, <1>5

(* Comparing by the sign of a difference.                                  *)
LEMMA DifferenceFacts ==
  ASSUME NEW a \in Number, NEW b \in Number
  PROVE  /\ Wrap(a - b) \in Number
         /\ Wrap(a - b) = IF a >= b THEN a - b ELSE a - b + 2^W
<1>1. 2^W \in Nat /\ 2^W > 0 /\ a \in 0 .. 2^W - 1 /\ b \in 0 .. 2^W - 1
  BY PowerFacts DEF Number
<1>2. CASE a >= b
  <2>1. a - b \in Number
    BY <1>1, <1>2 DEF Number
  <2> QED BY <1>2, <2>1, WrapOfNumber
<1>3. CASE a < b
  <2>1. a - b + 2^W \in Number
    BY <1>1, <1>3 DEF Number
  <2>2. Wrap(a - b + 2^W) = a - b + 2^W
    BY <2>1, WrapOfNumber
  <2>3. Wrap((a - b) + 2^W * 1) = Wrap(a - b) /\ (a - b) + 2^W * 1 = a - b + 2^W
    BY <1>1, WrapFacts
  <2> QED BY <1>1, <1>3, <2>1, <2>2, <2>3
<1> QED BY <1>1, <1>2, <1>3

(* less_than_signed of riscv_exec.v, and the same in riscv_alu.v. *)
LEMMA LessFacts ==
  ASSUME NEW a \in Number, NEW b \in Number
  PROVE  /\ Signed(a) < Signed(b) <=>
              IF Negative(a) # Negative(b) THEN Negative(a) ELSE Negative(Wrap(a - b))
         /\ LessThanSigned(a, b) <=> Signed(a) < Signed(b)
         /\ Signed(a) = Signed(b) <=> a = b
         /\ Signed(a) \in Int
<1>1. 2^W = 2 * 2^(W - 1) /\ 2^(W - 1) \in Nat /\ a \in 0 .. 2^W - 1 /\ b \in 0 .. 2^W - 1
  BY PowerFacts DEF Number
<1>2. Signed(a) < Signed(b) <=>
        IF Negative(a) # Negative(b) THEN Negative(a) ELSE Negative(Wrap(a - b))
  <2> DEFINE h == 2^(W - 1)
             d == Wrap(a - b)
  <2>1. h \in Nat /\ 2^W = 2 * h /\ a \in 0 .. 2 * h - 1 /\ b \in 0 .. 2 * h - 1
    BY <1>1
  <2>2. d \in Number /\ d = IF a >= b THEN a - b ELSE a - b + 2 * h
    BY <1>1, DifferenceFacts
  <2>3. /\ Negative(a) <=> a >= h
        /\ Negative(b) <=> b >= h
        /\ Negative(d) <=> d >= h
    BY <2>2, SignFacts
  <2>4. /\ Signed(a) = IF a >= h THEN a - 2 * h ELSE a
        /\ Signed(b) = IF b >= h THEN b - 2 * h ELSE b
    BY <2>1, SignFacts
  <2> HIDE DEF h, d
  <2>5. Negative(a) \in BOOLEAN /\ Negative(b) \in BOOLEAN
    BY DEF Negative
  <2>6. CASE a >= h /\ b >= h
    BY <2>1, <2>2, <2>3, <2>4, <2>5, <2>6 DEF d
  <2>7. CASE a >= h /\ b < h
    BY <2>1, <2>2, <2>3, <2>4, <2>5, <2>7 DEF d
  <2>8. CASE a < h /\ b >= h
    BY <2>1, <2>2, <2>3, <2>4, <2>5, <2>8 DEF d
  <2>9. CASE a < h /\ b < h
    BY <2>1, <2>2, <2>3, <2>4, <2>5, <2>9 DEF d
  <2> QED BY <2>1, <2>6, <2>7, <2>8, <2>9
<1>3. Signed(a) = Signed(b) <=> a = b
  BY <1>1, SignFacts
<1> QED BY <1>1, <1>2, <1>3, SignFacts DEF LessThanSigned

(* A branch is taken in the core if it is in the simulator. *)
LEMMA BranchesAgree ==
  ASSUME NEW op \in CondBranches, NEW a \in Number, NEW b \in Number
  PROVE  BranchTaken(op, a, b) <=> SimTakes(op, a, b)
<1>1. GreaterThanSigned(a, b) <=> Signed(b) < Signed(a)
  BY LessFacts DEF GreaterThanSigned, LessThanSigned
<1>2. CASE op = "bge"
  BY <1>1, <1>2, LessFacts DEF BranchTaken, SimTakes
<1>3. CASE op = "blt"
  BY <1>3, LessFacts DEF BranchTaken, SimTakes
<1>4. CASE op \in {"beq", "bne", "bltu", "bgeu"}
  BY <1>4 DEF BranchTaken, SimTakes
<1> QED BY <1>2, <1>3, <1>4 DEF CondBranches

---------------------------------------------------------------------------
(* Shifts.                                                                 *)

(* Powers of two. *)
Pow(n) == 2^n

LEMMA PowerTable ==
  ASSUME NEW n \in 0 .. 15
  PROVE  /\ Pow(n) \in Nat /\ Pow(n) > 0 /\ Pow(n + 16) = Pow(n) * 65536
         /\ n < 8 => Pow(n + 8) = Pow(n) * 256
         /\ n < 4 => Pow(n + 4) = Pow(n) * 16
         /\ n < 2 => Pow(n + 2) = Pow(n) * 4
         /\ n < 1 => Pow(n + 1) = Pow(n) * 2
<1>1. CASE n = 0
  BY <1>1, SMT DEF Pow
<1>2. CASE n = 1
  BY <1>2, SMT DEF Pow
<1>3. CASE n = 2
  BY <1>3, SMT DEF Pow
<1>4. CASE n = 3
  BY <1>4, SMT DEF Pow
<1>5. CASE n = 4
  BY <1>5, SMT DEF Pow
<1>6. CASE n = 5
  BY <1>6, SMT DEF Pow
<1>7. CASE n = 6
  BY <1>7, SMT DEF Pow
<1>8. CASE n = 7
  BY <1>8, SMT DEF Pow
<1>9. CASE n = 8
  BY <1>9, SMT DEF Pow
<1>10. CASE n = 9
  BY <1>10, SMT DEF Pow
<1>11. CASE n = 10
  BY <1>11, SMT DEF Pow
<1>12. CASE n = 11
  BY <1>12, SMT DEF Pow
<1>13. CASE n = 12
  BY <1>13, SMT DEF Pow
<1>14. CASE n = 13
  BY <1>14, SMT DEF Pow
<1>15. CASE n = 14
  BY <1>15, SMT DEF Pow
<1>16. CASE n = 15
  BY <1>16, SMT DEF Pow
<1> QED BY <1>1, <1>2, <1>3, <1>4, <1>5, <1>6, <1>7, <1>8, <1>9, <1>10,
         <1>11, <1>12, <1>13, <1>14, <1>15, <1>16

(* The places the five stages move by. *)
Steps == {1, 2, 4, 8, 16}

(* Two moves after one another are one. *)
LEMMA PowerSum ==
  ASSUME NEW n \in Steps, NEW r \in 0 .. n - 1
  PROVE  /\ r \in Nat /\ Pow(r) \in Nat /\ Pow(r) > 0 /\ Pow(n) \in Nat /\ Pow(n) > 0
         /\ Pow(r + n) = Pow(r) * Pow(n) /\ Pow(r + n) \in Nat /\ Pow(r + n) > 0
<1>1. r \in 0 .. 15
  BY DEF Steps
<1>2. Pow(1) = 2 /\ Pow(2) = 4 /\ Pow(4) = 16 /\ Pow(8) = 256 /\ Pow(16) = 65536
  BY SMT DEF Pow
<1>3. Pow(r) \in Nat /\ Pow(r) > 0
  BY <1>1, PowerTable
<1>4. Pow(r + n) = Pow(r) * Pow(n)
  <2>1. CASE n = 1
    BY <1>1, <1>2, <2>1, PowerTable, SMT
  <2>2. CASE n = 2
    BY <1>1, <1>2, <2>2, PowerTable, SMT
  <2>3. CASE n = 4
    BY <1>1, <1>2, <2>3, PowerTable, SMT
  <2>4. CASE n = 8
    BY <1>1, <1>2, <2>4, PowerTable, SMT
  <2>5. CASE n = 16
    BY <1>1, <1>2, <2>5, PowerTable, SMT
  <2> QED BY <2>1, <2>2, <2>3, <2>4, <2>5 DEF Steps
<1>5. Pow(n) \in Nat /\ Pow(n) > 0
  BY <1>2, SMT DEF Steps
<1>6. Pow(r) * Pow(n) \in Nat /\ Pow(r) * Pow(n) > 0
  <2> DEFINE x == Pow(r)
             y == Pow(n)
  <2>1. x \in Nat /\ x > 0 /\ y \in Nat /\ y > 0
    BY <1>3, <1>5
  <2> HIDE DEF x, y
  <2>2. x * y \in Nat /\ x * y > 0
    BY <2>1, SMT
  <2> QED BY <2>2 DEF x, y
<1> QED BY <1>1, <1>3, <1>4, <1>5, <1>6

(* A bit of the amount more. *)
LEMMA AmountFacts ==
  ASSUME NEW b \in Nat
  PROVE  /\ b % 1 = 0
         /\ Bit(b, 0) \in {0, 1} /\ b % 2 = (b % 1) + 1 * Bit(b, 0)
         /\ Bit(b, 1) \in {0, 1} /\ b % 4 = (b % 2) + 2 * Bit(b, 1)
         /\ Bit(b, 2) \in {0, 1} /\ b % 8 = (b % 4) + 4 * Bit(b, 2)
         /\ Bit(b, 3) \in {0, 1} /\ b % 16 = (b % 8) + 8 * Bit(b, 3)
         /\ Bit(b, 4) \in {0, 1} /\ b % 32 = (b % 16) + 16 * Bit(b, 4)
<1>1. b % 1 = 0
  BY SMT
<1>2. Bit(b, 0) \in {0, 1} /\ b % 2 = (b % 1) + 1 * Bit(b, 0)
  BY SMT DEF Bit
<1>3. Bit(b, 1) \in {0, 1} /\ b % 4 = (b % 2) + 2 * Bit(b, 1)
  BY SMT DEF Bit
<1>4. Bit(b, 2) \in {0, 1} /\ b % 8 = (b % 4) + 4 * Bit(b, 2)
  BY SMT DEF Bit
<1>5. Bit(b, 3) \in {0, 1} /\ b % 16 = (b % 8) + 8 * Bit(b, 3)
  BY SMT DEF Bit
<1>6. Bit(b, 4) \in {0, 1} /\ b % 32 = (b % 16) + 16 * Bit(b, 4)
  BY SMT DEF Bit
<1> QED BY <1>1, <1>2, <1>3, <1>4, <1>5, <1>6

(* A product may be wrapped before or after. *)
LEMMA WrapTimes ==
  ASSUME NEW z \in Int, NEW p \in Int
  PROVE  Wrap(Wrap(z) * p) = Wrap(z * p)
<1>1. PICK k \in Int : z = 2^W * k + Wrap(z)
  BY WrapFacts
<1>2. 2^W \in Int /\ Wrap(z) \in Int
  BY PowerFacts, WrapFacts DEF Number
<1> DEFINE x == Wrap(z)
           m == 2^W
<1>3. z = m * k + x /\ m \in Int /\ x \in Int
  BY <1>1, <1>2
<1> HIDE DEF x, m
<1>4. z * p = x * p + m * (k * p) /\ x * p \in Int /\ k * p \in Int
  BY <1>3, SMT
<1>5. Wrap(x * p + 2^W * (k * p)) = Wrap(x * p)
  BY <1>4, WrapFacts
<1> QED BY <1>4, <1>5 DEF x, m

(* The number after a shift to the left by r places. *)
LeftMoved(a, r) == Wrap(a * Pow(r))

(* One stage of a shift to the left. *)
LEMMA LeftStage ==
  ASSUME NEW a \in Int, NEW n \in Steps, NEW r \in 0 .. n - 1, NEW bit \in {0, 1}
  PROVE  (IF bit = 1 THEN Wrap(LeftMoved(a, r) * Pow(n)) ELSE LeftMoved(a, r))
           = LeftMoved(a, r + n * bit)
<1>1. r \in Nat /\ n \in Nat /\ Pow(r) \in Nat /\ Pow(n) \in Nat /\ Pow(r + n) = Pow(r) * Pow(n)
  <2>1. n \in Nat
    BY DEF Steps
  <2> QED BY <2>1, PowerSum
<1>2. CASE bit = 0
  <2>1. r + n * bit = r
    BY <1>1, <1>2
  <2> QED BY <1>2, <2>1
<1>3. CASE bit = 1
  <2>1. r + n * bit = r + n
    BY <1>1, <1>3
  <2>2. a * Pow(r) \in Int /\ (a * Pow(r)) * Pow(n) = a * (Pow(r) * Pow(n))
    BY <1>1, SMT
  <2>3. Wrap(Wrap(a * Pow(r)) * Pow(n)) = Wrap((a * Pow(r)) * Pow(n))
    BY <1>1, <2>2, WrapTimes
  <2> QED BY <1>1, <1>3, <2>1, <2>2, <2>3 DEF LeftMoved
<1> QED BY <1>2, <1>3

(* The stages move by the low bits of the amount together. *)
LEMMA ShiftLeftIs ==
  ASSUME NEW a \in Number, NEW b \in Number
  PROVE  ShiftLeft(a, b) = LeftMoved(a, b % W)
<1> DEFINE s1 == IF Shifts(b, 0) THEN Wrap(a * Pow(1)) ELSE a
           s2 == IF Shifts(b, 1) THEN Wrap(s1 * Pow(2)) ELSE s1
           s3 == IF Shifts(b, 2) THEN Wrap(s2 * Pow(4)) ELSE s2
           s4 == IF Shifts(b, 3) THEN Wrap(s3 * Pow(8)) ELSE s3
           s5 == IF Shifts(b, 4) THEN Wrap(s4 * Pow(16)) ELSE s4
<1>1. 2^0 = 1 /\ 2^1 = 2 /\ 2^2 = 4 /\ 2^3 = 8 /\ 2^4 = 16
  BY SMT
<1>2. ShiftLeft(a, b) = s5
  BY <1>1, Zenon DEF ShiftLeft, Pow
<1>3. a \in Int /\ b \in Nat /\ Wrap(a) = a /\ W \in Nat
  BY WrapOfNumber, PowerFacts
<1>4. LeftMoved(a, b % 1) = a
  <2>1. Pow(0) = 1 /\ a * 1 = a
    BY <1>1, <1>3 DEF Pow
  <2>2. b % 1 = 0
    BY <1>3, AmountFacts
  <2> QED BY <1>3, <2>1, <2>2 DEF LeftMoved
<1>6. 1 < W => s1 = LeftMoved(a, b % 2)
  <2> SUFFICES ASSUME 1 < W PROVE s1 = LeftMoved(a, b % 2)
    OBVIOUS
  <2>1. a = LeftMoved(a, b % 1)
    BY <1>3, <1>4
  <2>2. 1 \in Steps /\ b % 1 \in 0 .. 1 - 1 /\ Bit(b, 0) \in {0, 1}
    BY <1>3, AmountFacts DEF Steps
  <2>3. (IF Bit(b, 0) = 1 THEN Wrap(LeftMoved(a, b % 1) * Pow(1)) ELSE LeftMoved(a, b % 1))
          = LeftMoved(a, (b % 1) + 1 * Bit(b, 0))
    BY <1>3, <2>2, LeftStage
  <2> QED BY <1>1, <1>3, <2>1, <2>3, AmountFacts DEF Shifts
<1> HIDE DEF s1
<1>7. 2 < W => s2 = LeftMoved(a, b % 4)
  <2> SUFFICES ASSUME 2 < W PROVE s2 = LeftMoved(a, b % 4)
    OBVIOUS
  <2>1. s1 = LeftMoved(a, b % 2)
    BY <1>3, <1>6
  <2>2. 2 \in Steps /\ b % 2 \in 0 .. 2 - 1 /\ Bit(b, 1) \in {0, 1}
    BY <1>3, AmountFacts DEF Steps
  <2>3. (IF Bit(b, 1) = 1 THEN Wrap(LeftMoved(a, b % 2) * Pow(2)) ELSE LeftMoved(a, b % 2))
          = LeftMoved(a, (b % 2) + 2 * Bit(b, 1))
    BY <1>3, <2>2, LeftStage
  <2> QED BY <1>1, <1>3, <2>1, <2>3, AmountFacts DEF Shifts
<1> HIDE DEF s2
<1>8. 4 < W => s3 = LeftMoved(a, b % 8)
  <2> SUFFICES ASSUME 4 < W PROVE s3 = LeftMoved(a, b % 8)
    OBVIOUS
  <2>1. s2 = LeftMoved(a, b % 4)
    BY <1>3, <1>7
  <2>2. 4 \in Steps /\ b % 4 \in 0 .. 4 - 1 /\ Bit(b, 2) \in {0, 1}
    BY <1>3, AmountFacts DEF Steps
  <2>3. (IF Bit(b, 2) = 1 THEN Wrap(LeftMoved(a, b % 4) * Pow(4)) ELSE LeftMoved(a, b % 4))
          = LeftMoved(a, (b % 4) + 4 * Bit(b, 2))
    BY <1>3, <2>2, LeftStage
  <2> QED BY <1>1, <1>3, <2>1, <2>3, AmountFacts DEF Shifts
<1> HIDE DEF s3
<1>9. 8 < W => s4 = LeftMoved(a, b % 16)
  <2> SUFFICES ASSUME 8 < W PROVE s4 = LeftMoved(a, b % 16)
    OBVIOUS
  <2>1. s3 = LeftMoved(a, b % 8)
    BY <1>3, <1>8
  <2>2. 8 \in Steps /\ b % 8 \in 0 .. 8 - 1 /\ Bit(b, 3) \in {0, 1}
    BY <1>3, AmountFacts DEF Steps
  <2>3. (IF Bit(b, 3) = 1 THEN Wrap(LeftMoved(a, b % 8) * Pow(8)) ELSE LeftMoved(a, b % 8))
          = LeftMoved(a, (b % 8) + 8 * Bit(b, 3))
    BY <1>3, <2>2, LeftStage
  <2> QED BY <1>1, <1>3, <2>1, <2>3, AmountFacts DEF Shifts
<1> HIDE DEF s4
<1>10. 16 < W => s5 = LeftMoved(a, b % 32)
  <2> SUFFICES ASSUME 16 < W PROVE s5 = LeftMoved(a, b % 32)
    OBVIOUS
  <2>1. s4 = LeftMoved(a, b % 16)
    BY <1>3, <1>9
  <2>2. 16 \in Steps /\ b % 16 \in 0 .. 16 - 1 /\ Bit(b, 4) \in {0, 1}
    BY <1>3, AmountFacts DEF Steps
  <2>3. (IF Bit(b, 4) = 1 THEN Wrap(LeftMoved(a, b % 16) * Pow(16)) ELSE LeftMoved(a, b % 16))
          = LeftMoved(a, (b % 16) + 16 * Bit(b, 4))
    BY <1>3, <2>2, LeftStage
  <2> QED BY <1>1, <1>3, <2>1, <2>3, AmountFacts DEF Shifts
<1> HIDE DEF s5
<1>11. CASE W = 2
  BY <1>1, <1>2, <1>6, <1>11 DEF s2, s3, s4, s5, Shifts
<1>12. CASE W = 4
  BY <1>1, <1>2, <1>7, <1>12 DEF s3, s4, s5, Shifts
<1>13. CASE W = 8
  BY <1>1, <1>2, <1>8, <1>13 DEF s4, s5, Shifts
<1>14. CASE W = 16
  BY <1>1, <1>2, <1>9, <1>14 DEF s5, Shifts
<1>15. CASE W = 32
  BY <1>1, <1>2, <1>10, <1>15 DEF Shifts
<1> QED BY <1>11, <1>12, <1>13, <1>14, <1>15, WidthAssumption

(* A power of two below the width divides 2^W. *)
LEMMA FillFacts ==
  ASSUME NEW n \in Steps, n < W
  PROVE  2^W = Pow(n) * Pow(W - n) /\ Pow(W - n) \in Nat
<1>1. CASE W = 2
  <2>1. CASE n = 1
    BY <1>1, <2>1, SMT DEF Pow
  <2> QED BY <1>1, <2>1 DEF Steps
<1>2. CASE W = 4
  <2>1. CASE n = 1
    BY <1>2, <2>1, SMT DEF Pow
  <2>2. CASE n = 2
    BY <1>2, <2>2, SMT DEF Pow
  <2> QED BY <1>2, <2>1, <2>2 DEF Steps
<1>3. CASE W = 8
  <2>1. CASE n = 1
    BY <1>3, <2>1, SMT DEF Pow
  <2>2. CASE n = 2
    BY <1>3, <2>2, SMT DEF Pow
  <2>3. CASE n = 4
    BY <1>3, <2>3, SMT DEF Pow
  <2> QED BY <1>3, <2>1, <2>2, <2>3 DEF Steps
<1>4. CASE W = 16
  <2>1. CASE n = 1
    BY <1>4, <2>1, SMT DEF Pow
  <2>2. CASE n = 2
    BY <1>4, <2>2, SMT DEF Pow
  <2>3. CASE n = 4
    BY <1>4, <2>3, SMT DEF Pow
  <2>4. CASE n = 8
    BY <1>4, <2>4, SMT DEF Pow
  <2> QED BY <1>4, <2>1, <2>2, <2>3, <2>4 DEF Steps
<1>5. CASE W = 32
  <2>1. CASE n = 1
    BY <1>5, <2>1, SMT DEF Pow
  <2>2. CASE n = 2
    BY <1>5, <2>2, SMT DEF Pow
  <2>3. CASE n = 4
    BY <1>5, <2>3, SMT DEF Pow
  <2>4. CASE n = 8
    BY <1>5, <2>4, SMT DEF Pow
  <2>5. CASE n = 16
    BY <1>5, <2>5, SMT DEF Pow
  <2> QED BY <1>5, <2>1, <2>2, <2>3, <2>4, <2>5 DEF Steps
<1> QED BY <1>1, <1>2, <1>3, <1>4, <1>5, WidthAssumption

(* One division after another. *)
LEMMA DivisionOfDivision ==
  ASSUME NEW x \in Int, NEW p \in Nat, p > 0, NEW q \in Nat, q > 0
  PROVE  (x \div p) \div q = x \div (p * q)
<1> DEFINE y == x \div p
           r == x % p
           z == y \div q
           t == y % q
<1>1. y \in Int /\ r \in 0 .. p - 1 /\ x = p * y + r
  BY DivisionFacts
<1>2. z \in Int /\ t \in 0 .. q - 1 /\ y = q * z + t
  BY <1>1, DivisionFacts
<1> HIDE DEF y, r, z, t
<1>3. p * q \in Nat /\ p * q > 0
  BY SMT
<1>4. p * t + r \in Int /\ 0 <= p * t + r /\ p * t + r < p * q
  <2>1. p * t <= p * (q - 1)
    BY <1>2, SMT
  <2>2. p * (q - 1) = p * q - p
    BY SMT
  <2>3. 0 <= p * t /\ p * t \in Int
    BY <1>2, SMT
  <2> QED BY <1>1, <1>3, <2>1, <2>2, <2>3
<1>5. x = (p * q) * z + (p * t + r)
  <2>1. p * (q * z + t) = (p * q) * z + p * t
    BY <1>2, SMT
  <2> QED BY <1>1, <1>2, <2>1, SMT
<1>6. x \div (p * q) = z
  BY <1>2, <1>3, <1>4, <1>5, DivisionUnique
<1> QED BY <1>6 DEF y, z

LEMMA DivisionShift ==
  ASSUME NEW x \in Int, NEW k \in Int, NEW v \in Nat, v > 0
  PROVE  (v * k + x) \div v = k + (x \div v)
<1> DEFINE q == x \div v
           r == x % v
<1>1. q \in Int /\ r \in 0 .. v - 1 /\ x = v * q + r
  BY DivisionFacts
<1> HIDE DEF q, r
<1>2. v * k + x = v * (k + q) + r
  BY <1>1, SMT
<1>3. (v * (k + q) + r) \div v = k + q
  BY <1>1, DivisionUnique
<1> QED BY <1>2, <1>3 DEF q

(* The number after a shift to the right by r places. *)
RightMoved(a, arithmetic, r) ==
  IF arithmetic /\ Negative(a) THEN 2^W + ((a - 2^W) \div Pow(r)) ELSE a \div Pow(r)

(* What comes in from the left. *)
Fill(a, arithmetic, n) == IF arithmetic /\ Negative(a) THEN 2^W - Pow(W - n) ELSE 0

(* One stage of a shift to the right. *)
LEMMA RightStage ==
  ASSUME NEW a \in Int, NEW arithmetic \in BOOLEAN, NEW n \in Steps, n < W, NEW r \in 0 .. n - 1,
         NEW bit \in {0, 1}
  PROVE  (IF bit = 1 THEN Fill(a, arithmetic, n) + (RightMoved(a, arithmetic, r) \div Pow(n))
          ELSE RightMoved(a, arithmetic, r))
           = RightMoved(a, arithmetic, r + n * bit)
<1>1. /\ r \in Nat /\ n \in Nat /\ Pow(r) \in Nat /\ Pow(n) \in Nat
      /\ Pow(r + n) = Pow(r) * Pow(n) /\ Pow(r) > 0 /\ Pow(n) > 0
  <2>1. n \in Nat
    BY DEF Steps
  <2> QED BY <2>1, PowerSum
<1>2. CASE bit = 0
  <2>1. r + n * bit = r
    BY <1>1, <1>2
  <2> QED BY <1>2, <2>1
<1>3. CASE bit = 1
  <2>1. r + n * bit = r + n
    BY <1>1, <1>3
  <2>2. CASE arithmetic /\ Negative(a)
    <3> DEFINE t == (a - 2^W) \div Pow(r)
               k == Pow(W - n)
               m == 2^W
    <3>1. m \in Nat /\ a - m \in Int
      BY PowerFacts
    <3>2. t \in Int
      BY <1>1, <3>1, DivisionFacts
    <3>3. m = Pow(n) * k /\ k \in Nat
      BY FillFacts
    <3>4. t \div Pow(n) = (a - m) \div (Pow(r) * Pow(n)) /\ t \div Pow(n) \in Int
      BY <1>1, <3>1, <3>2, DivisionOfDivision, DivisionFacts
    <3>5. (Pow(n) * k + t) \div Pow(n) = k + (t \div Pow(n))
      <4> HIDE DEF t, k
      <4> QED BY <1>1, <3>2, <3>3, DivisionShift
    <3>6. RightMoved(a, arithmetic, r) = m + t /\ Fill(a, arithmetic, n) = m - k
      BY <2>2 DEF RightMoved, Fill
    <3>7. RightMoved(a, arithmetic, r + n) = m + (t \div Pow(n))
      BY <1>1, <2>2, <3>4 DEF RightMoved
    <3> HIDE DEF t, k, m
    <3>8. (m - k) + ((m + t) \div Pow(n)) = m + (t \div Pow(n))
      BY <3>1, <3>3, <3>4, <3>5
    <3> QED BY <1>3, <2>1, <3>6, <3>7, <3>8
  <2>3. CASE ~ (arithmetic /\ Negative(a))
    <3>1. (a \div Pow(r)) \div Pow(n) = a \div Pow(r + n) /\ (a \div Pow(r)) \div Pow(n) \in Int
      BY <1>1, DivisionOfDivision, DivisionFacts
    <3> QED BY <1>3, <2>1, <2>3, <3>1 DEF RightMoved, Fill
  <2> QED BY <2>2, <2>3
<1> QED BY <1>2, <1>3

LEMMA ShiftRightIs ==
  ASSUME NEW a \in Number, NEW b \in Number, NEW arithmetic \in BOOLEAN
  PROVE  ShiftRight(a, b, arithmetic) = RightMoved(a, arithmetic, b % W)
<1> DEFINE fill(n) == Fill(a, arithmetic, n)
           moved(r) == RightMoved(a, arithmetic, r)
           s1 == IF Shifts(b, 0) THEN fill(1) + (a \div Pow(1)) ELSE a
           s2 == IF Shifts(b, 1) THEN fill(2) + (s1 \div Pow(2)) ELSE s1
           s3 == IF Shifts(b, 2) THEN fill(4) + (s2 \div Pow(4)) ELSE s2
           s4 == IF Shifts(b, 3) THEN fill(8) + (s3 \div Pow(8)) ELSE s3
           s5 == IF Shifts(b, 4) THEN fill(16) + (s4 \div Pow(16)) ELSE s4
<1>1. 2^0 = 1 /\ 2^1 = 2 /\ 2^2 = 4 /\ 2^3 = 8 /\ 2^4 = 16
  BY SMT
<1>2. ShiftRight(a, b, arithmetic) = s5
  BY <1>1, Zenon DEF ShiftRight, Pow, Fill
<1>3. a \in Int /\ b \in Nat /\ W \in Nat /\ 2^W \in Nat
  BY WrapOfNumber, PowerFacts
<1>4. moved(b % 1) = a
  <2>1. Pow(0) = 1
    BY <1>1 DEF Pow
  <2>2. b % 1 = 0
    BY <1>3, AmountFacts
  <2>3. a \div 1 = a /\ 2^W + ((a - 2^W) \div 1) = a
    BY <1>3
  <2> QED BY <2>1, <2>2, <2>3 DEF RightMoved
<1>5. 1 < W => s1 = moved(b % 2)
  <2> SUFFICES ASSUME 1 < W PROVE s1 = moved(b % 2)
    OBVIOUS
  <2>1. a = moved(b % 1)
    BY <1>3, <1>4
  <2>2. 1 \in Steps /\ b % 1 \in 0 .. 1 - 1 /\ Bit(b, 0) \in {0, 1}
    BY <1>3, AmountFacts DEF Steps
  <2>3. (IF Bit(b, 0) = 1 THEN fill(1) + (moved(b % 1) \div Pow(1)) ELSE moved(b % 1))
          = moved((b % 1) + 1 * Bit(b, 0))
    BY <1>3, <2>2, RightStage
  <2> QED BY <1>1, <1>3, <2>1, <2>3, AmountFacts DEF Shifts
<1> HIDE DEF s1
<1>6. 2 < W => s2 = moved(b % 4)
  <2> SUFFICES ASSUME 2 < W PROVE s2 = moved(b % 4)
    OBVIOUS
  <2>1. s1 = moved(b % 2)
    BY <1>3, <1>5
  <2>2. 2 \in Steps /\ b % 2 \in 0 .. 2 - 1 /\ Bit(b, 1) \in {0, 1}
    BY <1>3, AmountFacts DEF Steps
  <2>3. (IF Bit(b, 1) = 1 THEN fill(2) + (moved(b % 2) \div Pow(2)) ELSE moved(b % 2))
          = moved((b % 2) + 2 * Bit(b, 1))
    BY <1>3, <2>2, RightStage
  <2> QED BY <1>1, <1>3, <2>1, <2>3, AmountFacts DEF Shifts
<1> HIDE DEF s2
<1>7. 4 < W => s3 = moved(b % 8)
  <2> SUFFICES ASSUME 4 < W PROVE s3 = moved(b % 8)
    OBVIOUS
  <2>1. s2 = moved(b % 4)
    BY <1>3, <1>6
  <2>2. 4 \in Steps /\ b % 4 \in 0 .. 4 - 1 /\ Bit(b, 2) \in {0, 1}
    BY <1>3, AmountFacts DEF Steps
  <2>3. (IF Bit(b, 2) = 1 THEN fill(4) + (moved(b % 4) \div Pow(4)) ELSE moved(b % 4))
          = moved((b % 4) + 4 * Bit(b, 2))
    BY <1>3, <2>2, RightStage
  <2> QED BY <1>1, <1>3, <2>1, <2>3, AmountFacts DEF Shifts
<1> HIDE DEF s3
<1>8. 8 < W => s4 = moved(b % 16)
  <2> SUFFICES ASSUME 8 < W PROVE s4 = moved(b % 16)
    OBVIOUS
  <2>1. s3 = moved(b % 8)
    BY <1>3, <1>7
  <2>2. 8 \in Steps /\ b % 8 \in 0 .. 8 - 1 /\ Bit(b, 3) \in {0, 1}
    BY <1>3, AmountFacts DEF Steps
  <2>3. (IF Bit(b, 3) = 1 THEN fill(8) + (moved(b % 8) \div Pow(8)) ELSE moved(b % 8))
          = moved((b % 8) + 8 * Bit(b, 3))
    BY <1>3, <2>2, RightStage
  <2> QED BY <1>1, <1>3, <2>1, <2>3, AmountFacts DEF Shifts
<1> HIDE DEF s4
<1>9. 16 < W => s5 = moved(b % 32)
  <2> SUFFICES ASSUME 16 < W PROVE s5 = moved(b % 32)
    OBVIOUS
  <2>1. s4 = moved(b % 16)
    BY <1>3, <1>8
  <2>2. 16 \in Steps /\ b % 16 \in 0 .. 16 - 1 /\ Bit(b, 4) \in {0, 1}
    BY <1>3, AmountFacts DEF Steps
  <2>3. (IF Bit(b, 4) = 1 THEN fill(16) + (moved(b % 16) \div Pow(16)) ELSE moved(b % 16))
          = moved((b % 16) + 16 * Bit(b, 4))
    BY <1>3, <2>2, RightStage
  <2> QED BY <1>1, <1>3, <2>1, <2>3, AmountFacts DEF Shifts
<1> HIDE DEF s5
<1>10. CASE W = 2
  BY <1>1, <1>2, <1>5, <1>10 DEF s2, s3, s4, s5, Shifts
<1>11. CASE W = 4
  BY <1>1, <1>2, <1>6, <1>11 DEF s3, s4, s5, Shifts
<1>12. CASE W = 8
  BY <1>1, <1>2, <1>7, <1>12 DEF s4, s5, Shifts
<1>13. CASE W = 16
  BY <1>1, <1>2, <1>8, <1>13 DEF s5, Shifts
<1>14. CASE W = 32
  BY <1>1, <1>2, <1>9, <1>14 DEF Shifts
<1> QED BY <1>10, <1>11, <1>12, <1>13, <1>14, WidthAssumption

LEMMA AmountPower ==
  ASSUME NEW b \in Nat
  PROVE  Pow(b % W) \in Nat /\ Pow(b % W) > 0
<1>1. \A n \in 0 .. 15 : Pow(n) \in Nat /\ Pow(n) > 0 /\ Pow(n + 16) = Pow(n) * 65536
  BY PowerTable
<1>2. ASSUME NEW n \in 16 .. 31 PROVE Pow(n) \in Nat /\ Pow(n) > 0
  <2>1. n - 16 \in 0 .. 15 /\ (n - 16) + 16 = n
    OBVIOUS
  <2>2. Pow(n - 16) \in Nat /\ Pow(n - 16) > 0 /\ Pow(n) = Pow(n - 16) * 65536
    BY <1>1, <2>1
  <2> QED BY <2>2, SMT
<1>3. b % W \in 0 .. 31
  BY WidthAssumption
<1>4. b % W \in 0 .. 15 \/ b % W \in 16 .. 31
  BY <1>3
<1> QED BY <1>1, <1>2, <1>4

(* sra and srai: the quotient of the signed number, wrapped. *)
LEMMA ArithmeticShiftIs ==
  ASSUME NEW a \in Number, NEW b \in Number
  PROVE  Wrap(Signed(a) \div Pow(b % W)) = RightMoved(a, TRUE, b % W)
<1> DEFINE m == 2^W
           p == Pow(b % W)
<1>1. p \in Nat /\ p > 0
  BY AmountPower, WrapOfNumber
<1>2. m \in Nat /\ a \in Nat /\ a < m
  BY PowerFacts DEF Number
<1>3. CASE Negative(a)
  <2> DEFINE t == (a - m) \div p
             r == (a - m) % p
  <2>1. t \in Int /\ r \in 0 .. p - 1 /\ a - m = p * t + r
    BY <1>1, <1>2, DivisionFacts
  <2> HIDE DEF t, r, p, m
  <2>2. t < 0
    <3>1. CASE t >= 0
      <4>1. p * t >= 0 /\ p * t \in Int
        BY <1>1, <2>1, <3>1, SMT
      <4> QED BY <1>2, <2>1, <4>1
    <3> QED BY <2>1, <3>1
  <2>3. t >= a - m
    <3>1. p * t <= t /\ p * t \in Int
      BY <1>1, <2>1, <2>2, SMT
    <3>2. CASE t < a - m
      <4>1. t = a - m - (a - m - t) /\ a - m - t > 0
        BY <1>2, <2>1, <3>2
      <4>2. p * t = t + (p - 1) * t /\ (p - 1) * t <= -(p - 1)
        BY <1>1, <2>1, <2>2, SMT
      <4> QED BY <1>1, <1>2, <2>1, <3>2, <4>2
    <3> QED BY <1>2, <2>1, <3>2
  <2>4. m + t \in Number
    BY <1>2, <2>1, <2>2, <2>3 DEF Number, m
  <2>5. Wrap(t + m * 1) = Wrap(t) /\ t + m * 1 = m + t
    BY <1>2, <2>1, WrapFacts DEF m
  <2>6. Wrap(t) = m + t
    BY <2>4, <2>5, WrapOfNumber
  <2>7. Signed(a) = a - m
    BY <1>3 DEF Signed, m
  <2> QED BY <1>3, <2>6, <2>7 DEF RightMoved, t, p, m
<1>4. CASE ~ Negative(a)
  <2> DEFINE t == a \div p
             r == a % p
  <2>1. t \in Int /\ r \in 0 .. p - 1 /\ a = p * t + r
    BY <1>1, <1>2, DivisionFacts
  <2> HIDE DEF t, r, p, m
  <2>2. t >= 0
    <3>1. CASE t < 0
      <4>1. p * t <= -p /\ p * t \in Int
        BY <1>1, <2>1, <3>1, SMT
      <4> QED BY <1>1, <1>2, <2>1, <4>1
    <3> QED BY <2>1, <3>1
  <2>3. t <= a
    <3>1. p * t >= t /\ p * t \in Int
      BY <1>1, <2>1, <2>2, SMT
    <3> QED BY <1>2, <2>1, <3>1
  <2>4. t \in Number
    BY <1>2, <2>1, <2>2, <2>3 DEF Number, m
  <2>5. Signed(a) = a /\ Wrap(t) = t
    BY <1>4, <2>4, WrapOfNumber DEF Signed
  <2> QED BY <1>4, <2>5 DEF RightMoved, t, p
<1> QED BY <1>3, <1>4

(* The stages of riscv_alu.v shift as C does. *)
LEMMA ShiftsAgree ==
  ASSUME NEW a \in Number, NEW b \in Number
  PROVE  /\ ShiftLeft(a, b) = Wrap(a * 2^(b % W))
         /\ ShiftRight(a, b, FALSE) = a \div 2^(b % W)
         /\ ShiftRight(a, b, TRUE) = Wrap(Signed(a) \div 2^(b % W))
<1>1. ShiftLeft(a, b) = Wrap(a * 2^(b % W))
  BY ShiftLeftIs, Zenon DEF LeftMoved, Pow
<1>2. ShiftRight(a, b, FALSE) = RightMoved(a, FALSE, b % W)
  BY ShiftRightIs
<1>3. ShiftRight(a, b, TRUE) = RightMoved(a, TRUE, b % W)
  BY ShiftRightIs
<1>4. RightMoved(a, FALSE, b % W) = a \div 2^(b % W)
  BY Zenon DEF RightMoved, Pow
<1>5. RightMoved(a, TRUE, b % W) = Wrap(Signed(a) \div 2^(b % W))
  BY ArithmeticShiftIs, Zenon DEF Pow
<1> QED BY <1>1, <1>2, <1>3, <1>4, <1>5, Zenon

---------------------------------------------------------------------------
(* The multiplier.                                                         *)

(* The signed number is the number or one modulus less. *)
LEMMA SignedIs ==
  ASSUME NEW a \in Number
  PROVE  \E k \in {0, 1} : Signed(a) = a - 2^W * k
<1>1. 2^W \in Nat /\ a \in Nat
  BY PowerFacts, WrapOfNumber
<1>2. 2^W * 0 = 0 /\ 2^W * 1 = 2^W /\ a - 0 = a
  BY <1>1
<1> QED BY <1>2 DEF Signed

(* riscv_multiplier.v: the low half needs no signs, and the upper half of  *)
(* a product of unsigned numbers fits.                                     *)
LEMMA ProductsAgree ==
  ASSUME NEW op \in {"mul", "mulh", "mulhsu", "mulhu"}, NEW a \in Number, NEW b \in Number
  PROVE  MulResult(op, a, b) = SimMultiply(op, a, b)
<1>1. 2^W \in Nat /\ 2^W > 0 /\ a \in Nat /\ a < 2^W /\ b \in Nat /\ b < 2^W
  BY PowerFacts DEF Number
<1>2. CASE op = "mul"
  <2>1. PICK j \in {0, 1} : Signed(a) = a - 2^W * j
    BY SignedIs
  <2>2. PICK k \in {0, 1} : Signed(b) = b - 2^W * k
    BY SignedIs
  <2> DEFINE m == 2^W
             c == m * j * k - (b * j + a * k)
  <2>3. m \in Nat /\ m * j * k \in Int /\ b * j \in Int /\ a * k \in Int /\ a * b \in Int
    BY <1>1
  <2>4. c \in Int
    BY <2>3
  <2>5. (a - m * j) * (b - m * k) = a * b + m * c
    <3> HIDE DEF m
    <3>1. CASE j = 0 /\ k = 0
      BY <1>1, <2>3, <3>1, SMT
    <3>2. CASE j = 1 /\ k = 0
      BY <1>1, <2>3, <3>2, SMT
    <3>3. CASE j = 0 /\ k = 1
      BY <1>1, <2>3, <3>3, SMT
    <3>4. CASE j = 1 /\ k = 1
      BY <1>1, <2>3, <3>4, SMT
    <3> QED BY <3>1, <3>2, <3>3, <3>4
  <2>6. Signed(a) * Signed(b) = a * b + m * c
    BY <2>1, <2>2, <2>5
  <2> HIDE DEF c
  <2>7. Wrap(Signed(a) * Signed(b)) = Wrap(a * b)
    BY <2>3, <2>4, <2>6, WrapFacts
  <2> QED BY <1>2, <2>7 DEF MulResult, SimMultiply, OperandA, OperandB
<1>3. CASE op = "mulhu"
  <2> DEFINE m == 2^W
             q == (a * b) \div m
             r == (a * b) % m
  <2>1. a * b \in Nat /\ a * b < m * m
    <3>1. a * b \in Nat /\ a * b <= a * m
      BY <1>1, SMT
    <3>2. a * m < m * m
      BY <1>1, SMT
    <3>3. a * m \in Int /\ m * m \in Int
      BY <1>1
    <3> QED BY <3>1, <3>2, <3>3
  <2>2. m \in Nat /\ m > 0
    BY <1>1
  <2>3. q \in Int /\ r \in 0 .. m - 1 /\ a * b = m * q + r
    <3> DEFINE c == a * b
    <3>1. c \in Int
      BY <2>1
    <3> HIDE DEF c, m
    <3>2. c \div m \in Int /\ c % m \in 0 .. m - 1 /\ c = m * (c \div m) + (c % m)
      BY <2>2, <3>1, DivisionFacts
    <3> QED BY <3>2 DEF c
  <2> HIDE DEF q, r, m
  <2>4. q >= 0
    <3>1. CASE q < 0
      <4>1. m * q <= -m /\ m * q \in Int
        BY <2>2, <2>3, <3>1, SMT
      <4> QED BY <2>1, <2>2, <2>3, <4>1
    <3> QED BY <2>3, <3>1
  <2>5. q < m
    <3>1. CASE q >= m
      <4>1. m * q >= m * m /\ m * q \in Int /\ m * m \in Int
        BY <2>2, <2>3, <3>1, SMT
      <4> QED BY <2>1, <2>3, <4>1
    <3> QED BY <2>2, <2>3, <3>1
  <2>6. q \in Number
    BY <2>2, <2>3, <2>4, <2>5 DEF Number, m
  <2>7. Wrap((a * b) \div 2^W) = (a * b) \div 2^W
    BY <2>6, WrapOfNumber DEF q, m
  <2> QED BY <1>3, <2>7 DEF MulResult, SimMultiply, OperandA, OperandB
<1>4. CASE op = "mulh"
  BY <1>4 DEF MulResult, SimMultiply, OperandA, OperandB
<1>5. CASE op = "mulhsu"
  BY <1>5 DEF MulResult, SimMultiply, OperandA, OperandB
<1> QED BY <1>2, <1>3, <1>4, <1>5

---------------------------------------------------------------------------
(* The ALU and the branches.                                               *)

(* slt and slti. *)
LEMMA ComparisonsAgree ==
  ASSUME NEW a \in Number, NEW b \in Number
  PROVE  Alu("LESS_THAN_SIGNED", a, b) = Truth(Signed(a) < Signed(b))
<1>1. Alu("LESS_THAN_SIGNED", a, b) =
        IF Negative(a) # Negative(b) THEN Truth(Negative(a)) ELSE Truth(Negative(Wrap(a - b)))
  BY DEF Alu
<1>2. Signed(a) < Signed(b) <=>
        IF Negative(a) # Negative(b) THEN Negative(a) ELSE Negative(Wrap(a - b))
  BY LessFacts
<1> QED BY <1>1, <1>2 DEF Truth

(* What the ALU leaves in rd, by the form of the instruction. *)
LEMMA RegisterResults ==
  ASSUME NEW op \in DOMAIN RegisterCodes, NEW a \in Number, NEW b \in Number, NEW imm, NEW pc
  PROVE  AluResult(op, a, b, imm, pc) = SimRegister(op, a, b)
<1>1. op \in DOMAIN AluFunction
  BY RegisterNames DEF AluFunction
<1>2. AluInputs(op, a, b, imm, pc) = <<a, b>>
  BY RegisterNames, ImmediateNames DEF AluInputs
<1>3. AluResult(op, a, b, imm, pc) = Alu(AluFunction[op], a, b)
  BY <1>1, <1>2 DEF AluResult
<1>4. CASE op \in {"add", "sub", "xor", "or", "and", "sltu"}
  <2>1. /\ op = "add" => AluFunction[op] = "ADD"
        /\ op = "sub" => AluFunction[op] = "SUB"
        /\ op = "xor" => AluFunction[op] = "XOR"
        /\ op = "or" => AluFunction[op] = "OR"
        /\ op = "and" => AluFunction[op] = "AND"
        /\ op = "sltu" => AluFunction[op] = "LESS_THAN"
    BY DEF AluFunction
  <2>2. /\ Alu("ADD", a, b) = Wrap(a + b)
        /\ Alu("SUB", a, b) = Wrap(a - b)
        /\ Alu("XOR", a, b) = BitXor(a, b)
        /\ Alu("OR", a, b) = BitOr(a, b)
        /\ Alu("AND", a, b) = BitAnd(a, b)
        /\ Alu("LESS_THAN", a, b) = Truth(a < b)
    BY DEF Alu
  <2>3. /\ op = "add" => SimRegister(op, a, b) = Wrap(a + b)
        /\ op = "sub" => SimRegister(op, a, b) = Wrap(a - b)
        /\ op = "xor" => SimRegister(op, a, b) = BitXor(a, b)
        /\ op = "or" => SimRegister(op, a, b) = BitOr(a, b)
        /\ op = "and" => SimRegister(op, a, b) = BitAnd(a, b)
        /\ op = "sltu" => SimRegister(op, a, b) = Truth(a < b)
    BY DEF SimRegister
  <2> QED BY <1>3, <1>4, <2>1, <2>2, <2>3, Zenon
<1>5. CASE op = "slt"
  <2>1. AluFunction[op] = "LESS_THAN_SIGNED"
    BY <1>5 DEF AluFunction
  <2> QED BY <1>3, <1>5, <2>1, ComparisonsAgree DEF SimRegister
<1>6. CASE op \in {"sll", "srl", "sra"}
  <2>1. /\ op = "sll" => AluFunction[op] = "SHIFTL"
        /\ op = "srl" => AluFunction[op] = "SHIFTR"
        /\ op = "sra" => AluFunction[op] = "SHIFTR_ARITH"
    BY DEF AluFunction
  <2>2. /\ Alu("SHIFTL", a, b) = ShiftLeft(a, b)
        /\ Alu("SHIFTR", a, b) = ShiftRight(a, b, FALSE)
        /\ Alu("SHIFTR_ARITH", a, b) = ShiftRight(a, b, TRUE)
    BY DEF Alu
  <2>3. /\ op = "sll" => SimRegister(op, a, b) = Wrap(a * 2^(b % W))
        /\ op = "srl" => SimRegister(op, a, b) = a \div 2^(b % W)
        /\ op = "sra" => SimRegister(op, a, b) = Wrap(Signed(a) \div 2^(b % W))
    BY DEF SimRegister
  <2> QED BY <1>3, <1>6, <2>1, <2>2, <2>3, ShiftsAgree, Zenon
<1> QED BY <1>4, <1>5, <1>6, RegisterNames

LEMMA ImmediateResults ==
  ASSUME NEW op \in DOMAIN ImmediateCodes, NEW a \in Number, NEW imm \in Number, NEW b, NEW pc
  PROVE  AluResult(op, a, b, imm, pc) = SimImmediate(op, a, imm)
<1>1. op \in DOMAIN AluFunction
  BY ImmediateNames DEF AluFunction
<1>2. AluInputs(op, a, b, imm, pc) = <<a, imm>>
  BY RegisterNames, ImmediateNames DEF AluInputs
<1>3. AluResult(op, a, b, imm, pc) = Alu(AluFunction[op], a, imm)
  BY <1>1, <1>2 DEF AluResult
<1>4. CASE op \in {"andi", "ori", "xori", "addi", "sltiu"}
  <2>1. /\ op = "andi" => AluFunction[op] = "AND"
        /\ op = "ori" => AluFunction[op] = "OR"
        /\ op = "xori" => AluFunction[op] = "XOR"
        /\ op = "addi" => AluFunction[op] = "ADD"
        /\ op = "sltiu" => AluFunction[op] = "LESS_THAN"
    BY DEF AluFunction
  <2>2. /\ Alu("AND", a, imm) = BitAnd(a, imm)
        /\ Alu("OR", a, imm) = BitOr(a, imm)
        /\ Alu("XOR", a, imm) = BitXor(a, imm)
        /\ Alu("ADD", a, imm) = Wrap(a + imm)
        /\ Alu("LESS_THAN", a, imm) = Truth(a < imm)
    BY DEF Alu
  <2>3. /\ op = "andi" => SimImmediate(op, a, imm) = BitAnd(a, imm)
        /\ op = "ori" => SimImmediate(op, a, imm) = BitOr(a, imm)
        /\ op = "xori" => SimImmediate(op, a, imm) = BitXor(a, imm)
        /\ op = "addi" => SimImmediate(op, a, imm) = Wrap(a + imm)
        /\ op = "sltiu" => SimImmediate(op, a, imm) = Truth(a < imm)
    BY DEF SimImmediate
  <2> QED BY <1>3, <1>4, <2>1, <2>2, <2>3, Zenon
<1>5. CASE op = "slti"
  <2>1. AluFunction[op] = "LESS_THAN_SIGNED"
    BY <1>5 DEF AluFunction
  <2> QED BY <1>3, <1>5, <2>1, ComparisonsAgree DEF SimImmediate
<1>6. CASE op \in {"slli", "srli", "srai"}
  <2>1. /\ op = "slli" => AluFunction[op] = "SHIFTL"
        /\ op = "srli" => AluFunction[op] = "SHIFTR"
        /\ op = "srai" => AluFunction[op] = "SHIFTR_ARITH"
    BY DEF AluFunction
  <2>2. /\ Alu("SHIFTL", a, imm) = ShiftLeft(a, imm)
        /\ Alu("SHIFTR", a, imm) = ShiftRight(a, imm, FALSE)
        /\ Alu("SHIFTR_ARITH", a, imm) = ShiftRight(a, imm, TRUE)
    BY DEF Alu
  <2>3. /\ op = "slli" => SimImmediate(op, a, imm) = Wrap(a * 2^(imm % W))
        /\ op = "srli" => SimImmediate(op, a, imm) = a \div 2^(imm % W)
        /\ op = "srai" => SimImmediate(op, a, imm) = Wrap(Signed(a) \div 2^(imm % W))
    BY DEF SimImmediate
  <2> QED BY <1>3, <1>6, <2>1, <2>2, <2>3, ShiftsAgree, Zenon
<1> QED BY <1>4, <1>5, <1>6, ImmediateNames

LEMMA OtherResults ==
  ASSUME NEW op \in DOMAIN UpperCodes \cup {"jal", "jalr"}, NEW a, NEW b, NEW imm \in Number,
         NEW pc \in Number
  PROVE  /\ op \in DOMAIN UpperCodes => AluResult(op, a, b, imm, pc) = SimUpper(op, imm, pc)
         /\ op \in {"jal", "jalr"} => AluResult(op, a, b, imm, pc) = SimLink(pc)
<1>1. op \in DOMAIN AluFunction
  BY UpperNames DEF AluFunction
<1>2. imm \in Nat /\ pc \in Nat
  BY WrapOfNumber
<1>3. CASE op = "lui"
  <2>1. AluFunction[op] = "NONE" /\ AluInputs(op, a, b, imm, pc) = <<imm, 0>>
    BY <1>3, RegisterNames, ImmediateNames DEF AluFunction, AluInputs
  <2>2. Alu("NONE", imm, 0) = imm
    BY DEF Alu
  <2>3. SimUpper(op, imm, pc) = imm
    BY <1>3 DEF SimUpper
  <2> QED BY <1>1, <1>3, <2>1, <2>2, <2>3 DEF AluResult
<1>4. CASE op = "auipc"
  <2>1. AluFunction[op] = "ADD" /\ AluInputs(op, a, b, imm, pc) = <<pc, imm>>
    BY <1>4, RegisterNames, ImmediateNames DEF AluFunction, AluInputs
  <2>2. Alu("ADD", pc, imm) = Wrap(pc + imm)
    BY DEF Alu
  <2>3. SimUpper(op, imm, pc) = Wrap(imm + pc) /\ pc + imm = imm + pc
    BY <1>2, <1>4 DEF SimUpper
  <2> QED BY <1>1, <1>4, <2>1, <2>2, <2>3 DEF AluResult
<1>5. CASE op \in {"jal", "jalr"}
  <2>1. AluFunction[op] = "ADD" /\ AluInputs(op, a, b, imm, pc) = <<pc, 4>>
    BY <1>5, RegisterNames, ImmediateNames DEF AluFunction, AluInputs
  <2>2. Alu("ADD", pc, 4) = Wrap(pc + 4)
    BY DEF Alu
  <2> QED BY <1>1, <1>5, <2>1, <2>2, UpperNames DEF AluResult, SimLink
<1> QED BY <1>3, <1>4, <1>5, UpperNames

(* The address of the next instruction. *)
LEMMA NextPcs ==
  ASSUME NEW op \in Operations, NEW a \in Number, NEW b \in Number, NEW imm \in Number,
         NEW pc \in Number
  PROVE  NextPc(op, a, b, imm, pc) =
           IF op \in {"jal", "jalr"} THEN SimJump(op, a, imm, pc)
           ELSE IF op \in CondBranches THEN Wrap(pc + IF SimTakes(op, a, b) THEN imm ELSE 4)
           ELSE Wrap(pc + 4)
<1>1. CASE op = "jal"
  BY <1>1 DEF NextPc, BranchTaken, BranchTarget, SimJump
<1>2. CASE op = "jalr"
  <2>1. a + imm \in Int
    BY WrapOfNumber
  <2>2. Wrap(a + imm) \in Number
    BY <2>1, WrapFacts
  <2>3. Wrap(a + imm) \in Nat
    BY <2>2, WrapOfNumber
  <2>4. 2 * (Wrap(a + imm) \div 2) = Wrap(a + imm) - (Wrap(a + imm) % 2)
    BY <2>3
  <2>5. NextPc(op, a, b, imm, pc) = 2 * (Wrap(a + imm) \div 2)
    BY <1>2 DEF NextPc, BranchTaken, BranchTarget
  <2>6. SimJump(op, a, imm, pc) = Wrap(a + imm) - (Wrap(a + imm) % 2)
    BY <1>2 DEF SimJump
  <2> QED BY <1>2, <2>4, <2>5, <2>6
<1>3. CASE op \in CondBranches
  <2>1. BranchTaken(op, a, b) <=> SimTakes(op, a, b)
    BY <1>3, BranchesAgree
  <2>2. op \notin {"jal", "jalr"}
    BY <1>3 DEF CondBranches
  <2> QED BY <1>3, <2>1, <2>2 DEF NextPc, BranchTarget
<1>4. CASE op \notin {"jal", "jalr"} \cup CondBranches
  <2>1. ~ BranchTaken(op, a, b)
    BY <1>4 DEF BranchTaken, CondBranches
  <2> QED BY <1>4, <2>1 DEF NextPc
<1> QED BY <1>1, <1>2, <1>3, <1>4

(* The operands of every instruction are numbers of W bits. *)
LEMMA OperandFacts ==
  ASSUME NEW op \in Operations, NEW x \in Operands(op)
  PROVE  x.a \in Number /\ x.b \in Number /\ x.imm \in Number /\ x.pc \in Number
<1>1. 0 \in Number
  BY PowerFacts DEF Number
<1>2. Addresses \subseteq Number /\ Offsets \subseteq Number
  BY ExecuteAssumption
<1>3. CASE op \in DOMAIN RegisterCodes \cup DOMAIN MultiplyCodes
  BY <1>1, <1>2, <1>3, RegisterNames, MultiplyNames, ImmediateNames, UpperNames DEF Operands
<1>4. CASE op \in DOMAIN ImmediateCodes
  BY <1>1, <1>2, <1>4, RegisterNames, MultiplyNames, ImmediateNames, UpperNames DEF Operands
<1>5. CASE op \in DOMAIN UpperCodes
  BY <1>1, <1>2, <1>5, RegisterNames, MultiplyNames, ImmediateNames, UpperNames DEF Operands
<1>6. CASE op \in DOMAIN BranchCodes
  BY <1>1, <1>2, <1>6, RegisterNames, MultiplyNames, ImmediateNames, UpperNames, BranchNames
  DEF Operands
<1> QED BY <1>3, <1>4, <1>5, <1>6, MultiplyNames DEF Operations

(* riscv_exec.v, riscv_alu.v and riscv_multiplier.v leave the result and   *)
(* the next address that riscv.cpp computes, for every instruction, all    *)
(* operands and registers of up to 32 bits.                                *)
THEOREM OutcomesAgreeCorrect == ExecuteSpec => []OutcomesAgree
<1>1. CoreShows => OutcomesAgree
  <2> SUFFICES ASSUME CoreShows, now.kind = "op" PROVE OutcomesAgree
    BY DEF OutcomesAgree
  <2>1. PICK op \in Operations : \E x \in Operands(op) : Operating(op, x.a, x.b, x.imm, x.pc)
    BY DEF CoreShows, Idle, Decoding, Accessing
  <2>2. PICK x \in Operands(op) : Operating(op, x.a, x.b, x.imm, x.pc)
    BY <2>1
  <2>3. x.a \in Number /\ x.b \in Number /\ x.imm \in Number /\ x.pc \in Number
    BY OperandFacts
  <2>4. now.op = op /\ now.a = x.a /\ now.b = x.b /\ now.imm = x.imm /\ now.pc = x.pc
    BY <2>2 DEF Operating
  <2>5. /\ core.pcx = NextPc(op, x.a, x.b, x.imm, x.pc)
        /\ core.result = IF op \in DOMAIN MultiplyCodes THEN MulResult(op, x.a, x.b)
                         ELSE AluResult(op, x.a, x.b, x.imm, x.pc)
    BY <2>2 DEF Operating
  <2> DEFINE answer ==
        CASE op \in {"jal", "jalr"} -> SimLink(x.pc)
          [] op \in DOMAIN UpperCodes -> SimUpper(op, x.imm, x.pc)
          [] op \in DOMAIN MultiplyCodes -> SimMultiply(op, x.a, x.b)
          [] op \in DOMAIN ImmediateCodes -> SimImmediate(op, x.a, x.imm)
          [] OTHER -> SimRegister(op, x.a, x.b)
  <2>6. ASSUME op \notin CondBranches PROVE core.result = answer
    <3>1. CASE op \in {"jal", "jalr"}
      <4>1. answer = SimLink(x.pc)
        BY <3>1, UpperNames, MultiplyNames, ImmediateNames
      <4> QED BY <2>3, <2>5, <3>1, <4>1, OtherResults, MultiplyNames
    <3>2. CASE op \in DOMAIN UpperCodes
      <4>1. answer = SimUpper(op, x.imm, x.pc)
        BY <3>2, UpperNames, MultiplyNames, ImmediateNames
      <4> QED BY <2>3, <2>5, <3>2, <4>1, OtherResults, MultiplyNames, UpperNames
    <3>3. CASE op \in {"mul", "mulh", "mulhsu", "mulhu"}
      <4>1. answer = SimMultiply(op, x.a, x.b)
        BY <3>3, UpperNames, MultiplyNames, ImmediateNames
      <4> QED BY <2>3, <2>5, <3>3, <4>1, ProductsAgree, MultiplyNames
    <3>4. CASE op \in DOMAIN ImmediateCodes
      <4>1. answer = SimImmediate(op, x.a, x.imm)
        BY <3>4, UpperNames, MultiplyNames, ImmediateNames
      <4> QED BY <2>3, <2>5, <3>4, <4>1, ImmediateResults, MultiplyNames, ImmediateNames
    <3>5. CASE op \in DOMAIN RegisterCodes
      <4>1. answer = SimRegister(op, x.a, x.b)
        BY <3>5, UpperNames, MultiplyNames, ImmediateNames, RegisterNames
      <4> QED BY <2>3, <2>5, <3>5, <4>1, RegisterResults, MultiplyNames, RegisterNames
    <3> QED BY <2>6, <3>1, <3>2, <3>3, <3>4, <3>5, BranchNames DEF Operations, CondBranches
  <2>7. core.pcx = IF op \in {"jal", "jalr"} THEN SimJump(op, x.a, x.imm, x.pc)
                   ELSE IF op \in CondBranches
                        THEN Wrap(x.pc + IF SimTakes(op, x.a, x.b) THEN x.imm ELSE 4)
                   ELSE Wrap(x.pc + 4)
    BY <2>3, <2>5, NextPcs
  <2> QED BY <2>4, <2>6, <2>7, Zenon DEF OutcomesAgree
<1> QED BY <1>1, CoreShowsInvariant, PTL

---------------------------------------------------------------------------
(* The divider.                                                            *)

(* What q_mask_q may be. *)
Masks ==
  {1, 2, 4, 8, 16, 32, 64, 128, 256, 512, 1024, 2048, 4096, 8192, 16384, 32768, 65536, 131072,
   262144, 524288, 1048576, 2097152, 4194304, 8388608, 16777216, 33554432, 67108864, 134217728,
   268435456, 536870912, 1073741824, 2147483648}

LEMMA MaskFacts ==
  /\ 2^(W - 1) \in Masks
  /\ \A m \in Masks : m \in Nat /\ m > 0 /\ (m = 1 \/ (m \div 2 \in Masks /\ m = 2 * (m \div 2)))
<1>1. 2^(W - 1) \in Masks
  <2>1. CASE W = 2
    BY <2>1, SMT DEF Masks
  <2>2. CASE W = 4
    BY <2>2, SMT DEF Masks
  <2>3. CASE W = 8
    BY <2>3, SMT DEF Masks
  <2>4. CASE W = 16
    BY <2>4, SMT DEF Masks
  <2>5. CASE W = 32
    BY <2>5, SMT DEF Masks
  <2> QED BY <2>1, <2>2, <2>3, <2>4, <2>5, WidthAssumption
<1>2. ASSUME NEW m \in Masks
      PROVE  m \in Nat /\ m > 0 /\ (m = 1 \/ (m \div 2 \in Masks /\ m = 2 * (m \div 2)))
  BY SMT DEF Masks
<1> QED BY <1>1, <1>2

(* The divider works on the size of a number. *)
LEMMA MagnitudeFacts ==
  ASSUME NEW op \in DivisionNames, NEW x \in Number
  PROVE  /\ Magnitude(op, x) \in Number
         /\ Magnitude(op, x) = 0 <=> x = 0
         /\ op \in {"divu", "remu"} => Magnitude(op, x) = x
         /\ op \in {"div", "rem"} => Magnitude(op, x) = Size(Signed(x))
         /\ Negative(x) <=> Signed(x) < 0
         /\ op = "rem" /\ Negative(x) => Wrap(-Magnitude(op, x)) = x
<1> DEFINE m == 2^W
           h == 2^(W - 1)
<1>1. h \in Nat /\ h >= 2 /\ m = 2 * h /\ x \in Nat /\ x < m
  BY PowerFacts DEF Number
<1>2. /\ Negative(x) <=> x >= h
      /\ Signed(x) = IF x >= h THEN x - m ELSE x
  BY SignFacts
<1>3. x > 0 => m - x \in Number
  BY <1>1 DEF Number
<1>4. x > 0 => Wrap(-x) = m - x
  <2>1. -x \in Int /\ 1 \in Int /\ -x + m * 1 = m - x
    BY <1>1
  <2>2. Wrap(-x + 2^W * 1) = Wrap(-x)
    BY <2>1, WrapFacts
  <2> QED BY <1>3, <2>1, <2>2, WrapOfNumber
<1>5. Wrap(-(m - x)) = x
  <2>1. -(m - x) = x + m * (-1) /\ -1 \in Int
    BY <1>1
  <2>2. Wrap(x + m * (-1)) = Wrap(x)
    BY <1>1, <2>1, WrapFacts
  <2> QED BY <2>1, <2>2, WrapOfNumber
<1> HIDE DEF m, h
<1>6. CASE op \in {"div", "rem"} /\ x >= h
  <2>1. Magnitude(op, x) = m - x
    BY <1>1, <1>2, <1>4, <1>6 DEF Magnitude
  <2> QED BY <1>1, <1>2, <1>3, <1>5, <1>6, <2>1 DEF Size
<1>7. CASE ~ (op \in {"div", "rem"} /\ x >= h)
  <2>1. Magnitude(op, x) = x
    BY <1>2, <1>7 DEF Magnitude
  <2> QED BY <1>1, <1>2, <1>7, <2>1 DEF Size, DivisionNames
<1> QED BY <1>6, <1>7

(* What is left when the mask has gone: the answer. *)
LEMMA DivisionsAgree ==
  ASSUME NEW op \in DivisionNames, NEW a \in Number, NEW b \in Number,
         NEW quotient \in Nat, NEW dividend \in Nat, NEW invert \in BOOLEAN,
         Magnitude(op, a) = Magnitude(op, b) * quotient + dividend,
         b # 0 => dividend < Magnitude(op, b),
         b = 0 => quotient = 2^W - 1,
         invert <=> \/ op = "div" /\ Negative(a) # Negative(b) /\ b # 0
                    \/ op = "rem" /\ Negative(a)
  PROVE  LET size == IF op \in {"div", "divu"} THEN quotient ELSE dividend
         IN  (IF invert THEN Wrap(-size) ELSE size) = SimDivide(op, a, b)
<1> DEFINE x == Magnitude(op, a)
           v == Magnitude(op, b)
           m == 2^W
           h == 2^(W - 1)
<1>1. /\ h \in Nat /\ h >= 2 /\ m = 2 * h
      /\ x \in Nat /\ x < m /\ v \in Nat /\ v < m
      /\ a \in Nat /\ a < m /\ b \in Nat /\ b < m
  BY PowerFacts, MagnitudeFacts DEF Number
<1>2. x = v * quotient + dividend /\ (v = 0 <=> b = 0)
  BY MagnitudeFacts
<1>3. Negative(a) \in BOOLEAN /\ Negative(b) \in BOOLEAN
  BY DEF Negative
<1>4. CASE b = 0
  <2>1. dividend = x /\ quotient = m - 1
    <3> HIDE DEF x, v, m
    <3>1. v * quotient = 0
      BY <1>2, <1>4
    <3> QED BY <1>1, <1>2, <1>4, <3>1 DEF m
  <2>2. b # MinusOne
    BY <1>1, <1>4 DEF MinusOne
  <2>3. CASE op \in {"div", "divu"}
    BY <1>4, <2>1, <2>2, <2>3 DEF SimDivide, MinusOne
  <2>4. CASE op = "remu"
    BY <1>4, <2>1, <2>2, <2>4, MagnitudeFacts DEF SimDivide
  <2>5. CASE op = "rem" /\ Negative(a)
    BY <1>4, <2>1, <2>2, <2>5, MagnitudeFacts DEF SimDivide
  <2>6. CASE op = "rem" /\ ~ Negative(a)
    <3>1. x = a
      BY <2>6 DEF Magnitude
    <3> QED BY <1>4, <2>1, <2>2, <2>6, <3>1 DEF SimDivide
  <2> QED BY <2>3, <2>4, <2>5, <2>6 DEF DivisionNames
<1>5. CASE b # 0
  <2>1. v > 0 /\ dividend < v
    BY <1>1, <1>2, <1>5
  <2>2. x \div v = quotient /\ x % v = dividend
    <3> HIDE DEF x, v
    <3> QED BY <1>1, <1>2, <2>1, DivisionUnique
  <2>3. quotient <= x /\ dividend <= x
    <3> HIDE DEF x, v
    <3>1. v * quotient >= quotient /\ v * quotient \in Nat
      BY <1>1, <2>1, SMT
    <3> QED BY <1>1, <1>2, <3>1
  <2>4. /\ quotient \in Number /\ Wrap(quotient) = quotient
        /\ dividend \in Number /\ Wrap(dividend) = dividend
    <3>1. quotient \in Number /\ dividend \in Number
      BY <1>1, <2>3 DEF Number
    <3> QED BY <3>1, WrapOfNumber
  <2>5. CASE op \in {"divu", "remu"}
    <3>1. x = a /\ v = b
      BY <2>5, MagnitudeFacts
    <3> QED BY <1>5, <2>2, <2>5, <3>1 DEF SimDivide
  <2>6. CASE op \in {"div", "rem"}
    <3>1. /\ x = Size(Signed(a)) /\ v = Size(Signed(b))
          /\ Negative(a) <=> Signed(a) < 0
          /\ Negative(b) <=> Signed(b) < 0
      BY <2>6, MagnitudeFacts
    <3>2. Quotient(Signed(a), Signed(b)) =
            IF Negative(a) = Negative(b) THEN quotient ELSE -quotient
      BY <1>3, <2>2, <3>1 DEF Quotient
    <3>3. Remainder(Signed(a), Signed(b)) = IF Negative(a) THEN -dividend ELSE dividend
      BY <1>3, <2>2, <3>1 DEF Remainder
    <3>4. CASE a = Least /\ b = MinusOne
      <4>1. Negative(a) /\ Negative(b) /\ Signed(a) = -h /\ Signed(b) = -1
        BY <1>1, <3>4, SignFacts DEF Least, MinusOne
      <4>2. x = h /\ v = 1
        <5> HIDE DEF x, v, h
        <5>1. /\ Signed(a) \in Int /\ Signed(a) < 0 /\ Signed(a) + h = 0
              /\ Signed(b) \in Int /\ Signed(b) < 0 /\ Signed(b) + 1 = 0
          BY <1>1, <4>1
        <5>2. Size(Signed(a)) + Signed(a) = 0 /\ Size(Signed(b)) + Signed(b) = 0
          BY <5>1 DEF Size
        <5> QED BY <1>1, <3>1, <5>1, <5>2
      <4>3. quotient = h /\ dividend = 0
        <5> HIDE DEF x, v, h
        <5> QED BY <1>1, <1>2, <2>1, <4>2
      <4>4. Wrap(-0) = 0 /\ a = h
        BY <2>4, <3>4, <4>3 DEF Least
      <4>5. CASE op = "div"
        BY <3>4, <4>1, <4>3, <4>4, <4>5 DEF SimDivide
      <4>6. CASE op = "rem"
        BY <3>4, <4>1, <4>3, <4>4, <4>6 DEF SimDivide
      <4> QED BY <2>6, <4>5, <4>6
    <3>5. CASE ~ (a = Least /\ b = MinusOne)
      <4>1. CASE op = "div"
        <5>1. SimDivide(op, a, b) = Wrap(Quotient(Signed(a), Signed(b)))
          BY <1>5, <3>5, <4>1 DEF SimDivide
        <5>2. invert <=> Negative(a) # Negative(b)
          BY <1>5, <4>1
        <5> QED BY <1>3, <2>4, <3>2, <4>1, <5>1, <5>2
      <4>2. CASE op = "rem"
        <5>1. SimDivide(op, a, b) = Wrap(Remainder(Signed(a), Signed(b)))
          BY <1>5, <3>5, <4>2 DEF SimDivide
        <5>2. invert <=> Negative(a)
          BY <4>2
        <5> QED BY <1>3, <2>4, <3>3, <4>2, <5>1, <5>2
      <4> QED BY <2>6, <4>1, <4>2
    <3> QED BY <3>4, <3>5
  <2> QED BY <2>5, <2>6 DEF DivisionNames
<1> QED BY <1>4, <1>5

(* The flops of the divider hold numbers. *)
DivTypes ==
  /\ div \in [busy : BOOLEAN, dividend : Int, divisor : Int, quotient : Int, mask : Int,
              isDiv : BOOLEAN, invert : BOOLEAN]
  /\ valid \in BOOLEAN
  /\ asked # Nothing => asked.op \in DivisionNames /\ asked.a \in Number /\ asked.b \in Number

(* A division under way: what is found of the quotient and what is left of *)
(* the dividend make up the dividend that was loaded, and the divisor      *)
(* stands at the place of the mask.                                        *)
Working(d, x, v) ==
  /\ d.busy
  /\ d.dividend \in Nat /\ d.dividend < 2^W /\ d.quotient \in Nat
  /\ x = v * d.quotient + d.dividend
  /\ d.mask \in Masks \cup {0}
  /\ d.mask # 0 =>
       /\ d.divisor = v * d.mask
       /\ v # 0 => d.dividend < 2 * d.divisor
       /\ v = 0 => d.quotient = 2^W - 2 * d.mask
  /\ d.mask = 0 =>
       /\ v # 0 => d.dividend < v
       /\ v = 0 => d.quotient = 2^W - 1

(* What is to be shown of the division, and with which sign. *)
Kind(d, op, a, b) ==
  /\ d.isDiv <=> op \in {"div", "divu"}
  /\ d.invert <=> \/ op = "div" /\ Negative(a) # Negative(b) /\ b # 0
                  \/ op = "rem" /\ Negative(a)

(* The division that is waited for is under way, or its answer is shown.   *)
OwnDivision ==
  asked # Nothing =>
    \/ /\ ~ valid
       /\ Working(div, Magnitude(asked.op, asked.a), Magnitude(asked.op, asked.b))
       /\ Kind(div, asked.op, asked.a, asked.b)
    \/ /\ valid /\ ~ div.busy
       /\ result = SimDivide(asked.op, asked.a, asked.b)

(* The invariant of the divider. *)
DivInv == DivTypes /\ OwnDivision

(* A division begins with nothing found. *)
LEMMA LoadedFacts ==
  ASSUME NEW op \in DivisionNames, NEW a \in Number, NEW b \in Number
  PROVE  /\ Working(Loaded(op, a, b), Magnitude(op, a), Magnitude(op, b))
         /\ Kind(Loaded(op, a, b), op, a, b)
         /\ Loaded(op, a, b) \in [busy : BOOLEAN, dividend : Int, divisor : Int, quotient : Int,
                                  mask : Int, isDiv : BOOLEAN, invert : BOOLEAN]
<1> DEFINE x == Magnitude(op, a)
           v == Magnitude(op, b)
           h == 2^(W - 1)
           d == Loaded(op, a, b)
<1>1. /\ h \in Nat /\ h >= 2 /\ 2^W = 2 * h /\ x \in Nat /\ x < 2 * h /\ v \in Nat
      /\ h \in Masks
  BY PowerFacts, MagnitudeFacts, MaskFacts DEF Number
<1>2. /\ d.busy /\ d.dividend = x /\ d.divisor = v * h /\ d.quotient = 0 /\ d.mask = h
      /\ Kind(d, op, a, b)
  BY DEF Loaded, Kind
<1>3. d \in [busy : BOOLEAN, dividend : Int, divisor : Int, quotient : Int, mask : Int,
             isDiv : BOOLEAN, invert : BOOLEAN]
  <2>1. v * h \in Int
    BY <1>1
  <2> QED BY <1>1, <2>1 DEF Loaded
<1>4. Working(d, x, v)
  <2> HIDE DEF x, v, h, d
  <2>1. x = v * 0 + x
    BY <1>1
  <2>2. v # 0 => x < 2 * (v * h)
    <3>1. v # 0 => v * h >= h /\ v * h \in Int
      BY <1>1, SMT
    <3> QED BY <1>1, <3>1
  <2>3. 0 = 2^W - 2 * h
    BY <1>1
  <2> QED BY <1>1, <1>2, <2>1, <2>2, <2>3 DEF Working
<1> QED BY <1>2, <1>3, <1>4

(* One step of the division. *)
LEMMA SteppedFacts ==
  ASSUME DivTypes, NEW x \in Nat, NEW v \in Nat, Working(div, x, v), div.mask # 0
  PROVE  Working(Stepped, x, v)
<1> DEFINE r == div.dividend
           q == div.quotient
           k == div.mask
           s == div.divisor
           fits == s <= r
<1>1. /\ r \in Nat /\ q \in Nat /\ r < 2^W /\ x = v * q + r /\ k \in Masks /\ s = v * k
      /\ v # 0 => r < 2 * s
      /\ v = 0 => q = 2^W - 2 * k
  BY DEF Working
<1>2. k \in Nat /\ k > 0 /\ (k = 1 \/ (k \div 2 \in Masks /\ k = 2 * (k \div 2) /\ k \div 2 > 0))
  BY <1>1, MaskFacts
<1>3. 2^W \in Nat
  BY PowerFacts
<1>4. /\ Stepped.busy = div.busy
      /\ Stepped.dividend = IF fits THEN Wrap(r - s) ELSE r
      /\ Stepped.quotient = IF fits THEN q + k ELSE q
      /\ Stepped.divisor = s \div 2
      /\ Stepped.mask = k \div 2
  BY DEF Stepped, DivTypes
<1>5. div.busy
  BY DEF Working
<1> HIDE DEF r, q, k, s
<1>6. s \in Nat
  BY <1>1, <1>2, SMT
<1>7. fits => Wrap(r - s) = r - s /\ r - s \in Nat
  <2>1. fits => r - s \in Number
    BY <1>1, <1>3, <1>6 DEF Number
  <2> QED BY <2>1, WrapOfNumber
<1> DEFINE r2 == IF fits THEN r - s ELSE r
           q2 == IF fits THEN q + k ELSE q
<1>8. Stepped.dividend = r2 /\ Stepped.quotient = q2
  BY <1>4, <1>7
<1>9. r2 \in Nat /\ r2 < 2^W /\ q2 \in Nat /\ r2 <= r
  BY <1>1, <1>2, <1>3, <1>6
<1>10. x = v * q2 + r2
  <2>1. CASE fits
    <3>1. v * (q + k) = v * q + v * k /\ v * q \in Int
      BY <1>1, <1>2, SMT
    <3> QED BY <1>1, <1>6, <2>1, <3>1
  <2>2. CASE ~ fits
    BY <1>1, <2>2
  <2> QED BY <2>1, <2>2
<1>11. v # 0 => r2 < s
  BY <1>1, <1>6
<1>12. v = 0 => fits /\ q2 = 2^W - k
  <2>1. v = 0 => s = 0
    BY <1>1, <1>2
  <2> QED BY <1>1, <1>2, <1>3, <2>1
<1> HIDE DEF r2, q2
<1>13. CASE k = 1
  <2>1. k \div 2 = 0 /\ s = v
    BY <1>1, <1>13
  <2> QED BY <1>4, <1>5, <1>8, <1>9, <1>10, <1>11, <1>12, <1>13, <2>1 DEF Working
<1>14. CASE k # 1
  <2> DEFINE j == k \div 2
  <2>1. j \in Masks /\ k = 2 * j /\ j > 0 /\ j \in Nat
    BY <1>2, <1>14
  <2> HIDE DEF j
  <2>2. s = 2 * (v * j) /\ v * j \in Int
    BY <1>1, <2>1, SMT
  <2>3. s \div 2 = v * j
    BY <2>2
  <2>4. Stepped.mask = j /\ Stepped.divisor = v * j
    BY <1>4, <2>3 DEF j
  <2> QED BY <1>4, <1>5, <1>8, <1>9, <1>10, <1>11, <1>12, <2>1, <2>2, <2>4 DEF Working
<1> QED BY <1>13, <1>14

LEMMA SteppedTypes ==
  ASSUME DivTypes
  PROVE  /\ Stepped \in [busy : BOOLEAN, dividend : Int, divisor : Int, quotient : Int, mask : Int,
                         isDiv : BOOLEAN, invert : BOOLEAN]
         /\ Stepped.isDiv = div.isDiv /\ Stepped.invert = div.invert
<1>1. /\ div.dividend - div.divisor \in Int /\ div.quotient + div.mask \in Int
      /\ div.divisor \div 2 \in Int /\ div.mask \div 2 \in Int
  BY DEF DivTypes
<1>2. Wrap(div.dividend - div.divisor) \in Int
  BY <1>1, WrapFacts, PowerFacts DEF Number
<1> QED BY <1>1, <1>2 DEF Stepped, DivTypes

(* The answer of a division is shown when its mask has gone. *)
LEMMA QuotientShown ==
  ASSUME DivTypes, NEW op \in DivisionNames, NEW a \in Number, NEW b \in Number,
         Working(div, Magnitude(op, a), Magnitude(op, b)), Kind(div, op, a, b), div.mask = 0
  PROVE  DivResult = SimDivide(op, a, b)
<1>1. /\ div.quotient \in Nat /\ div.dividend \in Nat /\ div.invert \in BOOLEAN
      /\ Magnitude(op, a) = Magnitude(op, b) * div.quotient + div.dividend
      /\ Magnitude(op, b) # 0 => div.dividend < Magnitude(op, b)
      /\ Magnitude(op, b) = 0 => div.quotient = 2^W - 1
  BY DEF Working, DivTypes
<1>2. Magnitude(op, b) = 0 <=> b = 0
  BY MagnitudeFacts
<1>3. /\ div.isDiv <=> op \in {"div", "divu"}
      /\ div.invert <=> \/ op = "div" /\ Negative(a) # Negative(b) /\ b # 0
                        \/ op = "rem" /\ Negative(a)
  BY DEF Kind
<1> DEFINE size == IF op \in {"div", "divu"} THEN div.quotient ELSE div.dividend
<1>4. (IF div.invert THEN Wrap(-size) ELSE size) = SimDivide(op, a, b)
  <2> DEFINE q == div.quotient
             r == div.dividend
             inv == div.invert
  <2>1. /\ q \in Nat /\ r \in Nat /\ inv \in BOOLEAN
        /\ Magnitude(op, a) = Magnitude(op, b) * q + r
        /\ b # 0 => r < Magnitude(op, b)
        /\ b = 0 => q = 2^W - 1
        /\ inv <=> \/ op = "div" /\ Negative(a) # Negative(b) /\ b # 0
                   \/ op = "rem" /\ Negative(a)
    BY <1>1, <1>2, <1>3
  <2> HIDE DEF q, r, inv
  <2>2. (IF inv THEN Wrap(-(IF op \in {"div", "divu"} THEN q ELSE r))
         ELSE IF op \in {"div", "divu"} THEN q ELSE r) = SimDivide(op, a, b)
    BY <2>1, DivisionsAgree
  <2> QED BY <2>2 DEF q, r, inv
<1>5. DivResult = IF div.invert THEN Wrap(-size) ELSE size
  BY <1>3 DEF DivResult
<1> QED BY <1>4, <1>5

LEMMA DivInvNext ==
  ASSUME AbandonAtEnd = FALSE, DivInv, [ExecuteNext]_executeVars
  PROVE  DivInv'
<1>1. CASE UNCHANGED divVars
  BY <1>1 DEF DivInv, DivTypes, OwnDivision, divVars
<1>2. ASSUME NEW d \in Divisions \cup Again, Divide(d) PROVE DivInv'
  <2>1. d.op \in DivisionNames /\ d.a \in Number /\ d.b \in Number
    BY DividerAssumption
  <2>2. /\ ~ DivComplete /\ div' = Loaded(d.op, d.a, d.b) /\ asked' = d /\ valid' = DivComplete
    BY <1>2 DEF Divide, DivOutput
  <2>3. valid' = FALSE
    BY <2>2 DEF DivComplete
  <2>4. DivTypes'
    BY <2>1, <2>2, <2>3, LoadedFacts DEF DivTypes
  <2>5. OwnDivision'
    BY <2>1, <2>2, <2>3, LoadedFacts DEF OwnDivision
  <2> QED BY <2>4, <2>5 DEF DivInv
<1>3. ASSUME NEW squash \in BOOLEAN, DivideOn(squash) PROVE DivInv'
  <2>1. /\ div' = IF DivComplete THEN [div EXCEPT !.busy = FALSE]
                  ELSE IF div.busy THEN Stepped ELSE div
        /\ asked' = IF valid \/ squash THEN Nothing ELSE asked
        /\ valid' = DivComplete
        /\ result' = IF DivComplete THEN DivResult ELSE result
    BY <1>3 DEF DivideOn, DivOutput
  <2>2. DivTypes
    BY DEF DivInv
  <2>3. DivTypes'
    <3>1. div' \in [busy : BOOLEAN, dividend : Int, divisor : Int, quotient : Int, mask : Int,
                    isDiv : BOOLEAN, invert : BOOLEAN]
      <4>1. [div EXCEPT !.busy = FALSE] \in
              [busy : BOOLEAN, dividend : Int, divisor : Int, quotient : Int, mask : Int,
               isDiv : BOOLEAN, invert : BOOLEAN]
        BY <2>2 DEF DivTypes
      <4> QED BY <2>1, <2>2, <4>1, SteppedTypes DEF DivTypes
    <3>2. valid' \in BOOLEAN
      BY <2>1, <2>2 DEF DivComplete, DivTypes
    <3> QED BY <2>1, <2>2, <3>1, <3>2 DEF DivTypes
  <2>4. ASSUME asked' # Nothing
        PROVE  \/ /\ ~ valid'
                  /\ Working(div', Magnitude(asked'.op, asked'.a), Magnitude(asked'.op, asked'.b))
                  /\ Kind(div', asked'.op, asked'.a, asked'.b)
               \/ /\ valid' /\ ~ div'.busy
                  /\ result' = SimDivide(asked'.op, asked'.a, asked'.b)
    <3>1. asked' = asked /\ asked # Nothing /\ ~ valid
      BY <2>1, <2>4
    <3>2. asked.op \in DivisionNames /\ asked.a \in Number /\ asked.b \in Number
      BY <2>2, <3>1 DEF DivTypes
    <3>3. /\ Working(div, Magnitude(asked.op, asked.a), Magnitude(asked.op, asked.b))
          /\ Kind(div, asked.op, asked.a, asked.b)
      BY <3>1 DEF DivInv, OwnDivision
    <3>4. div.busy
      BY <3>3 DEF Working
    <3>5. Magnitude(asked.op, asked.a) \in Nat /\ Magnitude(asked.op, asked.b) \in Nat
      BY <3>2, MagnitudeFacts, WrapOfNumber
    <3>6. CASE div.mask = 0
      <4>1. DivComplete
        BY <3>4, <3>6 DEF DivComplete
      <4>2. DivResult = SimDivide(asked.op, asked.a, asked.b)
        BY <2>2, <3>2, <3>3, <3>6, QuotientShown
      <4>3. [div EXCEPT !.busy = FALSE].busy = FALSE
        BY <2>2 DEF DivTypes
      <4> QED BY <2>1, <3>1, <4>1, <4>2, <4>3
    <3>7. CASE div.mask # 0
      <4>1. ~ DivComplete
        BY <3>7 DEF DivComplete
      <4>2. Working(Stepped, Magnitude(asked.op, asked.a), Magnitude(asked.op, asked.b))
        BY <2>2, <3>3, <3>5, <3>7, SteppedFacts
      <4>3. Kind(Stepped, asked.op, asked.a, asked.b)
        BY <2>2, <3>3, SteppedTypes DEF Kind
      <4> QED BY <2>1, <3>1, <3>4, <4>1, <4>2, <4>3
    <3> QED BY <3>6, <3>7
  <2>5. OwnDivision'
    BY <2>4 DEF OwnDivision
  <2> QED BY <2>3, <2>5 DEF DivInv
<1> QED BY <1>1, <1>2, <1>3
        DEF ExecuteNext, executeVars, divVars, Decode, Operate, AccessMemory, Retire, StartDivision,
            DivisionStep

(* riscv_divider.v answers the division that the pipeline waits for, with  *)
(* the quotient or the remainder that riscv.cpp computes, whatever was     *)
(* squashed or replaced before, for all operands of up to 32 bits.  No     *)
(* division starts in the cycle in which an abandoned one completes        *)
(* (AbandonAtEnd).                                                         *)
THEOREM DivisionIsOwnCorrect ==
  ASSUME AbandonAtEnd = FALSE
  PROVE  ExecuteSpec => []DivisionIsOwn
<1>1. ExecuteInit => DivInv
  <2> SUFFICES ASSUME DivInit PROVE DivInv
    BY DEF ExecuteInit
  <2>1. DivReset \in [busy : BOOLEAN, dividend : Int, divisor : Int, quotient : Int, mask : Int,
                      isDiv : BOOLEAN, invert : BOOLEAN]
    BY DEF DivReset
  <2>2. div = DivReset /\ valid = FALSE /\ asked = Nothing
    BY DEF DivInit
  <2> QED BY <2>1, <2>2 DEF DivInv, DivTypes, OwnDivision
<1>2. DivInv /\ [ExecuteNext]_executeVars => DivInv'
  BY DivInvNext
<1>3. DivInv => DivisionIsOwn
  BY DEF DivInv, OwnDivision, DivisionIsOwn
<1> QED BY <1>1, <1>2, <1>3, PTL DEF ExecuteSpec

---------------------------------------------------------------------------
(* Traps, CSRs and interrupts: the invariant.                               *)

AtMostOne(S) == \A x, y \in S : x = y

IsSim(s) ==
  s = [pc |-> s.pc, pcx |-> s.pcx, mpriv |-> s.mpriv, csr |-> s.csr, mtime |-> s.mtime,
       mtimecmp |-> s.mtimecmp, brk |-> s.brk, exit |-> s.exit]

Types ==
  /\ AtMostOne(dec) /\ AtMostOne(e1) /\ AtMostOne(e2) /\ AtMostOne(wb)
  /\ mpriv \in 0 .. 3 /\ GoodRegisters(reg)
  /\ IsSim(sim) /\ GoodRegisters(sim.csr)
  /\ fetchPc \in Pcs /\ sim.pc \in Pcs
  /\ late \subseteq {"ext", "timer"}

(* Delegation is that of boot code. *)
Delegation ==
  /\ GoodDelegation(reg["mideleg"])
  /\ OwnLevel(reg["mideleg"], reg["mie"])
  /\ \E b \in Boots : reg["mideleg"] = b.csr["mideleg"]

(* Instructions of the program at the current level. *)
Fits(i) ==
  /\ Tame(mpriv, i)
  /\ i.op = "csrrw" => i.csr \notin Views
  /\ i.op \in CsrOps /\ i.csr = "satp" => ~i.rd
  /\ i.op \notin CsrOps => Backing(i.csr) # "mip"
  /\ ~Wide(i)

IsInterrupt(x) == x.exc.type = "interrupt"

(* What the CSR unit answers an instruction, from the simulator's          *)
(* registers.                                                              *)
Answered(i, answer, wdata) ==
  i.op \in CsrOps => answer = ReadCsr(sim, i.csr) /\ wdata = Updated(i.op, answer, i.data)

(* The exception an instruction comes to. *)
Outcome(i) ==
  IF i.op = "pagefault" THEN Exc("trap", MCAUSE_PAGE_FAULT_LOAD) ELSE EarlyException(i)

(* The stages hold what was answered to their instructions. *)
Items ==
  /\ ~branchCsr => \A d \in dec : Fits(d.i)
  /\ \A x \in e1 :
       /\ Fits(x.i)
       /\ ~x.intr =>
            /\ csrE1.write <=> x.i.op \in CsrOps
            /\ csrE1.exc = EarlyException(x.i)
            /\ Answered(x.i, csrE1.result, csrE1.wdata)
  /\ \A x \in e2 :
       /\ Fits(x.i)
       /\ ~IsInterrupt(x) =>
            /\ x.write <=> x.i.op \in CsrOps
            /\ x.exc = EarlyException(x.i)
            /\ Answered(x.i, x.result, x.wdata)
  /\ \A x \in wb :
       /\ Fits(x.i)
       /\ ~IsInterrupt(x) =>
            /\ x.write <=> x.i.op \in CsrOps
            /\ x.exc = Outcome(x.i)
            /\ Answered(x.i, x.result, x.wdata)
            /\ x.rd \in BOOLEAN /\ (x.i.op \in CsrOps => (x.rd <=> x.i.rd))

(* Behind an exception in writeback the pipeline is empty, and stays so    *)
(* until fetch is at the target.                                           *)
Flushed ==
  /\ squashQ <=> \E x \in wb : x.exc # None
  /\ squashQ => e1 = {} /\ e2 = {}
  /\ branchCsr => ~squashQ /\ wb = {} /\ e1 = {} /\ e2 = {}

(* Where the program is: each stage holds the instruction after that of    *)
(* the stage in front of it; one replaced by an interrupt is to come.      *)
AfterWb == IF wb = {} THEN sim.pc ELSE Plus4[sim.pc]
AfterE2 == IF \E x \in e2 : ~IsInterrupt(x) THEN Plus4[AfterWb] ELSE AfterWb
AfterE1 == IF \E x \in e1 : ~x.intr THEN Plus4[AfterE2] ELSE AfterE2
AfterDec == IF dec = {} THEN AfterE1 ELSE Plus4[AfterE1]

Path ==
  /\ \A x \in wb : x.pc = sim.pc
  /\ branchCsr => fetchPc = sim.pc
  /\ ~squashQ /\ ~branchCsr =>
       /\ \A x \in e2 : x.pc = AfterWb
       /\ \A x \in e1 : x.pc = AfterE2
       /\ \A d \in dec : d.pc = AfterE1
       /\ fetchPc = AfterDec
  /\ \A d \in dec : d.pc \in Pcs
  /\ \A x \in e1 : x.pc \in Pcs
  /\ \A x \in e2 : x.pc \in Pcs
  /\ \A x \in wb : x.pc \in Pcs

IsCsr(i) == i.op \in CsrClass

(* A CSR operation is alone from issue to writeback. *)
Alone ==
  /\ \A x \in e1 : IsCsr(x.i) /\ ~x.intr => csrPending
  /\ \A x \in e2 : IsCsr(x.i) /\ ~IsInterrupt(x) => csrPending /\ e1 = {}
  /\ \A x \in wb : IsCsr(x.i) /\ x.exc = None => csrPending /\ e1 = {} /\ e2 = {}

(* An interrupt launched stays pending, and its level stays the same, for  *)
(* nothing in front of it writes a register.                               *)
Pending ==
  /\ takeInterrupt /\ ~branchCsr => Masked # {} /\ ~csrPending
  /\ \A x \in e1 : x.intr =>
       /\ Masked # {}
       /\ \A y \in e2 : IsInterrupt(y) \/ ~IsCsr(y.i)
       /\ \A y \in wb : ~IsCsr(y.i)
  /\ \A x \in e2 : IsInterrupt(x) => Masked # {} /\ \A y \in wb : ~IsCsr(y.i)
  /\ \A x \in wb : IsInterrupt(x) => Masked # {} /\ irqPriv = IrqPriv

(* The bits of mip that lines set for the simulator. *)
Bits(d, lines) ==
  (IF "timer" \in lines
   THEN {IF IRQ_S_TIMER \in d THEN IRQ_S_TIMER ELSE IRQ_M_TIMER} ELSE {})
  \cup (IF "ext" \in lines THEN {IRQ_M_EXT} ELSE {})

(* An access of mip that will be executed has read it. *)
MipRead ==
  \/ \E x \in e1 : ~x.intr /\ Touches(x, "mip")
  \/ \E x \in e2 : x.exc = None /\ Touches(x, "mip")
  \/ \E x \in wb : x.exc = None /\ Touches(x, "mip")

(* The simulator has still to be told of what the core has buffered, and   *)
(* of nothing else; the buffer is empty before mip is read again.          *)
Buffered ==
  /\ MipRead => mipUpd /\ mipNext = Bits(reg["mideleg"], late)
  /\ ~MipRead => late = {} /\ mipNext \subseteq reg["mip"]
  /\ mipUpd => MipRead \/ squashQ
  /\ ~MipRead /\ mipNext # {} /\ ~squashQ /\ ~branchCsr => \A d \in dec : ~Touches(d, "mip")
  /\ (\E d \in dec : Touches(d, "mip")) => ~MipRead

IInv ==
  /\ SameState /\ Types /\ Delegation /\ Items /\ Flushed /\ Path /\ Alone /\ Pending /\ Buffered

---------------------------------------------------------------------------
(* Words.                                                                  *)

LEMMA WeightFacts ==
  /\ Weights[1] = 1 /\ Weights[2] = 2 /\ Weights[3] = 4 /\ Weights[4] = 8
  /\ Weights[5] = 16 /\ Weights[6] = 32 /\ Weights[7] = 64 /\ Weights[8] = 128
BY DEF Weights

(* Numbers of causes take four bits. *)
LEMMA WordFacts ==
  /\ \A n : Word(n) \subseteq 0 .. 7
  /\ \A n \in 0 .. 15 : Word(n) \subseteq 0 .. 3
<1>1. \A n : Word(n) \subseteq 0 .. 7
  BY DEF Word
<1>2. ASSUME NEW n \in 0 .. 15 PROVE Word(n) \subseteq 0 .. 3
  <2> SUFFICES ASSUME NEW b \in Word(n), b \notin 0 .. 3 PROVE FALSE
    OBVIOUS
  <2>1. b \in {4, 5, 6, 7} /\ (n \div Weights[b + 1]) % 2 = 1
    BY DEF Word
  <2>2. n \div 16 = 0 /\ n \div 32 = 0 /\ n \div 64 = 0 /\ n \div 128 = 0
    OBVIOUS
  <2>3. CASE b = 4
    BY <2>1, <2>2, <2>3, WeightFacts
  <2>4. CASE b = 5
    BY <2>1, <2>2, <2>4, WeightFacts
  <2>5. CASE b = 6
    BY <2>1, <2>2, <2>5, WeightFacts
  <2>6. CASE b = 7
    BY <2>1, <2>2, <2>6, WeightFacts
  <2> QED
    BY <2>1, <2>3, <2>4, <2>5, <2>6
<1> QED
  BY <1>1, <1>2

LEMMA SmallWords ==
  /\ Word(0) = {} /\ Word(1) = {0} /\ Word(2) = {1} /\ Word(3) = {0, 1}
<1>1. ASSUME NEW n \in 0 .. 3
      PROVE  \A b : b \in Word(n) <=> \/ b = 0 /\ n \in {1, 3}
                                      \/ b = 1 /\ n \in {2, 3}
  <2> SUFFICES ASSUME NEW b PROVE b \in Word(n) <=> (b = 0 /\ n \in {1, 3}) \/ (b = 1 /\ n \in {2, 3})
    OBVIOUS
  <2>1. b \in Word(n) => b \in {0, 1, 2, 3}
    BY WordFacts
  <2>2. CASE b = 0
    <3>1. b \in Word(n) <=> (n \div 1) % 2 = 1
      BY <2>2, WeightFacts DEF Word
    <3> QED
      BY <2>2, <3>1
  <2>3. CASE b = 1
    <3>1. b \in Word(n) <=> (n \div 2) % 2 = 1
      BY <2>3, WeightFacts DEF Word
    <3> QED
      BY <2>3, <3>1
  <2>4. CASE b = 2
    <3>1. b \in Word(n) <=> (n \div 4) % 2 = 1
      BY <2>4, WeightFacts DEF Word
    <3> QED
      BY <2>4, <3>1
  <2>5. CASE b = 3
    <3>1. b \in Word(n) <=> (n \div 8) % 2 = 1
      BY <2>5, WeightFacts DEF Word
    <3> QED
      BY <2>5, <3>1
  <2> QED
    BY <2>1, <2>2, <2>3, <2>4, <2>5
<1> QED
  BY <1>1

LEMMA PcsFacts ==
  /\ {} \in Pcs
  /\ \A pc \in Pcs : pc \subseteq AllOnes /\ Plus4[pc] \in Pcs
<1>1. \A pc \in Pcs : pc \subseteq AllOnes
  BY WordFacts DEF Pcs, AllOnes
<1>2. ASSUME NEW pc \in Pcs PROVE Plus4[pc] \in Pcs
  <2>1. \E next \in Pcs : \E n \in {0, 4, 8} : pc = Word(n) /\ next = Word((n + 4) % 12)
    <3>1. PICK n \in {0, 4, 8} : pc = Word(n)
      BY DEF Pcs
    <3>2. (n + 4) % 12 \in {0, 4, 8}
      OBVIOUS
    <3> QED
      BY <3>1, <3>2 DEF Pcs
  <2> QED
    BY <2>1 DEF Plus4
<1> QED
  BY <1>1, <1>2, SmallWords DEF Pcs

LEMMA LevelFacts == \A sr : SR_GET_MPP(sr) \in 0 .. 3
<1> SUFFICES ASSUME NEW sr PROVE \E level \in 0 .. 3 : Mpp(level) = sr \cap SR_MPP
  BY DEF SR_GET_MPP
<1>1. Mpp(0) = {} /\ Mpp(1) = {11} /\ Mpp(2) = {12} /\ Mpp(3) = {11, 12}
  BY SmallWords DEF Mpp
<1>2. sr \cap SR_MPP \in {{}, {11}, {12}, {11, 12}}
  BY DEF SR_MPP
<1> QED
  BY <1>1, <1>2

---------------------------------------------------------------------------
(* The simulator, seen from its registers.                                 *)

(* r with more interrupts pending. *)
Raise(r, bits) == [r EXCEPT !["mip"] = @ \cup bits]

LEMMA ToldFacts ==
  ASSUME NEW s, IsSim(s), NEW lines
  PROVE  /\ IsSim(Told(s, lines))
         /\ Told(s, lines).pc = s.pc /\ Told(s, lines).mpriv = s.mpriv
         /\ s.csr \in [Csr -> SUBSET AllOnes] =>
              Told(s, lines).csr = Raise(s.csr, Bits(s.csr["mideleg"], lines))
<1> DEFINE t == IF "timer" \in lines THEN RaiseTimer(s) ELSE s
           timer == IF "timer" \in lines THEN {TimerBit(s)} ELSE {}
<1>1. /\ IsSim(t) /\ t.pc = s.pc /\ t.mpriv = s.mpriv
      /\ t.csr = IF "timer" \in lines THEN [s.csr EXCEPT !["mip"] = @ \cup {TimerBit(s)}] ELSE s.csr
  BY DEF IsSim, RaiseTimer
<1>2. /\ IsSim(Told(s, lines)) /\ Told(s, lines).pc = t.pc /\ Told(s, lines).mpriv = t.mpriv
      /\ Told(s, lines).csr =
           IF "ext" \in lines THEN [t.csr EXCEPT !["mip"] = @ \cup {IRQ_M_EXT}] ELSE t.csr
  <2> HIDE DEF t
  <2>1. Told(s, lines) = IF "ext" \in lines THEN SetInterrupt(t) ELSE t
    BY DEF Told, t
  <2> QED
    BY <1>1, <2>1 DEF IsSim, SetInterrupt
<1>3. ASSUME s.csr \in [Csr -> SUBSET AllOnes]
      PROVE  Told(s, lines).csr = Raise(s.csr, Bits(s.csr["mideleg"], lines))
  <2>1. Bits(s.csr["mideleg"], lines) = timer \cup (IF "ext" \in lines THEN {IRQ_M_EXT} ELSE {})
    BY DEF Bits, TimerBit
  <2>2. "mip" \in Csr
    BY DEF Csr
  <2> HIDE DEF timer, t
  <2>3. t.csr = [s.csr EXCEPT !["mip"] = @ \cup timer]
    BY <1>1, <1>3, <2>2 DEF timer
  <2>4. Told(s, lines).csr =
          [s.csr EXCEPT !["mip"] = @ \cup timer \cup (IF "ext" \in lines THEN {IRQ_M_EXT} ELSE {})]
    BY <1>2, <1>3, <2>2, <2>3
  <2> QED
    BY <1>3, <2>1, <2>2, <2>4 DEF Raise
<1> QED
  BY <1>1, <1>2, <1>3

LEMMA RaiseFacts ==
  ASSUME NEW r \in [Csr -> SUBSET AllOnes], NEW bits
  PROVE  /\ Raise(r, bits)["mip"] = r["mip"] \cup bits
         /\ \A a \in Csr : a # "mip" => Raise(r, bits)[a] = r[a]
         /\ \A more : Raise(Raise(r, bits), more) = Raise(r, bits \cup more)
         /\ bits \subseteq r["mip"] => Raise(r, bits) = r
BY DEF Raise, Csr

LEMMA BitsFacts ==
  ASSUME NEW d, NEW lines
  PROVE  /\ Bits(d, lines) \subseteq Mask("mip")
         /\ \A more : Bits(d, lines \cup more) = Bits(d, lines) \cup Bits(d, more)
         /\ Bits(d, {}) = {}
<1>1. Bits(d, lines) \subseteq {IRQ_S_TIMER, IRQ_M_TIMER, IRQ_M_EXT}
  BY DEF Bits
<1>2. Mask("mip") = {1, 3, 5, 7, 9, 11}
  BY DEF Mask, IRQ_MASK, S_Irqs, M_Irqs, IRQ_S_SOFT, IRQ_S_TIMER, IRQ_S_EXT, IRQ_M_SOFT,
         IRQ_M_TIMER, IRQ_M_EXT
<1>3. ASSUME NEW more PROVE Bits(d, lines \cup more) = Bits(d, lines) \cup Bits(d, more)
  BY DEF Bits
<1> QED
  BY <1>1, <1>2, <1>3 DEF Bits, IRQ_S_TIMER, IRQ_M_TIMER, IRQ_M_EXT

(* The core raises the same bits. *)
LEMMA RaisedIsBits ==
  ASSUME GoodDelegation(reg["mideleg"]), NEW lines
  PROVE  Raised(lines) = Bits(reg["mideleg"], lines)
BY DEF GoodDelegation, Raised, Bits

---------------------------------------------------------------------------
(* Traps and returns, the same for both: registers r at level m.           *)

MachineTrap(r, m, pc, cause) ==
  [r EXCEPT !["mstatus"] = (Saved(@, SR_MIE, SR_MPIE) \ SR_MPP) \cup Mpp(m),
            !["mepc"] = pc, !["mcause"] = cause]

SuperTrap(r, m, pc, cause, tval) ==
  [r EXCEPT !["mstatus"] = (Saved(@, SR_SIE, SR_SPIE) \ SR_SPP)
                              \cup (IF m = PRIV_SUPER THEN SR_SPP ELSE {}),
            !["sepc"] = pc, !["scause"] = cause, !["stval"] = tval]

MachineReturn(r) ==
  [r EXCEPT !["mstatus"] = (Popped(@, SR_MIE, SR_MPIE) \ SR_MPP) \cup Mpp(PRIV_USER)]

SuperReturn(r) ==
  [r EXCEPT !["mstatus"] = Popped(@, SR_SIE, SR_SPIE) \ SR_SPP]

(* A trap or a return leaves the interrupts as they are. *)
Kept(r, q) == \A a \in {"mip", "mie", "mideleg"} : q[a] = r[a]

LEMMA CauseFacts ==
  ASSUME NEW n \in 0 .. 15
  PROVE  /\ CauseWord(FALSE, n) \subseteq {Interrupt} \cup (0 .. 3)
         /\ CauseWord(TRUE, n) \subseteq {Interrupt} \cup (0 .. 3)
BY WordFacts DEF CauseWord

LEMMA StatusFacts ==
  ASSUME NEW r, r \subseteq AllOnes, NEW m \in 0 .. 3
  PROVE  /\ (Saved(r, SR_MIE, SR_MPIE) \ SR_MPP) \cup Mpp(m) \subseteq AllOnes
         /\ (Saved(r, SR_SIE, SR_SPIE) \ SR_SPP) \cup (IF m = PRIV_SUPER THEN SR_SPP ELSE {})
               \subseteq AllOnes
         /\ (Popped(r, SR_MIE, SR_MPIE) \ SR_MPP) \cup Mpp(PRIV_USER) \subseteq AllOnes
         /\ Popped(r, SR_SIE, SR_SPIE) \ SR_SPP \subseteq AllOnes
<1>1. Mpp(m) \subseteq AllOnes /\ Mpp(PRIV_USER) \subseteq AllOnes
  BY WordFacts, PRIV_USER \in 0 .. 15 DEF Mpp, AllOnes, PRIV_USER
<1>2. /\ SR_MIE \subseteq AllOnes /\ SR_MPIE \subseteq AllOnes /\ SR_SIE \subseteq AllOnes
      /\ SR_SPIE \subseteq AllOnes /\ SR_SPP \subseteq AllOnes
  BY DEF AllOnes, SR_MIE, SR_MPIE, SR_SIE, SR_SPIE, SR_SPP
<1> QED
  BY <1>1, <1>2 DEF Saved, Popped

LEMMA GoodTraps ==
  ASSUME NEW r, GoodRegisters(r), NEW m \in 0 .. 3, NEW pc \in Pcs,
         NEW cause, cause \subseteq {Interrupt} \cup (0 .. 3), NEW tval, tval \subseteq AllOnes
  PROVE  /\ GoodRegisters(MachineTrap(r, m, pc, cause)) /\ Kept(r, MachineTrap(r, m, pc, cause))
         /\ GoodRegisters(SuperTrap(r, m, pc, cause, tval))
         /\ Kept(r, SuperTrap(r, m, pc, cause, tval))
<1>1. pc \subseteq AllOnes
  BY PcsFacts
<1>2. cause \subseteq AllOnes
  BY DEF Interrupt, AllOnes
<1>3. r \in [Csr -> SUBSET AllOnes] /\ (\A a \in Csr : r[a] \subseteq CoreMask(a))
      /\ \A a \in PcRegs : r[a] \in Pcs
  BY DEF GoodRegisters
<1>4. r["mstatus"] \subseteq AllOnes
  BY <1>3 DEF Csr
<1>5. PICK sr : sr = (Saved(r["mstatus"], SR_MIE, SR_MPIE) \ SR_MPP) \cup Mpp(m)
  OBVIOUS
<1>6. PICK ss : ss = (Saved(r["mstatus"], SR_SIE, SR_SPIE) \ SR_SPP)
                       \cup (IF m = PRIV_SUPER THEN SR_SPP ELSE {})
  OBVIOUS
<1>7. sr \subseteq AllOnes /\ ss \subseteq AllOnes
  BY <1>4, <1>5, <1>6, StatusFacts
<1>8. /\ CoreMask("mstatus") = AllOnes /\ CoreMask("mepc") = AllOnes
      /\ CoreMask("sepc") = AllOnes /\ CoreMask("stval") = AllOnes
      /\ CoreMask("mcause") = {Interrupt} \cup (0 .. 3)
      /\ CoreMask("scause") = {Interrupt} \cup (0 .. 3)
  BY DEF CoreMask, Mask
<1>9. PICK q : q = MachineTrap(r, m, pc, cause)
  OBVIOUS
<1>10. q = [r EXCEPT !["mstatus"] = sr, !["mepc"] = pc, !["mcause"] = cause]
  BY <1>3, <1>5, <1>9 DEF MachineTrap, Csr
<1>11. GoodRegisters(q) /\ Kept(r, q)
  <2>1. q \in [Csr -> SUBSET AllOnes]
    BY <1>1, <1>2, <1>3, <1>7, <1>10
  <2>2. \A a \in Csr : q[a] \subseteq CoreMask(a)
    BY <1>1, <1>3, <1>7, <1>8, <1>10
  <2>3. (\A a \in PcRegs : q[a] \in Pcs) /\ Kept(r, q)
    BY <1>3, <1>10 DEF PcRegs, Kept, Csr
  <2> QED
    BY <2>1, <2>2, <2>3 DEF GoodRegisters
<1>12. PICK u : u = SuperTrap(r, m, pc, cause, tval)
  OBVIOUS
<1>13. u = [r EXCEPT !["mstatus"] = ss, !["sepc"] = pc, !["scause"] = cause, !["stval"] = tval]
  BY <1>3, <1>6, <1>12 DEF SuperTrap, Csr
<1>14. GoodRegisters(u) /\ Kept(r, u)
  <2>1. u \in [Csr -> SUBSET AllOnes]
    BY <1>1, <1>2, <1>3, <1>7, <1>13
  <2>2. \A a \in Csr : u[a] \subseteq CoreMask(a)
    BY <1>1, <1>3, <1>7, <1>8, <1>13
  <2>3. (\A a \in PcRegs : u[a] \in Pcs) /\ Kept(r, u)
    BY <1>3, <1>13 DEF PcRegs, Kept, Csr
  <2> QED
    BY <2>1, <2>2, <2>3 DEF GoodRegisters
<1> QED
  BY <1>9, <1>11, <1>12, <1>14

LEMMA GoodReturns ==
  ASSUME NEW r, GoodRegisters(r)
  PROVE  /\ GoodRegisters(MachineReturn(r)) /\ Kept(r, MachineReturn(r))
         /\ GoodRegisters(SuperReturn(r)) /\ Kept(r, SuperReturn(r))
<1>1. r \in [Csr -> SUBSET AllOnes] /\ r["mstatus"] \subseteq AllOnes
  BY DEF GoodRegisters, Csr
<1>2. ASSUME NEW v, v \subseteq AllOnes
      PROVE  GoodRegisters([r EXCEPT !["mstatus"] = v]) /\ Kept(r, [r EXCEPT !["mstatus"] = v])
  BY <1>1, <1>2 DEF GoodRegisters, Kept, Csr, PcRegs, CoreMask, Mask
<1>3. PICK v, u : /\ v = (Popped(r["mstatus"], SR_MIE, SR_MPIE) \ SR_MPP) \cup Mpp(PRIV_USER)
                  /\ u = Popped(r["mstatus"], SR_SIE, SR_SPIE) \ SR_SPP
  OBVIOUS
<1>4. v \subseteq AllOnes /\ u \subseteq AllOnes
  BY <1>1, <1>3, StatusFacts
<1>5. MachineReturn(r) = [r EXCEPT !["mstatus"] = v] /\ SuperReturn(r) = [r EXCEPT !["mstatus"] = u]
  BY <1>1, <1>3 DEF MachineReturn, SuperReturn, Csr
<1> QED
  BY <1>2, <1>4, <1>5

LEMMA ToMachineFacts ==
  ASSUME NEW s, IsSim(s), NEW cause, NEW pc
  PROVE  LET t == ToMachine(s, cause, pc) IN
         /\ IsSim(t) /\ t.mpriv = PRIV_MACHINE /\ t.pc = s.csr["mtvec"]
         /\ t.csr = MachineTrap(s.csr, s.mpriv, pc, cause)
<1>1. ToMachine(s, cause, pc) =
        [s EXCEPT !.mpriv = PRIV_MACHINE, !.pc = s.csr["mtvec"],
                  !.csr = MachineTrap(s.csr, s.mpriv, pc, cause)]
  BY DEF ToMachine, MachineTrap
<1> QED
  BY <1>1 DEF IsSim

LEMMA ToSupervisorFacts ==
  ASSUME NEW s, IsSim(s), NEW cause, NEW pc, NEW tval
  PROVE  LET t == ToSupervisor(s, cause, pc, tval) IN
         /\ IsSim(t) /\ t.mpriv = PRIV_SUPER /\ t.pc = s.csr["stvec"]
         /\ t.csr = SuperTrap(s.csr, s.mpriv, pc, cause, tval)
<1>1. ToSupervisor(s, cause, pc, tval) =
        [s EXCEPT !.mpriv = PRIV_SUPER, !.pc = s.csr["stvec"],
                  !.csr = SuperTrap(s.csr, s.mpriv, pc, cause, tval)]
  BY DEF ToSupervisor, SuperTrap
<1> QED
  BY <1>1 DEF IsSim

LEMMA MretFacts ==
  ASSUME NEW s, IsSim(s), s.mpriv = PRIV_MACHINE
  PROVE  LET t == Mret(s) IN
         /\ IsSim(t) /\ t.mpriv = SR_GET_MPP(s.csr["mstatus"]) /\ t.pc = s.csr["mepc"]
         /\ t.csr = MachineReturn(s.csr)
BY DEF IsSim, Mret, MachineReturn

LEMMA SretFacts ==
  ASSUME NEW s, IsSim(s), s.mpriv = PRIV_SUPER
  PROVE  LET t == Sret(s) IN
         /\ IsSim(t) /\ t.pc = s.csr["sepc"]
         /\ t.mpriv = IF s.csr["mstatus"] \cap SR_SPP # {} THEN PRIV_SUPER ELSE PRIV_USER
         /\ t.csr = SuperReturn(s.csr)
BY DEF IsSim, Sret, SuperReturn

(* What an access makes of registers r. *)
Access(r, op, a, data) == [r EXCEPT ![Backing(a)] = Updated(op, @, data \cap Mask(a))]

LEMMA AccessFacts ==
  ASSUME NEW s, IsSim(s), s.csr \in [Csr -> SUBSET AllOnes],
         NEW op \in CsrOps, NEW a, Backing(a) \in Csr, NEW data
  PROVE  LET t == Advanced(AccessCsr(s, op, a, data)) IN
         /\ IsSim(t) /\ t.mpriv = s.mpriv /\ t.pc = Plus4[s.pc]
         /\ t.csr = Access(s.csr, op, a, data)
<1>1. AccessCsr(s, op, a, data) = StandardAccess(s, op, a, data)
  BY DEF AccessCsr, Backing, Csr, Constants
<1>2. LET t == StandardAccess(s, op, a, data) IN
      /\ IsSim(t) /\ t.mpriv = s.mpriv /\ t.pc = s.pc
      /\ t.csr = Access(s.csr, op, a, data)
  BY DEF IsSim, StandardAccess, Access
<1>3. ASSUME NEW t, IsSim(t)
      PROVE  LET u == Advanced(t) IN
             IsSim(u) /\ u.mpriv = t.mpriv /\ u.csr = t.csr /\ u.pc = Plus4[t.pc]
  BY <1>3 DEF IsSim, Advanced
<1> QED
  BY <1>1, <1>2, <1>3

LEMMA AdvancedFacts ==
  ASSUME NEW s, IsSim(s)
  PROVE  LET t == Advanced(s) IN
         IsSim(t) /\ t.mpriv = s.mpriv /\ t.csr = s.csr /\ t.pc = Plus4[s.pc]
BY DEF IsSim, Advanced

LEMMA SimExceptionFacts ==
  ASSUME NEW s, IsSim(s), NEW irq \in BOOLEAN, NEW n, NEW pc, NEW tval
  PROVE  LET t     == SimException(s, irq, n, pc, tval)
             cause == CauseWord(irq, n) IN
         /\ IsSim(t)
         /\ Delegated(s, irq, n) =>
              /\ t.mpriv = PRIV_SUPER /\ t.pc = s.csr["stvec"]
              /\ t.csr = SuperTrap(s.csr, s.mpriv, pc, cause, tval)
         /\ ~Delegated(s, irq, n) =>
              /\ t.mpriv = PRIV_MACHINE /\ t.pc = s.csr["mtvec"]
              /\ t.csr = MachineTrap(s.csr, s.mpriv, pc, cause)
BY ToMachineFacts, ToSupervisorFacts DEF SimException

LEMMA TrapToFacts ==
  ASSUME NEW pc, NEW cause, NEW tval
  PROVE  /\ TrapTo(PRIV_MACHINE, pc, cause, tval) = MachineTrap(reg, mpriv, pc, cause)
         /\ TrapTo(PRIV_SUPER, pc, cause, tval) = SuperTrap(reg, mpriv, pc, cause, tval)
BY DEF TrapTo, MachineTrap, SuperTrap, PRIV_MACHINE, PRIV_SUPER

(* The exceptions of the instructions of a program. *)
LEMMA OutcomeFacts ==
  ASSUME NEW i, Fits(i)
  PROVE  /\ i.op = "ecall" => Outcome(i) = Exc("trap", MCAUSE_ECALL_U + mpriv)
         /\ i.op = "ebreak" => Outcome(i) = Exc("trap", MCAUSE_BREAKPOINT)
         /\ i.op = "pagefault" =>
              /\ Outcome(i) = Exc("trap", MCAUSE_PAGE_FAULT_LOAD)
              /\ EarlyException(i) = None
         /\ i.op = "mret" => Outcome(i) = Exc("eret", PRIV_MACHINE) /\ mpriv = PRIV_MACHINE
         /\ i.op = "sret" => Outcome(i) = Exc("eret", PRIV_SUPER) /\ mpriv = PRIV_SUPER
         /\ i.op \in CsrOps => /\ Outcome(i) \in {None, Exc("fence", 0)}
                               /\ i.csr # "satp" => Outcome(i) = None
                               /\ ~CsrFault(i)
         /\ i.op = "fencei" => Outcome(i) = Exc("fence", 0)
         /\ i.op \notin {"ecall", "ebreak", "pagefault", "mret", "sret", "fencei"} \cup CsrOps =>
              Outcome(i) = None
         /\ i.op # "pagefault" => Outcome(i) = EarlyException(i)
         /\ i.op \notin CsrClass => EarlyException(i) = None
<1>1. i.op \in CsrOps => ~CsrFault(i)
  BY DEF Fits, Tame, TameAccess, CsrFault
<1>2. i.op = "mret" => mpriv = PRIV_MACHINE
  BY DEF Fits, Tame
<1>3. i.op = "sret" => mpriv = PRIV_SUPER
  BY DEF Fits, Tame
<1>4. i.op \notin CsrOps => ~CsrFault(i)
  BY DEF CsrFault
<1>5. CASE i.op \in CsrOps
  <2>1. EarlyException(i) \in {None, Exc("fence", 0)} /\ (i.csr # "satp" => EarlyException(i) = None)
    BY <1>1, <1>5 DEF EarlyException, CsrOps
  <2> QED
    BY <1>1, <1>5, <2>1 DEF Outcome, CsrOps, CsrClass
<1>6. CASE i.op \in {"mret", "sret"}
  <2>1. ~(mpriv < ReturnLevel(i.op))
    BY <1>2, <1>3, <1>6 DEF ReturnLevel, PRIV_MACHINE, PRIV_SUPER
  <2>2. EarlyException(i) = Exc("eret", ReturnLevel(i.op))
    BY <1>4, <1>6, <2>1 DEF EarlyException, CsrOps
  <2> QED
    BY <1>2, <1>3, <1>6, <2>2 DEF Outcome, ReturnLevel, CsrOps, CsrClass
<1>7. CASE i.op \notin CsrOps \cup {"mret", "sret"}
  <2>1. /\ i.op = "ecall" => EarlyException(i) = Exc("trap", MCAUSE_ECALL_U + mpriv)
        /\ i.op = "ebreak" => EarlyException(i) = Exc("trap", MCAUSE_BREAKPOINT)
        /\ i.op = "fencei" => EarlyException(i) = Exc("fence", 0)
        /\ i.op \notin {"ecall", "ebreak", "fencei"} => EarlyException(i) = None
    BY <1>4, <1>7 DEF EarlyException
  <2> QED
    BY <1>7, <2>1 DEF Outcome, CsrOps, CsrClass
<1> QED
  BY <1>5, <1>6, <1>7

LEMMA ExcFacts ==
  ASSUME NEW t, NEW n
  PROVE  /\ Exc(t, n).type = t /\ Exc(t, n).n = n
         /\ t # "none" => Exc(t, n) # None
         /\ None.type = "none"
BY DEF Exc, None

---------------------------------------------------------------------------
(* What retires in the core, the simulator does.                           *)

LEMMA AtFacts ==
  ASSUME NEW s, IsSim(s)
  PROVE  LET at == [s EXCEPT !.pcx = s.pc] IN
         IsSim(at) /\ at.pc = s.pc /\ at.mpriv = s.mpriv /\ at.csr = s.csr
BY DEF IsSim

LEMMA InstructionFacts ==
  ASSUME NEW s, NEW i, NEW at, at = [s EXCEPT !.pcx = s.pc]
  PROVE  LET t == Instruction(s, i) IN
         /\ i.op = "ecall"     => t = Ecall(at)
         /\ i.op = "ebreak"    => t = Ebreak(at)
         /\ i.op = "mret"      => t = Mret(at)
         /\ i.op = "sret"      => t = Sret(at)
         /\ i.op \in CsrOps    => t = Advanced(AccessCsr(at, i.op, i.csr, i.data))
         /\ i.op = "pagefault" => t = LoadFault(at, i.data)
         /\ i.op \notin {"ecall", "ebreak", "mret", "sret", "pagefault", "illegal"} \cup CsrOps =>
              t = Advanced(at)
BY DEF Instruction, CsrOps

(* Trap, with the exception an instruction raised. *)
LEMMA TrapRetires ==
  ASSUME IsSim(sim), sim.csr = reg, sim.mpriv = mpriv, mpriv \in 0 .. 3,
         GoodRegisters(reg), sim.pc \in Pcs,
         NEW x, Fits(x.i), x.exc = Outcome(x.i), x.exc.type = "trap", x.pc = sim.pc
  PROVE  LET t == Instruction(sim, x.i) IN
         IsSim(t) /\ t.csr = Retired(x) /\ t.mpriv = LevelAfter(x) /\ t.pc = Target(x)
         /\ GoodRegisters(t.csr) /\ Kept(reg, t.csr) /\ t.mpriv \in 0 .. 3 /\ t.pc \in Pcs
<1>1. PICK at : at = [sim EXCEPT !.pcx = sim.pc]
  OBVIOUS
<1>2. IsSim(at) /\ at.pc = sim.pc /\ at.mpriv = mpriv /\ at.csr = reg
  BY <1>1, AtFacts
<1>3. x.i.op \in {"ecall", "ebreak", "pagefault"}
  BY OutcomeFacts, ExcFacts
<1>4. PICK n, cause, tval :
        n = x.exc.n /\ cause = CauseWord(FALSE, n) /\ tval = IF x.i.op = "pagefault" THEN x.i.data ELSE {}
  OBVIOUS
<1>5. PICK u : u = SimException(at, FALSE, n, sim.pc, tval)
  OBVIOUS
<1>6. IsSim(u)
  BY <1>2, <1>5, SimExceptionFacts
<1>7. LET t == Instruction(sim, x.i) IN
      IsSim(t) /\ t.csr = u.csr /\ t.mpriv = u.mpriv /\ t.pc = u.pc
  <2>1. CASE x.i.op = "ecall"
    <3>1. n = MCAUSE_ECALL_U + at.mpriv
      BY <1>2, <1>4, <2>1, OutcomeFacts, ExcFacts
    <3>2. Instruction(sim, x.i) = Ecall(at)
      BY <1>1, <2>1, InstructionFacts
    <3>3. Instruction(sim, x.i) = u
      BY <1>2, <1>4, <1>5, <2>1, <3>1, <3>2 DEF Ecall
    <3> QED
      BY <1>6, <3>3
  <2>2. CASE x.i.op = "ebreak"
    <3>1. n = MCAUSE_BREAKPOINT
      BY <1>4, <2>2, OutcomeFacts, ExcFacts
    <3>2. Instruction(sim, x.i) = Ebreak(at)
      BY <1>1, <2>2, InstructionFacts
    <3>3. Instruction(sim, x.i) = [u EXCEPT !.brk = TRUE]
      BY <1>2, <1>4, <1>5, <2>2, <3>1, <3>2 DEF Ebreak
    <3> QED
      BY <1>6, <3>3 DEF IsSim
  <2>3. CASE x.i.op = "pagefault"
    <3>1. n = MCAUSE_PAGE_FAULT_LOAD
      BY <1>4, <2>3, OutcomeFacts, ExcFacts
    <3>2. Instruction(sim, x.i) = LoadFault(at, x.i.data)
      BY <1>1, <2>3, InstructionFacts
    <3>3. Instruction(sim, x.i) = u
      BY <1>2, <1>4, <1>5, <2>3, <3>1, <3>2 DEF LoadFault
    <3> QED
      BY <1>6, <3>3
  <2> QED
    BY <1>3, <2>1, <2>2, <2>3
<1>8. TrapValue(x) = tval /\ TrapCause(x) = cause
  <2>1. TrapCause(x) = cause
    BY <1>4 DEF TrapCause
  <2>2. x.exc.n = MCAUSE_PAGE_FAULT_LOAD <=> x.i.op = "pagefault"
    BY <1>3, OutcomeFacts, ExcFacts
       DEF MCAUSE_PAGE_FAULT_LOAD, MCAUSE_BREAKPOINT, MCAUSE_ECALL_U
  <2> QED
    BY <1>4, <2>1, <2>2 DEF TrapValue
<1>9. TrapLevel(x) = IF ToSuper(x) THEN PRIV_SUPER ELSE PRIV_MACHINE
  BY DEF TrapLevel
<1>10. /\ Retired(x) = TrapTo(TrapLevel(x), sim.pc, cause, tval)
       /\ LevelAfter(x) = TrapLevel(x)
       /\ Target(x) = reg[IF TrapLevel(x) = PRIV_MACHINE THEN "mtvec" ELSE "stvec"]
  BY <1>8 DEF Retired, LevelAfter, Target
<1>11. Delegated(at, FALSE, n) <=> ToSuper(x)
  BY <1>2, <1>4 DEF Delegated, ToSuper
<1>12. /\ GoodRegisters(MachineTrap(reg, mpriv, sim.pc, cause))
       /\ Kept(reg, MachineTrap(reg, mpriv, sim.pc, cause))
       /\ GoodRegisters(SuperTrap(reg, mpriv, sim.pc, cause, tval))
       /\ Kept(reg, SuperTrap(reg, mpriv, sim.pc, cause, tval))
       /\ reg["mtvec"] \in Pcs /\ reg["stvec"] \in Pcs
  <2>1. n \in 0 .. 15
    BY <1>3, <1>4, OutcomeFacts, ExcFacts
       DEF MCAUSE_PAGE_FAULT_LOAD, MCAUSE_BREAKPOINT, MCAUSE_ECALL_U
  <2>2. cause \subseteq {Interrupt} \cup (0 .. 3)
    BY <1>4, <2>1, CauseFacts
  <2>3. tval \subseteq AllOnes
    BY <1>4 DEF Fits, Tame
  <2> QED
    BY <2>2, <2>3, GoodTraps DEF GoodRegisters, PcRegs
<1>13. CASE ToSuper(x)
  <2>1. /\ u.mpriv = PRIV_SUPER /\ u.pc = reg["stvec"]
        /\ u.csr = SuperTrap(reg, mpriv, sim.pc, cause, tval)
    <3>1. u = ToSupervisor(at, cause, sim.pc, tval)
      BY <1>4, <1>5, <1>11, <1>13 DEF SimException
    <3> QED
      BY <1>2, <3>1, ToSupervisorFacts
  <2>2. TrapLevel(x) = PRIV_SUPER /\ PRIV_SUPER # PRIV_MACHINE
    BY <1>9, <1>13 DEF PRIV_SUPER, PRIV_MACHINE
  <2> QED
    BY <1>7, <1>10, <1>12, <2>1, <2>2, TrapToFacts DEF PRIV_SUPER, PRIV_MACHINE
<1>14. CASE ~ToSuper(x)
  <2>1. /\ u.mpriv = PRIV_MACHINE /\ u.pc = reg["mtvec"]
        /\ u.csr = MachineTrap(reg, mpriv, sim.pc, cause)
    <3>1. u = ToMachine(at, cause, sim.pc)
      BY <1>4, <1>5, <1>11, <1>14 DEF SimException
    <3> QED
      BY <1>2, <3>1, ToMachineFacts
  <2>2. TrapLevel(x) = PRIV_MACHINE
    BY <1>9, <1>14
  <2> QED
    BY <1>7, <1>10, <1>12, <2>1, <2>2, TrapToFacts DEF PRIV_SUPER, PRIV_MACHINE
<1> QED
  BY <1>13, <1>14

LEMMA ReturnRetires ==
  ASSUME IsSim(sim), sim.csr = reg, sim.mpriv = mpriv, GoodRegisters(reg),
         NEW x, Fits(x.i), x.exc = Outcome(x.i), x.exc.type = "eret"
  PROVE  LET t == Instruction(sim, x.i) IN
         IsSim(t) /\ t.csr = Retired(x) /\ t.mpriv = LevelAfter(x) /\ t.pc = Target(x)
         /\ GoodRegisters(t.csr) /\ Kept(reg, t.csr) /\ t.mpriv \in 0 .. 3 /\ t.pc \in Pcs
<1>1. PICK at : at = [sim EXCEPT !.pcx = sim.pc]
  OBVIOUS
<1>2. IsSim(at) /\ at.pc = sim.pc /\ at.mpriv = mpriv /\ at.csr = reg
  BY <1>1, AtFacts
<1>3. x.i.op \in {"mret", "sret"}
  BY OutcomeFacts, ExcFacts
<1>4. Retired(x) = Returned(x)
  BY DEF Retired
<1>5. /\ GoodRegisters(MachineReturn(reg)) /\ Kept(reg, MachineReturn(reg))
      /\ GoodRegisters(SuperReturn(reg)) /\ Kept(reg, SuperReturn(reg))
      /\ reg["mepc"] \in Pcs /\ reg["sepc"] \in Pcs
  BY GoodReturns DEF GoodRegisters, PcRegs
<1>6. CASE x.i.op = "mret"
  <2>1. x.exc.n = PRIV_MACHINE /\ mpriv = PRIV_MACHINE
    BY <1>6, OutcomeFacts, ExcFacts
  <2>2. Instruction(sim, x.i) = Mret(at)
    BY <1>1, <1>6, InstructionFacts
  <2>3. Retired(x) = MachineReturn(reg)
    BY <1>4, <2>1 DEF Returned, MachineReturn
  <2>4. LevelAfter(x) = SR_GET_MPP(reg["mstatus"]) /\ Target(x) = reg["mepc"]
    BY <2>1 DEF LevelAfter, Target
  <2> QED
    BY <1>2, <1>5, <2>1, <2>2, <2>3, <2>4, MretFacts, LevelFacts
<1>7. CASE x.i.op = "sret"
  <2>1. x.exc.n = PRIV_SUPER /\ mpriv = PRIV_SUPER /\ x.exc.n # PRIV_MACHINE
    BY <1>7, OutcomeFacts, ExcFacts DEF PRIV_SUPER, PRIV_MACHINE
  <2>2. Instruction(sim, x.i) = Sret(at)
    BY <1>1, <1>7, InstructionFacts
  <2>3. Retired(x) = SuperReturn(reg)
    BY <1>4, <2>1 DEF Returned, SuperReturn
  <2>4. /\ LevelAfter(x) = IF reg["mstatus"] \cap SR_SPP # {} THEN PRIV_SUPER ELSE PRIV_USER
        /\ Target(x) = reg["sepc"]
    BY <2>1 DEF LevelAfter, Target
  <2> QED
    BY <1>2, <1>5, <2>1, <2>2, <2>3, <2>4, SretFacts DEF PRIV_SUPER, PRIV_USER
<1> QED
  BY <1>3, <1>6, <1>7

LEMMA MinFacts ==
  ASSUME NEW S, S \subseteq IRQ_MASK, S # {}
  PROVE  Min(S) \in S
<1>1. S \subseteq {1, 3, 5, 7, 9, 11}
  BY DEF IRQ_MASK, S_Irqs, M_Irqs, IRQ_S_SOFT, IRQ_S_TIMER, IRQ_S_EXT, IRQ_M_SOFT, IRQ_M_TIMER,
         IRQ_M_EXT
<1>2. \E n \in S : \A m \in S : n <= m
  <2>1. CASE 1 \in S
    BY <1>1, <2>1
  <2>2. CASE 3 \in S /\ 1 \notin S
    BY <1>1, <2>2
  <2>3. CASE 5 \in S /\ 1 \notin S /\ 3 \notin S
    BY <1>1, <2>3
  <2>4. CASE 7 \in S /\ S \subseteq {7, 9, 11}
    BY <2>4
  <2>5. CASE S \subseteq {9, 11}
    <3>1. CASE 9 \in S
      BY <2>5, <3>1
    <3>2. CASE 9 \notin S
      <4>1. 11 \in S /\ \A m \in S : m = 11
        BY <2>5, <3>2
      <4> QED
        BY <4>1
    <3> QED
      BY <3>1, <3>2
  <2> QED
    BY <1>1, <2>1, <2>2, <2>3, <2>4, <2>5
<1> QED
  BY <1>2 DEF Min

(* An interrupt: both find the same ones pending, at the same level. *)
LEMMA InterruptRetires ==
  ASSUME IsSim(sim), sim.csr = reg, sim.mpriv = mpriv, mpriv \in 0 .. 3, GoodRegisters(reg),
         OwnLevel(reg["mideleg"], reg["mie"]), Masked # {}, irqPriv = IrqPriv,
         sim.pc \in Pcs,
         NEW x, IsInterrupt(x), x.pc = sim.pc
  PROVE  LET t == Interrupted(sim) IN
         IsSim(t) /\ t.csr = Retired(x) /\ t.mpriv = LevelAfter(x) /\ t.pc = Target(x)
         /\ GoodRegisters(t.csr) /\ Kept(reg, t.csr) /\ t.mpriv \in 0 .. 3 /\ t.pc \in Pcs
<1>1. Enabled(sim) = Masked
  BY DEF Enabled, Masked, M_Interrupts, S_Interrupts
<1>2. Masked \subseteq reg["mie"] /\ reg["mie"] \subseteq IRQ_MASK
  <2>1. Masked \subseteq reg["mie"]
    BY DEF Masked, M_Interrupts, S_Interrupts
  <2>2. reg["mie"] \subseteq Mask("mie")
    BY DEF GoodRegisters, Csr, CoreMask
  <2> QED
    BY <2>1, <2>2 DEF Mask
<1>3. PICK n, cause : n = Min(Masked) /\ cause = CauseWord(TRUE, n)
  OBVIOUS
<1>4. n \in Masked
  BY <1>2, <1>3, MinFacts
<1>5. PICK u : u = Interrupted(sim)
  OBVIOUS
<1>6. u = SimException(sim, TRUE, n, sim.pc, {})
  BY <1>1, <1>3, <1>5 DEF Interrupted
<1>7. /\ Retired(x) = TrapTo(irqPriv, sim.pc, InterruptCause, {})
      /\ LevelAfter(x) = irqPriv
      /\ Target(x) = reg[IF irqPriv = PRIV_MACHINE THEN "mtvec" ELSE "stvec"]
  BY DEF IsInterrupt, Retired, LevelAfter, Target, TrapLevel, TrapCause, TrapValue
<1>8. /\ GoodRegisters(MachineTrap(reg, mpriv, sim.pc, cause))
      /\ Kept(reg, MachineTrap(reg, mpriv, sim.pc, cause))
      /\ GoodRegisters(SuperTrap(reg, mpriv, sim.pc, cause, {}))
      /\ Kept(reg, SuperTrap(reg, mpriv, sim.pc, cause, {}))
      /\ reg["mtvec"] \in Pcs /\ reg["stvec"] \in Pcs
  <2>1. n \in 0 .. 15
    BY <1>2, <1>4 DEF IRQ_MASK, S_Irqs, M_Irqs, IRQ_S_SOFT, IRQ_S_TIMER, IRQ_S_EXT, IRQ_M_SOFT,
         IRQ_M_TIMER, IRQ_M_EXT
  <2>2. cause \subseteq {Interrupt} \cup (0 .. 3)
    BY <1>3, <2>1, CauseFacts
  <2> QED
    BY <2>2, {} \subseteq AllOnes, GoodTraps DEF GoodRegisters, PcRegs
<1>9. CASE M_Interrupts # {}
  <2>1. Masked = M_Interrupts /\ irqPriv = PRIV_MACHINE
    BY <1>9 DEF Masked, IrqPriv
  <2>2. Masked \cap reg["mideleg"] = {}
    BY <2>1 DEF M_Interrupts
  <2>3. Masked \subseteq M_Irqs
    BY <1>2, <2>2 DEF OwnLevel
  <2>4. InterruptCause = cause
    <3>1. Masked \cap M_Irqs = Masked
      BY <2>3
    <3> QED
      BY <1>3, <2>1, <3>1 DEF InterruptCause
  <2>5. u = ToMachine(sim, cause, sim.pc)
    BY <1>3, <1>4, <1>6, <2>2 DEF SimException, Delegated
  <2>6. /\ IsSim(u) /\ u.mpriv = PRIV_MACHINE /\ u.pc = reg["mtvec"]
        /\ u.csr = MachineTrap(reg, mpriv, sim.pc, cause)
    BY <2>5, ToMachineFacts
  <2> QED
    BY <1>5, <1>7, <1>8, <2>1, <2>4, <2>6, TrapToFacts DEF PRIV_MACHINE
<1>10. CASE M_Interrupts = {}
  <2>1. Masked = S_Interrupts /\ irqPriv = PRIV_SUPER
    BY <1>10 DEF Masked, IrqPriv
  <2>2. Masked \subseteq reg["mideleg"] /\ mpriv <= PRIV_SUPER
    BY <2>1 DEF S_Interrupts, PRIV_SUPER
  <2>3. Masked \subseteq S_Irqs
    BY <1>2, <2>2 DEF OwnLevel
  <2>4. InterruptCause = cause
    <3>1. Masked \cap S_Irqs = Masked
      BY <2>3
    <3>2. irqPriv # PRIV_MACHINE
      BY <2>1 DEF PRIV_SUPER, PRIV_MACHINE
    <3>3. InterruptCause = CauseWord(TRUE, Min(Masked))
      BY <3>1, <3>2 DEF InterruptCause
    <3> QED
      BY <1>3, <3>3
  <2>5. u = ToSupervisor(sim, cause, sim.pc, {})
    <3>1. Delegated(sim, TRUE, n)
      BY <1>4, <2>2 DEF Delegated
    <3> QED
      BY <1>3, <1>6, <3>1 DEF SimException
  <2>6. /\ IsSim(u) /\ u.mpriv = PRIV_SUPER /\ u.pc = reg["stvec"]
        /\ u.csr = SuperTrap(reg, mpriv, sim.pc, cause, {})
    BY <2>5, ToSupervisorFacts
  <2>7. PRIV_SUPER # PRIV_MACHINE
    BY DEF PRIV_SUPER, PRIV_MACHINE
  <2> QED
    BY <1>5, <1>7, <1>8, <2>1, <2>4, <2>6, <2>7, TrapToFacts DEF PRIV_SUPER
<1> QED
  BY <1>9, <1>10

(* An instruction that changes no register. *)
LEMMA OtherRetires ==
  ASSUME IsSim(sim), NEW x, Fits(x.i), x.i.op \notin CsrOps, x.exc = Outcome(x.i), ~x.write,
         x.exc.type \notin {"trap", "eret"}
  PROVE  LET t == Instruction(sim, x.i) IN
         /\ IsSim(t) /\ t.csr = sim.csr /\ t.mpriv = sim.mpriv /\ t.pc = Plus4[sim.pc]
         /\ Retired(x) = reg /\ LevelAfter(x) = mpriv
         /\ x.exc # None => Target(x) = Plus4[x.pc]
<1>1. PICK at : at = [sim EXCEPT !.pcx = sim.pc]
  OBVIOUS
<1>2. IsSim(at) /\ at.pc = sim.pc /\ at.mpriv = sim.mpriv /\ at.csr = sim.csr
  BY <1>1, AtFacts
<1>3. x.i.op \notin {"ecall", "ebreak", "mret", "sret", "pagefault", "illegal"}
  BY OutcomeFacts, ExcFacts DEF Fits, Tame
<1>4. Instruction(sim, x.i) = Advanced(at)
  BY <1>1, <1>3, InstructionFacts
<1>5. x.exc \in {None, Exc("fence", 0)}
  BY <1>3, OutcomeFacts
<1>6. x.exc.type \in {"none", "fence"} /\ (x.exc # None => x.exc.type = "fence")
  BY <1>5, ExcFacts
<1>7. Retired(x) = reg /\ LevelAfter(x) = mpriv
  BY <1>6 DEF Retired, Written, LevelAfter
<1>8. x.exc # None => Target(x) = Plus4[x.pc]
  BY <1>6 DEF Target
<1> QED
  BY <1>2, <1>4, <1>7, <1>8, AdvancedFacts

(* The core writes what it has read and updated under the mask, and the    *)
(* simulator updates the whole register: the same, unless csrrw sees but a *)
(* part of it.                                                             *)
LEMMA MergeFacts ==
  ASSUME NEW op \in CsrOps, NEW r, NEW m, NEW data, op = "csrrw" => r \subseteq m
  PROVE  (r \ m) \cup (Updated(op, r \cap m, data) \cap m) = Updated(op, r, data \cap m)
<1>1. CASE op = "csrrw"
  BY <1>1 DEF Updated
<1>2. CASE op = "csrrs"
  BY <1>2 DEF Updated
<1>3. CASE op = "csrrc"
  BY <1>3 DEF Updated
<1> QED
  BY <1>1, <1>2, <1>3 DEF CsrOps

LEMMA BackingFacts ==
  /\ \A a : a \notin Views => Backing(a) = a
  /\ \A a : Mask(a) \subseteq Mask(Backing(a))
  /\ \A a \in Csr : Mask(a) \subseteq AllOnes
<1>1. \A a : a \notin Views => Backing(a) = a
  BY DEF Views, Backing
<1>2. ASSUME NEW a PROVE Mask(a) \subseteq Mask(Backing(a))
  <2>1. CASE a = "sstatus"
    <3>1. Mask(a) = SR_SMODE_MASK /\ Mask(Backing(a)) = AllOnes
      BY <2>1 DEF Mask, Backing
    <3> QED
      BY <3>1 DEF SR_SMODE_MASK, AllOnes, SR_UIE, SR_SIE, SR_UPIE, SR_SPIE, SR_SPP, SR_SUM
  <2>2. CASE a \in {"sie", "sip"}
    <3>1. Mask(a) = S_Irqs /\ Mask(Backing(a)) = IRQ_MASK
      BY <2>2 DEF Mask, Backing
    <3> QED
      BY <3>1 DEF IRQ_MASK
  <2>3. CASE a \notin Views
    BY <1>1, <2>3
  <2> QED
    BY <2>1, <2>2, <2>3 DEF Views
<1>3. ASSUME NEW a \in Csr PROVE Mask(a) \subseteq AllOnes
  <2>1. Mask(a) \in {IRQ_MASK, {Interrupt} \cup (0 .. 3), AllOnes}
    BY DEF Mask, Csr
  <2>2. IRQ_MASK \subseteq AllOnes
    BY DEF IRQ_MASK, AllOnes, S_Irqs, M_Irqs, IRQ_S_SOFT, IRQ_S_TIMER, IRQ_S_EXT, IRQ_M_SOFT,
         IRQ_M_TIMER, IRQ_M_EXT
  <2>3. {Interrupt} \cup (0 .. 3) \subseteq AllOnes
    BY DEF Interrupt, AllOnes
  <2> QED
    BY <2>1, <2>2, <2>3
<1> QED
  BY <1>1, <1>2, <1>3

(* The core keeps fewer bits of the registers that delegate only.          *)
LEMMA CoreMaskFacts ==
  /\ \A a : a \notin {"medeleg", "mideleg"} => CoreMask(a) = Mask(a)
  /\ \A a : CoreMask(a) \subseteq Mask(a)
  /\ \A a : a # "medeleg" => Backing(a) # "medeleg"
  /\ \A a : a # "mideleg" => Backing(a) # "mideleg"
  /\ Backing("medeleg") = "medeleg" /\ Mask("medeleg") = AllOnes
<1>1. 0 .. 15 \subseteq AllOnes
  BY DEF AllOnes
<1>2. Mask("medeleg") = AllOnes /\ Mask("mideleg") = AllOnes
  BY DEF Mask
<1> QED
  BY <1>1, <1>2 DEF CoreMask, Backing

(* An access of a tame program leaves delegation alone, and every register *)
(* within its mask.                                                        *)
LEMMA GoodAccess ==
  ASSUME NEW r, GoodRegisters(r), NEW level, NEW i, i.op \in CsrOps, i.data \subseteq AllOnes,
         TameAccess(level, i), ~Wide(i), OwnLevel(r["mideleg"], r["mie"]),
         \E b \in Boots : r["mideleg"] = b.csr["mideleg"]
  PROVE  LET q == Access(r, i.op, i.csr, i.data) IN
         /\ GoodRegisters(q) /\ q["mideleg"] = r["mideleg"] /\ OwnLevel(r["mideleg"], q["mie"])
         /\ Backing(i.csr) # "mip" => q["mip"] = r["mip"]
         /\ \A a \in Csr : a # Backing(i.csr) => q[a] = r[a]
<1>1. PICK b, m, v, q :
        /\ b = Backing(i.csr) /\ m = Mask(i.csr) /\ v = Updated(i.op, r[b], i.data \cap m)
        /\ q = [r EXCEPT ![b] = v]
  OBVIOUS
<1>2. r \in [Csr -> SUBSET AllOnes] /\ (\A a \in Csr : r[a] \subseteq CoreMask(a))
      /\ \A a \in PcRegs : r[a] \in Pcs
  BY DEF GoodRegisters
<1>3. b \in Csr /\ b # "mideleg" /\ m \subseteq Mask(b)
  BY <1>1, BackingFacts DEF TameAccess
<1>4. q = Access(r, i.op, i.csr, i.data)
  BY <1>1, <1>2, <1>3 DEF Access
<1>5. v \subseteq CoreMask(b)
  <2>1. i.op \in {"csrrw", "csrrs"} => i.data \cap m \subseteq CoreMask(b)
    <3>1. CASE i.csr = "medeleg"
      BY <1>1, <3>1, CoreMaskFacts DEF Wide
    <3>2. CASE i.csr # "medeleg"
      BY <1>1, <1>3, <3>2, CoreMaskFacts
    <3> QED
      BY <3>1, <3>2
  <2>2. r[b] \subseteq CoreMask(b)
    BY <1>2, <1>3
  <2> QED
    BY <1>1, <2>1, <2>2 DEF Updated, CsrOps
<1>6. b \in PcRegs => v \in Pcs
  <2>1. CASE b \in PcRegs /\ i.op = "csrrw"
    <3>1. i.data \in Pcs /\ i.data \subseteq AllOnes
      BY <1>1, <2>1, PcsFacts DEF TameAccess
    <3>2. i.csr = b
      BY <1>1, <2>1 DEF Backing, PcRegs
    <3>3. m = AllOnes
      BY <1>1, <2>1, <3>2 DEF Mask, PcRegs
    <3> QED
      BY <1>1, <2>1, <3>1, <3>3 DEF Updated
  <2>2. CASE b \in PcRegs /\ i.op # "csrrw"
    <3>1. i.data = {} /\ r[b] \in Pcs
      BY <1>1, <1>2, <2>2 DEF TameAccess
    <3> QED
      BY <1>1, <2>2, <3>1 DEF Updated, CsrOps
  <2> QED
    BY <2>1, <2>2
<1>7. GoodRegisters(q)
  <2>1. q \in [Csr -> SUBSET AllOnes]
    BY <1>1, <1>2, <1>3, <1>5, BackingFacts, CoreMaskFacts
  <2>2. \A a \in Csr : q[a] \subseteq CoreMask(a)
    BY <1>1, <1>2, <1>3, <1>5
  <2>3. \A a \in PcRegs : q[a] \in Pcs
    BY <1>1, <1>2, <1>3, <1>6 DEF PcRegs, Csr
  <2> QED
    BY <2>1, <2>2, <2>3 DEF GoodRegisters
<1>8. \A a \in Csr : a # b => q[a] = r[a]
  BY <1>1, <1>2
<1>9. OwnLevel(r["mideleg"], q["mie"])
  <2>1. CASE b # "mie"
    BY <1>8, <2>1 DEF Csr
  <2>2. CASE b = "mie"
    <3>1. q["mie"] = Updated(i.op, r["mie"], i.data \cap m)
      BY <1>1, <1>2, <1>3, <2>2
    <3>2. i.op # "csrrc" => OwnLevel(r["mideleg"], i.data \cap m)
      BY <1>1, <2>2 DEF TameAccess
    <3> QED
      BY <3>1, <3>2 DEF OwnLevel, Updated, CsrOps
  <2> QED
    BY <2>1, <2>2
<1> QED
  BY <1>1, <1>3, <1>4, <1>7, <1>8, <1>9 DEF Csr

(* A CSR instruction: L are the interrupts that came after it read mip. *)
LEMMA AccessRetires ==
  ASSUME IsSim(sim), GoodRegisters(sim.csr), sim.mpriv = mpriv,
         NEW L, L \subseteq Mask("mip"), reg = Raise(sim.csr, L),
         NEW x, Fits(x.i), x.i.op \in CsrOps, x.write, x.exc = Outcome(x.i),
         Answered(x.i, x.result, x.wdata), Backing(x.i.csr) # "mip" => L = {}
  PROVE  LET t == Instruction(sim, x.i) IN
         /\ IsSim(t) /\ t.mpriv = mpriv /\ t.pc = Plus4[sim.pc]
         /\ t.csr = Access(sim.csr, x.i.op, x.i.csr, x.i.data)
         /\ Raise(Retired(x), L) = Raise(t.csr, L)
         /\ LevelAfter(x) = mpriv
         /\ x.exc # None => Target(x) = Plus4[x.pc]
<1>1. PICK at : at = [sim EXCEPT !.pcx = sim.pc]
  OBVIOUS
<1>2. IsSim(at) /\ at.pc = sim.pc /\ at.mpriv = mpriv /\ at.csr = sim.csr
  BY <1>1, AtFacts
<1> DEFINE op   == x.i.op
           data == x.i.data
           b    == Backing(x.i.csr)
           m    == Mask(x.i.csr)
           c    == CoreMask(x.i.csr)
           r    == sim.csr[b]
           v    == Updated(op, r, data \cap m)
           t    == Instruction(sim, x.i)
<1>4. /\ b \in Csr /\ op \in CsrOps /\ r \subseteq CoreMask(b) /\ r \subseteq Mask(b)
      /\ sim.csr \in [Csr -> SUBSET AllOnes]
  BY CoreMaskFacts DEF Fits, Tame, TameAccess, GoodRegisters
<1>5. t = Advanced(AccessCsr(at, op, x.i.csr, data))
  BY <1>1, InstructionFacts
<1>6. /\ IsSim(t) /\ t.mpriv = mpriv /\ t.pc = Plus4[sim.pc]
      /\ t.csr = Access(sim.csr, op, x.i.csr, data)
  <2>1. at.csr \in [Csr -> SUBSET AllOnes]
    BY <1>2, <1>4
  <2> QED
    BY <1>2, <1>4, <1>5, <2>1, AccessFacts
<1>7. t.csr = [sim.csr EXCEPT ![b] = v]
  BY <1>4, <1>6 DEF Access
<1>8. x.exc \in {None, Exc("fence", 0)}
  BY OutcomeFacts
<1>9. x.exc.type \in {"none", "fence"} /\ (x.exc # None => x.exc.type = "fence")
  BY <1>8, ExcFacts
<1>10. /\ LevelAfter(x) = mpriv /\ (x.exc # None => Target(x) = Plus4[x.pc])
       /\ Retired(x) = [reg EXCEPT ![b] = (@ \ c) \cup (x.wdata \cap c)]
  BY <1>9 DEF LevelAfter, Target, Retired, Written
<1>11. x.wdata = Updated(op, r \cap m, data)
  BY <1>4 DEF Answered, ReadCsr
<1>12. (r \ c) \cup (x.wdata \cap c) = v
  <2>1. op = "csrrw" => r \subseteq m
    BY <1>4, BackingFacts DEF Fits
  <2>2. CASE x.i.csr = "medeleg"
    <3>1. r \subseteq c /\ m = AllOnes /\ r \cap m = r /\ data \cap m = data
      BY <1>4, <2>2, CoreMaskFacts DEF Fits, Tame
    <3>2. op \in {"csrrw", "csrrs"} => data \subseteq c
      BY <2>2 DEF Fits, Wide
    <3> HIDE DEF op, data, m, r, c
    <3>3. x.wdata = v /\ v \subseteq c
      BY <1>4, <1>11, <3>1, <3>2 DEF v, Updated, CsrOps
    <3> QED
      BY <3>1, <3>3
  <2>3. CASE x.i.csr # "medeleg"
    <3>1. c = m
      <4>1. x.i.csr # "mideleg"
        BY CoreMaskFacts DEF Fits, Tame, TameAccess, Backing
      <4> QED
        BY <2>3, <4>1, CoreMaskFacts
    <3> HIDE DEF op, data, m, r, c
    <3>2. (r \ m) \cup (Updated(op, r \cap m, data) \cap m) = Updated(op, r, data \cap m)
      BY <1>4, <2>1, MergeFacts
    <3> QED
      BY <1>11, <3>1, <3>2 DEF v
  <2> QED
    BY <2>2, <2>3
<1>13. Raise(Retired(x), L) = Raise(t.csr, L)
  <2> HIDE DEF t, v, c
  <2>1. CASE b # "mip"
    <3>1. L = {} /\ reg = sim.csr
      BY <1>4, <2>1, RaiseFacts
    <3> QED
      BY <1>4, <1>7, <1>10, <1>12, <3>1
  <2>2. CASE b = "mip"
    <3>1. reg["mip"] = r \cup L /\ reg \in [Csr -> SUBSET AllOnes]
      <4>1. Mask("mip") \subseteq AllOnes /\ "mip" \in Csr
        BY BackingFacts DEF Csr
      <4> QED
        BY <1>4, <2>2, <4>1 DEF Raise
    <3>2. ((reg["mip"] \ c) \cup (x.wdata \cap c)) \cup L = v \cup L
      BY <1>12, <3>1
    <3>3. Retired(x) = [sim.csr EXCEPT !["mip"] = (reg["mip"] \ c) \cup (x.wdata \cap c)]
      BY <1>4, <1>10, <2>2, <3>1 DEF Raise
    <3>4. Raise(Retired(x), L) = [sim.csr EXCEPT !["mip"] = v \cup L]
      BY <1>4, <2>2, <3>2, <3>3 DEF Raise
    <3>5. Raise(t.csr, L) = [sim.csr EXCEPT !["mip"] = v \cup L]
      BY <1>4, <1>7, <2>2 DEF Raise
    <3> QED
      BY <3>4, <3>5
  <2> QED
    BY <2>1, <2>2
<1> QED
  BY <1>6, <1>10, <1>13

---------------------------------------------------------------------------
(* What a clock does to the registers, when the invariant holds.           *)

(* The core reads with its masks what the simulator reads with its own.    *)
LEMMA SameRead ==
  ASSUME NEW r, GoodRegisters(r), NEW a, Backing(a) \in Csr
  PROVE  r[Backing(a)] \cap CoreMask(a) = r[Backing(a)] \cap Mask(a)
<1>1. CASE a \in {"medeleg", "mideleg"}
  BY <1>1, CoreMaskFacts DEF GoodRegisters, Backing
<1>2. CASE a \notin {"medeleg", "mideleg"}
  BY <1>2, CoreMaskFacts
<1> QED
  BY <1>1, <1>2

(* The registers and the level that writeback leaves, interrupts apart.    *)
Done == IF wb = {} THEN reg ELSE CHOOSE r \in {Retired(x) : x \in wb} : TRUE

LevelDone == IF wb = {} THEN mpriv ELSE CHOOSE l \in {LevelAfter(x) : x \in wb} : TRUE

(* Nothing in writeback touches a register. *)
Quiet == \A x \in wb : ~IsCsr(x.i) /\ x.exc = None

LEMMA OneFacts ==
  ASSUME NEW x \in wb, AtMostOne(wb)
  PROVE  /\ wb = {x} /\ Done = Retired(x) /\ LevelDone = LevelAfter(x)
         /\ Follow(sim) = IF IsInterrupt(x) THEN Interrupted(sim) ELSE Instruction(sim, x.i)
         /\ (CHOOSE t \in {Target(y) : y \in wb} : TRUE) = Target(x)
<1>1. wb = {x}
  BY DEF AtMostOne
<1>2. \A y \in {Retired(z) : z \in wb} : y = Retired(x)
  BY <1>1
<1>3. \A y \in {LevelAfter(z) : z \in wb} : y = LevelAfter(x)
  BY <1>1
<1>4. \A y \in {Target(z) : z \in wb} : y = Target(x)
  BY <1>1
<1>5. Retired(x) \in {Retired(z) : z \in wb} /\ LevelAfter(x) \in {LevelAfter(z) : z \in wb}
      /\ Target(x) \in {Target(z) : z \in wb}
  OBVIOUS
<1>6. (CHOOSE y \in wb : TRUE) = x
  BY <1>1
<1>7. wb # {}
  OBVIOUS
<1>8. Follow(sim) = IF IsInterrupt(x) THEN Interrupted(sim) ELSE Instruction(sim, x.i)
  BY <1>6, <1>7 DEF Follow, IsInterrupt
<1>9. Done = Retired(x)
  BY <1>2, <1>5, <1>7 DEF Done
<1>10. LevelDone = LevelAfter(x)
  BY <1>3, <1>5, <1>7 DEF LevelDone
<1>11. (CHOOSE t \in {Target(y) : y \in wb} : TRUE) = Target(x)
  BY <1>4, <1>5
<1> QED
  BY <1>1, <1>8, <1>9, <1>10, <1>11

(* The core knows of everything that the simulator knows of and of what it *)
(* has still to be told.                                                   *)
LEMMA KnownFacts ==
  ASSUME IInv
  PROVE  LET L == Bits(reg["mideleg"], late) IN
         /\ sim.csr["mideleg"] = reg["mideleg"] /\ reg = Raise(sim.csr, L) /\ L \subseteq Mask("mip")
         /\ mipNext \subseteq reg["mip"] /\ Raise(reg, mipNext) = reg
         /\ late = {} => sim.csr = reg
         /\ sim.mpriv = mpriv
         /\ \A a \in Csr : a # "mip" => reg[a] = sim.csr[a]
<1>1. sim.csr \in [Csr -> SUBSET AllOnes] /\ reg \in [Csr -> SUBSET AllOnes] /\ IsSim(sim)
  BY DEF IInv, Types, GoodRegisters
<1>2. reg = Raise(sim.csr, Bits(sim.csr["mideleg"], late))
  BY <1>1, ToldFacts DEF IInv, SameState
<1>3. \A a \in Csr : a # "mip" => reg[a] = sim.csr[a]
  BY <1>1, <1>2, RaiseFacts
<1>4. sim.csr["mideleg"] = reg["mideleg"]
  BY <1>3 DEF Csr
<1>5. mipNext \subseteq reg["mip"]
  <2>1. CASE MipRead
    <3>1. mipNext = Bits(reg["mideleg"], late)
      BY <2>1 DEF IInv, Buffered
    <3>2. reg["mip"] = sim.csr["mip"] \cup Bits(reg["mideleg"], late)
      BY <1>1, <1>2, <1>4, RaiseFacts
    <3> QED
      BY <3>1, <3>2
  <2>2. CASE ~MipRead
    BY <2>2 DEF IInv, Buffered
  <2> QED
    BY <2>1, <2>2
<1>6. late = {} => sim.csr = reg
  BY <1>1, <1>2, BitsFacts, RaiseFacts
<1>7. Raise(reg, mipNext) = reg
  BY <1>1, <1>5, RaiseFacts
<1> QED
  BY <1>2, <1>3, <1>4, <1>5, <1>6, <1>7, BitsFacts DEF IInv, SameState

(* The simulator goes with the core. *)
LEMMA FollowFacts ==
  ASSUME IInv
  PROVE  LET f == Follow(sim) IN
         /\ IsSim(f) /\ GoodRegisters(f.csr) /\ f.mpriv \in 0 .. 3 /\ f.pc \in Pcs
         /\ f.csr["mideleg"] = reg["mideleg"] /\ OwnLevel(reg["mideleg"], f.csr["mie"])
         /\ Raise(Done, mipNext) = Raise(f.csr, Bits(reg["mideleg"], late))
         /\ f.mpriv = LevelDone
         /\ wb = {} => f = sim
         /\ \A x \in wb :
              f.pc = IF x.exc = None THEN Plus4[sim.pc] ELSE Target(x)
         /\ Quiet => f.csr = sim.csr /\ f.mpriv = mpriv /\ Done = reg
<1> DEFINE f == Follow(sim)
           L == Bits(reg["mideleg"], late)
<1>1. /\ IsSim(sim) /\ GoodRegisters(sim.csr) /\ GoodRegisters(reg) /\ mpriv \in 0 .. 3
      /\ sim.mpriv = mpriv /\ sim.pc \in Pcs /\ AtMostOne(wb)
      /\ reg \in [Csr -> SUBSET AllOnes] /\ sim.csr \in [Csr -> SUBSET AllOnes]
  BY DEF IInv, Types, SameState, GoodRegisters
<1>2. /\ sim.csr["mideleg"] = reg["mideleg"] /\ reg = Raise(sim.csr, L) /\ L \subseteq Mask("mip")
      /\ mipNext \subseteq reg["mip"] /\ Raise(reg, mipNext) = reg
      /\ late = {} => sim.csr = reg
      /\ reg["mie"] = sim.csr["mie"]
  BY KnownFacts DEF Csr
<1>3. OwnLevel(reg["mideleg"], reg["mie"]) /\ \E b \in Boots : reg["mideleg"] = b.csr["mideleg"]
  BY DEF IInv, Delegation
<1>4. CASE wb = {}
  <2>1. f = sim /\ Done = reg /\ LevelDone = mpriv
    BY <1>4 DEF Follow, Done, LevelDone
  <2> QED
    BY <1>1, <1>2, <1>3, <1>4, <2>1
<1>5. ASSUME NEW x \in wb, x.exc # None PROVE late = {} /\ L = {} /\ sim.csr = reg
  <2>1. wb = {x} /\ e1 = {} /\ e2 = {}
    BY <1>1, <1>5, OneFacts DEF IInv, Flushed
  <2>2. ~MipRead
    BY <1>5, <2>1 DEF MipRead
  <2> QED
    BY <1>2, <2>2, BitsFacts DEF IInv, Buffered
<1>6. ASSUME NEW x \in wb, IsSim(f), f.csr = Done, f.csr = Retired(x), sim.csr = reg, L = {},
             Kept(reg, f.csr), GoodRegisters(f.csr)
      PROVE  /\ f.csr["mideleg"] = reg["mideleg"] /\ OwnLevel(reg["mideleg"], f.csr["mie"])
             /\ Raise(Done, mipNext) = Raise(f.csr, L)
  <2>1. f.csr["mip"] = reg["mip"] /\ f.csr["mie"] = reg["mie"] /\ f.csr["mideleg"] = reg["mideleg"]
    BY <1>6 DEF Kept
  <2>2. f.csr \in [Csr -> SUBSET AllOnes]
    BY <1>6 DEF GoodRegisters
  <2>3. Raise(f.csr, mipNext) = f.csr /\ Raise(f.csr, {}) = f.csr
    BY <1>2, <2>1, <2>2, RaiseFacts
  <2> QED
    BY <1>3, <1>6, <2>1, <2>3
<1>7. ASSUME NEW x \in wb PROVE
        /\ IsSim(f) /\ GoodRegisters(f.csr) /\ f.mpriv \in 0 .. 3 /\ f.pc \in Pcs
        /\ f.csr["mideleg"] = reg["mideleg"] /\ OwnLevel(reg["mideleg"], f.csr["mie"])
        /\ Raise(Done, mipNext) = Raise(f.csr, L)
        /\ f.mpriv = LevelDone
        /\ f.pc = IF x.exc = None THEN Plus4[sim.pc] ELSE Target(x)
        /\ Quiet => f.csr = sim.csr /\ f.mpriv = mpriv /\ Done = reg
  <2>1. /\ wb = {x} /\ Done = Retired(x) /\ LevelDone = LevelAfter(x)
        /\ f = IF IsInterrupt(x) THEN Interrupted(sim) ELSE Instruction(sim, x.i)
    BY <1>1, OneFacts
  <2>2. x.pc = sim.pc /\ x.pc \in Pcs /\ Fits(x.i)
    BY DEF IInv, Path, Items
  <2>3. ~IsInterrupt(x) =>
          /\ x.write <=> x.i.op \in CsrOps
          /\ x.exc = Outcome(x.i)
          /\ Answered(x.i, x.result, x.wdata)
    BY DEF IInv, Items
  <2> HIDE DEF f, L
  <2>4. CASE IsInterrupt(x)
    <3>1. x.exc # None
      BY <2>4, ExcFacts DEF IsInterrupt
    <3>2. sim.csr = reg /\ L = {}
      BY <1>5, <3>1
    <3>3. Masked # {} /\ irqPriv = IrqPriv
      BY <2>4 DEF IInv, Pending
    <3>4. /\ IsSim(f) /\ f.csr = Retired(x) /\ f.mpriv = LevelAfter(x) /\ f.pc = Target(x)
          /\ GoodRegisters(f.csr) /\ Kept(reg, f.csr) /\ f.mpriv \in 0 .. 3 /\ f.pc \in Pcs
      BY <1>1, <1>3, <2>1, <2>2, <2>4, <3>2, <3>3, InterruptRetires
    <3> QED
      BY <1>6, <2>1, <3>1, <3>2, <3>4 DEF Quiet
  <2>5. CASE x.exc.type = "trap"
    <3>1. x.exc # None /\ ~IsInterrupt(x)
      BY <2>5, ExcFacts DEF IsInterrupt
    <3>2. sim.csr = reg /\ L = {}
      BY <1>5, <3>1
    <3>3. /\ IsSim(f) /\ f.csr = Retired(x) /\ f.mpriv = LevelAfter(x) /\ f.pc = Target(x)
          /\ GoodRegisters(f.csr) /\ Kept(reg, f.csr) /\ f.mpriv \in 0 .. 3 /\ f.pc \in Pcs
      BY <1>1, <2>1, <2>2, <2>3, <2>5, <3>1, <3>2, TrapRetires
    <3> QED
      BY <1>6, <2>1, <3>1, <3>2, <3>3 DEF Quiet
  <2>6. CASE x.exc.type = "eret"
    <3>1. x.exc # None /\ ~IsInterrupt(x)
      BY <2>6, ExcFacts DEF IsInterrupt
    <3>2. sim.csr = reg /\ L = {}
      BY <1>5, <3>1
    <3>3. /\ IsSim(f) /\ f.csr = Retired(x) /\ f.mpriv = LevelAfter(x) /\ f.pc = Target(x)
          /\ GoodRegisters(f.csr) /\ Kept(reg, f.csr) /\ f.mpriv \in 0 .. 3 /\ f.pc \in Pcs
      BY <1>1, <2>1, <2>2, <2>3, <2>6, <3>1, <3>2, ReturnRetires
    <3> QED
      BY <1>6, <2>1, <3>1, <3>2, <3>3 DEF Quiet
  <2>7. CASE ~IsInterrupt(x) /\ x.exc.type \notin {"trap", "eret"} /\ x.i.op \in CsrOps
    <3>1. ASSUME Backing(x.i.csr) # "mip" PROVE L = {}
      <4>1. x.exc = None => e1 = {} /\ e2 = {}
        BY <2>7 DEF IInv, Alone, IsCsr, CsrClass
      <4>2. x.exc # None => e1 = {} /\ e2 = {}
        BY DEF IInv, Flushed
      <4>3. ~MipRead
        BY <2>1, <3>1, <4>1, <4>2 DEF MipRead, Touches
      <4> QED
        BY <4>3, BitsFacts DEF IInv, Buffered, L
    <3>2. /\ IsSim(f) /\ f.mpriv = mpriv /\ f.pc = Plus4[sim.pc]
          /\ f.csr = Access(sim.csr, x.i.op, x.i.csr, x.i.data)
          /\ Raise(Retired(x), L) = Raise(f.csr, L)
          /\ LevelAfter(x) = mpriv
          /\ x.exc # None => Target(x) = Plus4[x.pc]
      BY <1>1, <1>2, <2>1, <2>2, <2>3, <2>7, <3>1, AccessRetires
    <3>3. /\ GoodRegisters(f.csr) /\ f.csr["mideleg"] = sim.csr["mideleg"]
          /\ OwnLevel(sim.csr["mideleg"], f.csr["mie"])
          /\ Backing(x.i.csr) # "mip" => f.csr["mip"] = sim.csr["mip"]
      BY <1>1, <1>2, <1>3, <2>2, <2>7, <3>2, GoodAccess DEF Fits, Tame
    <3>4. Raise(Done, mipNext) = Raise(f.csr, L)
      <4>1. CASE L = mipNext
        BY <2>1, <3>2, <4>1
      <4>2. CASE Backing(x.i.csr) # "mip"
        <5>1. L = {} /\ sim.csr = reg /\ f.csr["mip"] = reg["mip"]
          <6>1. L = {}
            BY <3>1, <4>2
          <6>2. reg = sim.csr
            BY <1>1, <1>2, <6>1, RaiseFacts
          <6> QED
            BY <3>3, <4>2, <6>1, <6>2
        <5>2. f.csr \in [Csr -> SUBSET AllOnes]
          BY <3>3 DEF GoodRegisters
        <5>3. Raise(f.csr, mipNext) = f.csr /\ Raise(f.csr, {}) = f.csr
          BY <1>2, <5>1, <5>2, RaiseFacts
        <5>4. Raise(Done, {}) = Done
          <6>1. Done \in [Csr -> SUBSET AllOnes]
            <7>1. x.exc.type \notin {"interrupt", "trap", "eret"}
              BY <2>7 DEF IsInterrupt
            <7>2. Retired(x) = Written(x) /\ Backing(x.i.csr) \in Csr
              BY <2>2, <2>7, <7>1 DEF Retired, Fits, Tame, TameAccess
            <7>3. CoreMask(x.i.csr) \subseteq AllOnes
              BY <7>2, BackingFacts, CoreMaskFacts
            <7> QED
              BY <1>1, <2>1, <7>2, <7>3 DEF Written
          <6> QED
            BY <6>1, RaiseFacts
        <5> QED
          BY <2>1, <3>2, <5>1, <5>3, <5>4
      <4>3. CASE Backing(x.i.csr) = "mip"
        <5>1. x.exc = None
          <6>1. x.i.csr # "satp"
            BY <4>3 DEF Backing
          <6> QED
            BY <2>2, <2>3, <2>7, <6>1, OutcomeFacts
        <5>2. MipRead
          BY <2>7, <4>3, <5>1 DEF MipRead, Touches
        <5>3. L = mipNext
          BY <5>2 DEF IInv, Buffered, L
        <5> QED
          BY <4>1, <5>3
      <4> QED
        BY <4>2, <4>3
    <3>5. ~Quiet
      BY <2>7 DEF Quiet, IsCsr, CsrClass
    <3> QED
      BY <1>1, <1>2, <1>3, <2>1, <2>2, <3>2, <3>3, <3>4, <3>5, PcsFacts
  <2>8. CASE ~IsInterrupt(x) /\ x.exc.type \notin {"trap", "eret"} /\ x.i.op \notin CsrOps
    <3>1. /\ IsSim(f) /\ f.csr = sim.csr /\ f.mpriv = mpriv /\ f.pc = Plus4[sim.pc]
          /\ Retired(x) = reg /\ LevelAfter(x) = mpriv
          /\ x.exc # None => Target(x) = Plus4[x.pc]
      BY <1>1, <2>1, <2>2, <2>3, <2>8, OtherRetires
    <3>2. Raise(Done, mipNext) = Raise(f.csr, L)
      BY <1>2, <2>1, <3>1
    <3> QED
      BY <1>1, <1>2, <1>3, <2>1, <2>2, <3>1, <3>2, PcsFacts
  <2> QED
    BY <2>4, <2>5, <2>6, <2>7, <2>8
<1> QED
  BY <1>4, <1>7

(* More interrupts pending: still good registers. *)
LEMMA GoodRaise ==
  ASSUME NEW r, GoodRegisters(r), NEW bits, bits \subseteq Mask("mip")
  PROVE  GoodRegisters(Raise(r, bits)) /\ \A a \in Csr : a # "mip" => Raise(r, bits)[a] = r[a]
<1>1. r \in [Csr -> SUBSET AllOnes] /\ Mask("mip") \subseteq AllOnes
  BY BackingFacts DEF GoodRegisters, Csr
<1>2. PICK q : q = Raise(r, bits)
  OBVIOUS
<1>3. q["mip"] = r["mip"] \cup bits /\ \A a \in Csr : a # "mip" => q[a] = r[a]
  BY <1>1, <1>2, RaiseFacts
<1>4. q \in [Csr -> SUBSET AllOnes]
  BY <1>1, <1>2 DEF Raise
<1>5. \A a \in Csr : q[a] \subseteq CoreMask(a)
  BY <1>3, CoreMaskFacts DEF GoodRegisters
<1>6. \A a \in PcRegs : q[a] \in Pcs
  BY <1>3 DEF GoodRegisters, PcRegs, Csr
<1> QED
  BY <1>2, <1>3, <1>4, <1>5, <1>6 DEF GoodRegisters

LEMMA StateFacts ==
  ASSUME IInv, NEW lines, lines \subseteq {"ext", "timer"}, NEW offer, Cycle(lines, offer)
  PROVE  LET f == Follow(sim) IN
         /\ IsSim(sim') /\ sim'.pc = f.pc /\ sim'.mpriv = f.mpriv /\ mpriv' = f.mpriv
         /\ late' = IF MipInFlight THEN late \cup lines ELSE {}
         /\ reg' = Raise(f.csr, Bits(reg["mideleg"], late \cup lines))
         /\ sim'.csr = IF MipInFlight THEN f.csr ELSE reg'
         /\ reg' = Raise(Done, mipNext \cup Raised(lines))
         /\ reg' \in [Csr -> SUBSET AllOnes]
         /\ reg'["mideleg"] = reg["mideleg"]
         /\ SameState' /\ Delegation' /\ GoodRegisters(reg)' /\ GoodRegisters(sim.csr)'
<1> DEFINE f == Follow(sim)
           d == reg["mideleg"]
           all == late \cup lines
<1>1. /\ IsSim(f) /\ GoodRegisters(f.csr) /\ f.mpriv \in 0 .. 3 /\ f.pc \in Pcs
      /\ f.csr["mideleg"] = d /\ OwnLevel(d, f.csr["mie"])
      /\ Raise(Done, mipNext) = Raise(f.csr, Bits(d, late))
      /\ f.mpriv = LevelDone
      /\ Quiet => f.csr = sim.csr /\ f.mpriv = mpriv /\ Done = reg
  BY FollowFacts
<1>2. f.csr \in [Csr -> SUBSET AllOnes]
  BY <1>1 DEF GoodRegisters
<1>3. /\ GoodDelegation(d) /\ \E b \in Boots : d = b.csr["mideleg"]
  BY DEF IInv, Delegation
<1>4. Raised(lines) = Bits(d, lines)
  BY <1>3, RaisedIsBits
<1>5. \A a, b : Raise(Raise(Done, a), b) = Raise(Done, a \cup b)
  BY DEF Raise
<1>6. reg' = Raise(Done, mipNext \cup Raised(lines)) /\ mpriv' = LevelDone
  BY DEF Cycle, Clock, Registers, Raise, Done, LevelDone
<1>7. reg' = Raise(f.csr, Bits(d, all))
  <2>1. reg' = Raise(Raise(Done, mipNext), Bits(d, lines))
    BY <1>4, <1>5, <1>6
  <2>2. reg' = Raise(f.csr, Bits(d, late) \cup Bits(d, lines))
    BY <1>1, <1>2, <2>1, RaiseFacts
  <2>3. Bits(d, late \cup lines) = Bits(d, late) \cup Bits(d, lines)
    BY DEF Bits
  <2> QED
    BY <2>2, <2>3
<1>8. /\ sim' = IF MipInFlight THEN f ELSE Told(f, all)
      /\ late' = IF MipInFlight THEN all ELSE {}
  BY DEF Cycle
<1>9. /\ IsSim(Told(f, all)) /\ Told(f, all).pc = f.pc /\ Told(f, all).mpriv = f.mpriv
      /\ Told(f, all).csr = reg'
  BY <1>1, <1>2, <1>7, ToldFacts
<1>10. GoodRegisters(reg') /\ reg'["mideleg"] = d /\ reg'["mie"] = f.csr["mie"]
  <2>1. /\ GoodRegisters(Raise(f.csr, Bits(d, all)))
        /\ \A a \in Csr : a # "mip" => Raise(f.csr, Bits(d, all))[a] = f.csr[a]
    BY <1>1, BitsFacts, GoodRaise
  <2> QED
    BY <1>1, <1>7, <2>1 DEF Csr
<1>11. SameState'
  <2>1. CASE MipInFlight
    BY <1>1, <1>6, <1>8, <1>9, <2>1 DEF SameState
  <2>2. CASE ~MipInFlight
    <3>1. sim' = Told(f, all) /\ late' = {}
      BY <1>8, <2>2
    <3>2. Told(sim', {}) = sim'
      BY DEF Told
    <3> QED
      BY <1>1, <1>6, <1>9, <3>1, <3>2 DEF SameState
  <2> QED
    BY <2>1, <2>2
<1>12. Delegation'
  BY <1>1, <1>3, <1>10 DEF Delegation
<1>13. sim'.csr = IF MipInFlight THEN f.csr ELSE reg'
  BY <1>8, <1>9
<1> QED
  BY <1>1, <1>6, <1>7, <1>8, <1>9, <1>10, <1>11, <1>12, <1>13 DEF GoodRegisters

---------------------------------------------------------------------------
(* What a clock does to the stages.                                        *)

LEMMA E1Facts ==
  ASSUME StageE1
  PROVE  /\ \A x \in e1' : Issue /\ \E d \in dec : x.i = d.i /\ x.pc = d.pc /\ (x.intr <=> takeInterrupt)
         /\ Issue => e1' # {}
         /\ ~Issue => e1' = {}
         /\ AtMostOne(dec) => AtMostOne(e1')
<1>1. ASSUME NEW x \in e1'
      PROVE  Issue /\ \E d \in dec : x.i = d.i /\ x.pc = d.pc /\ (x.intr <=> takeInterrupt)
  BY <1>1 DEF StageE1
<1>2. Issue => e1' # {}
  BY DEF StageE1, Issue, OpcodeValid
<1>3. AtMostOne(dec) => AtMostOne(e1')
  BY DEF StageE1, AtMostOne
<1> QED
  BY <1>1, <1>2, <1>3 DEF StageE1

LEMMA E2Facts ==
  ASSUME StageE2
  PROVE  /\ \A x \in e2' :
              /\ ~Squash
              /\ \E y \in e1 :
                   /\ x.i = y.i /\ x.pc = y.pc /\ (x.write <=> csrE1.write)
                   /\ x.result = csrE1.result /\ x.wdata = csrE1.wdata
                   /\ x.exc = IF y.intr THEN Exc("interrupt", 0) ELSE csrE1.exc
         /\ ~Squash => (e2' = {} <=> e1 = {})
         /\ Squash => e2' = {}
         /\ AtMostOne(e1) => AtMostOne(e2')
<1>1. ASSUME NEW x \in e2'
      PROVE  /\ ~Squash
              /\ \E y \in e1 :
                   /\ x.i = y.i /\ x.pc = y.pc /\ (x.write <=> csrE1.write)
                   /\ x.result = csrE1.result /\ x.wdata = csrE1.wdata
                   /\ x.exc = IF y.intr THEN Exc("interrupt", 0) ELSE csrE1.exc
  BY <1>1 DEF StageE2
<1>2. ~Squash => (e2' = {} <=> e1 = {})
  BY DEF StageE2
<1>3. AtMostOne(e1) => AtMostOne(e2')
  BY DEF StageE2, AtMostOne
<1> QED
  BY <1>1, <1>2, <1>3 DEF StageE2

LEMMA WbFacts ==
  ASSUME StageWb
  PROVE  /\ \A x \in wb' :
              \E y \in e2 :
                /\ x.i = y.i /\ x.pc = y.pc /\ (x.write <=> y.write)
                /\ x.result = y.result /\ x.wdata = y.wdata /\ x.exc = ExceptionE2(y)
                /\ x.rd <=> y.i.op \in CsrOps /\ y.i.rd /\ ExceptionE2(y) = None
                /\ x.rd \in BOOLEAN
         /\ wb' = {} <=> e2 = {}
         /\ \A y \in e2 : \E x \in wb' : x.i = y.i /\ x.pc = y.pc /\ x.exc = ExceptionE2(y)
         /\ AtMostOne(e2) => AtMostOne(wb')
<1>1. ASSUME NEW x \in wb'
      PROVE  \E y \in e2 :
                /\ x.i = y.i /\ x.pc = y.pc /\ (x.write <=> y.write)
                /\ x.result = y.result /\ x.wdata = y.wdata /\ x.exc = ExceptionE2(y)
                /\ x.rd <=> y.i.op \in CsrOps /\ y.i.rd /\ ExceptionE2(y) = None
                /\ x.rd \in BOOLEAN
  <2>1. PICK y \in e2 :
          x = [i |-> y.i, pc |-> y.pc, write |-> y.write, result |-> y.result,
                        wdata |-> y.wdata, exc |-> ExceptionE2(y),
                        rd |-> y.i.op \in CsrOps /\ y.i.rd /\ ExceptionE2(y) = None]
    BY <1>1 DEF StageWb
  <2>2. /\ x.i = y.i /\ x.pc = y.pc /\ x.result = y.result /\ x.wdata = y.wdata
        /\ x.exc = ExceptionE2(y) /\ x.write = y.write
    BY <2>1
  <2>3. x.rd = (y.i.op \in CsrOps /\ y.i.rd /\ ExceptionE2(y) = None)
    BY <2>1
  <2> QED
    BY <2>2, <2>3
<1>2. wb' = {} <=> e2 = {}
  BY DEF StageWb
<1>3. ASSUME NEW y \in e2
      PROVE  \E x \in wb' : x.i = y.i /\ x.pc = y.pc /\ x.exc = ExceptionE2(y)
  <2> DEFINE x == [i |-> y.i, pc |-> y.pc, write |-> y.write, result |-> y.result,
                      wdata |-> y.wdata, exc |-> ExceptionE2(y),
                      rd |-> y.i.op \in CsrOps /\ y.i.rd /\ ExceptionE2(y) = None]
  <2>1. x \in wb'
    BY <1>3 DEF StageWb
  <2>2. x.i = y.i /\ x.pc = y.pc /\ x.exc = ExceptionE2(y)
    OBVIOUS
  <2> QED
    BY <2>1, <2>2
<1>4. AtMostOne(e2) => AtMostOne(wb')
  BY DEF StageWb, AtMostOne
<1> QED
  BY <1>1, <1>2, <1>3, <1>4

(* What fetch finds is tame. *)
LEMMA OfferFacts ==
  ASSUME Sound, mpriv \in 0 .. 3, NEW offer \in Offers
  PROVE  \E i : /\ offer = {i} /\ Fits(i)
                /\ i.op \in CsrOps /\ Backing(i.csr) = "mip" => ~MipBusy
<1>1. CASE offer = {Nop}
  <2>1. /\ Nop.op = "nop" /\ Nop.csr = "none" /\ Nop.data = {} /\ Nop.rd \in BOOLEAN
        /\ Backing("none") # "mip"
    <3>1. Nop.rd = FALSE
      BY DEF Nop, Instr
    <3> QED
      BY <3>1 DEF Nop, Instr, Backing
  <2>2. Fits(Nop)
    BY <2>1 DEF Fits, Tame, CsrOps, Wide
  <2>3. Nop.op \notin CsrOps
    BY <2>1 DEF CsrOps
  <2> QED
    BY <1>1, <2>2, <2>3
<1>2. CASE offer # {Nop}
  <2>1. PICK i \in Program(mpriv) : offer = {i} /\ Common(i)
    BY <1>2 DEF Offers
  <2>2. Tame(mpriv, i)
    BY <2>1 DEF Sound
  <2>3. /\ i.op = "csrrw" => i.csr \notin Views
        /\ i.op \in CsrOps /\ i.csr = "satp" => ~i.rd
        /\ i.op = "nop" /\ i.csr = "mip" => FALSE
        /\ i.op \in CsrOps /\ Backing(i.csr) = "mip" => ~MipBusy
        /\ ~Wide(i)
    BY <2>1 DEF Common, Sound
  <2>4. i.op \notin CsrOps => Backing(i.csr) # "mip"
    BY <2>2, <2>3 DEF Tame
  <2> QED
    BY <2>1, <2>2, <2>3, <2>4 DEF Fits
<1> QED
  BY <1>1, <1>2

LEMMA LinesFacts ==
  ASSUME NEW lines \in Lines
  PROVE  lines \subseteq {"ext", "timer"}
BY DEF Lines

LEMMA FlushedNext ==
  ASSUME IInv, NEW lines, NEW offer, Cycle(lines, offer)
  PROVE  /\ Flushed'
         /\ squashQ' <=> Raises
         /\ branchCsr' <=> squashQ
         /\ Branches <=> squashQ
<1>1. /\ StageE1 /\ StageE2 /\ StageWb /\ (squashQ' <=> Raises) /\ (branchCsr' <=> Branches)
  BY DEF Cycle, Clock
<1>2. Branches <=> squashQ
  BY DEF IInv, Flushed, Branches
<1>3. squashQ' <=> \E x \in wb' : x.exc # None
  BY <1>1, WbFacts DEF Raises
<1>4. Squash => e1' = {} /\ e2' = {}
  BY <1>1, E1Facts, E2Facts DEF Issue, OpcodeValid
<1>5. squashQ => e2 = {} /\ wb' = {} /\ ~Raises
  <2>1. squashQ => e2 = {}
    BY DEF IInv, Flushed
  <2> QED
    BY <1>1, <2>1, WbFacts DEF Raises
<1> QED
  BY <1>1, <1>2, <1>3, <1>4, <1>5 DEF Flushed, Squash

(* The level changes with an exception only. *)
LEMMA LevelNext ==
  ASSUME IInv, NEW lines, NEW offer, Cycle(lines, offer), ~squashQ
  PROVE  mpriv' = mpriv
<1>1. mpriv' = LevelDone
  BY DEF Cycle, Clock, Registers, LevelDone
<1>2. CASE wb = {}
  BY <1>1, <1>2 DEF LevelDone
<1>3. ASSUME NEW x \in wb PROVE mpriv' = mpriv
  <2>1. LevelDone = LevelAfter(x)
    BY OneFacts DEF IInv, Types
  <2>2. x.exc.type = "none"
    BY ExcFacts DEF IInv, Flushed
  <2> QED
    BY <1>1, <2>1, <2>2 DEF LevelAfter
<1> QED
  BY <1>2, <1>3

LEMMA TypesNext ==
  ASSUME Sound, IInv, NEW lines \in Lines, NEW offer \in Offers, Cycle(lines, offer)
  PROVE  Types'
<1>1. /\ IsSim(sim') /\ sim'.pc = Follow(sim).pc /\ mpriv' = Follow(sim).mpriv
      /\ late' = IF MipInFlight THEN late \cup lines ELSE {}
      /\ GoodRegisters(reg)' /\ GoodRegisters(sim.csr)'
  BY LinesFacts, StateFacts
<1>2. /\ Follow(sim).mpriv \in 0 .. 3 /\ Follow(sim).pc \in Pcs
      /\ \A x \in wb : Follow(sim).pc = IF x.exc = None THEN Plus4[sim.pc] ELSE Target(x)
  BY FollowFacts
<1>3. PICK i : offer = {i}
  BY OfferFacts DEF IInv, Types
<1>4. AtMostOne(dec) /\ AtMostOne(e1) /\ AtMostOne(e2) /\ AtMostOne(wb) /\ fetchPc \in Pcs
      /\ late \subseteq {"ext", "timer"}
  BY DEF IInv, Types
<1>5. AtMostOne(e1') /\ AtMostOne(e2') /\ AtMostOne(wb')
  BY <1>4, E1Facts, E2Facts, WbFacts DEF Cycle, Clock
<1>6. AtMostOne(dec')
  <2>1. AtMostOne({[i |-> j, pc |-> fetchPc] : j \in offer})
    BY <1>3 DEF AtMostOne
  <2>2. AtMostOne({})
    BY DEF AtMostOne
  <2> QED
    BY <1>4, <2>1, <2>2 DEF Cycle, Clock, Fetch
<1>7. fetchPc' \in Pcs
  <2>1. CASE Branches
    <3>1. PICK x \in wb : x.exc # None
      BY <2>1 DEF Branches
    <3>2. fetchPc' = Target(x)
      BY <1>4, <2>1, <3>1, OneFacts DEF Cycle, Clock, Fetch
    <3> QED
      BY <1>2, <3>1, <3>2
  <2>2. CASE ~Branches
    BY <1>4, <2>2, PcsFacts DEF Cycle, Clock, Fetch
  <2> QED
    BY <2>1, <2>2
<1>8. late' \subseteq {"ext", "timer"}
  BY <1>1, <1>4, LinesFacts
<1> QED
  BY <1>1, <1>2, <1>5, <1>6, <1>7, <1>8 DEF Types

(* Behind an instruction that did not except, writeback held no CSR        *)
(* operation.                                                              *)
LEMMA QuietFacts ==
  ASSUME IInv
  PROVE  ~squashQ /\ (e1 # {} \/ e2 # {}) => Quiet
BY DEF IInv, Flushed, Alone, Quiet

LEMMA InterruptExc ==
  /\ Exc("interrupt", 0) # None /\ Exc("interrupt", 0).type = "interrupt"
  /\ \A i : Fits(i) => EarlyException(i).type # "interrupt" /\ Outcome(i).type # "interrupt"
<1>1. ASSUME NEW i, Fits(i) PROVE Outcome(i).type # "interrupt"
  BY <1>1, OutcomeFacts, ExcFacts
<1>2. ASSUME NEW i, Fits(i) PROVE EarlyException(i).type # "interrupt"
  <2>1. i.op # "pagefault" => Outcome(i) = EarlyException(i)
    BY <1>2, OutcomeFacts
  <2>2. i.op = "pagefault" => EarlyException(i) = None
    BY <1>2, OutcomeFacts
  <2> QED
    BY <1>1, <1>2, <2>1, <2>2, ExcFacts
<1> QED
  BY <1>1, <1>2, ExcFacts

LEMMA PendingFlag ==
  ASSUME NEW lines, NEW offer, Cycle(lines, offer)
  PROVE  /\ ~Squash /\ CsrValid /\ IssueCsr => csrPending'
         /\ ~Squash /\ csrPending /\ Quiet => csrPending'
         /\ csrPending' => ~Squash /\ ((CsrValid /\ IssueCsr) \/ csrPending)
BY DEF Cycle, Clock, Quiet, IsCsr

LEMMA AloneNext ==
  ASSUME IInv, NEW lines, NEW offer, Cycle(lines, offer)
  PROVE  Alone'
<1>1. StageE1 /\ StageE2 /\ StageWb
  BY DEF Cycle, Clock
<1>2. Alone /\ Flushed
  BY DEF IInv
<1>3. ASSUME NEW x \in e1', IsCsr(x.i), ~x.intr PROVE csrPending'
  <2>1. PICK d \in dec : Issue /\ x.i = d.i /\ (x.intr <=> takeInterrupt)
    BY <1>1, E1Facts
  <2>2. CsrValid /\ IssueCsr /\ ~Squash
    BY <1>3, <2>1 DEF CsrValid, IssueCsr, IsCsr, Issue, OpcodeValid
  <2> QED
    BY <2>2, PendingFlag
<1>4. ASSUME NEW x \in e2', IsCsr(x.i), ~IsInterrupt(x) PROVE csrPending' /\ e1' = {}
  <2>1. PICK y \in e1 : /\ ~Squash /\ x.i = y.i
                        /\ x.exc = IF y.intr THEN Exc("interrupt", 0) ELSE csrE1.exc
    BY <1>1, E2Facts
  <2>2. ~y.intr
    BY <1>4, <2>1, InterruptExc DEF IsInterrupt
  <2>3. csrPending
    BY <1>2, <1>4, <2>1, <2>2 DEF Alone
  <2>4. Quiet
    BY <2>1, QuietFacts DEF Squash
  <2>5. ~Issue
    BY <2>3 DEF Issue
  <2> QED
    BY <1>1, <2>1, <2>3, <2>4, <2>5, E1Facts, PendingFlag
<1>5. ASSUME NEW x \in wb', IsCsr(x.i), x.exc = None PROVE csrPending' /\ e1' = {} /\ e2' = {}
  <2>1. PICK y \in e2 : x.i = y.i /\ x.exc = ExceptionE2(y)
    BY <1>1, WbFacts
  <2>2. y.exc = None
    BY <1>5, <2>1, ExcFacts, None # Exc("trap", MCAUSE_PAGE_FAULT_LOAD) DEF ExceptionE2
  <2>3. csrPending /\ e1 = {}
    BY <1>2, <1>5, <2>1, <2>2, ExcFacts DEF Alone, IsInterrupt
  <2>4. e2 = {y}
    BY DEF IInv, Types, AtMostOne
  <2>5. ~Squash
    BY <1>2, <1>5, <2>1, <2>4 DEF Squash, Raises, Flushed
  <2>6. Quiet
    BY <2>5, QuietFacts DEF Squash
  <2>7. ~Issue
    BY <2>3 DEF Issue
  <2> QED
    BY <1>1, <2>3, <2>5, <2>6, <2>7, E1Facts, E2Facts, PendingFlag
<1> QED
  BY <1>3, <1>4, <1>5 DEF Alone, IsInterrupt, IsCsr

(* What an instruction in the pipeline has read is still what the          *)
(* simulator would read.                                                   *)
LEMMA ReadNext ==
  ASSUME IInv, NEW lines \in Lines, NEW offer, Cycle(lines, offer), Quiet,
         NEW a, Backing(a) \in Csr, Backing(a) = "mip" => MipInFlight
  PROVE  ReadCsr(sim', a) = ReadCsr(sim, a)
<1>1. Follow(sim).csr = sim.csr
  BY FollowFacts
<1>2. /\ sim'.csr = IF MipInFlight THEN sim.csr ELSE reg'
      /\ reg' = Raise(sim.csr, Bits(reg["mideleg"], late \cup lines))
  BY <1>1, LinesFacts, StateFacts
<1>3. GoodRegisters(sim.csr)
  BY DEF IInv, Types
<1>4. Backing(a) # "mip" => reg'[Backing(a)] = sim.csr[Backing(a)]
  BY <1>2, <1>3, BitsFacts, GoodRaise
<1>5. sim'.csr[Backing(a)] = sim.csr[Backing(a)]
  BY <1>2, <1>4
<1> QED
  BY <1>5 DEF ReadCsr

LEMMA FitsNext ==
  ASSUME mpriv' = mpriv
  PROVE  \A i : /\ Fits(i)' <=> Fits(i)
                /\ EarlyException(i)' = EarlyException(i)
                /\ Outcome(i)' = Outcome(i)
<1>1. \A i : EarlyException(i)' = EarlyException(i)
  BY DEF EarlyException, CsrFault
<1> QED
  BY <1>1 DEF Fits, Outcome

(* The CSR unit reads what the simulator will. *)
LEMMA AnswerFacts ==
  ASSUME IInv, NEW lines \in Lines, NEW offer, Cycle(lines, offer), CsrValid, NEW d \in dec,
         Fits(d.i), NEW i, i = d.i
  PROVE  /\ csrE1'.write <=> i.op \in CsrOps
         /\ csrE1'.exc = EarlyException(i)
         /\ Answered(i, csrE1.result, csrE1.wdata)'
<1>1. dec = {d}
  BY DEF IInv, Types, AtMostOne
<1>2. csrE1' = Answer(i)
  <2>1. \A a : a \in {Answer(e.i) : e \in dec} <=> a = Answer(i)
    BY <1>1
  <2> QED
    BY <2>1 DEF Cycle, Clock, CsrAnswer
<1>3. CASE i.op \notin CsrOps
  <2>1. Answer(i) = [NoAnswer EXCEPT !.exc = EarlyException(i)]
    BY <1>3 DEF Answer
  <2>2. ~Answer(i).write /\ Answer(i).exc = EarlyException(i)
    BY <2>1 DEF NoAnswer
  <2> QED
    BY <1>2, <1>3, <2>2 DEF Answered
<1>4. CASE i.op \in CsrOps
  <2>1. Backing(i.csr) \in Csr /\ ~CsrFault(i)
    BY <1>4, OutcomeFacts DEF Fits, Tame, TameAccess
  <2>2. Answer(i) = [write |-> ~CsrFault(i), result |-> RData(i.csr),
                     wdata |-> Updated(i.op, RData(i.csr), i.data), exc |-> EarlyException(i)]
    BY <1>4 DEF Answer
  <2>3. /\ Answer(i).write /\ Answer(i).exc = EarlyException(i)
        /\ Answer(i).result = RData(i.csr) /\ Answer(i).wdata = Updated(i.op, RData(i.csr), i.data)
    <3>1. Answer(i).write = ~CsrFault(i)
      BY <2>2
    <3>2. Answer(i).exc = EarlyException(i)
      BY <2>2
    <3>3. Answer(i).result = RData(i.csr)
      BY <2>2
    <3>4. Answer(i).wdata = Updated(i.op, RData(i.csr), i.data)
      BY <2>2
    <3> QED
      BY <2>1, <3>1, <3>2, <3>3, <3>4
  <2>4. ~squashQ /\ ~csrPending
    BY DEF CsrValid, Issue, OpcodeValid, Squash
  <2>5. Quiet
    BY <2>4 DEF IInv, Flushed, Alone, Quiet
  <2>6. ReadCsr(sim, i.csr) = RData(i.csr)
    <3>1. RData(i.csr) = reg[Backing(i.csr)] \cap Mask(i.csr)
      BY <2>1, SameRead DEF RData, IInv, Types
    <3>2. CASE Backing(i.csr) = "mip"
      <4>1. Touches(d, "mip")
        BY <1>4, <3>2 DEF Touches
      <4>2. late = {}
        BY <4>1 DEF IInv, Buffered
      <4> QED
        BY <3>1, <4>2, KnownFacts DEF ReadCsr
    <3>3. CASE Backing(i.csr) # "mip"
      BY <2>1, <3>1, <3>3, KnownFacts DEF ReadCsr
    <3> QED
      BY <3>2, <3>3
  <2>7. Backing(i.csr) = "mip" => MipInFlight
    BY <1>4 DEF MipInFlight, Touches
  <2>8. ReadCsr(sim', i.csr) = RData(i.csr)
    BY <2>1, <2>5, <2>6, <2>7, ReadNext
  <2>9. csrE1'.result = ReadCsr(sim', i.csr) /\ csrE1'.wdata = Updated(i.op, csrE1'.result, i.data)
    BY <1>2, <2>3, <2>8
  <2>10. Answered(i, csrE1.result, csrE1.wdata)'
    BY <2>9 DEF Answered
  <2> QED
    BY <1>2, <1>4, <2>3, <2>10
<1> QED
  BY <1>3, <1>4

(* An answer stays right as it moves on. *)
LEMMA AnsweredNext ==
  ASSUME IInv, NEW lines \in Lines, NEW offer, Cycle(lines, offer), Quiet, NEW i, Fits(i),
         NEW answer, NEW wdata, Answered(i, answer, wdata),
         i.op \in CsrOps /\ Backing(i.csr) = "mip" => MipInFlight
  PROVE  i.op \in CsrOps => answer = ReadCsr(sim', i.csr) /\ wdata = Updated(i.op, answer, i.data)
<1> SUFFICES ASSUME i.op \in CsrOps
             PROVE  answer = ReadCsr(sim', i.csr) /\ wdata = Updated(i.op, answer, i.data)
  OBVIOUS
<1>1. Backing(i.csr) \in Csr
  BY DEF Fits, Tame, TameAccess
<1>2. ReadCsr(sim', i.csr) = ReadCsr(sim, i.csr)
  BY <1>1, ReadNext
<1> QED
  BY <1>2 DEF Answered

LEMMA ItemsNext ==
  ASSUME Sound, IInv, NEW lines \in Lines, NEW offer \in Offers, Cycle(lines, offer)
  PROVE  Items'
<1>1. StageE1 /\ StageE2 /\ StageWb
  BY DEF Cycle, Clock
<1>2. Items /\ Flushed
  BY DEF IInv
<1>3. ~squashQ => mpriv' = mpriv
  BY LevelNext
<1>4. ASSUME ~branchCsr', NEW d \in dec' PROVE Fits(d.i)'
  <2>1. mpriv' = mpriv
    BY <1>3, <1>4, FlushedNext
  <2>2. PICK i : offer = {i} /\ Fits(i)
    BY OfferFacts DEF IInv, Types
  <2>3. (d \in dec /\ ~branchCsr) \/ d = [i |-> i, pc |-> fetchPc]
    BY <2>2 DEF Cycle, Clock, Fetch
  <2>4. Fits(d.i)
    BY <1>2, <2>2, <2>3 DEF Items
  <2> QED
    BY <2>1, <2>4, FitsNext
<1>5. ASSUME NEW x \in e1'
      PROVE  /\ Fits(x.i)'
             /\ ~x.intr =>
                  /\ csrE1'.write <=> x.i.op \in CsrOps
                  /\ csrE1'.exc = EarlyException(x.i)'
                  /\ Answered(x.i, csrE1.result, csrE1.wdata)'
  <2>1. PICK d \in dec : Issue /\ x.i = d.i /\ (x.intr <=> takeInterrupt)
    BY <1>1, E1Facts
  <2>2. ~squashQ /\ ~branchCsr
    BY <2>1 DEF Issue, OpcodeValid, Squash
  <2>3. Fits(d.i) /\ mpriv' = mpriv
    BY <1>2, <1>3, <2>2 DEF Items
  <2>4. ASSUME ~x.intr
        PROVE  /\ csrE1'.write <=> x.i.op \in CsrOps
               /\ csrE1'.exc = EarlyException(x.i)
               /\ Answered(x.i, csrE1.result, csrE1.wdata)'
    <3>1. CsrValid
      BY <2>1, <2>4 DEF CsrValid
    <3> QED
      BY <2>1, <2>3, <3>1, AnswerFacts
  <2> QED
    BY <2>1, <2>3, <2>4, FitsNext
<1>6. ASSUME NEW x \in e2'
      PROVE  /\ Fits(x.i)'
             /\ ~IsInterrupt(x) =>
                  /\ x.write <=> x.i.op \in CsrOps
                  /\ x.exc = EarlyException(x.i)'
                  /\ Answered(x.i, x.result, x.wdata)'
  <2>1. PICK y \in e1 :
          /\ ~Squash /\ x.i = y.i /\ (x.write <=> csrE1.write)
          /\ x.result = csrE1.result /\ x.wdata = csrE1.wdata
          /\ x.exc = IF y.intr THEN Exc("interrupt", 0) ELSE csrE1.exc
    BY <1>1, E2Facts
  <2>2. Quiet /\ mpriv' = mpriv
    BY <1>3, <2>1, QuietFacts DEF Squash
  <2>3. Fits(y.i)
    BY <1>2 DEF Items
  <2>4. ASSUME ~IsInterrupt(x)
        PROVE  /\ x.write <=> x.i.op \in CsrOps
               /\ x.exc = EarlyException(x.i)
               /\ Answered(x.i, x.result, x.wdata)'
    <3>1. ~y.intr
      BY <2>1, <2>4, InterruptExc DEF IsInterrupt
    <3>2. /\ csrE1.write <=> y.i.op \in CsrOps
          /\ csrE1.exc = EarlyException(y.i)
          /\ Answered(y.i, csrE1.result, csrE1.wdata)
      BY <1>2, <3>1 DEF Items
    <3>3. y.i.op \in CsrOps /\ Backing(y.i.csr) = "mip" => MipInFlight
      BY <2>1, <3>1 DEF MipInFlight, Touches
    <3>4. Answered(y.i, csrE1.result, csrE1.wdata) /\ Fits(y.i) => Answered(x.i, x.result, x.wdata)'
      BY <2>1, <2>2, <3>3, AnsweredNext DEF Answered
    <3> QED
      BY <2>1, <2>3, <3>1, <3>2, <3>4
  <2> QED
    BY <2>1, <2>2, <2>3, <2>4, FitsNext
<1>7. ASSUME NEW x \in wb'
      PROVE  /\ Fits(x.i)'
             /\ ~IsInterrupt(x) =>
                  /\ x.write <=> x.i.op \in CsrOps
                  /\ x.exc = Outcome(x.i)'
                  /\ Answered(x.i, x.result, x.wdata)'
                  /\ x.rd \in BOOLEAN /\ (x.i.op \in CsrOps => (x.rd <=> x.i.rd))
  <2>1. PICK y \in e2 :
          /\ x.i = y.i /\ (x.write <=> y.write)
          /\ x.result = y.result /\ x.wdata = y.wdata /\ x.exc = ExceptionE2(y)
          /\ x.rd <=> y.i.op \in CsrOps /\ y.i.rd /\ ExceptionE2(y) = None
          /\ x.rd \in BOOLEAN
    BY <1>1, WbFacts
  <2>2. Quiet /\ mpriv' = mpriv
    BY <1>2, <1>3, QuietFacts DEF Flushed
  <2>3. Fits(y.i)
    BY <1>2 DEF Items
  <2>4. ASSUME ~IsInterrupt(x)
        PROVE  /\ x.write <=> x.i.op \in CsrOps
               /\ x.exc = Outcome(x.i)
               /\ Answered(x.i, x.result, x.wdata)'
               /\ x.rd \in BOOLEAN /\ (x.i.op \in CsrOps => (x.rd <=> x.i.rd))
    <3>1. ~IsInterrupt(y)
      BY <2>1, <2>4, ExcFacts DEF IsInterrupt, ExceptionE2
    <3>2. /\ y.write <=> y.i.op \in CsrOps
          /\ y.exc = EarlyException(y.i)
          /\ Answered(y.i, y.result, y.wdata)
      BY <1>2, <3>1 DEF Items
    <3>3. x.exc = Outcome(y.i)
      BY <2>1, <2>3, <3>2, OutcomeFacts DEF ExceptionE2, Outcome
    <3>4. y.i.op \in CsrOps =>
            /\ y.exc \in {None, Exc("fence", 0)} /\ (y.i.csr # "satp" => y.exc = None)
            /\ Outcome(y.i) = y.exc
      BY <2>3, <3>2, OutcomeFacts DEF CsrOps
    <3>5. y.i.op \in CsrOps /\ Backing(y.i.csr) = "mip" => MipInFlight
      <4>1. Backing("satp") # "mip"
        BY DEF Backing
      <4> QED
        BY <3>4, <4>1 DEF MipInFlight, Touches
    <3>6. Answered(y.i, y.result, y.wdata) /\ Fits(y.i) => Answered(x.i, x.result, x.wdata)'
      BY <2>1, <2>2, <3>5, AnsweredNext DEF Answered
    <3>7. y.i.op \in CsrOps => (x.rd <=> x.i.rd)
      <4>1. y.i.op \in CsrOps /\ y.i.csr = "satp" => ~y.i.rd
        BY <2>3 DEF Fits
      <4>2. y.i.op \in CsrOps /\ y.i.csr # "satp" => x.exc = None
        BY <3>3, <3>4
      <4> QED
        BY <2>1, <4>1, <4>2
    <3> QED
      BY <2>1, <2>3, <3>2, <3>3, <3>6, <3>7
  <2> QED
    BY <2>1, <2>2, <2>3, <2>4, FitsNext
<1>8. ASSUME ~branchCsr' PROVE \A d \in dec' : Fits(d.i)'
  BY <1>4, <1>8
<1> QED
  BY <1>5, <1>6, <1>7, <1>8 DEF Items, IsInterrupt

LEMMA PathNext ==
  ASSUME Sound, IInv, NEW lines \in Lines, NEW offer \in Offers, Cycle(lines, offer)
  PROVE  Path'
<1>1. /\ StageE1 /\ StageE2 /\ StageWb /\ Fetch(offer)
      /\ AtMostOne(dec) /\ AtMostOne(e1) /\ AtMostOne(e2) /\ AtMostOne(wb)
  BY DEF Cycle, Clock, IInv, Types
<1>2. Items /\ Flushed /\ Path
  BY DEF IInv
<1>3. (squashQ' <=> Raises) /\ (branchCsr' <=> squashQ) /\ (Branches <=> squashQ)
  BY FlushedNext
<1>4. sim'.pc = Follow(sim).pc
  BY LinesFacts, StateFacts
<1>5. /\ wb = {} => Follow(sim) = sim
      /\ \A x \in wb : Follow(sim).pc = IF x.exc = None THEN Plus4[sim.pc] ELSE Target(x)
  BY FollowFacts
<1>6. ~squashQ => sim'.pc = AfterWb
  BY <1>2, <1>4, <1>5 DEF AfterWb, Flushed
<1>7. ASSUME NEW x \in wb' PROVE x.pc = sim'.pc /\ x.pc \in Pcs
  <2>1. PICK y \in e2 : x.pc = y.pc
    BY <1>1, WbFacts
  <2>2. ~squashQ /\ ~branchCsr
    BY <1>2 DEF Flushed
  <2> QED
    BY <1>2, <1>6, <2>1, <2>2 DEF Path
<1>8. ASSUME branchCsr' PROVE fetchPc' = sim'.pc
  <2>1. PICK x \in wb : x.exc # None
    BY <1>3, <1>8 DEF Branches
  <2>2. fetchPc' = Target(x)
    BY <1>1, <1>3, <1>8, OneFacts DEF Fetch
  <2> QED
    BY <1>4, <1>5, <2>1, <2>2
<1>9. ASSUME ~squashQ', ~branchCsr'
      PROVE  /\ \A x \in e2' : x.pc = AfterWb'
             /\ \A x \in e1' : x.pc = AfterE2'
             /\ \A d \in dec' : d.pc = AfterE1'
             /\ fetchPc' = AfterDec'
  <2>1. ~squashQ /\ ~Raises /\ ~Squash /\ ~Branches /\ sim'.pc = AfterWb
    BY <1>3, <1>6, <1>9 DEF Squash
  <2>2. CASE branchCsr
    <3>1. wb = {} /\ e1 = {} /\ e2 = {} /\ ~Issue
      BY <1>2, <2>2 DEF Flushed, Issue, OpcodeValid
    <3>2. wb' = {} /\ e1' = {} /\ e2' = {} /\ dec' = {} /\ fetchPc' = fetchPc
      BY <1>1, <2>1, <2>2, <3>1, E1Facts, E2Facts, WbFacts DEF Fetch
    <3>3. fetchPc = sim.pc /\ AfterWb = sim.pc
      BY <1>2, <2>2, <3>1 DEF Path, AfterWb
    <3> QED
      BY <2>1, <3>2, <3>3 DEF AfterWb, AfterE2, AfterE1, AfterDec
  <2>3. CASE ~branchCsr
    <3>1. /\ \A x \in e2 : x.pc = AfterWb
          /\ \A x \in e1 : x.pc = AfterE2
          /\ \A d \in dec : d.pc = AfterE1
          /\ fetchPc = AfterDec
      BY <1>2, <2>1, <2>3 DEF Path
    <3>2. AfterWb' = AfterE2
      <4>1. \A y \in e2 : ~IsInterrupt(y)
        <5>1. \A y \in e2 : ExceptionE2(y) = None
          BY <2>1 DEF Raises
        <5>2. \A y \in e2 : y.exc = None
          BY <5>1, ExcFacts DEF ExceptionE2
        <5> QED
          BY <5>2, ExcFacts DEF IsInterrupt
      <4>2. wb' = {} <=> e2 = {}
        BY <1>1, WbFacts
      <4> QED
        BY <2>1, <4>1, <4>2 DEF AfterWb, AfterE2
    <3>3. AfterE2' = AfterE1
      <4>1. ASSUME NEW x \in e2', NEW y \in e1 PROVE IsInterrupt(x) <=> y.intr
        <5>1. PICK z \in e1 : x.exc = IF z.intr THEN Exc("interrupt", 0) ELSE csrE1.exc
          BY <1>1, E2Facts
        <5>2. z = y
          BY <1>1 DEF AtMostOne
        <5>3. ~y.intr => csrE1.exc = EarlyException(y.i) /\ Fits(y.i)
          BY <1>2 DEF Items
        <5> QED
          BY <5>1, <5>2, <5>3, InterruptExc DEF IsInterrupt
      <4>2. e2' = {} <=> e1 = {}
        BY <1>1, <2>1, E2Facts
      <4>3. (\E x \in e2' : ~IsInterrupt(x)) <=> \E y \in e1 : ~y.intr
        BY <4>1, <4>2
      <4> QED
        BY <3>2, <4>3 DEF AfterE2, AfterE1, IsInterrupt
    <3>4. AfterE1' = IF Accepts THEN Plus4[AfterE1] ELSE AfterE1
      <4>1. (\E x \in e1' : ~x.intr) <=> Accepts
        BY <1>1, E1Facts DEF Accepts
      <4> QED
        BY <3>3, <4>1 DEF AfterE1
    <3>5. \A x \in e2' : x.pc = AfterWb'
      BY <1>1, <3>1, <3>2, E2Facts
    <3>6. \A x \in e1' : x.pc = AfterE2'
      BY <1>1, <3>1, <3>3, E1Facts
    <3>7. PICK i : offer = {i}
      BY OfferFacts DEF IInv, Types
    <3>8. CASE dec = {} \/ Accepts
      <4>1. dec' = {[i |-> i, pc |-> fetchPc]} /\ fetchPc' = Plus4[fetchPc]
        BY <1>1, <2>1, <2>3, <3>7, <3>8 DEF Fetch
      <4>2. Accepts => dec # {}
        BY DEF Accepts, Issue, OpcodeValid
      <4>3. fetchPc = AfterE1'
        BY <3>1, <3>4, <3>8, <4>2 DEF AfterDec
      <4>4. AfterDec' = Plus4[fetchPc]
        BY <4>1, <4>3 DEF AfterDec
      <4> QED
        BY <3>5, <3>6, <4>1, <4>3, <4>4
    <3>9. CASE dec # {} /\ ~Accepts
      <4>1. dec' = dec /\ fetchPc' = fetchPc
        BY <1>1, <2>1, <2>3, <3>9 DEF Fetch
      <4> QED
        BY <3>1, <3>4, <3>5, <3>6, <3>9, <4>1 DEF AfterDec
    <3> QED
      BY <3>8, <3>9
  <2> QED
    BY <2>2, <2>3
<1>10. \A d \in dec' : d.pc \in Pcs
  <2>1. fetchPc \in Pcs
    BY DEF IInv, Types
  <2> QED
    BY <1>1, <1>2, <2>1 DEF Fetch, Path
<1>11. (\A x \in e1' : x.pc \in Pcs) /\ (\A x \in e2' : x.pc \in Pcs)
  BY <1>1, <1>2, E1Facts, E2Facts DEF Path
<1> QED
  BY <1>7, <1>8, <1>9, <1>10, <1>11 DEF Path

(* While nothing in writeback touches a register, interrupts only add up,  *)
(* and their level changes only for one that machine level takes.          *)
LEMMA QuietNext ==
  ASSUME IInv, NEW lines \in Lines, NEW offer, Cycle(lines, offer), Quiet
  PROVE  /\ reg'["mip"] = reg["mip"] \cup Raised(lines)
         /\ \A a \in Csr : a # "mip" => reg'[a] = reg[a]
         /\ mpriv' = mpriv
         /\ Masked # {} => Masked' # {}
         /\ Raised(lines) \subseteq reg["mideleg"] \/ M_Interrupts # {} =>
              IrqPriv' = IrqPriv
<1>1. reg' = Raise(Done, mipNext \cup Raised(lines)) /\ mpriv' = mpriv /\ Done = reg
  BY FollowFacts, LinesFacts, StateFacts
<1>2. reg \in [Csr -> SUBSET AllOnes] /\ mipNext \subseteq reg["mip"]
  BY KnownFacts DEF IInv, Types, GoodRegisters
<1>3. PICK q, bits : q = reg' /\ bits = mipNext \cup Raised(lines)
  OBVIOUS
<1>4. q["mip"] = reg["mip"] \cup bits /\ \A a \in Csr : a # "mip" => q[a] = reg[a]
  BY <1>1, <1>2, <1>3, RaiseFacts
<1>5. /\ reg'["mip"] = reg["mip"] \cup Raised(lines)
      /\ reg'["mie"] = reg["mie"] /\ reg'["mideleg"] = reg["mideleg"]
      /\ reg'["mstatus"] = reg["mstatus"]
  BY <1>2, <1>3, <1>4 DEF Csr
<1>6. M_Interrupts \subseteq M_Interrupts' /\ S_Interrupts \subseteq S_Interrupts'
  BY <1>1, <1>5 DEF M_Interrupts, S_Interrupts
<1>7. Raised(lines) \subseteq reg["mideleg"] => M_Interrupts' = M_Interrupts
  BY <1>1, <1>5 DEF M_Interrupts
<1>8. Masked # {} => Masked' # {}
  BY <1>6 DEF Masked
<1>9. Raised(lines) \subseteq reg["mideleg"] \/ M_Interrupts # {} => IrqPriv' = IrqPriv
  BY <1>6, <1>7 DEF IrqPriv
<1> QED
  BY <1>1, <1>3, <1>4, <1>5, <1>8, <1>9

LEMMA PendingNext ==
  ASSUME Sound, IInv, NEW lines \in Lines, Allowed(lines), NEW offer \in Offers, Cycle(lines, offer)
  PROVE  Pending'
<1>1. StageE1 /\ StageE2 /\ StageWb
  BY DEF Cycle, Clock
<1>2. Items /\ Flushed /\ Alone /\ Pending
  BY DEF IInv
<1>3. ~squashQ /\ ~csrPending => Quiet
  BY <1>2 DEF Flushed, Alone, Quiet
<1>4. Quiet /\ Masked # {} => Masked' # {}
  BY QuietNext
<1>5. ASSUME takeInterrupt', ~branchCsr' PROVE Masked' # {} /\ ~csrPending'
  <2>1. Masked # {} /\ ~csrPending /\ ~IssueCsr
    BY <1>5 DEF Cycle, Clock, Inhibit
  <2>2. ~squashQ
    BY <1>5, FlushedNext
  <2> QED
    BY <1>3, <1>4, <2>1, <2>2, PendingFlag
<1>6. ASSUME NEW x \in e1', x.intr
      PROVE  /\ Masked' # {}
             /\ \A y \in e2' : IsInterrupt(y) \/ ~IsCsr(y.i)
             /\ \A y \in wb' : ~IsCsr(y.i)
  <2>1. Issue /\ takeInterrupt
    BY <1>1, <1>6, E1Facts
  <2>2. ~Squash /\ ~squashQ /\ ~Raises /\ ~branchCsr /\ ~csrPending
    BY <2>1 DEF Issue, OpcodeValid, Squash
  <2>3. Masked' # {}
    BY <1>2, <1>3, <1>4, <2>1, <2>2 DEF Pending
  <2>4. ASSUME NEW y \in e2' PROVE IsInterrupt(y) \/ ~IsCsr(y.i)
    <3>1. PICK z \in e1 : y.i = z.i /\ y.exc = IF z.intr THEN Exc("interrupt", 0) ELSE csrE1.exc
      BY <1>1, E2Facts
    <3>2. ~z.intr => ~IsCsr(z.i)
      BY <1>2, <2>2 DEF Alone
    <3> QED
      BY <3>1, <3>2, InterruptExc DEF IsInterrupt
  <2>5. ASSUME NEW y \in wb' PROVE ~IsCsr(y.i)
    <3>1. PICK z \in e2 : y.i = z.i /\ y.exc = ExceptionE2(z)
      BY <1>1, WbFacts
    <3>2. ExceptionE2(z) = None
      BY <2>2 DEF Raises
    <3>3. ~IsInterrupt(z)
      BY <3>2, ExcFacts DEF IsInterrupt, ExceptionE2
    <3> QED
      BY <1>2, <2>2, <3>1, <3>3 DEF Alone
  <2> QED
    BY <2>3, <2>4, <2>5
<1>7. ASSUME NEW x \in e2', IsInterrupt(x) PROVE Masked' # {} /\ \A y \in wb' : ~IsCsr(y.i)
  <2>1. PICK z \in e1 : ~Squash /\ x.exc = IF z.intr THEN Exc("interrupt", 0) ELSE csrE1.exc
    BY <1>1, E2Facts
  <2>2. z.intr
    <3>1. ~z.intr => csrE1.exc = EarlyException(z.i) /\ Fits(z.i)
      BY <1>2 DEF Items
    <3> QED
      BY <1>7, <2>1, <3>1, InterruptExc DEF IsInterrupt
  <2>3. Masked # {} /\ Quiet
    BY <1>2, <2>1, <2>2, QuietFacts DEF Pending, Squash
  <2>4. ASSUME NEW y \in wb' PROVE ~IsCsr(y.i)
    <3>1. PICK w \in e2 : y.i = w.i
      BY <1>1, WbFacts
    <3>2. ExceptionE2(w) = None
      BY <2>1 DEF Squash, Raises
    <3>3. ~IsInterrupt(w)
      BY <3>2, ExcFacts DEF IsInterrupt, ExceptionE2
    <3> QED
      BY <1>2, <2>2, <3>1, <3>3 DEF Pending
  <2> QED
    BY <1>4, <2>3, <2>4
<1>8. ASSUME NEW x \in wb', IsInterrupt(x) PROVE Masked' # {} /\ irqPriv' = IrqPriv'
  <2>1. PICK y \in e2 : x.exc = ExceptionE2(y)
    BY <1>1, WbFacts
  <2>2. IsInterrupt(y)
    <3>1. ~IsInterrupt(y) => y.exc = EarlyException(y.i) /\ Fits(y.i)
      BY <1>2 DEF Items
    <3> QED
      BY <1>8, <2>1, <3>1, InterruptExc, ExcFacts DEF IsInterrupt, ExceptionE2
  <2>3. Masked # {} /\ Quiet
    BY <1>2, <2>2, QuietFacts DEF Pending, Flushed
  <2>4. irqPriv' = IrqPriv
    BY <2>3 DEF Cycle, Clock, Registers
  <2>5. IrqPriv' = IrqPriv
    <3>1. CASE M_Interrupts # {}
      BY <2>3, <3>1, QuietNext
    <3>2. CASE M_Interrupts = {}
      <4>1. SupervisorLaunched
        BY <2>2, <3>2 DEF SupervisorLaunched, IrqPriv, IsInterrupt
      <4>2. Raised(lines) \subseteq reg["mideleg"]
        BY <4>1 DEF Allowed, Sound
      <4> QED
        BY <2>3, <4>2, QuietNext
    <3> QED
      BY <3>1, <3>2
  <2> QED
    BY <1>4, <2>3, <2>4, <2>5
<1> QED
  BY <1>5, <1>6, <1>7, <1>8 DEF Pending, IsInterrupt, IsCsr

(* An access of mip that has read it, and will be executed. *)
LEMMA InFlightFacts ==
  ASSUME IInv, NEW lines, NEW offer, Cycle(lines, offer)
  PROVE  MipRead' <=> MipInFlight
<1>1. StageE1 /\ StageE2 /\ StageWb
  BY DEF Cycle, Clock
<1>2. Items
  BY DEF IInv
<1>3. ASSUME NEW i, Fits(i), i.op \in CsrOps, Backing(i.csr) = "mip"
      PROVE  EarlyException(i) = None
  <2>1. i.csr # "satp" /\ i.op # "pagefault"
    BY <1>3 DEF Backing, CsrOps
  <2> QED
    BY <1>3, <2>1, OutcomeFacts
<1>4. ASSUME MipRead' PROVE MipInFlight
  <2>1. ASSUME NEW x \in e1', ~x.intr, Touches(x, "mip") PROVE MipInFlight
    <3>1. PICK d \in dec : Issue /\ x.i = d.i /\ (x.intr <=> takeInterrupt)
      BY <1>1, E1Facts
    <3> QED
      BY <2>1, <3>1 DEF MipInFlight, CsrValid, Touches
  <2>2. ASSUME NEW x \in e2', x.exc = None, Touches(x, "mip") PROVE MipInFlight
    <3>1. PICK y \in e1 : ~Squash /\ x.i = y.i /\ (y.intr => x.exc = Exc("interrupt", 0))
      BY <1>1, E2Facts
    <3> QED
      BY <2>2, <3>1, InterruptExc DEF MipInFlight, Touches
  <2>3. ASSUME NEW x \in wb', x.exc = None, Touches(x, "mip") PROVE MipInFlight
    <3>1. PICK y \in e2 : x.i = y.i /\ x.exc = ExceptionE2(y)
      BY <1>1, WbFacts
    <3>2. y.exc = None
      BY <2>3, <3>1, ExcFacts DEF ExceptionE2
    <3> QED
      BY <2>3, <3>1, <3>2 DEF MipInFlight, Touches
  <2> QED
    BY <1>4, <2>1, <2>2, <2>3 DEF MipRead, Touches
<1>5. ASSUME MipInFlight PROVE MipRead'
  <2>1. ASSUME CsrValid, NEW d \in dec, Touches(d, "mip") PROVE MipRead'
    <3>1. PICK x \in e1' : TRUE
      BY <1>1, <2>1, E1Facts DEF CsrValid
    <3>2. PICK c \in dec : x.i = c.i /\ (x.intr <=> takeInterrupt)
      BY <1>1, E1Facts
    <3>3. c = d
      BY DEF IInv, Types, AtMostOne
    <3> QED
      BY <2>1, <3>2, <3>3 DEF MipRead, Touches, CsrValid
  <2>2. ASSUME NEW y \in e1, ~y.intr, ~Squash, Touches(y, "mip") PROVE MipRead'
    <3>1. PICK x \in e2' : TRUE
      BY <1>1, <2>2, E2Facts
    <3>2. PICK z \in e1 : x.i = z.i /\ x.exc = IF z.intr THEN Exc("interrupt", 0) ELSE csrE1.exc
      BY <1>1, E2Facts
    <3>3. z = y
      BY DEF IInv, Types, AtMostOne
    <3>4. csrE1.exc = EarlyException(y.i) /\ Fits(y.i)
      BY <1>2, <2>2 DEF Items
    <3>5. x.exc = None
      BY <1>3, <2>2, <3>2, <3>3, <3>4 DEF Touches
    <3> QED
      BY <2>2, <3>2, <3>3, <3>5 DEF MipRead, Touches
  <2>3. ASSUME NEW y \in e2, y.exc = None, Touches(y, "mip") PROVE MipRead'
    <3>1. PICK x \in wb' : x.i = y.i /\ x.exc = ExceptionE2(y)
      BY <1>1, WbFacts
    <3>2. y.i.op # "pagefault"
      BY <2>3 DEF Touches, CsrOps
    <3>3. x.exc = None
      BY <2>3, <3>1, <3>2 DEF ExceptionE2
    <3> QED
      BY <2>3, <3>1, <3>3 DEF MipRead, Touches
  <2> QED
    BY <1>5, <2>1, <2>2, <2>3 DEF MipInFlight
<1> QED
  BY <1>4, <1>5

(* What fetch holds next: what it finds while no access of mip is in the   *)
(* pipeline, or what it held and the pipeline did not take.                *)
LEMMA HeldFacts ==
  ASSUME Sound, IInv, NEW lines, NEW offer \in Offers, Cycle(lines, offer),
         NEW d \in dec', Touches(d, "mip")
  PROVE  ~MipBusy \/ (d \in dec /\ ~CsrValid)
<1>1. PICK i : /\ offer = {i}
               /\ i.op \in CsrOps /\ Backing(i.csr) = "mip" => ~MipBusy
  BY OfferFacts DEF IInv, Types
<1>2. d.i = i \/ (d \in dec /\ ~Accepts)
  BY <1>1 DEF Cycle, Clock, Fetch
<1>3. Accepts <=> CsrValid
  BY DEF Accepts, CsrValid
<1>4. d.i.op \in CsrOps /\ Backing(d.i.csr) = "mip"
  BY DEF Touches
<1> QED
  BY <1>1, <1>2, <1>3, <1>4

LEMMA BufferedNext ==
  ASSUME Sound, IInv, NEW lines \in Lines, NEW offer \in Offers, Cycle(lines, offer)
  PROVE  Buffered'
<1>1. Buffered /\ Items /\ Flushed
  BY DEF IInv
<1>2. MipRead' <=> MipInFlight
  BY InFlightFacts
<1>3. /\ (squashQ' <=> Raises) /\ (branchCsr' <=> squashQ)
      /\ (\E x \in wb : x.exc # None) <=> squashQ
  BY FlushedNext DEF Branches
<1>4. /\ reg'["mideleg"] = reg["mideleg"]
      /\ late' = IF MipInFlight THEN late \cup lines ELSE {}
      /\ reg' = Raise(Done, mipNext \cup Raised(lines))
      /\ reg' \in [Csr -> SUBSET AllOnes]
  BY LinesFacts, StateFacts
<1>5. /\ mipNext' = IF BufferMip THEN mipNext \cup Raised(lines) ELSE {}
      /\ mipUpd' <=> Reads("mip") \/ (mipUpd /\ ~WritesMip /\ ~squashQ)
  <2>1. mipNext' = IF BufferMip THEN mipNext \cup Raised(lines) ELSE {}
    BY DEF Cycle, Clock, Registers
  <2>2. mipUpd' = IF Reads("mip") THEN TRUE
                  ELSE mipUpd /\ ~(WritesMip \/ \E x \in wb : x.exc # None)
    BY DEF Cycle, Clock, Registers
  <2> QED
    BY <1>3, <2>1, <2>2
<1>6. /\ Raised(lines) = Bits(reg["mideleg"], lines)
      /\ Bits(reg["mideleg"], late \cup lines) = Bits(reg["mideleg"], late) \cup Raised(lines)
      /\ Bits(reg["mideleg"], {}) = {}
  <2>1. Raised(lines) = Bits(reg["mideleg"], lines)
    BY RaisedIsBits DEF IInv, Delegation
  <2>2. Bits(reg["mideleg"], late \cup lines)
          = Bits(reg["mideleg"], late) \cup Bits(reg["mideleg"], lines)
    BY DEF Bits
  <2> QED
    BY <2>1, <2>2, BitsFacts
<1>7. Reads("mip") <=> CsrValid /\ \E d \in dec : Touches(d, "mip")
  <2>1. ASSUME CsrValid, NEW d \in dec, Backing(d.i.csr) = "mip" PROVE Touches(d, "mip")
    <3>1. Fits(d.i)
      BY <1>1, <2>1 DEF Items, CsrValid, Issue, OpcodeValid
    <3> QED
      BY <2>1, <3>1 DEF Fits, Touches
  <2> QED
    BY <2>1 DEF Reads, Touches
<1>8. mipNext' \subseteq reg'["mip"]
  <2>1. PICK r : r = Raise(Done, mipNext \cup Raised(lines))
    OBVIOUS
  <2>2. DOMAIN r = Csr
    BY <1>4, <2>1
  <2>3. mipNext \cup Raised(lines) \subseteq r["mip"]
    BY <2>1, <2>2 DEF Raise, Csr
  <2> QED
    BY <1>4, <1>5, <2>1, <2>3
<1>9. ASSUME MipInFlight PROVE mipUpd' /\ mipNext' = Bits(reg["mideleg"], late \cup lines)
  <2>1. CASE Reads("mip")
    <3>1. ~squashQ /\ ~branchCsr
      BY <2>1 DEF Reads, CsrValid, Issue, OpcodeValid, Squash
    <3>2. ~MipRead /\ late = {} /\ mipNext = {}
      BY <1>1, <1>7, <2>1, <3>1 DEF Buffered
    <3> QED
      BY <1>5, <1>6, <2>1, <3>2 DEF BufferMip
  <2>2. CASE ~Reads("mip")
    <3>1. MipRead /\ (e1 # {} \/ e2 # {})
      BY <1>7, <1>9, <2>2 DEF MipInFlight, MipRead
    <3>2. mipUpd /\ mipNext = Bits(reg["mideleg"], late)
      BY <1>1, <3>1 DEF Buffered
    <3>3. ~squashQ
      BY <1>1, <3>1 DEF Flushed
    <3>4. ~WritesMip
      <4>1. Quiet
        BY <3>1, <3>3, QuietFacts
      <4>2. ASSUME NEW x \in wb PROVE ~x.write
        <5>1. ~IsInterrupt(x)
          BY <4>1, ExcFacts DEF Quiet, IsInterrupt
        <5> QED
          BY <1>1, <4>1, <5>1 DEF Items, Quiet, IsCsr, CsrClass
      <4> QED
        BY <4>2 DEF WritesMip
    <3> QED
      BY <1>5, <1>6, <3>2, <3>3, <3>4 DEF BufferMip
  <2> QED
    BY <2>1, <2>2
<1>10. ASSUME mipUpd, ~WritesMip, ~squashQ, ~MipInFlight PROVE Raises
  <2>1. MipRead
    BY <1>1, <1>10 DEF Buffered
  <2>2. ASSUME NEW x \in wb, x.exc = None, Touches(x, "mip") PROVE FALSE
    <3>1. ~IsInterrupt(x)
      BY <2>2, ExcFacts DEF IsInterrupt
    <3>2. x.write
      BY <1>1, <2>2, <3>1 DEF Items, Touches
    <3> QED
      BY <1>10, <2>2, <3>2 DEF WritesMip, Touches
  <2> QED
    BY <1>10, <2>1, <2>2 DEF MipRead, MipInFlight, Squash
<1>11. mipUpd' => MipRead' \/ squashQ'
  BY <1>2, <1>3, <1>5, <1>7, <1>10 DEF MipInFlight
<1>12. ASSUME ~MipRead', mipNext' # {}, ~squashQ', ~branchCsr', NEW d \in dec', Touches(d, "mip")
       PROVE  FALSE
  <2>1. ~Squash /\ ~squashQ /\ ~Reads("mip") /\ ~MipInFlight
    BY <1>2, <1>3, <1>7, <1>12 DEF Squash, MipInFlight
  <2>2. mipUpd
    BY <1>5, <1>12, <2>1 DEF BufferMip
  <2>3. MipRead
    BY <1>1, <2>1, <2>2 DEF Buffered
  <2>4. MipBusy
    BY <2>3 DEF MipRead, MipBusy
  <2>5. d \in dec
    BY <1>12, <2>4, HeldFacts
  <2> QED
    BY <1>1, <1>12, <2>3, <2>5 DEF Buffered
<1>13. ASSUME NEW d \in dec', Touches(d, "mip") PROVE ~MipInFlight
  <2>1. CASE ~MipBusy
    BY <2>1 DEF MipBusy, MipInFlight
  <2>2. CASE d \in dec /\ ~CsrValid
    <3>1. ~MipRead
      BY <1>1, <1>13, <2>2 DEF Buffered
    <3> QED
      BY <2>2, <3>1 DEF MipRead, MipInFlight
  <2> QED
    BY <1>13, <2>1, <2>2, HeldFacts
<1>14. MipRead' => mipUpd' /\ mipNext' = Bits(reg'["mideleg"], late')
  BY <1>2, <1>4, <1>9
<1>15. ~MipRead' => late' = {} /\ mipNext' \subseteq reg'["mip"]
  BY <1>2, <1>4, <1>8
<1> QED
  BY <1>2, <1>11, <1>12, <1>13, <1>14, <1>15 DEF Buffered, Touches

---------------------------------------------------------------------------
(* The invariant holds.                                                    *)

LEMMA InitInv == Sound /\ Init => IInv
<1> SUFFICES ASSUME Sound, NEW boot \in Boots, UnitInit(boot),
                    sim = [Reset({}) EXCEPT !.csr = boot.csr, !.mpriv = boot.mpriv],
                    late = {}
             PROVE  IInv
  BY DEF Init
<1>1. GoodBoot(boot)
  BY DEF Sound
<1>2. /\ reg = boot.csr /\ mpriv = boot.mpriv /\ fetchPc = {} /\ mipNext = {}
      /\ dec = {} /\ e1 = {} /\ e2 = {} /\ wb = {}
      /\ ~mipUpd /\ ~takeInterrupt /\ ~csrPending /\ ~branchCsr /\ ~squashQ
  BY DEF UnitInit
<1>3. sim.csr = boot.csr /\ sim.mpriv = boot.mpriv /\ sim.pc = {} /\ IsSim(sim)
  BY DEF Reset, IsSim
<1>4. SameState
  BY <1>2, <1>3 DEF SameState, Told
<1>5. Types
  BY <1>1, <1>2, <1>3, PcsFacts DEF Types, AtMostOne, GoodBoot
<1>6. Delegation
  BY <1>1, <1>2 DEF Delegation, GoodBoot
<1>7. Items /\ Alone /\ Pending
  BY <1>2 DEF Items, Alone, Pending
<1>8. Flushed
  BY <1>2 DEF Flushed
<1>9. Path
  BY <1>2, <1>3 DEF Path, AfterWb, AfterE2, AfterE1, AfterDec
<1>10. Buffered
  BY <1>2 DEF Buffered, MipRead
<1> QED
  BY <1>4, <1>5, <1>6, <1>7, <1>8, <1>9, <1>10 DEF IInv

(* The whole of a clock is one action. *)
LEMMA NextInv == Sound /\ IInv /\ [Next]_vars => IInv'
<1> SUFFICES ASSUME Sound, IInv, [Next]_vars PROVE IInv'
  OBVIOUS
<1>1. CASE Next
  <2>1. PICK lines \in Lines, offer \in Offers : Allowed(lines) /\ Cycle(lines, offer)
    BY <1>1 DEF Next
  <2>2. SameState' /\ Delegation'
    BY <2>1, LinesFacts, StateFacts
  <2>3. Types' /\ Items' /\ Path' /\ Buffered'
    BY <2>1, TypesNext, ItemsNext, PathNext, BufferedNext
  <2>4. Flushed' /\ Alone'
    BY <2>1, FlushedNext, AloneNext
  <2>5. Pending'
    BY <2>1, PendingNext
  <2> QED
    BY <2>2, <2>3, <2>4, <2>5 DEF IInv
<1>2. CASE UNCHANGED vars
  <2>1. /\ UNCHANGED <<sim, late, reg, mpriv, irqPriv, mipUpd, mipNext>>
        /\ UNCHANGED <<csrE1, takeInterrupt, csrPending, branchCsr, squashQ, dec, fetchPc, e1, e2, wb>>
    BY <1>2 DEF vars, unitVars, regVars, pipeVars
  <2>2. (SameState /\ Types /\ Delegation)'
    BY <2>1 DEF IInv, SameState, Types, Delegation
  <2>3. \A i : /\ Fits(i)' <=> Fits(i)
               /\ EarlyException(i)' = EarlyException(i)
               /\ Outcome(i)' = Outcome(i)
    BY <2>1, FitsNext
  <2>4. \A i, r, w : Answered(i, r, w)' <=> Answered(i, r, w)
    BY <2>1 DEF Answered
  <2>5. Items'
    BY <2>1, <2>3, <2>4 DEF IInv, Items
  <2>6. (Flushed /\ Alone)'
    BY <2>1 DEF IInv, Flushed, Alone
  <2>7. Path'
    BY <2>1 DEF IInv, Path, AfterWb, AfterE2, AfterE1, AfterDec
  <2>8. Masked' = Masked /\ IrqPriv' = IrqPriv
    BY <2>1 DEF Masked, IrqPriv, M_Interrupts, S_Interrupts
  <2>9. Pending'
    BY <2>1, <2>8 DEF IInv, Pending
  <2>10. Buffered'
    BY <2>1 DEF IInv, Buffered, MipRead
  <2> QED
    BY <2>2, <2>5, <2>6, <2>7, <2>9, <2>10 DEF IInv
<1> QED
  BY <1>1, <1>2

(* The invariant of the core and the simulator, from which the two         *)
(* properties follow: what each stage of the pipeline holds, in terms of   *)
(* the simulator's state, and which interrupts each side knows of.         *)
THEOREM InvariantHolds == Sound => (Spec => []IInv)
<1> SUFFICES ASSUME Sound PROVE Spec => []IInv
  OBVIOUS
<1>1. Init => IInv
  BY InitInv
<1>2. IInv /\ [Next]_vars => IInv'
  BY NextInv
<1> QED
  BY <1>1, <1>2, PTL DEF Spec

(* After every instruction, trap, return and interrupt the CSRs and the    *)
(* level of riscv_csr_regfile.v are those of riscv.cpp, the interrupts the *)
(* simulator has still to be told of apart.                                *)
THEOREM SameStateCorrect == Sound => (Spec => []SameState)
<1> SUFFICES ASSUME Sound PROVE Spec => []SameState
  OBVIOUS
<1>1. Spec => []IInv
  BY InvariantHolds
<1>2. IInv => SameState
  BY DEF IInv
<1> QED
  BY <1>1, <1>2, PTL

(* The core retires what the simulator executes next, at the same address, *)
(* and a CSR instruction puts the same value in its register.              *)
THEOREM RetirementsAgreeCorrect == Sound => (Spec => []RetirementsAgree)
<1> SUFFICES ASSUME Sound PROVE Spec => []RetirementsAgree
  OBVIOUS
<1>1. Spec => []IInv
  BY InvariantHolds
<1>2. IInv => RetirementsAgree
  <2> SUFFICES ASSUME IInv, NEW x \in wb
               PROVE  /\ x.pc = sim.pc
                      /\ x.exc.type # "interrupt" /\ x.i.op \in CsrOps =>
                           x.rd = x.i.rd /\ x.result = ReadCsr(sim, x.i.csr)
    BY DEF RetirementsAgree
  <2>1. x.pc = sim.pc
    BY DEF IInv, Path
  <2>2. ASSUME x.exc.type # "interrupt", x.i.op \in CsrOps
        PROVE  x.rd = x.i.rd /\ x.result = ReadCsr(sim, x.i.csr)
    <3>1. /\ Fits(x.i) /\ Answered(x.i, x.result, x.wdata)
          /\ x.rd \in BOOLEAN /\ (x.rd <=> x.i.rd)
      BY <2>2 DEF IInv, Items, IsInterrupt
    <3>2. x.i.rd \in BOOLEAN
      BY <3>1 DEF Fits, Tame
    <3>3. x.rd = x.i.rd
      BY <3>1, <3>2
    <3> QED
      BY <2>2, <3>1, <3>3 DEF Answered
  <2> QED
    BY <2>1, <2>2
<1> QED
  BY <1>1, <1>2, PTL

================================================================================
