----------------------------- MODULE MCExecute -----------------------------
(***************************************************************************)
(* A finite instance of Execute: registers of four bits with all operands, *)
(* words whose fields take every value that an encoding asks for and       *)
(* others next to it, and each instruction with one more bit set.          *)
(***************************************************************************)
EXTENDS Execute, Bitwise

MCAnd(a, b) == a & b
MCOr(a, b)  == a | b
MCXor(a, b) == a ^^ b

(* Every f3 of every opcode; every f7 an encoding asks for, and others     *)
(* next to it, where f7 is compared; rs2, rs1 and rd for the system        *)
(* instructions, which fix them.                                           *)
Sevens == {0, 1, 2, 8, 9, 16, 24, 32, 33, 34}
Grid ==
  [f7 : {0}, rs2 : {1}, rs1 : {1}, f3 : 0 .. 7, rd : {0, 1},
   op : {0, \h03, \h0f, \h17, \h23, \h37, \h63, \h67, \h6f, \h77}]
  \cup [f7 : Sevens, rs2 : {1}, rs1 : {1}, f3 : 0 .. 7, rd : {0, 1}, op : {\h13, \h33}]
  \cup [f7 : Sevens, rs2 : {0, 1, 2, 5}, rs1 : {0, 1}, f3 : 0 .. 7, rd : {0, 1}, op : {\h73}]

(* The instruction itself, and with one bit more or less. *)
Exact(code) ==
  LET field(f) == IF f \in DOMAIN code THEN code[f] ELSE 0
  IN  [f7  |-> IF "f6" \in DOMAIN code THEN 2 * code.f6 ELSE field("f7"),
       rs2 |-> field("rs2"), rs1 |-> field("rs1"), f3 |-> field("f3"),
       rd  |-> field("rd"), op |-> field("op")]

MCWords ==
  Grid \cup UNION {Neighbours(Exact(Encoding[name])) : name \in Names}

Problems(as, bs) == {[op |-> op, a |-> a, b |-> b] : op \in DivisionNames, a \in as, b \in bs}
MCDivisions == Problems(Number, Number)
MCAgain == Problems({7, 9}, {2})

MCMemories == {[i \in 0 .. 1 |-> [l \in Lane |-> 16 * i + l + top]] : top \in {1, 129}}
MCStored == {[l \in Lane |-> 100 + l]}
=============================================================================
