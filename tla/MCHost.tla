-------------------------------- MODULE MCHost --------------------------------
(***************************************************************************)
(* A finite instance of Host: programs of three words that load, store,    *)
(* stop and end, in files whose sections lie in different ways, with and   *)
(* without a memory made before them.                                      *)
(***************************************************************************)
EXTENDS Host

CONSTANTS
  SharedWords,      (* sections that share a word                          *)
  CrossingSections, (* sections that begin in one line of the testbench    *)
                    (* and reach beyond as many lines as they would fill   *)
  StopAtZero        (* -r 0                                                *)

Plain(op) == [instr |-> Instr(op, "none", {}, FALSE), address |-> 0]
Access(op, a) == [instr |-> Instr(op, "none", {}, FALSE), address |-> a]

MCCode ==
  "nop" :> Plain("nop") @@ "ebreak" :> Plain("ebreak") @@
  "lw" :> Access("lw", 16) @@ "sw" :> Access("sw", 20) @@ "sw0" :> Access("sw", 0) @@
  "sw16" :> Access("sw", 16) @@
  "exit" :> [instr |-> Instr("csrrw", "sim_ctrl", {}, FALSE), address |-> 0]

Programs ==
  {<<"lw", "sw", "nop">>, <<"nop", "lw", "sw">>, <<"lw", "sw", "ebreak">>, <<"lw", "sw", "exit">>,
   <<"lw", "sw0", "nop">>, <<"lw", "sw", "sw16">>, <<"sw", "lw", "sw16">>, <<"lw", "data", "nop">>}

Prog(base, size, words) == [base |-> base, size |-> size, bits |-> "progbits", words |-> words]
Bss(base, size)         == [base |-> base, size |-> size, bits |-> "nobits", words |-> <<>>]

(* Where the data is: a section of its own, one that begins in the line of *)
(* the code, before or after it in the file, without its last word, none,  *)
(* and at the end of the space.                                            *)
Layouts(text) ==
  {<<text, Prog(16, 8, <<"data", "more">>)>>,
   <<Prog(16, 4, <<"data">>), text, Bss(20, 4)>>,
   <<text, Bss(12, 4), Prog(16, 8, <<"data", "more">>)>>,
   <<Prog(16, 8, <<"data", "sw">>), text>>,
   <<text, Prog(16, 4, <<"data">>)>>,
   <<text, Prog(Space - 4, 4, <<"last">>)>>,
   <<text, Prog(16, 8, <<"data", "more">>), Bss(Space - 4, 4)>>}
  \cup IF SharedWords THEN {<<text, Prog(16, 6, <<"data", "more">>), Bss(22, 2)>>} ELSE {}
  \cup IF CrossingSections THEN {<<text, Prog(20, 8, <<"data", "more">>)>>} ELSE {}

MCFiles ==
  {[sections |-> layout, start |-> Word(0), dump |-> 12 .. 23] :
     layout \in UNION {Layouts(Prog(0, 12, words)) : words \in Programs}}

Memory(base, size) == [base |-> base, size |-> size]

MCOptions ==
  [memory : {Memory(0, 0), Memory(0, 24), Memory(4, 16), Memory(Space - 12, 11)},
   stop   : {AllOnes, Word(4), Word(8)} \cup IF StopAtZero THEN {Word(0)} ELSE {},
   max    : {NoLimit, 0, 1, 3}]

MCAttachments == {<<"sim">>, <<"sim", "rtl">>, <<"sim", "bench">>}
===============================================================================
