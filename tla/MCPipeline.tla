----------------------------- MODULE MCPipeline -----------------------------
(***************************************************************************)
(* A finite instance of Pipeline: one register besides x0, every kind of   *)
(* instruction, those that compute reading and writing it.                 *)
(***************************************************************************)
EXTENDS Pipeline

MCReg == {0, 1}

Ins(k, d, s) == [kind |-> k, rd |-> d, src |-> s]

MCInstructions ==
  {Ins("alu", 1, {1}), Ins("load", 1, {1}), Ins("store", 0, {1}),
   Ins("mul", 1, {1}), Ins("div", 1, {1}), Ins("branch", 0, {1}),
   Ins("csr", 1, {1}), Ins("ecall", 0, {}), Ins("cacheop", 0, {1}),
   Ins("xret", 0, {}), Ins("barrier", 0, {}), Ins("fault", 0, {})}

=============================================================================
