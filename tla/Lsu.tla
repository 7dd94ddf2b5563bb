-------------------------------- MODULE Lsu --------------------------------
(***************************************************************************)
(* The load/store unit core/riscv/riscv_lsu.v with its request FIFO: it    *)
(* takes one operation from the issue stage, asks memory for it, one       *)
(* operation after the other, and reports what comes back.  A step is one  *)
(* rising clock edge.                                                      *)
(*                                                                         *)
(* An operation carries the number of its instruction in place of address  *)
(* and data, so that an answer taken for another's is seen.  A misaligned  *)
(* access never reaches memory: the unit answers it itself.  Memory (the   *)
(* MMU and what is behind it) accepts when it likes and answers in order.  *)
(***************************************************************************)
EXTENDS Naturals, Sequences

CONSTANTS
  Id,         (* numbers of instructions                                   *)
  FifoDepth,  (* DEPTH of u_lsu_request                                    *)
  LateMaintenance (* memory may let a maintenance request wait             *)

VARIABLES
  held,         (* mem_rd_q, mem_wr_q, mem_flush_q, ...: {} or {an operation} *)
  unalignedE2,  (* mem_unaligned_e2_q                                      *)
  pending,      (* pending_lsu_e2_q                                        *)
  fifo,         (* u_lsu_request: operations without an answer             *)
  owed          (* memory: accepted and not answered                       *)

lsuVars == <<held, unalignedE2, pending, fifo, owed>>

Access == {"load", "store"}

(* cacheop: the flush, writeback or invalidate of a CSR instruction.       *)
Operation ==
  {o \in [op : Access \cup {"cacheop"}, id : Id, unaligned : BOOLEAN] :
     o.unaligned => o.op # "cacheop"}

(* What memory drives; accept is looked at while an operation is held.     *)
MemoryInputs ==
  {m \in [accept : BOOLEAN, ack : BOOLEAN, error : BOOLEAN] :
     /\ m.accept => held # {}
     /\ ~LateMaintenance /\ (\E o \in held : o.op = "cacheop") => m.accept
     /\ m.ack => owed > 0
     /\ m.error => m.ack}

The(S) == CHOOSE x \in S : TRUE

---------------------------------------------------------------------------
(* The wires.                                                              *)

UnalignedE1 == \E o \in held : o.unaligned

CompleteOk(m) == m.ack /\ ~m.error

(* The next operation waits for an answer that is late. *)
Delay(m) == pending /\ ~CompleteOk(m)

(* Mutation: an access does not wait for the answer to the one before. *)
RequestsEarly(m) == \E o \in held : ~o.unaligned

(* mem_rd_o, mem_wr_o, mem_writeback_o, mem_invalidate_o, mem_flush_o      *)
Requests(m) == \E o \in held : ~o.unaligned /\ (o.op \in Access => ~Delay(m))

Issues(m) == Requests(m) /\ m.accept

StallUpstream(m) == (Requests(m) /\ ~m.accept) \/ Delay(m) \/ UnalignedE1

WritebackValid(m) == m.ack \/ unalignedE2

(* The operation the answer is taken to belong to. *)
Answered == IF fifo = <<>> THEN {} ELSE {Head(fifo)}

WritebackFault(m) == unalignedE2 \/ m.error

---------------------------------------------------------------------------
(* The registers.                                                          *)

(* The operation in the unit waits for the answer to the one before. *)
Keeps(m) == \E o \in held : o.op \in Access /\ Delay(m)

(* Mutation: a fault does not drop the next operation. *)
HeldAfterFault(issued, m) ==
  IF Keeps(m) \/ (Requests(m) /\ ~m.accept) THEN held ELSE issued

HeldAfter(issued, m) ==
  IF (m.ack /\ m.error) \/ unalignedE2 THEN {}
  ELSE IF Keeps(m) \/ (Requests(m) /\ ~m.accept) THEN held
  ELSE issued

Push(m) == Issues(m) \/ (UnalignedE1 /\ ~Delay(m))

Fifo(m) ==
  LET popped == IF WritebackValid(m) /\ fifo # <<>> THEN Tail(fifo) ELSE fifo
  IN fifo' = IF Push(m) /\ Len(fifo) < FifoDepth
             THEN Append(popped, The(held)) ELSE popped

Memory(m) ==
  owed' = owed + (IF Issues(m) THEN 1 ELSE 0) - (IF m.ack THEN 1 ELSE 0)

Init ==
  /\ held = {}
  /\ unalignedE2 = FALSE
  /\ pending = FALSE
  /\ fifo = <<>>
  /\ owed = 0

(* issued: {} or {what the issue stage hands over}.                        *)
Clock(issued, m) ==
  /\ held' = HeldAfter(issued, m)
  /\ unalignedE2' = (UnalignedE1 /\ ~Delay(m))
  /\ pending' = (Issues(m) \/ (pending /\ ~m.ack))
  /\ Fifo(m)
  /\ Memory(m)

=============================================================================
