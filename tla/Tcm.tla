-------------------------------- MODULE Tcm --------------------------------
(***************************************************************************)
(* The tightly coupled memory of top_tcm_axi: tcm_mem.v, whose second RAM  *)
(* port is shared by the core's data accesses and an AXI slave, and        *)
(* tcm_mem_pmem.v, which turns the bursts of that slave into accesses.  A  *)
(* step is one rising clock edge.                                          *)
(*                                                                         *)
(* A word stands for one byte lane: a beat whose strobe is off writes      *)
(* nothing.  The instruction port, which always accepts and has a RAM port *)
(* of its own, and the tag of the core's requests are left out.            *)
(*                                                                         *)
(* The AXI master holds what it offers until it is taken.  It offers the   *)
(* beats of a write from the cycle of its address on: no wire looks at     *)
(* data that come before, since writes wait for an address.                *)
(***************************************************************************)
EXTENDS Naturals, Sequences

CONSTANTS
  Words,        (* words of the RAM: addresses wrap around                 *)
  Values,       (* what a word may hold                                    *)
  Commands,     (* what the master sends on AW and AR: AxLEN is beats - 1  *)
  CpuRequests,  (* what the core asks                                      *)
  Depth,        (* DEPTH of tcm_mem_pmem_fifo2                             *)
  ZeroStrobes   (* whether beats come that write nothing                   *)

ASSUME TcmAssumption ==
  /\ Words \in Nat \ {0}
  /\ Values # {}
  /\ Commands # {}
  /\ Commands \subseteq [addr : 0 .. Words - 1, len : 0 .. 255, id : {c.id : c \in Commands}]
  /\ CpuRequests \subseteq [op : {"none", "read", "write", "maintenance"},
                           addr : 0 .. Words - 1, value : Values]
  /\ Depth \in Nat \ {0}
  /\ ZeroStrobes \in BOOLEAN

VARIABLES
  (* tcm_mem_pmem.v *)
  reqRd, reqWr,   (* req_rd_q, req_wr_q: a burst goes on                   *)
  req,            (* req_len_q, req_addr_q and req_id_q                    *)
  prio,           (* req_prio_q: writes go first                           *)
  holdRd, holdWr, (* req_hold_*_q: this direction waits for the RAM        *)
  requests,       (* u_requests: the accesses made and not answered        *)
  responses,      (* u_response: what the RAM gave for them                *)
  (* tcm_mem.v *)
  accept,         (* mem_d_accept_q: the RAM port is the core's            *)
  ack,            (* mem_d_ack_q                                           *)
  extAck,         (* ext_ack_q                                             *)
  ram,
  dataOut,        (* ram_read1_q: the RAM is read-first                    *)
  (* the AXI master: {} or {what it offers} on each channel *)
  aw, w, ar,
  wLeft,          (* beats of its write not offered yet                    *)
  (* history *)
  burst,          (* {} or {the burst being served}, as the master sees it *)
  due,            (* the responses the master must get                     *)
  cpuDue,         (* {} or {the answer the core must get in this cycle}    *)
  contents,       (* what the writes taken have left in memory             *)
  passed          (* commands of the other direction taken while one waits *)

pmem   == <<reqRd, reqWr, req, prio, holdRd, holdWr, requests, responses>>
tcm    == <<accept, ack, extAck, ram, dataOut>>
master == <<aw, w, ar, wLeft>>
vars   == <<pmem, tcm, master, burst, due, cpuDue, contents, passed>>

Address == 0 .. Words - 1
Data    == [value : Values, strobe : {TRUE, ~ZeroStrobes}, last : BOOLEAN]

The(S) == CHOOSE x \in S : TRUE

AtMostOne(S) == {{}} \cup {{x} : x \in S}

(* calculate_addr_next, for the only burst type that is built in: INCR. *)
NextAddress(a) == (a + 1) % Words

LessOne(len) == (len + 255) % 256

---------------------------------------------------------------------------
(* The wires of tcm_mem_pmem.                                              *)

(* req_fifo_accept_w *)
FifoAccept == Len(requests) # Depth

(* Mutation: the direction held is forgotten. *)
WritePrioNoHold == prio

WritePrio == (prio /\ ~holdRd) \/ holdWr
ReadPrio  == (~prio /\ ~holdWr) \/ holdRd

WriteActive ==
  /\ aw # {} \/ reqWr
  /\ ~reqRd
  /\ FifoAccept
  /\ WritePrio \/ reqWr \/ ar = {}

ReadActive ==
  /\ ar # {} \/ reqRd
  /\ ~reqWr
  /\ FifoAccept
  /\ ReadPrio \/ reqRd \/ aw = {}

(* ext_accept_w *)
RamAccept == ~accept

(* axi_awready_o and so on, with their valid *)
AwGo == aw # {} /\ WriteActive /\ ~reqWr /\ RamAccept
WGo  == w # {} /\ WriteActive /\ RamAccept
ArGo == ar # {} /\ ReadActive /\ ~reqRd /\ RamAccept

(* ram_rd_o, ram_wr_o and ram_addr_o *)
RamRead  == ReadActive
RamWrite == WriteActive /\ \E d \in w : d.strobe

RamAddr ==
  IF reqWr \/ reqRd THEN req.addr
  ELSE IF WriteActive THEN The(aw).addr
  ELSE The(ar).addr

ExtRequest == RamRead \/ RamWrite
ExtGo      == ExtRequest /\ RamAccept

(* Mutation: the first beat of a burst is tracked like the others. *)
RequestFromRegisters == [read |-> RamRead, last |-> req.len = 0, id |-> req.id]

(* req_in_r *)
Request ==
  IF ArGo THEN LET c == The(ar) IN [read |-> TRUE, last |-> c.len = 0, id |-> c.id]
  ELSE IF AwGo THEN LET c == The(aw) IN [read |-> FALSE, last |-> c.len = 0, id |-> c.id]
  ELSE [read |-> RamRead, last |-> req.len = 0, id |-> req.id]

(* resp_accept_w: a response is taken by the master, on the channel it is  *)
(* on, or it is that of a write beat that is not the last of its burst.    *)
ResponseTaken(ready) ==
  /\ responses # <<>>
  /\ ready \/ (~Head(requests).read /\ ~Head(requests).last)

---------------------------------------------------------------------------
(* The registers of tcm_mem_pmem.                                          *)

BurstRegisters ==
  LET ends == ExtGo /\ req.len = 0
      goesOn == [req EXCEPT !.len = LessOne(@), !.addr = NextAddress(@)]
  IN IF AwGo THEN
       LET c == The(aw)
       IN /\ reqWr' = ~(WGo /\ The(w).last)
          /\ reqRd' = (reqRd /\ ~ends)
          /\ req' = IF WGo
                      THEN [len |-> LessOne(c.len), addr |-> NextAddress(c.addr), id |-> c.id]
                      ELSE c
     ELSE IF ArGo THEN
       LET c == The(ar)
       IN /\ reqRd' = (c.len # 0)
          /\ reqWr' = (reqWr /\ ~ends)
          /\ req' = [len |-> LessOne(c.len), addr |-> NextAddress(c.addr), id |-> c.id]
     ELSE /\ reqRd' = (reqRd /\ ~ends)
          /\ reqWr' = (reqWr /\ ~ends)
          /\ req' = IF ExtGo /\ ~ends THEN goesOn ELSE req

Priority ==
  /\ prio' = IF AwGo \/ ArGo THEN ~prio ELSE prio
  /\ holdRd' = IF RamAccept THEN FALSE ELSE RamRead \/ holdRd
  /\ holdWr' = IF RamAccept THEN FALSE ELSE RamWrite \/ holdWr

Push(queue, x, go) == IF go THEN Append(queue, x) ELSE queue
Pop(queue, go)     == IF go THEN Tail(queue) ELSE queue

(* Both FIFOs; accept_o of u_response is not connected, so a push into a   *)
(* full one would be lost.                                                 *)
Fifos(ready) ==
  /\ requests'  = Push(Pop(requests, ResponseTaken(ready)), Request, ExtGo)
  /\ responses' = Push(Pop(responses, ResponseTaken(ready)), dataOut,
                       extAck /\ Len(responses) # Depth)

---------------------------------------------------------------------------
(* The registers of tcm_mem.                                               *)

CpuGo(c) == c.op # "none" /\ accept

(* Mutation: the core's write enables are not muxed. *)
RamPortUnmuxed(c) ==
  LET a == IF RamAccept THEN RamAddr ELSE c.addr
  IN /\ ram' = IF c.op = "write" THEN [ram EXCEPT ![a] = c.value]
               ELSE IF RamAccept /\ RamWrite THEN [ram EXCEPT ![a] = The(w).value]
               ELSE ram
     /\ dataOut' = IF RamRead \/ c.op = "read" THEN ram[a] ELSE dataOut

(* The port: muxed_addr_w, muxed_data_w, muxed_wr_w.  The RAM is read in   *)
(* every cycle; only what is asked for is modelled.                        *)
RamPort(c) ==
  IF RamAccept
    THEN /\ ram' = IF RamWrite THEN [ram EXCEPT ![RamAddr] = The(w).value] ELSE ram
         /\ dataOut' = IF RamRead THEN ram[RamAddr] ELSE dataOut
    ELSE /\ ram' = IF c.op = "write" THEN [ram EXCEPT ![c.addr] = c.value] ELSE ram
         /\ dataOut' = IF c.op = "read" THEN ram[c.addr] ELSE dataOut

Handshake(c) ==
  /\ accept' = ~ExtRequest
  /\ ack' = CpuGo(c)
  /\ extAck' = ExtGo

---------------------------------------------------------------------------
(* The AXI master, and the history.                                        *)

(* What may be offered anew: a write when the last one has been taken     *)
(* with all its data.                                                      *)
NewAws ==
  IF (aw = {} \/ AwGo) /\ (w = {} \/ WGo) /\ wLeft = 0 THEN AtMostOne(Commands) ELSE {{}}

NewArs == IF ar = {} \/ ArGo THEN AtMostOne(Commands) ELSE {{}}

NewWs(left) ==
  IF (w = {} \/ WGo) /\ left > 0 THEN AtMostOne({d \in Data : d.last = (left = 1)}) ELSE {{}}

Offer ==
  \E newAw \in NewAws, newAr \in NewArs :
    LET left == IF newAw = {} THEN wLeft ELSE The(newAw).len + 1
    IN \E newW \in NewWs(left) :
         /\ aw' = IF newAw # {} THEN newAw ELSE IF AwGo THEN {} ELSE aw
         /\ ar' = IF newAr # {} THEN newAr ELSE IF ArGo THEN {} ELSE ar
         /\ w'  = IF newW # {} THEN newW ELSE IF WGo THEN {} ELSE w
         /\ wLeft' = IF newW # {} THEN left - 1 ELSE left

(* The burst that is served in this cycle, from its address on.            *)
Serving ==
  LET begin(c, read) == [read |-> read, addr |-> c.addr, len |-> c.len, id |-> c.id]
  IN IF AwGo THEN {begin(The(aw), FALSE)}
     ELSE IF ArGo THEN {begin(The(ar), TRUE)}
     ELSE burst

(* Its next beat is served: the data of a write are taken, the word of a   *)
(* read is read.                                                           *)
BeatServed == \E b \in Serving : IF b.read THEN ExtGo /\ RamRead ELSE WGo

History(c, ready) ==
  LET b   == The(Serving)
      mid == IF CpuGo(c) /\ c.op = "write"
               THEN [contents EXCEPT ![c.addr] = c.value] ELSE contents
  IN /\ burst' = IF ~BeatServed THEN Serving
                 ELSE IF b.len = 0 THEN {}
                 ELSE {[b EXCEPT !.len = @ - 1, !.addr = NextAddress(@)]}
     /\ due' = IF BeatServed
                 THEN Append(Pop(due, ResponseTaken(ready)),
                             [read |-> b.read, last |-> b.len = 0, id |-> b.id,
                              data |-> IF b.read THEN <<contents[b.addr]>> ELSE <<>>])
                 ELSE Pop(due, ResponseTaken(ready))
     /\ cpuDue' = IF CpuGo(c)
                  THEN {IF c.op = "read" THEN <<contents[c.addr]>> ELSE <<>>} ELSE {}
     /\ contents' = IF BeatServed /\ ~b.read /\ The(w).strobe
                      THEN [mid EXCEPT ![b.addr] = The(w).value] ELSE mid
     /\ passed' = [aw |-> IF aw = {} \/ AwGo THEN 0 ELSE IF ArGo THEN passed.aw + 1 ELSE passed.aw,
                   ar |-> IF ar = {} \/ ArGo THEN 0 ELSE IF AwGo THEN passed.ar + 1 ELSE passed.ar]

---------------------------------------------------------------------------
Init ==
  /\ reqRd = FALSE /\ reqWr = FALSE
  /\ req = [len |-> 0, addr |-> 0, id |-> (CHOOSE c \in Commands : TRUE).id]
  /\ prio = FALSE /\ holdRd = FALSE /\ holdWr = FALSE
  /\ requests = <<>> /\ responses = <<>>
  /\ accept = TRUE /\ ack = FALSE /\ extAck = FALSE
  /\ ram \in [Address -> Values]
  /\ dataOut \in Values
  /\ aw = {} /\ w = {} /\ ar = {} /\ wLeft = 0
  /\ burst = {} /\ due = <<>> /\ cpuDue = {}
  /\ contents = ram
  /\ passed = [aw |-> 0, ar |-> 0]

(* One cycle: c is the core's request, ready the ready of the channel the  *)
(* next response is on.                                                    *)
Clock(c, ready) ==
  /\ BurstRegisters
  /\ Priority
  /\ Fifos(ready)
  /\ RamPort(c)
  /\ Handshake(c)
  /\ History(c, ready)
  /\ Offer

Next == \E c \in CpuRequests, ready \in BOOLEAN : Clock(c, ready)

Spec == Init /\ [][Next]_vars

---------------------------------------------------------------------------
(* Properties.                                                             *)

(* Every register keeps to its width. *)
TypeOK ==
  /\ req \in [len : 0 .. 255, addr : Address, id : {c.id : c \in Commands}]
  /\ requests \in Seq([read : BOOLEAN, last : BOOLEAN, id : {c.id : c \in Commands}])
  /\ responses \in Seq(Values) /\ dataOut \in Values
  /\ ram \in [Address -> Values]
  /\ {reqRd, reqWr, prio, holdRd, holdWr, accept, ack, extAck} \subseteq BOOLEAN

(* Memory holds what the core and the AXI master have written, in the      *)
(* order in which their writes were taken: every beat goes to the address  *)
(* it has in its burst, whatever accesses of the core, waits for the port  *)
(* and waits for data come between, and no write of either side is made    *)
(* twice, or made while the port is the other's.                           *)
BeatsServed ==
  /\ ram = contents
  /\ ExtGo <=> BeatServed
  /\ ExtGo => \E b \in Serving : RamAddr = b.addr /\ RamRead = b.read

(* A response belongs to the oldest access not answered, and has its       *)
(* direction, its identifier, its place in its burst and its data.  Each   *)
(* access has one on the way: the FIFO of responses, whose accept_o is not *)
(* connected, never overflows.  Every register keeps to its width.         *)
AnswersTracked ==
  /\ TypeOK
  /\ Len(requests) = Len(responses) + (IF extAck THEN 1 ELSE 0)
  /\ Len(requests) <= Depth
  /\ Len(due) = Len(requests)
  /\ \A i \in DOMAIN requests :
       /\ requests[i].read = due[i].read
       /\ requests[i].last = due[i].last
       /\ requests[i].id = due[i].id
  /\ \A i \in DOMAIN responses : due[i].read => <<responses[i]>> = due[i].data

(* The core is answered in the cycle after its request was accepted, and   *)
(* only then; a read gets what its word held when it was accepted, even    *)
(* when the AXI side takes the port in the next cycle.                     *)
CpuAnswersMatch ==
  /\ ack <=> cpuDue # {}
  /\ \A d \in cpuDue : d # <<>> => d = <<dataOut>>

(* The two sides share a RAM port and its one output, and each gets its    *)
(* own answers (tcm_mem.v:168, tcm_mem_pmem.v:304).                        *)
AnswersMatch == AnswersTracked /\ CpuAnswersMatch

(* Neither direction of the AXI side is kept out by the other, nor by the  *)
(* core: at most two commands of the other direction pass one that waits,  *)
(* a request that has asked for the port is still there when it gets the   *)
(* port, in the next cycle, and while the AXI side has anything to do it   *)
(* asks for the port unless it waits for the master.  (The core has no     *)
(* such promise: a master that always has a beat ready keeps it out.)      *)
NothingWaitsInVain ==
  /\ passed.aw <= 2 /\ passed.ar <= 2
  /\ holdRd => RamRead /\ RamAccept
  /\ holdWr => RamWrite /\ RamAccept
  /\ aw # {} \/ ar # {} \/ burst # {} =>
       \/ ExtRequest
       \/ responses # <<>>
       \/ extAck
       \/ wLeft > 0 /\ w = {}

=============================================================================
