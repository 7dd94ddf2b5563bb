----------------------------- MODULE DCacheAxi -----------------------------
(***************************************************************************)
(* The AXI port of the data cache: top_cache_axi/src_v/dcache_axi.v (a     *)
(* request FIFO, the tracking of write bursts and of responses) around     *)
(* dcache_axi_axi.v (which splits a beat over the independent AW, W and AR *)
(* channels, with a skid buffer for the half that is not taken).  A step   *)
(* is one rising clock edge: every register is loaded from the wires of    *)
(* the cycle, the inputs being what the cache side offers and what the AXI *)
(* slave drives.                                                           *)
(*                                                                         *)
(* The cache side sends whole bursts, a write as one beat per cycle at     *)
(* most, and turns from reads to writes or back only when nothing is       *)
(* outstanding.  A beat carries one payload that stands for its address,   *)
(* its data and its strobes.  Identifiers and responses' data are left     *)
(* out: the module passes them through.                                    *)
(***************************************************************************)
EXTENDS Integers, Sequences, FiniteSets

CONSTANTS
  Payload,    (* what tells beats apart                                    *)
  Lengths,    (* AxLEN of the bursts the cache side sends: beats - 1       *)
  FifoDepth   (* DEPTH of the request FIFO                                 *)

ASSUME AxiAssumption ==
  /\ Payload # {}
  /\ Lengths \subseteq 0 .. 255
  /\ FifoDepth \in Nat \ {0}

VARIABLES
  fifo,         (* u_req: beats waiting, oldest first                      *)
  reqCnt,       (* dcache_axi.req_cnt_q: write beats to come, less one     *)
  outstanding,  (* resp_outstanding_q                                      *)
  beatCnt,      (* dcache_axi_axi.req_cnt_q: write beats to come           *)
  skid,         (* valid_q and buf_q: {} or {the beat half taken}          *)
  awDone,       (* awvalid_q: the address of this burst has been taken     *)
  wDone,        (* wvalid_q: the data has been taken before the address    *)
  wLast,        (* wlast_q: it was the last of its burst                   *)
  sending,      (* cache side: beats of its write burst still to offer     *)
  owed,         (* cache side: bursts accepted and not answered            *)
  due,          (* history: what each channel must carry, oldest first,    *)
                (* and what was handed over in the last cycle              *)
  slave         (* the AXI slave: what it has taken and not answered       *)

vars == <<fifo, reqCnt, outstanding, beatCnt, skid, awDone, wDone, wLast,
          sending, owed, due, slave>>

Beat     == [write : BOOLEAN, len : Lengths \cup {0}, payload : Payload]
WireBeat == [write : BOOLEAN, len : Lengths \cup {0}, payload : Payload, last : BOOLEAN]

---------------------------------------------------------------------------
(* The cache side.                                                         *)

OneWay(write) == \A i \in DOMAIN owed : owed[i].write = write

(* What the cache side may offer: the next beat of its write burst, or the *)
(* first beat of a burst.  {} is a cycle without a request.                *)
Offers ==
  IF sending > 0
    THEN {{}} \cup {{[write |-> TRUE, len |-> 0, payload |-> p]} : p \in Payload}
    ELSE {{}} \cup {{b} : b \in {[write |-> w, len |-> l, payload |-> p] :
                                   w \in {d \in BOOLEAN : OneWay(d)},
                                   l \in Lengths, p \in Payload}}

(* inport_accept_o *)
FifoAccept == Len(fifo) # FifoDepth

Taken(in) == IF FifoAccept THEN in ELSE {}

(* The element of a singleton: a wire bundle that is there or not is a set *)
(* of at most one record.                                                  *)
The(S) == CHOOSE x \in S : TRUE

---------------------------------------------------------------------------
(* The wires between the FIFO and the AXI channels.                        *)

(* req_can_issue_w *)
CanIssue == fifo # <<>> /\ outstanding # 2

(* Mutation: only single-beat writes have a last beat. *)
LastBeatSingles(b) == b.len = 0 /\ beatCnt = 0

(* inport_wlast_w of a beat that comes from the FIFO. *)
LastBeat(b) == (b.len = 0 /\ beatCnt = 0) \/ beatCnt = 1

(* The beat the FIFO offers the widget. *)
Fresh ==
  IF CanIssue
    THEN LET b == Head(fifo)
         IN {[write |-> b.write, len |-> b.len, payload |-> b.payload, last |-> LastBeat(b)]}
    ELSE {}

(* Mutation: the FIFO goes before the skid buffer. *)
OfferedFreshFirst == IF Fresh # {} THEN Fresh ELSE skid

(* inport_*_w: the beat on offer to the slave, from the skid buffer first. *)
Offered == IF skid # {} THEN skid ELSE Fresh

(* Mutation: the address is offered with every beat of a write. *)
AwEveryBeat == {b \in Offered : b.write}

(* What is on each channel: {} or {the beat}.                              *)
Aw == {b \in Offered : b.write /\ ~awDone}
W  == {b \in Offered : b.write /\ ~wDone}
Ar == {b \in Offered : ~b.write}

AwGo(s) == Aw # {} /\ s.awready
WGo(s)  == W  # {} /\ s.wready
ArGo(s) == Ar # {} /\ s.arready

(* inport_accept_o of the widget: some half of the beat is taken. *)
Accept(s) == skid = {} /\ (AwGo(s) \/ WGo(s) \/ ArGo(s))

(* Something on offer is not taken. *)
HalfLeft(s) ==
  (Aw # {} /\ ~s.awready) \/ (W # {} /\ ~s.wready) \/ (Ar # {} /\ ~s.arready)

WriteAccepted(s) == Accept(s) /\ Head(fifo).write

(* The last beat of a burst leaves the FIFO: res_push_w. *)
BurstIssued(s) ==
  /\ Accept(s)
  /\ Head(fifo).write => Head(fifo).len = 0 /\ reqCnt = 0

(* The last beat of a response: resp_pop_w. *)
BurstAnswered(s) == s.b \/ s.rlast

---------------------------------------------------------------------------
(* The AXI slave takes addresses and data in any order, and answers a      *)
(* write when it has its address and its last beat, a read beat by beat.   *)

SlaveInputs ==
  {s \in [awready : BOOLEAN, wready : BOOLEAN, arready : BOOLEAN,
          b : BOOLEAN, r : BOOLEAN, rlast : BOOLEAN] :
     /\ s.b => slave.aw > 0 /\ slave.w > 0
     /\ s.r => slave.ar # <<>>
     /\ s.rlast <=> (s.r /\ Head(slave.ar) = 0)}

Count(b) == IF b THEN 1 ELSE 0

SlaveStep(s) ==
  slave' =
    [aw |-> slave.aw + Count(AwGo(s)) - Count(s.b),
     w  |-> slave.w + Count(\E b \in W : s.wready /\ b.last) - Count(s.b),
     ar |-> LET left == IF ~s.r THEN slave.ar
                        ELSE IF s.rlast THEN Tail(slave.ar)
                        ELSE [slave.ar EXCEPT ![1] = @ - 1]
            IN IF ArGo(s) THEN Append(left, The(Ar).len) ELSE left]

---------------------------------------------------------------------------
(* The registers.                                                          *)

RequestFifo(in, s) ==
  LET rest == IF Accept(s) THEN Tail(fifo) ELSE fifo
  IN fifo' = IF Taken(in) = {} THEN rest ELSE Append(rest, The(in))

WriteTracking(s) ==
  /\ reqCnt' = IF ~WriteAccepted(s) THEN reqCnt
               ELSE IF reqCnt # 0 THEN reqCnt - 1
               ELSE IF Head(fifo).len # 0 THEN Head(fifo).len - 1
               ELSE reqCnt
  /\ beatCnt' = IF ~WriteAccepted(s) THEN beatCnt
                ELSE IF beatCnt # 0 THEN beatCnt - 1
                ELSE Head(fifo).len

ResponseTracking(s) ==
  LET push == BurstIssued(s)
      pop  == BurstAnswered(s) /\ outstanding # 0
  IN outstanding' = (outstanding + Count(push) - Count(pop)) % 4

(* buf_q is loaded in every cycle, and read only when valid_q is set.      *)
SkidBuffer(s) ==
  skid' = IF (Accept(s) \/ skid # {}) /\ HalfLeft(s) THEN Offered ELSE {}

ChannelTracking(s) ==
  LET cmd  == AwGo(s) \/ awDone                  (* wr_cmd_accepted_w      *)
      data == WGo(s) \/ wDone                    (* wr_data_accepted_w     *)
      last == (wDone /\ wLast) \/ (\E b \in W : s.wready /\ b.last)
                                                 (* wr_data_last_w         *)
  IN /\ awDone' = (cmd /\ ~(data /\ last))
     /\ wDone'  = (data /\ ~cmd)
     /\ wLast'  = IF WGo(s) THEN \E b \in W : b.last ELSE wLast

---------------------------------------------------------------------------
(* The cache side's own state, and the history.                            *)

CacheSide(in, s) ==
  LET answered == IF s.b \/ s.rlast THEN Tail(owed)
                  ELSE IF s.r THEN [owed EXCEPT ![1].left = @ - 1]
                  ELSE owed
  IN /\ sending' = IF Taken(in) = {} THEN sending
                   ELSE IF sending > 0 THEN sending - 1
                   ELSE LET b == The(in)
                        IN IF b.write THEN b.len ELSE 0
     /\ owed' = IF Taken(in) = {} \/ sending > 0 THEN answered
                ELSE LET b == The(in)
                     IN Append(answered, [write |-> b.write,
                                          left |-> IF b.write THEN 0 ELSE b.len])

Pop(queue, go) == IF go /\ queue # <<>> THEN Tail(queue) ELSE queue

Push(queue, item, go) == IF go THEN Append(queue, item) ELSE queue

(* What each channel still has to carry: the address of a burst once, on   *)
(* its first beat, and every beat of a write with its place in the burst;  *)
(* and what was handed over in the last cycle.                             *)
History(in, s) ==
  LET aw == Pop(due.aw, AwGo(s))
      w  == Pop(due.w, WGo(s))
      ar == Pop(due.ar, ArGo(s))
      on == {k \in {"aw", "w", "ar", "answer"} :
               \/ k = "aw" /\ AwGo(s)
               \/ k = "w"  /\ WGo(s)
               \/ k = "ar" /\ ArGo(s)
               \/ k = "answer" /\ BurstAnswered(s)}
  IN IF Taken(in) = {} THEN due' = [aw |-> aw, w |-> w, ar |-> ar, done |-> on]
     ELSE LET b     == The(in)
              first == sending = 0
              left  == IF first THEN b.len ELSE sending - 1
          IN due' = [aw |-> Push(aw, <<b.payload, b.len>>, b.write /\ first),
                     w  |-> Push(w, <<b.payload, left = 0>>, b.write),
                     ar |-> Push(ar, <<b.payload, b.len>>, ~b.write),
                     done |-> on]

Init ==
  /\ fifo = <<>>
  /\ reqCnt = 0
  /\ outstanding = 0
  /\ beatCnt = 0
  /\ skid = {}
  /\ awDone = FALSE
  /\ wDone = FALSE
  /\ wLast = FALSE
  /\ sending = 0
  /\ owed = <<>>
  /\ due = [aw |-> <<>>, w |-> <<>>, ar |-> <<>>, done |-> {}]
  /\ slave = [aw |-> 0, w |-> 0, ar |-> <<>>]

Clock(in, s) ==
  /\ RequestFifo(in, s)
  /\ WriteTracking(s)
  /\ ResponseTracking(s)
  /\ SkidBuffer(s)
  /\ ChannelTracking(s)
  /\ CacheSide(in, s)
  /\ History(in, s)
  /\ SlaveStep(s)

Next == \E in \in Offers : \E s \in SlaveInputs : Clock(in, s)

Spec == Init /\ [][Next]_vars

(* Each channel of the slave is live on its own: again and again it is     *)
(* ready, and it answers what it can answer.                               *)
AwServed == \E in \in Offers : \E s \in SlaveInputs : s.awready /\ Clock(in, s)
WServed  == \E in \in Offers : \E s \in SlaveInputs : s.wready /\ Clock(in, s)
ArServed == \E in \in Offers : \E s \in SlaveInputs : s.arready /\ Clock(in, s)
Answers  == \E in \in Offers : \E s \in SlaveInputs : (s.b \/ s.r) /\ Clock(in, s)

(* The cache side goes on with a write burst it has begun.                 *)
Continues ==
  \E in \in Offers : \E s \in SlaveInputs :
    sending > 0 /\ Taken(in) # {} /\ Clock(in, s)

FairSpec ==
  /\ Spec
  /\ WF_vars(AwServed) /\ WF_vars(WServed) /\ WF_vars(ArServed)
  /\ WF_vars(Answers) /\ WF_vars(Continues)

---------------------------------------------------------------------------
(* Properties.                                                             *)

(* Every register holds a value of its width. *)
TypeOK ==
  /\ fifo \in Seq(Beat) /\ Len(fifo) <= FifoDepth
  /\ reqCnt \in 0 .. 255
  /\ outstanding \in 0 .. 3
  /\ beatCnt \in 0 .. 255
  /\ skid \in {{}} \cup {{b} : b \in WireBeat}
  /\ awDone \in BOOLEAN /\ wDone \in BOOLEAN /\ wLast \in BOOLEAN

(* What is on a channel is what that channel has to carry next: the        *)
(* address of each burst once and with its length, the data of each write  *)
(* in order and marked last exactly at the end of its burst, whichever     *)
(* half of a beat the slave takes first.  And nothing taken from the cache *)
(* side is forgotten: when the port is empty, every channel has carried    *)
(* everything.                                                             *)
ChannelsInOrder ==
  /\ \A b \in Aw : due.aw # <<>> /\ Head(due.aw) = <<b.payload, b.len>>
  /\ \A b \in W  : due.w  # <<>> /\ Head(due.w)  = <<b.payload, b.last>>
  /\ \A b \in Ar : due.ar # <<>> /\ Head(due.ar) = <<b.payload, b.len>>
  /\ fifo = <<>> /\ skid = {} =>
       due.aw = <<>> /\ due.w = <<>> /\ due.ar = <<>>

(* AXI: what is valid on a channel stays valid and unchanged until the     *)
(* slave takes it, however the FIFO, the skid buffer and the limit on      *)
(* outstanding bursts move meanwhile.                                      *)
HeldUntilTaken ==
  [][/\ "aw" \in due'.done \/ Aw \subseteq Aw'
     /\ "w"  \in due'.done \/ W  \subseteq W'
     /\ "ar" \in due'.done \/ Ar \subseteq Ar']_vars

(* The bursts accepted whose last beat the FIFO has not yet given away.    *)
EndsWaiting ==
  LET ends == {i \in DOMAIN fifo :
                 \/ ~fifo[i].write
                 \/ due.w[Len(due.w) - Len(fifo) + i][2]}
  IN Cardinality(ends) + Count(sending > 0)

(* resp_outstanding_q is the number of bursts handed to the slave and not  *)
(* answered, never more than two: no answer is unexpected, and none is     *)
(* counted twice.  Every register keeps to its width.                      *)
ResponsesTracked ==
  /\ TypeOK
  /\ outstanding <= 2
  /\ Len(owed) = outstanding + EndsWaiting

(* Nothing between the cache and the five channels is lost, repeated, out  *)
(* of its place or forgotten (dcache_axi.v:151, dcache_axi_axi.v:127).     *)
NothingLost == ChannelsInOrder /\ ResponsesTracked

(* Every burst is answered: answers go on for ever, or nothing is owed.    *)
EveryBurstAnswered ==
  \/ <>[](owed = <<>>)
  \/ []<><<"answer" \in due'.done>>_vars

=============================================================================
