----------------------------- MODULE DCachePort -----------------------------
(***************************************************************************)
(* How the data cache of top_cache_axi splits the CPU's requests between   *)
(* the cache and the uncached path and brings the answers back:            *)
(*   dcache_mux.v       sends a request to dcache_core or dcache_if_pmem,  *)
(*                      and holds one back while the other path is busy;   *)
(*   dcache_if_pmem.v   the uncached path: a request FIFO, a FIFO of       *)
(*                      response tags, one transaction at a time;          *)
(*   dcache_pmem_mux.v  connects one of the two to the bus, the responses  *)
(*                      through a selector delayed by one cycle.           *)
(* A step is one rising clock edge.                                        *)
(*                                                                         *)
(* The cache itself is reduced to what these modules see of it (module     *)
(* DCacheCore has the rest): it takes a request, may evict and refill over *)
(* the bus, and acknowledges.  The bus (dcache_axi.v and the memory behind *)
(* it) accepts and answers after any delay.  Addresses and data are left   *)
(* out: what is checked is which request an answer belongs to, told by its *)
(* tag.                                                                    *)
(***************************************************************************)
EXTENDS Integers, Sequences

CONSTANTS
  ReqTag,     (* mem_req_tag_i                                             *)
  FifoDepth,  (* DEPTH of the two FIFOs of dcache_if_pmem                  *)
  MaxEvicts   (* bound: evictions the cache makes for one request          *)

ASSUME PortAssumption ==
  /\ ReqTag # {}
  /\ FifoDepth \in 1 .. 15
  /\ MaxEvicts \in Nat

VARIABLES
  pending,         (* dcache_mux.pending_q                                 *)
  cacheAccess,     (* dcache_mux.cache_access_q                            *)
  reqFifo,         (* dcache_if_pmem.u_req                                 *)
  respFifo,        (* dcache_if_pmem.u_resp                                *)
  requestPending,  (* dcache_if_pmem.request_pending_q                     *)
  dropped,         (* dcache_if_pmem.dropped_q                             *)
  selectQ,         (* dcache_pmem_mux.select_q                             *)
  core,            (* the cache: its phase, its request, evictions so far  *)
  bus,             (* transactions the bus has taken and not answered      *)
  owed,            (* history: requests taken and not answered             *)
  acks             (* history: what was acknowledged in the last cycle     *)

portVars == <<pending, cacheAccess, reqFifo, respFifo, requestPending, dropped,
              selectQ, core, bus, owed, acks>>

Cached   == "cached"
Uncached == "uncached"

Kind == {"none", "read", "write", "maintain"}

(* What the CPU side drives: mem_cacheable_i means something only with a   *)
(* request, and selects the path even without one.                         *)
Inputs == [kind : Kind, cacheable : BOOLEAN, tag : ReqTag]

(* What the cache does next, where DCacheCore decides by its tags: wait,   *)
(* acknowledge, write a line to the bus or read one from it.               *)
Choices ==
  [go : {"wait", "ack"}
          \cup {g \in {"refill"} : core.phase # "ready"}
          \cup {g \in {"evict"} : core.phase = "lookup" /\ core.evicts < MaxEvicts},
   take : BOOLEAN]

---------------------------------------------------------------------------
(* dcache_mux: the request side.                                           *)

(* Mutation: a request never waits for the other path. *)
HoldNever(in) == FALSE

Hold(in) == pending # 0 /\ cacheAccess # in.cacheable

ToCache(in)    == in.kind # "none" /\ in.cacheable /\ ~Hold(in)
ToUncached(in) == in.kind # "none" /\ ~in.cacheable /\ ~Hold(in)

(* cache_active_o: which path owns the bus. *)
Select(in) == IF pending # 0 THEN cacheAccess ELSE in.cacheable

---------------------------------------------------------------------------
(* dcache_if_pmem.  b is what the bus drives in this cycle.                *)

UncachedBusAck(b) == b.answer # 0 /\ ~selectQ

(* Mutation: a dropped request is not acknowledged. *)
UncachedAckBusOnly(b) == UncachedBusAck(b)

UncachedAck(b) == dropped \/ UncachedBusAck(b)

UncachedAccept == Len(reqFifo) # FifoDepth /\ Len(respFifo) # FifoDepth

(* request_in_progress_w *)
InProgress(b) == requestPending /\ ~UncachedAck(b)

MayIssue(b)    == reqFifo # <<>> /\ ~InProgress(b)
IsDrop(b)      == MayIssue(b) /\ Head(reqFifo).kind = "maintain"
UncachedOffer(b) == MayIssue(b) /\ Head(reqFifo).kind # "maintain"

---------------------------------------------------------------------------
(* The cache as the bus and the mux see it.                                *)

CacheBusAck(b) == b.answer # 0 /\ selectQ

Phase == {"idle", "lookup", "evict", "evict_wait", "refill", "refill_wait", "ready"}

CacheAck(c) == core.phase \in {"lookup", "ready"} /\ c.go = "ack"

CacheAccept(c) == c.take /\ (core.phase = "idle" \/ CacheAck(c))

StartsEvict(c) == core.phase = "lookup" /\ c.go = "evict"

(* A refill is requested in the very cycle that decides on it. *)
StartsRefill(b, c) ==
  /\ c.go = "refill"
  /\ core.phase = "lookup" \/ (core.phase = "evict_wait" /\ CacheBusAck(b))

CacheOffer(b, c) == StartsRefill(b, c) \/ core.phase \in {"evict", "refill"}

CoreStep(in, b, c, granted) ==
  LET take == ToCache(in) /\ CacheAccept(c)
      next ==
        IF take THEN "lookup"
        ELSE IF CacheAck(c) THEN "idle"
        ELSE IF StartsEvict(c) THEN "evict"
        ELSE IF StartsRefill(b, c) \/ core.phase = "refill"
          THEN IF granted THEN "refill_wait" ELSE "refill"
        ELSE IF core.phase = "evict" /\ granted THEN "evict_wait"
        ELSE IF core.phase = "evict_wait" /\ CacheBusAck(b) THEN "lookup"
        ELSE IF core.phase = "refill_wait" /\ CacheBusAck(b) THEN "ready"
        ELSE core.phase
  IN core' = [phase  |-> next,
              tag    |-> IF take THEN in.tag ELSE core.tag,
              evicts |-> IF take THEN 0
                         ELSE core.evicts + (IF StartsEvict(c) THEN 1 ELSE 0)]

---------------------------------------------------------------------------
(* The bus.                                                                *)

(* answer is the index of the transaction answered in this cycle, or 0:    *)
(* reads and writes are answered in order among themselves.                *)
BusInputs ==
  [accept : BOOLEAN,
   answer : {0} \cup {i \in DOMAIN bus :
                        \A j \in 1 .. i - 1 : bus[j].write # bus[i].write}]

Without(seq, i) == SubSeq(seq, 1, i - 1) \o SubSeq(seq, i + 1, Len(seq))

(* dcache_pmem_mux: what reaches the bus, and its transactions.            *)
BusStep(in, b, c) ==
  LET left == IF b.answer = 0 THEN bus ELSE Without(bus, b.answer)
      cached == [path |-> Cached, tag |-> core.tag, write |-> core.phase = "evict"]
      uncached == [path |-> Uncached, tag |-> Head(reqFifo).tag,
                   write |-> Head(reqFifo).kind = "write"]
  IN bus' = IF b.accept /\ Select(in) /\ CacheOffer(b, c) THEN Append(left, cached)
            ELSE IF b.accept /\ ~Select(in) /\ UncachedOffer(b) THEN Append(left, uncached)
            ELSE left

---------------------------------------------------------------------------
(* The registers of the three modules.                                     *)

Accepted(in, c) ==
  (ToCache(in) /\ CacheAccept(c)) \/ (ToUncached(in) /\ UncachedAccept)

(* mem_ack_o: only one of the two paths is listened to. *)
Ack(b, c) == IF cacheAccess THEN CacheAck(c) ELSE UncachedAck(b)

(* Mutation: a request taken counts even when another is answered. *)
CountTakenFirst(taken, answered) ==
  IF taken THEN pending + 1 ELSE IF answered THEN pending - 1 ELSE pending

Count(taken, answered) ==
  IF taken /\ ~answered THEN pending + 1
  ELSE IF answered /\ ~taken THEN pending - 1
  ELSE pending

Mux(in, b, c) ==
  /\ pending' = Count(Accepted(in, c), Ack(b, c)) % 32
  /\ cacheAccess' = IF Accepted(in, c) THEN in.cacheable ELSE cacheAccess
  /\ selectQ' = Select(in)

UncachedPath(in, b) ==
  LET push     == ToUncached(in) /\ UncachedAccept
      complete == IsDrop(b) \/ (UncachedOffer(b) /\ b.accept /\ ~Select(in))
      rest     == IF complete THEN Tail(reqFifo) ELSE reqFifo
      waiting  == IF UncachedAck(b) /\ respFifo # <<>> THEN Tail(respFifo) ELSE respFifo
  IN /\ reqFifo'  = IF push THEN Append(rest, [kind |-> in.kind, tag |-> in.tag]) ELSE rest
     /\ respFifo' = IF push THEN Append(waiting, in.tag) ELSE waiting
     /\ requestPending' = (complete \/ (requestPending /\ ~UncachedAck(b)))
     /\ dropped' = IsDrop(b)

(* History: the requests in the order they were taken; and, of this cycle, *)
(* what each path acknowledged, what the CPU was told, and whose turn it   *)
(* was.                                                                    *)
PortHistory(in, b, c) ==
  LET rest == IF Ack(b, c) /\ owed # <<>> THEN Tail(owed) ELSE owed
      cached   == IF CacheAck(c) THEN {[path |-> Cached, tag |-> core.tag]} ELSE {}
      uncached == IF UncachedAck(b)
                    THEN {[path |-> Uncached, tag |-> Head(respFifo)]} ELSE {}
  IN /\ owed' = IF Accepted(in, c)
                  THEN Append(rest, [path |-> IF in.cacheable THEN Cached ELSE Uncached,
                                     tag |-> in.tag])
                  ELSE rest
     /\ acks' = [given |-> cached \cup uncached,
                 told  |-> IF cacheAccess THEN cached ELSE uncached,
                 due   |-> IF owed = <<>> THEN {} ELSE {Head(owed)}]

PortInit ==
  /\ pending = 0
  /\ cacheAccess = FALSE
  /\ reqFifo = <<>>
  /\ respFifo = <<>>
  /\ requestPending = FALSE
  /\ dropped = FALSE
  /\ selectQ = FALSE
  /\ core \in [phase : {"idle"}, tag : ReqTag, evicts : {0}]
  /\ bus = <<>>
  /\ owed = <<>>
  /\ acks = [given |-> {}, told |-> {}, due |-> {}]

PortClock(in, b, c) ==
  /\ Mux(in, b, c)
  /\ UncachedPath(in, b)
  /\ CoreStep(in, b, c, b.accept /\ Select(in))
  /\ BusStep(in, b, c)
  /\ PortHistory(in, b, c)

PortNext == \E in \in Inputs, b \in BusInputs, c \in Choices : PortClock(in, b, c)

PortSpec == PortInit /\ [][PortNext]_portVars

(* Again and again the bus accepts what is offered and answers what it     *)
(* owes, and the cache takes a step of its work.                           *)
Serves ==
  \E in \in Inputs, b \in BusInputs, c \in Choices :
    /\ b.accept
    /\ bus # <<>> => b.answer # 0
    /\ c.go # "wait"
    /\ PortClock(in, b, c)

PortFairSpec == PortSpec /\ WF_portVars(PortNext) /\ WF_portVars(Serves)

---------------------------------------------------------------------------
(* Properties.                                                             *)

Owed == [path : {Cached, Uncached}, tag : ReqTag]

(* Every register holds a value of its width, and the FIFOs never          *)
(* overflow.                                                               *)
PortTypeOK ==
  /\ pending \in 0 .. 31
  /\ cacheAccess \in BOOLEAN
  /\ reqFifo \in Seq([kind : Kind \ {"none"}, tag : ReqTag])
  /\ respFifo \in Seq(ReqTag)
  /\ Len(reqFifo) <= Len(respFifo) /\ Len(respFifo) <= FifoDepth
  /\ requestPending \in BOOLEAN /\ dropped \in BOOLEAN /\ selectQ \in BOOLEAN
  /\ core \in [phase : Phase, tag : ReqTag, evicts : 0 .. MaxEvicts]
  /\ bus \in Seq([path : {Cached, Uncached}, tag : ReqTag, write : BOOLEAN])
  /\ owed \in Seq(Owed)

(* Whatever a path acknowledges the CPU is told, in that cycle and with    *)
(* the tag of the oldest request it waits for: no answer is lost, invented *)
(* or taken for another's, however cached, uncached and dropped requests   *)
(* follow each other.                                                      *)
AnswersTold ==
  /\ acks.told = acks.given
  /\ acks.given \in {{}, acks.due}

(* "Allows 1 outstanding transaction" (dcache_if_pmem.v), and no more than *)
(* one with the cache on the same bus: dcache_axi can give one answer in a *)
(* cycle, and would lose a write's that comes with a read's.               *)
OneOutstanding == Len(bus) <= 1

(* The bus works for the oldest request, and the delayed selector of the   *)
(* responses points at the path that made it.                              *)
BusServesOldest ==
  \A i \in DOMAIN bus :
    /\ owed # <<>>
    /\ Head(owed) = [path |-> bus[i].path, tag |-> bus[i].tag]
    /\ selectQ <=> (bus[i].path = Cached)

(* dcache_mux counts the requests it waits for exactly: one too many and   *)
(* the other path is held for ever, one too few and the paths mix.  Every  *)
(* register keeps to its width, and the FIFOs to theirs.                   *)
PendingCounts ==
  /\ PortTypeOK
  /\ pending = Len(owed)

(* The paths never mix: one transaction at a time is on the bus, that of   *)
(* the oldest request, and the counter that holds the other path back is   *)
(* right (dcache_mux.v:136, dcache_pmem_mux.v:123).                        *)
PathsApart == OneOutstanding /\ BusServesOldest /\ PendingCounts

(* Every request taken is answered.                                        *)
EveryRequestAnswered ==
  \/ <>[](owed = <<>>)
  \/ []<><<acks'.told # {}>>_portVars

=============================================================================
