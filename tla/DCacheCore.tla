---------------------------- MODULE DCacheCore ----------------------------
(***************************************************************************)
(* The write-back data cache top_cache_axi/src_v/dcache_core.v with its    *)
(* tag and data RAMs: two ways, allocation on reads and writes, one        *)
(* buffered request, a flush engine, single-line write-back and            *)
(* invalidate.  A step of the specification is one rising clock edge.      *)
(*                                                                         *)
(* The CPU side may present any request on every cycle (an input that was  *)
(* not accepted need not be held).  The memory side is a bus that accepts  *)
(* and answers bursts after arbitrary delays, in order, as dcache_axi.v    *)
(* does; `memory' is what it stores.                                       *)
(*                                                                         *)
(* A word stands for one byte lane: a write strobes the lane.  The         *)
(* response tag and pmem_addr_q, whose value only ever reaches the bus on  *)
(* beats whose address the bus ignores, are left out.                      *)
(***************************************************************************)
EXTENDS Integers, FiniteSets

CONSTANTS
  NumSets,        (* DCACHE_NUM_LINES: lines of each way                   *)
  NumTags,        (* distinct tags, 2^19 in the code                       *)
  LineWords,      (* DCACHE_LINE_WORDS                                     *)
  Value,          (* contents of a word                                    *)
  Zero,           (* the word of all zeros                                 *)
  InitialMemory,  (* what memory holds at reset                            *)
  PowerUpTags,    (* what the tag RAMs may hold before reset               *)
  PowerUpData,    (* what the data RAMs may hold before reset              *)
  Requests,       (* what the CPU side may present to the cache            *)
  BusErrors       (* whether the bus may answer with an error              *)

Set  == 0 .. NumSets - 1
Tag  == 0 .. NumTags - 1
Word == 0 .. LineWords - 1
Way  == {0, 1}

TagEntry == [valid : BOOLEAN, dirty : BOOLEAN, tag : Tag]

Op == {"none", "read", "write", "flush", "inval", "writeback"}

Request == [op : Op, tag : Tag, set : Set, word : Word, data : Value]

ASSUME SizeAssumption ==
  /\ NumSets \in Nat \ {0}
  /\ NumTags \in Nat \ {0}
  /\ LineWords \in 2 .. 256

ASSUME DataAssumption ==
  /\ Zero \in Value
  /\ InitialMemory \in [Set -> [Tag -> [Word -> Value]]]
  /\ PowerUpTags \subseteq TagEntry
  /\ PowerUpData \subseteq Value
  /\ Requests \subseteq Request
  /\ BusErrors \in BOOLEAN

State == {"RESET", "FLUSH_ADDR", "FLUSH", "LOOKUP", "READ", "WRITE", "REFILL",
          "EVICT", "EVICT_WAIT", "INVALIDATE", "WRITEBACK"}

VARIABLES
  state,       (* state_q                                                  *)
  m,           (* mem_*_m_q: the request buffer                            *)
  tagRam,      (* the two tag RAMs: tagRam[set][way]                       *)
  tagOut,      (* their registered outputs: tagOut[way]                    *)
  dataRam,     (* the two data RAMs: dataRam[set][way][word]               *)
  dataOut,     (* their registered outputs: dataOut[way]                   *)
  dataAddr,    (* data_write_addr_q: refill and evict pointer              *)
  replaceWay,  (* replace_way_q                                            *)
  flushAddr,   (* flush_addr_q                                             *)
  flushing,    (* flushing_q                                               *)
  flushLast,   (* flush_last_q                                             *)
  pmemRd,      (* pmem_rd_q: burst read not yet accepted                   *)
  pmemWr0,     (* pmem_wr0_q: first beat of a write burst                  *)
  pmemLen,     (* pmem_len_q: beats left                                   *)
  skid,        (* pmem_wr_q and pmem_write_data_q                          *)
  error,       (* error_q                                                  *)
  memory,      (* the memory behind the bus: memory[set][tag][word]        *)
  burst,       (* the burst the bus is working on                          *)
  arch         (* history: what a program may expect, arch[set][tag][word] *)

cacheVars == <<state, m, tagRam, tagOut, dataRam, dataOut, dataAddr,
               replaceWay, flushAddr, flushing, flushLast>>
busVars   == <<pmemRd, pmemWr0, pmemLen, skid, error, memory, burst>>
vars      == <<cacheVars, busVars, arch>>

NoRequest  == [op |-> "none", tag |-> 0, set |-> 0, word |-> 0, data |-> Zero]
InvalidTag == [valid |-> FALSE, dirty |-> FALSE, tag |-> 0]
NoBurst    == [op |-> "idle", tag |-> 0, set |-> 0, beat |-> 0]

Burst == [op : {"idle", "read", "write", "respond"}, tag : Tag, set : Set,
          beat : Word]

---------------------------------------------------------------------------
(* Tag comparison and victim selection.                                    *)

TagHit(w) == tagOut[w].valid /\ tagOut[w].tag = m.tag
HitWays   == {w \in Way : TagHit(w)}
TagHitAny == \E w \in Way : TagHit(w)

TagDirty(w)    == tagOut[w].valid /\ tagOut[w].dirty
TagDirtyAny    == \E w \in Way : TagDirty(w)
TagHitAndDirty == \E w \in Way : TagHit(w) /\ tagOut[w].dirty

EvictWay == (flushing \/ ~TagHitAny) /\ TagDirty(replaceWay)

Miss == m.op \in {"read", "write"} /\ ~TagHitAny

(* The set whose line an eviction writes to memory.                        *)
EvictSet == IF flushing THEN flushAddr ELSE m.set

(* Mutation: a read may follow a write to the same word at once. *)
MemAcceptNoHazard(in) == state = "LOOKUP" /\ ~Miss

(* The CPU side handshake. *)
MemAccept(in) ==
  /\ state = "LOOKUP"
  /\ ~Miss
  /\ ~(/\ m.op = "write" /\ in.op = "read"
       /\ <<in.tag, in.set, in.word>> = <<m.tag, m.set, m.word>>)

MemAck ==
  /\ state = "LOOKUP"
  /\ m.op # "none"
  /\ ~Miss

(* mem_data_rd_o: way 1 only when way 0 does not hit and way 1 does.       *)
MemDataRd == IF TagHit(1) /\ ~TagHit(0) THEN dataOut[1] ELSE dataOut[0]

---------------------------------------------------------------------------
(* The memory side: the request wires and the registers behind them.       *)
(* next_state_r is state'; c is what the bus drives this cycle.            *)

Entering(s) == state # s /\ state' = s

PmemLast == pmemLen = 0

PmemRd == Entering("REFILL") \/ pmemRd
PmemWr       == (state = "EVICT" /\ (EvictWay \/ m.op = "writeback")) \/ skid.valid

(* pmem_len_w # 0: the beat carries a burst's length and address.          *)
FirstBeat == PmemRd \/ (state = "EVICT" /\ pmemWr0)

PmemWriteData == IF skid.valid THEN skid.data ELSE dataOut[replaceWay]

(* A word of the line has come or gone. *)
BeatDone(c) ==
  \/ state = "REFILL" /\ c.ack
  \/ state = "EVICT" /\ c.accept

(* Mutation: an error flag outlives the request. *)
StickyError(c) == error \/ (c.ack /\ c.error)

ErrorAfter(c) == (c.ack /\ c.error) \/ (error /\ ~MemAck)

PmemRegisters(c) ==
  /\ pmemRd'  = (PmemRd /\ ~c.accept)
  /\ pmemWr0' = (Entering("EVICT") \/ (pmemWr0 /\ ~c.accept))
  /\ pmemLen' = IF Entering("EVICT") \/ (PmemRd /\ c.accept)
                  THEN LineWords - 1
                ELSE IF BeatDone(c) THEN (pmemLen - 1) % 256
                ELSE pmemLen
  /\ skid'    = [valid |-> PmemWr /\ ~c.accept,
                 data  |-> IF c.accept THEN skid.data ELSE PmemWriteData]
  /\ error'   = ErrorAfter(c)

(* The bus and the memory behind it: a response ends a beat of a read or a *)
(* whole write, then an accepted request starts or continues a burst.      *)
BurstAfter(c) ==
  IF ~c.ack THEN burst
  ELSE IF burst.op = "read" /\ burst.beat < LineWords - 1
    THEN [burst EXCEPT !.beat = @ + 1]
  ELSE NoBurst

WriteBeat ==
  IF FirstBeat
    THEN [op |-> "write", tag |-> tagOut[replaceWay].tag, set |-> EvictSet, beat |-> 0]
    ELSE burst

Bus(c) ==
  IF c.accept /\ PmemRd
    THEN /\ burst' = [op |-> "read", tag |-> m.tag, set |-> m.set, beat |-> 0]
         /\ UNCHANGED memory
  ELSE IF c.accept /\ PmemWr
    THEN LET b == WriteBeat
         IN /\ memory' = [memory EXCEPT ![b.set][b.tag][b.beat] = PmemWriteData]
            /\ burst' = IF b.beat < LineWords - 1
                          THEN [b EXCEPT !.beat = @ + 1]
                          ELSE [b EXCEPT !.op = "respond"]
  ELSE /\ burst' = BurstAfter(c)
       /\ UNCHANGED memory

(* The word a read burst delivers next. *)
BusWord == memory[burst.set][burst.tag][burst.beat]

(* What the bus may drive in a cycle: it responds only to a burst, and an  *)
(* answer without error carries the word that was asked for.               *)
BusInputs ==
  {c \in [accept : BOOLEAN,
          ack    : {a \in BOOLEAN : a => burst.op \in {"read", "respond"}},
          error  : {e \in BOOLEAN : e => BusErrors},
          data   : {BusWord} \cup {d \in Value : BusErrors}] :
     /\ c.error => c.ack
     /\ ~c.error => c.data = BusWord}

---------------------------------------------------------------------------
(* The remaining always-blocks, each a function of state_q and             *)
(* next_state_r.                                                           *)

RequestBuffer(in) ==
  m' = IF MemAccept(in) THEN in ELSE IF MemAck THEN NoRequest ELSE m

(* A line counter wraps after the last set. *)
NextSet(s) == IF s = NumSets - 1 THEN 0 ELSE s + 1

LastSet == flushAddr = NumSets - 1

FlushCounter ==
  /\ flushAddr' = IF state = "RESET" \/ (state = "FLUSH" /\ state' = "FLUSH_ADDR")
                    THEN NextSet(flushAddr)
                  ELSE IF state = "LOOKUP" THEN 0 ELSE flushAddr
  /\ flushLast' = (state # "LOOKUP" /\ (flushLast \/ LastSet))
  /\ flushing'  = IF state = "LOOKUP" /\ state' = "FLUSH_ADDR" THEN TRUE
                  ELSE flushing /\ ~(state = "FLUSH" /\ state' = "LOOKUP")

OtherWay == 1 - replaceWay

(* Mutation: a flush never selects the other way. *)
SkipWayNever == FALSE

(* A flush found something dirty, but not in the selected way.             *)
SkipWay == flushing /\ TagDirtyAny /\ ~EvictWay /\ state # "FLUSH_ADDR"

(* Mutation: a write-back evicts whatever way comes next. *)
WritebackWayAny == replaceWay

WritebackWay == IF TagHit(0) THEN 0 ELSE IF TagHit(1) THEN 1 ELSE replaceWay

ReplacementPolicy ==
  replaceWay' =
    IF state \in {"WRITE", "READ"} \/ SkipWay THEN OtherWay
    ELSE IF \/ state = "EVICT_WAIT" /\ state' = "FLUSH_ADDR"
            \/ state = "FLUSH" /\ state' = "LOOKUP"
            \/ state = "LOOKUP" /\ state' = "FLUSH_ADDR"
      THEN 0
    ELSE IF state = "WRITEBACK" THEN WritebackWay
    ELSE replaceWay

(* Data RAM address one word on; past a line it runs into the next set.    *)
NextWord(a) ==
  IF a.word < LineWords - 1
    THEN [a EXCEPT !.word = @ + 1]
    ELSE [set |-> NextSet(a.set), word |-> 0]

(* data_addr_x_r: what the data RAMs read this cycle.                      *)
DataReadAddr(in) ==
  IF state \in {"REFILL", "EVICT"} THEN dataAddr
  ELSE IF state \in {"FLUSH", "RESET"} THEN [set |-> flushAddr, word |-> 0]
  ELSE IF state' = "EVICT" THEN [set |-> m.set, word |-> 0]
  ELSE IF state = "READ" THEN [set |-> m.set, word |-> m.word]
  ELSE [set |-> in.set, word |-> in.word]

(* Mutation: the evict pointer starts at the word already read. *)
EvictStartLate(a) == a

(* The first word of a victim is read on the way into STATE_EVICT.         *)
EvictStart(a) == NextWord(a)

DataPointer(in, c) ==
  dataAddr' = IF Entering("REFILL") THEN [set |-> m.set, word |-> 0]
              ELSE IF Entering("EVICT") THEN EvictStart(DataReadAddr(in))
              ELSE IF BeatDone(c) THEN NextWord(dataAddr)
              ELSE dataAddr

(* tag_addr_x_r: what the tag RAMs read this cycle.                        *)
TagReadSet(in) ==
  IF state = "LOOKUP" /\ state' \in {"LOOKUP", "WRITEBACK"} THEN in.set
  ELSE IF flushing THEN flushAddr
  ELSE m.set

(* tag_addr_m_r: the set whose tags are written.                           *)
TagWriteSet == IF flushing \/ state = "RESET" THEN flushAddr ELSE m.set

(* The tag RAMs: written ways first, then read (write first).              *)
TagRams(in, ways, entry) ==
  /\ tagRam' = [tagRam EXCEPT ![TagWriteSet] =
                  [w \in Way |-> IF w \in ways THEN entry ELSE @[w]]]
  /\ tagOut' = tagRam'[TagReadSet(in)]

(* The data RAMs: the read returns what was there before the write.        *)
DataRams(in, addr, ways, val) ==
  /\ dataRam' = [dataRam EXCEPT ![addr.set] =
                   [w \in Way |-> IF w \in ways THEN [@[w] EXCEPT ![addr.word] = val]
                                                ELSE @[w]]]
  /\ LET a == DataReadAddr(in)
     IN dataOut' = [w \in Way |-> dataRam[a.set][w][a.word]]

(* History: a program's view of memory.  A write takes effect when it is   *)
(* acknowledged; an invalidate exposes what memory holds.                  *)
History ==
  arch' = IF MemAck /\ m.op = "write"
            THEN [arch EXCEPT ![m.set][m.tag][m.word] = m.data]
          ELSE IF state = "INVALIDATE"
            THEN [arch EXCEPT ![m.set][m.tag] = memory[m.set][m.tag]]
          ELSE arch

(* Everything but the RAMs and state_q, at a clock edge.                   *)
Clock(in, c) ==
  /\ RequestBuffer(in)
  /\ FlushCounter
  /\ ReplacementPolicy
  /\ DataPointer(in, c)
  /\ PmemRegisters(c)
  /\ Bus(c)
  /\ History

RequestWord == [set |-> m.set, word |-> m.word]

KeepData(in) == DataRams(in, RequestWord, {}, Zero)
KeepTags(in) == TagRams(in, {}, InvalidTag)

Clean(t) == [valid |-> TRUE, dirty |-> FALSE, tag |-> t]
Dirty(t) == [valid |-> TRUE, dirty |-> TRUE,  tag |-> t]
Invalid(t) == [valid |-> FALSE, dirty |-> FALSE, tag |-> t]

---------------------------------------------------------------------------
(* The states of the controller.                                           *)

Init ==
  /\ state = "RESET"
  /\ m = NoRequest
  /\ tagRam \in [Set -> [Way -> PowerUpTags]]
  /\ tagOut \in [Way -> PowerUpTags]
  /\ dataRam \in [Set -> [Way -> [Word -> PowerUpData]]]
  /\ dataOut \in [Way -> PowerUpData]
  /\ dataAddr = [set |-> 0, word |-> 0]
  /\ replaceWay = 0
  /\ flushAddr = 0
  /\ flushing = FALSE
  /\ flushLast = FALSE
  /\ pmemRd = FALSE
  /\ pmemWr0 = FALSE
  /\ pmemLen = 0
  /\ skid = [valid |-> FALSE, data |-> Zero]
  /\ error = FALSE
  /\ memory = InitialMemory
  /\ burst = NoBurst
  /\ arch = InitialMemory

(* STATE_RESET: clear the tags of one set each cycle.                      *)
ResetTags(in, c) ==
  /\ state = "RESET"
  /\ state' = IF flushLast THEN "LOOKUP" ELSE "RESET"
  /\ TagRams(in, Way, InvalidTag)
  /\ KeepData(in)
  /\ Clock(in, c)

(* STATE_FLUSH_ADDR: read the tags of the set to flush.                    *)
FlushAddress(in, c) ==
  /\ state = "FLUSH_ADDR"
  /\ state' = "FLUSH"
  /\ KeepTags(in)
  /\ KeepData(in)
  /\ Clock(in, c)

(* STATE_FLUSH with a dirty way: evict it when it is the selected one.     *)
FlushDirty(in, c) ==
  /\ state = "FLUSH"
  /\ TagDirtyAny
  /\ state' = IF EvictWay THEN "EVICT" ELSE "FLUSH"
  /\ KeepTags(in)
  /\ KeepData(in)
  /\ Clock(in, c)

(* STATE_FLUSH with nothing dirty: drop the set, go on to the next one.    *)
FlushClean(in, c) ==
  /\ state = "FLUSH"
  /\ ~TagDirtyAny
  /\ state' = IF flushLast THEN "LOOKUP" ELSE "FLUSH_ADDR"
  /\ TagRams(in, Way, InvalidTag)
  /\ KeepData(in)
  /\ Clock(in, c)

(* STATE_LOOKUP, the buffered request misses: evict a dirty victim first.  *)
LookupMiss(in, c) ==
  /\ state = "LOOKUP"
  /\ Miss
  /\ state' = IF EvictWay THEN "EVICT" ELSE "REFILL"
  /\ KeepTags(in)
  /\ KeepData(in)
  /\ Clock(in, c)

NextOnInput(op) ==
  CASE op = "writeback" -> "WRITEBACK"
    [] op = "flush"     -> "FLUSH_ADDR"
    [] op = "inval"     -> "INVALIDATE"
    [] op \in {"none", "read", "write"} -> "LOOKUP"

(* The ways a write updates.                                               *)
WrittenWays == IF m.op = "write" THEN HitWays ELSE {}

(* STATE_LOOKUP otherwise: finish the buffered request (a write updates    *)
(* the line and marks it dirty) and take the next one.                     *)
LookupServe(in, c) ==
  /\ state = "LOOKUP"
  /\ ~Miss
  /\ state' = NextOnInput(in.op)
  /\ TagRams(in, WrittenWays, Dirty(m.tag))
  /\ DataRams(in, RequestWord, WrittenWays, m.data)
  /\ Clock(in, c)

(* STATE_REFILL: store each word that arrives; the last makes the line     *)
(* valid.                                                                  *)
Refill(in, c) ==
  LET last == c.ack /\ PmemLast
  IN /\ state = "REFILL"
     /\ state' = IF ~last THEN "REFILL"
                 ELSE IF m.op = "write" THEN "WRITE" ELSE "READ"
     /\ TagRams(in, IF last THEN {replaceWay} ELSE {}, Clean(m.tag))
     /\ DataRams(in, dataAddr, IF c.ack THEN {replaceWay} ELSE {}, c.data)
     /\ Clock(in, c)

(* STATE_WRITE: the write that caused the refill.                          *)
WriteAfterRefill(in, c) ==
  /\ state = "WRITE"
  /\ state' = "LOOKUP"
  /\ TagRams(in, {replaceWay}, Dirty(m.tag))
  /\ DataRams(in, RequestWord, WrittenWays, m.data)
  /\ Clock(in, c)

(* STATE_READ: read the word that caused the refill.                       *)
ReadAfterRefill(in, c) ==
  /\ state = "READ"
  /\ state' = "LOOKUP"
  /\ KeepTags(in)
  /\ KeepData(in)
  /\ Clock(in, c)

(* STATE_EVICT: send the victim's words.                                   *)
Evict(in, c) ==
  /\ state = "EVICT"
  /\ state' = IF c.accept /\ PmemLast THEN "EVICT_WAIT" ELSE "EVICT"
  /\ KeepTags(in)
  /\ KeepData(in)
  /\ Clock(in, c)

(* STATE_EVICT_WAIT: on the write response go on with what the eviction    *)
(* was for.                                                                *)
EvictWait(in, c) ==
  /\ state = "EVICT_WAIT"
  /\ state' = IF ~c.ack THEN "EVICT_WAIT"
              ELSE IF m.op = "writeback" THEN "LOOKUP"
              ELSE IF flushing THEN "FLUSH_ADDR"
              ELSE "REFILL"
  /\ TagRams(in, IF c.ack THEN {replaceWay} ELSE {},
             IF flushing THEN InvalidTag ELSE Clean(m.tag))
  /\ KeepData(in)
  /\ Clock(in, c)

(* STATE_WRITEBACK: write the line back when it is cached and dirty.       *)
Writeback(in, c) ==
  /\ state = "WRITEBACK"
  /\ state' = IF TagHitAndDirty THEN "EVICT" ELSE "LOOKUP"
  /\ KeepTags(in)
  /\ KeepData(in)
  /\ Clock(in, c)

(* STATE_INVALIDATE: drop the ways that hit.                               *)
Invalidate(in, c) ==
  /\ state = "INVALIDATE"
  /\ state' = "LOOKUP"
  /\ TagRams(in, HitWays, Invalid(m.tag))
  /\ KeepData(in)
  /\ Clock(in, c)

Step(in, c) ==
  \/ ResetTags(in, c)
  \/ FlushAddress(in, c)
  \/ FlushDirty(in, c)
  \/ FlushClean(in, c)
  \/ LookupMiss(in, c)
  \/ LookupServe(in, c)
  \/ Refill(in, c)
  \/ WriteAfterRefill(in, c)
  \/ ReadAfterRefill(in, c)
  \/ Evict(in, c)
  \/ EvictWait(in, c)
  \/ Writeback(in, c)
  \/ Invalidate(in, c)

Next == \E in \in Requests : \E c \in BusInputs : Step(in, c)

Spec == Init /\ [][Next]_vars

(* The bus is live: again and again it accepts what is offered and answers *)
(* a burst that waits for an answer.                                       *)
ResponsiveBus ==
  \E in \in Requests : \E c \in BusInputs :
    /\ c.accept
    /\ burst.op \in {"read", "respond"} => c.ack
    /\ Step(in, c)

FairSpec == Spec /\ WF_vars(Next) /\ WF_vars(ResponsiveBus)

---------------------------------------------------------------------------
(* Properties.                                                             *)

(* Every register, RAM and wire bundle holds a value of its width.         *)
TypeOK ==
  /\ state \in State
  /\ m \in Request
  /\ tagRam \in [Set -> [Way -> TagEntry]]
  /\ tagOut \in [Way -> TagEntry]
  /\ dataRam \in [Set -> [Way -> [Word -> Value]]]
  /\ dataOut \in [Way -> Value]
  /\ dataAddr \in [set : Set, word : Word]
  /\ replaceWay \in Way
  /\ flushAddr \in Set
  /\ flushing \in BOOLEAN
  /\ flushLast \in BOOLEAN
  /\ pmemRd \in BOOLEAN
  /\ pmemWr0 \in BOOLEAN
  /\ pmemLen \in 0 .. 255
  /\ skid \in [valid : BOOLEAN, data : Value]
  /\ error \in BOOLEAN
  /\ memory \in [Set -> [Tag -> [Word -> Value]]]
  /\ burst \in Burst
  /\ arch \in [Set -> [Tag -> [Word -> Value]]]

Caches(s, w, t) == tagRam[s][w].valid /\ tagRam[s][w].tag = t

(* Once the tags have been cleared after reset, no line is ever held by    *)
(* both ways: otherwise a write would update both copies, but an eviction  *)
(* would save one of them (replace_way_q picks the way, the hit picks the  *)
(* data).                                                                  *)
OneCopyPerLine ==
  state # "RESET" =>
    \A s \in Set, t \in Tag : ~(Caches(s, 0, t) /\ Caches(s, 1, t))

(* A read acknowledged by mem_ack_o carries, on mem_data_rd_o, the value   *)
(* of the last write to its address acknowledged before, whatever misses,  *)
(* evictions, refills, flushes and write-backs lie in between.             *)
ReadReturnsLastWrite ==
  MemAck /\ m.op = "read" => MemDataRd = arch[m.set][m.tag][m.word]

(* A way holds a line unless a refill is overwriting it.                   *)
Holds(s, w, t) ==
  Caches(s, w, t) /\ ~(state = "REFILL" /\ s = m.set /\ w = replaceWay)

(* A write whose line was refilled is already in the line when it is       *)
(* acknowledged.                                                           *)
Accepted(s, t, x, v) ==
  \/ v = arch[s][t][x]
  \/ /\ state = "LOOKUP" /\ m.op = "write"
     /\ <<m.set, m.tag, m.word>> = <<s, t, x>>
     /\ v = m.data

LineUpToDate(s, t) ==
  /\ \A w \in Way : Holds(s, w, t) =>
       /\ \A x \in Word : Accepted(s, t, x, dataRam[s][w][x])
       /\ ~tagRam[s][w].dirty => memory[s][t] = arch[s][t]
  /\ (\A w \in Way : ~Holds(s, w, t)) => memory[s][t] = arch[s][t]

(* No acknowledged write is ever lost: at every cycle, every line is held  *)
(* up to date by the way that caches it, or else by memory; a line marked  *)
(* clean equals what memory holds.                                         *)
NoLostWrite == state # "RESET" => \A s \in Set, t \in Tag : LineUpToDate(s, t)

(* When a flush is acknowledged the cache holds no line and memory holds   *)
(* every write: a program may then let another master read memory, or      *)
(* change it and see the change.                                           *)
FlushEmptiesCache ==
  MemAck /\ m.op = "flush" =>
    \A s \in Set : /\ \A w \in Way : ~tagRam[s][w].valid
                   /\ memory[s] = arch[s]

(* When a write-back of a line is acknowledged memory holds the line.      *)
WritebackReachesMemory ==
  MemAck /\ m.op = "writeback" => memory[m.set][m.tag] = arch[m.set][m.tag]

(* The controller and the bus agree about the burst in progress: it waits  *)
(* in STATE_EVICT, STATE_EVICT_WAIT and STATE_REFILL for exactly the beats *)
(* and responses the bus owes it, pmem_len_q counts what is left, and in   *)
(* every other state nothing is outstanding (so no response can be taken   *)
(* for another request's).                                                 *)
BusInStep ==
  /\ state = "EVICT" =>
       /\ PmemWr /\ ~pmemRd
       /\ burst.op = (IF pmemWr0 THEN "idle" ELSE "write")
       /\ pmemLen = LineWords - 1 - burst.beat
  /\ state = "EVICT_WAIT" => burst.op = "respond" /\ ~pmemRd /\ ~skid.valid
  /\ state = "REFILL" =>
       /\ ~skid.valid
       /\ IF pmemRd THEN burst.op = "idle"
          ELSE burst.op = "read" /\ pmemLen = LineWords - 1 - burst.beat
  /\ state \notin {"EVICT", "EVICT_WAIT", "REFILL"} =>
       burst.op = "idle" /\ ~pmemRd /\ ~skid.valid /\ ~pmemWr0

(* An error flag is raised only on behalf of the buffered request, and is  *)
(* gone when the next one is looked up.                                    *)
ErrorBelongsToRequest ==
  error => m.op # "none"

(* When an invalidate is acknowledged its line is no longer cached.        *)
InvalidateDropsLine ==
  MemAck /\ m.op = "inval" => \A w \in Way : ~Caches(m.set, w, m.tag)

(* The cache is transparent: to the CPU it is a memory that answers one    *)
(* request at a time (MemoryPort).                                         *)
Port == INSTANCE MemoryPort WITH
  pending <- m,
  contents <- arch,
  answer <- IF MemAck THEN {IF m.op = "read" THEN MemDataRd ELSE Zero} ELSE {},
  InitialContents <- InitialMemory,
  NoData <- Zero

RefinesMemoryPort == Port!PortSpec

(* Every request taken by the cache is answered.                           *)
EveryRequestAnswered == m.op # "none" ~> MemAck

=============================================================================
