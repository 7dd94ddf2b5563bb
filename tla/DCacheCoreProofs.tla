------------------------- MODULE DCacheCoreProofs -------------------------
(***************************************************************************)
(* Theorems about the data cache of module DCacheCore, for every number of *)
(* sets, tags and words and every set of values.  First what holds for     *)
(* every request and every failure of the bus: types, control, errors.     *)
(* Then that the cache is transparent, when the bus reports no error and   *)
(* no line is invalidated: no write is lost and every read returns the     *)
(* last write.                                                             *)
(***************************************************************************)
EXTENDS DCacheCoreInv, TLAPS

---------------------------------------------------------------------------
(* Types.                                                                  *)

BusInputType == [accept : BOOLEAN, ack : BOOLEAN, error : BOOLEAN, data : Value]

(* What the bus drives is typed as its wires. *)
LEMMA BusInputsTyped ==
  ASSUME TypeOK, NEW c \in BusInputs
  PROVE  c \in BusInputType
<1>1. BusWord \in Value
  BY SizeAssumption DEF TypeOK, BusWord, Burst, Set, Tag, Word
<1>2. QED
  BY <1>1 DEF BusInputs, BusInputType

(* Constants of record type. *)
LEMMA ConstantsTyped ==
  /\ NoRequest \in Request
  /\ InvalidTag \in TagEntry
  /\ NoBurst \in Burst
  /\ 0 \in Set /\ 0 \in Tag /\ 0 \in Word /\ 1 \in Word
BY SizeAssumption, DataAssumption
   DEF NoRequest, Request, Op, InvalidTag, TagEntry, NoBurst, Burst, Set, Tag, Word

(* The next word's address is an address. *)
LEMMA NextWordTyped ==
  ASSUME NEW a \in [set : Set, word : Word]
  PROVE  NextWord(a) \in [set : Set, word : Word]
BY SizeAssumption DEF NextWord, NextSet, Set, Word

(* Both RAM read addresses are addresses. *)
LEMMA ReadAddressesTyped ==
  ASSUME TypeOK, NEW in \in Request
  PROVE  /\ DataReadAddr(in) \in [set : Set, word : Word]
         /\ TagReadSet(in) \in Set
         /\ TagWriteSet \in Set
BY ConstantsTyped DEF TypeOK, DataReadAddr, TagReadSet, TagWriteSet, Request

(* The tag RAMs hold tags. *)
LEMMA TagRamsTyped ==
  ASSUME TypeOK, NEW in \in Request, NEW ways, NEW entry \in TagEntry,
         TagRams(in, ways, entry)
  PROVE  /\ tagRam' \in [Set -> [Way -> TagEntry]]
         /\ tagOut' \in [Way -> TagEntry]
<1>1. TagReadSet(in) \in Set /\ TagWriteSet \in Set
  BY ReadAddressesTyped
<1>2. tagRam' \in [Set -> [Way -> TagEntry]]
  BY <1>1 DEF TypeOK, TagRams
<1>3. QED
  BY <1>1, <1>2 DEF TagRams

(* The data RAMs hold words. *)
LEMMA DataRamsTyped ==
  ASSUME TypeOK, NEW in \in Request, NEW addr \in [set : Set, word : Word],
         NEW ways, NEW val \in Value, DataRams(in, addr, ways, val)
  PROVE  /\ dataRam' \in [Set -> [Way -> [Word -> Value]]]
         /\ dataOut' \in [Way -> Value]
<1>1. DataReadAddr(in) \in [set : Set, word : Word]
  BY ReadAddressesTyped
<1>2. dataOut' \in [Way -> Value]
  BY <1>1 DEF TypeOK, DataRams
<1>3. \A w \in Way : (IF w \in ways THEN [dataRam[addr.set][w] EXCEPT ![addr.word] = val]
                                    ELSE dataRam[addr.set][w]) \in [Word -> Value]
  BY DEF TypeOK
<1>4. dataRam' \in [Set -> [Way -> [Word -> Value]]]
  BY <1>3 DEF TypeOK, DataRams
<1>5. QED
  BY <1>2, <1>4

(* A beat written is a beat. *)
LEMMA WriteBeatTyped ==
  ASSUME TypeOK
  PROVE  WriteBeat \in Burst
<1>1. EvictSet \in Set
  BY DEF TypeOK, EvictSet, Request
<1>2. QED
  BY <1>1, ConstantsTyped DEF TypeOK, WriteBeat, Burst, Way, TagEntry

(* The registers, the bus and the history keep their types. *)
LEMMA ClockTyped ==
  ASSUME TypeOK, NEW in \in Request, NEW c \in BusInputs,
         Clock(in, c)
  PROVE  /\ m' \in Request
         /\ dataAddr' \in [set : Set, word : Word]
         /\ replaceWay' \in Way /\ flushAddr' \in Set
         /\ flushing' \in BOOLEAN /\ flushLast' \in BOOLEAN
         /\ pmemRd' \in BOOLEAN /\ pmemWr0' \in BOOLEAN /\ pmemLen' \in 0 .. 255
         /\ skid' \in [valid : BOOLEAN, data : Value] /\ error' \in BOOLEAN
         /\ memory' \in [Set -> [Tag -> [Word -> Value]]] /\ burst' \in Burst
         /\ arch' \in [Set -> [Tag -> [Word -> Value]]]
<1> USE DEF Clock
<1>c. c \in BusInputType
  BY BusInputsTyped
<1>1. m' \in Request
  BY ConstantsTyped DEF TypeOK, RequestBuffer
<1>2. dataAddr' \in [set : Set, word : Word]
  <2>1. [set |-> m.set, word |-> 0] \in [set : Set, word : Word]
    BY ConstantsTyped DEF TypeOK, Request
  <2>2. QED
    BY <2>1, NextWordTyped, ReadAddressesTyped DEF TypeOK, DataPointer, EvictStart
<1>3. replaceWay' \in Way
  BY DEF TypeOK, ReplacementPolicy, OtherWay, WritebackWay, Way
<1>4. flushAddr' \in Set /\ flushing' \in BOOLEAN /\ flushLast' \in BOOLEAN
  <2>1. NextSet(flushAddr) \in Set
    BY SizeAssumption DEF TypeOK, NextSet, Set
  <2>2. flushAddr' \in Set
    BY <2>1, ConstantsTyped DEF TypeOK, FlushCounter
  <2>3. flushLast' \in BOOLEAN /\ flushing' \in BOOLEAN
    BY DEF TypeOK, FlushCounter
  <2>4. QED
    BY <2>2, <2>3
<1>5. PmemWriteData \in Value
  BY DEF TypeOK, PmemWriteData
<1>6. /\ pmemRd' \in BOOLEAN /\ pmemWr0' \in BOOLEAN /\ pmemLen' \in 0 .. 255
      /\ error' \in BOOLEAN
  BY <1>c, SizeAssumption DEF TypeOK, PmemRegisters, BusInputType, ErrorAfter
<1>7. skid' \in [valid : BOOLEAN, data : Value]
  BY <1>c, <1>5 DEF TypeOK, PmemRegisters, BusInputType, PmemWr
<1>8. EvictSet \in Set
  BY DEF TypeOK, EvictSet, Request
<1>9. /\ memory' \in [Set -> [Tag -> [Word -> Value]]]
      /\ burst' \in Burst
  <2>1. CASE c.accept /\ PmemRd
    BY <2>1, ConstantsTyped DEF TypeOK, Bus, Burst, Request
  <2>2. CASE ~(c.accept /\ PmemRd) /\ c.accept /\ PmemWr
    <3> DEFINE b == WriteBeat
    <3>1. b \in Burst
      BY WriteBeatTyped
    <3> HIDE DEF b
    <3>2. /\ memory' = [memory EXCEPT ![b.set][b.tag][b.beat] = PmemWriteData]
          /\ burst' = IF b.beat < LineWords - 1 THEN [b EXCEPT !.beat = @ + 1]
                                                ELSE [b EXCEPT !.op = "respond"]
      BY <2>2 DEF Bus, b
    <3>3. memory' \in [Set -> [Tag -> [Word -> Value]]]
      BY <3>1, <3>2, <1>5 DEF TypeOK, Burst
    <3>4. burst' \in Burst
      BY <3>1, <3>2, SizeAssumption DEF Burst, Word
    <3>5. QED
      BY <3>3, <3>4
  <2>3. CASE ~(c.accept /\ PmemRd) /\ ~(c.accept /\ PmemWr)
    <3>1. BurstAfter(c) \in Burst
      <4>1. CASE c.ack /\ burst.op = "read" /\ burst.beat < LineWords - 1
        <5>1. BurstAfter(c) = [burst EXCEPT !.beat = @ + 1]
          BY <4>1 DEF BurstAfter
        <5>2. burst.beat + 1 \in Word
          BY <4>1, SizeAssumption DEF TypeOK, Burst, Word
        <5>3. QED
          BY <5>1, <5>2 DEF TypeOK, Burst
      <4>2. CASE ~(c.ack /\ burst.op = "read" /\ burst.beat < LineWords - 1)
        BY <4>2, ConstantsTyped DEF TypeOK, BurstAfter
      <4>3. QED
        BY <4>1, <4>2
    <3>3. burst' = BurstAfter(c) /\ memory' = memory
      BY <2>3 DEF Bus
    <3>4. QED
      BY <3>1, <3>3 DEF TypeOK
  <2>4. QED
    BY <2>1, <2>2, <2>3
<1>10. arch' \in [Set -> [Tag -> [Word -> Value]]]
  <2>1. CASE MemAck /\ m.op = "write"
    BY <2>1 DEF TypeOK, History, Request
  <2>2. CASE ~(MemAck /\ m.op = "write")
    BY <2>2 DEF TypeOK, History, Request
  <2>3. QED
    BY <2>1, <2>2
<1>11. QED
  BY <1>1, <1>2, <1>3, <1>4, <1>6, <1>7, <1>9, <1>10

(* Every step of the controller keeps the types. *)
LEMMA StepTyped ==
  ASSUME TypeOK, NEW in \in Request, NEW c \in BusInputs, Step(in, c)
  PROVE  TypeOK'
<1>c. c \in BusInputType
  BY BusInputsTyped
<1>a. RequestWord \in [set : Set, word : Word]
  BY DEF TypeOK, Request, RequestWord
<1>e. /\ Clean(m.tag) \in TagEntry /\ Dirty(m.tag) \in TagEntry
      /\ Invalid(m.tag) \in TagEntry
      /\ InvalidTag \in TagEntry
  BY ConstantsTyped DEF TypeOK, Request, Clean, Dirty, Invalid, TagEntry
<1>z. Zero \in Value /\ m.data \in Value
  BY DataAssumption DEF TypeOK, Request
<1>1. SUFFICES ASSUME state' \in State, Clock(in, c),
                      NEW tagWays, NEW entry \in TagEntry,
                      TagRams(in, tagWays, entry),
                      NEW addr \in [set : Set, word : Word], NEW dataWays, NEW val \in Value,
                      DataRams(in, addr, dataWays, val)
               PROVE  TypeOK'
  <2>1. CASE ResetTags(in, c)
    BY <2>1, <1>1, <1>a, <1>e, <1>z DEF ResetTags, KeepData, State
  <2>2. CASE FlushAddress(in, c)
    BY <2>2, <1>1, <1>a, <1>e, <1>z DEF FlushAddress, KeepTags, KeepData, State
  <2>3. CASE FlushDirty(in, c)
    BY <2>3, <1>1, <1>a, <1>e, <1>z DEF FlushDirty, KeepTags, KeepData, State
  <2>4. CASE FlushClean(in, c)
    BY <2>4, <1>1, <1>a, <1>e, <1>z DEF FlushClean, KeepData, State
  <2>5. CASE LookupMiss(in, c)
    BY <2>5, <1>1, <1>a, <1>e, <1>z DEF LookupMiss, KeepTags, KeepData, State
  <2>6. CASE LookupServe(in, c)
    <3>1. NextOnInput(in.op) \in State
      BY DEF NextOnInput, Request, Op, State
    <3>2. QED
      BY <2>6, <3>1, <1>1, <1>a, <1>e, <1>z DEF LookupServe
  <2>7. CASE Refill(in, c)
    <3>1. c.data \in Value /\ dataAddr \in [set : Set, word : Word]
      BY <1>c DEF BusInputType, TypeOK
    <3>2. QED
      BY <2>7, <3>1, <1>1, <1>e DEF Refill, State
  <2>8. CASE WriteAfterRefill(in, c)
    BY <2>8, <1>1, <1>a, <1>e, <1>z DEF WriteAfterRefill, State
  <2>9. CASE ReadAfterRefill(in, c)
    BY <2>9, <1>1, <1>a, <1>e, <1>z DEF ReadAfterRefill, KeepTags, KeepData, State
  <2>10. CASE Evict(in, c)
    BY <2>10, <1>1, <1>a, <1>e, <1>z DEF Evict, KeepTags, KeepData, State
  <2>11. CASE EvictWait(in, c)
    BY <2>11, <1>1, <1>a, <1>e, <1>z DEF EvictWait, KeepData, State
  <2>12. CASE Writeback(in, c)
    BY <2>12, <1>1, <1>a, <1>e, <1>z DEF Writeback, KeepTags, KeepData, State
  <2>13. CASE Invalidate(in, c)
    BY <2>13, <1>1, <1>a, <1>e, <1>z DEF Invalidate, KeepData, State
  <2>14. QED
    BY <2>1, <2>2, <2>3, <2>4, <2>5, <2>6, <2>7, <2>8, <2>9, <2>10, <2>11, <2>12,
       <2>13 DEF Step
<1>2. /\ tagRam' \in [Set -> [Way -> TagEntry]]
      /\ tagOut' \in [Way -> TagEntry]
  BY <1>1, TagRamsTyped
<1>3. /\ dataRam' \in [Set -> [Way -> [Word -> Value]]]
      /\ dataOut' \in [Way -> Value]
  BY <1>1, DataRamsTyped
<1>4. QED
  BY <1>1, <1>2, <1>3, ClockTyped DEF TypeOK

(* The reset state is typed. *)
LEMMA InitTyped == Init => TypeOK
<1> SUFFICES ASSUME Init PROVE TypeOK
  OBVIOUS
<1>1. /\ tagRam \in [Set -> [Way -> TagEntry]] /\ tagOut \in [Way -> TagEntry]
      /\ dataRam \in [Set -> [Way -> [Word -> Value]]] /\ dataOut \in [Way -> Value]
  <2>1. PowerUpTags \subseteq TagEntry /\ PowerUpData \subseteq Value
    BY DataAssumption
  <2> HIDE DEF TagEntry
  <2>2. QED
    BY <2>1 DEF Init
<1>2. /\ memory \in [Set -> [Tag -> [Word -> Value]]]
      /\ arch \in [Set -> [Tag -> [Word -> Value]]]
  BY DataAssumption DEF Init
<1>3. /\ m \in Request /\ dataAddr \in [set : Set, word : Word] /\ flushAddr \in Set
      /\ burst \in Burst /\ skid \in [valid : BOOLEAN, data : Value]
  BY ConstantsTyped, DataAssumption DEF Init
<1>4. /\ state = "RESET" /\ replaceWay = 0 /\ pmemLen = 0
      /\ flushing = FALSE /\ flushLast = FALSE /\ pmemRd = FALSE /\ pmemWr0 = FALSE
      /\ error = FALSE
  BY DEF Init
<1>5. state \in State /\ replaceWay \in Way /\ pmemLen \in 0 .. 255
  BY <1>4 DEF State, Way
<1>6. /\ flushing \in BOOLEAN /\ flushLast \in BOOLEAN /\ pmemRd \in BOOLEAN
      /\ pmemWr0 \in BOOLEAN /\ error \in BOOLEAN
  BY <1>4
<1>7. QED
  BY <1>1, <1>2, <1>3, <1>5, <1>6 DEF TypeOK

(* Every register and RAM keeps the width the source declares, whatever    *)
(* the CPU side and the bus do.                                            *)
THEOREM TypeCorrect == Spec => []TypeOK
<1>1. TypeOK /\ [Next]_vars => TypeOK'
  <2>1. SUFFICES ASSUME TypeOK, [Next]_vars
                 PROVE  TypeOK'
    OBVIOUS
  <2>2. CASE Next
    <3>1. PICK in \in Requests : \E c \in BusInputs : Step(in, c)
      BY <2>2 DEF Next
    <3>2. PICK c \in BusInputs : Step(in, c)
      BY <3>1
    <3>3. in \in Request
      BY DataAssumption
    <3>4. QED
      BY <2>1, <3>2, <3>3, StepTyped
  <2>3. CASE UNCHANGED vars
    BY <2>1, <2>3 DEF vars, cacheVars, busVars, TypeOK
  <2>4. QED
    BY <2>1, <2>2, <2>3
<1>2. QED
  BY InitTyped, <1>1, PTL DEF Spec

---------------------------------------------------------------------------
(* Control.                                                                *)

(* In STATE_LOOKUP the buffer keeps a request that misses; otherwise it    *)
(* takes the input, or is emptied when a read must wait for a write.       *)
LEMMA BufferInLookup ==
  ASSUME NEW in, NEW c, Clock(in, c), state = "LOOKUP"
  PROVE  /\ Miss => m' = m
         /\ ~Miss => m' = in \/ (m'.op = "none" /\ in.op = "read")
BY DEF Clock, RequestBuffer, MemAccept, MemAck, NoRequest

(* Outside STATE_LOOKUP a step keeps the request, and only the end of a    *)
(* flush changes flushing_q.                                               *)
LEMMA OutsideLookup ==
  ASSUME NEW in, NEW c, Clock(in, c), state # "LOOKUP"
  PROVE  /\ m' = m
         /\ flushing' = (flushing /\ ~(state = "FLUSH" /\ state' = "LOOKUP"))
         /\ arch' = arch \/ state = "INVALIDATE"
BY DEF Clock, RequestBuffer, MemAccept, MemAck, FlushCounter, History

(* How the controller moves, without what it does to the RAMs.             *)
Moves(in, c) ==
  \/ state = "RESET" /\ state' = (IF flushLast THEN "LOOKUP" ELSE "RESET")
  \/ state = "FLUSH_ADDR" /\ state' = "FLUSH"
  \/ state = "FLUSH" /\ TagDirtyAny /\ state' = (IF EvictWay THEN "EVICT" ELSE "FLUSH")
  \/ state = "FLUSH" /\ ~TagDirtyAny /\ state' = (IF flushLast THEN "LOOKUP" ELSE "FLUSH_ADDR")
  \/ state = "LOOKUP" /\ Miss /\ state' = (IF EvictWay THEN "EVICT" ELSE "REFILL")
  \/ state = "LOOKUP" /\ ~Miss /\ state' = NextOnInput(in.op)
  \/ state = "REFILL" /\ ~(c.ack /\ PmemLast) /\ state' = "REFILL"
  \/ state = "REFILL" /\ c.ack /\ PmemLast
     /\ state' = (IF m.op = "write" THEN "WRITE" ELSE "READ")
  \/ state = "WRITE" /\ state' = "LOOKUP"
  \/ state = "READ" /\ state' = "LOOKUP"
  \/ state = "EVICT" /\ state' = (IF c.accept /\ PmemLast THEN "EVICT_WAIT" ELSE "EVICT")
  \/ state = "EVICT_WAIT" /\ ~c.ack /\ state' = "EVICT_WAIT"
  \/ state = "EVICT_WAIT" /\ c.ack
     /\ state' = (IF m.op = "writeback" THEN "LOOKUP"
                  ELSE IF flushing THEN "FLUSH_ADDR" ELSE "REFILL")
  \/ state = "WRITEBACK" /\ state' = (IF TagHitAndDirty THEN "EVICT" ELSE "LOOKUP")
  \/ state = "INVALIDATE" /\ state' = "LOOKUP"

(* Every step is such a move, one tick of the registers, and one access to *)
(* the tag RAMs.                                                           *)
LEMMA StepMoves ==
  ASSUME NEW in, NEW c, Step(in, c)
  PROVE  /\ Moves(in, c)
         /\ Clock(in, c)
         /\ tagOut' = tagRam'[TagReadSet(in)]
<1> USE DEF Moves, TagRams
<1>1. CASE ResetTags(in, c)
  BY <1>1, Zenon DEF ResetTags
<1>2. CASE FlushAddress(in, c)
  BY <1>2, Zenon DEF FlushAddress, KeepTags
<1>3. CASE FlushDirty(in, c)
  BY <1>3, Zenon DEF FlushDirty, KeepTags
<1>4. CASE FlushClean(in, c)
  BY <1>4, Zenon DEF FlushClean
<1>5. CASE LookupMiss(in, c)
  BY <1>5, Zenon DEF LookupMiss, KeepTags
<1>6. CASE LookupServe(in, c)
  BY <1>6, Zenon DEF LookupServe
<1>7. CASE Refill(in, c)
  <2>1. /\ state = "REFILL" /\ Clock(in, c) /\ tagOut' = tagRam'[TagReadSet(in)]
        /\ state' = IF ~(c.ack /\ PmemLast) THEN "REFILL"
                    ELSE IF m.op = "write" THEN "WRITE" ELSE "READ"
    BY <1>7, Zenon DEF Refill
  <2>2. QED
    BY <2>1, Zenon
<1>8. CASE WriteAfterRefill(in, c)
  BY <1>8, Zenon DEF WriteAfterRefill
<1>9. CASE ReadAfterRefill(in, c)
  BY <1>9, Zenon DEF ReadAfterRefill, KeepTags
<1>10. CASE Evict(in, c)
  BY <1>10, Zenon DEF Evict, KeepTags
<1>11. CASE EvictWait(in, c)
  <2>1. /\ state = "EVICT_WAIT" /\ Clock(in, c) /\ tagOut' = tagRam'[TagReadSet(in)]
        /\ state' = IF ~c.ack THEN "EVICT_WAIT"
                    ELSE IF m.op = "writeback" THEN "LOOKUP"
                    ELSE IF flushing THEN "FLUSH_ADDR"
                    ELSE "REFILL"
    BY <1>11, Zenon DEF EvictWait
  <2>2. QED
    BY <2>1, Zenon
<1>12. CASE Writeback(in, c)
  BY <1>12, Zenon DEF Writeback, KeepTags
<1>13. CASE Invalidate(in, c)
  BY <1>13, Zenon DEF Invalidate
<1>14. QED
  BY <1>1, <1>2, <1>3, <1>4, <1>5, <1>6, <1>7, <1>8, <1>9, <1>10, <1>11, <1>12, <1>13
     DEF Step

(* The wires of the bus and the operations are what they are. *)
LEMMA InputsTyped ==
  ASSUME TypeOK, NEW in \in Request, NEW c \in BusInputs
  PROVE  /\ c.accept \in BOOLEAN /\ c.ack \in BOOLEAN
         /\ flushing \in BOOLEAN /\ flushLast \in BOOLEAN
         /\ m.op \in Op /\ in.op \in Op
BY BusInputsTyped DEF TypeOK, BusInputType, Request

(* Which request each state works for is kept up by every step.            *)
LEMMA PhaseStep ==
  ASSUME ControlInv, NEW in \in Request, NEW c \in BusInputs, Step(in, c)
  PROVE  PhaseInv'
<1> USE DEF PhaseInv, Evicting
<1>1. Moves(in, c) /\ Clock(in, c)
  BY StepMoves
<1>2. TypeOK /\ PhaseInv
  BY DEF ControlInv
<1>3. CASE state # "LOOKUP"
  <2>1. m' = m /\ flushing' = (flushing /\ ~(state = "FLUSH" /\ state' = "LOOKUP"))
    BY <1>1, <1>3, OutsideLookup
  <2>2. QED
    BY <1>1, <1>2, <1>3, <2>1, InputsTyped DEF Moves
<1>4. CASE state = "LOOKUP"
  <2>1. flushing' = (state' = "FLUSH_ADDR")
    BY <1>1, <1>2, <1>4, InputsTyped DEF Clock, FlushCounter
  <2>2. CASE Miss
    BY <1>1, <1>4, <2>1, <2>2, BufferInLookup DEF Moves, Miss
  <2>3. CASE ~Miss
    BY <1>1, <1>2, <1>4, <2>1, <2>3, BufferInLookup, InputsTyped
       DEF Moves, NextOnInput, Op, NoRequest
  <2>4. QED
    BY <2>2, <2>3
<1>5. QED
  BY <1>3, <1>4

(* The state after STATE_LOOKUP without a miss. *)
LEMMA NextOnInputCases ==
  ASSUME NEW op \in Op
  PROVE  /\ NextOnInput(op) \in {"WRITEBACK", "FLUSH_ADDR", "INVALIDATE", "LOOKUP"}
         /\ NextOnInput(op) = "WRITEBACK" <=> op = "writeback"
         /\ NextOnInput(op) = "FLUSH_ADDR" <=> op = "flush"
         /\ NextOnInput(op) = "INVALIDATE" <=> op = "inval"
BY DEF NextOnInput, Op

(* The flush counter moves on only in STATE_RESET and between two sets of  *)
(* a flush, and is reset in STATE_LOOKUP.                                  *)
LEMMA FlushAddressHeld ==
  ASSUME NEW in, NEW c, Clock(in, c), state \notin {"RESET", "LOOKUP"},
         ~(state = "FLUSH" /\ state' = "FLUSH_ADDR")
  PROVE  flushAddr' = flushAddr
BY DEF Clock, FlushCounter

(* The decisions of the next cycle rest on the tags of the right set.      *)
LEMMA TagOutStep ==
  ASSUME ControlInv, NEW in \in Request, NEW c \in BusInputs, Step(in, c), PhaseInv'
  PROVE  TagOutInv'
<1>1. Moves(in, c) /\ Clock(in, c) /\ tagOut' = tagRam'[TagReadSet(in)]
  BY StepMoves
<1>2. TypeOK /\ PhaseInv
  BY DEF ControlInv
<1>3. (\/ state' \in {"READ", "WRITE", "REFILL", "WRITEBACK"}
       \/ state' = "LOOKUP" /\ m'.op \in {"read", "write"})
        => TagReadSet(in) = m'.set
  <2>1. CASE state # "LOOKUP"
    <3>1. m' = m
      BY <1>1, <2>1, OutsideLookup
    <3>2. QED
      BY <1>1, <1>2, <2>1, <3>1 DEF PhaseInv, Evicting, Moves, TagReadSet
  <2>2. CASE state = "LOOKUP" /\ Miss
    <3>1. m' = m /\ ~flushing
      BY <1>1, <1>2, <2>2, BufferInLookup DEF PhaseInv, Evicting
    <3>2. QED
      BY <1>1, <2>2, <3>1 DEF Moves, TagReadSet
  <2>3. CASE state = "LOOKUP" /\ ~Miss
    <3>1. m' = in \/ (m'.op = "none" /\ in.op = "read")
      BY <1>1, <2>3, BufferInLookup
    <3>2. state' = NextOnInput(in.op)
      BY <1>1, <2>3 DEF Moves
    <3>3. /\ state' \notin {"READ", "WRITE", "REFILL"}
          /\ state' = "WRITEBACK" => m' = in
      BY <1>2, <3>1, <3>2, InputsTyped, NextOnInputCases
    <3>4. QED
      BY <2>3, <3>1, <3>3 DEF TagReadSet
  <2>4. QED
    BY <2>1, <2>2, <2>3
<1>4. state' = "FLUSH" => TagReadSet(in) = flushAddr'
  BY <1>1, <1>2, FlushAddressHeld, InputsTyped
     DEF Moves, PhaseInv, TagReadSet, NextOnInput, Op
<1>5. Evicting' => TagReadSet(in) = EvictSet'
  <2>1. CASE state # "LOOKUP"
    <3>1. m' = m /\ flushing' = (flushing /\ ~(state = "FLUSH" /\ state' = "LOOKUP"))
      BY <1>1, <2>1, OutsideLookup
    <3>2. Evicting' => flushAddr' = flushAddr
      BY <1>1, <2>1, FlushAddressHeld DEF Moves, Evicting
    <3>3. Evicting' => flushing' = flushing
      BY <1>2, <3>1, InputsTyped DEF Evicting
    <3>4. QED
      BY <2>1, <3>1, <3>2, <3>3 DEF TagReadSet, EvictSet
  <2>2. CASE state = "LOOKUP"
    <3>1. Evicting' => m' = m /\ ~flushing /\ ~flushing'
      BY <1>1, <1>2, <2>2, BufferInLookup, InputsTyped
         DEF Moves, PhaseInv, Evicting, Clock, FlushCounter, NextOnInput, Op
    <3>2. QED
      BY <1>1, <2>2, <3>1 DEF TagReadSet, EvictSet, Evicting
  <2>3. QED
    BY <2>1, <2>2
<1>6. QED
  BY <1>1, <1>3, <1>4, <1>5 DEF TagOutInv

(* What the tag RAMs are written with in each state.                       *)
TagWays(c) ==
  IF state = "RESET" \/ (state = "FLUSH" /\ ~TagDirtyAny) THEN Way
  ELSE IF state = "LOOKUP" /\ ~Miss THEN WrittenWays
  ELSE IF \/ state = "REFILL" /\ c.ack /\ PmemLast
          \/ state = "WRITE"
          \/ state = "EVICT_WAIT" /\ c.ack
    THEN {replaceWay}
  ELSE IF state = "INVALIDATE" THEN HitWays
  ELSE {}

NewTag ==
  IF state \in {"RESET", "FLUSH"} \/ (state = "EVICT_WAIT" /\ flushing) THEN InvalidTag
  ELSE IF state \in {"LOOKUP", "WRITE"} THEN Dirty(m.tag)
  ELSE IF state \in {"REFILL", "EVICT_WAIT"} THEN Clean(m.tag)
  ELSE Invalid(m.tag)

(* A write to the tag RAMs changes the written ways of one set.            *)
LEMMA TagRamsEffect ==
  ASSUME TypeOK, NEW in, NEW ways, NEW entry, TagRams(in, ways, entry),
         NEW s \in Set, NEW w \in Way
  PROVE  tagRam'[s][w] = IF s = TagWriteSet /\ w \in ways THEN entry ELSE tagRam[s][w]
BY DEF TypeOK, TagRams

(* Every step writes the tag RAMs as its state says. *)
LEMMA TagStep ==
  ASSUME TypeOK, NEW in, NEW c, Step(in, c), NEW s \in Set, NEW w \in Way
  PROVE  tagRam'[s][w] =
           IF s = TagWriteSet /\ w \in TagWays(c) THEN NewTag ELSE tagRam[s][w]
<1>0. SUFFICES ASSUME NEW ways, NEW entry, TagRams(in, ways, entry),
                      (w \in ways) <=> (w \in TagWays(c)),
                      w \in ways => entry = NewTag
               PROVE  tagRam'[s][w] =
                        IF s = TagWriteSet /\ w \in ways THEN entry ELSE tagRam[s][w]
  <2> USE <1>0 DEF TagWays, NewTag
  <2>1. CASE ResetTags(in, c)
    BY <2>1 DEF ResetTags
  <2>2. CASE FlushAddress(in, c)
    BY <2>2 DEF FlushAddress, KeepTags
  <2>3. CASE FlushDirty(in, c)
    BY <2>3 DEF FlushDirty, KeepTags
  <2>4. CASE FlushClean(in, c)
    BY <2>4 DEF FlushClean
  <2>5. CASE LookupMiss(in, c)
    BY <2>5 DEF LookupMiss, KeepTags
  <2>6. CASE LookupServe(in, c)
    BY <2>6 DEF LookupServe
  <2>7. CASE Refill(in, c)
    BY <2>7 DEF Refill
  <2>8. CASE WriteAfterRefill(in, c)
    BY <2>8 DEF WriteAfterRefill
  <2>9. CASE ReadAfterRefill(in, c)
    BY <2>9 DEF ReadAfterRefill, KeepTags
  <2>10. CASE Evict(in, c)
    BY <2>10 DEF Evict, KeepTags
  <2>11. CASE EvictWait(in, c)
    BY <2>11 DEF EvictWait
  <2>12. CASE Writeback(in, c)
    BY <2>12 DEF Writeback, KeepTags
  <2>13. CASE Invalidate(in, c)
    BY <2>13 DEF Invalidate
  <2>14. QED
    BY <2>1, <2>2, <2>3, <2>4, <2>5, <2>6, <2>7, <2>8, <2>9, <2>10, <2>11, <2>12,
       <2>13 DEF Step
<1>1. QED
  BY <1>0, TagRamsEffect

(* The tags at the RAM outputs after a step are those of the set it read,  *)
(* as written by the step.                                                 *)
LEMMA TagOutEffect ==
  ASSUME TypeOK, NEW in \in Request, NEW c, Step(in, c), NEW w \in Way
  PROVE  /\ TagReadSet(in) \in Set
         /\ tagOut'[w] = IF TagReadSet(in) = TagWriteSet /\ w \in TagWays(c)
                           THEN NewTag ELSE tagRam[TagReadSet(in)][w]
<1>1. TagReadSet(in) \in Set
  BY ReadAddressesTyped
<1>2. tagOut'[w] = tagRam'[TagReadSet(in)][w]
  BY StepMoves
<1>3. QED
  BY <1>1, <1>2, TagStep

(* The move to STATE_EVICT, and every move until the victim is saved,      *)
(* keeps the tags the decision was made on.                                *)
LEMMA TagsHeldForEviction ==
  ASSUME ControlInv, NEW in \in Request, NEW c \in BusInputs, Step(in, c), Evicting',
         NEW w \in Way
  PROVE  /\ state \in {"FLUSH", "LOOKUP", "WRITEBACK", "EVICT", "EVICT_WAIT"}
         /\ state = "LOOKUP" => Miss
         /\ tagOut'[w] = tagOut[w] /\ m' = m /\ flushing' = flushing
<1>1. Moves(in, c) /\ Clock(in, c)
  BY StepMoves
<1>2. TypeOK /\ PhaseInv /\ TagOutInv
  BY DEF ControlInv
<1>3. /\ \/ state = "FLUSH" /\ TagDirtyAny
         \/ state = "LOOKUP" /\ Miss
         \/ state = "WRITEBACK"
         \/ state = "EVICT"
         \/ state = "EVICT_WAIT" /\ ~c.ack
      /\ state' \in {"EVICT", "EVICT_WAIT"}
  <2>1. state = "LOOKUP" /\ ~Miss => state' = NextOnInput(in.op)
    BY <1>1 DEF Moves
  <2>2. QED
    BY <1>1, <1>2, <2>1, NextOnInputCases, InputsTyped DEF Moves, Evicting
<1>4. m' = m /\ flushing' = flushing
  <2>1. CASE state = "LOOKUP"
    BY <1>1, <1>2, <1>3, <2>1, BufferInLookup, InputsTyped
       DEF Clock, FlushCounter, PhaseInv, Evicting
  <2>2. CASE state # "LOOKUP"
    BY <1>1, <1>2, <1>3, <2>2, OutsideLookup, InputsTyped
  <2>3. QED
    BY <2>1, <2>2
<1>5. w \notin TagWays(c)
  BY <1>3 DEF TagWays
<1>6. tagOut = tagRam[TagReadSet(in)]
  BY <1>2, <1>3 DEF TagReadSet, TagOutInv, PhaseInv, Evicting, EvictSet, Miss
<1>7. QED
  BY <1>2, <1>3, <1>4, <1>5, <1>6, TagOutEffect

(* Where the tag outputs are those of the request's set, at most one way   *)
(* hits.                                                                   *)
LEMMA OneHit ==
  ASSUME TypeOK, OneCopyPerLine, state # "RESET", tagOut = tagRam[m.set]
  PROVE  ~(TagHit(0) /\ TagHit(1))
BY DEF TypeOK, OneCopyPerLine, Caches, TagHit, Request

(* How a refill begins, goes on and ends: always for the request's set,    *)
(* into the way chosen when it missed.                                     *)
LEMMA ToRefill ==
  ASSUME ControlInv, NEW in \in Request, NEW c \in BusInputs, Step(in, c),
         state' \in {"REFILL", "READ", "WRITE"}
  PROVE  /\ \/ state = "LOOKUP" /\ Miss /\ ~EvictWay /\ state' = "REFILL"
            \/ state = "REFILL" /\ ~(c.ack /\ PmemLast) /\ state' = "REFILL"
            \/ state = "REFILL" /\ c.ack /\ PmemLast /\ state' \in {"READ", "WRITE"}
            \/ state = "EVICT_WAIT" /\ c.ack /\ ~flushing /\ state' = "REFILL"
               /\ m.op \in {"read", "write"}
         /\ m' = m /\ replaceWay' = replaceWay /\ 1 - replaceWay \in Way /\ ~flushing
         /\ TagReadSet(in) = m.set /\ TagWriteSet = m.set
         /\ tagOut = tagRam[m.set]
<1>1. Moves(in, c) /\ Clock(in, c)
  BY StepMoves
<1>2. TypeOK /\ PhaseInv /\ TagOutInv /\ VictimInv /\ OneCopyPerLine
  BY DEF ControlInv
<1>3. replaceWay \in Way
  BY <1>2 DEF TypeOK
<1>4. \/ state = "LOOKUP" /\ Miss /\ ~EvictWay /\ state' = "REFILL"
      \/ state = "REFILL" /\ ~(c.ack /\ PmemLast) /\ state' = "REFILL"
      \/ state = "REFILL" /\ c.ack /\ PmemLast /\ state' \in {"READ", "WRITE"}
      \/ state = "EVICT_WAIT" /\ c.ack /\ ~flushing /\ state' = "REFILL"
         /\ m.op \in {"read", "write"}
  <2>1. ~(state = "LOOKUP" /\ ~Miss)
    BY <1>1, <1>2, NextOnInputCases, InputsTyped DEF Moves
  <2>2. QED
    BY <1>1, <1>2, <2>1, InputsTyped DEF Moves, PhaseInv, Evicting
<1>5. ~flushing
  BY <1>2, <1>4 DEF PhaseInv, Evicting
<1>6. m' = m
  BY <1>1, <1>4, BufferInLookup, OutsideLookup
<1>7. replaceWay' = replaceWay
  BY <1>1, <1>4, <1>5 DEF Clock, ReplacementPolicy, SkipWay
<1>8. TagReadSet(in) = m.set /\ TagWriteSet = m.set /\ tagOut = tagRam[m.set]
  BY <1>2, <1>4, <1>5 DEF TagReadSet, TagWriteSet, TagOutInv, EvictSet, Evicting, Miss
<1>9. QED
  BY <1>3, <1>4, <1>5, <1>6, <1>7, <1>8 DEF Way

(* The victim stays dirty and in place while it is saved; the way a refill *)
(* fills is clean and the other way does not hold the line.                *)
LEMMA VictimStep ==
  ASSUME ControlInv, NEW in \in Request, NEW c \in BusInputs, Step(in, c)
  PROVE  VictimInv'
<1>1. Moves(in, c) /\ Clock(in, c)
  BY StepMoves
<1>2. TypeOK /\ PhaseInv /\ TagOutInv /\ VictimInv /\ OneCopyPerLine
  BY DEF ControlInv
<1>3. replaceWay \in Way
  BY <1>2 DEF TypeOK
<1>5. Evicting' => /\ TagDirty(replaceWay)'
                   /\ m'.op = "writeback" => TagHit(replaceWay)'
                   /\ m'.op \in {"read", "write"} => ~TagHitAny'
  <2> SUFFICES ASSUME Evicting'
               PROVE  /\ TagDirty(replaceWay)'
                      /\ m'.op = "writeback" => TagHit(replaceWay)'
                      /\ m'.op \in {"read", "write"} => ~TagHitAny'
    OBVIOUS
  <2>1. /\ state \in {"FLUSH", "LOOKUP", "WRITEBACK", "EVICT", "EVICT_WAIT"}
        /\ state = "LOOKUP" => Miss
        /\ m' = m /\ flushing' = flushing
        /\ \A w \in Way : tagOut'[w] = tagOut[w]
    <3>1. 0 \in Way
      BY DEF Way
    <3>2. QED
      BY <3>1, TagsHeldForEviction
  <2>2. CASE state = "WRITEBACK"
    <3>1. TagHitAndDirty
      BY <1>1, <2>2 DEF Moves, Evicting
    <3>2. ~(TagHit(0) /\ TagHit(1))
      BY <1>2, <2>2, OneHit DEF TagOutInv
    <3>3. m.op = "writeback" /\ ~flushing
      BY <1>2, <2>2 DEF PhaseInv, Evicting
    <3>4. replaceWay' = WritebackWay
      BY <1>1, <2>2, <3>3 DEF Clock, ReplacementPolicy, SkipWay
    <3>5. /\ WritebackWay \in Way
          /\ TagHit(WritebackWay) /\ tagOut[WritebackWay].dirty
      BY <3>1, <3>2 DEF TagHitAndDirty, WritebackWay, Way
    <3>6. QED
      BY <2>1, <3>3, <3>4, <3>5 DEF TagDirty, TagHit
  <2>3. CASE state # "WRITEBACK"
    <3>1. /\ TagDirty(replaceWay)
          /\ m.op = "writeback" => TagHit(replaceWay)
          /\ m.op \in {"read", "write"} => ~TagHitAny
      <4>1. CASE state = "FLUSH"
        BY <1>1, <1>2, <4>1 DEF Moves, Evicting, EvictWay, PhaseInv
      <4>2. CASE state = "LOOKUP"
        BY <1>1, <2>1, <4>2 DEF Moves, Evicting, EvictWay, Miss
      <4>3. CASE state \in {"EVICT", "EVICT_WAIT"}
        BY <1>2, <4>3 DEF VictimInv, Evicting
      <4>4. QED
        BY <2>1, <2>3, <4>1, <4>2, <4>3
    <3>2. ~SkipWay
      BY <3>1 DEF SkipWay, EvictWay
    <3>3. replaceWay' = replaceWay
      BY <1>1, <2>1, <2>3, <3>2 DEF Clock, ReplacementPolicy, Evicting
    <3>4. QED
      BY <1>3, <2>1, <3>1, <3>3 DEF TagDirty, TagHit, TagHitAny
  <2>4. QED
    BY <2>2, <2>3
<1>7. state' = "REFILL" => ~TagDirty(replaceWay)' /\ ~TagHit(1 - replaceWay)'
  <2> SUFFICES ASSUME state' = "REFILL"
               PROVE  ~TagDirty(replaceWay)' /\ ~TagHit(1 - replaceWay)'
    OBVIOUS
  <2>1. CASE state \in {"LOOKUP", "REFILL"}
    <3>1. TagWays(c) = {}
      BY ToRefill, <2>1 DEF TagWays
    <3>2. \A w \in Way : tagOut'[w] = tagOut[w]
      BY <1>2, ToRefill, <3>1, TagOutEffect
    <3>3. ~TagDirty(replaceWay) /\ ~TagHit(1 - replaceWay)
      BY <1>2, <1>3, ToRefill, <2>1 DEF VictimInv, EvictWay, Miss, TagHitAny
    <3>4. QED
      BY <1>3, ToRefill, <3>2, <3>3 DEF TagDirty, TagHit
  <2>2. CASE state = "EVICT_WAIT"
    <3>1. TagWays(c) = {replaceWay} /\ NewTag = Clean(m.tag)
      BY ToRefill, <2>2 DEF TagWays, NewTag
    <3>2. tagOut'[replaceWay] = Clean(m.tag)
      BY <1>2, <1>3, ToRefill, <3>1, TagOutEffect
    <3>3. 1 - replaceWay # replaceWay
      BY <1>3 DEF Way
    <3>4. tagOut'[1 - replaceWay] = tagOut[1 - replaceWay]
      BY <1>2, <1>3, ToRefill, <3>1, <3>3, TagOutEffect
    <3>5. ~TagHit(1 - replaceWay)
      BY <1>2, ToRefill, <2>2 DEF VictimInv, Evicting, TagHitAny
    <3>6. QED
      BY ToRefill, <3>2, <3>4, <3>5 DEF TagDirty, TagHit, Clean
  <2>3. QED
    BY ToRefill, <2>1, <2>2
<1>8. state' \in {"READ", "WRITE"} => TagHit(replaceWay)'
  <2> SUFFICES ASSUME state' \in {"READ", "WRITE"}
               PROVE  TagHit(replaceWay)'
    OBVIOUS
  <2>1. TagWays(c) = {replaceWay} /\ NewTag = Clean(m.tag)
    BY ToRefill DEF TagWays, NewTag
  <2>2. tagOut'[replaceWay] = Clean(m.tag)
    BY <1>2, <1>3, ToRefill, <2>1, TagOutEffect
  <2>3. QED
    BY ToRefill, <2>2 DEF TagHit, Clean
<1>9. QED
  BY <1>5, <1>7, <1>8 DEF VictimInv

(* A tag write never gives a line a second copy.                           *)
LEMMA OneCopyStep ==
  ASSUME ControlInv, NEW in \in Request, NEW c \in BusInputs, Step(in, c)
  PROVE  OneCopyPerLine'
<1>1. Moves(in, c) /\ Clock(in, c)
  BY StepMoves
<1>2. TypeOK /\ PhaseInv /\ TagOutInv /\ VictimInv /\ OneCopyPerLine /\ FlushInv
  BY DEF ControlInv
<1>3. TagWriteSet \in Set /\ replaceWay \in Way /\ m.set \in Set
  BY <1>2, ReadAddressesTyped DEF TypeOK, Request
<1>4. SUFFICES ASSUME state' # "RESET", NEW s \in Set, NEW t \in Tag
               PROVE  ~(Caches(s, 0, t)' /\ Caches(s, 1, t)')
  BY DEF OneCopyPerLine
<1>5. \A w \in Way : tagRam'[s][w] =
         IF s = TagWriteSet /\ w \in TagWays(c) THEN NewTag ELSE tagRam[s][w]
  BY <1>2, TagStep
<1>6. CASE state = "RESET"
  <2>1. flushLast
    BY <1>1, <1>4, <1>6 DEF Moves
  <2>2. \A w \in Way : ~tagRam[s][w].valid
    BY <1>2, <1>6, <2>1 DEF FlushInv, Cleared
  <2>3. ~NewTag.valid
    BY <1>6 DEF NewTag, InvalidTag
  <2>4. QED
    BY <1>5, <2>2, <2>3 DEF Caches, Way
<1>7. CASE state # "RESET"
  <2>1. ~(Caches(s, 0, t) /\ Caches(s, 1, t))
    BY <1>2, <1>7 DEF OneCopyPerLine
  <2>2. CASE s # TagWriteSet \/ TagWays(c) = {} \/ ~NewTag.valid
    BY <1>5, <2>1, <2>2 DEF Caches, Way
  <2>3. CASE s = TagWriteSet /\ TagWays(c) # {} /\ NewTag.valid
    <3>1. /\ \/ state = "LOOKUP" /\ m.op = "write" /\ ~Miss /\ TagWays(c) = HitWays
             \/ state = "REFILL" /\ TagWays(c) = {replaceWay}
             \/ state = "WRITE" /\ TagWays(c) = {replaceWay}
             \/ state = "EVICT_WAIT" /\ ~flushing /\ TagWays(c) = {replaceWay}
          /\ NewTag.tag = m.tag
      BY <1>2, <2>3
         DEF TagWays, NewTag, InvalidTag, Invalid, Clean, Dirty, WrittenWays, PhaseInv,
             Evicting
    <3>2. s = m.set /\ tagOut = tagRam[s]
      BY <1>2, <2>3, <3>1
         DEF TagWriteSet, TagOutInv, PhaseInv, Evicting, EvictSet
    <3>3. CASE TagWays(c) = {replaceWay} /\ ~TagHit(1 - replaceWay)
      BY <1>3, <1>5, <2>1, <3>1, <3>2, <3>3 DEF Caches, TagHit, Way
    <3>4. CASE \A w \in TagWays(c) : TagHit(w)
      BY <1>3, <1>5, <2>1, <3>1, <3>2, <3>4 DEF Caches, TagHit, Way
    <3>5. QED
      <4>1. state = "LOOKUP" => \A w \in TagWays(c) : TagHit(w)
        BY <3>1 DEF HitWays
      <4>2. state \in {"REFILL", "WRITE", "EVICT_WAIT"} =>
              TagHit(replaceWay) \/ ~TagHit(1 - replaceWay)
        BY <1>2, <1>3, <3>1 DEF VictimInv, PhaseInv, Evicting, TagHitAny, Way
      <4>3. QED
        BY <3>1, <3>3, <3>4, <4>1, <4>2
  <2>4. QED
    BY <2>2, <2>3
<1>8. QED
  BY <1>6, <1>7

(* A set once cleared stays so while tags are only cleared; a step that    *)
(* clears does it for the set the flush counter stands at.                 *)
LEMMA ClearedStep ==
  ASSUME TypeOK, NEW in, NEW c, Step(in, c), NEW s \in Set
  PROVE  /\ Cleared(s) /\ (TagWays(c) = {} \/ ~NewTag.valid) => Cleared(s)'
         /\ s = TagWriteSet /\ TagWays(c) = Way /\ ~NewTag.valid => Cleared(s)'
BY TagStep DEF Cleared

(* The flush counter keeps the cleared sets apart from the others.         *)
LEMMA FlushStep ==
  ASSUME ControlInv, NEW in \in Request, NEW c \in BusInputs, Step(in, c), PhaseInv'
  PROVE  FlushInv'
<1>1. Moves(in, c) /\ Clock(in, c)
  BY StepMoves
<1>2. TypeOK /\ PhaseInv /\ FlushInv
  BY DEF ControlInv
<1>3. flushAddr \in Set /\ flushLast \in BOOLEAN /\ flushing \in BOOLEAN
  BY <1>2 DEF TypeOK
<1>4. state' = "RESET" => \A s \in Set : s < flushAddr' \/ flushLast' => Cleared(s)'
  <2> SUFFICES ASSUME state' = "RESET", NEW s \in Set, s < flushAddr' \/ flushLast'
               PROVE  Cleared(s)'
    OBVIOUS
  <2>1. state = "RESET"
    BY <1>1, <1>2, InputsTyped, NextOnInputCases DEF Moves
  <2>2. /\ flushAddr' = NextSet(flushAddr)
        /\ flushLast' = (flushLast \/ LastSet)
        /\ TagWriteSet = flushAddr /\ TagWays(c) = Way /\ ~NewTag.valid
    BY <1>1, <2>1 DEF Clock, FlushCounter, TagWriteSet, TagWays, NewTag, InvalidTag
  <2>3. s < flushAddr \/ flushLast \/ s = flushAddr
    BY <1>3, <2>2, SizeAssumption DEF NextSet, LastSet, Set
  <2>4. QED
    BY <1>2, <2>1, <2>2, <2>3, ClearedStep DEF FlushInv
<1>5. flushing' => /\ \A s \in Set : s < flushAddr' => Cleared(s)'
                   /\ flushLast' => flushAddr' = NumSets - 1
                   /\ state' # "FLUSH_ADDR" => (flushAddr' = NumSets - 1 => flushLast')
  <2> SUFFICES ASSUME flushing'
               PROVE  /\ \A s \in Set : s < flushAddr' => Cleared(s)'
                      /\ flushLast' => flushAddr' = NumSets - 1
                      /\ state' # "FLUSH_ADDR" => (flushAddr' = NumSets - 1 => flushLast')
    OBVIOUS
  <2>1. CASE state = "LOOKUP"
    <3>1. state' = "FLUSH_ADDR" /\ flushAddr' = 0 /\ flushLast' = FALSE
      BY <1>1, <1>2, <2>1 DEF Clock, FlushCounter, PhaseInv, Evicting
    <3>2. QED
      BY <3>1 DEF Set
  <2>2. CASE state # "LOOKUP"
    <3>1. flushing /\ flushLast' = (flushLast \/ LastSet)
      BY <1>1, <1>3, <2>2, OutsideLookup DEF Clock, FlushCounter
    <3>2. state \in {"FLUSH_ADDR", "FLUSH", "EVICT", "EVICT_WAIT"}
      BY <1>2, <3>1 DEF PhaseInv, Evicting
    <3>3. TagWriteSet = flushAddr /\ (TagWays(c) = {} \/ ~NewTag.valid)
      BY <3>1, <3>2 DEF TagWriteSet, TagWays, NewTag, InvalidTag
    <3>4. CASE state = "FLUSH" /\ state' = "FLUSH_ADDR"
      <4>1. ~TagDirtyAny /\ ~flushLast
        BY <1>1, <3>4 DEF Moves
      <4>2. flushAddr # NumSets - 1
        BY <1>2, <3>1, <3>4, <4>1 DEF FlushInv
      <4>3. flushAddr' = flushAddr + 1 /\ flushLast' = FALSE
        BY <1>1, <3>1, <3>4, <4>1, <4>2 DEF Clock, FlushCounter, NextSet, LastSet
      <4>4. TagWays(c) = Way /\ ~NewTag.valid
        BY <3>4, <4>1 DEF TagWays, NewTag, InvalidTag
      <4>5. ASSUME NEW s \in Set, s < flushAddr' PROVE Cleared(s)'
        <5>1. s < flushAddr \/ s = flushAddr
          BY <1>3, <4>3, <4>5 DEF Set
        <5>2. QED
          BY <1>2, <3>1, <3>3, <4>4, <5>1, ClearedStep DEF FlushInv
      <4>6. QED
        BY <3>4, <4>3, <4>5
    <3>5. CASE ~(state = "FLUSH" /\ state' = "FLUSH_ADDR")
      <4>1. flushAddr' = flushAddr
        BY <1>1, <2>2, <3>2, <3>5, FlushAddressHeld
      <4>2. \A s \in Set : s < flushAddr' => Cleared(s)'
        BY <1>2, <3>1, <3>3, <4>1, ClearedStep DEF FlushInv
      <4>3. flushLast' => flushAddr' = NumSets - 1
        BY <1>2, <3>1, <4>1 DEF FlushInv, LastSet
      <4>4. flushAddr' = NumSets - 1 => flushLast'
        BY <3>1, <4>1 DEF LastSet
      <4>5. QED
        BY <4>2, <4>3, <4>4
    <3>6. QED
      BY <3>4, <3>5
  <2>3. QED
    BY <2>1, <2>2
<1>6. state' = "LOOKUP" /\ m'.op = "flush" => \A s \in Set : Cleared(s)'
  <2> SUFFICES ASSUME state' = "LOOKUP", m'.op = "flush", NEW s \in Set
               PROVE  Cleared(s)'
    OBVIOUS
  <2>1. state = "FLUSH" /\ ~TagDirtyAny /\ flushLast
    <3>1. CASE state = "LOOKUP"
      BY <1>1, <1>2, <3>1, BufferInLookup, InputsTyped, NextOnInputCases DEF Moves, Miss
    <3>2. CASE state # "LOOKUP"
      BY <1>1, <1>2, <3>2, OutsideLookup DEF Moves, PhaseInv, Evicting
    <3>3. QED
      BY <3>1, <3>2
  <2>2. flushing /\ flushAddr = NumSets - 1
    BY <1>2, <2>1 DEF PhaseInv, FlushInv
  <2>3. TagWriteSet = flushAddr /\ TagWays(c) = Way /\ ~NewTag.valid
    BY <2>1, <2>2 DEF TagWriteSet, TagWays, NewTag, InvalidTag
  <2>4. s < flushAddr \/ s = flushAddr
    BY <2>2, SizeAssumption DEF Set
  <2>5. QED
    BY <1>2, <2>2, <2>3, <2>4, ClearedStep DEF FlushInv
<1>7. QED
  BY <1>4, <1>5, <1>6 DEF FlushInv

(* A bus answers only a burst. *)
LEMMA AckToBurst ==
  ASSUME TypeOK, NEW c \in BusInputs
  PROVE  /\ c.ack => burst.op \in {"read", "respond"}
         /\ c.accept \in BOOLEAN /\ c.ack \in BOOLEAN
BY BusInputsTyped DEF BusInputs, BusInputType

(* A refill whose burst is offered to the bus, or has just been taken.     *)
LEMMA ReadOffered ==
  ASSUME state' = "REFILL", ~skid'.valid, ~pmemWr0', NEW taken \in BOOLEAN,
         pmemRd' = ~taken,
         taken => burst'.op = "read" /\ burst'.beat = 0 /\ pmemLen' = LineWords - 1,
         ~taken => burst' = NoBurst
  PROVE  BurstInv'
<1>1. CASE taken
  <2>1. pmemLen' = LineWords - 1 - burst'.beat
    BY <1>1, SizeAssumption
  <2>2. QED
    BY <1>1, <2>1 DEF BurstInv, BusInStep
<1>2. CASE ~taken
  <2>1. burst' = NoBurst /\ pmemRd'
    BY <1>2
  <2>2. QED
    BY <2>1 DEF BurstInv, BusInStep, NoBurst
<1>3. QED
  BY <1>1, <1>2

(* The controller and the bus stay in step. *)
LEMMA BurstStep ==
  ASSUME ControlInv, NEW in \in Request, NEW c \in BusInputs, Step(in, c),
         PhaseInv', VictimInv'
  PROVE  BurstInv'
<1>1. Moves(in, c) /\ PmemRegisters(c) /\ Bus(c)
  BY StepMoves DEF Clock
<1>2. TypeOK /\ PhaseInv /\ BurstInv
  BY DEF ControlInv
<1>3. /\ LineWords \in 2 .. 256 /\ burst.beat \in 0 .. LineWords - 1 /\ pmemLen \in 0 .. 255
      /\ pmemRd \in BOOLEAN /\ pmemWr0 \in BOOLEAN /\ skid.valid \in BOOLEAN
  BY <1>2, SizeAssumption DEF TypeOK, Burst, Word
<1>4. state' = "EVICT" => PmemWr'
  BY DEF PhaseInv, VictimInv, Evicting, PmemWr, EvictWay
<1>5. CASE state \notin {"EVICT", "EVICT_WAIT", "REFILL"}
  <2>1. burst = NoBurst /\ ~pmemRd /\ ~PmemWr /\ ~pmemWr0 /\ ~c.ack /\ ~skid.valid
    BY <1>2, <1>5, AckToBurst DEF BurstInv, BusInStep, PmemWr
  <2>2. state' # "EVICT_WAIT"
    BY <1>1, <1>2, <1>5, NextOnInputCases, InputsTyped DEF Moves
  <2>3. ~skid'.valid
    BY <1>1, <2>1 DEF PmemRegisters
  <2>4. CASE state' = "REFILL"
    <3>1. PmemRd /\ ~Entering("EVICT")
      BY <1>5, <2>4 DEF PmemRd, Entering
    <3>2. /\ pmemRd' = ~c.accept /\ ~pmemWr0'
          /\ c.accept => pmemLen' = LineWords - 1
      BY <1>1, <2>1, <3>1, <1>2, AckToBurst DEF PmemRegisters
    <3>3. /\ c.accept => burst'.op = "read" /\ burst'.beat = 0
          /\ ~c.accept => burst' = NoBurst
      BY <1>1, <2>1, <3>1 DEF Bus, BurstAfter
    <3>4. QED
      BY <1>2, <2>3, <2>4, <3>2, <3>3, AckToBurst, ReadOffered
  <2>5. CASE state' = "EVICT"
    <3>1. Entering("EVICT") /\ ~PmemRd
      BY <1>5, <2>1, <2>5 DEF PmemRd, Entering
    <3>2. ~pmemRd' /\ pmemWr0' = TRUE /\ pmemLen' = LineWords - 1
      BY <1>1, <2>1, <3>1 DEF PmemRegisters
    <3>3. burst' = NoBurst
      BY <1>1, <2>1, <3>1 DEF Bus, BurstAfter
    <3>4. QED
      BY <1>3, <1>4, <2>5, <3>2, <3>3 DEF BurstInv, BusInStep, NoBurst
  <2>6. CASE state' \notin {"REFILL", "EVICT"}
    BY <1>1, <1>3, <1>5, <2>1, <2>2, <2>3, <2>6
       DEF BurstInv, BusInStep, PmemRegisters, Bus, BurstAfter, PmemRd, Entering, NoBurst
  <2>7. QED
    BY <2>4, <2>5, <2>6
<1>6. CASE state = "EVICT"
  <2>1. /\ PmemWr /\ ~pmemRd /\ ~PmemRd /\ ~c.ack /\ FirstBeat = pmemWr0
        /\ burst.op = (IF pmemWr0 THEN "idle" ELSE "write")
        /\ pmemWr0 => burst = NoBurst
        /\ pmemLen = LineWords - 1 - burst.beat
    BY <1>1, <1>2, <1>3, <1>6, AckToBurst
       DEF BurstInv, BusInStep, PmemRd, Entering, FirstBeat, Moves
  <2>2. WriteBeat.beat = burst.beat /\ WriteBeat.op = "write"
    BY <2>1 DEF WriteBeat, NoBurst
  <2>3. CASE c.accept
    <3>1. /\ ~pmemRd' /\ ~pmemWr0' /\ ~skid'.valid
          /\ pmemLen' = (pmemLen - 1) % 256
      BY <1>1, <1>6, <2>1, <2>3 DEF PmemRegisters, Entering, BeatDone
    <3>2. burst' = IF burst.beat < LineWords - 1
                     THEN [WriteBeat EXCEPT !.beat = @ + 1]
                     ELSE [WriteBeat EXCEPT !.op = "respond"]
      BY <1>1, <2>1, <2>2, <2>3 DEF Bus
    <3>3. WriteBeat \in Burst
      BY <1>2, WriteBeatTyped
    <3>4. CASE PmemLast
      <4>1. state' = "EVICT_WAIT" /\ burst.beat = LineWords - 1
        BY <1>1, <1>3, <1>6, <2>1, <2>3, <3>4 DEF Moves, PmemLast
      <4>2. burst'.op = "respond"
        BY <1>3, <3>2, <3>3, <4>1 DEF Burst
      <4>3. QED
        BY <3>1, <4>1, <4>2 DEF BurstInv, BusInStep
    <3>5. CASE ~PmemLast
      <4>1. state' = "EVICT" /\ burst.beat < LineWords - 1
        BY <1>1, <1>3, <1>6, <2>1, <2>3, <3>5 DEF Moves, PmemLast
      <4>2. burst'.op = "write" /\ burst'.beat = burst.beat + 1
        BY <1>3, <2>2, <3>2, <3>3, <4>1 DEF Burst
      <4>3. pmemLen' = LineWords - 1 - burst'.beat
        BY <1>3, <2>1, <3>1, <4>1, <4>2
      <4>4. QED
        BY <1>4, <3>1, <4>1, <4>2, <4>3 DEF BurstInv, BusInStep
    <3>6. QED
      BY <3>4, <3>5
  <2>4. CASE ~c.accept
    <3>1. burst' = burst /\ pmemWr0' = pmemWr0 /\ pmemLen' = pmemLen /\ ~pmemRd'
      BY <1>1, <1>3, <1>6, <2>1, <2>4 DEF PmemRegisters, Bus, BurstAfter, Entering, BeatDone
    <3>2. state' = "EVICT"
      BY <1>1, <1>6, <2>4 DEF Moves
    <3>3. QED
      BY <1>2, <1>4, <1>6, <2>1, <3>1, <3>2 DEF BurstInv, BusInStep
  <2>5. QED
    BY <2>3, <2>4, AckToBurst, <1>2
<1>7. CASE state = "EVICT_WAIT"
  <2>1. /\ burst.op = "respond" /\ ~pmemRd /\ ~PmemWr /\ ~skid.valid /\ ~pmemWr0
    BY <1>2, <1>7 DEF BurstInv, BusInStep, PmemWr
  <2>2. ~skid'.valid
    BY <1>1, <2>1 DEF PmemRegisters
  <2>3. state' # "EVICT" /\ ~Entering("EVICT")
    BY <1>1, <1>7 DEF Moves, Entering
  <2>4. CASE state' = "REFILL"
    <3>1. PmemRd /\ c.ack
      BY <1>1, <1>2, <1>7, <2>4, AckToBurst DEF PmemRd, Entering, Moves
    <3>2. /\ pmemRd' = ~c.accept /\ ~pmemWr0'
          /\ c.accept => pmemLen' = LineWords - 1
      BY <1>1, <2>1, <2>3, <3>1, <1>2, AckToBurst DEF PmemRegisters
    <3>3. /\ c.accept => burst'.op = "read" /\ burst'.beat = 0
          /\ ~c.accept => burst' = NoBurst
      BY <1>1, <2>1, <3>1 DEF Bus, BurstAfter
    <3>4. QED
      BY <1>2, <2>2, <2>4, <3>2, <3>3, AckToBurst, ReadOffered
  <2>5. CASE state' # "REFILL"
    <3>1. ~PmemRd
      BY <2>1, <2>5 DEF PmemRd, Entering
    <3>2. ~pmemRd' /\ ~pmemWr0'
      BY <1>1, <2>1, <2>3, <3>1 DEF PmemRegisters
    <3>3. burst' = IF c.ack THEN NoBurst ELSE burst
      BY <1>1, <2>1, <3>1 DEF Bus, BurstAfter
    <3>4. IF c.ack THEN state' \in {"LOOKUP", "FLUSH_ADDR"} ELSE state' = "EVICT_WAIT"
      BY <1>1, <1>7, <2>5 DEF Moves
    <3>5. QED
      BY <2>1, <2>2, <2>5, <3>2, <3>3, <3>4 DEF BurstInv, BusInStep, NoBurst
  <2>6. QED
    BY <2>4, <2>5
<1>8. CASE state = "REFILL"
  <2>1. /\ ~skid.valid /\ ~PmemWr /\ PmemRd = pmemRd /\ ~pmemWr0
        /\ IF pmemRd THEN burst = NoBurst
           ELSE burst.op = "read" /\ pmemLen = LineWords - 1 - burst.beat
    BY <1>2, <1>3, <1>8 DEF BurstInv, BusInStep, PmemWr, PmemRd, Entering
  <2>2. state' \in {"REFILL", "READ", "WRITE"} /\ ~Entering("EVICT")
    BY <1>1, <1>8 DEF Moves, Entering
  <2>3. /\ ~skid'.valid /\ ~pmemWr0' /\ pmemRd' = (pmemRd /\ ~c.accept)
        /\ pmemLen' = IF pmemRd /\ c.accept THEN LineWords - 1
                      ELSE IF c.ack THEN (pmemLen - 1) % 256 ELSE pmemLen
    BY <1>1, <1>8, <2>1, <2>2 DEF PmemRegisters, BeatDone
  <2>4. CASE pmemRd
    <3>1. ~c.ack
      BY <1>2, <2>1, <2>4, AckToBurst DEF NoBurst
    <3>2. state' = "REFILL"
      BY <1>1, <1>8, <3>1 DEF Moves
    <3>3. /\ c.accept => burst'.op = "read" /\ burst'.beat = 0
          /\ ~c.accept => burst' = NoBurst
      BY <1>1, <2>1, <2>4, <3>1 DEF Bus, BurstAfter
    <3>4. QED
      BY <1>2, <2>1, <2>3, <2>4, <3>1, <3>2, <3>3, AckToBurst, ReadOffered
  <2>5. CASE ~pmemRd
    <3>1. burst' = BurstAfter(c) /\ burst \in Burst
      BY <1>1, <1>2, <2>1, <2>5 DEF Bus, TypeOK
    <3>2. CASE ~c.ack
      BY <1>1, <1>8, <2>1, <2>3, <2>5, <3>1, <3>2
         DEF BurstAfter, Moves, BurstInv, BusInStep
    <3>3. CASE c.ack /\ ~PmemLast
      <4>1. state' = "REFILL" /\ burst.beat < LineWords - 1
        BY <1>1, <1>3, <1>8, <2>1, <2>5, <3>3 DEF Moves, PmemLast
      <4>2. burst'.op = "read" /\ burst'.beat = burst.beat + 1
        BY <2>1, <2>5, <3>1, <3>3, <4>1 DEF BurstAfter, Burst
      <4>3. pmemLen' = LineWords - 1 - burst'.beat
        BY <1>3, <2>1, <2>3, <2>5, <3>3, <4>1, <4>2
      <4>4. QED
        BY <2>3, <2>5, <4>1, <4>2, <4>3 DEF BurstInv, BusInStep
    <3>4. CASE c.ack /\ PmemLast
      <4>1. state' \in {"READ", "WRITE"} /\ burst.beat = LineWords - 1
        BY <1>1, <1>3, <1>8, <2>1, <2>5, <3>4 DEF Moves, PmemLast
      <4>2. burst' = NoBurst
        BY <1>3, <3>1, <3>4, <4>1 DEF BurstAfter
      <4>3. QED
        BY <2>3, <2>5, <4>1, <4>2 DEF BurstInv, BusInStep, NoBurst
    <3>5. QED
      BY <3>2, <3>3, <3>4
  <2>6. QED
    BY <2>4, <2>5
<1>9. QED
  BY <1>5, <1>6, <1>7, <1>8

(* At reset nothing is in progress, and nothing is claimed of the tags.    *)
LEMMA InitControl == Init => ControlInv
<1> SUFFICES ASSUME Init PROVE ControlInv
  OBVIOUS
<1>1. TypeOK
  BY InitTyped
<1>2. /\ state = "RESET" /\ m = NoRequest /\ flushing = FALSE /\ flushLast = FALSE
      /\ pmemRd = FALSE /\ pmemWr0 = FALSE /\ skid.valid = FALSE /\ burst = NoBurst
      /\ flushAddr = 0
  BY DEF Init
<1>3. PhaseInv /\ TagOutInv /\ VictimInv /\ OneCopyPerLine
  BY <1>2 DEF PhaseInv, TagOutInv, VictimInv, OneCopyPerLine, Evicting, NoRequest
<1>4. FlushInv
  BY <1>2 DEF FlushInv, Set
<1>5. BurstInv
  BY <1>2 DEF BurstInv, BusInStep, NoBurst
<1>6. QED
  BY <1>1, <1>3, <1>4, <1>5 DEF ControlInv

(* Every step of Next is a step on some typed inputs. *)
LEMMA NextIsStep ==
  ASSUME Next
  PROVE  \E in \in Request : \E c \in BusInputs : Step(in, c)
BY DataAssumption DEF Next

(* The control invariant is inductive. *)
LEMMA ControlStep == ControlInv /\ [Next]_vars => ControlInv'
<1> SUFFICES ASSUME ControlInv, [Next]_vars
             PROVE  ControlInv'
  OBVIOUS
<1>1. CASE Next
  <2>1. PICK in \in Request : \E c \in BusInputs : Step(in, c)
    BY <1>1, NextIsStep
  <2>2. PICK c \in BusInputs : Step(in, c)
    BY <2>1
  <2>3. TypeOK' /\ PhaseInv' /\ VictimInv' /\ OneCopyPerLine'
    BY <2>2, StepTyped, PhaseStep, VictimStep, OneCopyStep DEF ControlInv
  <2>4. TagOutInv' /\ FlushInv' /\ BurstInv'
    BY <2>2, <2>3, TagOutStep, FlushStep, BurstStep
  <2>5. QED
    BY <2>3, <2>4 DEF ControlInv
<1>2. CASE UNCHANGED vars
  <2>1. TypeOK' /\ PhaseInv'
    BY <1>2 DEF ControlInv, vars, cacheVars, busVars, TypeOK, PhaseInv, Evicting
  <2>2. TagOutInv' /\ FlushInv'
    BY <1>2 DEF ControlInv, vars, cacheVars, busVars, TagOutInv, FlushInv, Cleared,
                EvictSet, Evicting
  <2>3. OneCopyPerLine' /\ VictimInv'
    BY <1>2 DEF ControlInv, vars, cacheVars, busVars, OneCopyPerLine, Caches, VictimInv,
                TagDirty, TagHit, TagHitAny, Evicting
  <2>4. BurstInv'
    BY <1>2 DEF ControlInv, vars, cacheVars, busVars, BurstInv, BusInStep, PmemWr, EvictWay,
                TagDirty, TagHit, TagHitAny
  <2>5. QED
    BY <2>1, <2>2, <2>3, <2>4 DEF ControlInv
<1>3. QED
  BY <1>1, <1>2

(* What each state of the controller rests on always holds, whatever the   *)
(* CPU side requests and whatever the bus answers, errors included.        *)
THEOREM ControlCorrect == Spec => []ControlInv
BY InitControl, ControlStep, PTL DEF Spec

(* No line ever has two copies in the cache, whatever the CPU side         *)
(* requests (invalidates included) and whatever the bus answers.           *)
THEOREM OneCopyCorrect == Spec => []OneCopyPerLine
<1>1. ControlInv => OneCopyPerLine
  BY DEF ControlInv
<1>2. QED
  BY <1>1, ControlCorrect, PTL

(* The beat counter, the write and read enables and the bus never disagree *)
(* about the burst in progress.                                            *)
THEOREM BusInStepCorrect == Spec => []BusInStep
<1>1. ControlInv => BusInStep
  BY DEF ControlInv, BurstInv
<1>2. QED
  BY <1>1, ControlCorrect, PTL

(* An error response is only ever reported for the request it came for.    *)
THEOREM ErrorCorrect == Spec => []ErrorBelongsToRequest
<1>1. Init => ErrorBelongsToRequest
  BY DEF Init, ErrorBelongsToRequest
<1>2. ControlInv /\ ErrorBelongsToRequest /\ [Next]_vars => ErrorBelongsToRequest'
  <2> SUFFICES ASSUME ControlInv, ErrorBelongsToRequest, [Next]_vars
               PROVE  ErrorBelongsToRequest'
    OBVIOUS
  <2>1. CASE Next
    <3>1. PICK in \in Request : \E c \in BusInputs : Step(in, c)
      BY <2>1, NextIsStep
    <3>2. PICK c \in BusInputs : Step(in, c)
      BY <3>1
    <3>3. TypeOK /\ PhaseInv /\ BusInStep
      BY DEF ControlInv, BurstInv
    <3>4. Clock(in, c) /\ error' = ErrorAfter(c)
      BY <3>2, StepMoves DEF Clock, PmemRegisters
    <3>5. CASE c.ack /\ c.error
      <4>1. state \in {"EVICT_WAIT", "REFILL"}
        BY <3>3, <3>5, AckToBurst DEF BusInStep
      <4>2. m' = m
        BY <3>4, <4>1, OutsideLookup
      <4>3. m.op # "none"
        BY <3>3, <4>1 DEF PhaseInv, Evicting
      <4>4. QED
        BY <4>2, <4>3 DEF ErrorBelongsToRequest
    <3>6. CASE error /\ ~MemAck
      <4>1. m.op # "none"
        BY <3>6 DEF ErrorBelongsToRequest
      <4>2. m' = m
        <5>1. CASE state # "LOOKUP"
          BY <3>4, <5>1, OutsideLookup
        <5>2. CASE state = "LOOKUP"
          BY <3>4, <3>6, <4>1, <5>2, BufferInLookup DEF MemAck
        <5>3. QED
          BY <5>1, <5>2
      <4>3. QED
        BY <4>1, <4>2 DEF ErrorBelongsToRequest
    <3>7. QED
      BY <3>4, <3>5, <3>6 DEF ErrorAfter, ErrorBelongsToRequest
  <2>2. CASE UNCHANGED vars
    BY <2>2 DEF vars, cacheVars, busVars, ErrorBelongsToRequest
  <2>3. QED
    BY <2>1, <2>2
<1>3. QED
  BY <1>1, <1>2, ControlCorrect, PTL DEF Spec

---------------------------------------------------------------------------
(* What a step does to the data RAMs, to memory and to the history.        *)

DataWays(c) ==
  IF (state = "LOOKUP" /\ ~Miss) \/ state = "WRITE" THEN WrittenWays
  ELSE IF state = "REFILL" /\ c.ack THEN {replaceWay}
  ELSE {}

DataWriteAddr == IF state = "REFILL" THEN dataAddr ELSE RequestWord

NewData(c) == IF state = "REFILL" THEN c.data ELSE m.data

(* A write to the data RAMs changes one word of the written ways.          *)
LEMMA DataRamsEffect ==
  ASSUME TypeOK, NEW in, NEW addr, NEW ways, NEW val, DataRams(in, addr, ways, val),
         NEW s \in Set, NEW w \in Way, NEW x \in Word
  PROVE  /\ dataRam'[s][w][x] = IF s = addr.set /\ w \in ways /\ x = addr.word
                                  THEN val ELSE dataRam[s][w][x]
         /\ dataOut'[w] = dataRam[DataReadAddr(in).set][w][DataReadAddr(in).word]
<1>1. dataRam'[s][w] = IF s = addr.set /\ w \in ways
                         THEN [dataRam[s][w] EXCEPT ![addr.word] = val]
                         ELSE dataRam[s][w]
  BY DEF TypeOK, DataRams
<1>2. dataRam[s][w] \in [Word -> Value]
  BY DEF TypeOK
<1>3. dataOut'[w] = dataRam[DataReadAddr(in).set][w][DataReadAddr(in).word]
  BY DEF DataRams
<1>4. QED
  BY <1>1, <1>2, <1>3

(* Every step writes the data RAMs as its state says.                      *)
LEMMA DataStep ==
  ASSUME TypeOK, NEW in, NEW c, Step(in, c), NEW s \in Set, NEW w \in Way, NEW x \in Word
  PROVE  /\ dataRam'[s][w][x] =
              IF s = DataWriteAddr.set /\ w \in DataWays(c) /\ x = DataWriteAddr.word
                THEN NewData(c) ELSE dataRam[s][w][x]
         /\ dataOut'[w] = dataRam[DataReadAddr(in).set][w][DataReadAddr(in).word]
<1>0. SUFFICES ASSUME NEW ways, NEW addr, NEW val, DataRams(in, addr, ways, val),
                      (w \in ways) <=> (w \in DataWays(c)),
                      w \in ways => addr = DataWriteAddr /\ val = NewData(c)
               PROVE  /\ dataRam'[s][w][x] = IF s = addr.set /\ w \in ways /\ x = addr.word
                                               THEN val ELSE dataRam[s][w][x]
                      /\ dataOut'[w] =
                           dataRam[DataReadAddr(in).set][w][DataReadAddr(in).word]
  <2> USE <1>0 DEF DataWays, NewData, DataWriteAddr
  <2>1. CASE ResetTags(in, c)
    BY <2>1 DEF ResetTags, KeepData
  <2>2. CASE FlushAddress(in, c)
    BY <2>2 DEF FlushAddress, KeepData
  <2>3. CASE FlushDirty(in, c)
    BY <2>3 DEF FlushDirty, KeepData
  <2>4. CASE FlushClean(in, c)
    BY <2>4 DEF FlushClean, KeepData
  <2>5. CASE LookupMiss(in, c)
    BY <2>5 DEF LookupMiss, KeepData
  <2>6. CASE LookupServe(in, c)
    BY <2>6 DEF LookupServe
  <2>7. CASE Refill(in, c)
    BY <2>7 DEF Refill
  <2>8. CASE WriteAfterRefill(in, c)
    BY <2>8 DEF WriteAfterRefill
  <2>9. CASE ReadAfterRefill(in, c)
    BY <2>9 DEF ReadAfterRefill, KeepData
  <2>10. CASE Evict(in, c)
    BY <2>10 DEF Evict, KeepData
  <2>11. CASE EvictWait(in, c)
    BY <2>11 DEF EvictWait, KeepData
  <2>12. CASE Writeback(in, c)
    BY <2>12 DEF Writeback, KeepData
  <2>13. CASE Invalidate(in, c)
    BY <2>13 DEF Invalidate, KeepData
  <2>14. QED
    BY <2>1, <2>2, <2>3, <2>4, <2>5, <2>6, <2>7, <2>8, <2>9, <2>10, <2>11, <2>12,
       <2>13 DEF Step
<1>1. QED
  BY <1>0, DataRamsEffect

(* Memory changes only when the bus accepts a word of a victim.            *)
LEMMA MemoryStep ==
  ASSUME ControlInv, NEW in, NEW c \in BusInputs, Step(in, c)
  PROVE  /\ ~(state = "EVICT" /\ c.accept) => memory' = memory
         /\ state = "EVICT" /\ c.accept =>
              memory' = [memory EXCEPT ![WriteBeat.set][WriteBeat.tag][WriteBeat.beat]
                           = PmemWriteData]
<1>1. Bus(c) /\ Moves(in, c)
  BY StepMoves DEF Clock
<1>2. state # "EVICT" => ~PmemWr
  BY DEF ControlInv, BurstInv, BusInStep, PmemWr
<1>3. state = "EVICT" => PmemWr /\ ~PmemRd
  BY <1>1 DEF ControlInv, BurstInv, BusInStep, PmemRd, Entering, Moves
<1>4. QED
  BY <1>1, <1>2, <1>3 DEF Bus

(* Without invalidates the history changes only when a write is            *)
(* acknowledged.                                                           *)
LEMMA ArchStep ==
  ASSUME ControlInv, m.op # "inval", NEW in, NEW c, Step(in, c)
  PROVE  /\ ~(state = "LOOKUP" /\ ~Miss /\ m.op = "write") => arch' = arch
         /\ state = "LOOKUP" /\ ~Miss /\ m.op = "write" =>
              arch' = [arch EXCEPT ![m.set][m.tag][m.word] = m.data]
<1>1. History
  BY StepMoves DEF Clock
<1>2. state # "INVALIDATE"
  BY DEF ControlInv, PhaseInv
<1>3. QED
  BY <1>1, <1>2 DEF History, MemAck

---------------------------------------------------------------------------
(* Reads.                                                                  *)

(* Where STATE_LOOKUP is entered from, and with which request.             *)
LEMMA ToLookup ==
  ASSUME ControlInv, NEW in \in Request, NEW c \in BusInputs, Step(in, c),
         state' = "LOOKUP"
  PROVE  \/ state = "LOOKUP" /\ ~Miss
         \/ state = "RESET" /\ m' = m /\ m.op = "none"
         \/ state = "FLUSH" /\ ~TagDirtyAny /\ m' = m /\ m.op = "flush"
         \/ state = "READ" /\ m' = m /\ m.op = "read"
         \/ state = "WRITE" /\ m' = m /\ m.op = "write"
         \/ state = "EVICT_WAIT" /\ c.ack /\ ~flushing /\ m' = m /\ m.op = "writeback"
         \/ state = "WRITEBACK" /\ ~TagHitAndDirty /\ m' = m /\ m.op = "writeback"
         \/ state = "INVALIDATE" /\ m' = m /\ m.op = "inval"
<1>1. Moves(in, c) /\ Clock(in, c)
  BY StepMoves
<1>2. PhaseInv
  BY DEF ControlInv
<1>3. CASE state = "LOOKUP"
  BY <1>1, <1>3 DEF Moves
<1>4. CASE state # "LOOKUP"
  <2>1. m' = m
    BY <1>1, <1>4, OutsideLookup
  <2>2. QED
    BY <1>1, <1>2, <1>4, <2>1 DEF Moves, PhaseInv, Evicting
<1>5. QED
  BY <1>3, <1>4

(* A read enters the request buffer in STATE_LOOKUP only past the hazard   *)
(* check of mem_accept_o.                                                  *)
LEMMA ReadAccepted ==
  ASSUME NEW in, NEW c, Clock(in, c), state = "LOOKUP", ~Miss, m'.op = "read"
  PROVE  /\ m' = in
         /\ m.op = "write" => <<in.tag, in.set, in.word>> # <<m.tag, m.set, m.word>>
BY DEF Clock, RequestBuffer, MemAccept, MemAck, NoRequest

(* The word of a read that hits is on the data RAM output.                 *)
LEMMA ReadStep ==
  ASSUME ControlInv, NEW in \in Request, NEW c \in BusInputs, Step(in, c),
         ControlInv'
  PROVE  ReadInv'
<1>1. SUFFICES ASSUME state' = "LOOKUP", m'.op = "read", NEW w \in Way, TagHit(w)'
               PROVE  dataOut'[w] = dataRam'[m'.set][w][m'.word]
  BY DEF ReadInv
<1>2. Moves(in, c) /\ Clock(in, c)
  BY StepMoves
<1>3. TypeOK /\ m'.set \in Set /\ m'.word \in Word
  BY DEF ControlInv, TypeOK, Request
<1>4. /\ dataOut'[w] = dataRam[DataReadAddr(in).set][w][DataReadAddr(in).word]
      /\ dataRam'[m'.set][w][m'.word] =
           IF m'.set = DataWriteAddr.set /\ w \in DataWays(c) /\ m'.word = DataWriteAddr.word
             THEN NewData(c) ELSE dataRam[m'.set][w][m'.word]
  BY <1>3, DataStep
<1>5. CASE state = "READ"
  <2>1. m' = m
    BY <1>2, <1>5, OutsideLookup
  <2>2. DataReadAddr(in) = [set |-> m'.set, word |-> m'.word]
    BY <1>1, <1>5, <2>1 DEF DataReadAddr
  <2>3. DataWays(c) = {}
    BY <1>5 DEF DataWays
  <2>4. QED
    BY <1>4, <2>2, <2>3
<1>6. CASE state = "LOOKUP" /\ ~Miss
  <2>1. /\ m' = in
        /\ m.op = "write" => <<in.tag, in.set, in.word>> # <<m.tag, m.set, m.word>>
    BY <1>1, <1>2, <1>6, ReadAccepted
  <2>2. DataReadAddr(in) = [set |-> m'.set, word |-> m'.word]
    BY <1>1, <1>6, <2>1 DEF DataReadAddr
  <2>3. CASE w \in DataWays(c) /\ m'.set = m.set /\ m'.word = m.word
    <3>1. m.op = "write" /\ w \in TagWays(c) /\ NewTag = Dirty(m.tag)
      BY <1>6, <2>3 DEF DataWays, TagWays, WrittenWays, NewTag
    <3>2. ~flushing
      BY <1>6 DEF ControlInv, PhaseInv, Evicting
    <3>3. TagReadSet(in) = TagWriteSet
      BY <1>1, <1>6, <2>1, <2>3, <3>2 DEF TagReadSet, TagWriteSet
    <3>4. tagOut'[w] = Dirty(m.tag)
      BY <1>3, <3>1, <3>3, TagOutEffect
    <3>5. m'.tag = m.tag
      BY <1>1, <3>4 DEF TagHit, Dirty
    <3>6. QED
      BY <2>1, <2>3, <3>1, <3>5
  <2>4. CASE ~(w \in DataWays(c) /\ m'.set = m.set /\ m'.word = m.word)
    BY <1>4, <1>6, <2>2, <2>4 DEF DataWriteAddr, RequestWord
  <2>5. QED
    BY <2>3, <2>4
<1>7. QED
  BY <1>1, <1>5, <1>6, ToLookup

---------------------------------------------------------------------------
(* Evictions.                                                              *)

(* The next word of a line that is not its last. *)
LEMMA NextWordInLine ==
  ASSUME NEW s \in Set, NEW x \in Word, x < LineWords - 1
  PROVE  NextWord([set |-> s, word |-> x]) = [set |-> s, word |-> x + 1] /\ x + 1 \in Word
<1>1. x + 1 \in Word
  BY SizeAssumption DEF Word
<1>2. QED
  BY <1>1 DEF NextWord

(* While a victim is saved nothing about it changes. *)
LEMMA VictimHeld ==
  ASSUME ControlInv, NEW in \in Request, NEW c \in BusInputs, Step(in, c),
         Evicting, Evicting'
  PROVE  /\ replaceWay' = replaceWay /\ EvictSet' = EvictSet
         /\ tagOut'[replaceWay] = tagOut[replaceWay]
         /\ \A s \in Set, w \in Way, x \in Word : dataRam'[s][w][x] = dataRam[s][w][x]
<1>1. Moves(in, c) /\ Clock(in, c)
  BY StepMoves
<1>2. TypeOK /\ VictimInv /\ PhaseInv
  BY DEF ControlInv
<1>3. replaceWay \in Way
  BY <1>2 DEF TypeOK
<1>4. TagDirty(replaceWay) /\ ~SkipWay
  BY <1>2 DEF VictimInv, PhaseInv, SkipWay, EvictWay
<1>5. replaceWay' = replaceWay
  BY <1>1, <1>4 DEF Clock, ReplacementPolicy, Evicting
<1>6. m' = m /\ flushing' = flushing /\ tagOut'[replaceWay] = tagOut[replaceWay]
  BY <1>3, TagsHeldForEviction
<1>7. flushAddr' = flushAddr
  BY <1>1, FlushAddressHeld DEF Evicting
<1>8. DataWays(c) = {}
  BY DEF DataWays, Evicting
<1>9. QED
  BY <1>2, <1>5, <1>6, <1>7, <1>8, DataStep DEF EvictSet

(* The victim's first word is read on the way into STATE_EVICT. *)
LEMMA EvictBegins ==
  ASSUME ControlInv, NEW in \in Request, NEW c \in BusInputs, Step(in, c), ControlInv',
         state # "EVICT", state' = "EVICT"
  PROVE  /\ burst' = NoBurst
         /\ dataAddr' = NextWord([set |-> EvictSet', word |-> 0])
         /\ PmemWriteData' = dataRam'[EvictSet'][replaceWay'][0]
<1>1. Moves(in, c) /\ Clock(in, c)
  BY StepMoves
<1>2. TypeOK /\ PhaseInv /\ BusInStep /\ TypeOK' /\ BurstInv'
  BY DEF ControlInv, BurstInv
<1>3. /\ state \in {"FLUSH", "LOOKUP", "WRITEBACK", "EVICT", "EVICT_WAIT"}
      /\ state = "LOOKUP" => Miss
      /\ m' = m /\ flushing' = flushing
  <2>1. 0 \in Way
    BY DEF Way
  <2>2. QED
    BY <2>1, TagsHeldForEviction DEF Evicting
<1>4. state \in {"FLUSH", "LOOKUP", "WRITEBACK"} /\ Entering("EVICT")
  BY <1>1, <1>3 DEF Moves, Entering
<1>5. pmemWr0' = TRUE
  BY <1>1, <1>4 DEF Clock, PmemRegisters
<1>6. burst' = NoBurst
  BY <1>2, <1>5 DEF BurstInv, BusInStep
<1>7. flushing => flushAddr' = flushAddr
  BY <1>1, <1>2, <1>4, FlushAddressHeld DEF PhaseInv, Evicting
<1>8. DataReadAddr(in) = [set |-> EvictSet', word |-> 0]
  BY <1>2, <1>3, <1>4, <1>7 DEF DataReadAddr, EvictSet, PhaseInv, Evicting
<1>9. dataAddr' = NextWord(DataReadAddr(in))
  BY <1>1, <1>4 DEF Clock, DataPointer, EvictStart, Entering
<1>10. ~skid'.valid
  BY <1>1, <1>2, <1>4 DEF Clock, PmemRegisters, PmemWr, BusInStep
<1>11. EvictSet' \in Set /\ replaceWay' \in Way /\ 0 \in Word
  BY <1>2, ConstantsTyped DEF TypeOK, EvictSet, Request
<1>12. DataWays(c) = {}
  BY <1>3, <1>4 DEF DataWays
<1>13. dataOut'[replaceWay'] = dataRam'[EvictSet'][replaceWay'][0]
  BY <1>2, <1>8, <1>11, <1>12, DataStep
<1>14. QED
  BY <1>6, <1>8, <1>9, <1>10, <1>13 DEF PmemWriteData

(* Each accepted beat stores one word of the victim, and the next one is   *)
(* on its way.                                                             *)
LEMMA EvictContinues ==
  ASSUME ControlInv, EvictInv, NEW in \in Request, NEW c \in BusInputs, Step(in, c),
         ControlInv', state = "EVICT"
  PROVE  EvictInv'
<1> DEFINE victim == dataRam[EvictSet][replaceWay]
           tag    == tagOut[replaceWay].tag
           beat   == burst.beat
<1>1. Moves(in, c) /\ Clock(in, c)
  BY StepMoves
<1>2. TypeOK /\ BurstInv /\ TypeOK'
  BY DEF ControlInv
<1>3. Evicting /\ Evicting'
  BY <1>1 DEF Moves, Evicting
<1>4. /\ replaceWay' = replaceWay /\ EvictSet' = EvictSet
      /\ tagOut'[replaceWay] = tagOut[replaceWay]
      /\ \A s \in Set, w \in Way, x \in Word : dataRam'[s][w][x] = dataRam[s][w][x]
  BY <1>3, VictimHeld
<1>5. /\ EvictSet \in Set /\ replaceWay \in Way /\ tag \in Tag /\ beat \in Word
      /\ memory \in [Set -> [Tag -> [Word -> Value]]] /\ LineWords \in 2 .. 256
      /\ pmemLen \in 0 .. 255
  BY <1>2, SizeAssumption DEF TypeOK, EvictSet, Request, Burst, TagEntry
<1>6. /\ dataAddr = NextWord([set |-> EvictSet, word |-> beat])
      /\ PmemWriteData = victim[beat]
      /\ burst.op = "write" => burst.set = EvictSet /\ burst.tag = tag
      /\ \A x \in Word : x < beat => memory[EvictSet][tag][x] = victim[x]
  BY DEF EvictInv
<1>7. /\ PmemWr /\ ~PmemRd /\ FirstBeat = pmemWr0
      /\ burst.op = (IF pmemWr0 THEN "idle" ELSE "write")
      /\ pmemWr0 => burst = NoBurst
      /\ pmemLen = LineWords - 1 - beat
      /\ ~c.ack
  <2>1. pmemWr0 \in BOOLEAN
    BY <1>2 DEF TypeOK
  <2>2. QED
    BY <1>1, <1>2, <2>1, AckToBurst
       DEF BurstInv, BusInStep, PmemRd, Entering, FirstBeat, Moves
<1>a. dataAddr' = IF c.accept THEN NextWord(dataAddr) ELSE dataAddr
  <2>1. ~Entering("REFILL") /\ ~Entering("EVICT") /\ BeatDone(c) = c.accept
    BY <1>2, <1>3, AckToBurst DEF Entering, Evicting, BeatDone
  <2>2. QED
    BY <1>1, <2>1 DEF Clock, DataPointer
<1>8. CASE ~c.accept
  <2>1. state' = "EVICT" /\ memory' = memory
    BY <1>1, <1>8, MemoryStep DEF Moves
  <2>2. burst' = burst
    BY <1>1, <1>7, <1>8 DEF Clock, Bus, BurstAfter
  <2>3. dataAddr' = dataAddr
    BY <1>8, <1>a
  <2>4. PmemWriteData' = PmemWriteData
    BY <1>1, <1>7, <1>8 DEF Clock, PmemRegisters, PmemWriteData
  <2>5. QED
    BY <1>4, <1>5, <1>6, <2>1, <2>2, <2>3, <2>4 DEF EvictInv
<1>9. CASE c.accept
  <2>1. /\ WriteBeat.op = "write" /\ WriteBeat.set = EvictSet /\ WriteBeat.tag = tag
        /\ WriteBeat.beat = beat
    BY <1>6, <1>7 DEF WriteBeat, NoBurst
  <2>2. memory' = [memory EXCEPT ![EvictSet][tag][beat] = victim[beat]]
    BY <1>6, <1>9, <2>1, MemoryStep
  <2>3. \A x \in Word : x <= beat => memory'[EvictSet][tag][x] = victim[x]
    <3>1. memory'[EvictSet][tag] = [memory[EvictSet][tag] EXCEPT ![beat] = victim[beat]]
      BY <1>5, <2>2
    <3>2. memory[EvictSet][tag] \in [Word -> Value]
      BY <1>5
    <3>3. \A x \in Word : x <= beat => x < beat \/ x = beat
      BY <1>5 DEF Word
    <3>4. QED
      BY <1>5, <1>6, <3>1, <3>2, <3>3
  <2>4. CASE PmemLast
    <3>1. state' = "EVICT_WAIT" /\ beat = LineWords - 1
      BY <1>1, <1>5, <1>7, <1>9, <2>4 DEF Moves, PmemLast, Word
    <3>2. \A x \in Word : x <= beat
      BY <1>5, <3>1 DEF Word
    <3>3. \A x \in Word :
            memory'[EvictSet'][tagOut'[replaceWay'].tag][x] = dataRam'[EvictSet'][replaceWay'][x]
      BY <1>4, <1>5, <2>3, <3>2
    <3>4. QED
      BY <3>1, <3>3 DEF EvictInv
  <2>5. CASE ~PmemLast
    <3>1. state' = "EVICT" /\ beat < LineWords - 1
      BY <1>1, <1>5, <1>7, <1>9, <2>5 DEF Moves, PmemLast, Word
    <3>2. dataAddr = [set |-> EvictSet, word |-> beat + 1] /\ beat + 1 \in Word
      BY <1>5, <1>6, <3>1, NextWordInLine
    <3>3. dataAddr' = NextWord(dataAddr)
      BY <1>9, <1>a
    <3>4. WriteBeat \in Burst
      BY <1>2, WriteBeatTyped
    <3>5. burst' = [WriteBeat EXCEPT !.beat = beat + 1]
      BY <1>1, <1>7, <1>9, <2>1, <3>1 DEF Clock, Bus
    <3>6. burst'.set = EvictSet /\ burst'.tag = tag /\ burst'.beat = beat + 1
      BY <2>1, <3>4, <3>5 DEF Burst
    <3>7. DataReadAddr(in) = dataAddr
      BY DEF DataReadAddr
    <3>8. dataOut'[replaceWay] = victim[beat + 1]
      BY <1>2, <1>5, <3>2, <3>7, DataStep
    <3>9. PmemWriteData' = victim[beat + 1]
      BY <1>1, <1>4, <1>9, <3>8 DEF Clock, PmemRegisters, PmemWriteData
    <3>10. \A x \in Word : x < beat + 1 => x <= beat
      BY <1>5 DEF Word
    <3>11. /\ dataAddr' = NextWord([set |-> EvictSet', word |-> burst'.beat])
           /\ PmemWriteData' = dataRam'[EvictSet'][replaceWay'][burst'.beat]
           /\ burst'.set = EvictSet' /\ burst'.tag = tagOut'[replaceWay'].tag
      BY <1>4, <1>5, <3>2, <3>3, <3>6, <3>9
    <3>12. \A x \in Word : x < burst'.beat =>
             memory'[EvictSet'][tagOut'[replaceWay'].tag][x] = dataRam'[EvictSet'][replaceWay'][x]
      BY <1>4, <1>5, <2>3, <3>6, <3>10
    <3>13. QED
      BY <3>1, <3>11, <3>12 DEF EvictInv
  <2>6. QED
    BY <2>4, <2>5
<1>10. QED
  BY <1>8, <1>9

(* The victim's words arrive in memory one by one, the whole line in the   *)
(* end.                                                                    *)
LEMMA EvictStep ==
  ASSUME ControlInv, EvictInv, NEW in \in Request, NEW c \in BusInputs, Step(in, c),
         ControlInv'
  PROVE  EvictInv'
<1>1. Moves(in, c)
  BY StepMoves
<1>2. TypeOK' /\ TypeOK
  BY DEF ControlInv
<1>3. CASE state = "EVICT"
  BY <1>3, EvictContinues
<1>4. CASE state # "EVICT" /\ state' = "EVICT"
  <2>1. /\ burst' = NoBurst
        /\ dataAddr' = NextWord([set |-> EvictSet', word |-> 0])
        /\ PmemWriteData' = dataRam'[EvictSet'][replaceWay'][0]
    BY <1>4, EvictBegins
  <2>2. \A x \in Word : ~(x < 0)
    BY DEF Word
  <2>3. QED
    BY <1>4, <2>1, <2>2 DEF EvictInv, NoBurst
<1>5. CASE state # "EVICT" /\ state' = "EVICT_WAIT"
  <2>1. state = "EVICT_WAIT" /\ Evicting /\ Evicting'
    BY <1>1, <1>5, NextOnInputCases, InputsTyped, <1>2 DEF Moves, Evicting
  <2>2. /\ replaceWay' = replaceWay /\ EvictSet' = EvictSet
        /\ tagOut'[replaceWay] = tagOut[replaceWay]
        /\ \A s \in Set, w \in Way, x \in Word : dataRam'[s][w][x] = dataRam[s][w][x]
    BY <2>1, VictimHeld
  <2>3. memory' = memory
    BY <1>5, MemoryStep
  <2>4. EvictSet \in Set /\ replaceWay \in Way
    BY <1>2 DEF TypeOK, EvictSet, Request
  <2>5. QED
    BY <1>5, <2>1, <2>2, <2>3, <2>4 DEF EvictInv
<1>6. CASE state' \notin {"EVICT", "EVICT_WAIT"}
  BY <1>6 DEF EvictInv
<1>7. QED
  BY <1>3, <1>4, <1>5, <1>6

---------------------------------------------------------------------------
(* Refills.                                                                *)

(* Each answered beat of a refill stores the right word.                   *)
LEMMA RefillWord ==
  ASSUME ControlInv, RefillInv, BusErrors = FALSE,
         NEW in \in Request, NEW c \in BusInputs, Step(in, c), state = "REFILL",
         NEW x \in Word, x < burst.beat \/ (c.ack /\ x = burst.beat)
  PROVE  dataRam'[m.set][replaceWay][x] = arch[m.set][m.tag][x]
<1>1. TypeOK /\ BurstInv
  BY DEF ControlInv
<1>2. m.set \in Set /\ replaceWay \in Way
  BY <1>1 DEF TypeOK, Request
<1>3. DataWriteAddr = [set |-> m.set, word |-> burst.beat]
  BY DEF RefillInv, DataWriteAddr
<1>4. CASE c.ack /\ x = burst.beat
  <2>1. ~pmemRd
    BY <1>1, <1>4, AckToBurst DEF BurstInv, BusInStep
  <2>2. burst.set = m.set /\ burst.tag = m.tag
    BY <2>1 DEF RefillInv
  <2>3. c.data = BusWord
    BY DEF BusInputs
  <2>4. BusWord = arch[m.set][m.tag][x]
    BY <1>4, <2>2 DEF BusWord, RefillInv
  <2>5. DataWays(c) = {replaceWay} /\ NewData(c) = c.data
    BY <1>4 DEF DataWays, NewData
  <2>6. QED
    BY <1>1, <1>2, <1>3, <1>4, <2>3, <2>4, <2>5, DataStep
<1>5. CASE x < burst.beat
  <2>1. x # burst.beat
    BY <1>1, <1>5 DEF TypeOK, Burst, Word
  <2>2. dataRam'[m.set][replaceWay][x] = dataRam[m.set][replaceWay][x]
    BY <1>1, <1>2, <1>3, <2>1, DataStep
  <2>3. QED
    BY <1>5, <2>2 DEF RefillInv
<1>6. QED
  BY <1>4, <1>5

(* A line that no way caches is up to date in memory when its refill       *)
(* begins.                                                                 *)
LEMMA MissedLineInMemory ==
  ASSUME TypeOK, NoLostWrite, state # "RESET", ~TagHitAny, tagOut = tagRam[m.set]
  PROVE  memory[m.set][m.tag] = arch[m.set][m.tag]
<1>1. m.set \in Set /\ m.tag \in Tag
  BY DEF TypeOK, Request
<1>2. \A w \in Way : ~Caches(m.set, w, m.tag)
  BY DEF TagHitAny, TagHit, Caches
<1>3. LineUpToDate(m.set, m.tag)
  BY <1>1 DEF NoLostWrite
<1>4. QED
  BY <1>2, <1>3 DEF LineUpToDate, Holds

(* The line that is refilled is up to date in memory and arrives word by   *)
(* word.                                                                   *)
LEMMA RefillStep ==
  ASSUME ControlInv, NoLostWrite, RefillInv, m.op # "inval", BusErrors = FALSE,
         NEW in \in Request, NEW c \in BusInputs, Step(in, c), ControlInv'
  PROVE  RefillInv'
<1>0. SUFFICES ASSUME state' = "REFILL"
               PROVE  RefillInv'
  BY DEF RefillInv
<1>1. Moves(in, c) /\ Clock(in, c)
  BY StepMoves
<1>2. TypeOK /\ BurstInv /\ PhaseInv /\ VictimInv /\ BurstInv'
  BY DEF ControlInv
<1>3. /\ m' = m /\ replaceWay' = replaceWay /\ ~flushing /\ tagOut = tagRam[m.set]
      /\ \/ state = "LOOKUP" /\ Miss
         \/ state = "REFILL" /\ ~(c.ack /\ PmemLast)
         \/ state = "EVICT_WAIT" /\ m.op \in {"read", "write"}
  BY <1>0, ToRefill
<1>4. memory' = memory /\ arch' = arch
  BY <1>3, MemoryStep, ArchStep
<1>5. memory[m.set][m.tag] = arch[m.set][m.tag]
  <2>1. state # "REFILL" => ~TagHitAny
    BY <1>2, <1>3 DEF Miss, VictimInv, Evicting
  <2>2. CASE state = "REFILL"
    BY <2>2 DEF RefillInv
  <2>3. QED
    BY <1>2, <1>3, <2>1, <2>2, MissedLineInMemory
<1>6. PmemWr = FALSE /\ c.accept \in BOOLEAN /\ pmemRd \in BOOLEAN
  BY <1>2, <1>3, AckToBurst DEF BurstInv, BusInStep, PmemWr, TypeOK
<1>7. /\ PmemRd /\ c.accept =>
           burst' = [op |-> "read", tag |-> m.tag, set |-> m.set, beat |-> 0] /\ ~pmemRd'
      /\ PmemRd /\ ~c.accept => burst' = NoBurst /\ pmemRd'
  <2>1. PmemRd /\ ~c.accept => pmemRd'
    BY <1>1 DEF Clock, PmemRegisters
  <2>2. pmemRd' => burst' = NoBurst
    BY <1>0, <1>2 DEF BurstInv, BusInStep
  <2>3. QED
    BY <1>1, <2>1, <2>2 DEF Clock, Bus, PmemRegisters
<1>8. CASE PmemRd
  <2>1. burst'.beat = 0 /\ (~pmemRd' => burst'.set = m.set /\ burst'.tag = m.tag)
    BY <1>6, <1>7, <1>8 DEF NoBurst
  <2>2. dataAddr' = [set |-> m.set, word |-> 0]
    <3>1. CASE state # "REFILL"
      BY <1>0, <1>1, <3>1 DEF Clock, DataPointer, Entering
    <3>2. CASE state = "REFILL"
      <4>1. burst = NoBurst
        BY <1>2, <1>8, <3>2 DEF BurstInv, BusInStep, PmemRd, Entering
      <4>2. ~c.ack
        BY <1>2, <4>1, AckToBurst DEF NoBurst
      <4>3. dataAddr' = dataAddr
        BY <1>0, <1>1, <3>2, <4>2 DEF Clock, DataPointer, Entering, BeatDone
      <4>4. QED
        BY <3>2, <4>1, <4>3 DEF RefillInv, NoBurst
    <3>3. QED
      BY <3>1, <3>2
  <2>3. \A x \in Word : ~(x < burst'.beat)
    BY <2>1 DEF Word
  <2>4. QED
    BY <1>0, <1>3, <1>4, <1>5, <2>1, <2>2, <2>3 DEF RefillInv
<1>9. CASE ~PmemRd
  <2>1. state = "REFILL" /\ ~pmemRd /\ ~(c.ack /\ PmemLast)
    BY <1>0, <1>3, <1>9 DEF PmemRd, Entering
  <2>2. /\ burst.op = "read" /\ burst.set = m.set /\ burst.tag = m.tag
        /\ pmemLen = LineWords - 1 - burst.beat
        /\ burst \in Burst /\ burst.beat \in Word
        /\ dataAddr = [set |-> m.set, word |-> burst.beat]
    BY <1>2, <2>1 DEF BurstInv, BusInStep, RefillInv, TypeOK, Burst
  <2>3. burst' = BurstAfter(c)
    BY <1>1, <1>6, <1>9 DEF Clock, Bus
  <2>4. dataAddr' = IF c.ack THEN NextWord(dataAddr) ELSE dataAddr
    BY <1>0, <1>1, <2>1 DEF Clock, DataPointer, Entering, BeatDone
  <2>5. c.ack => burst.beat < LineWords - 1
    BY <2>1, <2>2, SizeAssumption DEF PmemLast, Word
  <2>6. /\ burst'.set = m.set /\ burst'.tag = m.tag
        /\ burst'.beat = IF c.ack THEN burst.beat + 1 ELSE burst.beat
    BY <2>2, <2>3, <2>5 DEF BurstAfter, Burst
  <2>7. m.set \in Set
    BY <1>2 DEF TypeOK, Request
  <2>8. dataAddr' = [set |-> m.set, word |-> burst'.beat]
    BY <2>2, <2>4, <2>5, <2>6, <2>7, NextWordInLine
  <2>9. \A x \in Word : x < burst'.beat => x < burst.beat \/ (c.ack /\ x = burst.beat)
    BY <2>2, <2>6 DEF Word
  <2>10. \A x \in Word : x < burst'.beat =>
           dataRam'[m.set][replaceWay][x] = arch[m.set][m.tag][x]
    BY <2>1, <2>9, RefillWord
  <2>11. QED
    BY <1>3, <1>4, <1>5, <2>6, <2>8, <2>10 DEF RefillInv
<1>10. QED
  BY <1>8, <1>9

---------------------------------------------------------------------------
(* Lines.                                                                  *)

(* A line no way holds is up to date once memory is. *)
LEMMA LineInMemory ==
  ASSUME NEW s, NEW t, memory'[s][t] = arch'[s][t], \A w \in Way : ~Holds(s, w, t)'
  PROVE  LineUpToDate(s, t)'
BY DEF LineUpToDate

(* A line that is up to date and not dirty is in memory. *)
LEMMA CleanLineInMemory ==
  ASSUME NEW s, NEW t, LineUpToDate(s, t),
         \A w \in Way : Holds(s, w, t) => ~tagRam[s][w].dirty
  PROVE  memory[s][t] = arch[s][t]
BY DEF LineUpToDate

(* A line stays up to date when nothing about it changes. *)
LEMMA LineKept ==
  ASSUME NEW s, NEW t, LineUpToDate(s, t),
         ~(state = "LOOKUP" /\ m.op = "write" /\ m.set = s /\ m.tag = t),
         \A w \in Way :
           /\ Holds(s, w, t)' => Holds(s, w, t)
           /\ Holds(s, w, t) =>
                /\ Holds(s, w, t)' /\ tagRam'[s][w].dirty = tagRam[s][w].dirty
                /\ \A x \in Word : dataRam'[s][w][x] = dataRam[s][w][x],
         memory'[s][t] = memory[s][t], arch'[s][t] = arch[s][t]
  PROVE  LineUpToDate(s, t)'
<1>1. ASSUME NEW w \in Way, Holds(s, w, t)'
      PROVE  /\ \A x \in Word : Accepted(s, t, x, dataRam[s][w][x])'
             /\ ~tagRam'[s][w].dirty => memory'[s][t] = arch'[s][t]
  <2>1. Holds(s, w, t) /\ tagRam'[s][w].dirty = tagRam[s][w].dirty
    BY <1>1
  <2>2. \A x \in Word : dataRam[s][w][x] = arch[s][t][x]
    BY <2>1 DEF LineUpToDate, Accepted
  <2>3. \A x \in Word : dataRam'[s][w][x] = arch'[s][t][x]
    BY <2>1, <2>2
  <2>4. ~tagRam[s][w].dirty => memory[s][t] = arch[s][t]
    BY <2>1 DEF LineUpToDate
  <2>5. QED
    BY <2>1, <2>3, <2>4 DEF Accepted
<1>2. (\A w \in Way : ~Holds(s, w, t)') => memory'[s][t] = arch'[s][t]
  BY DEF LineUpToDate
<1>3. QED
  BY <1>1, <1>2 DEF LineUpToDate, Accepted

(* Steps that change neither RAM nor memory; the way a refill is about to  *)
(* overwrite is clean.                                                     *)
LEMMA LineIdle ==
  ASSUME ControlInv, DataInv, NEW in \in Request, NEW c \in BusInputs, Step(in, c),
         NEW s \in Set, NEW t \in Tag, LineUpToDate(s, t),
         state \notin {"RESET", "REFILL"}, state = "LOOKUP" => Miss,
         TagWays(c) = {}, DataWays(c) = {}, memory' = memory
  PROVE  LineUpToDate(s, t)'
<1>1. TypeOK /\ PhaseInv /\ TagOutInv /\ OneCopyPerLine
  BY DEF ControlInv
<1>2. arch' = arch
  BY ArchStep DEF DataInv
<1>3. \A w \in Way : tagRam'[s][w] = tagRam[s][w]
  BY <1>1, TagStep
<1>4. \A w \in Way, x \in Word : dataRam'[s][w][x] = dataRam[s][w][x]
  BY <1>1, DataStep
<1>5. \A w \in Way : Holds(s, w, t) <=> Caches(s, w, t)
  BY DEF Holds
<1>6. CASE state' = "REFILL" /\ s = m.set /\ Caches(s, replaceWay, t)
  <2>1. /\ m' = m /\ replaceWay' = replaceWay /\ tagOut = tagRam[m.set]
        /\ 1 - replaceWay \in Way
        /\ (state = "LOOKUP" /\ ~EvictWay) \/ (state = "EVICT_WAIT" /\ c.ack)
    BY <1>6, ToRefill
  <2>2. state = "LOOKUP" /\ ~EvictWay /\ Miss
    BY <2>1 DEF TagWays
  <2>3. ~TagDirty(replaceWay)
    BY <2>2 DEF EvictWay, Miss
  <2>4. replaceWay \in Way
    BY <1>1 DEF TypeOK
  <2>5. ~Caches(s, 1 - replaceWay, t)
    BY <1>1, <1>6, <2>4 DEF OneCopyPerLine, Way
  <2>6. \A w \in Way : w = replaceWay \/ w = 1 - replaceWay
    BY <2>4 DEF Way
  <2>7. \A w \in Way : Holds(s, w, t) => ~tagRam[s][w].dirty
    BY <1>5, <1>6, <2>1, <2>3, <2>5, <2>6 DEF TagDirty, Caches
  <2>8. memory'[s][t] = arch'[s][t]
    BY <1>2, <2>7, CleanLineInMemory
  <2>9. \A w \in Way : ~Holds(s, w, t)'
    BY <1>3, <1>6, <2>1, <2>5, <2>6 DEF Holds, Caches
  <2>10. QED
    BY <2>8, <2>9, LineInMemory
<1>7. CASE ~(state' = "REFILL" /\ s = m.set /\ Caches(s, replaceWay, t))
  <2>1. \A w \in Way : Holds(s, w, t)' <=> Holds(s, w, t)
    <3>1. state' = "REFILL" => m' = m /\ replaceWay' = replaceWay
      BY ToRefill
    <3>2. QED
      BY <1>3, <1>5, <1>7, <3>1 DEF Holds, Caches
  <2>2. CASE ~(state = "LOOKUP" /\ m.op = "write" /\ m.set = s /\ m.tag = t)
    BY <1>2, <1>3, <1>4, <2>1, <2>2, LineKept
  <2>3. CASE state = "LOOKUP" /\ m.op = "write" /\ m.set = s /\ m.tag = t
    <3>1. \A w \in Way : ~Caches(s, w, t)
      BY <1>1, <2>3 DEF TagOutInv, Miss, TagHitAny, TagHit, Caches
    <3>2. \A w \in Way : ~Holds(s, w, t)'
      BY <1>5, <2>1, <3>1
    <3>3. memory[s][t] = arch[s][t]
      BY <1>5, <3>1, CleanLineInMemory
    <3>4. QED
      BY <1>2, <3>2, <3>3, LineInMemory
  <2>4. QED
    BY <2>2, <2>3
<1>8. QED
  BY <1>6, <1>7

(* A flush drops a set with nothing dirty in it. *)
LEMMA LineFlushed ==
  ASSUME ControlInv, DataInv, NEW in \in Request, NEW c \in BusInputs, Step(in, c),
         NEW s \in Set, NEW t \in Tag, LineUpToDate(s, t),
         state = "FLUSH", ~TagDirtyAny
  PROVE  LineUpToDate(s, t)'
<1>1. TypeOK /\ PhaseInv /\ TagOutInv
  BY DEF ControlInv
<1>2. arch' = arch /\ memory' = memory
  BY ArchStep, MemoryStep DEF DataInv
<1>3. flushing /\ TagWriteSet = flushAddr /\ TagWays(c) = Way /\ NewTag = InvalidTag
  BY <1>1 DEF PhaseInv, TagWriteSet, TagWays, NewTag
<1>4. state' # "REFILL"
  BY StepMoves DEF Moves
<1>5. CASE s = flushAddr
  <2>1. \A w \in Way : ~(tagRam[s][w].valid /\ tagRam[s][w].dirty)
    BY <1>1, <1>5 DEF TagDirtyAny, TagDirty, TagOutInv
  <2>2. memory[s][t] = arch[s][t]
    BY <2>1, CleanLineInMemory DEF Holds, Caches
  <2>3. \A w \in Way : ~Holds(s, w, t)'
    BY <1>1, <1>3, <1>5, TagStep DEF Holds, Caches, InvalidTag
  <2>4. QED
    BY <1>2, <2>2, <2>3, LineInMemory
<1>6. CASE s # flushAddr
  <2>1. \A w \in Way : tagRam'[s][w] = tagRam[s][w]
    BY <1>1, <1>3, <1>6, TagStep
  <2>2. DataWays(c) = {}
    BY DEF DataWays
  <2>3. \A w \in Way, x \in Word : dataRam'[s][w][x] = dataRam[s][w][x]
    BY <1>1, <2>2, DataStep
  <2>4. \A w \in Way : Holds(s, w, t)' <=> Holds(s, w, t)
    BY <1>4, <2>1 DEF Holds, Caches
  <2>5. QED
    BY <1>2, <2>1, <2>3, <2>4, LineKept
<1>7. QED
  BY <1>5, <1>6

(* STATE_LOOKUP finishes a request that does not miss. *)
LEMMA LineServed ==
  ASSUME ControlInv, DataInv, NEW in \in Request, NEW c \in BusInputs, Step(in, c),
         NEW s \in Set, NEW t \in Tag, LineUpToDate(s, t),
         state = "LOOKUP", ~Miss
  PROVE  LineUpToDate(s, t)'
<1>1. TypeOK /\ PhaseInv /\ TagOutInv
  BY DEF ControlInv
<1>2. memory' = memory
  BY MemoryStep
<1>3. /\ TagWriteSet = m.set /\ NewTag = Dirty(m.tag) /\ TagWays(c) = WrittenWays
      /\ DataWays(c) = WrittenWays /\ DataWriteAddr = RequestWord /\ NewData(c) = m.data
  BY <1>1 DEF PhaseInv, Evicting, TagWriteSet, NewTag, TagWays, DataWays, DataWriteAddr,
              NewData
<1>4. state' # "REFILL"
  BY StepMoves, NextOnInputCases, InputsTyped, <1>1 DEF Moves
<1>5. \A w \in Way : w \in WrittenWays => m.op = "write" /\ TagHit(w)
  BY DEF WrittenWays, HitWays
<1>6. m.op = "write" => tagOut = tagRam[m.set]
  BY <1>1 DEF TagOutInv
<1>7. /\ m.set \in Set /\ m.tag \in Tag /\ m.word \in Word
      /\ arch \in [Set -> [Tag -> [Word -> Value]]]
  BY <1>1 DEF TypeOK, Request
<1>8. CASE m.op = "write" /\ s = m.set /\ t = m.tag
  <2>1. arch' = [arch EXCEPT ![s][t][m.word] = m.data]
    BY <1>8, ArchStep DEF DataInv
  <2>2. arch'[s][t] = [arch[s][t] EXCEPT ![m.word] = m.data]
    BY <1>7, <1>8, <2>1
  <2>3. PICK h \in Way : TagHit(h)
    BY <1>8 DEF Miss, TagHitAny
  <2>4. \A w \in Way : Holds(s, w, t)' <=> TagHit(w)
    BY <1>1, <1>3, <1>4, <1>6, <1>8, TagStep
       DEF Holds, Caches, TagHit, WrittenWays, HitWays, Dirty
  <2>5. ASSUME NEW w \in Way, TagHit(w), NEW x \in Word
        PROVE  dataRam'[s][w][x] = arch'[s][t][x] /\ tagRam'[s][w].dirty
    <3>1. w \in WrittenWays
      BY <1>8, <2>5 DEF WrittenWays, HitWays
    <3>2. tagRam'[s][w].dirty
      BY <1>1, <1>3, <1>8, <3>1, TagStep DEF Dirty
    <3>3. dataRam'[s][w][x] = IF x = m.word THEN m.data ELSE dataRam[s][w][x]
      BY <1>1, <1>3, <1>8, <3>1, DataStep DEF RequestWord
    <3>4. Holds(s, w, t)
      BY <1>6, <1>8, <2>5 DEF Holds, Caches, TagHit
    <3>5. Accepted(s, t, x, dataRam[s][w][x])
      BY <3>4 DEF LineUpToDate
    <3>6. x # m.word => dataRam[s][w][x] = arch[s][t][x]
      BY <3>5 DEF Accepted
    <3>7. arch'[s][t][x] = IF x = m.word THEN m.data ELSE arch[s][t][x]
      BY <1>7, <1>8, <2>2
    <3>8. QED
      BY <3>2, <3>3, <3>6, <3>7
  <2>6. 0 \in Word
    BY ConstantsTyped
  <2>7. QED
    BY <2>3, <2>4, <2>5, <2>6 DEF LineUpToDate, Accepted
<1>9. CASE ~(m.op = "write" /\ s = m.set /\ t = m.tag)
  <2>1. arch'[s][t] = arch[s][t]
    <3>1. CASE m.op = "write"
      <4>1. arch' = [arch EXCEPT ![m.set][m.tag][m.word] = m.data]
        BY <3>1, ArchStep DEF DataInv
      <4>2. QED
        BY <1>7, <1>9, <3>1, <4>1
    <3>2. CASE m.op # "write"
      BY <3>2, ArchStep DEF DataInv
    <3>3. QED
      BY <3>1, <3>2
  <2>2. \A w \in Way : Holds(s, w, t)' <=> Holds(s, w, t)
    BY <1>1, <1>3, <1>4, <1>5, <1>6, <1>9, TagStep DEF Holds, Caches, TagHit, Dirty
  <2>3. \A w \in Way : Holds(s, w, t) => ~(s = m.set /\ w \in WrittenWays)
    BY <1>5, <1>6, <1>9 DEF Holds, Caches, TagHit
  <2>4. \A w \in Way : Holds(s, w, t) =>
          /\ tagRam'[s][w] = tagRam[s][w]
          /\ \A x \in Word : dataRam'[s][w][x] = dataRam[s][w][x]
    BY <1>1, <1>3, <2>3, TagStep, DataStep DEF RequestWord
  <2>5. QED
    BY <1>2, <1>9, <2>1, <2>2, <2>4, LineKept
<1>10. QED
  BY <1>8, <1>9

(* A refill gives the way to the new line with its last word. *)
LEMMA LineRefilled ==
  ASSUME ControlInv, DataInv, BusErrors = FALSE,
         NEW in \in Request, NEW c \in BusInputs, Step(in, c), ControlInv',
         NEW s \in Set, NEW t \in Tag, LineUpToDate(s, t), state = "REFILL"
  PROVE  LineUpToDate(s, t)'
<1>1. TypeOK /\ PhaseInv /\ VictimInv /\ BurstInv
  BY DEF ControlInv
<1>2. memory' = memory /\ arch' = arch
  BY MemoryStep, ArchStep DEF DataInv
<1>3. state' \in {"REFILL", "READ", "WRITE"}
  BY StepMoves DEF Moves
<1>4. /\ m' = m /\ replaceWay' = replaceWay /\ TagWriteSet = m.set /\ tagOut = tagRam[m.set]
      /\ \/ ~(c.ack /\ PmemLast) /\ state' = "REFILL"
         \/ c.ack /\ PmemLast /\ state' \in {"READ", "WRITE"}
  BY <1>3, ToRefill
<1>5. m.set \in Set /\ m.tag \in Tag
  BY <1>1 DEF TypeOK, Request
<1>a. PICK r \in Way : r = replaceWay
  BY <1>1 DEF TypeOK
<1>b. PICK o \in Way : o = 1 - replaceWay /\ o # r /\ \A w \in Way : w = r \/ w = o
  BY <1>a DEF Way
<1>6. DataWriteAddr.set = m.set /\ (DataWays(c) = {} \/ DataWays(c) = {replaceWay})
  BY DEF DataInv, RefillInv, DataWriteAddr, DataWays
<1>7. \A w \in Way : ~(s = m.set /\ w = r) =>
        /\ tagRam'[s][w] = tagRam[s][w]
        /\ \A x \in Word : dataRam'[s][w][x] = dataRam[s][w][x]
  <2>1. TagWays(c) = {} \/ TagWays(c) = {replaceWay}
    BY DEF TagWays
  <2>2. QED
    BY <1>1, <1>4, <1>6, <1>a, <2>1, TagStep, DataStep
<1>8. CASE s = m.set /\ t = m.tag /\ state' # "REFILL"
  <2>1. c.ack /\ PmemLast
    BY <1>4, <1>8
  <2>2. \A x \in Word : x < burst.beat \/ (c.ack /\ x = burst.beat)
    <3>1. ~pmemRd
      BY <1>1, <2>1, AckToBurst DEF BurstInv, BusInStep
    <3>2. burst.beat = LineWords - 1
      BY <1>1, <2>1, <3>1, SizeAssumption DEF BurstInv, BusInStep, PmemLast, TypeOK, Burst, Word
    <3>3. QED
      BY <2>1, <3>2, SizeAssumption DEF Word
  <2>3. \A x \in Word : dataRam'[s][r][x] = arch'[s][t][x]
    BY <1>2, <1>a, <1>8, <2>2, RefillWord DEF DataInv
  <2>4. memory'[s][t] = arch'[s][t]
    BY <1>2, <1>8 DEF DataInv, RefillInv
  <2>5. ~Caches(s, o, t)
    BY <1>1, <1>4, <1>8, <1>b DEF VictimInv, TagHit, Caches
  <2>6. ~Holds(s, o, t)'
    BY <1>7, <1>b, <2>5 DEF Holds, Caches
  <2>7. QED
    BY <1>b, <2>3, <2>4, <2>6 DEF LineUpToDate, Accepted
<1>9. CASE ~(s = m.set /\ t = m.tag /\ state' # "REFILL")
  <2>1. ~(s = m.set /\ Holds(s, r, t)) /\ ~(s = m.set /\ Holds(s, r, t)')
    <3>1. s = m.set => ~Holds(s, r, t)
      BY <1>a DEF Holds
    <3>2. s = m.set /\ state' = "REFILL" => ~Holds(s, r, t)'
      BY <1>4, <1>a DEF Holds
    <3>3. s = m.set /\ state' # "REFILL" => ~Holds(s, r, t)'
      <4>1. SUFFICES ASSUME s = m.set, state' # "REFILL"
                     PROVE  ~Holds(s, r, t)'
        OBVIOUS
      <4>2. TagWays(c) = {replaceWay} /\ NewTag = Clean(m.tag)
        BY <1>1, <1>4, <4>1 DEF TagWays, NewTag, PhaseInv, Evicting
      <4>3. tagRam'[s][r] = Clean(m.tag)
        BY <1>a, <1>1, <1>4, <1>5, <4>1, <4>2, TagStep
      <4>4. QED
        BY <1>4, <1>9, <4>1, <4>3 DEF Holds, Caches, Clean
    <3>4. QED
      BY <3>1, <3>2, <3>3
  <2>2. \A w \in Way : ~(s = m.set /\ w = r) =>
          (Holds(s, w, t)' <=> Holds(s, w, t))
    BY <1>4, <1>7, <1>a DEF Holds, Caches
  <2>3. \A w \in Way : Holds(s, w, t)' <=> Holds(s, w, t)
    BY <2>1, <2>2
  <2>4. QED
    BY <1>2, <1>7, <2>1, <2>3, LineKept
<1>10. QED
  BY <1>8, <1>9

(* The write that caused a refill is stored. *)
LEMMA LineWritten ==
  ASSUME ControlInv, DataInv, NEW in \in Request, NEW c \in BusInputs, Step(in, c),
         NEW s \in Set, NEW t \in Tag, LineUpToDate(s, t), state = "WRITE"
  PROVE  LineUpToDate(s, t)'
<1>1. TypeOK /\ PhaseInv /\ VictimInv /\ TagOutInv /\ OneCopyPerLine
  BY DEF ControlInv
<1>2. memory' = memory /\ arch' = arch
  BY MemoryStep, ArchStep DEF DataInv
<1>3. state' = "LOOKUP" /\ m' = m /\ m.op = "write" /\ ~flushing
  BY <1>1, StepMoves, OutsideLookup DEF Moves, PhaseInv, Evicting
<1>4. /\ TagWriteSet = m.set /\ TagWays(c) = {replaceWay} /\ NewTag = Dirty(m.tag)
      /\ DataWriteAddr = RequestWord /\ NewData(c) = m.data /\ DataWays(c) = HitWays
  BY <1>3 DEF TagWriteSet, TagWays, NewTag, DataWriteAddr, NewData, DataWays, WrittenWays
<1>a. PICK r \in Way : r = replaceWay
  BY <1>1 DEF TypeOK
<1>5. TagHit(r) /\ tagOut = tagRam[m.set] /\ \A w \in Way : TagHit(w) => w = r
  BY <1>1, <1>a, OneHit DEF VictimInv, TagOutInv, Way
<1>6. HitWays = {r} /\ TagWays(c) = {r}
  BY <1>4, <1>5, <1>a DEF HitWays
<1>7. \A w \in Way : Holds(s, w, t)' <=> Holds(s, w, t)
  BY <1>1, <1>3, <1>4, <1>5, <1>6, TagStep DEF Holds, Caches, TagHit, Dirty
<1>8. CASE s = m.set /\ t = m.tag
  <2>1. \A w \in Way : Holds(s, w, t) <=> w = r
    BY <1>5, <1>8 DEF Holds, Caches, TagHit
  <2>2. tagRam'[s][r].dirty
    BY <1>1, <1>4, <1>6, <1>8, TagStep DEF Dirty
  <2>3. ASSUME NEW x \in Word
        PROVE  Accepted(s, t, x, dataRam[s][r][x])'
    <3>1. dataRam'[s][r][x] =
            IF x = m.word THEN m.data ELSE dataRam[s][r][x]
      BY <1>1, <1>4, <1>5, <1>6, <1>8, DataStep DEF RequestWord
    <3>2. dataRam[s][r][x] = arch[s][t][x]
      BY <1>5, <2>1 DEF LineUpToDate, Accepted
    <3>3. QED
      BY <1>2, <1>3, <1>8, <3>1, <3>2 DEF Accepted
  <2>4. QED
    BY <1>5, <1>7, <2>1, <2>2, <2>3 DEF LineUpToDate
<1>9. CASE ~(s = m.set /\ t = m.tag)
  <2>1. \A w \in Way : Holds(s, w, t) => ~(s = m.set /\ w = r)
    BY <1>5, <1>9 DEF Holds, Caches, TagHit
  <2>2. \A w \in Way : Holds(s, w, t) =>
          /\ tagRam'[s][w] = tagRam[s][w]
          /\ \A x \in Word : dataRam'[s][w][x] = dataRam[s][w][x]
    BY <1>1, <1>4, <1>6, <2>1, TagStep, DataStep DEF RequestWord
  <2>3. QED
    BY <1>2, <1>7, <1>9, <2>2, LineKept
<1>10. QED
  BY <1>8, <1>9

(* A beat of an eviction changes a line in memory that its way holds.      *)
LEMMA LineSaved ==
  ASSUME ControlInv, DataInv, NEW in \in Request, NEW c \in BusInputs, Step(in, c),
         NEW s \in Set, NEW t \in Tag, LineUpToDate(s, t), state = "EVICT", c.accept
  PROVE  LineUpToDate(s, t)'
<1> DEFINE tag == tagOut[replaceWay].tag
<1>1. TypeOK /\ PhaseInv /\ VictimInv /\ TagOutInv /\ OneCopyPerLine /\ BurstInv
  BY DEF ControlInv
<1>2. /\ WriteBeat.set = EvictSet /\ WriteBeat.tag = tag /\ WriteBeat.beat \in Word
  <2>1. pmemWr0 \in BOOLEAN /\ ~PmemRd
    BY <1>1, StepMoves DEF TypeOK, BurstInv, BusInStep, PmemRd, Entering, Moves
  <2>2. WriteBeat \in Burst
    BY <1>1, WriteBeatTyped
  <2>3. WriteBeat.beat \in Word
    BY <2>2 DEF Burst
  <2>4. QED
    BY <1>1, <2>1, <2>3 DEF WriteBeat, FirstBeat, BurstInv, BusInStep, DataInv, EvictInv
<1>3. /\ arch' = arch
      /\ memory' = [memory EXCEPT ![EvictSet][tag][WriteBeat.beat] = PmemWriteData]
  BY <1>2, MemoryStep, ArchStep DEF DataInv
<1>4. /\ EvictSet \in Set /\ replaceWay \in Way /\ tag \in Tag
      /\ memory \in [Set -> [Tag -> [Word -> Value]]]
      /\ tagOut = tagRam[EvictSet] /\ TagDirty(replaceWay)
  BY <1>1 DEF TypeOK, EvictSet, Request, TagOutInv, VictimInv, Evicting, TagEntry
<1>5. TagWays(c) = {} /\ DataWays(c) = {} /\ state' # "REFILL"
  BY StepMoves DEF TagWays, DataWays, Moves
<1>6. \A w \in Way :
        /\ tagRam'[s][w] = tagRam[s][w]
        /\ \A x \in Word : dataRam'[s][w][x] = dataRam[s][w][x]
  BY <1>1, <1>5, TagStep, DataStep
<1>7. \A w \in Way : Holds(s, w, t)' <=> Holds(s, w, t)
  BY <1>5, <1>6 DEF Holds, Caches
<1>8. CASE s = EvictSet /\ t = tag
  <2>1. Holds(s, replaceWay, t) /\ tagRam'[s][replaceWay].dirty
    BY <1>4, <1>6, <1>8 DEF Holds, Caches, TagDirty
  <2>2. \A w \in Way : Holds(s, w, t) => w = replaceWay
    BY <1>1, <1>4, <2>1 DEF OneCopyPerLine, Holds, Way
  <2>3. \A x \in Word : dataRam'[s][replaceWay][x] = arch'[s][t][x]
    BY <1>3, <1>4, <1>6, <2>1 DEF LineUpToDate, Accepted
  <2>4. QED
    BY <1>4, <1>7, <2>1, <2>2, <2>3 DEF LineUpToDate, Accepted
<1>9. CASE ~(s = EvictSet /\ t = tag)
  <2>1. memory'[s][t] = memory[s][t]
    BY <1>3, <1>4, <1>9
  <2>2. QED
    BY <1>3, <1>6, <1>7, <2>1, LineKept
<1>10. QED
  BY <1>8, <1>9

(* The write response: the victim is in memory, whole, and its way may go. *)
LEMMA LineEvicted ==
  ASSUME ControlInv, DataInv, NEW in \in Request, NEW c \in BusInputs, Step(in, c),
         NEW s \in Set, NEW t \in Tag, LineUpToDate(s, t), state = "EVICT_WAIT", c.ack
  PROVE  LineUpToDate(s, t)'
<1>1. TypeOK /\ PhaseInv /\ VictimInv /\ TagOutInv /\ OneCopyPerLine
  BY DEF ControlInv
<1>2. memory' = memory /\ arch' = arch
  BY MemoryStep, ArchStep DEF DataInv
<1>a. PICK r \in Way : r = replaceWay
  BY <1>1 DEF TypeOK
<1>3. /\ EvictSet \in Set /\ tagOut = tagRam[EvictSet] /\ TagDirty(r)
      /\ tagOut[r].tag \in Tag /\ m.tag \in Tag
  BY <1>1, <1>a DEF TypeOK, EvictSet, Request, TagOutInv, VictimInv, Evicting, TagEntry
<1>4. /\ TagWriteSet = EvictSet /\ TagWays(c) = {r} /\ DataWays(c) = {}
      /\ NewTag = IF flushing THEN InvalidTag ELSE Clean(m.tag)
  BY <1>a DEF TagWriteSet, EvictSet, TagWays, DataWays, NewTag
<1>5. \A w \in Way, x \in Word : dataRam'[s][w][x] = dataRam[s][w][x]
  BY <1>1, <1>4, DataStep
<1>6. \A w \in Way : tagRam'[s][w] =
         IF s = EvictSet /\ w = r THEN (IF flushing THEN InvalidTag ELSE Clean(m.tag))
         ELSE tagRam[s][w]
  BY <1>1, <1>4, TagStep
<1>7. /\ m' = m
      /\ state' = (IF m.op = "writeback" THEN "LOOKUP"
                   ELSE IF flushing THEN "FLUSH_ADDR" ELSE "REFILL")
      /\ state' = "REFILL" => replaceWay' = r
      /\ m.op # "writeback" /\ ~flushing => m.op \in {"read", "write"} /\ EvictSet = m.set
      /\ m.op = "writeback" => ~flushing /\ EvictSet = m.set /\ tagOut[r].tag = m.tag
  BY <1>1, <1>a, StepMoves, OutsideLookup, ToRefill
     DEF Moves, PhaseInv, Evicting, EvictSet, VictimInv, TagHit
<1>8. CASE s = EvictSet /\ t = tagOut[r].tag
  <2>1. Holds(s, r, t)
    BY <1>3, <1>8 DEF Holds, Caches, TagDirty
  <2>2. \A w \in Way : Holds(s, w, t) => w = r
    BY <1>1, <1>3, <2>1 DEF OneCopyPerLine, Holds, Way
  <2>3. \A x \in Word : dataRam[s][r][x] = arch[s][t][x] /\ memory[s][t][x] = dataRam[s][r][x]
    BY <1>8, <1>a, <2>1 DEF LineUpToDate, Accepted, DataInv, EvictInv
  <2>4. memory[s][t] \in [Word -> Value] /\ arch[s][t] \in [Word -> Value]
    BY <1>1 DEF TypeOK
  <2>5. memory[s][t] = arch[s][t]
    <3>1. \A x \in Word : memory[s][t][x] = arch[s][t][x]
      BY <2>3
    <3>2. QED
      BY <2>4, <3>1
  <2>6. CASE m.op = "writeback"
    <3>1. \A w \in Way : Holds(s, w, t)' => w = r
      BY <1>6, <1>7, <1>8, <2>2, <2>6 DEF Holds, Caches
    <3>2. \A x \in Word : dataRam'[s][r][x] = arch'[s][t][x]
      BY <1>2, <1>5, <2>3
    <3>3. QED
      BY <1>2, <2>5, <3>1, <3>2 DEF LineUpToDate, Accepted
  <2>7. CASE m.op # "writeback"
    <3>1. \A w \in Way : ~Holds(s, w, t)'
      BY <1>6, <1>7, <1>8, <2>2, <2>7 DEF Holds, Caches, InvalidTag
    <3>2. QED
      BY <1>2, <2>5, <3>1, LineInMemory
  <2>8. QED
    BY <2>6, <2>7
<1>9. CASE ~(s = EvictSet /\ t = tagOut[r].tag)
  <2>1. s = EvictSet => ~Holds(s, r, t)
    BY <1>3, <1>9 DEF Holds, Caches
  <2>2. s = EvictSet => ~Holds(s, r, t)'
    BY <1>6, <1>7, <1>9 DEF Holds, Caches, InvalidTag, Clean
  <2>3. \A w \in Way : ~(s = EvictSet /\ w = r) => (Holds(s, w, t)' <=> Holds(s, w, t))
    BY <1>6, <1>7 DEF Holds, Caches
  <2>4. \A w \in Way : Holds(s, w, t)' <=> Holds(s, w, t)
    BY <2>1, <2>2, <2>3
  <2>5. \A w \in Way : Holds(s, w, t) => tagRam'[s][w] = tagRam[s][w]
    BY <1>6, <2>1
  <2>6. QED
    BY <1>2, <1>5, <2>4, <2>5, LineKept
<1>10. QED
  BY <1>8, <1>9

(* Reset leaves every line in memory only. *)
LEMMA LineReset ==
  ASSUME ControlInv, DataInv, NEW in \in Request, NEW c \in BusInputs, Step(in, c),
         NEW s \in Set, NEW t \in Tag, state = "RESET", state' # "RESET"
  PROVE  LineUpToDate(s, t)'
<1>1. TypeOK /\ FlushInv
  BY DEF ControlInv
<1>2. memory' = memory /\ arch' = arch /\ memory = arch
  BY MemoryStep, ArchStep DEF DataInv
<1>3. flushLast /\ NewTag = InvalidTag
  BY StepMoves DEF Moves, NewTag
<1>4. \A w \in Way : ~tagRam[s][w].valid
  BY <1>1, <1>3 DEF FlushInv, Cleared
<1>5. \A w \in Way : ~Holds(s, w, t)'
  BY <1>1, <1>3, <1>4, TagStep DEF Holds, Caches, InvalidTag
<1>6. QED
  BY <1>2, <1>5, LineInMemory

(* No step loses a write. *)
LEMMA LinesStep ==
  ASSUME ControlInv, DataInv, BusErrors = FALSE,
         NEW in \in Request, NEW c \in BusInputs, Step(in, c), ControlInv'
  PROVE  NoLostWrite'
<1>0. SUFFICES ASSUME state' # "RESET", NEW s \in Set, NEW t \in Tag
               PROVE  LineUpToDate(s, t)'
  BY DEF NoLostWrite
<1>1. Moves(in, c) /\ PhaseInv
  BY StepMoves DEF ControlInv
<1>2. CASE state = "RESET"
  BY <1>0, <1>2, LineReset
<1>3. CASE state # "RESET"
  <2>1. LineUpToDate(s, t)
    BY <1>3 DEF DataInv, NoLostWrite
  <2>2. CASE state = "FLUSH" /\ ~TagDirtyAny
    BY <2>1, <2>2, LineFlushed
  <2>3. CASE state = "LOOKUP" /\ ~Miss
    BY <2>1, <2>3, LineServed
  <2>4. CASE state = "REFILL"
    BY <2>1, <2>4, LineRefilled
  <2>5. CASE state = "WRITE"
    BY <2>1, <2>5, LineWritten
  <2>6. CASE state = "EVICT" /\ c.accept
    BY <2>1, <2>6, LineSaved
  <2>7. CASE state = "EVICT_WAIT" /\ c.ack
    BY <2>1, <2>7, LineEvicted
  <2>8. CASE /\ ~(state = "FLUSH" /\ ~TagDirtyAny) /\ ~(state = "LOOKUP" /\ ~Miss)
             /\ state \notin {"REFILL", "WRITE"}
             /\ ~(state = "EVICT" /\ c.accept) /\ ~(state = "EVICT_WAIT" /\ c.ack)
    <3>1. state # "INVALIDATE"
      BY <1>1 DEF PhaseInv, DataInv
    <3>2. TagWays(c) = {} /\ DataWays(c) = {} /\ memory' = memory
      BY <1>3, <2>8, <3>1, MemoryStep DEF TagWays, DataWays
    <3>3. QED
      BY <1>3, <2>1, <2>8, <3>2, LineIdle
  <2>9. QED
    BY <2>2, <2>3, <2>4, <2>5, <2>6, <2>7, <2>8
<1>4. QED
  BY <1>2, <1>3

(* A write-back ends with the line in memory. *)
LEMMA WritebackStep ==
  ASSUME ControlInv, DataInv, NEW in \in Request, NEW c \in BusInputs, Step(in, c),
         ControlInv', NoLostWrite'
  PROVE  WritebackReachesMemory'
<1>0. SUFFICES ASSUME state' = "LOOKUP", m'.op = "writeback"
               PROVE  memory'[m'.set][m'.tag] = arch'[m'.set][m'.tag]
  BY DEF WritebackReachesMemory, MemAck
<1>1. TypeOK /\ PhaseInv /\ TagOutInv /\ VictimInv
  BY DEF ControlInv
<1>2. /\ \/ state = "EVICT_WAIT" /\ c.ack /\ ~flushing
         \/ state = "WRITEBACK" /\ ~TagHitAndDirty
      /\ m' = m /\ m.op = "writeback"
  <2>1. CASE state = "LOOKUP" /\ ~Miss
    <3>1. in.op = "writeback"
      BY <1>0, <2>1, BufferInLookup, StepMoves
    <3>2. state' = "WRITEBACK"
      BY <2>1, <3>1, StepMoves, NextOnInputCases, InputsTyped, <1>1 DEF Moves
    <3>3. QED
      BY <1>0, <3>2
  <2>2. QED
    BY <1>0, <2>1, ToLookup DEF Op
<1>3. memory' = memory /\ arch' = arch
  BY <1>2, MemoryStep, ArchStep DEF DataInv
<1>4. m.set \in Set /\ m.tag \in Tag
  BY <1>1 DEF TypeOK, Request
<1>5. LineUpToDate(m.set, m.tag)'
  <2>1. \A s \in Set, t \in Tag : LineUpToDate(s, t)'
    BY <1>0 DEF NoLostWrite
  <2>2. PICK s \in Set, t \in Tag : s = m.set /\ t = m.tag
    BY <1>4
  <2>3. LineUpToDate(s, t)'
    BY <2>1
  <2>4. QED
    BY <1>2, <2>2, <2>3 DEF LineUpToDate, Holds, Caches, Accepted
<1>6. \A w \in Way : Caches(m.set, w, m.tag)' => ~tagRam'[m.set][w].dirty
  <2>1. CASE state = "WRITEBACK"
    <3>1. TagWays(c) = {} /\ tagOut = tagRam[m.set]
      BY <1>1, <2>1 DEF TagWays, TagOutInv
    <3>2. \A w \in Way : tagRam'[m.set][w] = tagRam[m.set][w]
      BY <1>1, <1>4, <3>1, TagStep
    <3>3. QED
      BY <1>2, <2>1, <3>1, <3>2 DEF TagHitAndDirty, TagHit, Caches
  <2>2. CASE state = "EVICT_WAIT"
    <3>1. /\ TagWriteSet = m.set /\ TagWays(c) = {replaceWay} /\ NewTag = Clean(m.tag)
          /\ TagHit(replaceWay) /\ tagOut = tagRam[m.set]
      BY <1>1, <1>2, <2>2
         DEF TagWriteSet, TagWays, NewTag, VictimInv, TagOutInv, Evicting, EvictSet
    <3>2. \A w \in Way : w = replaceWay \/ ~Caches(m.set, w, m.tag)
      <4>1. ~(TagHit(0) /\ TagHit(1))
        BY <1>1, <2>2, <3>1, OneHit DEF ControlInv
      <4>2. \A w \in Way : TagHit(w) => w = replaceWay
        BY <1>1, <3>1, <4>1 DEF TypeOK, Way
      <4>3. QED
        BY <3>1, <4>2 DEF TagHit, Caches
    <3>3. QED
      BY <1>1, <1>2, <1>4, <3>1, <3>2, TagStep DEF Caches, Clean
  <2>3. QED
    BY <1>2, <2>1, <2>2
<1>7. QED
  BY <1>0, <1>2, <1>5, <1>6 DEF LineUpToDate, Holds

---------------------------------------------------------------------------
(* The theorems.                                                           *)

(* The data invariant is kept by every step. *)
LEMMA DataInvStep ==
  ASSUME ControlInv, DataInv, BusErrors = FALSE,
         NEW in \in Request, in.op # "inval", NEW c \in BusInputs, Step(in, c),
         ControlInv'
  PROVE  DataInv'
<1>1. m'.op # "inval"
  <2>1. CASE state = "LOOKUP"
    BY <2>1, StepMoves, BufferInLookup DEF DataInv
  <2>2. CASE state # "LOOKUP"
    BY <2>2, StepMoves, OutsideLookup DEF DataInv
  <2>3. QED
    BY <2>1, <2>2
<1>2. NoLostWrite'
  BY LinesStep
<1>3. ReadInv'
  BY ReadStep
<1>4. EvictInv'
  BY EvictStep DEF DataInv
<1>5. RefillInv'
  BY RefillStep DEF DataInv
<1>6. WritebackReachesMemory'
  BY <1>2, WritebackStep
<1>7. state' = "RESET" => memory' = arch'
  <2>1. SUFFICES ASSUME state' = "RESET"
                 PROVE  memory' = arch'
    OBVIOUS
  <2>2. state = "RESET"
    BY <2>1, StepMoves, NextOnInputCases, InputsTyped DEF Moves, ControlInv
  <2>3. QED
    BY <2>2, MemoryStep, ArchStep DEF DataInv
<1>8. QED
  BY <1>1, <1>2, <1>3, <1>4, <1>5, <1>6, <1>7 DEF DataInv

(* At reset memory is the only copy. *)
LEMMA InitData == Init => DataInv
BY DEF Init, DataInv, NoRequest, NoLostWrite, ReadInv, EvictInv, RefillInv,
       WritebackReachesMemory, MemAck

(* The whole invariant is inductive when the bus reports no error and no   *)
(* line is invalidated.                                                    *)
LEMMA InvStep ==
  ASSUME QuietInputs
  PROVE  IInv /\ [Next]_vars => IInv'
<1> SUFFICES ASSUME IInv, [Next]_vars
             PROVE  IInv'
  OBVIOUS
<1>1. ControlInv /\ DataInv /\ ControlInv'
  BY ControlStep DEF IInv
<1>2. CASE Next
  <2>1. PICK in \in Requests : \E c \in BusInputs : Step(in, c)
    BY <1>2 DEF Next
  <2>2. PICK c \in BusInputs : Step(in, c)
    BY <2>1
  <2>3. in \in Request /\ in.op # "inval" /\ BusErrors = FALSE
    BY DataAssumption DEF QuietInputs
  <2>4. DataInv'
    BY <1>1, <2>2, <2>3, DataInvStep
  <2>5. QED
    BY <1>1, <2>4 DEF IInv
<1>3. CASE UNCHANGED vars
  <2>1. NoLostWrite' /\ ReadInv'
    BY <1>1, <1>3 DEF DataInv, vars, cacheVars, busVars, NoLostWrite, LineUpToDate, Holds,
                      Caches, Accepted, ReadInv, TagHit
  <2>2. EvictInv' /\ RefillInv'
    BY <1>1, <1>3 DEF DataInv, vars, cacheVars, busVars, EvictInv, RefillInv, EvictSet,
                      NextWord, NextSet, PmemWriteData
  <2>3. WritebackReachesMemory'
    BY <1>1, <1>3 DEF DataInv, vars, cacheVars, busVars, WritebackReachesMemory, MemAck,
                      Miss, TagHitAny, TagHit
  <2>4. QED
    BY <1>1, <1>3, <2>1, <2>2, <2>3 DEF IInv, DataInv, vars, cacheVars, busVars
<1>4. QED
  BY <1>2, <1>3

(* The strengthening behind the data theorems. *)
THEOREM InvariantCorrect == QuietInputs => (Spec => []IInv)
<1> SUFFICES ASSUME QuietInputs
             PROVE  Spec => []IInv
  OBVIOUS
<1>1. Init => IInv
  BY InitControl, InitData DEF IInv
<1>2. IInv /\ [Next]_vars => IInv'
  BY InvStep
<1>3. QED
  BY <1>1, <1>2, PTL DEF Spec

(* What the invariant says of the answers the CPU side is given.           *)
LEMMA AnswersRight ==
  ASSUME IInv
  PROVE  ReadReturnsLastWrite /\ FlushEmptiesCache /\ WritebackReachesMemory
<1>1. TypeOK /\ TagOutInv /\ FlushInv /\ OneCopyPerLine /\ NoLostWrite /\ ReadInv
  BY DEF IInv, ControlInv, DataInv
<1>2. ReadReturnsLastWrite
  <2>1. SUFFICES ASSUME state = "LOOKUP", m.op = "read", ~Miss
                 PROVE  MemDataRd = arch[m.set][m.tag][m.word]
    BY DEF ReadReturnsLastWrite, MemAck
  <2>2. PICK h \in Way : TagHit(h)
    BY <2>1 DEF Miss, TagHitAny
  <2>3. tagOut = tagRam[m.set] /\ m.set \in Set /\ m.tag \in Tag /\ m.word \in Word
    BY <1>1, <2>1 DEF TagOutInv, TypeOK, Request
  <2>4. ~(TagHit(0) /\ TagHit(1))
    BY <1>1, <2>1, <2>3, OneHit
  <2>5. MemDataRd = dataOut[h]
    BY <2>2, <2>4 DEF MemDataRd, Way
  <2>6. dataOut[h] = dataRam[m.set][h][m.word]
    BY <1>1, <2>1, <2>2 DEF ReadInv
  <2>7. Holds(m.set, h, m.tag)
    BY <2>1, <2>2, <2>3 DEF Holds, Caches, TagHit
  <2>8. LineUpToDate(m.set, m.tag)
    BY <1>1, <2>1, <2>3 DEF NoLostWrite
  <2>9. dataRam[m.set][h][m.word] = arch[m.set][m.tag][m.word]
    BY <2>1, <2>3, <2>7, <2>8 DEF LineUpToDate, Accepted
  <2>10. QED
    BY <2>5, <2>6, <2>9
<1>3. FlushEmptiesCache
  <2>1. SUFFICES ASSUME state = "LOOKUP", m.op = "flush", NEW s \in Set
                 PROVE  (\A w \in Way : ~tagRam[s][w].valid) /\ memory[s] = arch[s]
    BY DEF FlushEmptiesCache, MemAck
  <2>2. \A w \in Way : ~tagRam[s][w].valid
    BY <1>1, <2>1 DEF FlushInv, Cleared
  <2>3. \A t \in Tag : memory[s][t] = arch[s][t]
    BY <1>1, <2>1, <2>2 DEF NoLostWrite, LineUpToDate, Holds, Caches
  <2>4. memory[s] = arch[s]
    BY <1>1, <2>3 DEF TypeOK
  <2>5. QED
    BY <2>2, <2>4
<1>4. QED
  BY <1>2, <1>3 DEF IInv, DataInv

(* No acknowledged write is ever lost, for every number of sets, tags and  *)
(* words and every sequence of requests, when the bus reports no error and *)
(* no line is invalidated.                                                 *)
THEOREM NoLostWriteCorrect == QuietInputs => (Spec => []NoLostWrite)
<1>1. IInv => NoLostWrite
  BY DEF IInv, DataInv
<1>2. QED
  BY <1>1, InvariantCorrect, PTL

(* Every read is answered with the last value written to its address,      *)
(* under the same assumption.                                              *)
THEOREM ReadsCorrect == QuietInputs => (Spec => []ReadReturnsLastWrite)
<1>1. IInv => ReadReturnsLastWrite
  BY AnswersRight
<1>2. QED
  BY <1>1, InvariantCorrect, PTL

(* An acknowledged flush leaves nothing in the cache and everything in     *)
(* memory, under the same assumption.                                      *)
THEOREM FlushCorrect == QuietInputs => (Spec => []FlushEmptiesCache)
<1>1. IInv => FlushEmptiesCache
  BY AnswersRight
<1>2. QED
  BY <1>1, InvariantCorrect, PTL

(* An acknowledged write-back leaves its line in memory, under the same    *)
(* assumption.                                                             *)
THEOREM WritebackCorrect == QuietInputs => (Spec => []WritebackReachesMemory)
<1>1. IInv => WritebackReachesMemory
  BY AnswersRight
<1>2. QED
  BY <1>1, InvariantCorrect, PTL

---------------------------------------------------------------------------
(* Refinement.                                                             *)

PortAnswer == IF MemAck THEN {IF m.op = "read" THEN MemDataRd ELSE Zero} ELSE {}

PortAnswers ==
  /\ PortAnswer \in Port!Answers(arch, m)
  /\ m.op = "none" => PortAnswer = {}
  /\ ~MemAck => PortAnswer = {}
  /\ MemAck => PortAnswer # {}

(* Every answer is one the abstract memory may give. *)
LEMMA AnswerAllowed == IInv => PortAnswers
<1> SUFFICES ASSUME IInv PROVE PortAnswers
  OBVIOUS
<1>1. m.op = "none" => ~MemAck
  BY DEF MemAck
<1>2. MemAck /\ m.op = "read" => MemDataRd = arch[m.set][m.tag][m.word]
  BY AnswersRight DEF ReadReturnsLastWrite
<1>3. QED
  BY <1>1, <1>2 DEF PortAnswers, PortAnswer, Port!Answers, Port!Read

(* The same of the state after a step. *)
LEMMA AnswerAllowedNext == IInv' => PortAnswers'
BY AnswerAllowed, PTL

(* A clock edge is a step of the abstract memory, or nothing it sees.      *)
LEMMA PortStep ==
  ASSUME QuietInputs, IInv, IInv', [Next]_vars
  PROVE  [Port!Wait \/ Port!Take]_(Port!portVars)
<1> USE DEF Port!portVars
<1>1. CASE Next
  <2>1. PICK in \in Requests : \E c \in BusInputs : Step(in, c)
    BY <1>1 DEF Next
  <2>2. PICK c \in BusInputs : Step(in, c)
    BY <2>1
  <2>3. ControlInv /\ DataInv /\ RequestBuffer(in) /\ Clock(in, c)
    BY <2>2, StepMoves DEF IInv, Clock
  <2>4. /\ PortAnswer' \in Port!Answers(arch, m)'
        /\ m'.op = "none" => PortAnswer' = {}
        /\ PortAnswer \in Port!Answers(arch, m)
    BY AnswerAllowed, AnswerAllowedNext DEF PortAnswers
  <2>5. Port!Answers(arch, m)' = Port!Answers(arch', m')
    BY DEF Port!Answers, Port!Read
  <2>6. CASE MemAck
    <3>1. m' \in Requests \cup {NoRequest}
      BY <2>3, <2>6 DEF RequestBuffer
    <3>2. arch' = Port!Write(arch, m)
      BY <2>2, <2>3, <2>6, ArchStep DEF MemAck, Port!Write, DataInv
    <3>3. PortAnswer # {}
      BY <2>6, AnswerAllowed DEF PortAnswers
    <3>4. Port!Take
      BY <2>4, <2>5, <3>1, <3>2, <3>3 DEF Port!Take, PortAnswer
    <3>5. QED
      BY <3>4
  <2>7. CASE ~MemAck /\ m.op # "none"
    <3>1. state = "LOOKUP" => Miss
      BY <2>7 DEF MemAck
    <3>2. m' = m /\ arch' = arch
      BY <2>2, <2>3, <3>1, OutsideLookup, BufferInLookup, ArchStep DEF DataInv
    <3>3. PortAnswer = {}
      BY <2>7, AnswerAllowed DEF PortAnswers
    <3>4. Port!Wait
      BY <2>4, <2>5, <2>7, <3>2, <3>3 DEF Port!Wait, PortAnswer
    <3>5. QED
      BY <3>4
  <2>8. CASE m.op = "none"
    <3>1. ~Miss /\ ~MemAck /\ PortAnswer = {}
      BY <2>8, AnswerAllowed DEF PortAnswers, Miss, MemAck
    <3>2. arch' = arch /\ Port!Write(arch, m) = arch
      BY <2>2, <2>3, <2>8, ArchStep DEF DataInv, Port!Write
    <3>3. CASE state = "LOOKUP"
      <4>1. m' = in
        BY <2>3, <2>8, <3>1, <3>3 DEF RequestBuffer, MemAccept
      <4>2. Port!Take
        BY <2>4, <2>5, <2>8, <3>2, <4>1 DEF Port!Take, PortAnswer
      <4>3. QED
        BY <4>2
    <3>4. CASE state # "LOOKUP"
      <4>1. m' = m
        BY <2>3, <3>4, OutsideLookup
      <4>2. PortAnswer' = {}
        BY <2>4, <2>8, <4>1
      <4>3. QED
        BY <3>1, <3>2, <4>1, <4>2 DEF PortAnswer
    <3>5. QED
      BY <3>3, <3>4
  <2>9. QED
    BY <2>6, <2>7, <2>8
<1>2. CASE UNCHANGED vars
  BY <1>2 DEF vars, cacheVars, busVars, MemAck, Miss, TagHitAny, TagHit, MemDataRd
<1>3. QED
  BY <1>1, <1>2

(* The cache implements a plain memory that answers one request at a time: *)
(* to the CPU side it is transparent, for every number of sets, tags and   *)
(* words, when the bus reports no error and no line is invalidated.        *)
THEOREM RefinementCorrect == QuietInputs => (Spec => RefinesMemoryPort)
<1> SUFFICES ASSUME QuietInputs
             PROVE  Spec => RefinesMemoryPort
  OBVIOUS
<1>1. Init => Port!PortInit
  BY DEF Init, Port!PortInit, MemAck
<1>2. IInv /\ IInv' /\ [Next]_vars => [Port!Wait \/ Port!Take]_(Port!portVars)
  BY PortStep
<1>3. Spec => []IInv
  BY InvariantCorrect
<1>4. QED
  BY <1>1, <1>2, <1>3, PTL DEF Spec, RefinesMemoryPort, Port!PortSpec

=============================================================================
