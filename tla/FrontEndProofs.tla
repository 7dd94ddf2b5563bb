----------------------------- MODULE FrontEndProofs -----------------------------
(***************************************************************************)
(* Proofs about the two parts of the front end, each on its own: Fetch,    *)
(* for every size of the address space and every set of privilege levels,  *)
(* and ICache, for every geometry, whatever is asked, stored and           *)
(* delivered.                                                              *)
(***************************************************************************)
EXTENDS Fetch, ICache, TLAPS

---------------------------------------------------------------------------
(* The fetch unit.  The invariant says where the next instruction due is:  *)
(* in the skid buffer, else on its way, else still to be asked for at      *)
(* pc_f_q, else waiting in the branch buffer.                              *)

(* A request on its way was asked for at pc_d_q; the request after it is   *)
(* the next word.                                                          *)
OnItsWay == \E p \in Priv : asked = {[pc |-> pcD, priv |-> p]}

Follows(t) == pcF = NextPc(t.pc) /\ privF = t.priv

Tracked ==
  /\ fetching <=> asked # {}
  /\ skid # {} => asked = {}
  /\ asked # {} => OnItsWay

(* Nothing happens before the first branch. *)
Started ==
  ~active => asked = {} /\ skid = {} /\ ~branchD /\ expected = branch

(* A branch waits: it is what is expected.                                 *)
Waiting == branch # {} => expected = branch

(* Its first request is not out yet.                                       *)
Turning == active /\ branch = {} /\ branchD => skid = {} /\ expected = {Asking}

(* The stream: the instruction expected is in the skid buffer, on its way, *)
(* or the next to be asked for.                                            *)
Held1 == \E t \in Target, f \in BOOLEAN :
           /\ skid = {[pc |-> t.pc, reply |-> [request |-> t, fault |-> f]]}
           /\ expected = {t} /\ Follows(t)

ComingNext == \E t \in Target : asked = {t} /\ expected = {t} /\ Follows(t)

Streaming ==
  active /\ branch = {} /\ ~branchD =>
    /\ skid # {} => Held1
    /\ skid = {} /\ asked # {} => ComingNext
    /\ skid = {} /\ asked = {} => expected = {Asking}

FetchIInv == FetchTypeOK /\ Tracked /\ Started /\ Waiting /\ Turning /\ Streaming

LEMMA TheSingleton == \A x : Only({x}) = x
BY DEF Only

LEMMA NextPcType == \A p \in Pc : NextPc(p) \in Pc
BY FetchAssumption, SMT DEF Pc, NextPc

LEMMA FetchInitInv == FetchInit => FetchIInv
<1> SUFFICES ASSUME FetchInit PROVE FetchIInv
    OBVIOUS
<1>1. 0 \in Pc
  BY FetchAssumption DEF Pc
<1> QED
  BY <1>1, FetchAssumption
  DEF FetchInit, FetchIInv, FetchTypeOK, Tracked, Started, Waiting, Turning, Streaming

(* What memory may drive: it answers only what it was asked.               *)
LEMMA MemoryInputsType ==
  ASSUME NEW i \in MemoryInputs
  PROVE  /\ i.accept \in BOOLEAN /\ i.valid \in BOOLEAN
         /\ i.valid => asked # {}
         /\ i.accept => asked = {} \/ i.valid
         /\ \A t : asked = {t} =>
              \E f \in BOOLEAN : i.reply = [request |-> t, fault |-> f]
<1> DEFINE R == {[request |-> t, fault |-> f] :
                   t \in asked \cup {x \in {[pc |-> pcF, priv |-> privF]} : asked = {}},
                   f \in BOOLEAN}
<1>1. /\ i.accept \in BOOLEAN /\ i.valid \in BOOLEAN /\ i.reply \in R
      /\ i.valid => asked # {}
      /\ i.accept => asked = {} \/ i.valid
  BY DEF MemoryInputs
<1>2. ASSUME NEW t, asked = {t}
      PROVE  \E f \in BOOLEAN : i.reply = [request |-> t, fault |-> f]
  BY <1>1, <1>2
<1> QED
  BY <1>1, <1>2

(* The instruction on offer is the one expected, and the unit goes on with *)
(* the one after it.                                                       *)
LEMMA Offered ==
  ASSUME FetchIInv, NEW i \in MemoryInputs, FetchValid(i)
  PROVE  \E t \in Target, f \in BOOLEAN :
           /\ Fetched(i) = [pc |-> t.pc, reply |-> [request |-> t, fault |-> f]]
           /\ expected = {t}
           /\ Follows(t)
<1>1. branch = {} /\ ~branchD /\ (i.valid \/ skid # {})
  BY DEF FetchValid, Drop
<1>2. active
  BY <1>1, MemoryInputsType DEF FetchIInv, Started
<1>3. CASE skid # {}
  <2>1. Held1
    BY <1>1, <1>2, <1>3 DEF FetchIInv, Streaming
  <2> QED
    BY <2>1, <1>3, TheSingleton DEF Held1, Fetched
<1>4. CASE skid = {}
  <2>1. asked # {}
    BY <1>1, <1>4, MemoryInputsType
  <2>2. PICK t \in Target : asked = {t} /\ expected = {t} /\ Follows(t)
    BY <1>1, <1>2, <1>4, <2>1 DEF FetchIInv, Streaming, ComingNext
  <2>3. PICK f \in BOOLEAN : i.reply = [request |-> t, fault |-> f]
    BY <2>2, MemoryInputsType
  <2>4. pcD = t.pc
    BY <2>1, <2>2 DEF FetchIInv, Tracked, OnItsWay
  <2> QED
    BY <1>4, <2>2, <2>3, <2>4 DEF Fetched
<1> QED
  BY <1>3, <1>4

LEMMA InOrderHolds == FetchIInv => InOrder
<1> SUFFICES ASSUME FetchIInv, NEW i \in MemoryInputs, FetchValid(i)
             PROVE  /\ expected = {Fetched(i).reply.request}
                    /\ Fetched(i).pc = Fetched(i).reply.request.pc
    BY DEF InOrder
<1> QED
  BY Offered

(* What the rest of the core may drive. *)
LEMMA CoreInputsType ==
  ASSUME NEW d \in CoreInputs
  PROVE  /\ d.accept \in BOOLEAN
         /\ d.branch = {} \/ \E t \in Target : d.branch = {t}
BY DEF CoreInputs

(* Requests go out only when memory owes nothing after this cycle, and an  *)
(* active unit that does not stall makes one.                              *)
LEMMA Requesting ==
  ASSUME FetchIInv, NEW d \in CoreInputs, NEW i \in MemoryInputs
  PROVE  LET go == IcacheRd(d, i) /\ i.accept
         IN /\ go <=> active /\ ~Stall(d, i)
            /\ go => d.accept /\ (asked = {} \/ i.valid)
            /\ ~go /\ active => Stall(d, i)
BY CoreInputsType, MemoryInputsType DEF IcacheRd, Stall, Busy, FetchIInv, Tracked

LEMMA StepType ==
  ASSUME FetchIInv, NEW d \in CoreInputs, NEW i \in MemoryInputs, FetchCycle(d, i)
  PROVE  FetchTypeOK'
<1> USE DEF FetchCycle, FetchClock
<1>1. d.accept \in BOOLEAN /\ i.accept \in BOOLEAN /\ i.valid \in BOOLEAN
  BY CoreInputsType, MemoryInputsType
<1>2. /\ active' \in BOOLEAN /\ fetching' \in BOOLEAN
      /\ branchD' \in BOOLEAN /\ retry' \in BOOLEAN
  BY DEF ProgramCounter, RequestTracking, FetchingAfter
<1>3. branch' \in {{}} \cup {{t} : t \in Target}
  BY CoreInputsType DEF FetchIInv, FetchTypeOK, BranchBuffer
<1>4. \A t \in Target : t.pc \in Pc /\ t.priv \in Priv
  BY DEF Target
<1>5. branch # {} => Only(branch) \in Target
  BY TheSingleton DEF FetchIInv, FetchTypeOK
<1>6. pcF' \in Pc /\ pcD' \in Pc /\ privF' \in Priv
  BY <1>4, <1>5, NextPcType DEF FetchIInv, FetchTypeOK, ProgramCounter
<1>7. skid' \in {{}} \cup {{x} : x \in [pc : Pc, reply : Reply]}
  <2>1. CASE SkidHolds(d, i)
    <3>1. PICK t \in Target, f \in BOOLEAN :
            Fetched(i) = [pc |-> t.pc, reply |-> [request |-> t, fault |-> f]]
      BY <2>1, Offered DEF SkidHolds
    <3>2. Fetched(i) \in [pc : Pc, reply : Reply]
      BY <3>1, <1>4 DEF Reply
    <3> QED
      BY <2>1, <3>2 DEF ResponseBuffer
  <2>2. CASE ~SkidHolds(d, i)
    BY <2>2 DEF ResponseBuffer
  <2> QED
    BY <2>1, <2>2
<1>8. Asking \in Target
  BY DEF Asking, Target, FetchIInv, FetchTypeOK
<1>9. asked' \in {{}} \cup {{t} : t \in Target}
  BY <1>8 DEF Memory, FetchIInv, FetchTypeOK
<1>10. expected' \in {{}} \cup {{t} : t \in Target}
  <2>1. \A t \in Target : [t EXCEPT !.pc = NextPc(@)] \in Target
    BY NextPcType DEF Target
  <2>2. {[t EXCEPT !.pc = NextPc(@)] : t \in expected} \in {{}} \cup {{t} : t \in Target}
    <3>1. CASE expected = {}
      BY <3>1
    <3>2. CASE expected # {}
      <4>1. PICK t \in Target : expected = {t}
        BY <3>2 DEF FetchIInv, FetchTypeOK
      <4>2. {[x EXCEPT !.pc = NextPc(@)] : x \in expected} = {[t EXCEPT !.pc = NextPc(@)]}
        BY <4>1
      <4> QED
        BY <2>1, <4>2
    <3> QED
      BY <3>1, <3>2
  <2> QED
    BY <2>2, CoreInputsType DEF FetchHistory, FetchIInv, FetchTypeOK
<1> QED
  BY <1>2, <1>3, <1>6, <1>7, <1>9, <1>10 DEF FetchTypeOK

LEMMA StepTracked ==
  ASSUME FetchIInv, NEW d \in CoreInputs, NEW i \in MemoryInputs, FetchCycle(d, i)
  PROVE  Tracked'
<1> DEFINE go == IcacheRd(d, i) /\ i.accept
<1>1. /\ fetching' = (go \/ (fetching /\ ~i.valid))
      /\ asked' = IF go THEN {Asking} ELSE IF i.valid THEN {} ELSE asked
      /\ pcD' = IF go THEN pcF ELSE pcD
      /\ skid' = IF FetchValid(i) /\ ~d.accept THEN {Fetched(i)} ELSE {}
  BY DEF FetchCycle, FetchClock, RequestTracking, FetchingAfter, Memory,
         ProgramCounter, ResponseBuffer, SkidHolds
<1>2. go => d.accept
  BY Requesting
<1>3. i.valid \in BOOLEAN /\ d.accept \in BOOLEAN /\ {Asking} # {}
  BY CoreInputsType, MemoryInputsType
<1>4. fetching' <=> asked' # {}
  BY <1>1, <1>3 DEF FetchIInv, Tracked
<1>5. skid' # {} => asked' = {}
  <2> SUFFICES ASSUME skid' # {} PROVE asked' = {}
      OBVIOUS
  <2>1. FetchValid(i) /\ ~d.accept /\ ~go
    BY <1>1, <1>2
  <2>2. i.valid \/ asked = {}
    BY <2>1 DEF FetchValid, FetchIInv, Tracked
  <2> QED
    BY <1>1, <2>1, <2>2
<1>6. asked' # {} => OnItsWay'
  <2>1. CASE go
    BY <1>1, <2>1 DEF OnItsWay, Asking, FetchIInv, FetchTypeOK
  <2>2. CASE ~go
    BY <1>1, <2>2 DEF OnItsWay, FetchIInv, Tracked
  <2> QED
    BY <2>1, <2>2
<1> QED
  BY <1>4, <1>5, <1>6 DEF Tracked

(* What a cycle does, as the remaining steps use it. *)
LEMMA ClockStep ==
  ASSUME FetchIInv, NEW d \in CoreInputs, NEW i \in MemoryInputs, FetchCycle(d, i)
  PROVE  LET go   == IcacheRd(d, i) /\ i.accept
             turn == branch # {} /\ ~Stall(d, i)
         IN /\ branch' = IF d.branch # {} THEN d.branch ELSE IF go THEN {} ELSE branch
            /\ active' = (active \/ turn)
            /\ pcF' = IF turn THEN Only(branch).pc
                      ELSE IF ~Stall(d, i) THEN NextPc(pcF) ELSE pcF
            /\ privF' = IF turn THEN Only(branch).priv ELSE privF
            /\ branchD' = (turn \/ (branchD /\ Stall(d, i)))
            /\ skid' = IF FetchValid(i) /\ ~d.accept THEN {Fetched(i)} ELSE {}
            /\ asked' = IF go THEN {Asking} ELSE IF i.valid THEN {} ELSE asked
            /\ expected' = IF d.branch # {} THEN d.branch
                           ELSE IF FetchValid(i) /\ d.accept
                             THEN {[t EXCEPT !.pc = NextPc(@)] : t \in expected}
                           ELSE expected
BY DEF FetchCycle, FetchClock, BranchBuffer, BranchTaken, ProgramCounter,
       ResponseBuffer, SkidHolds, Memory, FetchHistory

LEMMA StepStarted ==
  ASSUME FetchIInv, NEW d \in CoreInputs, NEW i \in MemoryInputs, FetchCycle(d, i)
  PROVE  Started'
<1> SUFFICES ASSUME ~active'
             PROVE  /\ asked' = {} /\ skid' = {}
                    /\ ~branchD' /\ expected' = branch'
    BY DEF Started
<1>1. ~active /\ ~(branch # {} /\ ~Stall(d, i))
  BY ClockStep
<1>2. asked = {} /\ skid = {} /\ ~branchD /\ expected = branch
  BY <1>1 DEF FetchIInv, Started
<1>3. ~FetchValid(i) /\ ~IcacheRd(d, i) /\ ~i.valid
  BY <1>1, <1>2, MemoryInputsType DEF FetchValid, IcacheRd
<1> QED
  BY <1>1, <1>2, <1>3, ClockStep

LEMMA StepWaiting ==
  ASSUME FetchIInv, NEW d \in CoreInputs, NEW i \in MemoryInputs, FetchCycle(d, i)
  PROVE  Waiting'
<1> SUFFICES ASSUME branch' # {} PROVE expected' = branch'
    BY DEF Waiting
<1>1. CASE d.branch # {}
  BY <1>1, ClockStep
<1>2. CASE d.branch = {}
  <2>1. branch' = branch /\ branch # {}
    BY <1>2, ClockStep
  <2>2. ~FetchValid(i)
    BY <2>1 DEF FetchValid, Drop
  <2> QED
    BY <1>2, <2>1, <2>2, ClockStep DEF FetchIInv, Waiting
<1> QED
  BY <1>1, <1>2

LEMMA StepTurning ==
  ASSUME FetchIInv, NEW d \in CoreInputs, NEW i \in MemoryInputs, FetchCycle(d, i)
  PROVE  Turning'
<1> SUFFICES ASSUME active', branch' = {}, branchD'
             PROVE  skid' = {} /\ expected' = {Asking'}
    BY DEF Turning
<1>1. d.branch = {}
  BY ClockStep
<1>2. CASE branch # {}
  <2>1. ~FetchValid(i)
    BY <1>2 DEF FetchValid, Drop
  <2>2. ~Stall(d, i)
    BY <1>1, <1>2, ClockStep, Requesting
  <2>3. PICK t \in Target : branch = {t}
    BY <1>2 DEF FetchIInv, FetchTypeOK
  <2>4. t = [pc |-> t.pc, priv |-> t.priv]
    BY DEF Target
  <2>5. pcF' = t.pc /\ privF' = t.priv
    BY <1>2, <2>2, <2>3, ClockStep, TheSingleton
  <2>6. expected = {t}
    BY <1>2, <2>3 DEF FetchIInv, Waiting
  <2> QED
    BY <1>1, <2>1, <2>4, <2>5, <2>6, ClockStep DEF Asking
<1>3. CASE branch = {}
  <2>1. active /\ branchD /\ Stall(d, i)
    BY <1>3, ClockStep
  <2>2. skid = {} /\ expected = {Asking} /\ ~FetchValid(i)
    BY <1>3, <2>1 DEF FetchIInv, Turning, FetchValid, Drop
  <2>3. pcF' = pcF /\ privF' = privF
    BY <1>3, <2>1, ClockStep
  <2> QED
    BY <1>1, <2>2, <2>3, ClockStep DEF Asking
<1> QED
  BY <1>2, <1>3

(* A request that goes out is the next one due, and the program counter    *)
(* moves past it.                                                          *)
LEMMA GoesOut ==
  ASSUME FetchIInv, NEW d \in CoreInputs, NEW i \in MemoryInputs, FetchCycle(d, i),
         IcacheRd(d, i), i.accept, branch = {}, expected' = {Asking}
  PROVE  ComingNext'
<1>1. ~Stall(d, i)
  BY Requesting
<1>2. pcF' = NextPc(pcF) /\ privF' = privF /\ asked' = {Asking}
  BY <1>1, ClockStep
<1>3. Asking \in Target /\ Asking.pc = pcF /\ Asking.priv = privF
  BY DEF Asking, Target, FetchIInv, FetchTypeOK
<1> QED
  BY <1>2, <1>3 DEF ComingNext, Follows

LEMMA StepStreaming ==
  ASSUME FetchIInv, NEW d \in CoreInputs, NEW i \in MemoryInputs, FetchCycle(d, i)
  PROVE  Streaming'
<1> SUFFICES ASSUME active', branch' = {}, ~branchD'
             PROVE  /\ skid' # {} => Held1'
                    /\ skid' = {} /\ asked' # {} => ComingNext'
                    /\ skid' = {} /\ asked' = {} => expected' = {Asking'}
    BY DEF Streaming
<1> DEFINE go == IcacheRd(d, i) /\ i.accept
<1>1. d.branch = {}
  BY ClockStep
<1>2. branch = {} /\ active
  BY <1>1, ClockStep, Requesting
<1>3. /\ go <=> ~Stall(d, i)
      /\ go => d.accept /\ (asked = {} \/ i.valid)
  BY <1>2, Requesting
<1>4. privF' = privF /\ (~go => pcF' = pcF)
  BY <1>2, <1>3, ClockStep
<1>5. asked' = IF go THEN {Asking} ELSE IF i.valid THEN {} ELSE asked
  BY ClockStep
<1>6. CASE branchD
  <2>1. go
    BY <1>3, <1>6, ClockStep
  <2>2. skid = {} /\ expected = {Asking} /\ ~FetchValid(i)
    BY <1>2, <1>6 DEF FetchIInv, Turning, FetchValid, Drop
  <2>3. skid' = {} /\ expected' = {Asking} /\ asked' # {}
    BY <1>1, <1>5, <2>1, <2>2, ClockStep
  <2> QED
    BY <1>2, <2>1, <2>3, GoesOut
<1>7. CASE ~branchD /\ FetchValid(i) /\ d.accept
  <2>1. PICK t \in Target : expected = {t} /\ Follows(t)
    BY <1>7, Offered
  <2>2. [t EXCEPT !.pc = NextPc(@)] = Asking
    BY <2>1 DEF Follows, Asking, Target
  <2>3. skid' = {} /\ expected' = {[x EXCEPT !.pc = NextPc(@)] : x \in expected}
    BY <1>1, <1>7, ClockStep
  <2>4. expected' = {Asking}
    BY <2>1, <2>2, <2>3
  <2>5. CASE go
    BY <1>2, <1>5, <2>3, <2>4, <2>5, GoesOut
  <2>6. CASE ~go
    <3>1. asked' = {}
      BY <1>5, <1>7, <2>6 DEF FetchValid, FetchIInv, Tracked
    <3> QED
      BY <1>4, <2>3, <2>4, <2>6, <3>1 DEF Asking
  <2> QED
    BY <2>5, <2>6
<1>8. CASE ~branchD /\ FetchValid(i) /\ ~d.accept
  <2>1. PICK t \in Target, f \in BOOLEAN :
          /\ Fetched(i) = [pc |-> t.pc, reply |-> [request |-> t, fault |-> f]]
          /\ expected = {t} /\ Follows(t)
    BY <1>8, Offered
  <2>2. skid' = {Fetched(i)} /\ expected' = expected /\ ~go
    BY <1>1, <1>3, <1>8, ClockStep
  <2>3. skid' # {} /\ Held1'
    BY <1>4, <2>1, <2>2 DEF Held1, Follows
  <2> QED
    BY <2>3
<1>9. CASE ~branchD /\ ~FetchValid(i)
  <2>1. ~i.valid /\ skid = {} /\ skid' = {} /\ expected' = expected
    BY <1>1, <1>2, <1>9, ClockStep, MemoryInputsType DEF FetchValid, Drop
  <2>2. CASE asked # {}
    <3>1. ~go
      BY <1>3, <2>1, <2>2
    <3>2. asked' = asked
      BY <1>5, <2>1, <3>1
    <3>3. PICK t \in Target : asked = {t} /\ expected = {t} /\ Follows(t)
      BY <1>2, <1>9, <2>1, <2>2 DEF FetchIInv, Streaming, ComingNext
    <3>4. ComingNext'
      BY <1>4, <2>1, <3>1, <3>2, <3>3 DEF ComingNext, Follows
    <3> QED
      BY <2>1, <2>2, <3>2, <3>4
  <2>3. CASE asked = {}
    <3>1. expected = {Asking}
      BY <1>2, <1>9, <2>1, <2>3 DEF FetchIInv, Streaming
    <3>2. CASE go
      BY <1>2, <1>5, <2>1, <3>1, <3>2, GoesOut
    <3>3. CASE ~go
      BY <1>4, <1>5, <2>1, <2>3, <3>1, <3>3 DEF Asking
    <3> QED
      BY <3>2, <3>3
  <2> QED
    BY <2>2, <2>3
<1> QED
  BY <1>6, <1>7, <1>8, <1>9

LEMMA NextInv == FetchIInv /\ [FetchNext]_allFetchVars => FetchIInv'
<1> SUFFICES ASSUME FetchIInv, [FetchNext]_allFetchVars PROVE FetchIInv'
    OBVIOUS
<1>1. CASE FetchNext
  <2>1. PICK d \in CoreInputs, i \in MemoryInputs : FetchCycle(d, i)
    BY <1>1 DEF FetchNext
  <2> QED
    BY <2>1, StepType, StepTracked, StepStarted, StepWaiting, StepTurning,
       StepStreaming DEF FetchIInv
<1>2. CASE UNCHANGED allFetchVars
  BY <1>2 DEF allFetchVars, fetchVars, FetchIInv, FetchTypeOK, Tracked, OnItsWay, Started, Waiting,
              Turning, Streaming, Held1, ComingNext, Follows, Asking
<1> QED
  BY <1>1, <1>2

(* What the invariant says holds in every state of every execution. *)
THEOREM FetchInvariantHolds == FetchSpec => []FetchIInv
  BY FetchInitInv, NextInv, PTL DEF FetchSpec

(* Every register holds a value of its width. *)
THEOREM TypeCorrect == FetchSpec => []FetchTypeOK
<1>1. FetchIInv => FetchTypeOK
  BY DEF FetchIInv
<1> QED
  BY <1>1, FetchInvariantHolds, PTL

(* The decoder is given every word of the path the branches ask for, once  *)
(* and in order, whatever was on its way when a branch came.               *)
THEOREM InOrderCorrect == FetchSpec => []InOrder
  BY InOrderHolds, FetchInvariantHolds, PTL

(* icache_fetch_q tells whether memory owes an answer, and no answer meets *)
(* an occupied skid buffer.                                                *)
THEOREM AnswersTrackedCorrect == FetchSpec => []AnswersTracked
<1>1. FetchIInv => AnswersTracked
  BY DEF FetchIInv, Tracked, AnswersTracked
<1> QED
  BY <1>1, FetchInvariantHolds, PTL

---------------------------------------------------------------------------
(* The instruction cache.  The invariant says what each state knows of the *)
(* sets: which are consistent, which have been cleared, and which is being *)
(* refilled.                                                               *)

(* The address looked up, when there is one. *)
Sought == The(lookup)

Held(x, w) == tagRam[x][w].valid

Cleared(x) == \A w \in Way : ~Held(x, w)

AddressIn(x, w, i) == [tag |-> tagRam[x][w].tag, set |-> x, word |-> i]

(* A word of the cache is that of its address, and no older than the last  *)
(* flush of it.                                                            *)
GoodWord(d, a) == d.addr = a /\ (a \in Stored => d.version >= floor[a])

(* A line held is good, unless its refill failed. *)
Sound(x, w) ==
  Held(x, w) =>
    \/ [tag |-> tagRam[x][w].tag, set |-> x] \in poisoned
    \/ \A i \in Word : GoodWord(dataRam[x][w][i], AddressIn(x, w, i))

OneCopy(x) == \A t \in Tag : ~(Caches(x, 0, t) /\ Caches(x, 1, t))

Consistent(x) == OneCopy(x) /\ \A w \in Way : Sound(x, w)

(* The way being refilled is not sound while its words arrive, and the     *)
(* line it will hold is not in the set.                                    *)
Refilling(x) ==
  IF x # Sought.set THEN Consistent(x)
  ELSE /\ OneCopy(x) /\ Sound(x, 1 - replaceWay)
       /\ \A w \in Way : ~Caches(x, w, Sought.tag)

(* What each state knows of the sets. *)
SetsInv ==
  \A x \in Set :
    /\ state \in {"LOOKUP", "RELOOKUP"} => Consistent(x)
    /\ state = "REFILL" => Refilling(x)
    /\ state = "FLUSH" /\ invalidateQ /\ x # flushAddr => Consistent(x)
    /\ state = "FLUSH" /\ ~invalidateQ /\ x < flushAddr => Cleared(x)

(* The RAM outputs are those of the address looked up; but a lookup taken  *)
(* along with a flush sees those of the set flushed last.                  *)
OutputsInv ==
  state = "LOOKUP" /\ lookup # {} =>
    \/ /\ tagOut = tagRam[Sought.set]
       /\ \A w \in Way : dataOut[w] = dataRam[Sought.set][w][Sought.word]
    \/ doomed /\ Cleared(Sought.set)

FlushInv ==
  state = "FLUSH" /\ lookup # {} =>
    doomed /\ (invalidateQ => Sought.set = flushAddr)

(* The words of the line that have arrived. *)
RefillInv ==
  state = "REFILL" =>
    /\ dataAddr.set = Sought.set
    /\ burst = {} => dataAddr.word = 0
    /\ \A i \in Word :
         i < dataAddr.word =>
           \/ error
           \/ GoodWord(dataRam[Sought.set][replaceWay][i],
                       [tag |-> Sought.tag, set |-> Sought.set, word |-> i])

FloorInv == \A a \in Stored : floor[a] <= version[a]

IInv ==
  /\ RefillInStep
  /\ state = "RELOOKUP" => lookup # {}
  /\ SetsInv /\ OutputsInv /\ FlushInv /\ RefillInv /\ FloorInv

-----------------------------------------------------------------------------
(* Types and inputs.                                                       *)

LEMMA SoughtTyped ==
  ASSUME TypeOK, lookup # {}
  PROVE  /\ lookup = {Sought} /\ Sought \in Address
         /\ Sought.tag \in Tag /\ Sought.set \in Set /\ Sought.word \in Word
<1>1. PICK a \in Address : lookup = {a}
  BY DEF TypeOK
<1>2. The({a}) = a
  BY DEF The
<1>3. Sought = a
  BY <1>1, <1>2 DEF Sought
<1> QED
  BY <1>1, <1>3 DEF Address

(* The word the bus is about to deliver. *)
Coming == The(burst)

LEMMA ComingTyped ==
  ASSUME TypeOK, burst # {}
  PROVE  /\ burst = {Coming} /\ Coming \in Address
         /\ Coming.tag \in Tag /\ Coming.set \in Set /\ Coming.word \in Word
<1>1. PICK a \in Address : burst = {a}
  BY DEF TypeOK
<1>2. The({a}) = a
  BY DEF The
<1>3. Coming = a
  BY <1>1, <1>2 DEF Coming
<1> QED
  BY <1>1, <1>3 DEF Address

LEMMA InputsTyped ==
  ASSUME IInv, NEW in \in Requests, NEW s \in AxiInputs
  PROVE  /\ in.rd \in BOOLEAN /\ in.addr \in Address /\ in.op \in {"none", "flush", "inval"}
         /\ in.addr.tag \in Tag /\ in.addr.set \in Set /\ in.addr.word \in Word
         /\ s.arready \in BOOLEAN /\ s.rvalid \in BOOLEAN /\ s.error \in BOOLEAN
         /\ s.arready => burst = {}
         /\ s.rvalid => burst # {} /\ state = "REFILL"
         /\ s.error => s.rvalid
<1>1. in \in Request
  BY CacheAssumption
<1>2. burst # {} => state = "REFILL"
  BY DEF IInv, RefillInStep
<1> QED
  BY <1>1, <1>2 DEF Request, Address, AxiInputs

(* When the refill's place and the bus's word are there. *)
LEMMA RefillKnows ==
  ASSUME IInv, state = "REFILL"
  PROVE  /\ lookup # {}
         /\ arvalidQ <=> burst = {}
         /\ burst # {} => /\ Coming.tag = Sought.tag /\ Coming.set = Sought.set
                          /\ dataAddr = [set |-> Coming.set, word |-> Coming.word]
         /\ burst = {} => dataAddr = [set |-> Sought.set, word |-> 0]
<1>1. TypeOK /\ lookup # {} /\ (arvalidQ <=> burst = {})
  BY DEF IInv, RefillInStep
<1>2. ASSUME burst # {}
      PROVE  /\ Coming.tag = Sought.tag /\ Coming.set = Sought.set
             /\ dataAddr = [set |-> Coming.set, word |-> Coming.word]
  <2>1. /\ [Coming EXCEPT !.word = 0] = Araddr
        /\ dataAddr = [set |-> Coming.set, word |-> Coming.word]
    BY <1>1, <1>2, ComingTyped DEF IInv, RefillInStep
  <2>2. /\ Coming \in Address /\ Sought \in Address
        /\ Araddr = [Sought EXCEPT !.word = 0]
    BY <1>1, <1>2, ComingTyped, SoughtTyped DEF Araddr, Sought
  <2>3. [Coming EXCEPT !.word = 0].tag = Coming.tag /\ [Coming EXCEPT !.word = 0].set = Coming.set
    BY <2>2 DEF Address
  <2>4. [Sought EXCEPT !.word = 0].tag = Sought.tag /\ [Sought EXCEPT !.word = 0].set = Sought.set
    BY <2>2 DEF Address
  <2> QED
    BY <2>1, <2>2, <2>3, <2>4
<1>3. ASSUME burst = {} PROVE dataAddr = [set |-> Sought.set, word |-> 0]
  <2>1. dataAddr \in Place /\ dataAddr.set = Sought.set /\ dataAddr.word = 0
    BY <1>1, <1>3 DEF IInv, RefillInv, TypeOK
  <2> QED
    BY <2>1 DEF Place
<1> QED
  BY <1>1, <1>2, <1>3

LEMMA ConstantsTyped ==
  0 \in Set /\ 0 \in Tag /\ 0 \in Word /\ NumSets - 1 \in Set /\ LineWords - 1 \in Word
BY CacheAssumption DEF Set, Tag, Word

LEMMA TagSetTyped ==
  ASSUME IInv, NEW in \in Requests, NEW s \in AxiInputs
  PROVE  TagSet(in) \in Set /\ DataPlace(in) \in Place
<1>1. state \in {"REFILL", "RELOOKUP"} => lookup # {}
  BY DEF IInv, RefillInStep
<1>2. TypeOK
  BY DEF IInv, RefillInStep
<1> QED
  BY <1>1, <1>2, SoughtTyped, InputsTyped DEF TagSet, DataPlace, Place, Sought, TypeOK

(* What the RAMs hold after a cycle. *)
Entry == IF state = "REFILL" THEN [valid |-> TRUE, tag |-> Sought.tag]
         ELSE [valid |-> FALSE, tag |-> 0]

LEMMA TagEffect ==
  ASSUME IInv, NEW in \in Requests, NEW s \in AxiInputs, TagRams(in, s)
  PROVE  /\ tagRam' \in [Set -> [Way -> TagEntry]]
         /\ tagOut' = tagRam[TagSet(in)] /\ tagOut' \in [Way -> TagEntry]
         /\ \A x \in Set, w \in Way :
              tagRam'[x][w] = IF x = TagSet(in) /\ w \in TagWays(s) THEN Entry ELSE tagRam[x][w]
<1>1. tagRam \in [Set -> [Way -> TagEntry]] /\ TagSet(in) \in Set
  BY TagSetTyped DEF IInv, RefillInStep, TypeOK
<1>2. Entry \in TagEntry
  <2>1. state = "REFILL" => Sought.tag \in Tag
    BY RefillKnows, SoughtTyped DEF IInv, RefillInStep
  <2> QED
    BY <2>1, ConstantsTyped DEF Entry, TagEntry
<1>3. tagRam' = [tagRam EXCEPT ![TagSet(in)] =
                   [w \in Way |-> IF w \in TagWays(s) THEN Entry ELSE @[w]]]
  BY DEF TagRams, Entry, Sought
<1>4. tagOut' = tagRam[TagSet(in)]
  BY DEF TagRams
<1> QED
  BY <1>1, <1>2, <1>3, <1>4

LEMMA BusWordTyped ==
  ASSUME IInv, NEW s \in AxiInputs, s.rvalid
  PROVE  /\ BusWord(s) \in Data
         /\ ~s.error => GoodWord(BusWord(s), Coming)
<1>1. TypeOK /\ burst # {}
  BY DEF IInv, RefillInStep, AxiInputs
<1>2. Coming \in Address
  BY <1>1, ComingTyped
<1>3. CASE s.error
  BY <1>3, CacheAssumption DEF BusWord
<1>4. CASE ~s.error
  <2>1. BusWord(s) = [addr |-> Coming,
                      version |-> IF Coming \in Stored THEN version[Coming] ELSE 0]
    BY <1>4 DEF BusWord, Coming
  <2>2. CASE Coming \in Stored
    <3>1. version[Coming] \in 0 .. MaxVersion /\ floor[Coming] <= version[Coming]
          /\ floor[Coming] \in 0 .. MaxVersion
      BY <1>1, <2>2 DEF TypeOK, IInv, FloorInv
    <3>2. version[Coming] >= floor[Coming]
      BY <3>1, CacheAssumption
    <3> QED
      BY <1>2, <1>4, <2>1, <2>2, <3>1, <3>2 DEF Data, GoodWord
  <2>3. CASE Coming \notin Stored
    <3>1. 0 \in 0 .. MaxVersion
      BY CacheAssumption
    <3> QED
      BY <1>2, <1>4, <2>1, <2>3, <3>1 DEF Data, GoodWord
  <2> QED
    BY <2>2, <2>3
<1> QED
  BY <1>3, <1>4

LEMMA DataEffect ==
  ASSUME IInv, NEW in \in Requests, NEW s \in AxiInputs, DataRams(in, s)
  PROVE  /\ dataRam' \in [Set -> [Way -> [Word -> Data]]]
         /\ dataOut' \in [Way -> Data]
         /\ \A w \in Way : dataOut'[w] = dataRam[DataPlace(in).set][w][DataPlace(in).word]
         /\ ~s.rvalid => dataRam' = dataRam
         /\ s.rvalid => \A x \in Set, w \in Way, i \in Word :
              dataRam'[x][w][i] =
                IF x = Sought.set /\ w = replaceWay /\ i = Coming.word THEN BusWord(s)
                ELSE dataRam[x][w][i]
<1> DEFINE p == DataPlace(in)
<1>1. /\ dataRam \in [Set -> [Way -> [Word -> Data]]] /\ replaceWay \in Way
      /\ p \in Place /\ p.set \in Set /\ p.word \in Word
  BY TagSetTyped DEF IInv, RefillInStep, TypeOK, Place
<1>2. /\ dataRam' = IF s.rvalid
                      THEN [dataRam EXCEPT ![p.set][replaceWay][p.word] = BusWord(s)]
                      ELSE dataRam
      /\ dataOut' = [w \in Way |-> dataRam[p.set][w][p.word]]
  BY DEF DataRams
<1>3. s.rvalid => p.set = Sought.set /\ p.word = Coming.word
  BY InputsTyped, RefillKnows DEF DataPlace
<1> HIDE DEF p
<1>4. dataOut' \in [Way -> Data] /\ \A w \in Way : dataOut'[w] = dataRam[p.set][w][p.word]
  BY <1>1, <1>2
<1>5. CASE s.rvalid
  <2>1. BusWord(s) \in Data
    BY <1>5, BusWordTyped
  <2>2. dataRam' = [dataRam EXCEPT ![p.set][replaceWay][p.word] = BusWord(s)]
    BY <1>2, <1>5
  <2>3. dataRam' \in [Set -> [Way -> [Word -> Data]]]
    BY <1>1, <2>1, <2>2
  <2>4. \A x \in Set, w \in Way, i \in Word :
          dataRam'[x][w][i] =
            IF x = p.set /\ w = replaceWay /\ i = p.word THEN BusWord(s) ELSE dataRam[x][w][i]
    BY <1>1, <2>2
  <2> QED
    BY <1>3, <1>4, <1>5, <2>3, <2>4 DEF p
<1>6. CASE ~s.rvalid
  BY <1>1, <1>2, <1>4, <1>6 DEF p
<1> QED
  BY <1>5, <1>6

LEMMA AraddrTyped ==
  ASSUME IInv, Arvalid
  PROVE  /\ lookup # {} /\ Araddr \in Address
         /\ Araddr.tag = Sought.tag /\ Araddr.set = Sought.set /\ Araddr.word = 0
<1>1. lookup # {} /\ TypeOK
  BY DEF IInv, RefillInStep, Arvalid, EntersRefill, Miss
<1> QED
  BY <1>1, SoughtTyped, ConstantsTyped DEF Araddr, Sought, Address

(* The bus delivers the words of its burst one by one.                     *)
LEMMA BurstEffect ==
  ASSUME IInv, NEW in \in Requests, NEW s \in AxiInputs, Slave(s)
  PROVE  /\ burst' \in {{}} \cup {{a} : a \in Address}
         /\ Rlast(s) <=> s.rvalid /\ Coming.word = LineWords - 1
         /\ s.rvalid => ~(Arvalid /\ s.arready)
         /\ Arvalid /\ s.arready => burst' = {Araddr}
         /\ ~(Arvalid /\ s.arready) /\ ~s.rvalid => burst' = burst
         /\ Rlast(s) => burst' = {}
         /\ s.rvalid /\ ~Rlast(s) => /\ burst' = {[Coming EXCEPT !.word = @ + 1]}
                                     /\ Coming.word + 1 \in Word
<1>1. TypeOK /\ burst \in {{}} \cup {{a} : a \in Address}
  BY DEF IInv, RefillInStep, TypeOK
<1>2. /\ s.rvalid => burst = {Coming} /\ Coming \in Address /\ Coming.word \in Word
      /\ s.arready => burst = {}
  BY <1>1, InputsTyped, ComingTyped
<1>3. Rlast(s) <=> s.rvalid /\ Coming.word = LineWords - 1
  BY <1>2 DEF Rlast
<1>4. s.rvalid => ~(Arvalid /\ s.arready)
  BY <1>2
<1>5. ASSUME s.rvalid, ~Rlast(s)
      PROVE  /\ burst' = {[Coming EXCEPT !.word = @ + 1]}
             /\ Coming.word + 1 \in Word
  <2>1. burst' = {[a EXCEPT !.word = @ + 1] : a \in burst}
    BY <1>4, <1>5 DEF Slave
  <2>2. Coming.word + 1 \in Word
    BY <1>2, <1>3, <1>5, CacheAssumption DEF Word
  <2> QED
    BY <1>2, <1>5, <2>1, <2>2
<1>6. /\ Arvalid /\ s.arready => burst' = {Araddr}
      /\ ~(Arvalid /\ s.arready) /\ ~s.rvalid => burst' = burst
      /\ Rlast(s) => burst' = {}
  BY <1>3, <1>4 DEF Slave
<1>7. burst' \in {{}} \cup {{a} : a \in Address}
  <2>1. CASE Arvalid /\ s.arready
    BY <1>6, <2>1, AraddrTyped
  <2>2. CASE s.rvalid /\ ~Rlast(s)
    <3>1. [Coming EXCEPT !.word = @ + 1] \in Address
      BY <1>2, <1>5, <2>2 DEF Address
    <3> QED
      BY <1>5, <2>2, <3>1
  <2>3. CASE ~(Arvalid /\ s.arready) /\ ~(s.rvalid /\ ~Rlast(s))
    BY <1>1, <1>3, <1>6, <2>3
  <2> QED
    BY <2>1, <2>2, <2>3
<1> QED
  BY <1>3, <1>4, <1>5, <1>6, <1>7

LEMMA TypeStep ==
  ASSUME IInv, NEW in \in Requests, NEW s \in AxiInputs, NEW st \in Stores, Clock(in, s, st)
  PROVE  TypeOK'
<1>0. TypeOK
  BY DEF IInv, RefillInStep
<1>1. state' \in State
  BY <1>0 DEF Clock, CacheClock, NextState, State, TypeOK
<1>2. lookup' \in {{}} \cup {{a} : a \in Address}
  BY <1>0, InputsTyped DEF Clock, CacheClock, Lookup, TypeOK
<1>3. /\ tagRam' \in [Set -> [Way -> TagEntry]] /\ tagOut' \in [Way -> TagEntry]
      /\ dataRam' \in [Set -> [Way -> [Word -> Data]]] /\ dataOut' \in [Way -> Data]
  BY TagEffect, DataEffect DEF Clock, CacheClock
<1>4. dataAddr' \in Place
  <2>1. dataAddr \in Place /\ NextPlace(dataAddr) \in Place
    <3>1. dataAddr \in Place /\ dataAddr.set \in Set /\ dataAddr.word \in Word
      BY <1>0 DEF TypeOK, Place
    <3>2. CASE dataAddr.word < LineWords - 1
      <4>1. dataAddr.word + 1 \in Word
        BY <3>1, <3>2, CacheAssumption DEF Word
      <4> QED
        BY <3>1, <3>2, <4>1 DEF Place, NextPlace
    <3>3. CASE ~(dataAddr.word < LineWords - 1)
      <4>1. NextSet(dataAddr.set) \in Set
        BY <3>1, CacheAssumption DEF NextSet, Set
      <4> QED
        BY <3>1, <3>3, <4>1, ConstantsTyped DEF Place, NextPlace
    <3> QED
      BY <3>1, <3>2, <3>3
  <2>2. EntersRefill => [set |-> Sought.set, word |-> 0] \in Place
    BY <1>0, SoughtTyped, ConstantsTyped DEF Place, EntersRefill, Miss
  <2> QED
    BY <2>1, <2>2 DEF Clock, CacheClock, RefillPointer, Sought
<1>5. flushAddr' \in Set
  <2>1. flushAddr \in Set /\ NextSet(flushAddr) \in Set
    BY <1>0, CacheAssumption DEF TypeOK, NextSet, Set
  <2> QED
    BY <2>1, InputsTyped, ConstantsTyped DEF Clock, CacheClock, FlushCounter
<1>6. replaceWay' \in Way
  BY <1>0 DEF TypeOK, Way, Clock, CacheClock, AxiRegisters
<1>7. invalidateQ' \in BOOLEAN /\ arvalidQ' \in BOOLEAN /\ error' \in BOOLEAN
  BY Zenon DEF Clock, CacheClock, FlushCounter, AxiRegisters, ArvalidAfter, ErrorAfter
<1>8. version' \in [Stored -> 0 .. MaxVersion]
  <2>1. version \in [Stored -> 0 .. MaxVersion]
    BY <1>0 DEF TypeOK
  <2>2. \A a \in Stored : a \in st => version[a] < MaxVersion
    BY DEF Stores
  <2>3. version' = [a \in Stored |-> IF a \in st THEN version[a] + 1 ELSE version[a]]
    BY DEF Clock, Store
  <2>4. \A a \in Stored : (IF a \in st THEN version[a] + 1 ELSE version[a]) \in 0 .. MaxVersion
    BY <2>1, <2>2, CacheAssumption
  <2> QED
    BY <2>3, <2>4
<1>9. burst' \in {{}} \cup {{a} : a \in Address}
  BY BurstEffect DEF Clock
<1>10. floor' \in [Stored -> 0 .. MaxVersion]
  <2>1. floor' = [a \in Stored |-> IF a \in Flushed(in) THEN version[a] ELSE floor[a]]
    BY DEF Clock, History
  <2> QED
    BY <1>0, <2>1 DEF TypeOK
<1>11. doomed' \in BOOLEAN
  <2>1. FlushTaken(in) \in BOOLEAN
    BY DEF FlushTaken, ReqAccept
  <2> QED
    BY <2>1, Zenon DEF Clock, History
<1>12. poisoned' \subseteq Line
  <2>1. poisoned \subseteq Line
    BY <1>0 DEF TypeOK
  <2>2. state = "REFILL" => [tag |-> Sought.tag, set |-> Sought.set] \in Line
    BY <1>0, RefillKnows, SoughtTyped DEF Line
  <2>3. \/ poisoned' = poisoned
        \/ /\ state = "REFILL"
           /\ \/ poisoned' = poisoned \cup {[tag |-> Sought.tag, set |-> Sought.set]}
              \/ poisoned' = poisoned \ {[tag |-> Sought.tag, set |-> Sought.set]}
    BY DEF Clock, History, Sought
  <2> QED
    BY <2>1, <2>2, <2>3
<1> QED
  BY <1>1, <1>2, <1>3, <1>4, <1>5, <1>6, <1>7, <1>8, <1>9, <1>10, <1>11, <1>12 DEF TypeOK

LEMMA FloorStep ==
  ASSUME IInv, NEW in \in Requests, NEW s \in AxiInputs, NEW st \in Stores, Clock(in, s, st)
  PROVE  /\ FloorInv'
         /\ \A a \in Stored : ~FlushTaken(in) => floor'[a] = floor[a]
         /\ \A a \in Stored :
              in.op = "inval" /\ a.set # in.addr.set => floor'[a] = floor[a]
<1>1. /\ version \in [Stored -> 0 .. MaxVersion] /\ floor \in [Stored -> 0 .. MaxVersion]
      /\ \A a \in Stored : floor[a] <= version[a]
  BY DEF IInv, RefillInStep, TypeOK, FloorInv
<1>2. /\ version' = [a \in Stored |-> IF a \in st THEN version[a] + 1 ELSE version[a]]
      /\ floor' = [a \in Stored |-> IF a \in Flushed(in) THEN version[a] ELSE floor[a]]
  BY DEF Clock, Store, History
<1>3. ASSUME NEW a \in Stored PROVE floor'[a] <= version'[a]
  <2>1. /\ version[a] \in 0 .. MaxVersion /\ floor[a] \in 0 .. MaxVersion
        /\ floor[a] <= version[a]
    BY <1>1
  <2>2. floor'[a] \in {floor[a], version[a]} /\ version'[a] \in {version[a], version[a] + 1}
    BY <1>2
  <2> QED
    BY <2>1, <2>2, CacheAssumption
<1> QED
  BY <1>2, <1>3 DEF FloorInv, Flushed

-----------------------------------------------------------------------------
(* What a cycle leaves as it was.                                          *)

LEMMA SoundKept ==
  ASSUME NEW x, NEW w, Sound(x, w),
         tagRam'[x][w] = tagRam[x][w], \A i \in Word : dataRam'[x][w][i] = dataRam[x][w][i],
         \A a \in Stored : a.set = x => floor'[a] = floor[a],
         Held(x, w) /\ [tag |-> tagRam[x][w].tag, set |-> x] \in poisoned =>
           [tag |-> tagRam[x][w].tag, set |-> x] \in poisoned'
  PROVE  Sound(x, w)'
<1> SUFFICES ASSUME Held(x, w)',
                    [tag |-> tagRam'[x][w].tag, set |-> x] \notin poisoned',
                    NEW i \in Word
             PROVE  GoodWord(dataRam[x][w][i], AddressIn(x, w, i))'
  BY DEF Sound
<1>1. Held(x, w) /\ [tag |-> tagRam[x][w].tag, set |-> x] \notin poisoned
  BY DEF Held
<1>2. GoodWord(dataRam[x][w][i], AddressIn(x, w, i))
  BY <1>1 DEF Sound
<1>3. AddressIn(x, w, i)' = AddressIn(x, w, i) /\ AddressIn(x, w, i).set = x
  BY DEF AddressIn
<1>4. dataRam'[x][w][i] = dataRam[x][w][i]
  OBVIOUS
<1> QED
  BY <1>2, <1>3, <1>4 DEF GoodWord

LEMMA ConsistentKept ==
  ASSUME NEW x, Consistent(x),
         \A w \in Way : tagRam'[x][w] = tagRam[x][w],
         \A w \in Way, i \in Word : dataRam'[x][w][i] = dataRam[x][w][i],
         \A a \in Stored : a.set = x => floor'[a] = floor[a],
         \A t : [tag |-> t, set |-> x] \in poisoned => [tag |-> t, set |-> x] \in poisoned'
  PROVE  Consistent(x)'
<1>1. OneCopy(x)'
  BY DEF Consistent, OneCopy, Caches, Way
<1>2. ASSUME NEW w \in Way PROVE Sound(x, w)'
  <2>1. Sound(x, w)
    BY DEF Consistent
  <2> QED
    BY <2>1, SoundKept
<1> QED
  BY <1>1, <1>2 DEF Consistent

LEMMA ClearedConsistent == ASSUME NEW x, Cleared(x)' PROVE Consistent(x)'
  BY DEF Cleared, Held, Consistent, OneCopy, Sound, Caches, Way

(* Outside of a refill the data RAMs are only read.                        *)
LEMMA NoWordComes ==
  ASSUME IInv, NEW in \in Requests, NEW s \in AxiInputs, NEW st \in Stores,
         Clock(in, s, st), ~s.rvalid
  PROVE  /\ ~Rlast(s) /\ dataRam' = dataRam /\ poisoned' = poisoned
         /\ replaceWay' = replaceWay
         /\ \A w \in Way : dataOut'[w] = dataRam[DataPlace(in).set][w][DataPlace(in).word]
         /\ tagOut' = tagRam[TagSet(in)]
         /\ state # "FLUSH" => \A x \in Set, w \in Way : tagRam'[x][w] = tagRam[x][w]
         /\ error' <=> error /\ ~ReqValid
<1>1. ~Rlast(s)
  BY DEF Rlast
<1>2. dataRam' = dataRam
      /\ \A w \in Way : dataOut'[w] = dataRam[DataPlace(in).set][w][DataPlace(in).word]
  BY DataEffect DEF Clock, CacheClock
<1>3. poisoned' = poisoned /\ replaceWay' = replaceWay
  BY <1>1 DEF Clock, CacheClock, History, AxiRegisters
<1>4. tagOut' = tagRam[TagSet(in)]
  BY TagEffect DEF Clock, CacheClock
<1>5. ASSUME state # "FLUSH", NEW x \in Set, NEW w \in Way PROVE tagRam'[x][w] = tagRam[x][w]
  <2>1. TagWays(s) = {}
    BY <1>1, <1>5 DEF TagWays
  <2> QED
    BY <2>1, TagEffect DEF Clock, CacheClock
<1>6. error' <=> error /\ ~ReqValid
  BY Zenon DEF Clock, CacheClock, AxiRegisters, ErrorAfter
<1> QED
  BY <1>1, <1>2, <1>3, <1>4, <1>5, <1>6

-----------------------------------------------------------------------------
(* STATE_LOOKUP.                                                           *)

LEMMA LookupWires ==
  ASSUME IInv, state = "LOOKUP", NEW in \in Requests, NEW s \in AxiInputs, NEW st \in Stores,
         Clock(in, s, st)
  PROVE  /\ ~s.rvalid /\ burst = {} /\ ~arvalidQ
         /\ ReqAccept <=> ~Miss
         /\ ReqValid <=> lookup # {} /\ ~Miss
         /\ EntersRefill <=> Miss
         /\ FlushTaken(in) <=> ~Miss /\ in.op # "none"
         /\ ~Miss => ~error'
         /\ lookup' = IF Miss THEN lookup ELSE IF in.rd THEN {in.addr} ELSE {}
         /\ \A x \in Set : Consistent(x)
<1>1. ~s.rvalid /\ burst = {} /\ ~arvalidQ
  BY InputsTyped DEF IInv, RefillInStep
<1>2. /\ ReqAccept <=> ~Miss
      /\ ReqValid <=> lookup # {} /\ ~Miss
      /\ EntersRefill <=> Miss
      /\ FlushTaken(in) <=> ~Miss /\ in.op # "none"
  BY DEF ReqAccept, ReqValid, EntersRefill, FlushTaken
<1>3. ASSUME ~Miss PROVE ~error'
  <2>1. error => lookup # {}
    BY DEF IInv, RefillInStep
  <2> QED
    BY <1>1, <1>2, <1>3, <2>1, NoWordComes
<1>4. lookup' = IF Miss THEN lookup ELSE IF in.rd THEN {in.addr} ELSE {}
  <2>1. Miss => lookup # {}
    BY DEF Miss
  <2> QED
    BY <1>2, <2>1 DEF Clock, CacheClock, Lookup
<1>5. \A x \in Set : Consistent(x)
  BY DEF IInv, SetsInv
<1> QED
  BY <1>1, <1>2, <1>3, <1>4, <1>5

(* A miss starts a refill of a line that neither way holds.                *)
LEMMA LookupMisses ==
  ASSUME IInv, state = "LOOKUP", Miss,
         NEW in \in Requests, NEW s \in AxiInputs, NEW st \in Stores, Clock(in, s, st)
  PROVE  IInv'
<1>0. TypeOK /\ TypeOK' /\ FloorInv' /\ lookup # {}
  BY TypeStep, FloorStep DEF IInv, RefillInStep, Miss
<1>1. /\ ~s.rvalid /\ burst = {} /\ ~arvalidQ /\ lookup' = lookup
      /\ ~FlushTaken(in) /\ ~ReqValid /\ EntersRefill /\ ~ReqAccept
      /\ \A x \in Set : Consistent(x)
  BY LookupWires
<1>2. /\ dataRam' = dataRam /\ poisoned' = poisoned /\ replaceWay' = replaceWay
      /\ \A x \in Set, w \in Way : tagRam'[x][w] = tagRam[x][w]
      /\ error' <=> error
  BY <1>1, NoWordComes
<1>3. state' = "REFILL" /\ dataAddr' = [set |-> Sought.set, word |-> 0]
  BY <1>1 DEF Clock, CacheClock, NextState, RefillPointer, FlushEnds, Sought
<1>4. Sought' = Sought /\ Sought.set \in Set /\ Sought.word \in Word /\ Sought.tag \in Tag
  BY <1>0, <1>1, SoughtTyped DEF Sought
<1>5. \A a \in Stored : floor'[a] = floor[a]
  BY <1>1, FloorStep
<1>6. \A x \in Set : Consistent(x)'
  BY <1>1, <1>2, <1>5, ConsistentKept
<1>7. \A w \in Way : ~Caches(Sought.set, w, Sought.tag)
  <2>1. CASE tagOut = tagRam[Sought.set]
    BY <1>0, <2>1, SoughtTyped DEF Miss, TagHit, Caches
  <2>2. CASE Cleared(Sought.set)
    BY <2>2 DEF Cleared, Held, Caches
  <2> QED
    BY <1>0, <2>1, <2>2 DEF IInv, OutputsInv
<1>8. \A w \in Way : ~Caches(Sought.set, w, Sought.tag)'
  BY <1>2, <1>4, <1>7 DEF Caches
<1>9. RefillInStep'
  <2>1. Arvalid /\ burst' = IF s.arready THEN {Araddr} ELSE {}
    BY <1>1, BurstEffect DEF Arvalid, Clock
  <2>2. arvalidQ' <=> ~s.arready
    BY <2>1, Zenon DEF Clock, CacheClock, AxiRegisters, ArvalidAfter
  <2>3. Araddr' = Araddr /\ [Araddr EXCEPT !.word = 0] = Araddr
        /\ Araddr.set = Sought.set /\ Araddr.word = 0
    <3>1. Araddr' = Araddr
      BY <1>1 DEF Araddr
    <3>2. Araddr \in Address /\ Araddr.set = Sought.set /\ Araddr.word = 0
      BY <2>1, AraddrTyped
    <3> QED
      BY <3>1, <3>2 DEF Address
  <2>4. arvalidQ' <=> burst' = {}
    BY <2>1, <2>2
  <2>5. \A a \in burst' : /\ [a EXCEPT !.word = 0] = Araddr'
                          /\ dataAddr' = [set |-> a.set, word |-> a.word]
    BY <1>3, <2>1, <2>3
  <2> QED
    BY <1>0, <1>1, <1>3, <2>4, <2>5 DEF RefillInStep
<1>10. SetsInv'
  <2>1. ASSUME NEW x \in Set PROVE Refilling(x)'
    <3>1. replaceWay \in Way /\ 1 - replaceWay \in Way
      BY <1>0 DEF TypeOK, Way
    <3> QED
      BY <1>2, <1>4, <1>6, <1>8, <3>1 DEF Refilling, Consistent
  <2> QED
    BY <1>3, <2>1 DEF SetsInv
<1>11. RefillInv'
  <2>1. \A i \in Word : ~(i < 0)
    BY DEF Word
  <2> QED
    BY <1>3, <1>4, <2>1 DEF RefillInv
<1> QED
  BY <1>0, <1>3, <1>9, <1>10, <1>11 DEF IInv, OutputsInv, FlushInv

(* A flush taken: what it will clear need not be good any more.            *)
LEMMA LookupFlushes ==
  ASSUME IInv, state = "LOOKUP",
         NEW in \in Requests, NEW s \in AxiInputs, NEW st \in Stores, Clock(in, s, st),
         FlushTaken(in)
  PROVE  IInv'
<1>0. TypeOK /\ TypeOK' /\ FloorInv'
  BY TypeStep, FloorStep DEF IInv, RefillInStep
<1>1. /\ ~s.rvalid /\ burst = {} /\ ~arvalidQ /\ ~Miss /\ in.op # "none"
      /\ ReqAccept /\ ~EntersRefill /\ ~error'
      /\ lookup' = IF in.rd THEN {in.addr} ELSE {}
      /\ \A x \in Set : Consistent(x)
  BY LookupWires
<1>2. /\ dataRam' = dataRam /\ poisoned' = poisoned
      /\ \A x \in Set, w \in Way : tagRam'[x][w] = tagRam[x][w]
  BY <1>1, NoWordComes
<1>3. /\ state' = "FLUSH" /\ (invalidateQ' <=> in.op = "inval")
      /\ flushAddr' = IF in.op = "inval" THEN in.addr.set ELSE 0
  BY <1>1 DEF Clock, CacheClock, NextState, FlushCounter, FlushEnds
<1>4. in.rd => doomed'
  BY <1>1, Zenon DEF Clock, History
<1>5. RefillInStep'
  <2>1. burst' = {} /\ ~Arvalid
    BY <1>1, BurstEffect DEF Arvalid, Clock
  <2>2. ~arvalidQ'
    BY <2>1, Zenon DEF Clock, CacheClock, AxiRegisters, ArvalidAfter
  <2> QED
    BY <1>0, <1>1, <1>3, <2>1, <2>2 DEF RefillInStep
<1>6. SetsInv'
  <2>1. ASSUME NEW x \in Set, in.op = "inval", x # in.addr.set PROVE Consistent(x)'
    <3>1. \A a \in Stored : a.set = x => floor'[a] = floor[a]
      BY <2>1, FloorStep
    <3> QED
      BY <1>1, <1>2, <3>1, ConsistentKept
  <2>2. \A x \in Set : ~(x < 0)
    BY DEF Set
  <2> QED
    BY <1>3, <2>1, <2>2 DEF SetsInv
<1>7. FlushInv'
  <2>1. in.addr \in Address
    BY InputsTyped
  <2>2. lookup' # {} => in.rd /\ lookup' = {in.addr}
    BY <1>1
  <2>3. lookup' = {in.addr} => Sought' = in.addr
    BY DEF Sought, The
  <2> QED
    BY <1>3, <1>4, <2>2, <2>3 DEF FlushInv
<1> QED
  BY <1>0, <1>3, <1>5, <1>6, <1>7 DEF IInv, OutputsInv, RefillInv

(* Another lookup, or none.                                                *)
LEMMA LookupGoesOn ==
  ASSUME IInv, state = "LOOKUP", ~Miss,
         NEW in \in Requests, NEW s \in AxiInputs, NEW st \in Stores, Clock(in, s, st),
         ~FlushTaken(in)
  PROVE  IInv'
<1>0. TypeOK /\ TypeOK' /\ FloorInv'
  BY TypeStep, FloorStep DEF IInv, RefillInStep
<1>1. /\ ~s.rvalid /\ burst = {} /\ ~arvalidQ /\ ~EntersRefill /\ ~error'
      /\ lookup' = IF in.rd THEN {in.addr} ELSE {}
      /\ \A x \in Set : Consistent(x)
  BY LookupWires
<1>2. /\ dataRam' = dataRam /\ poisoned' = poisoned
      /\ \A x \in Set, w \in Way : tagRam'[x][w] = tagRam[x][w]
      /\ tagOut' = tagRam[TagSet(in)]
      /\ \A w \in Way : dataOut'[w] = dataRam[DataPlace(in).set][w][DataPlace(in).word]
  BY <1>1, NoWordComes
<1>3. state' = "LOOKUP"
  BY <1>1 DEF Clock, CacheClock, NextState, FlushEnds
<1>4. RefillInStep'
  <2>1. burst' = {} /\ ~Arvalid
    BY <1>1, BurstEffect DEF Arvalid, Clock
  <2>2. ~arvalidQ'
    BY <2>1, Zenon DEF Clock, CacheClock, AxiRegisters, ArvalidAfter
  <2> QED
    BY <1>0, <1>1, <1>3, <2>1, <2>2 DEF RefillInStep
<1>5. SetsInv'
  <2>1. ASSUME NEW x \in Set PROVE Consistent(x)'
    BY <1>1, <1>2, FloorStep, ConsistentKept
  <2> QED
    BY <1>3, <2>1 DEF SetsInv
<1>6. OutputsInv'
  <2>1. ASSUME lookup' # {}
        PROVE  /\ tagOut' = tagRam'[Sought'.set]
               /\ \A w \in Way : dataOut'[w] = dataRam'[Sought'.set][w][Sought'.word]
    <3>1. lookup' = {in.addr} /\ in.addr.set \in Set
      BY <1>1, <2>1, InputsTyped
    <3>2. Sought' = in.addr
      BY <3>1 DEF Sought, The
    <3>3. TagSet(in) = in.addr.set
          /\ DataPlace(in).set = in.addr.set /\ DataPlace(in).word = in.addr.word
      BY DEF TagSet, DataPlace
    <3>4. tagRam'[in.addr.set] = tagRam[in.addr.set]
      <4>1. /\ tagRam \in [Set -> [Way -> TagEntry]]
            /\ tagRam' \in [Set -> [Way -> TagEntry]]
        BY <1>0 DEF TypeOK
      <4> QED
        BY <1>2, <3>1, <4>1
    <3> QED
      BY <1>2, <3>2, <3>3, <3>4
  <2> QED
    BY <2>1 DEF OutputsInv
<1> QED
  BY <1>0, <1>3, <1>4, <1>5, <1>6 DEF IInv, FlushInv, RefillInv

-----------------------------------------------------------------------------
(* STATE_REFILL.                                                           *)

LEMMA RefillWires ==
  ASSUME IInv, state = "REFILL", NEW in \in Requests, NEW s \in AxiInputs, NEW st \in Stores,
         Clock(in, s, st)
  PROVE  /\ lookup' = lookup /\ lookup # {} /\ Sought' = Sought
         /\ Sought.tag \in Tag /\ Sought.set \in Set
         /\ Arvalid <=> burst = {}
         /\ \A a \in Stored : floor'[a] = floor[a]
         /\ error' <=> (s.rvalid /\ s.error) \/ error
         /\ state' = IF Rlast(s) THEN "RELOOKUP" ELSE "REFILL"
         /\ arvalidQ' <=> burst = {} /\ ~s.arready
         /\ \A x \in Set : Refilling(x)
<1>1. ~ReqValid /\ ~ReqAccept /\ ~FlushTaken(in) /\ ~EntersRefill /\ ~FlushEnds
  BY DEF ReqValid, ReqAccept, FlushTaken, EntersRefill, FlushEnds
<1>2. lookup # {} /\ (arvalidQ <=> burst = {}) /\ TypeOK
  BY RefillKnows DEF IInv, RefillInStep
<1>3. lookup' = lookup
  BY <1>1 DEF Clock, CacheClock, Lookup
<1>4. Arvalid <=> burst = {}
  BY <1>1, <1>2 DEF Arvalid
<1>5. error' <=> (s.rvalid /\ s.error) \/ error
  BY <1>1, Zenon DEF Clock, CacheClock, AxiRegisters, ErrorAfter
<1>6. state' = IF Rlast(s) THEN "RELOOKUP" ELSE "REFILL"
  BY <1>1 DEF Clock, CacheClock, NextState
<1>7. arvalidQ' <=> burst = {} /\ ~s.arready
  BY <1>4, Zenon DEF Clock, CacheClock, AxiRegisters, ArvalidAfter
<1>8. \A x \in Set : Refilling(x)
  BY DEF IInv, SetsInv
<1>9. \A a \in Stored : floor'[a] = floor[a]
  BY <1>1, FloorStep
<1> QED
  BY <1>2, <1>3, <1>4, <1>5, <1>6, <1>7, <1>8, <1>9, SoughtTyped DEF Sought

(* The way that is not refilled keeps what it has.                         *)
LEMMA OtherWayKept ==
  ASSUME IInv, state = "REFILL", NEW in \in Requests, NEW s \in AxiInputs, NEW st \in Stores,
         Clock(in, s, st), NEW x \in Set, NEW w \in Way, x = Sought.set, w = 1 - replaceWay
  PROVE  Sound(x, w)' /\ tagRam'[x][w] = tagRam[x][w]
<1>1. /\ \A a \in Stored : floor'[a] = floor[a]
      /\ Refilling(x)
  BY RefillWires
<1>2. replaceWay \in Way /\ w # replaceWay
  BY DEF IInv, RefillInStep, TypeOK, Way
<1>3. tagRam'[x][w] = tagRam[x][w]
  <2>1. w \notin TagWays(s)
    BY <1>2 DEF TagWays
  <2> QED
    BY <2>1, TagEffect DEF Clock, CacheClock
<1>4. \A i \in Word : dataRam'[x][w][i] = dataRam[x][w][i]
  <2>1. DataRams(in, s)
    BY DEF Clock, CacheClock
  <2>2. CASE s.rvalid
    BY <1>2, <2>1, <2>2, DataEffect
  <2>3. CASE ~s.rvalid
    BY <2>1, <2>3, DataEffect
  <2> QED
    BY <2>2, <2>3
<1>5. Sound(x, w) /\ ~Caches(x, w, Sought.tag)
  BY <1>1 DEF Refilling
<1>6. ASSUME Held(x, w), [tag |-> tagRam[x][w].tag, set |-> x] \in poisoned
      PROVE  [tag |-> tagRam[x][w].tag, set |-> x] \in poisoned'
  <2>1. tagRam[x][w].tag # Sought.tag
    BY <1>5, <1>6 DEF Caches, Held
  <2>2. poisoned' \in {poisoned, poisoned \cup {[tag |-> Sought.tag, set |-> Sought.set]},
                       poisoned \ {[tag |-> Sought.tag, set |-> Sought.set]}}
    BY DEF Clock, History, Sought
  <2>3. [tag |-> tagRam[x][w].tag, set |-> x] # [tag |-> Sought.tag, set |-> Sought.set]
    BY <2>1
  <2> QED
    BY <1>6, <2>2, <2>3
<1> QED
  BY <1>1, <1>3, <1>4, <1>5, <1>6, SoundKept

(* Without the last word the tags stay, and the address is offered or a    *)
(* word put into its place.                                                *)
LEMMA RefillGoesOn ==
  ASSUME IInv, state = "REFILL", NEW in \in Requests, NEW s \in AxiInputs, NEW st \in Stores,
         Clock(in, s, st), ~Rlast(s)
  PROVE  IInv'
<1>0. TypeOK /\ TypeOK' /\ FloorInv'
  BY TypeStep, FloorStep DEF IInv, RefillInStep
<1>1. /\ lookup' = lookup /\ lookup # {} /\ Sought' = Sought /\ Sought.set \in Set
      /\ Arvalid <=> burst = {}
      /\ \A a \in Stored : floor'[a] = floor[a]
      /\ error' <=> (s.rvalid /\ s.error) \/ error
      /\ state' = "REFILL"
      /\ arvalidQ' <=> burst = {} /\ ~s.arready
      /\ \A x \in Set : Refilling(x)
  BY RefillWires
<1>2. poisoned' = poisoned /\ replaceWay' = replaceWay /\ replaceWay \in Way
  BY <1>0 DEF Clock, CacheClock, History, AxiRegisters, TypeOK
<1>3. \A x \in Set, w \in Way : tagRam'[x][w] = tagRam[x][w]
  <2>1. TagWays(s) = {}
    BY DEF TagWays
  <2> QED
    BY <2>1, TagEffect DEF Clock, CacheClock
<1>4. \A x \in Set, w \in Way, i \in Word :
        x # Sought.set \/ w # replaceWay => dataRam'[x][w][i] = dataRam[x][w][i]
  BY DataEffect DEF Clock, CacheClock
<1>5. SetsInv'
  <2>1. ASSUME NEW x \in Set, x # Sought.set PROVE Consistent(x)'
    <3>1. Consistent(x)
      BY <1>1, <2>1 DEF Refilling
    <3> QED
      BY <1>1, <1>2, <1>3, <1>4, <2>1, <3>1, ConsistentKept
  <2>2. Refilling(Sought.set)'
    <3>1. /\ OneCopy(Sought.set) /\ Sound(Sought.set, 1 - replaceWay)
          /\ \A w \in Way : ~Caches(Sought.set, w, Sought.tag)
      BY <1>1 DEF Refilling
    <3>2. 1 - replaceWay \in Way /\ 1 - replaceWay # replaceWay /\ 0 \in Way /\ 1 \in Way
      BY <1>2 DEF Way
    <3>3. ASSUME NEW x \in Set, NEW w \in Way, x = Sought.set, w = 1 - replaceWay
          PROVE  Sound(x, w)'
      BY <3>3, OtherWayKept
    <3>4. OneCopy(Sought.set)'
      BY <1>1, <1>3, <3>1, <3>2 DEF OneCopy, Caches
    <3>5. \A w \in Way : ~Caches(Sought.set, w, Sought.tag)'
      BY <1>1, <1>3, <3>1 DEF Caches
    <3> QED
      BY <1>1, <1>2, <3>2, <3>3, <3>4, <3>5 DEF Refilling
  <2>3. ASSUME NEW x \in Set PROVE Refilling(x)'
    <3>1. CASE x = Sought.set
      BY <1>1, <2>2, <3>1
    <3>2. CASE x # Sought.set
      BY <1>1, <2>1, <3>2 DEF Refilling
    <3> QED
      BY <3>1, <3>2
  <2> QED
    BY <1>1, <2>3 DEF SetsInv
<1>6. CASE ~s.rvalid
  <2>1. /\ dataAddr' = dataAddr /\ dataRam' = dataRam
    BY <1>6, NoWordComes DEF Clock, CacheClock, RefillPointer, EntersRefill
  <2>2. burst' = IF burst = {} /\ s.arready THEN {Araddr} ELSE burst
    BY <1>1, <1>6, BurstEffect DEF Clock
  <2>3. /\ burst = {} => dataAddr = [set |-> Sought.set, word |-> 0]
        /\ Araddr' = Araddr
    BY <1>1, RefillKnows DEF Araddr
  <2>4. s.arready => burst = {}
    BY InputsTyped
  <2>5. ASSUME burst = {}, s.arready
        PROVE  /\ [Araddr EXCEPT !.word = 0] = Araddr
               /\ dataAddr = [set |-> Araddr.set, word |-> Araddr.word]
    <3>1. Araddr \in Address /\ Araddr.set = Sought.set /\ Araddr.word = 0
      BY <1>1, <2>5, AraddrTyped
    <3> QED
      BY <2>3, <2>5, <3>1 DEF Address
  <2>6. RefillInStep'
    <3>1. arvalidQ' <=> burst' = {}
      BY <1>1, <2>2, <2>4
    <3>2. \A a \in burst' : /\ [a EXCEPT !.word = 0] = Araddr'
                            /\ dataAddr' = [set |-> a.set, word |-> a.word]
      <4>1. \A a \in burst : /\ [a EXCEPT !.word = 0] = Araddr
                             /\ dataAddr = [set |-> a.set, word |-> a.word]
        BY DEF IInv, RefillInStep
      <4> QED
        BY <2>1, <2>2, <2>3, <2>5, <4>1
    <3> QED
      BY <1>0, <1>1, <3>1, <3>2 DEF RefillInStep
  <2>7. RefillInv'
    <3>1. /\ dataAddr.set = Sought.set
          /\ \A i \in Word : i < dataAddr.word =>
               error \/ GoodWord(dataRam[Sought.set][replaceWay][i],
                                 [tag |-> Sought.tag, set |-> Sought.set, word |-> i])
      BY DEF IInv, RefillInv
    <3>2. burst' = {} => dataAddr.word = 0
      BY <2>2, <2>3
    <3>3. \A d, a : GoodWord(d, a) => GoodWord(d, a)'
      BY <1>1 DEF GoodWord
    <3> QED
      BY <1>1, <1>2, <2>1, <3>1, <3>2, <3>3 DEF RefillInv, GoodWord
  <2> QED
    BY <1>0, <1>1, <1>5, <2>6, <2>7 DEF IInv, OutputsInv, FlushInv
<1>7. CASE s.rvalid
  <2>0. burst # {} /\ ~s.arready
    BY <1>7, InputsTyped
  <2>1. /\ burst' = {[Coming EXCEPT !.word = @ + 1]} /\ Coming.word + 1 \in Word
        /\ Coming \in Address /\ Coming.word \in Word /\ Coming.set \in Set
        /\ Coming.tag = Sought.tag /\ Coming.set = Sought.set
        /\ dataAddr = [set |-> Coming.set, word |-> Coming.word]
    BY <1>0, <1>7, <2>0, BurstEffect, ComingTyped, RefillKnows DEF Clock
  <2>2. dataAddr' = [set |-> Sought.set, word |-> Coming.word + 1]
    <3>1. Coming.word < LineWords - 1
      BY <2>1, CacheAssumption DEF Word
    <3>2. dataAddr' = NextPlace(dataAddr)
      BY <1>7 DEF Clock, CacheClock, RefillPointer, EntersRefill
    <3> QED
      BY <2>1, <3>1, <3>2 DEF NextPlace
  <2>3. RefillInStep'
    <3> DEFINE next == [Coming EXCEPT !.word = @ + 1]
    <3>1. /\ next.set = Sought.set /\ next.word = Coming.word + 1
          /\ [next EXCEPT !.word = 0] = [Coming EXCEPT !.word = 0]
      BY <2>1 DEF Address
    <3>2. [Coming EXCEPT !.word = 0] = Araddr /\ Araddr' = Araddr
      <4>1. Coming \in burst
        BY <1>0, <2>0, ComingTyped
      <4> QED
        BY <1>1, <4>1 DEF IInv, RefillInStep, Araddr
    <3>3. ~arvalidQ' /\ burst' # {}
      BY <1>1, <2>0, <2>1
    <3> HIDE DEF next
    <3>4. \A a \in burst' : /\ [a EXCEPT !.word = 0] = Araddr'
                            /\ dataAddr' = [set |-> a.set, word |-> a.word]
      BY <2>1, <2>2, <3>1, <3>2 DEF next
    <3> QED
      BY <1>0, <1>1, <3>3, <3>4 DEF RefillInStep
  <2>4. RefillInv'
    <3>1. ASSUME NEW i \in Word, i < Coming.word + 1
          PROVE  error' \/ GoodWord(dataRam[Sought.set][replaceWay][i],
                                    [tag |-> Sought.tag, set |-> Sought.set, word |-> i])'
      <4>1. dataRam'[Sought.set][replaceWay][i] =
              IF i = Coming.word THEN BusWord(s) ELSE dataRam[Sought.set][replaceWay][i]
        BY <1>1, <1>2, <1>7, DataEffect DEF Clock, CacheClock
      <4>2. CASE i = Coming.word
        <5>1. Coming = [tag |-> Sought.tag, set |-> Sought.set, word |-> i]
          BY <2>1, <4>2 DEF Address
        <5>2. ~s.error => GoodWord(BusWord(s), Coming)
          BY <1>7, BusWordTyped
        <5> QED
          BY <1>1, <1>2, <1>7, <4>1, <4>2, <5>1, <5>2 DEF GoodWord
      <4>3. CASE i # Coming.word
        <5>1. i < Coming.word
          BY <2>1, <3>1, <4>3 DEF Word
        <5>2. error \/ GoodWord(dataRam[Sought.set][replaceWay][i],
                                [tag |-> Sought.tag, set |-> Sought.set, word |-> i])
          BY <2>1, <5>1 DEF IInv, RefillInv
        <5> QED
          BY <1>1, <1>2, <4>1, <4>3, <5>2 DEF GoodWord
      <4> QED
        BY <4>2, <4>3
    <3>2. burst' # {}
      BY <2>1
    <3> QED
      BY <1>1, <1>2, <2>2, <3>1, <3>2 DEF RefillInv
  <2> QED
    BY <1>0, <1>1, <1>5, <2>3, <2>4 DEF IInv, OutputsInv, FlushInv
<1> QED
  BY <1>6, <1>7

(* The last word completes the line, whose tag is written with it.         *)
LEMMA RefillEnds ==
  ASSUME IInv, state = "REFILL", NEW in \in Requests, NEW s \in AxiInputs, NEW st \in Stores,
         Clock(in, s, st), Rlast(s)
  PROVE  IInv'
<1> DEFINE line == [tag |-> Sought.tag, set |-> Sought.set]
<1>0. TypeOK /\ TypeOK' /\ FloorInv'
  BY TypeStep, FloorStep DEF IInv, RefillInStep
<1>1. /\ lookup' = lookup /\ lookup # {} /\ Sought' = Sought
      /\ Sought.set \in Set /\ Sought.tag \in Tag
      /\ \A a \in Stored : floor'[a] = floor[a]
      /\ error' <=> (s.rvalid /\ s.error) \/ error
      /\ state' = "RELOOKUP"
      /\ arvalidQ' <=> burst = {} /\ ~s.arready
      /\ \A x \in Set : Refilling(x)
  BY RefillWires
<1>2. /\ s.rvalid /\ Coming.word = LineWords - 1 /\ burst' = {} /\ burst # {}
      /\ Coming.tag = Sought.tag /\ Coming.set = Sought.set /\ Coming \in Address
      /\ dataAddr = [set |-> Coming.set, word |-> Coming.word]
  BY <1>0, BurstEffect, InputsTyped, RefillKnows, ComingTyped DEF Clock
<1>3. /\ replaceWay \in Way
      /\ poisoned' = IF error \/ s.error THEN poisoned \cup {line} ELSE poisoned \ {line}
  BY <1>0 DEF Clock, History, TypeOK, Sought
<1>4. \A x \in Set, w \in Way :
        tagRam'[x][w] = IF x = Sought.set /\ w = replaceWay
                          THEN [valid |-> TRUE, tag |-> Sought.tag] ELSE tagRam[x][w]
  <2>1. /\ TagSet(in) = Sought.set
        /\ Entry = [valid |-> TRUE, tag |-> Sought.tag]
    BY DEF TagSet, Entry, Sought
  <2>2. \A w \in Way : w \in TagWays(s) <=> w = replaceWay
    BY DEF TagWays
  <2>3. TagRams(in, s)
    BY DEF Clock, CacheClock
  <2>4. ASSUME NEW x \in Set, NEW w \in Way
        PROVE  tagRam'[x][w] = IF x = TagSet(in) /\ w \in TagWays(s) THEN Entry ELSE tagRam[x][w]
    BY <2>3, TagEffect
  <2> QED
    BY <2>1, <2>2, <2>4
<1>5. \A x \in Set, w \in Way, i \in Word :
        dataRam'[x][w][i] = IF x = Sought.set /\ w = replaceWay /\ i = Coming.word
                              THEN BusWord(s) ELSE dataRam[x][w][i]
  BY <1>2, DataEffect DEF Clock, CacheClock
<1>6. ASSUME NEW x \in Set, x # Sought.set PROVE Consistent(x)'
  <2>1. Consistent(x)
    BY <1>1, <1>6 DEF Refilling
  <2>2. \A t : [tag |-> t, set |-> x] # line
    BY <1>6
  <2> QED
    BY <1>1, <1>3, <1>4, <1>5, <1>6, <2>1, <2>2, ConsistentKept
<1>7. ASSUME NEW x \in Set, x = Sought.set PROVE Consistent(x)'
  <2>1. OneCopy(x) /\ \A w \in Way : ~Caches(x, w, Sought.tag)
    BY <1>1, <1>7 DEF Refilling
  <2>2. OneCopy(x)'
    BY <1>3, <1>4, <1>7, <2>1 DEF OneCopy, Caches, Way
  <2>3. ASSUME NEW w \in Way, w # replaceWay PROVE Sound(x, w)'
    <3>1. w = 1 - replaceWay
      BY <1>3, <2>3 DEF Way
    <3> QED
      BY <1>7, <3>1, OtherWayKept
  <2>4. ASSUME NEW w \in Way, w = replaceWay PROVE Sound(x, w)'
    <3>1. tagRam'[x][w].tag = Sought.tag
      BY <1>4, <1>7, <2>4
    <3>2. CASE error \/ s.error
      <4>1. line \in poisoned'
        BY <1>3, <3>2
      <4> QED
        BY <1>7, <3>1, <4>1 DEF Sound
    <3>3. CASE ~error /\ ~s.error
      <4>1. ASSUME NEW i \in Word
            PROVE  GoodWord(dataRam[x][w][i], AddressIn(x, w, i))'
        <5> DEFINE a == [tag |-> Sought.tag, set |-> Sought.set, word |-> i]
        <5>1. AddressIn(x, w, i)' = a
          BY <1>7, <3>1 DEF AddressIn
        <5>2. CASE i = Coming.word
          <6>1. Coming = a
            BY <1>2, <5>2 DEF Address
          <6>2. GoodWord(BusWord(s), Coming)
            BY <1>2, <3>3, BusWordTyped
          <6>3. dataRam'[x][w][i] = BusWord(s)
            BY <1>5, <1>7, <2>4, <5>2
          <6> QED
            BY <1>1, <5>1, <6>1, <6>2, <6>3 DEF GoodWord
        <5>3. CASE i # Coming.word
          <6>1. i < dataAddr.word
            BY <1>2, <4>1, <5>3, CacheAssumption DEF Word
          <6>2. GoodWord(dataRam[Sought.set][replaceWay][i], a)
            BY <3>3, <6>1 DEF IInv, RefillInv
          <6>3. dataRam'[x][w][i] = dataRam[Sought.set][replaceWay][i]
            BY <1>5, <1>7, <2>4, <5>3
          <6> QED
            BY <1>1, <5>1, <6>2, <6>3 DEF GoodWord
        <5> QED
          BY <5>2, <5>3
      <4> QED
        BY <4>1 DEF Sound
    <3> QED
      BY <3>2, <3>3
  <2> QED
    BY <2>2, <2>3, <2>4 DEF Consistent
<1>8. SetsInv'
  BY <1>1, <1>6, <1>7 DEF SetsInv
<1>9. RefillInStep'
  BY <1>0, <1>1, <1>2 DEF RefillInStep
<1> QED
  BY <1>0, <1>1, <1>8, <1>9 DEF IInv, OutputsInv, FlushInv, RefillInv

-----------------------------------------------------------------------------
(* STATE_RELOOKUP: the RAMs are read again for the lookup.                 *)

LEMMA Relooks ==
  ASSUME IInv, state = "RELOOKUP", NEW in \in Requests, NEW s \in AxiInputs, NEW st \in Stores,
         Clock(in, s, st)
  PROVE  IInv'
<1>0. TypeOK /\ TypeOK' /\ FloorInv'
  BY TypeStep, FloorStep DEF IInv, RefillInStep
<1>1. /\ ~ReqValid /\ ~ReqAccept /\ ~FlushTaken(in) /\ ~EntersRefill
      /\ lookup # {} /\ burst = {} /\ ~arvalidQ /\ ~s.rvalid
      /\ \A x \in Set : Consistent(x)
  BY InputsTyped
  DEF ReqValid, ReqAccept, FlushTaken, EntersRefill, IInv, RefillInStep, SetsInv
<1>2. lookup' = lookup /\ state' = "LOOKUP" /\ Sought' = Sought
  BY <1>1 DEF Clock, CacheClock, Lookup, NextState, Sought
<1>3. /\ dataRam' = dataRam /\ poisoned' = poisoned
      /\ \A x \in Set, w \in Way : tagRam'[x][w] = tagRam[x][w]
      /\ tagOut' = tagRam[TagSet(in)]
      /\ \A w \in Way : dataOut'[w] = dataRam[DataPlace(in).set][w][DataPlace(in).word]
  BY <1>1, NoWordComes
<1>4. RefillInStep'
  <2>1. burst' = {} /\ ~Arvalid
    BY <1>1, BurstEffect DEF Arvalid, Clock
  <2>2. ~arvalidQ'
    BY <2>1, Zenon DEF Clock, CacheClock, AxiRegisters, ArvalidAfter
  <2> QED
    BY <1>0, <1>1, <1>2, <2>1, <2>2 DEF RefillInStep
<1>5. SetsInv'
  <2>1. ASSUME NEW x \in Set PROVE Consistent(x)'
    BY <1>1, <1>3, FloorStep, ConsistentKept
  <2> QED
    BY <1>2, <2>1 DEF SetsInv
<1>6. OutputsInv'
  <2>1. TagSet(in) = Sought.set /\ Sought.set \in Set
        /\ DataPlace(in).set = Sought.set /\ DataPlace(in).word = Sought.word
    BY <1>0, <1>1, SoughtTyped DEF TagSet, DataPlace, Sought
  <2>2. tagRam'[Sought.set] = tagRam[Sought.set]
    <3>1. tagRam \in [Set -> [Way -> TagEntry]] /\ tagRam' \in [Set -> [Way -> TagEntry]]
      BY <1>0 DEF TypeOK
    <3> QED
      BY <1>3, <2>1, <3>1
  <2> QED
    BY <1>2, <1>3, <2>1, <2>2 DEF OutputsInv
<1> QED
  BY <1>0, <1>2, <1>4, <1>5, <1>6 DEF IInv, FlushInv, RefillInv

-----------------------------------------------------------------------------
(* STATE_FLUSH: one set is cleared in each cycle.                          *)

LEMMA Flushes ==
  ASSUME IInv, state = "FLUSH", NEW in \in Requests, NEW s \in AxiInputs, NEW st \in Stores,
         Clock(in, s, st)
  PROVE  IInv'
<1>0. TypeOK /\ TypeOK' /\ FloorInv' /\ flushAddr \in Set
  BY TypeStep, FloorStep DEF IInv, RefillInStep, TypeOK
<1>1. /\ ~ReqValid /\ ~ReqAccept /\ ~FlushTaken(in) /\ ~EntersRefill
      /\ burst = {} /\ ~arvalidQ /\ ~s.rvalid /\ ~error
  BY InputsTyped
  DEF ReqValid, ReqAccept, FlushTaken, EntersRefill, IInv, RefillInStep
<1>2. /\ lookup' = lookup /\ Sought' = Sought
      /\ state' = IF FlushEnds THEN "LOOKUP" ELSE "FLUSH"
      /\ flushAddr' = NextSet(flushAddr) /\ ~invalidateQ'
  BY <1>1 DEF Clock, CacheClock, Lookup, NextState, Sought, FlushCounter
<1>3. doomed' <=> doomed
  BY <1>1, Zenon DEF Clock, History
<1>4. dataRam' = dataRam /\ poisoned' = poisoned /\ ~error'
  BY <1>1, NoWordComes
<1>5. \A x \in Set, w \in Way :
        IF x = flushAddr THEN ~tagRam'[x][w].valid ELSE tagRam'[x][w] = tagRam[x][w]
  <2>1. TagSet(in) = flushAddr /\ TagWays(s) = Way /\ Entry = [valid |-> FALSE, tag |-> 0]
    BY DEF TagSet, TagWays, Entry
  <2> QED
    BY <2>1, TagEffect DEF Clock, CacheClock
<1>7. ASSUME NEW x \in Set, x = flushAddr PROVE Cleared(x)'
  BY <1>5, <1>7 DEF Cleared, Held
<1>8. ASSUME NEW x \in Set, ~invalidateQ, x < flushAddr PROVE Cleared(x)'
  <2>1. Cleared(x) /\ x # flushAddr
    BY <1>0, <1>8 DEF IInv, SetsInv, Set
  <2> QED
    BY <1>5, <2>1 DEF Cleared, Held
<1>9. ASSUME NEW x \in Set, invalidateQ, x # flushAddr PROVE Consistent(x)'
  <2>1. Consistent(x)
    BY <1>9 DEF IInv, SetsInv
  <2> QED
    BY <1>1, <1>4, <1>5, <1>9, <2>1, FloorStep, ConsistentKept
<1>10. RefillInStep'
  <2>1. burst' = {} /\ ~Arvalid
    BY <1>1, BurstEffect DEF Arvalid, Clock
  <2>2. ~arvalidQ'
    BY <2>1, Zenon DEF Clock, CacheClock, AxiRegisters, ArvalidAfter
  <2> QED
    BY <1>0, <1>2, <1>4, <2>1, <2>2 DEF RefillInStep
<1>11. CASE FlushEnds
  <2>1. ASSUME NEW x \in Set, ~invalidateQ PROVE Cleared(x)'
    <3>1. flushAddr = NumSets - 1
      BY <1>11, <2>1 DEF FlushEnds, LastSet
    <3>2. x = flushAddr \/ x < flushAddr
      BY <3>1, CacheAssumption DEF Set
    <3> QED
      BY <1>7, <1>8, <2>1, <3>2
  <2>2. ASSUME NEW x \in Set PROVE Consistent(x)'
    BY <1>7, <1>9, <2>1, ClearedConsistent
  <2>3. SetsInv'
    BY <1>2, <1>11, <2>2 DEF SetsInv
  <2>4. OutputsInv'
    <3>1. ASSUME lookup # {} PROVE doomed' /\ Cleared(Sought.set)'
      <4>1. doomed /\ Sought.set \in Set /\ (invalidateQ => Sought.set = flushAddr)
        BY <1>0, <3>1, SoughtTyped DEF IInv, FlushInv
      <4>2. ASSUME NEW x \in Set, x = Sought.set PROVE Cleared(x)'
        BY <1>7, <2>1, <4>1, <4>2
      <4> QED
        BY <1>2, <1>3, <4>1, <4>2 DEF Cleared, Held
    <3> QED
      BY <1>2, <3>1 DEF OutputsInv
  <2> QED
    BY <1>0, <1>2, <1>10, <1>11, <2>3, <2>4 DEF IInv, FlushInv, RefillInv
<1>12. CASE ~FlushEnds
  <2>1. ~invalidateQ /\ flushAddr # NumSets - 1 /\ flushAddr' = flushAddr + 1
    BY <1>2, <1>12 DEF FlushEnds, LastSet, NextSet
  <2>2. ASSUME NEW x \in Set, x < flushAddr' PROVE Cleared(x)'
    <3>1. x = flushAddr \/ x < flushAddr
      BY <1>0, <2>1, <2>2 DEF Set
    <3> QED
      BY <1>7, <1>8, <2>1, <3>1
  <2>3. SetsInv'
    BY <1>2, <1>12, <2>2 DEF SetsInv
  <2>4. FlushInv'
    BY <1>2, <1>3 DEF IInv, FlushInv
  <2> QED
    BY <1>0, <1>2, <1>10, <1>12, <2>3, <2>4 DEF IInv, OutputsInv, RefillInv
<1> QED
  BY <1>11, <1>12

-----------------------------------------------------------------------------
(* The invariant, and what follows from it.                                *)

LEMMA InitInv == Init => IInv
<1> SUFFICES ASSUME Init PROVE IInv
  OBVIOUS
<1>1. /\ tagRam = [s \in Set |-> [w \in Way |-> [valid |-> TRUE, tag |-> 0]]]
      /\ tagOut = [w \in Way |-> [valid |-> TRUE, tag |-> 0]]
      /\ dataRam = [s \in Set |-> [w \in Way |-> [x \in Word |-> Junk]]]
      /\ dataOut = [w \in Way |-> Junk]
      /\ version = [a \in Stored |-> 0] /\ floor = version
      /\ state = "FLUSH" /\ lookup = {} /\ burst = {} /\ poisoned = {}
      /\ dataAddr = [set |-> 0, word |-> 0] /\ flushAddr = 0 /\ replaceWay = 0
  BY DEF Init
<1>2. /\ invalidateQ \in BOOLEAN /\ arvalidQ \in BOOLEAN /\ error \in BOOLEAN
      /\ doomed \in BOOLEAN
      /\ ~invalidateQ /\ ~arvalidQ /\ ~error
  BY Zenon DEF Init
<1>3. TypeOK
  <2>1. [valid |-> TRUE, tag |-> 0] \in TagEntry
    BY ConstantsTyped DEF TagEntry
  <2>2. /\ tagRam \in [Set -> [Way -> TagEntry]] /\ tagOut \in [Way -> TagEntry]
    BY <1>1, <2>1
  <2>3. /\ dataRam \in [Set -> [Way -> [Word -> Data]]] /\ dataOut \in [Way -> Data]
    BY <1>1, CacheAssumption
  <2>4. 0 \in 0 .. MaxVersion /\ 0 \in Way
    BY CacheAssumption DEF Way
  <2>5. /\ version \in [Stored -> 0 .. MaxVersion] /\ floor \in [Stored -> 0 .. MaxVersion]
    BY <1>1, <2>4
  <2>6. /\ dataAddr \in Place /\ flushAddr \in Set /\ replaceWay \in Way /\ state \in State
    BY <1>1, <2>4, ConstantsTyped DEF Place, State
  <2> QED
    BY <1>1, <1>2, <2>2, <2>3, <2>5, <2>6 DEF TypeOK
<1>4. SetsInv
  <2>1. \A x \in Set : ~(x < 0)
    BY DEF Set
  <2> QED
    BY <1>1, <1>2, <2>1 DEF SetsInv
<1>5. FloorInv
  BY <1>1 DEF FloorInv
<1> QED
  BY <1>1, <1>2, <1>3, <1>4, <1>5 DEF IInv, RefillInStep, OutputsInv, FlushInv, RefillInv

(* The invariant holds, for every number of sets, tags and words of a      *)
(* line, whatever is asked for, stored and delivered.                      *)
THEOREM InvariantHolds == Spec => []IInv
<1>1. IInv /\ [Next]_vars => IInv'
  <2> SUFFICES ASSUME IInv, [Next]_vars PROVE IInv'
    OBVIOUS
  <2>1. ASSUME NEW in \in Requests, NEW s \in AxiInputs, NEW st \in Stores, Clock(in, s, st)
        PROVE  IInv'
    <3>1. CASE state = "LOOKUP"
      BY <2>1, <3>1, LookupMisses, LookupFlushes, LookupGoesOn
    <3>2. CASE state = "REFILL"
      BY <2>1, <3>2, RefillGoesOn, RefillEnds
    <3>3. CASE state = "RELOOKUP"
      BY <2>1, <3>3, Relooks
    <3>4. CASE state = "FLUSH"
      BY <2>1, <3>4, Flushes
    <3> QED
      BY <3>1, <3>2, <3>3, <3>4 DEF IInv, RefillInStep, TypeOK, State
  <2>2. CASE Next
    BY <2>1, <2>2 DEF Next
  <2>3. CASE UNCHANGED vars
    BY <2>3, SMTT(60)
    DEF vars, cacheVars, IInv, RefillInStep, TypeOK, SetsInv, OutputsInv, FlushInv, RefillInv,
        FloorInv, Consistent, OneCopy, Sound, Refilling, Cleared, Held, Caches, GoodWord,
        AddressIn, Sought, Araddr
  <2> QED
    BY <2>2, <2>3
<1> QED
  BY InitInv, <1>1, PTL DEF Spec

(* Refills keep the cache consistent, with the bus and in itself           *)
(* (icache.v:251, 520): no line is held twice, and every word of a refill  *)
(* goes to its place, whatever flushes and invalidates come between, for   *)
(* every geometry.                                                         *)
THEOREM RefillsConsistentCorrect == Spec => []RefillsConsistent
<1>1. IInv => RefillsConsistent
  <2> SUFFICES ASSUME IInv PROVE OneCopyPerLine /\ RefillInStep
    BY DEF RefillsConsistent
  <2>1. ASSUME state # "FLUSH", NEW x \in Set PROVE OneCopy(x)
    <3>1. state \in State
      BY DEF IInv, RefillInStep, TypeOK
    <3> QED
      BY <2>1, <3>1 DEF IInv, SetsInv, Consistent, Refilling, State
  <2> QED
    BY <2>1 DEF OneCopyPerLine, OneCopy, IInv
<1> QED
  BY InvariantHolds, <1>1, PTL

(* An instruction is the word asked for, and no older than the last flush  *)
(* of it (icache.v:414), for every geometry and whatever is stored when.   *)
THEOREM FreshInstructionsCorrect == Spec => []FreshInstructions
<1>1. IInv => FreshInstructions
  <2> SUFFICES ASSUME IInv, ReqValid, ~doomed,
                      [tag |-> Sought.tag, set |-> Sought.set] \notin poisoned
               PROVE  GoodWord(ReqInst, Sought)
    BY DEF FreshInstructions, GoodWord, Sought
  <2>1. TypeOK /\ state = "LOOKUP" /\ lookup # {} /\ ~Miss
    BY DEF IInv, RefillInStep, ReqValid
  <2>2. /\ Sought \in Address /\ lookup = {Sought}
        /\ Sought.tag \in Tag /\ Sought.set \in Set /\ Sought.word \in Word
    BY <2>1, SoughtTyped
  <2>3. /\ tagOut = tagRam[Sought.set]
        /\ \A w \in Way : dataOut[w] = dataRam[Sought.set][w][Sought.word]
        /\ Consistent(Sought.set)
    BY <2>1, <2>2 DEF IInv, OutputsInv, SetsInv
  <2>4. ASSUME NEW w \in Way, TagHit(w) PROVE GoodWord(dataOut[w], Sought)
    <3>1. Held(Sought.set, w) /\ tagRam[Sought.set][w].tag = Sought.tag
      BY <2>2, <2>3, <2>4 DEF TagHit, Held
    <3>2. Sound(Sought.set, w)
      BY <2>3 DEF Consistent
    <3>3. GoodWord(dataRam[Sought.set][w][Sought.word], AddressIn(Sought.set, w, Sought.word))
      BY <2>2, <3>1, <3>2 DEF Sound
    <3>4. AddressIn(Sought.set, w, Sought.word) = Sought
      BY <2>2, <3>1 DEF AddressIn, Address
    <3> QED
      BY <2>3, <3>3, <3>4
  <2>5. 0 \in Way /\ 1 \in Way /\ (TagHit(0) \/ TagHit(1))
    BY <2>1 DEF Miss, Way
  <2> QED
    BY <2>4, <2>5 DEF ReqInst
<1> QED
  BY InvariantHolds, <1>1, PTL
===============================================================================
