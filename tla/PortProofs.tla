------------------------------ MODULE PortProofs ------------------------------
(***************************************************************************)
(* Proofs about what stands between the core and its memories, each on its *)
(* own.                                                                    *)
(*                                                                         *)
(* Tcm: for every size of the RAM, every set of values, of bursts of up to *)
(* 256 beats and of requests of the core, and every depth of the FIFOs.    *)
(* The proofs assume that every beat of a write has its strobe on: one     *)
(* without a strobe is taken and never answered.                           *)
(*                                                                         *)
(* DCachePort: for every set of tags, every depth of the FIFOs and any     *)
(* number of evictions.  The invariant says whose turn it is: nobody's,    *)
(* the cache's with one request, or the uncached path's with as many as    *)
(* its FIFO of tags holds.                                                 *)
(***************************************************************************)
EXTENDS Tcm, DCachePort, Integers, SequenceTheorems, TLAPS

---------------------------------------------------------------------------
(* The tightly coupled memory.                                             *)

Ids == {c.id : c \in Commands}

(* The burst in the registers is the one being served. *)
Beat(read, r) == [read |-> read, addr |-> r.addr, len |-> r.len, id |-> r.id]

BurstInv ==
  /\ ~(reqRd /\ reqWr)
  /\ reqRd => burst = {Beat(TRUE, req)}
  /\ reqWr => burst = {Beat(FALSE, req)}
  /\ ~reqRd /\ ~reqWr => burst = {}

(* The beats of a write that the master has not handed over are those of   *)
(* the write that waits, or of the one that goes on.                       *)
ToCome == IF aw # {} THEN The(aw).len + 1 ELSE IF reqWr THEN req.len + 1 ELSE 0

One(S) == IF S = {} THEN 0 ELSE 1

MasterInv ==
  /\ aw \in AtMostOne(Commands) /\ ar \in AtMostOne(Commands) /\ w \in AtMostOne(Data)
  /\ wLeft \in Nat
  /\ aw # {} => ~reqWr
  /\ wLeft + One(w) = ToCome
  /\ \A d \in w : d.strobe /\ (d.last <=> wLeft = 0)

(* Who has asked for the port and not got it still asks, and gets it.      *)
HoldInv ==
  /\ ~(holdRd /\ holdWr)
  /\ holdRd => RamRead /\ RamAccept
  /\ holdWr => RamWrite /\ RamAccept

(* A direction that has been passed once too often would go first.         *)
PassedInv ==
  /\ passed.aw \in 0 .. 2 /\ passed.ar \in 0 .. 2
  /\ passed.aw = 1 => ~prio \/ ~holdRd \/ reqRd
  /\ passed.aw = 2 => prio /\ (~holdRd \/ reqRd)
  /\ passed.ar = 1 => prio \/ ~holdWr \/ reqWr
  /\ passed.ar = 2 => ~prio /\ (~holdWr \/ reqWr)

(* The word the RAM put out in the last cycle is for the access made then. *)
LastAnswer ==
  extAck => LET n == Len(responses) + 1 IN due[n].read => <<dataOut>> = due[n].data

Response == [read : BOOLEAN, last : BOOLEAN, id : Ids, data : {<<>>} \cup {<<v>> : v \in Values}]

IInv ==
  /\ AnswersTracked /\ CpuAnswersMatch /\ due \in Seq(Response)
  /\ ram = contents
  /\ BurstInv /\ MasterInv /\ HoldInv /\ PassedInv /\ LastAnswer

-----------------------------------------------------------------------------
(* Small facts.                                                            *)

LEMMA TheOnly == ASSUME NEW x PROVE The({x}) = x
  BY DEF The

LEMMA OneOf ==
  ASSUME NEW S, NEW X \in AtMostOne(S), X # {}
  PROVE  X = {The(X)} /\ The(X) \in S
<1>1. PICK x \in S : X = {x}
  BY DEF AtMostOne
<1> QED
  BY <1>1, TheOnly

LEMMA SeqFacts ==
  ASSUME NEW S, NEW q \in Seq(S), NEW x \in S
  PROVE  /\ Len(q) \in Nat
         /\ Append(q, x) \in Seq(S) /\ Len(Append(q, x)) = Len(q) + 1
         /\ \A i \in 1 .. Len(q) : Append(q, x)[i] = q[i]
         /\ Append(q, x)[Len(q) + 1] = x
         /\ q # <<>> => /\ Len(q) >= 1 /\ Head(q) = q[1] /\ Head(q) \in S
                        /\ Tail(q) \in Seq(S) /\ Len(Tail(q)) = Len(q) - 1
                        /\ \A i \in 1 .. Len(q) - 1 : Tail(q)[i] = q[i + 1]
         /\ q = <<>> <=> Len(q) = 0
  OBVIOUS

LEMMA CommandType ==
  ASSUME NEW c \in Commands
  PROVE  c.addr \in Address /\ c.len \in 0 .. 255 /\ c.id \in Ids
         /\ c = [addr |-> c.addr, len |-> c.len, id |-> c.id]
<1>1. c \in [addr : 0 .. Words - 1, len : 0 .. 255, id : {d.id : d \in Commands}]
  BY TcmAssumption
<1> QED
  BY <1>1 DEF Address, Ids

LEMMA NextAddressType ==
  ASSUME NEW a \in Address
  PROVE  NextAddress(a) \in Address
<1>1. Words \in Nat \ {0}
  BY TcmAssumption
<1> QED
  BY <1>1 DEF NextAddress, Address

LEMMA LessOneIs ==
  ASSUME NEW n \in 0 .. 255
  PROVE  LessOne(n) \in 0 .. 255 /\ (n # 0 => LessOne(n) = n - 1)
  BY DEF LessOne

-----------------------------------------------------------------------------
(* The wires.                                                              *)

LEMMA Wires ==
  ASSUME IInv
  PROVE  /\ ~(ReadActive /\ WriteActive)
         /\ RamWrite <=> WriteActive /\ w # {}
         /\ ExtGo => RamAccept /\ (RamRead <=> ~RamWrite)
         /\ WGo <=> RamWrite /\ RamAccept
         /\ AwGo => aw # {} /\ WriteActive /\ ~ReadActive /\ ~reqRd /\ ~reqWr /\ ~ArGo
         /\ ArGo => ar # {} /\ ReadActive /\ ~WriteActive /\ ~reqRd /\ ~reqWr /\ ExtGo
         /\ ~AwGo /\ ~ArGo /\ ExtGo => reqRd \/ reqWr
         /\ reqRd => ~WriteActive
         /\ reqWr => ~ReadActive
         /\ ExtGo => FifoAccept
<1>1. ~(ReadActive /\ WriteActive)
  BY DEF IInv, HoldInv, BurstInv, ReadActive, WriteActive, ReadPrio, WritePrio
<1>2. RamWrite <=> WriteActive /\ w # {}
  BY DEF RamWrite, IInv, MasterInv
<1> QED
  BY <1>1, <1>2 DEF ExtGo, ExtRequest, WGo, AwGo, ArGo, RamRead, ReadActive, WriteActive

-----------------------------------------------------------------------------
(* The beat that is served in this cycle.                                  *)

Reads  == ArGo \/ reqRd
Writes == AwGo \/ reqWr

Now == IF AwGo THEN The(aw) ELSE IF ArGo THEN The(ar) ELSE req

(* What is left of a burst after a beat. *)
Goes(r) == [len |-> r.len - 1, addr |-> NextAddress(r.addr), id |-> r.id]

LEMMA NowType ==
  ASSUME IInv
  PROVE  Now \in [len : 0 .. 255, addr : Address, id : Ids]
<1>1. req \in [len : 0 .. 255, addr : Address, id : Ids]
  BY DEF IInv, AnswersTracked, TypeOK, Ids
<1>2. AwGo => The(aw) \in [len : 0 .. 255, addr : Address, id : Ids]
  BY OneOf, CommandType DEF AwGo, IInv, MasterInv
<1>3. ArGo => The(ar) \in [len : 0 .. 255, addr : Address, id : Ids]
  BY OneOf, CommandType DEF ArGo, IInv, MasterInv
<1> QED
  BY <1>1, <1>2, <1>3 DEF Now

LEMMA ServingIs ==
  ASSUME IInv
  PROVE  /\ ~(Reads /\ Writes)
         /\ Reads => Serving = {Beat(TRUE, Now)}
         /\ Writes => Serving = {Beat(FALSE, Now)}
         /\ ~Reads /\ ~Writes => Serving = {}
<1>1. CASE AwGo
  <2>1. ~ArGo /\ ~reqRd /\ Now = The(aw)
    BY <1>1, Wires DEF Now
  <2> QED
    BY <1>1, <2>1 DEF Reads, Writes, Serving, Beat
<1>2. CASE ~AwGo /\ ArGo
  <2>1. ~reqWr /\ Now = The(ar)
    BY <1>2, Wires DEF Now
  <2> QED
    BY <1>2, <2>1 DEF Reads, Writes, Serving, Beat
<1>3. CASE ~AwGo /\ ~ArGo
  <2>1. Now = req /\ Serving = burst
    BY <1>3 DEF Now, Serving
  <2> QED
    BY <1>3, <2>1 DEF Reads, Writes, IInv, BurstInv
<1> QED
  BY <1>1, <1>2, <1>3

LEMMA BeatFields ==
  ASSUME NEW read, NEW r
  PROVE  /\ Beat(read, r).read = read /\ Beat(read, r).addr = r.addr
         /\ Beat(read, r).len = r.len /\ Beat(read, r).id = r.id
  BY DEF Beat

LEMMA Served ==
  ASSUME IInv
  PROVE  /\ BeatServed <=> ExtGo
         /\ ExtGo => Reads \/ Writes
         /\ ExtGo /\ Reads => RamRead /\ ~RamWrite /\ The(Serving) = Beat(TRUE, Now)
         /\ ExtGo /\ Writes => RamWrite /\ ~RamRead /\ WGo /\ The(Serving) = Beat(FALSE, Now)
         /\ ExtGo => RamAddr = Now.addr
<1>1. ExtGo => Reads \/ Writes
  BY Wires DEF Reads, Writes
<1>2. ExtGo /\ Reads => RamRead /\ ~RamWrite
  BY Wires DEF Reads, ExtGo, ExtRequest
<1>3. ExtGo /\ Writes => RamWrite /\ ~RamRead /\ WGo
  <2>1. Writes => ~ReadActive
    BY Wires DEF Writes
  <2> QED
    BY <2>1, Wires DEF ExtGo, ExtRequest, RamRead
<1>4. Reads => The(Serving) = Beat(TRUE, Now)
  BY ServingIs, TheOnly
<1>5. Writes => The(Serving) = Beat(FALSE, Now)
  BY ServingIs, TheOnly
<1>6. BeatServed <=> ExtGo
  <2>1. CASE Reads
    <3>1. BeatServed <=> ExtGo /\ RamRead
      <4>1. \A b \in Serving : b.read
        <5>1. Beat(TRUE, Now).read
          BY DEF Beat
        <5> QED
          BY <2>1, <5>1, ServingIs
      <4>2. Serving # {}
        BY <2>1, ServingIs
      <4> QED
        BY <4>1, <4>2 DEF BeatServed
    <3> QED
      BY <2>1, <3>1, <1>2
  <2>2. CASE Writes
    <3>1. BeatServed <=> WGo
      <4>1. \A b \in Serving : ~b.read
        <5>1. ~Beat(FALSE, Now).read
          BY DEF Beat
        <5> QED
          BY <2>2, <5>1, ServingIs
      <4>2. Serving # {}
        BY <2>2, ServingIs
      <4> QED
        BY <4>1, <4>2 DEF BeatServed
    <3>2. WGo => ExtGo
      BY Wires DEF ExtGo, ExtRequest
    <3> QED
      BY <2>2, <3>1, <3>2, <1>3
  <2>3. CASE ~Reads /\ ~Writes
    BY <2>3, <1>1, ServingIs DEF BeatServed
  <2> QED
    BY <2>1, <2>2, <2>3
<1>7. ASSUME ExtGo PROVE RamAddr = Now.addr
  <2>1. CASE AwGo
    BY <2>1, Wires DEF RamAddr, Now
  <2>2. CASE ~AwGo /\ ArGo
    BY <2>2, Wires DEF RamAddr, Now
  <2>3. CASE ~AwGo /\ ~ArGo
    BY <2>3, <1>7, Wires DEF RamAddr, Now
  <2> QED
    BY <2>1, <2>2, <2>3
<1> QED
  BY <1>1, <1>2, <1>3, <1>4, <1>5, <1>6, <1>7

(* The access that is tracked, and the response the master must get.       *)
Access(read, r) == [read |-> read, last |-> r.len = 0, id |-> r.id]
Answer(read, r, data) == [read |-> read, last |-> r.len = 0, id |-> r.id, data |-> data]

LEMMA RequestIs ==
  ASSUME IInv, ExtGo
  PROVE  /\ Reads => Request = Access(TRUE, Now)
         /\ Writes => Request = Access(FALSE, Now)
<1>1. CASE ArGo
  <2>1. Now = The(ar) /\ ~AwGo
    BY <1>1, Wires DEF Now
  <2> QED
    BY <1>1, <2>1, ServingIs DEF Reads, Request, Access
<1>2. CASE ~ArGo /\ AwGo
  <2>1. Now = The(aw)
    BY <1>2 DEF Now
  <2> QED
    BY <1>2, <2>1, ServingIs DEF Writes, Request, Access
<1>3. CASE ~ArGo /\ ~AwGo
  <2>1. Now = req /\ Request = Access(RamRead, req)
    BY <1>3 DEF Now, Request, Access
  <2>2. Reads => RamRead = TRUE
    BY Served
  <2>3. RamRead \in BOOLEAN
    BY DEF RamRead, ReadActive
  <2>4. Writes => RamRead = FALSE
    BY Served, <2>3
  <2> QED
    BY <2>1, <2>2, <2>4
<1> QED
  BY <1>1, <1>2, <1>3

(* The last beat of a write is marked as such by the master.               *)
LEMMA LastBeat ==
  ASSUME IInv, WGo
  PROVE  /\ w # {} /\ w = {The(w)} /\ The(w) \in Data /\ The(w).strobe
         /\ The(w).last <=> wLeft = 0
         /\ wLeft \in Nat /\ wLeft + 1 = ToCome
         /\ ToCome = Now.len + 1
<1>1. w # {} /\ w = {The(w)} /\ The(w) \in Data
  BY OneOf DEF WGo, IInv, MasterInv
<1>2. The(w).strobe /\ (The(w).last <=> wLeft = 0)
  BY <1>1 DEF IInv, MasterInv
<1>3. wLeft \in Nat /\ wLeft + 1 = ToCome
  BY <1>1 DEF IInv, MasterInv, One
<1>4. RamAccept /\ WriteActive
  BY DEF WGo
<1>5. CASE aw # {}
  <2>1. AwGo
    BY <1>4, <1>5 DEF AwGo, IInv, MasterInv
  <2> QED
    BY <1>1, <1>2, <1>3, <1>5, <2>1 DEF ToCome, Now
<1>6. CASE aw = {}
  <2>1. reqWr
    BY <1>4, <1>6 DEF WriteActive
  <2>2. ~AwGo /\ ~ArGo
    BY <2>1, Wires
  <2> QED
    BY <1>1, <1>2, <1>3, <1>6, <2>1, <2>2 DEF ToCome, Now
<1> QED
  BY <1>5, <1>6

LEMMA NextBeat ==
  ASSUME NEW r \in [len : 0 .. 255, addr : Address, id : Ids]
  PROVE  [r EXCEPT !.len = LessOne(@), !.addr = NextAddress(@)] =
           [len |-> LessOne(r.len), addr |-> NextAddress(r.addr), id |-> r.id]
<1> DEFINE s == [r EXCEPT !.len = LessOne(@), !.addr = NextAddress(@)]
<1>1. s \in [len : 0 .. 255, addr : Address, id : Ids]
  BY LessOneIs, NextAddressType
<1>2. s.len = LessOne(r.len) /\ s.addr = NextAddress(r.addr) /\ s.id = r.id
  OBVIOUS
<1> HIDE DEF s
<1>3. s = [len |-> s.len, addr |-> s.addr, id |-> s.id]
  BY <1>1
<1> QED
  BY <1>2, <1>3 DEF s

LEMMA BeatGoesOn ==
  ASSUME NEW read \in BOOLEAN, NEW r \in [len : 0 .. 255, addr : Address, id : Ids]
  PROVE  [Beat(read, r) EXCEPT !.len = @ - 1, !.addr = NextAddress(@)] = Beat(read, Goes(r))
<1> DEFINE b == Beat(read, r)
           s == [b EXCEPT !.len = @ - 1, !.addr = NextAddress(@)]
<1>1. b \in [read : BOOLEAN, addr : Address, len : Int, id : Ids]
  BY DEF Beat
<1>2. b.read = read /\ b.addr = r.addr /\ b.len = r.len /\ b.id = r.id
  BY BeatFields
<1> HIDE DEF b
<1>3. s \in [read : BOOLEAN, addr : Address, len : Int, id : Ids]
  <2>1. NextAddress(b.addr) \in Address /\ b.len - 1 \in Int
    BY <1>1, NextAddressType
  <2> QED
    BY <1>1, <2>1
<1>4. s.read = b.read /\ s.len = b.len - 1 /\ s.addr = NextAddress(b.addr) /\ s.id = b.id
  BY <1>1
<1> HIDE DEF s
<1>5. s = [read |-> s.read, addr |-> s.addr, len |-> s.len, id |-> s.id]
  BY <1>3
<1>6. s = Beat(read, Goes(r))
  BY <1>2, <1>4, <1>5 DEF Beat, Goes
<1> QED
  BY <1>6 DEF s, b

(* How the registers of the burst go on.                                   *)
LEMMA BurstGoesOn ==
  ASSUME IInv, BurstRegisters
  PROVE  /\ reqRd' <=> Reads /\ (ExtGo => Now.len # 0)
         /\ reqWr' <=> Writes /\ (ExtGo => Now.len # 0)
         /\ {reqRd', reqWr'} \subseteq BOOLEAN
         /\ (reqRd' \/ reqWr') /\ ExtGo => req' = Goes(Now)
         /\ (reqRd' \/ reqWr') /\ ~ExtGo => req' = Now
         /\ req' \in [len : 0 .. 255, addr : Address, id : Ids]
<1> DEFINE T == [len : 0 .. 255, addr : Address, id : Ids]
           L == [len |-> LessOne(Now.len), addr |-> NextAddress(Now.addr), id |-> Now.id]
<1>1. /\ Now \in T /\ req \in T /\ L \in T
      /\ Now.len # 0 => L = Goes(Now)
      /\ {reqRd, reqWr} \subseteq BOOLEAN
  BY NowType, LessOneIs, NextAddressType DEF Goes, IInv, AnswersTracked, TypeOK, Ids
<1>2. CASE AwGo
  <2>1. ~ArGo /\ ~reqRd /\ ~reqWr /\ aw # {} /\ Now = The(aw) /\ Writes /\ ~Reads
    BY <1>2, Wires DEF Now, Reads, Writes
  <2>2. /\ reqWr' = ~(WGo /\ The(w).last)
        /\ reqRd' = (reqRd /\ ~(ExtGo /\ req.len = 0))
        /\ req' = IF WGo THEN L ELSE Now
    BY <1>2, <2>1 DEF BurstRegisters
  <2>3. ExtGo <=> WGo
    BY <2>1, Served, Wires DEF ExtGo, ExtRequest
  <2>4. WGo => (The(w).last <=> Now.len = 0)
    BY LastBeat, <1>1
  <2> QED
    BY <1>1, <2>1, <2>2, <2>3, <2>4
<1>3. CASE ~AwGo /\ ArGo
  <2>1. ~reqRd /\ ~reqWr /\ Now = The(ar) /\ ~Writes /\ Reads /\ ExtGo
    BY <1>3, Wires DEF Now, Reads, Writes
  <2>2. /\ reqRd' = (Now.len # 0)
        /\ reqWr' = (reqWr /\ ~(ExtGo /\ req.len = 0))
        /\ req' = L
    BY <1>3, <2>1 DEF BurstRegisters
  <2> QED
    BY <1>1, <2>1, <2>2
<1>4. CASE ~AwGo /\ ~ArGo
  <2>1. Now = req /\ (Reads <=> reqRd) /\ (Writes <=> reqWr)
    BY <1>4 DEF Now, Reads, Writes
  <2>2. /\ reqRd' = (reqRd /\ ~(ExtGo /\ req.len = 0))
        /\ reqWr' = (reqWr /\ ~(ExtGo /\ req.len = 0))
        /\ req' = IF ExtGo /\ req.len # 0
                    THEN [req EXCEPT !.len = LessOne(@), !.addr = NextAddress(@)] ELSE req
    BY <1>4, <1>1 DEF BurstRegisters
  <2>3. [req EXCEPT !.len = LessOne(@), !.addr = NextAddress(@)] = L
    BY <2>1, <1>1, NextBeat
  <2> HIDE DEF L
  <2>4. req' \in T
    BY <1>1, <2>2, <2>3
  <2> HIDE DEF T
  <2>5. /\ (reqRd' \/ reqWr') /\ ExtGo => req' = Goes(Now)
        /\ (reqRd' \/ reqWr') /\ ~ExtGo => req' = Now
    BY <1>1, <2>1, <2>2, <2>3
  <2> QED
    BY <1>1, <2>1, <2>2, <2>4, <2>5 DEF T
<1> QED
  BY <1>2, <1>3, <1>4

LEMMA BurstInvKept ==
  ASSUME IInv, NEW c \in CpuRequests, NEW ready \in BOOLEAN, BurstRegisters, History(c, ready)
  PROVE  BurstInv'
<1>1. burst' = IF ~BeatServed THEN Serving
               ELSE IF The(Serving).len = 0 THEN {}
               ELSE {[The(Serving) EXCEPT !.len = @ - 1, !.addr = NextAddress(@)]}
  BY DEF History
<1>2. \A read \in BOOLEAN :
        [Beat(read, Now) EXCEPT !.len = @ - 1, !.addr = NextAddress(@)] = Beat(read, Goes(Now))
  BY BeatGoesOn, NowType
<1>3. \A read : Beat(read, Now).len = Now.len
  BY BeatFields
<1>4. ~(Reads /\ Writes)
  BY ServingIs
<1>5. CASE ExtGo
  <2>1. BeatServed /\ (Reads \/ Writes)
    BY <1>5, Served
  <2>2. CASE Reads
    <3>1. The(Serving) = Beat(TRUE, Now)
      BY <2>2, <1>5, Served
    <3>2. burst' = IF Now.len = 0 THEN {} ELSE {Beat(TRUE, Goes(Now))}
      BY <1>1, <1>2, <1>3, <2>1, <3>1
    <3> QED
      BY <1>4, <1>5, <2>2, <3>2, BurstGoesOn DEF BurstInv
  <2>3. CASE Writes
    <3>1. The(Serving) = Beat(FALSE, Now)
      BY <2>3, <1>5, Served
    <3>2. burst' = IF Now.len = 0 THEN {} ELSE {Beat(FALSE, Goes(Now))}
      BY <1>1, <1>2, <1>3, <2>1, <3>1
    <3> QED
      BY <1>4, <1>5, <2>3, <3>2, BurstGoesOn DEF BurstInv
  <2> QED
    BY <2>1, <2>2, <2>3
<1>6. CASE ~ExtGo
  <2>1. burst' = Serving
    BY <1>1, <1>6, Served
  <2> QED
    BY <1>4, <1>6, <2>1, ServingIs, BurstGoesOn DEF BurstInv
<1> QED
  BY <1>5, <1>6

-----------------------------------------------------------------------------
(* What the master offers next.                                            *)

LEMMA OfferIs ==
  ASSUME IInv, Offer
  PROVE  \E newAw \in AtMostOne(Commands), newAr \in AtMostOne(Commands), newW \in AtMostOne(Data) :
           /\ newAw # {} => (aw = {} \/ AwGo) /\ (w = {} \/ WGo) /\ wLeft = 0
           /\ newAr # {} => ar = {} \/ ArGo
           /\ aw' = IF newAw # {} THEN newAw ELSE IF AwGo THEN {} ELSE aw
           /\ ar' = IF newAr # {} THEN newAr ELSE IF ArGo THEN {} ELSE ar
           /\ w'  = IF newW # {} THEN newW ELSE IF WGo THEN {} ELSE w
           /\ LET left == IF newAw = {} THEN wLeft ELSE The(newAw).len + 1
              IN /\ newW # {} => /\ w = {} \/ WGo
                                 /\ left > 0
                                 /\ \A d \in newW : d.last = (left = 1)
                 /\ wLeft' = IF newW # {} THEN left - 1 ELSE left
<1>1. PICK newAw \in NewAws, newAr \in NewArs :
        LET left == IF newAw = {} THEN wLeft ELSE The(newAw).len + 1
        IN \E newW \in NewWs(left) :
             /\ aw' = IF newAw # {} THEN newAw ELSE IF AwGo THEN {} ELSE aw
             /\ ar' = IF newAr # {} THEN newAr ELSE IF ArGo THEN {} ELSE ar
             /\ w'  = IF newW # {} THEN newW ELSE IF WGo THEN {} ELSE w
             /\ wLeft' = IF newW # {} THEN left - 1 ELSE left
  BY DEF Offer
<1> DEFINE left == IF newAw = {} THEN wLeft ELSE The(newAw).len + 1
<1>2. PICK newW \in NewWs(left) :
             /\ aw' = IF newAw # {} THEN newAw ELSE IF AwGo THEN {} ELSE aw
             /\ ar' = IF newAr # {} THEN newAr ELSE IF ArGo THEN {} ELSE ar
             /\ w'  = IF newW # {} THEN newW ELSE IF WGo THEN {} ELSE w
             /\ wLeft' = IF newW # {} THEN left - 1 ELSE left
  BY <1>1
<1>3. /\ newAw \in AtMostOne(Commands)
      /\ newAw # {} => (aw = {} \/ AwGo) /\ (w = {} \/ WGo) /\ wLeft = 0
  BY DEF NewAws, AtMostOne
<1>4. newAr \in AtMostOne(Commands) /\ (newAr # {} => ar = {} \/ ArGo)
  BY DEF NewArs, AtMostOne
<1> HIDE DEF left
<1>5. newW \in AtMostOne(Data)
  BY DEF NewWs, AtMostOne
<1>6. newW # {} => (w = {} \/ WGo) /\ left > 0 /\ newW \in AtMostOne({d \in Data : d.last = (left = 1)})
  BY DEF NewWs
<1>7. newW # {} => \A d \in newW : d.last = (left = 1)
  BY <1>6 DEF AtMostOne
<1> QED
  BY <1>2, <1>3, <1>4, <1>5, <1>6, <1>7 DEF left

(* What is offered and not taken stays.                                    *)
LEMMA OffersStay ==
  ASSUME IInv, Offer
  PROVE  /\ aw # {} /\ ~AwGo => aw' = aw
         /\ ar # {} /\ ~ArGo => ar' = ar
         /\ w # {} /\ ~WGo => w' = w
  BY OfferIs

LEMMA MasterKept ==
  ASSUME IInv, ~ZeroStrobes, BurstRegisters, Offer
  PROVE  MasterInv'
<1>1. PICK newAw \in AtMostOne(Commands), newAr \in AtMostOne(Commands), newW \in AtMostOne(Data) :
           /\ newAw # {} => (aw = {} \/ AwGo) /\ (w = {} \/ WGo) /\ wLeft = 0
           /\ newAr # {} => ar = {} \/ ArGo
           /\ aw' = IF newAw # {} THEN newAw ELSE IF AwGo THEN {} ELSE aw
           /\ ar' = IF newAr # {} THEN newAr ELSE IF ArGo THEN {} ELSE ar
           /\ w'  = IF newW # {} THEN newW ELSE IF WGo THEN {} ELSE w
           /\ LET left == IF newAw = {} THEN wLeft ELSE The(newAw).len + 1
              IN /\ newW # {} => /\ w = {} \/ WGo
                                 /\ left > 0
                                 /\ \A d \in newW : d.last = (left = 1)
                 /\ wLeft' = IF newW # {} THEN left - 1 ELSE left
  BY OfferIs
<1> DEFINE left == IF newAw = {} THEN wLeft ELSE The(newAw).len + 1
           gone == IF WGo THEN 1 ELSE 0
<1>2. /\ aw \in AtMostOne(Commands) /\ ar \in AtMostOne(Commands) /\ w \in AtMostOne(Data)
      /\ wLeft \in Nat
      /\ aw # {} => ~reqWr
      /\ wLeft + One(w) = ToCome
      /\ \A d \in w : d.strobe /\ (d.last <=> wLeft = 0)
  BY DEF IInv, MasterInv
<1>3. newAw # {} => The(newAw) \in Commands /\ The(newAw).len \in 0 .. 255
  BY OneOf, CommandType
<1>4. left \in Nat
  BY <1>2, <1>3
<1>5. wLeft' = IF newW # {} THEN left - 1 ELSE left
  BY <1>1
<1>6. newW # {} => (w = {} \/ WGo) /\ left > 0 /\ \A d \in newW : d.last = (left = 1)
  BY <1>1
<1>7. Now.len \in 0 .. 255
  BY NowType
<1>8. WGo => w # {} /\ ExtGo /\ Writes
  <2>1. WGo => w # {} /\ ExtGo /\ ~ReadActive
    BY Wires DEF WGo, ExtGo, ExtRequest
  <2> QED
    BY <2>1, Wires, Served, ServingIs DEF Reads, ArGo, ReadActive
<1>9. Writes /\ ExtGo => WGo
  BY Served
(* What is left of the writes taken before, and of the one that waits.     *)
<1>10. ToCome = One(w) + wLeft /\ ToCome - gone = IF aw # {} /\ ~AwGo THEN The(aw).len + 1
                                                  ELSE IF reqWr' THEN req'.len + 1 ELSE 0
  <2>1. ToCome = One(w) + wLeft /\ ToCome \in Nat
    BY <1>2 DEF One
  <2>2. CASE aw # {} /\ ~AwGo
    <3>1. ~WGo
      BY <2>2, <1>2 DEF WGo, AwGo
    <3> QED
      BY <2>1, <2>2, <3>1 DEF ToCome
  <2>3. CASE AwGo \/ reqWr
    <3>1. Writes /\ ToCome = Now.len + 1 /\ ~(aw # {} /\ ~AwGo)
      BY <2>3, <1>2, Wires DEF Writes, Now, ToCome
    <3>2. CASE WGo
      <4>1. reqWr' <=> Now.len # 0
        BY <3>1, <3>2, <1>8, BurstGoesOn
      <4>2. reqWr' => req'.len = Now.len - 1
        BY <3>2, <1>8, BurstGoesOn DEF Goes
      <4> QED
        BY <2>1, <3>1, <3>2, <4>1, <4>2, <1>7
    <3>3. CASE ~WGo
      <4>1. reqWr' /\ req' = Now
        BY <3>1, <3>3, <1>9, BurstGoesOn
      <4> QED
        BY <2>1, <3>1, <3>3, <4>1, <1>7
    <3> QED
      BY <3>2, <3>3
  <2>4. CASE aw = {} /\ ~reqWr
    <3>1. ~Writes
      BY <2>4 DEF Writes, AwGo
    <3>2. ~reqWr' /\ ~WGo
      BY <3>1, <1>8, BurstGoesOn
    <3> QED
      BY <2>1, <2>4, <3>2 DEF ToCome
  <2> QED
    BY <2>2, <2>3, <2>4
<1>11. wLeft' + One(w') = left + One(w) - gone
  <2>1. CASE newW # {}
    BY <2>1, <1>1, <1>4, <1>5, <1>6, <1>8 DEF One
  <2>2. CASE newW = {}
    BY <2>2, <1>1, <1>4, <1>5, <1>8 DEF One
  <2> QED
    BY <2>1, <2>2
<1> HIDE DEF left
<1>12. (aw' # {} => ~reqWr') /\ wLeft' + One(w') = ToCome'
  <2>1. CASE newAw # {}
    <3>1. /\ aw' = newAw /\ left = The(newAw).len + 1 /\ wLeft = 0
          /\ One(w) = gone /\ (aw = {} \/ AwGo)
      BY <1>1, <2>1, <1>8 DEF One, left
    <3>2. ToCome - gone = 0
      BY <3>1, <1>10
    <3>3. reqWr' => req'.len \in Nat
      BY BurstGoesOn
    <3>4. ~reqWr'
      BY <3>1, <3>2, <3>3, <1>10
    <3>5. ToCome' = left
      BY <2>1, <3>1 DEF ToCome, The
    <3>6. wLeft' + One(w') = left
      BY <3>1, <1>4, <1>11
    <3> QED
      BY <3>4, <3>5, <3>6
  <2>2. CASE newAw = {}
    <3>1. left = wLeft /\ aw' = (IF AwGo THEN {} ELSE aw)
      BY <1>1, <2>2 DEF left
    <3>2. aw' # {} => aw # {} /\ ~AwGo /\ aw' = aw
      BY <3>1
    <3>3. aw = {} \/ AwGo => aw' = {}
      BY <3>1
    <3>4. ToCome' = ToCome - gone
      <4>1. CASE aw # {} /\ ~AwGo
        <5>1. ToCome' = The(aw').len + 1
          BY <3>1, <4>1 DEF ToCome
        <5> QED
          BY <3>1, <4>1, <5>1, <1>10
      <4>2. CASE ~(aw # {} /\ ~AwGo)
        <5>1. ToCome' = IF reqWr' THEN req'.len + 1 ELSE 0
          BY <3>1, <4>2 DEF ToCome
        <5> QED
          BY <4>2, <5>1, <1>10
      <4> QED
        BY <4>1, <4>2
    <3>5. aw' # {} => ~reqWr'
      <4>1. aw # {} /\ ~AwGo => ~Writes
        BY <1>2 DEF Writes
      <4> QED
        BY <3>2, <4>1, BurstGoesOn
    <3>6. One(w) \in Nat /\ gone \in Nat
      BY DEF One
    <3>7. wLeft' + One(w') = ToCome'
      BY <3>1, <3>4, <3>6, <1>10, <1>11, <1>2
    <3> QED
      BY <3>5, <3>7
  <2> QED
    BY <2>1, <2>2
<1>13. \A d \in w' : d.strobe /\ (d.last <=> wLeft' = 0)
  <2>1. \A d \in Data : d.strobe
    BY DEF Data
  <2>2. CASE newW # {}
    <3>1. w' = newW /\ wLeft' = left - 1
      BY <1>1, <1>5, <2>2
    <3>2. \A d \in newW : d \in Data
      BY DEF AtMostOne
    <3>3. left = 1 <=> wLeft' = 0
      BY <3>1, <1>4
    <3> QED
      BY <2>1, <2>2, <3>1, <3>2, <3>3, <1>6
  <2>3. CASE newW = {} /\ w' # {}
    <3>1. w' = w /\ ~WGo /\ w # {}
      BY <1>1, <2>3
    <3>2. newAw = {} /\ wLeft' = wLeft
      BY <1>1, <1>5, <2>3, <3>1 DEF left
    <3> QED
      BY <3>1, <3>2, <1>2
  <2> QED
    BY <2>2, <2>3
<1>14. /\ aw' \in AtMostOne(Commands) /\ ar' \in AtMostOne(Commands) /\ w' \in AtMostOne(Data)
      /\ wLeft' \in Nat
  <2>1. \A S : {} \in AtMostOne(S)
    BY DEF AtMostOne
  <2> QED
    BY <2>1, <1>1, <1>2, <1>4, <1>5, <1>6
<1> QED
  BY <1>12, <1>13, <1>14 DEF MasterInv, AtMostOne

-----------------------------------------------------------------------------
(* The FIFOs.                                                              *)

(* A queue that may have given its head back. *)
Rest(q, p) == IF p = 1 THEN Tail(q) ELSE q

LEMMA RestIs ==
  ASSUME NEW S, NEW q \in Seq(S), NEW p \in Nat, p = 0 \/ (p = 1 /\ q # <<>>)
  PROVE  /\ Rest(q, p) \in Seq(S)
         /\ Len(q) \in Nat /\ Len(q) >= p
         /\ Len(Rest(q, p)) = Len(q) - p
         /\ \A i \in 1 .. Len(q) - p : Rest(q, p)[i] = q[i + p]
<1>1. CASE p = 0
  BY <1>1, SeqFacts DEF Rest
<1>2. CASE p = 1 /\ q # <<>>
  BY <1>2, SeqFacts DEF Rest
<1> QED
  BY <1>1, <1>2

LEMMA QueueMoves ==
  ASSUME NEW S, NEW q \in Seq(S), NEW x \in S, NEW p \in Nat, p = 0 \/ (p = 1 /\ q # <<>>)
  PROVE  /\ Append(Rest(q, p), x) \in Seq(S) /\ Len(Append(Rest(q, p), x)) = Len(q) - p + 1
         /\ \A i \in 1 .. Len(q) - p : Append(Rest(q, p), x)[i] = q[i + p]
         /\ Append(Rest(q, p), x)[Len(q) - p + 1] = x
<1> PICK m : m = Rest(q, p)
  OBVIOUS
<1>1. /\ m \in Seq(S) /\ Len(m) = Len(q) - p
      /\ \A i \in 1 .. Len(q) - p : m[i] = q[i + p]
  BY RestIs
<1> QED
  BY <1>1, SeqFacts

(* What a FIFO gives back is a natural number of the answers.              *)
Taken(ready) == IF ResponseTaken(ready) THEN 1 ELSE 0

Acks == IF extAck THEN 1 ELSE 0
Gone == IF ExtGo THEN 1 ELSE 0

(* The data the master must get with the beat. *)
BeatData == IF Reads THEN <<contents[Now.addr]>> ELSE <<>>

NowDue == IF Reads THEN Answer(TRUE, Now, BeatData) ELSE Answer(FALSE, Now, BeatData)

AccessType == [read : BOOLEAN, last : BOOLEAN, id : Ids]

LEMMA Lengths ==
  ASSUME IInv, NEW ready \in BOOLEAN
  PROVE  /\ requests \in Seq(AccessType) /\ responses \in Seq(Values) /\ due \in Seq(Response)
         /\ Len(requests) \in Nat /\ Len(responses) \in Nat
         /\ Len(requests) = Len(responses) + Acks /\ Len(requests) <= Depth
         /\ Len(due) = Len(requests)
         /\ {ResponseTaken(ready), ExtGo, extAck} \subseteq BOOLEAN
         /\ ResponseTaken(ready) => responses # <<>> /\ requests # <<>> /\ due # <<>>
         /\ extAck => Len(responses) # Depth
<1>1. /\ requests \in Seq(AccessType) /\ responses \in Seq(Values) /\ due \in Seq(Response)
      /\ Len(requests) = Len(responses) + Acks /\ Len(requests) <= Depth
      /\ Len(due) = Len(requests) /\ extAck \in BOOLEAN
  BY DEF IInv, AnswersTracked, TypeOK, Acks, AccessType, Ids
<1>2. ResponseTaken(ready) => responses # <<>>
  BY DEF ResponseTaken
<1>3. {ResponseTaken(ready), ExtGo} \subseteq BOOLEAN
  BY DEF ResponseTaken, ExtGo, ExtRequest
<1>4. Len(requests) \in Nat /\ Len(responses) \in Nat /\ Len(due) \in Nat
  BY <1>1, LenProperties
<1>5. \A q : Len(q) # 0 => q # <<>>
  BY EmptySeq
<1>6. responses # <<>> => Len(responses) # 0
  BY <1>1, EmptySeq
<1>7. ResponseTaken(ready) => requests # <<>> /\ due # <<>>
  BY <1>1, <1>2, <1>4, <1>5, <1>6 DEF Acks
<1>8. extAck => Len(responses) # Depth
  BY <1>1, <1>4, TcmAssumption DEF Acks
<1> QED
  BY <1>1, <1>2, <1>3, <1>4, <1>7, <1>8

LEMMA NowDueType ==
  ASSUME IInv, ExtGo
  PROVE  /\ Request \in AccessType /\ NowDue \in Response
         /\ Request.read = NowDue.read /\ Request.last = NowDue.last /\ Request.id = NowDue.id
         /\ NowDue.read => Reads /\ NowDue.data = <<contents[Now.addr]>>
<1>1. Now.id \in Ids /\ Now.addr \in Address
  BY NowType
<1>2. contents[Now.addr] \in Values
  BY <1>1 DEF IInv, AnswersTracked, TypeOK
<1>3. \A r, d : /\ Access(TRUE, r).read = Answer(TRUE, r, d).read
                /\ Access(TRUE, r).last = Answer(TRUE, r, d).last
                /\ Access(TRUE, r).id = Answer(TRUE, r, d).id
                /\ Answer(TRUE, r, d).data = d
                /\ Access(FALSE, r).read = Answer(FALSE, r, d).read
                /\ Access(FALSE, r).last = Answer(FALSE, r, d).last
                /\ Access(FALSE, r).id = Answer(FALSE, r, d).id
                /\ ~Answer(FALSE, r, d).read
  BY DEF Access, Answer
<1>4. /\ Access(TRUE, Now) \in AccessType /\ Access(FALSE, Now) \in AccessType
      /\ \A d \in {<<>>} \cup {<<v>> : v \in Values} :
           Answer(TRUE, Now, d) \in Response /\ Answer(FALSE, Now, d) \in Response
  BY <1>1 DEF Access, Answer, AccessType, Response
<1>5. BeatData \in {<<>>} \cup {<<v>> : v \in Values}
  BY <1>2 DEF BeatData
<1>6. CASE Reads
  <2>1. Request = Access(TRUE, Now) /\ NowDue = Answer(TRUE, Now, BeatData)
    BY <1>6, RequestIs DEF NowDue
  <2>2. BeatData = <<contents[Now.addr]>>
    BY <1>6 DEF BeatData
  <2> QED
    BY <1>6, <2>1, <2>2, <1>3, <1>4, <1>5
<1>7. CASE ~Reads
  <2>1. Request = Access(FALSE, Now) /\ NowDue = Answer(FALSE, Now, BeatData)
    BY <1>7, RequestIs, Served DEF NowDue
  <2> QED
    BY <2>1, <1>3, <1>4, <1>5
<1> QED
  BY <1>6, <1>7

(* The queue of what is due goes with the accesses.                        *)
LEMMA DueIs ==
  ASSUME IInv, NEW c \in CpuRequests, NEW ready \in BOOLEAN, History(c, ready)
  PROVE  due' = Push(Pop(due, ResponseTaken(ready)), NowDue, ExtGo)
<1>1. due' = IF BeatServed
               THEN Append(Pop(due, ResponseTaken(ready)),
                           [read |-> The(Serving).read, last |-> The(Serving).len = 0,
                            id |-> The(Serving).id,
                            data |-> IF The(Serving).read THEN <<contents[The(Serving).addr]>>
                                     ELSE <<>>])
               ELSE Pop(due, ResponseTaken(ready))
  BY DEF History
<1>2. CASE ExtGo /\ Reads
  <2>1. The(Serving) = Beat(TRUE, Now)
    BY <1>2, Served
  <2>2. /\ The(Serving).read = TRUE /\ The(Serving).len = Now.len
        /\ The(Serving).id = Now.id /\ The(Serving).addr = Now.addr
    BY <2>1 DEF Beat
  <2>3. NowDue = [read |-> The(Serving).read, last |-> The(Serving).len = 0, id |-> The(Serving).id,
                  data |-> IF The(Serving).read THEN <<contents[The(Serving).addr]>> ELSE <<>>]
    BY <1>2, <2>2, Zenon DEF NowDue, Answer, BeatData
  <2> QED
    BY <1>1, <1>2, <2>3, Served DEF Push
<1>3. CASE ExtGo /\ ~Reads
  <2>1. The(Serving) = Beat(FALSE, Now)
    BY <1>3, Served
  <2>2. /\ The(Serving).read = FALSE /\ The(Serving).len = Now.len
        /\ The(Serving).id = Now.id /\ The(Serving).addr = Now.addr
    BY <2>1 DEF Beat
  <2>3. NowDue = [read |-> The(Serving).read, last |-> The(Serving).len = 0, id |-> The(Serving).id,
                  data |-> IF The(Serving).read THEN <<contents[The(Serving).addr]>> ELSE <<>>]
    BY <1>3, <2>2, Zenon DEF NowDue, Answer, BeatData
  <2> QED
    BY <1>1, <1>3, <2>3, Served DEF Push
<1>4. CASE ~ExtGo
  BY <1>1, <1>4, Served DEF Push
<1> QED
  BY <1>2, <1>3, <1>4

(* The lengths and the contents of the FIFOs after a cycle.                *)
LEMMA FifosMove ==
  ASSUME IInv, NEW c \in CpuRequests, NEW ready \in BOOLEAN, Fifos(ready), History(c, ready)
  PROVE  /\ requests' \in Seq(AccessType) /\ responses' \in Seq(Values) /\ due' \in Seq(Response)
         /\ Taken(ready) \in {0, 1} /\ Taken(ready) <= Len(responses)
         /\ Len(requests') = Len(requests) - Taken(ready) + Gone
         /\ Len(due') = Len(requests')
         /\ Len(responses') = Len(responses) - Taken(ready) + Acks
         /\ \A i \in 1 .. Len(requests) - Taken(ready) :
              requests'[i] = requests[i + Taken(ready)] /\ due'[i] = due[i + Taken(ready)]
         /\ \A i \in 1 .. Len(responses) - Taken(ready) :
              responses'[i] = responses[i + Taken(ready)]
         /\ ExtGo => /\ requests'[Len(requests')] = Request
                     /\ due'[Len(requests')] = NowDue
         /\ extAck => responses'[Len(responses')] = dataOut
<1> PICK p \in Nat : p = Taken(ready)
  BY DEF Taken
<1>1. p = 0 \/ (p = 1 /\ requests # <<>> /\ responses # <<>> /\ due # <<>>)
  BY Lengths DEF Taken
<1>2. dataOut \in Values
  BY DEF IInv, AnswersTracked, TypeOK
<1>3. \A q : Pop(q, ResponseTaken(ready)) = Rest(q, p)
  BY DEF Pop, Rest, Taken
<1>4. /\ requests' = IF ExtGo THEN Append(Rest(requests, p), Request) ELSE Rest(requests, p)
      /\ responses' = IF extAck THEN Append(Rest(responses, p), dataOut) ELSE Rest(responses, p)
      /\ due' = IF ExtGo THEN Append(Rest(due, p), NowDue) ELSE Rest(due, p)
  BY <1>3, Lengths, DueIs DEF Fifos, Push
<1>5. /\ requests \in Seq(AccessType) /\ responses \in Seq(Values) /\ due \in Seq(Response)
      /\ Len(requests) \in Nat /\ Len(responses) \in Nat /\ Len(due) = Len(requests)
  BY Lengths
<1>6. /\ responses' \in Seq(Values)
      /\ Len(responses) >= p
      /\ Len(responses') = Len(responses) - p + Acks
      /\ \A i \in 1 .. Len(responses) - p : responses'[i] = responses[i + p]
      /\ extAck => responses'[Len(responses')] = dataOut
  <2>1. CASE extAck
    <3>1. responses' = Append(Rest(responses, p), dataOut) /\ Acks = 1
      BY <1>4, <2>1 DEF Acks
    <3>2. p = 0 \/ (p = 1 /\ responses # <<>>)
      BY <1>1
    <3>3. Len(responses) >= p
      BY <1>5, <3>2, RestIs
    <3>4. /\ Append(Rest(responses, p), dataOut) \in Seq(Values) /\ Len(Append(Rest(responses, p), dataOut)) = Len(responses) - p + 1
          /\ \A i \in 1 .. Len(responses) - p : Append(Rest(responses, p), dataOut)[i] = responses[i + p]
          /\ Append(Rest(responses, p), dataOut)[Len(responses) - p + 1] = dataOut
      <4>1. responses \in Seq(Values)
        BY <1>5
      <4> QED
        BY <1>2, <3>2, <4>1, QueueMoves
    <3> QED
      BY <1>5, <2>1, <3>1, <3>3, <3>4
  <2>2. CASE ~extAck
    <3>1. responses' = Rest(responses, p) /\ Acks = 0
      BY <1>4, <2>2 DEF Acks
    <3>2. p = 0 \/ (p = 1 /\ responses # <<>>)
      BY <1>1
    <3>3. /\ Rest(responses, p) \in Seq(Values)
          /\ Len(responses) >= p
          /\ Len(Rest(responses, p)) = Len(responses) - p
          /\ \A i \in 1 .. Len(responses) - p : Rest(responses, p)[i] = responses[i + p]
      BY <1>5, <3>2, RestIs
    <3> QED
      BY <1>5, <2>2, <3>1, <3>3
  <2> QED
    BY <2>1, <2>2
<1>7. CASE ExtGo
  <2>1. Request \in AccessType /\ NowDue \in Response
    BY <1>7, NowDueType
  <2>2. /\ requests' \in Seq(AccessType)
        /\ Len(requests') = Len(requests) - p + 1
        /\ \A i \in 1 .. Len(requests) - p : requests'[i] = requests[i + p]
        /\ requests'[Len(requests')] = Request
    <3>1. requests' = Append(Rest(requests, p), Request)
      BY <1>4, <1>7
    <3>2. p = 0 \/ (p = 1 /\ requests # <<>>)
      BY <1>1
    <3> QED
      BY <1>5, <2>1, <3>1, <3>2, QueueMoves
  <2>3. /\ due' \in Seq(Response)
        /\ Len(due') = Len(due) - p + 1
        /\ \A i \in 1 .. Len(due) - p : due'[i] = due[i + p]
        /\ due'[Len(due')] = NowDue
    <3>1. due' = Append(Rest(due, p), NowDue)
      BY <1>4, <1>7
    <3>2. p = 0 \/ (p = 1 /\ due # <<>>)
      BY <1>1
    <3>4. /\ Append(Rest(due, p), NowDue) \in Seq(Response) /\ Len(Append(Rest(due, p), NowDue)) = Len(due) - p + 1
          /\ \A i \in 1 .. Len(due) - p : Append(Rest(due, p), NowDue)[i] = due[i + p]
          /\ Append(Rest(due, p), NowDue)[Len(due) - p + 1] = NowDue
      BY <1>5, <2>1, <3>2, QueueMoves, SMTT(30)
    <3> QED
      BY <1>5, <3>1, <3>4
  <2>4. Gone = 1
    BY <1>7 DEF Gone
  <2> QED
    BY <1>1, <1>5, <1>6, <2>2, <2>3, <2>4
<1>8. CASE ~ExtGo
  <2>1. /\ requests' \in Seq(AccessType)
        /\ Len(requests') = Len(requests) - p
        /\ \A i \in 1 .. Len(requests) - p : requests'[i] = requests[i + p]
    BY <1>1, <1>4, <1>5, <1>8, RestIs
  <2>2. /\ due' \in Seq(Response)
        /\ Len(due') = Len(due) - p
        /\ \A i \in 1 .. Len(due) - p : due'[i] = due[i + p]
    BY <1>1, <1>4, <1>5, <1>8, RestIs
  <2>3. Gone = 0
    BY <1>8 DEF Gone
  <2> QED
    BY <1>1, <1>5, <1>6, <1>8, <2>1, <2>2, <2>3
<1> QED
  BY <1>7, <1>8

-----------------------------------------------------------------------------
(* Who asked for the port keeps asking, and gets it.                       *)

LEMMA HoldKept ==
  ASSUME IInv, NEW c \in CpuRequests, NEW ready \in BOOLEAN,
         BurstRegisters, Priority, Fifos(ready), Handshake(c), Offer, History(c, ready), BurstInv',
         MasterInv'
  PROVE  /\ HoldInv'
         /\ holdRd' => RamRead /\ ~RamAccept /\ ~holdRd /\ ~holdWr
         /\ holdWr' => RamWrite /\ ~RamAccept /\ ~holdRd /\ ~holdWr
<1>1. holdRd \/ holdWr => RamAccept
  BY DEF IInv, HoldInv
<1>2. /\ holdRd' => RamRead /\ ~RamAccept /\ ~holdRd /\ ~holdWr
      /\ holdWr' => RamWrite /\ ~RamAccept /\ ~holdRd /\ ~holdWr
  BY <1>1 DEF Priority
<1>3. ~(RamRead /\ RamWrite)
  BY Wires DEF RamRead
<1>4. holdRd' \/ holdWr' => RamAccept'
  BY <1>2 DEF Handshake, ExtRequest, RamAccept
<1>5. ASSUME ~RamAccept, RamRead \/ RamWrite
      PROVE  /\ ~ExtGo /\ ~AwGo /\ ~ArGo /\ ~WGo
             /\ (reqRd' <=> reqRd) /\ (reqWr' <=> reqWr)
             /\ FifoAccept'
             /\ aw # {} => aw' # {}
             /\ ar # {} => ar' # {}
             /\ w # {} => w' # {}
  <2>1. ~ExtGo /\ ~AwGo /\ ~ArGo /\ ~WGo
    BY <1>5 DEF ExtGo, AwGo, ArGo, WGo
  <2>2. (reqRd' <=> reqRd) /\ (reqWr' <=> reqWr)
    BY <2>1, BurstGoesOn DEF Reads, Writes
  <2>3. FifoAccept
    BY <1>5 DEF RamRead, RamWrite, ReadActive, WriteActive
  <2>4. FifoAccept'
    <3>1. Len(requests') = Len(requests) - Taken(ready) + Gone /\ Taken(ready) \in {0, 1}
      BY FifosMove
    <3>2. Len(requests) \in Nat /\ Len(requests) <= Depth /\ Depth \in Nat
      BY Lengths, TcmAssumption
    <3>3. Gone = 0
      BY <2>1 DEF Gone
    <3> QED
      BY <2>3, <3>1, <3>2, <3>3 DEF FifoAccept
  <2> QED
    BY <2>1, <2>2, <2>4, OffersStay
<1>6. holdRd' => RamRead'
  <2> SUFFICES ASSUME holdRd' PROVE RamRead'
    OBVIOUS
  <2>1. ReadActive /\ ~RamAccept
    BY <1>2 DEF RamRead
  <2>2. /\ (reqRd' <=> reqRd) /\ (reqWr' <=> reqWr)
        /\ FifoAccept' /\ (ar # {} => ar' # {})
    BY <2>1, <1>5 DEF RamRead
  <2>3. ReadPrio'
    BY DEF ReadPrio
  <2> QED
    BY <2>1, <2>2, <2>3 DEF RamRead, ReadActive
<1>7. holdWr' => RamWrite'
  <2> SUFFICES ASSUME holdWr' PROVE RamWrite'
    OBVIOUS
  <2>1. WriteActive /\ ~RamAccept /\ w # {}
    BY <1>2, Wires
  <2>2. /\ (reqRd' <=> reqRd) /\ (reqWr' <=> reqWr)
        /\ FifoAccept' /\ (aw # {} => aw' # {}) /\ w' # {}
    BY <2>1, <1>2, <1>5
  <2>3. WritePrio'
    BY DEF WritePrio
  <2>4. \E d \in w' : d.strobe
    BY <2>2 DEF MasterInv
  <2> QED
    BY <2>1, <2>2, <2>3, <2>4 DEF RamWrite, WriteActive
<1> QED
  BY <1>2, <1>3, <1>4, <1>6, <1>7 DEF HoldInv

LEMMA PassedKept ==
  ASSUME IInv, NEW c \in CpuRequests, NEW ready \in BOOLEAN,
         BurstRegisters, Priority, Fifos(ready), Handshake(c), Offer, History(c, ready), BurstInv',
         MasterInv'
  PROVE  PassedInv'
<1>1. /\ passed'.aw = IF aw = {} \/ AwGo THEN 0 ELSE IF ArGo THEN passed.aw + 1 ELSE passed.aw
      /\ passed'.ar = IF ar = {} \/ ArGo THEN 0 ELSE IF AwGo THEN passed.ar + 1 ELSE passed.ar
  BY DEF History
<1>2. /\ passed.aw \in 0 .. 2 /\ passed.ar \in 0 .. 2
      /\ passed.aw = 1 => ~prio \/ ~holdRd \/ reqRd
      /\ passed.aw = 2 => prio /\ (~holdRd \/ reqRd)
      /\ passed.ar = 1 => prio \/ ~holdWr \/ reqWr
      /\ passed.ar = 2 => ~prio /\ (~holdWr \/ reqWr)
  BY DEF IInv, PassedInv
<1>3. /\ holdRd' => RamRead /\ ~RamAccept /\ ~holdRd /\ ~holdWr
      /\ holdWr' => RamWrite /\ ~RamAccept /\ ~holdRd /\ ~holdWr
  BY HoldKept
<1>4. /\ prio' = IF AwGo \/ ArGo THEN ~prio ELSE prio
      /\ ~(AwGo /\ ArGo)
      /\ AwGo \/ ArGo => RamAccept
  BY Wires DEF Priority, AwGo, ArGo
(* No direction asks for the port against the priority, but one that holds *)
(* it or goes on.                                                          *)
<1>5. /\ RamRead /\ aw # {} => (~prio /\ ~holdWr) \/ holdRd \/ reqRd
      /\ RamWrite /\ ar # {} => (prio /\ ~holdRd) \/ holdWr \/ reqWr
      /\ ArGo /\ aw # {} => ~reqRd /\ ((~prio /\ ~holdWr) \/ holdRd)
      /\ AwGo /\ ar # {} => ~reqWr /\ ((prio /\ ~holdRd) \/ holdWr)
  BY DEF RamRead, RamWrite, ReadActive, WriteActive, ReadPrio, WritePrio, ArGo, AwGo
<1>6. ~RamAccept => (reqRd' <=> reqRd) /\ (reqWr' <=> reqWr)
  <2>1. ~RamAccept => ~ExtGo /\ ~AwGo /\ ~ArGo
    BY DEF ExtGo, AwGo, ArGo
  <2> QED
    BY <2>1, BurstGoesOn DEF Reads, Writes
<1>7. /\ passed'.aw \in 0 .. 2
      /\ passed'.aw = 1 => ~prio' \/ ~holdRd' \/ reqRd'
      /\ passed'.aw = 2 => prio' /\ (~holdRd' \/ reqRd')
  <2>1. CASE aw = {} \/ AwGo
    BY <2>1, <1>1
  <2>2. CASE aw # {} /\ ~AwGo /\ ArGo
    <3>1. passed'.aw = passed.aw + 1 /\ (prio' <=> ~prio) /\ ~holdRd'
      BY <2>2, <1>1, <1>3, <1>4
    <3>2. ~reqRd /\ (~prio \/ holdRd)
      BY <2>2, <1>5
    <3>3. passed.aw # 2
      BY <3>2, <1>2
    <3>4. passed.aw = 1 => ~prio
      BY <3>2, <1>2
    <3> QED
      BY <3>1, <3>3, <3>4, <1>2
  <2>3. CASE aw # {} /\ ~AwGo /\ ~ArGo
    BY <2>3, <1>1, <1>2, <1>3, <1>4, <1>5, <1>6
  <2> QED
    BY <2>1, <2>2, <2>3
<1>8. /\ passed'.ar \in 0 .. 2
      /\ passed'.ar = 1 => prio' \/ ~holdWr' \/ reqWr'
      /\ passed'.ar = 2 => ~prio' /\ (~holdWr' \/ reqWr')
  <2>1. CASE ar = {} \/ ArGo
    BY <2>1, <1>1
  <2>2. CASE ar # {} /\ ~ArGo /\ AwGo
    <3>1. passed'.ar = passed.ar + 1 /\ (prio' <=> ~prio) /\ ~holdWr'
      BY <2>2, <1>1, <1>3, <1>4
    <3>2. ~reqWr /\ (prio \/ holdWr)
      BY <2>2, <1>5
    <3>3. passed.ar # 2
      BY <3>2, <1>2
    <3>4. passed.ar = 1 => prio
      BY <3>2, <1>2
    <3> QED
      BY <3>1, <3>3, <3>4, <1>2
  <2>3. CASE ar # {} /\ ~ArGo /\ ~AwGo
    BY <2>3, <1>1, <1>2, <1>3, <1>4, <1>5, <1>6
  <2> QED
    BY <2>1, <2>2, <2>3
<1> QED
  BY <1>7, <1>8 DEF PassedInv

-----------------------------------------------------------------------------
(* The memory, and what comes out of it.                                   *)

LEMMA CpuType ==
  ASSUME NEW c \in CpuRequests
  PROVE  c.op \in {"none", "read", "write", "maintenance"} /\ c.addr \in Address /\ c.value \in Values
<1>1. c \in [op : {"none", "read", "write", "maintenance"}, addr : 0 .. Words - 1, value : Values]
  BY TcmAssumption
<1> QED
  BY <1>1 DEF Address

(* A write of the AXI side puts what the master hands over at the address  *)
(* of the beat, and one of the core its own.                               *)
LEMMA MemoryKept ==
  ASSUME IInv, NEW c \in CpuRequests, NEW ready \in BOOLEAN, RamPort(c), History(c, ready)
  PROVE  ram' = contents' /\ ram' \in [Address -> Values] /\ dataOut' \in Values
<1> DEFINE mid == IF CpuGo(c) /\ c.op = "write"
                    THEN [contents EXCEPT ![c.addr] = c.value] ELSE contents
<1>1. contents' = IF BeatServed /\ ~The(Serving).read /\ The(w).strobe
                    THEN [mid EXCEPT ![The(Serving).addr] = The(w).value] ELSE mid
  BY DEF History
<1>2. ram = contents /\ ram \in [Address -> Values] /\ dataOut \in Values
  BY DEF IInv, AnswersTracked, TypeOK
<1>3. c.addr \in Address /\ c.value \in Values /\ (c.op = "write" => c.op # "none")
  BY CpuType
<1>4. CASE RamAccept
  <2>1. mid = contents
    BY <1>4 DEF CpuGo, RamAccept
  <2>2. /\ ram' = IF RamWrite THEN [ram EXCEPT ![RamAddr] = The(w).value] ELSE ram
        /\ dataOut' = IF RamRead THEN ram[RamAddr] ELSE dataOut
    BY <1>4 DEF RamPort
  <2>3. ExtGo <=> RamRead \/ RamWrite
    BY <1>4 DEF ExtGo, ExtRequest
  <2>4. ExtGo => RamAddr = Now.addr /\ Now.addr \in Address
    BY Served, NowType
  <2>5. CASE RamWrite
    <3>1. /\ ExtGo /\ BeatServed /\ Writes /\ WGo
          /\ The(Serving) = Beat(FALSE, Now)
      BY <2>3, <2>5, Served
    <3>2. /\ ~The(Serving).read /\ The(Serving).addr = Now.addr
      BY <3>1 DEF Beat
    <3>3. The(w).strobe /\ The(w) \in Data
      BY <3>1, LastBeat
    <3>4. The(w).value \in Values
      BY <3>3 DEF Data
    <3>5. contents' = [contents EXCEPT ![Now.addr] = The(w).value]
      BY <1>1, <2>1, <3>1, <3>2, <3>3
    <3>6. ram' = [ram EXCEPT ![Now.addr] = The(w).value]
      BY <2>2, <2>4, <2>5, <3>1
    <3>7. dataOut' = dataOut
      BY <2>2, <3>1, Served
    <3> QED
      BY <1>2, <2>4, <3>1, <3>4, <3>5, <3>6, <3>7
  <2>6. CASE ~RamWrite
    <3>1. ram' = ram
      BY <2>2, <2>6
    <3>2. dataOut' \in Values
      BY <1>2, <2>2, <2>3, <2>4
    <3>3. BeatServed => The(Serving).read
      <4> SUFFICES ASSUME BeatServed PROVE The(Serving).read
        OBVIOUS
      <4>1. The(Serving) = Beat(TRUE, Now)
        BY <2>6, Served
      <4> QED
        BY <4>1, BeatFields
    <3> QED
      BY <1>1, <1>2, <2>1, <3>1, <3>2, <3>3
  <2> QED
    BY <2>5, <2>6
<1>5. CASE ~RamAccept
  <2>1. ~BeatServed
    BY <1>5, Served DEF ExtGo
  <2>2. /\ ram' = IF c.op = "write" THEN [ram EXCEPT ![c.addr] = c.value] ELSE ram
        /\ dataOut' = IF c.op = "read" THEN ram[c.addr] ELSE dataOut
    BY <1>5 DEF RamPort
  <2>3. CpuGo(c) <=> c.op # "none"
    BY <1>5 DEF CpuGo, RamAccept
  <2>4. contents' = mid
    BY <1>1, <2>1
  <2> QED
    BY <1>2, <1>3, <2>2, <2>3, <2>4
<1> QED
  BY <1>4, <1>5

LEMMA CpuAnswersKept ==
  ASSUME IInv, NEW c \in CpuRequests, NEW ready \in BOOLEAN,
         RamPort(c), Handshake(c), History(c, ready)
  PROVE  CpuAnswersMatch'
<1>1. /\ ack' = CpuGo(c)
      /\ cpuDue' = IF CpuGo(c)
                     THEN {IF c.op = "read" THEN <<contents[c.addr]>> ELSE <<>>} ELSE {}
  BY DEF Handshake, History
<1>2. ram = contents
  BY DEF IInv
<1>3. CpuGo(c) /\ c.op = "read" => dataOut' = contents[c.addr]
  BY <1>2 DEF CpuGo, RamPort, RamAccept
<1>4. CASE CpuGo(c)
  <2>1. ack' /\ cpuDue' = {IF c.op = "read" THEN <<contents[c.addr]>> ELSE <<>>}
    BY <1>1, <1>4
  <2>2. \A d \in cpuDue' : d # <<>> => d = <<dataOut'>>
    BY <1>3, <1>4, <2>1
  <2> QED
    BY <2>1, <2>2 DEF CpuAnswersMatch
<1>5. CASE ~CpuGo(c)
  <2>1. ~ack' /\ cpuDue' = {}
    BY <1>1, <1>5
  <2> QED
    BY <2>1 DEF CpuAnswersMatch
<1> QED
  BY <1>4, <1>5

(* The RAM puts out the word of the beat that is served, before a write.   *)
LEMMA LastAnswerKept ==
  ASSUME IInv, NEW c \in CpuRequests, NEW ready \in BOOLEAN,
         Fifos(ready), RamPort(c), Handshake(c), History(c, ready)
  PROVE  LastAnswer'
<1>1. extAck' = ExtGo
  BY DEF Handshake
<1> SUFFICES ASSUME ExtGo, due'[Len(responses') + 1].read
             PROVE  <<dataOut'>> = due'[Len(responses') + 1].data
  BY <1>1 DEF LastAnswer
<1>2. Len(responses') + 1 = Len(requests')
  <2>1. /\ Len(requests') = Len(requests) - Taken(ready) + Gone
        /\ Len(responses') = Len(responses) - Taken(ready) + Acks
        /\ Taken(ready) \in {0, 1}
    BY FifosMove
  <2>2. /\ Len(requests) \in Nat /\ Len(responses) \in Nat
        /\ Len(requests) = Len(responses) + Acks
    BY Lengths
  <2>3. Gone = 1 /\ Acks \in {0, 1}
    BY DEF Gone, Acks
  <2> QED
    BY <2>1, <2>2, <2>3
<1>3. due'[Len(requests')] = NowDue
  BY FifosMove
<1>4. Reads /\ NowDue.data = <<contents[Now.addr]>>
  BY <1>2, <1>3, NowDueType
<1>5. RamRead /\ RamAccept /\ RamAddr = Now.addr
  BY <1>4, Served DEF ExtGo
<1>6. dataOut' = contents[Now.addr]
  BY <1>5 DEF RamPort, IInv
<1> QED
  BY <1>2, <1>3, <1>4, <1>6

LEMMA TrackedKept ==
  ASSUME IInv, NEW c \in CpuRequests, NEW ready \in BOOLEAN,
         BurstRegisters, Priority, Fifos(ready), RamPort(c), Handshake(c), History(c, ready)
  PROVE  AnswersTracked' /\ due' \in Seq(Response)
<1> PICK p \in Nat : p = Taken(ready)
  BY FifosMove
<1>1. /\ requests' \in Seq(AccessType) /\ responses' \in Seq(Values) /\ due' \in Seq(Response)
      /\ p \in {0, 1} /\ p <= Len(responses)
      /\ Len(requests') = Len(requests) - p + Gone
      /\ Len(due') = Len(requests')
      /\ Len(responses') = Len(responses) - p + Acks
      /\ \A i \in 1 .. Len(requests) - p :
           requests'[i] = requests[i + p] /\ due'[i] = due[i + p]
      /\ \A i \in 1 .. Len(responses) - p : responses'[i] = responses[i + p]
      /\ ExtGo => requests'[Len(requests')] = Request /\ due'[Len(requests')] = NowDue
      /\ extAck => responses'[Len(responses')] = dataOut
  BY FifosMove
<1>2. /\ requests \in Seq(AccessType) /\ responses \in Seq(Values) /\ due \in Seq(Response)
      /\ Len(requests) \in Nat /\ Len(responses) \in Nat
      /\ Len(requests) = Len(responses) + Acks /\ Len(requests) <= Depth
      /\ Len(due) = Len(requests)
  BY Lengths
<1>3. extAck' = ExtGo
  BY DEF Handshake
<1>0. /\ Len(requests') = Len(requests) - p + Gone
      /\ Len(responses') = Len(requests) - p
      /\ Len(requests) = Len(responses) + Acks
      /\ Len(requests) \in Nat /\ Len(responses) \in Nat /\ p \in {0, 1} /\ p <= Len(responses)
      /\ Gone \in {0, 1} /\ Acks \in {0, 1}
      /\ (Gone = 1 <=> ExtGo) /\ (Acks = 1 <=> extAck)
  <2>1. Gone \in {0, 1} /\ Acks \in {0, 1} /\ (Gone = 1 <=> ExtGo) /\ (Acks = 1 <=> extAck)
    BY DEF Gone, Acks
  <2>2. /\ Len(requests') = Len(requests) - p + Gone
        /\ Len(responses') = Len(responses) - p + Acks
        /\ p \in {0, 1} /\ p <= Len(responses)
    BY <1>1
  <2>3. /\ Len(requests) = Len(responses) + Acks
        /\ Len(requests) \in Nat /\ Len(responses) \in Nat
    BY <1>2
  <2> QED
    BY <2>1, <2>2, <2>3
<1>4. TypeOK'
  <2>1. req' \in [len : 0 .. 255, addr : Address, id : {d.id : d \in Commands}]
    BY BurstGoesOn DEF Ids
  <2>2. {prio, holdRd, holdWr} \subseteq BOOLEAN
    BY DEF IInv, AnswersTracked, TypeOK
  <2>3. {AwGo, ArGo, RamRead, RamWrite, ExtGo, ExtRequest, CpuGo(c)} \subseteq BOOLEAN
    BY DEF AwGo, ArGo, RamRead, RamWrite, ExtGo, ExtRequest, CpuGo, ReadActive, WriteActive
  <2>4. {prio', holdRd', holdWr'} \subseteq BOOLEAN
    BY <2>2, <2>3 DEF Priority
  <2>5. {accept', ack', extAck'} \subseteq BOOLEAN
    BY <2>3 DEF Handshake
  <2>6. {reqRd', reqWr'} \subseteq BOOLEAN
    BY BurstGoesOn
  <2>7. {reqRd', reqWr', prio', holdRd', holdWr', accept', ack', extAck'} \subseteq BOOLEAN
    BY <2>4, <2>5, <2>6
  <2>8. requests' \in Seq([read : BOOLEAN, last : BOOLEAN, id : {d.id : d \in Commands}])
    BY <1>1 DEF AccessType, Ids
  <2> QED
    BY <1>1, <2>1, <2>7, <2>8, MemoryKept DEF TypeOK, Address
<1>5. Len(requests') = Len(responses') + Acks'
  BY <1>1, <1>2, <1>3 DEF Acks, Gone
<1>6. Len(requests') <= Depth
  <2>1. ExtGo => Len(requests) # Depth
    BY Wires DEF FifoAccept
  <2>2. Depth \in Nat /\ Len(requests) <= Depth
    BY <1>2, TcmAssumption
  <2> QED
    BY <1>0, <2>1, <2>2
<1>7. \A i \in DOMAIN requests :
        requests[i].read = due[i].read /\ requests[i].last = due[i].last /\ requests[i].id = due[i].id
  BY DEF IInv, AnswersTracked
<1>8. ASSUME NEW i \in 1 .. Len(requests')
      PROVE  /\ requests'[i].read = due'[i].read /\ requests'[i].last = due'[i].last
             /\ requests'[i].id = due'[i].id
  <2>1. CASE i <= Len(requests) - p
    <3>1. i + p \in 1 .. Len(requests) /\ i \in 1 .. Len(requests) - p
      BY <1>0, <2>1, SMTT(30)
    <3>2. requests'[i] = requests[i + p] /\ due'[i] = due[i + p]
      BY <1>1, <3>1
    <3>3. i + p \in DOMAIN requests
      BY <1>2, <3>1
    <3> QED
      BY <1>7, <3>2, <3>3
  <2>2. CASE ~(i <= Len(requests) - p)
    <3>1. ExtGo /\ i = Len(requests')
      BY <1>1, <1>2, <2>2 DEF Gone
    <3> QED
      BY <1>1, <3>1, NowDueType
  <2> QED
    BY <2>1, <2>2
<1>9. /\ \A i \in DOMAIN responses : due[i].read => <<responses[i]>> = due[i].data
      /\ extAck => (due[Len(responses) + 1].read => <<dataOut>> = due[Len(responses) + 1].data)
  BY DEF IInv, AnswersTracked, LastAnswer
<1>10. ASSUME NEW i \in 1 .. Len(responses'), due'[i].read
       PROVE  <<responses'[i]>> = due'[i].data
  <2>1. i + p \in 1 .. Len(requests) /\ i \in 1 .. Len(requests) - p
    BY <1>0, SMTT(30)
  <2>2. due'[i] = due[i + p]
    BY <1>1, <2>1
  <2>3. CASE i <= Len(responses) - p
    <3>1. i \in Nat /\ i >= 1 /\ Len(responses) \in Nat
      BY <1>0
    <3>2. i + p \in 1 .. Len(responses) /\ i \in 1 .. (Len(responses) - p)
      BY <2>3, <3>1
    <3>3. responses'[i] = responses[i + p]
      BY <1>1, <3>2
    <3>4. i + p \in DOMAIN responses
      BY <1>2, <3>2
    <3> QED
      BY <1>9, <1>10, <2>2, <3>3, <3>4
  <2>4. CASE ~(i <= Len(responses) - p)
    <3>1. extAck /\ i = Len(responses') /\ i + p = Len(responses) + 1
      BY <1>0, <2>4, SMTT(30)
    <3> QED
      BY <1>1, <1>9, <1>10, <2>2, <3>1
  <2> QED
    BY <2>3, <2>4
<1>11. DOMAIN requests' = 1 .. Len(requests') /\ DOMAIN responses' = 1 .. Len(responses')
  BY <1>1
<1> QED
  BY <1>1, <1>4, <1>5, <1>6, <1>8, <1>10, <1>11 DEF AnswersTracked, Acks

-----------------------------------------------------------------------------
(* The invariant.                                                          *)

LEMMA InitInv ==
  ASSUME Init
  PROVE  IInv
<1>1. PICK d \in Commands : d = CHOOSE e \in Commands : TRUE
  BY TcmAssumption
<1>2. Words \in Nat \ {0} /\ Depth \in Nat \ {0}
  BY TcmAssumption
<1>3. req \in [len : 0 .. 255, addr : Address, id : {e.id : e \in Commands}]
  <2>1. req = [len |-> 0, addr |-> 0, id |-> d.id]
    BY <1>1 DEF Init
  <2>2. d.id \in {e.id : e \in Commands} /\ 0 \in Address
    BY <1>2 DEF Address
  <2> QED
    BY <2>1, <2>2
<1>4. TypeOK
  <2>1. /\ requests \in Seq([read : BOOLEAN, last : BOOLEAN, id : {e.id : e \in Commands}])
        /\ responses \in Seq(Values) /\ dataOut \in Values /\ ram \in [Address -> Values]
    BY DEF Init
  <2>2. {reqRd, reqWr, prio, holdRd, holdWr, accept, ack, extAck} \subseteq BOOLEAN
    BY DEF Init
  <2> QED
    BY <1>3, <2>1, <2>2 DEF TypeOK
<1>5. /\ Len(requests) = 0 /\ Len(responses) = 0 /\ Len(due) = 0 /\ ~extAck
      /\ DOMAIN requests = {} /\ DOMAIN responses = {}
  BY DEF Init
<1>6. AnswersTracked
  BY <1>2, <1>4, <1>5 DEF AnswersTracked
<1>7. CpuAnswersMatch /\ due \in Seq(Response) /\ ram = contents /\ BurstInv /\ HoldInv
  <2>1. due \in Seq(Response) /\ ram = contents
    BY DEF Init
  <2>2. CpuAnswersMatch
    BY DEF Init, CpuAnswersMatch
  <2>3. BurstInv /\ HoldInv
    BY DEF Init, BurstInv, HoldInv
  <2> QED
    BY <2>1, <2>2, <2>3
<1>8. MasterInv
  BY DEF Init, MasterInv, AtMostOne, ToCome, One
<1>9. PassedInv
  BY DEF Init, PassedInv
<1>10. LastAnswer
  BY <1>5 DEF LastAnswer
<1> QED
  BY <1>6, <1>7, <1>8, <1>9, <1>10 DEF IInv

LEMMA ClockKeepsInv ==
  ASSUME IInv, ~ZeroStrobes, NEW c \in CpuRequests, NEW ready \in BOOLEAN, Clock(c, ready)
  PROVE  IInv'
<1>1. /\ BurstRegisters /\ Priority /\ Fifos(ready) /\ RamPort(c) /\ Handshake(c)
      /\ History(c, ready) /\ Offer
  BY DEF Clock
<1>2. BurstInv'
  BY <1>1, BurstInvKept
<1>3. MasterInv'
  BY <1>1, MasterKept
<1>4. HoldInv'
  BY <1>1, <1>2, <1>3, HoldKept
<1>5. PassedInv'
  BY <1>1, <1>2, <1>3, PassedKept
<1>6. ram' = contents'
  BY <1>1, MemoryKept
<1>7. CpuAnswersMatch'
  BY <1>1, CpuAnswersKept
<1>8. LastAnswer'
  BY <1>1, LastAnswerKept
<1>9. AnswersTracked' /\ due' \in Seq(Response)
  BY <1>1, TrackedKept
<1> QED
  BY <1>2, <1>3, <1>4, <1>5, <1>6, <1>7, <1>8, <1>9 DEF IInv, Response, Ids

LEMMA StutterKeepsInv ==
  ASSUME IInv, UNCHANGED vars
  PROVE  IInv'
<1>1. /\ UNCHANGED <<reqRd, reqWr, req, prio, holdRd, holdWr, requests, responses>>
      /\ UNCHANGED <<accept, ack, extAck, ram, dataOut>>
      /\ UNCHANGED <<aw, w, ar, wLeft>>
      /\ UNCHANGED <<burst, due, cpuDue, contents, passed>>
  BY DEF vars, pmem, tcm, master
<1>2. AnswersTracked' /\ CpuAnswersMatch' /\ due' \in Seq(Response) /\ ram' = contents'
  BY <1>1 DEF IInv, AnswersTracked, CpuAnswersMatch, TypeOK
<1>3. BurstInv' /\ PassedInv' /\ LastAnswer'
  BY <1>1 DEF IInv, BurstInv, PassedInv, LastAnswer
<1>4. MasterInv'
  BY <1>1 DEF IInv, MasterInv, ToCome, One
<1>5. HoldInv'
  BY <1>1 DEF IInv, HoldInv, RamRead, RamWrite, RamAccept, ReadActive, WriteActive, FifoAccept,
              ReadPrio, WritePrio
<1> QED
  BY <1>2, <1>3, <1>4, <1>5 DEF IInv

(* The invariant of the two memories' port and of its FIFOs.               *)
THEOREM InvariantHolds == ~ZeroStrobes => (Spec => []IInv)
<1> SUFFICES ASSUME ~ZeroStrobes PROVE Spec => []IInv
  OBVIOUS
<1>1. Init => IInv
  BY InitInv
<1>2. IInv /\ [Next]_vars => IInv'
  BY ClockKeepsInv, StutterKeepsInv DEF Next
<1> QED
  BY <1>1, <1>2, PTL DEF Spec

-----------------------------------------------------------------------------
(* The properties.                                                         *)

LEMMA InvGivesBeats ==
  ASSUME IInv
  PROVE  BeatsServed
<1>1. ram = contents /\ (ExtGo <=> BeatServed)
  BY Served DEF IInv
<1>2. ASSUME ExtGo PROVE \E b \in Serving : RamAddr = b.addr /\ RamRead = b.read
  <2>1. RamRead \in BOOLEAN
    BY DEF RamRead, ReadActive
  <2>2. RamAddr = Now.addr
    BY <1>2, Served
  <2>3. CASE Reads
    <3>1. Beat(TRUE, Now) \in Serving /\ RamRead = TRUE
      BY <1>2, <2>1, <2>3, Served, ServingIs
    <3>2. Beat(TRUE, Now).addr = Now.addr /\ Beat(TRUE, Now).read = TRUE
      BY DEF Beat
    <3> QED
      BY <2>2, <3>1, <3>2
  <2>4. CASE Writes
    <3>1. Beat(FALSE, Now) \in Serving /\ RamRead = FALSE
      BY <1>2, <2>1, <2>4, Served, ServingIs
    <3>2. Beat(FALSE, Now).addr = Now.addr /\ Beat(FALSE, Now).read = FALSE
      BY DEF Beat
    <3> QED
      BY <2>2, <3>1, <3>2
  <2> QED
    BY <1>2, <2>3, <2>4, Served
<1> QED
  BY <1>1, <1>2 DEF BeatsServed

LEMMA InvGivesProgress ==
  ASSUME IInv
  PROVE  NothingWaitsInVain
<1>1. passed.aw <= 2 /\ passed.ar <= 2
  BY DEF IInv, PassedInv
<1>2. (holdRd => RamRead /\ RamAccept) /\ (holdWr => RamWrite /\ RamAccept)
  BY DEF IInv, HoldInv
<1>3. ASSUME aw # {} \/ ar # {} \/ burst # {}, ~ExtRequest, responses = <<>>, ~extAck
      PROVE  wLeft > 0 /\ w = {}
  <2>1. FifoAccept
    <3>1. Len(responses) = 0 /\ Acks = 0
      BY <1>3 DEF Acks
    <3>2. Len(requests) = Len(responses) + Acks
      BY Lengths
    <3> QED
      BY <3>1, <3>2, TcmAssumption DEF FifoAccept
  <2>2. ~(reqRd /\ reqWr) /\ (burst # {} => reqRd \/ reqWr)
    BY DEF IInv, BurstInv
  <2>3. ~ReadActive
    BY <1>3 DEF ExtRequest, RamRead
  <2>4. WriteActive
    BY <1>3, <2>1, <2>2, <2>3 DEF ReadActive, WriteActive, ReadPrio, WritePrio
  <2>5. w = {}
    BY <1>3, <2>4, Wires DEF ExtRequest
  <2>6. aw # {} \/ reqWr
    BY <2>4 DEF WriteActive
  <2>7. ToCome > 0
    <3>1. aw # {} => The(aw).len \in 0 .. 255
      BY OneOf, CommandType DEF IInv, MasterInv
    <3>2. req.len \in 0 .. 255
      BY DEF IInv, AnswersTracked, TypeOK
    <3> QED
      BY <2>6, <3>1, <3>2 DEF ToCome
  <2> QED
    BY <2>5, <2>7 DEF IInv, MasterInv, One
<1> QED
  BY <1>1, <1>2, <1>3 DEF NothingWaitsInVain

(* Memory is what the writes of both sides leave in it, in the order in    *)
(* which the port took them; every beat goes where its burst says, once    *)
(* (tcm_mem_pmem.v:151, the registers of a burst; tcm_mem.v:168, the mux   *)
(* of the RAM port).                                                       *)
THEOREM BeatsServedCorrect == ~ZeroStrobes => (Spec => []BeatsServed)
<1> SUFFICES ASSUME ~ZeroStrobes PROVE Spec => []BeatsServed
  OBVIOUS
<1>1. Spec => []IInv
  BY InvariantHolds
<1>2. IInv => BeatsServed
  BY InvGivesBeats
<1> QED
  BY <1>1, <1>2, PTL

(* A response has the direction, the identifier, the place in its burst    *)
(* and the data of the oldest access not answered, the FIFO of responses,  *)
(* whose accept_o is not connected, never loses one, and the core gets its *)
(* own answers (tcm_mem.v:168, tcm_mem_pmem.v:304).                        *)
THEOREM AnswersMatchCorrect == ~ZeroStrobes => (Spec => []AnswersMatch)
<1> SUFFICES ASSUME ~ZeroStrobes PROVE Spec => []AnswersMatch
  OBVIOUS
<1>1. Spec => []IInv
  BY InvariantHolds
<1>2. IInv => AnswersMatch
  BY DEF IInv, AnswersMatch
<1> QED
  BY <1>1, <1>2, PTL

(* No direction of the AXI side waits for ever for the other, or for the   *)
(* core, and the AXI side is idle only when it waits for the master        *)
(* (tcm_mem_pmem.v:218 and 314, the priority and the directions held).     *)
THEOREM NothingWaitsInVainCorrect == ~ZeroStrobes => (Spec => []NothingWaitsInVain)
<1> SUFFICES ASSUME ~ZeroStrobes PROVE Spec => []NothingWaitsInVain
  OBVIOUS
<1>1. Spec => []IInv
  BY InvariantHolds
<1>2. IInv => NothingWaitsInVain
  BY InvGivesProgress
<1> QED
  BY <1>1, <1>2, PTL

---------------------------------------------------------------------------
(* The two paths of the data cache.                                        *)

UncachedQuiet ==
  /\ reqFifo = <<>> /\ respFifo = <<>>
  /\ ~requestPending /\ ~dropped

NobodysTurn == owed = <<>> /\ core.phase = "idle" /\ UncachedQuiet /\ bus = <<>>

OnBus(path, tag) ==
  Len(bus) = 1 /\ bus[1].path = path /\ bus[1].tag = tag

(* The cache has one request, and something on the bus when it waits.      *)
CachesTurn ==
  /\ cacheAccess /\ core.phase # "idle" /\ UncachedQuiet
  /\ owed = <<[path |-> Cached, tag |-> core.tag]>>
  /\ IF core.phase \in {"evict_wait", "refill_wait"}
       THEN OnBus(Cached, core.tag) /\ selectQ
       ELSE bus = <<>>

(* Of the uncached requests the first may have left reqFifo: it is on the  *)
(* bus, or it was dropped and is acknowledged in this cycle.               *)
Behind == IF requestPending THEN 1 ELSE 0

(* q lacks the first k requests whose tags are in r. *)
Follows(q, r, k) ==
  /\ Len(q) + k = Len(r)
  /\ \A i \in 1 .. Len(q) : q[i].tag = r[i + k]

Owes(o, r) ==
  /\ Len(o) = Len(r)
  /\ \A i \in 1 .. Len(r) : o[i] = [path |-> Uncached, tag |-> r[i]]

UncachedsTurn ==
  /\ ~cacheAccess /\ core.phase = "idle"
  /\ respFifo # <<>>
  /\ Owes(owed, respFifo)
  /\ Follows(reqFifo, respFifo, Behind)
  /\ dropped => requestPending
  /\ IF requestPending /\ ~dropped
       THEN OnBus(Uncached, respFifo[1]) /\ ~selectQ
       ELSE bus = <<>>

PortInv ==
  /\ PortTypeOK
  /\ pending = Len(owed)
  /\ NobodysTurn \/ CachesTurn \/ UncachedsTurn

-----------------------------------------------------------------------------
(* Sequences and inputs.                                                   *)

LEMMA WithoutOnly ==
  ASSUME NEW S, NEW q \in Seq(S), Len(q) = 1
  PROVE  Without(q, 1) = <<>>
<1>1. SubSeq(q, 1, 1 - 1) = <<>> /\ SubSeq(q, 1 + 1, Len(q)) = <<>>
  OBVIOUS
<1> QED
  BY <1>1 DEF Without

Buffered == [kind : Kind \ {"none"}, tag : ReqTag]

LEMMA FollowsAppend ==
  ASSUME NEW q \in Seq(Buffered), NEW r \in Seq(ReqTag), NEW k \in {0, 1},
         Follows(q, r, k), NEW x \in Buffered
  PROVE  Follows(Append(q, x), Append(r, x.tag), k)
<1> DEFINE qx == Append(q, x)
           rx == Append(r, x.tag)
<1>1. x.tag \in ReqTag
  BY DEF Buffered
<1>2. Len(q) \in Nat /\ Len(r) = Len(q) + k
  BY DEF Follows
<1>3. Len(qx) = Len(q) + 1 /\ Len(rx) = Len(r) + 1
  BY <1>1, SeqFacts
<1>4. ASSUME NEW i \in 1 .. Len(qx) PROVE qx[i].tag = rx[i + k]
  <2>1. CASE i \in 1 .. Len(q)
    <3>1. i + k \in 1 .. Len(r) /\ q[i].tag = r[i + k]
      BY <2>1, <1>2 DEF Follows
    <3> QED
      BY <2>1, <3>1, <1>1, SeqFacts
  <2>2. CASE i = Len(q) + 1
    <3>1. i + k = Len(r) + 1
      BY <2>2, <1>2
    <3> QED
      BY <2>2, <3>1, <1>1, SeqFacts
  <2> QED
    BY <1>2, <1>3, <2>1, <2>2
<1> QED
  BY <1>2, <1>3, <1>4 DEF Follows

LEMMA FollowsLeaves ==
  ASSUME NEW q \in Seq(Buffered), NEW r \in Seq(ReqTag), Follows(q, r, 0), q # <<>>
  PROVE  Follows(Tail(q), r, 1) /\ Head(q).tag = r[1] /\ Tail(q) \in Seq(Buffered)
  BY SeqFacts DEF Follows

LEMMA FollowsAnswered ==
  ASSUME NEW q \in Seq(Buffered), NEW r \in Seq(ReqTag), Follows(q, r, 1)
  PROVE  Follows(q, Tail(r), 0) /\ r # <<>> /\ Tail(r) \in Seq(ReqTag)
  BY SeqFacts DEF Follows

LEMMA OwesAppend ==
  ASSUME NEW o \in Seq(Owed), NEW r \in Seq(ReqTag), Owes(o, r), NEW t \in ReqTag
  PROVE  /\ Owes(Append(o, [path |-> Uncached, tag |-> t]), Append(r, t))
         /\ Append(o, [path |-> Uncached, tag |-> t]) \in Seq(Owed)
<1> DEFINE x == [path |-> Uncached, tag |-> t]
<1>1. x \in Owed
  BY DEF Owed
<1>2. Len(o) \in Nat /\ Len(o) = Len(r)
  BY DEF Owes
<1>3. /\ Append(o, x) \in Seq(Owed) /\ Len(Append(o, x)) = Len(o) + 1
      /\ \A i \in 1 .. Len(o) : Append(o, x)[i] = o[i]
      /\ Append(o, x)[Len(o) + 1] = x
  BY <1>1, SeqFacts
<1>4. /\ Len(Append(r, t)) = Len(r) + 1
      /\ \A i \in 1 .. Len(r) : Append(r, t)[i] = r[i]
      /\ Append(r, t)[Len(r) + 1] = t
  BY SeqFacts
<1>5. ASSUME NEW i \in 1 .. Len(Append(r, t))
      PROVE  Append(o, x)[i] = [path |-> Uncached, tag |-> Append(r, t)[i]]
  <2>1. CASE i \in 1 .. Len(r)
    <3>1. o[i] = [path |-> Uncached, tag |-> r[i]]
      BY <2>1 DEF Owes
    <3> QED
      BY <2>1, <3>1, <1>2, <1>3, <1>4
  <2>2. CASE i = Len(r) + 1
    BY <2>2, <1>2, <1>3, <1>4
  <2> QED
    BY <1>2, <1>4, <2>1, <2>2
<1> QED
  BY <1>2, <1>3, <1>4, <1>5 DEF Owes

LEMMA OwesTail ==
  ASSUME NEW o \in Seq(Owed), NEW r \in Seq(ReqTag), Owes(o, r), r # <<>>
  PROVE  /\ Owes(Tail(o), Tail(r)) /\ Tail(o) \in Seq(Owed)
         /\ o # <<>> /\ Head(o) = [path |-> Uncached, tag |-> Head(r)]
<1>1. Len(o) = Len(r) /\ Len(r) \in Nat
  BY DEF Owes
<1>2. o # <<>>
  BY <1>1
<1>3. /\ Head(r) = r[1] /\ Len(Tail(r)) = Len(r) - 1 /\ Len(r) >= 1
      /\ \A i \in 1 .. Len(r) - 1 : Tail(r)[i] = r[i + 1]
  BY SeqFacts
<1>4. /\ Head(o) = o[1] /\ Len(Tail(o)) = Len(o) - 1 /\ Tail(o) \in Seq(Owed)
      /\ \A i \in 1 .. Len(o) - 1 : Tail(o)[i] = o[i + 1]
  BY <1>2, SeqFacts
<1>5. Head(o) = [path |-> Uncached, tag |-> Head(r)]
  <2>1. 1 \in 1 .. Len(r)
    BY <1>1, <1>3
  <2>2. o[1] = [path |-> Uncached, tag |-> r[1]]
    BY <2>1 DEF Owes
  <2> QED
    BY <2>2, <1>3, <1>4
<1>6. ASSUME NEW i \in 1 .. Len(Tail(r))
      PROVE  Tail(o)[i] = [path |-> Uncached, tag |-> Tail(r)[i]]
  <2>1. i \in 1 .. Len(r) - 1 /\ i + 1 \in 1 .. Len(r)
    BY <1>1, <1>3
  <2>2. o[i + 1] = [path |-> Uncached, tag |-> r[i + 1]]
    BY <2>1 DEF Owes
  <2> QED
    BY <2>1, <2>2, <1>1, <1>3, <1>4
<1> QED
  BY <1>1, <1>2, <1>3, <1>4, <1>5, <1>6 DEF Owes

Transactions == [path : {Cached, Uncached}, tag : ReqTag, write : BOOLEAN]

LEMMA BusInputsType ==
  ASSUME NEW b \in BusInputs, bus \in Seq(Transactions)
  PROVE  /\ b.accept \in BOOLEAN
         /\ bus = <<>> => b.answer = 0
         /\ Len(bus) = 1 => b.answer \in {0, 1}
<1>1. b.answer \in {0} \cup DOMAIN bus /\ b.accept \in BOOLEAN
  BY DEF BusInputs
<1>2. DOMAIN bus = 1 .. Len(bus) /\ Len(<<>>) = 0
  OBVIOUS
<1> QED
  BY <1>1, <1>2

LEMMA PortStarts == PortInit => PortInv
<1> SUFFICES ASSUME PortInit PROVE PortInv
    OBVIOUS
<1>1. core \in [phase : Phase, tag : ReqTag, evicts : 0 .. MaxEvicts]
  <2>1. core \in [phase : {"idle"}, tag : ReqTag, evicts : {0}]
    BY DEF PortInit
  <2>2. {"idle"} \subseteq Phase /\ {0} \subseteq 0 .. MaxEvicts
    BY PortAssumption DEF Phase
  <2> QED
    BY <2>1, <2>2
<1>3. /\ reqFifo \in Seq([kind : Kind \ {"none"}, tag : ReqTag])
      /\ respFifo \in Seq(ReqTag) /\ owed \in Seq(Owed)
      /\ bus \in Seq([path : {Cached, Uncached}, tag : ReqTag, write : BOOLEAN])
      /\ Len(reqFifo) = 0 /\ Len(respFifo) = 0
  BY DEF PortInit
<1>4. PortTypeOK
  <2>1. FifoDepth >= 0
    BY PortAssumption
  <2>2. pending \in 0 .. 31
    BY DEF PortInit
  <2>3. /\ requestPending \in BOOLEAN /\ dropped \in BOOLEAN
        /\ selectQ \in BOOLEAN /\ cacheAccess \in BOOLEAN
    BY Zenon DEF PortInit
  <2> QED
    BY <1>1, <1>3, <2>1, <2>2, <2>3 DEF PortTypeOK
<1>2. NobodysTurn /\ pending = Len(owed)
  BY DEF PortInit, NobodysTurn, UncachedQuiet
<1> QED
  BY <1>2, <1>4 DEF PortInv

-----------------------------------------------------------------------------
(* The cache's turn.                                                       *)

LEMMA CachesWires ==
  ASSUME PortInv, CachesTurn, NEW in \in Inputs, NEW b \in BusInputs, NEW c \in Choices
  PROVE  /\ pending = 1 /\ Select(in)
         /\ ~ToUncached(in)
         /\ ToCache(in) <=> in.kind # "none" /\ in.cacheable
         /\ ~UncachedAck(b) /\ ~MayIssue(b) /\ ~IsDrop(b) /\ ~UncachedOffer(b)
         /\ CacheAccept(c) <=> c.take /\ CacheAck(c)
         /\ (Ack(b, c) <=> CacheAck(c))
<1>1. pending = 1 /\ pending # 0 /\ cacheAccess = TRUE /\ core.phase # "idle" /\ UncachedQuiet
  BY DEF PortInv, CachesTurn, PortTypeOK
<1>2. ~UncachedBusAck(b)
  BY BusInputsType DEF CachesTurn, UncachedBusAck, PortInv, PortTypeOK, Transactions, OnBus
<1> QED
  BY <1>1, <1>2, Zenon
  DEF Inputs, Select, Hold, ToUncached, ToCache, UncachedQuiet, UncachedAck,
      MayIssue, IsDrop, UncachedOffer, CacheAccept, Ack

LEMMA BooleanStep ==
  ASSUME NEW in \in Inputs, NEW b \in BusInputs, NEW c \in Choices, PortClock(in, b, c),
         PortInv
  PROVE  /\ cacheAccess' \in BOOLEAN /\ selectQ' \in BOOLEAN
         /\ requestPending' \in BOOLEAN /\ dropped' \in BOOLEAN
<1>1. cacheAccess \in BOOLEAN /\ requestPending \in BOOLEAN /\ in.cacheable \in BOOLEAN
  BY DEF PortInv, PortTypeOK, Inputs
<1>2. Select(in) \in BOOLEAN /\ IsDrop(b) \in BOOLEAN
  BY <1>1, Zenon DEF Select, IsDrop, MayIssue
<1> QED
  BY <1>1, <1>2, Zenon DEF PortClock, Mux, UncachedPath

LEMMA CoreType ==
  ASSUME NEW in \in Inputs, NEW b \in BusInputs, NEW c \in Choices, PortClock(in, b, c),
         PortInv
  PROVE  core' \in [phase : Phase, tag : ReqTag, evicts : 0 .. MaxEvicts]
<1>1. /\ core \in [phase : Phase, tag : ReqTag, evicts : 0 .. MaxEvicts]
      /\ in.tag \in ReqTag
  BY DEF PortInv, PortTypeOK, Inputs
<1>2. StartsEvict(c) => core.evicts < MaxEvicts
  BY DEF Choices, StartsEvict
<1>3. /\ core' = [phase |-> core'.phase, tag |-> core'.tag, evicts |-> core'.evicts]
      /\ core'.tag \in {in.tag, core.tag}
      /\ core'.evicts \in {0, core.evicts + (IF StartsEvict(c) THEN 1 ELSE 0)}
  BY DEF PortClock, CoreStep
<1>4. core'.phase \in Phase
  BY <1>1 DEF PortClock, CoreStep, Phase
<1>5. core'.evicts \in 0 .. MaxEvicts
  BY <1>1, <1>2, <1>3, PortAssumption
<1> QED
  BY <1>1, <1>3, <1>4, <1>5

LEMMA BusLeft ==
  ASSUME NEW b \in BusInputs, bus \in Seq(Transactions), Len(bus) \in {0, 1}
  PROVE  (IF b.answer = 0 THEN bus ELSE Without(bus, b.answer))
           = IF b.answer = 0 THEN bus ELSE <<>>
<1>1. CASE bus = <<>>
  BY <1>1, BusInputsType
<1>2. CASE Len(bus) = 1
  BY <1>2, BusInputsType, WithoutOnly
<1> QED
  BY <1>1, <1>2

LEMMA BusType ==
  ASSUME NEW in \in Inputs, NEW b \in BusInputs, NEW c \in Choices, PortClock(in, b, c),
         PortInv, Len(bus) \in {0, 1}
  PROVE  bus' \in Seq(Transactions)
<1> DEFINE left == IF b.answer = 0 THEN bus ELSE <<>>
           cached == [path |-> Cached, tag |-> core.tag, write |-> core.phase = "evict"]
           uncached == [path |-> Uncached, tag |-> Head(reqFifo).tag,
                        write |-> Head(reqFifo).kind = "write"]
<1>1. /\ bus \in Seq(Transactions) /\ core.tag \in ReqTag
      /\ reqFifo \in Seq([kind : Kind \ {"none"}, tag : ReqTag])
  BY DEF PortInv, PortTypeOK, Transactions
<1>2. \/ bus' = left \/ bus' = Append(left, cached)
      \/ reqFifo # <<>> /\ bus' = Append(left, uncached)
  BY <1>1, BusLeft DEF PortClock, BusStep, UncachedOffer, MayIssue
<1>3. cached \in Transactions
  BY <1>1 DEF Transactions
<1>4. ASSUME reqFifo # <<>> PROVE uncached \in Transactions
  <2>1. Head(reqFifo) \in [kind : Kind \ {"none"}, tag : ReqTag]
    BY <1>1, <1>4, HeadTailProperties
  <2> QED
    BY <2>1 DEF Transactions
<1>5. left \in Seq(Transactions)
  BY <1>1
<1> HIDE DEF left, cached, uncached
<1> QED
  BY <1>2, <1>3, <1>4, <1>5, AppendProperties

(* What the cache's request does to the bus, while the cache is heard.     *)
LEMMA CachesBus ==
  ASSUME PortInv, CachesTurn, NEW in \in Inputs, NEW b \in BusInputs, NEW c \in Choices,
         PortClock(in, b, c)
  PROVE  /\ CacheAck(c) => bus = <<>> /\ bus' = <<>>
         /\ ~CacheAck(c) =>
              /\ core'.phase # "idle" /\ core'.tag = core.tag
              /\ IF core'.phase \in {"evict_wait", "refill_wait"}
                   THEN OnBus(Cached, core.tag)' ELSE bus' = <<>>
<1> DEFINE granted == b.accept /\ Select(in)
           cached == [path |-> Cached, tag |-> core.tag, write |-> core.phase = "evict"]
           left == IF b.answer = 0 THEN bus ELSE Without(bus, b.answer)
<1>0. core.phase \in Phase /\ core.phase # "idle" /\ bus \in Seq(Transactions)
  BY DEF PortInv, PortTypeOK, CachesTurn, Transactions
<1>1. /\ Select(in) /\ ~UncachedOffer(b)
      /\ ~CacheAck(c) => ~(ToCache(in) /\ CacheAccept(c))
  BY CachesWires, Zenon
<1>2. bus' = IF b.accept /\ CacheOffer(b, c) THEN Append(left, cached) ELSE left
  BY <1>1 DEF PortClock, BusStep
<1>3. CoreStep(in, b, c, granted)
  BY DEF PortClock
<1>4. left = IF b.answer = 0 THEN bus ELSE <<>>
  <2>0. bus = <<>> \/ Len(bus) = 1
    BY DEF CachesTurn, OnBus
  <2>1. Len(bus) \in {0, 1}
    <3>1. Len(<<>>) = 0
      OBVIOUS
    <3> QED
      BY <2>0, <3>1
  <2> QED
    BY <1>0, <2>1, BusLeft
<1>5. Append(<<>>, cached) = <<cached>>
  OBVIOUS
<1>6. ASSUME CacheAck(c) PROVE bus = <<>> /\ bus' = <<>>
  <2>1. core.phase \in {"lookup", "ready"} /\ c.go = "ack"
    BY <1>6 DEF CacheAck
  <2>2. bus = <<>> /\ ~CacheOffer(b, c)
    BY <2>1 DEF CachesTurn, CacheOffer, StartsRefill
  <2> QED
    BY <1>2, <1>4, <2>2
<1>7. ASSUME ~CacheAck(c)
      PROVE  /\ core'.phase # "idle" /\ core'.tag = core.tag
             /\ IF core'.phase \in {"evict_wait", "refill_wait"}
                  THEN OnBus(Cached, core.tag)' ELSE bus' = <<>>
  <2> DEFINE next ==
        IF StartsEvict(c) THEN "evict"
        ELSE IF StartsRefill(b, c) \/ core.phase = "refill"
          THEN IF b.accept THEN "refill_wait" ELSE "refill"
        ELSE IF core.phase = "evict" /\ b.accept THEN "evict_wait"
        ELSE IF core.phase = "evict_wait" /\ CacheBusAck(b) THEN "lookup"
        ELSE IF core.phase = "refill_wait" /\ CacheBusAck(b) THEN "ready"
        ELSE core.phase
  <2>1. core'.phase = next /\ core'.tag = core.tag
    BY <1>1, <1>3, <1>7 DEF CoreStep
  <2>3. CASE core.phase \in {"lookup", "ready"}
    <3>1. bus = <<>>
      BY <2>3 DEF CachesTurn
    <3>2. b.accept \in BOOLEAN /\ left = <<>>
      BY <3>1, <1>0, <1>4, BusInputsType
    <3>3. CacheOffer(b, c) <=> StartsRefill(b, c)
      BY <2>3 DEF CacheOffer
    <3>4. StartsRefill(b, c) => ~StartsEvict(c)
      BY <2>3 DEF StartsRefill, StartsEvict
    <3>5. CASE b.accept /\ StartsRefill(b, c)
      <4>1. bus' = <<cached>> /\ core'.phase = "refill_wait"
        BY <2>1, <3>2, <3>3, <3>4, <3>5, <1>2, <1>5
      <4> QED
        BY <4>1, <2>1 DEF OnBus
    <3>6. CASE ~(b.accept /\ StartsRefill(b, c))
      <4>1. bus' = <<>> /\ core'.phase \in {"evict", "refill", "lookup", "ready"}
        BY <2>1, <2>3, <3>2, <3>3, <3>6, <1>2
      <4> QED
        BY <4>1, <2>1
    <3> QED
      BY <3>5, <3>6
  <2>4. CASE core.phase \in {"evict", "refill"}
    <3>1. bus = <<>>
      BY <2>4 DEF CachesTurn
    <3>2. b.accept \in BOOLEAN /\ left = <<>>
      BY <3>1, <1>0, <1>4, BusInputsType
    <3>3. CacheOffer(b, c) /\ ~StartsEvict(c) /\ ~StartsRefill(b, c)
      BY <2>4 DEF CacheOffer, StartsEvict, StartsRefill
    <3>4. CASE b.accept
      <4>1. bus' = <<cached>> /\ core'.phase \in {"evict_wait", "refill_wait"}
        BY <2>1, <2>4, <3>2, <3>3, <3>4, <1>2, <1>5
      <4> QED
        BY <4>1, <2>1 DEF OnBus
    <3>5. CASE ~b.accept
      <4>1. bus' = <<>> /\ core'.phase \in {"evict", "refill"}
        BY <2>1, <2>4, <3>2, <3>3, <3>5, <1>2
      <4> QED
        BY <4>1, <2>1
    <3> QED
      BY <3>2, <3>4, <3>5
  <2>5. CASE core.phase \in {"evict_wait", "refill_wait"}
    <3>1. OnBus(Cached, core.tag) /\ selectQ
      BY <2>5 DEF CachesTurn
    <3>2. b.accept \in BOOLEAN /\ b.answer \in {0, 1} /\ ~StartsEvict(c)
      BY <3>1, <2>5, <1>0, BusInputsType DEF OnBus, StartsEvict
    <3>3. CASE b.answer = 0
      <4>1. ~CacheBusAck(b) /\ ~StartsRefill(b, c) /\ ~CacheOffer(b, c)
        BY <2>5, <3>3 DEF CacheBusAck, StartsRefill, CacheOffer
      <4>2. bus' = bus /\ core'.phase = core.phase
        BY <4>1, <2>1, <2>5, <3>2, <3>3, <1>2, <1>4
      <4> QED
        BY <4>2, <2>1, <2>5, <3>1 DEF OnBus
    <3>4. CASE b.answer = 1
      <4>1. CacheBusAck(b) /\ left = <<>>
        BY <3>1, <3>4, <1>4 DEF CacheBusAck
      <4>2. CacheOffer(b, c) <=> StartsRefill(b, c)
        BY <2>5 DEF CacheOffer
      <4>3. CASE b.accept /\ StartsRefill(b, c)
        <5>1. bus' = <<cached>> /\ core'.phase = "refill_wait"
          BY <2>1, <3>2, <4>1, <4>2, <4>3, <1>2, <1>5
        <5> QED
          BY <5>1, <2>1 DEF OnBus
      <4>4. CASE ~(b.accept /\ StartsRefill(b, c))
        <5>1. bus' = <<>> /\ core'.phase \in {"refill", "lookup", "ready"}
          BY <2>1, <2>5, <3>2, <4>1, <4>2, <4>4, <1>2
        <5> QED
          BY <5>1, <2>1
      <4> QED
        BY <4>3, <4>4
    <3> QED
      BY <3>2, <3>3, <3>4
  <2> QED
    BY <2>3, <2>4, <2>5, <1>0 DEF Phase
<1> QED
  BY <1>6, <1>7

LEMMA CachesStep ==
  ASSUME PortInv, CachesTurn, NEW in \in Inputs, NEW b \in BusInputs, NEW c \in Choices,
         PortClock(in, b, c)
  PROVE  /\ pending' = Len(owed') /\ (NobodysTurn \/ CachesTurn)'
         /\ owed' \in Seq(Owed)
         /\ AnswersTold'
<1> DEFINE taken == ToCache(in) /\ CacheAccept(c)
           mine == [path |-> Cached, tag |-> core.tag]
<1>0. /\ cacheAccess = TRUE /\ owed = <<mine>> /\ UncachedQuiet /\ pending = 1
      /\ core \in [phase : Phase, tag : ReqTag, evicts : 0 .. MaxEvicts]
      /\ in.tag \in ReqTag /\ in.cacheable \in BOOLEAN
      /\ bus \in Seq(Transactions)
  BY DEF PortInv, CachesTurn, PortTypeOK, Transactions, Inputs
<1>1. /\ ~ToUncached(in) /\ ~UncachedAck(b) /\ ~IsDrop(b) /\ ~UncachedOffer(b)
      /\ (Ack(b, c) <=> CacheAck(c)) /\ Select(in)
      /\ taken => CacheAck(c) /\ in.cacheable
  BY CachesWires, Zenon
<1>2. UncachedQuiet'
  BY <1>0, <1>1 DEF PortClock, UncachedPath, UncachedQuiet
<1>3. cacheAccess' /\ selectQ'
  BY <1>0, <1>1, Zenon DEF PortClock, Mux, Accepted
<1>4. Accepted(in, c) <=> taken
  BY <1>1, Zenon DEF Accepted
<1>5. /\ owed' = IF taken THEN <<[path |-> Cached, tag |-> in.tag]>>
                 ELSE IF CacheAck(c) THEN <<>> ELSE <<mine>>
      /\ pending' = IF taken THEN 1 ELSE IF CacheAck(c) THEN 0 ELSE 1
  <2>1. owed # <<>> /\ Tail(owed) = <<>>
    BY <1>0
  <2>2. \A x : Append(<<>>, x) = <<x>>
    OBVIOUS
  <2>3. taken => in.cacheable = TRUE
    BY <1>0, <1>1
  <2>4. owed' = LET rest == IF CacheAck(c) THEN <<>> ELSE owed
                IN IF taken THEN Append(rest, [path |-> Cached, tag |-> in.tag]) ELSE rest
    BY <1>1, <1>4, <2>1, <2>3 DEF PortClock, PortHistory
  <2>5. pending' = (IF taken /\ ~CacheAck(c) THEN pending + 1
                    ELSE IF CacheAck(c) /\ ~taken THEN pending - 1 ELSE pending) % 32
    BY <1>1, <1>4 DEF PortClock, Mux, Count
  <2> HIDE DEF taken
  <2>6. taken => CacheAck(c)
    BY <1>1
  <2>7. pending' = IF taken THEN 1 ELSE IF CacheAck(c) THEN 0 ELSE 1
    BY <1>0, <2>5, <2>6
  <2>8. owed' = IF taken THEN <<[path |-> Cached, tag |-> in.tag]>>
                ELSE IF CacheAck(c) THEN <<>> ELSE <<mine>>
    BY <1>0, <2>2, <2>4, <2>6
  <2> QED
    BY <2>7, <2>8
<1>6. pending' = Len(owed') /\ owed' \in Seq(Owed)
  <2>1. mine \in Owed /\ [path |-> Cached, tag |-> in.tag] \in Owed
    BY <1>0 DEF Owed
  <2> QED
    BY <1>5, <2>1
<1>7. (NobodysTurn \/ CachesTurn)'
  <2>1. CASE taken
    <3>1. bus' = <<>>
      BY <1>1, <2>1, CachesBus
    <3>2. core'.phase = "lookup" /\ core'.tag = in.tag
      BY <2>1 DEF PortClock, CoreStep
    <3> QED
      BY <1>2, <1>3, <1>5, <2>1, <3>1, <3>2 DEF CachesTurn
  <2>2. CASE ~taken /\ CacheAck(c)
    <3>1. bus' = <<>> /\ owed' = <<>>
      BY <2>2, <1>5, CachesBus
    <3>2. core'.phase = "idle"
      BY <2>2 DEF PortClock, CoreStep
    <3> QED
      BY <1>2, <3>1, <3>2 DEF NobodysTurn
  <2>3. CASE ~CacheAck(c)
    <3>1. owed' = <<mine>>
      BY <1>1, <1>5, <2>3
    <3> QED
      BY <1>2, <1>3, <2>3, <3>1, CachesBus DEF CachesTurn
  <2> QED
    BY <1>1, <2>1, <2>2, <2>3
<1>8. AnswersTold'
  <2>1. /\ acks'.given = IF CacheAck(c) THEN {mine} ELSE {}
        /\ acks'.told = IF CacheAck(c) THEN {mine} ELSE {}
        /\ acks'.due = {mine}
    BY <1>0, <1>1 DEF PortClock, PortHistory
  <2> QED
    BY <2>1 DEF AnswersTold
<1> QED
  BY <1>6, <1>7, <1>8

-----------------------------------------------------------------------------
(* Nobody's turn: the first request taken decides whose it is.             *)

LEMMA NobodysWires ==
  ASSUME PortInv, NobodysTurn, NEW in \in Inputs, NEW b \in BusInputs, NEW c \in Choices
  PROVE  /\ pending = 0 /\ b.answer = 0 /\ (Select(in) <=> in.cacheable)
         /\ ToCache(in) <=> in.kind # "none" /\ in.cacheable
         /\ ToUncached(in) <=> in.kind # "none" /\ ~in.cacheable
         /\ ~UncachedAck(b) /\ ~MayIssue(b) /\ ~IsDrop(b) /\ ~UncachedOffer(b)
         /\ ~CacheAck(c) /\ ~CacheOffer(b, c) /\ ~Ack(b, c)
<1>1. pending = 0 /\ core.phase = "idle" /\ UncachedQuiet /\ bus = <<>>
  BY DEF PortInv, NobodysTurn
<1>2. b.answer = 0
  BY <1>1, BusInputsType DEF PortInv, PortTypeOK, Transactions
<1>3. ~UncachedAck(b)
  BY <1>1, <1>2, Zenon DEF UncachedQuiet, UncachedAck, UncachedBusAck
<1>4. ~CacheAck(c) /\ ~CacheOffer(b, c)
  BY <1>1 DEF CacheAck, CacheOffer, StartsRefill
<1> QED
  BY <1>1, <1>2, <1>3, <1>4, Zenon
  DEF Inputs, Select, Hold, ToUncached, ToCache, UncachedQuiet,
      MayIssue, IsDrop, UncachedOffer, Ack

(* Without a request taken and with nothing acknowledged, nobody is told.  *)
LEMMA NobodysStep ==
  ASSUME PortInv, NobodysTurn, NEW in \in Inputs, NEW b \in BusInputs, NEW c \in Choices,
         PortClock(in, b, c)
  PROVE  /\ pending' = Len(owed') /\ (NobodysTurn \/ CachesTurn \/ UncachedsTurn)'
         /\ owed' \in Seq(Owed)
         /\ reqFifo' \in Seq(Buffered) /\ respFifo' \in Seq(ReqTag)
         /\ Len(reqFifo') <= Len(respFifo') /\ Len(respFifo') <= FifoDepth
         /\ AnswersTold'
<1> DEFINE takenC == ToCache(in) /\ CacheAccept(c)
           takenU == ToUncached(in) /\ UncachedAccept
           x == [kind |-> in.kind, tag |-> in.tag]
<1>0. /\ owed = <<>> /\ core.phase = "idle" /\ bus = <<>>
      /\ reqFifo = <<>> /\ respFifo = <<>> /\ ~requestPending /\ ~dropped
      /\ core \in [phase : Phase, tag : ReqTag, evicts : 0 .. MaxEvicts]
      /\ in.kind \in Kind /\ in.tag \in ReqTag /\ in.cacheable \in BOOLEAN
      /\ FifoDepth \in 1 .. 15
  BY PortAssumption DEF PortInv, NobodysTurn, UncachedQuiet, PortTypeOK, Inputs
<1>1. /\ pending = 0 /\ b.answer = 0 /\ (Select(in) <=> in.cacheable)
      /\ ~UncachedAck(b) /\ ~MayIssue(b) /\ ~IsDrop(b) /\ ~UncachedOffer(b)
      /\ ~CacheAck(c) /\ ~CacheOffer(b, c) /\ ~Ack(b, c)
      /\ takenC => in.cacheable
      /\ takenU => ~in.cacheable /\ in.kind # "none"
  BY NobodysWires, Zenon
<1>2. bus' = <<>>
  BY <1>0, <1>1 DEF PortClock, BusStep
<1>3. /\ reqFifo' = IF takenU THEN <<x>> ELSE <<>>
      /\ respFifo' = IF takenU THEN <<in.tag>> ELSE <<>>
  <2>1. \A y : Append(<<>>, y) = <<y>>
    OBVIOUS
  <2> QED
    BY <1>0, <1>1, <2>1 DEF PortClock, UncachedPath
<1>4. ~requestPending' /\ ~dropped'
  BY <1>0, <1>1, Zenon DEF PortClock, UncachedPath
<1>5. Accepted(in, c) <=> takenC \/ takenU
  BY Zenon DEF Accepted
<1>6. /\ pending' = IF takenC \/ takenU THEN 1 ELSE 0
      /\ owed' = IF takenC THEN <<[path |-> Cached, tag |-> in.tag]>>
                 ELSE IF takenU THEN <<[path |-> Uncached, tag |-> in.tag]>> ELSE <<>>
  <2>1. \A y : Append(<<>>, y) = <<y>>
    OBVIOUS
  <2>2. /\ takenC => in.cacheable = TRUE
        /\ takenU => in.cacheable = FALSE
    BY <1>0, <1>1
  <2>3. pending' = (IF takenC \/ takenU THEN pending + 1 ELSE pending) % 32
    BY <1>1, <1>5 DEF PortClock, Mux, Count
  <2>4. owed' = IF takenC \/ takenU
                  THEN Append(owed, [path |-> IF in.cacheable THEN Cached ELSE Uncached,
                                     tag |-> in.tag])
                  ELSE owed
    BY <1>1, <1>5 DEF PortClock, PortHistory
  <2> HIDE DEF takenC, takenU
  <2> QED
    BY <1>0, <1>1, <2>1, <2>2, <2>3, <2>4
<1>7. pending' = Len(owed') /\ owed' \in Seq(Owed)
  <2>1. \A p \in {Cached, Uncached} : [path |-> p, tag |-> in.tag] \in Owed
    BY <1>0 DEF Owed
  <2> QED
    BY <1>6, <2>1
<1>8. /\ reqFifo' \in Seq(Buffered) /\ respFifo' \in Seq(ReqTag)
      /\ Len(reqFifo') <= Len(respFifo') /\ Len(respFifo') <= FifoDepth
  <2>1. takenU => x \in Buffered
    BY <1>0, <1>1 DEF Buffered
  <2> QED
    BY <1>0, <1>3, <2>1
<1>9. AnswersTold'
  <2>1. acks' = [given |-> {}, told |-> {}, due |-> {}]
    BY <1>0, <1>1 DEF PortClock, PortHistory
  <2> QED
    BY <2>1 DEF AnswersTold
<1>10. (NobodysTurn \/ CachesTurn \/ UncachedsTurn)'
  <2>1. CASE takenC
    <3>1. core'.phase = "lookup" /\ core'.tag = in.tag
      BY <2>1 DEF PortClock, CoreStep
    <3>2. ~takenU
      BY <2>1, <1>1, Zenon
    <3>3. cacheAccess'
      BY <1>1, <1>5, <2>1, Zenon DEF PortClock, Mux
    <3>4. UncachedQuiet'
      BY <1>3, <1>4, <3>2 DEF UncachedQuiet
    <3> QED
      BY <1>2, <1>6, <2>1, <3>1, <3>3, <3>4 DEF CachesTurn
  <2>2. CASE takenU
    <3>1. ~takenC
      BY <2>2, <1>1, Zenon
    <3>2. core'.phase = "idle"
      BY <1>0, <1>1, <3>1 DEF PortClock, CoreStep, StartsEvict, CacheOffer
    <3>3. ~cacheAccess'
      BY <1>1, <1>5, <2>2, Zenon DEF PortClock, Mux
    <3>4. Owes(owed, respFifo)'
      BY <1>3, <1>6, <2>2, <3>1 DEF Owes
    <3>5. Follows(reqFifo, respFifo, 0)'
      BY <1>3, <2>2 DEF Follows
    <3>6. Behind' = 0
      BY <1>4 DEF Behind
    <3> QED
      BY <1>2, <1>3, <1>4, <2>2, <3>2, <3>3, <3>4, <3>5, <3>6 DEF UncachedsTurn
  <2>3. CASE ~takenC /\ ~takenU
    <3>1. core'.phase = "idle"
      BY <1>0, <1>1, <2>3 DEF PortClock, CoreStep, StartsEvict, CacheOffer
    <3> QED
      BY <1>2, <1>3, <1>4, <1>6, <2>3, <3>1 DEF NobodysTurn, UncachedQuiet
  <2> QED
    BY <2>1, <2>2, <2>3
<1> QED
  BY <1>7, <1>8, <1>9, <1>10

-----------------------------------------------------------------------------
(* The uncached path's turn: the cycle answers the request at work, starts *)
(* the next one and takes a new one, each or none of the three.            *)

LEMMA UncachedsWires ==
  ASSUME PortInv, UncachedsTurn, NEW in \in Inputs, NEW b \in BusInputs, NEW c \in Choices
  PROVE  /\ pending = Len(respFifo) /\ Len(owed) = Len(respFifo)
         /\ Len(respFifo) >= 1 /\ ~Select(in) /\ ~ToCache(in)
         /\ ToUncached(in) => in.kind # "none" /\ ~in.cacheable
         /\ ~CacheAck(c) /\ ~CacheOffer(b, c)
         /\ Ack(b, c) <=> UncachedAck(b)
         /\ b.accept \in BOOLEAN
<1>1. /\ ~cacheAccess /\ core.phase = "idle" /\ pending = Len(owed)
      /\ Len(owed) = Len(respFifo) /\ respFifo # <<>>
      /\ cacheAccess = FALSE
  BY DEF PortInv, UncachedsTurn, Owes, PortTypeOK
<1>2. respFifo \in Seq(ReqTag) /\ bus \in Seq(Transactions)
  BY DEF PortInv, PortTypeOK, Transactions
<1>3. Len(respFifo) >= 1 /\ pending # 0
  BY <1>1, <1>2
<1>4. ~CacheAck(c) /\ ~CacheOffer(b, c)
  BY <1>1 DEF CacheAck, CacheOffer, StartsRefill
<1>5. b.accept \in BOOLEAN
  BY <1>2, BusInputsType
<1>6. in.cacheable \in BOOLEAN
  BY DEF Inputs
<1>7. /\ ~Select(in) /\ ~ToCache(in)
      /\ ToUncached(in) => in.kind # "none" /\ ~in.cacheable
      /\ Ack(b, c) <=> UncachedAck(b)
  BY <1>1, <1>3, <1>6, Zenon DEF Select, Hold, ToUncached, ToCache, Ack
<1> QED
  BY <1>1, <1>3, <1>4, <1>5, <1>7

(* The bus is free for the next request exactly when none is in progress.  *)
LEMMA UncachedAnswers ==
  ASSUME PortInv, UncachedsTurn, NEW b \in BusInputs
  PROVE  /\ UncachedAck(b) => requestPending
         /\ requestPending /\ ~UncachedAck(b) => ~dropped /\ b.answer = 0
         /\ ~(requestPending /\ ~UncachedAck(b)) =>
              (IF b.answer = 0 THEN bus ELSE Without(bus, b.answer)) = <<>>
         /\ Len(bus) \in {0, 1}
<1>1. bus \in Seq(Transactions) /\ requestPending \in BOOLEAN /\ dropped \in BOOLEAN
  BY DEF PortInv, PortTypeOK, Transactions
<1>2. CASE requestPending /\ ~dropped
  <2>1. Len(bus) = 1 /\ ~selectQ
    BY <1>2 DEF UncachedsTurn, OnBus
  <2>2. b.answer \in {0, 1}
    BY <1>1, <2>1, BusInputsType
  <2>3. UncachedAck(b) <=> b.answer # 0
    BY <1>2, <2>1 DEF UncachedAck, UncachedBusAck
  <2>4. Without(bus, 1) = <<>>
    BY <1>1, <2>1, WithoutOnly
  <2> QED
    BY <1>2, <2>1, <2>2, <2>3, <2>4
<1>3. CASE ~(requestPending /\ ~dropped)
  <2>1. bus = <<>> /\ (dropped => requestPending)
    BY <1>3 DEF UncachedsTurn
  <2>2. b.answer = 0
    BY <1>1, <2>1, BusInputsType
  <2>3. UncachedAck(b) <=> dropped
    BY <2>2 DEF UncachedAck, UncachedBusAck
  <2>4. Len(bus) = 0
    BY <2>1
  <2> QED
    BY <1>3, <2>1, <2>2, <2>3, <2>4
<1> QED
  BY <1>2, <1>3

(* What is left once the answer is taken. *)
Answered(b)  == IF UncachedAck(b) THEN Tail(respFifo) ELSE respFifo
StillOwed(b) == IF UncachedAck(b) THEN Tail(owed) ELSE owed
StillAtWork(b) == IF requestPending /\ ~UncachedAck(b) THEN 1 ELSE 0

LEMMA UncachedAnswered ==
  ASSUME PortInv, UncachedsTurn, NEW b \in BusInputs
  PROVE  /\ Answered(b) \in Seq(ReqTag) /\ StillOwed(b) \in Seq(Owed)
         /\ Owes(StillOwed(b), Answered(b))
         /\ Follows(reqFifo, Answered(b), StillAtWork(b))
         /\ Len(Answered(b)) <= Len(respFifo)
         /\ Len(StillOwed(b)) = Len(owed) - (IF UncachedAck(b) THEN 1 ELSE 0)
         /\ StillAtWork(b) \in {0, 1}
         /\ owed # <<>> /\ Head(owed) = [path |-> Uncached, tag |-> Head(respFifo)]
<1>1. /\ respFifo \in Seq(ReqTag) /\ owed \in Seq(Owed) /\ reqFifo \in Seq(Buffered)
      /\ Owes(owed, respFifo) /\ Follows(reqFifo, respFifo, Behind) /\ respFifo # <<>>
  BY DEF PortInv, PortTypeOK, UncachedsTurn, Buffered
<1>2. /\ Owes(Tail(owed), Tail(respFifo)) /\ Tail(owed) \in Seq(Owed)
      /\ owed # <<>> /\ Head(owed) = [path |-> Uncached, tag |-> Head(respFifo)]
  BY <1>1, OwesTail
<1>3. CASE UncachedAck(b)
  <2>1. Behind = 1 /\ StillAtWork(b) = 0
    BY <1>3, UncachedAnswers DEF Behind, StillAtWork
  <2>2. Follows(reqFifo, Tail(respFifo), 0) /\ Tail(respFifo) \in Seq(ReqTag)
    BY <1>1, <2>1, FollowsAnswered
  <2>3. /\ Len(Tail(owed)) = Len(owed) - 1
        /\ Len(Tail(respFifo)) = Len(respFifo) - 1 /\ Len(respFifo) \in Nat
    BY <1>1, <1>2, SeqFacts
  <2>4. Answered(b) = Tail(respFifo) /\ StillOwed(b) = Tail(owed)
    BY <1>3 DEF Answered, StillOwed
  <2>5. Len(Tail(respFifo)) <= Len(respFifo)
    BY <2>3
  <2> QED
    BY <1>2, <1>3, <2>1, <2>2, <2>3, <2>4, <2>5
<1>4. CASE ~UncachedAck(b)
  <2>1. /\ StillAtWork(b) = Behind /\ Behind \in {0, 1}
        /\ Answered(b) = respFifo /\ StillOwed(b) = owed
    BY <1>4 DEF Behind, StillAtWork, Answered, StillOwed
  <2>2. Len(respFifo) \in Nat /\ Len(owed) \in Nat
    BY <1>1
  <2> QED
    BY <1>1, <1>2, <1>4, <2>1, <2>2
<1> QED
  BY <1>3, <1>4

(* What is left in the FIFO of requests once the next one is started.      *)
Completes(in, b) == IsDrop(b) \/ (UncachedOffer(b) /\ b.accept /\ ~Select(in))
Started(in, b)   == IF Completes(in, b) THEN Tail(reqFifo) ELSE reqFifo
AtWorkNext(in, b) ==
  IF Completes(in, b) \/ (requestPending /\ ~UncachedAck(b)) THEN 1 ELSE 0

LEMMA UncachedStarted ==
  ASSUME PortInv, UncachedsTurn, NEW in \in Inputs, NEW b \in BusInputs
  PROVE  /\ Started(in, b) \in Seq(Buffered)
         /\ Follows(Started(in, b), Answered(b), AtWorkNext(in, b))
         /\ AtWorkNext(in, b) \in {0, 1}
         /\ Completes(in, b) =>
              /\ reqFifo # <<>> /\ ~(requestPending /\ ~UncachedAck(b))
              /\ Head(reqFifo).tag = Answered(b)[1]
<1>1. /\ reqFifo \in Seq(Buffered) /\ Answered(b) \in Seq(ReqTag)
      /\ Follows(reqFifo, Answered(b), StillAtWork(b))
  BY UncachedAnswered DEF PortInv, PortTypeOK, Buffered
<1>2. CASE Completes(in, b)
  <2>1. MayIssue(b)
    BY <1>2, Zenon DEF Completes, IsDrop, UncachedOffer
  <2>2. reqFifo # <<>> /\ ~(requestPending /\ ~UncachedAck(b))
    BY <2>1, Zenon DEF MayIssue, InProgress
  <2>3. StillAtWork(b) = 0 /\ AtWorkNext(in, b) = 1 /\ Started(in, b) = Tail(reqFifo)
    BY <1>2, <2>2 DEF StillAtWork, AtWorkNext, Started
  <2> QED
    BY <1>1, <2>2, <2>3, FollowsLeaves
<1>3. CASE ~Completes(in, b)
  <2>1. AtWorkNext(in, b) = StillAtWork(b) /\ Started(in, b) = reqFifo
    BY <1>3 DEF StillAtWork, AtWorkNext, Started
  <2>2. StillAtWork(b) \in {0, 1}
    BY DEF StillAtWork
  <2> QED
    BY <1>1, <1>3, <2>1, <2>2
<1> QED
  BY <1>2, <1>3

(* The bus holds the request at work, unless it was dropped.               *)
LEMMA UncachedsBus ==
  ASSUME PortInv, UncachedsTurn, NEW in \in Inputs, NEW b \in BusInputs, NEW c \in Choices,
         PortClock(in, b, c)
  PROVE  IF requestPending' /\ ~dropped'
           THEN /\ Len(bus') = 1 /\ bus'[1].path = Uncached
                /\ bus'[1].tag = Answered(b)[1] /\ ~selectQ'
           ELSE bus' = <<>>
<1> DEFINE left == IF b.answer = 0 THEN bus ELSE Without(bus, b.answer)
           uncached == [path |-> Uncached, tag |-> Head(reqFifo).tag,
                        write |-> Head(reqFifo).kind = "write"]
           busy == requestPending /\ ~UncachedAck(b)
           starts == b.accept /\ UncachedOffer(b)
<1>1. /\ ~Select(in) /\ ~CacheOffer(b, c) /\ b.accept \in BOOLEAN
  BY UncachedsWires
<1>2. /\ requestPending' <=> Completes(in, b) \/ busy
      /\ dropped' <=> IsDrop(b)
      /\ Completes(in, b) <=> IsDrop(b) \/ starts
      /\ ~selectQ'
      /\ ~(IsDrop(b) /\ starts)
  BY <1>1, Zenon DEF PortClock, Mux, UncachedPath, Completes, IsDrop, UncachedOffer
<1>3. bus' = IF starts THEN Append(left, uncached) ELSE left
  BY <1>1 DEF PortClock, BusStep
<1>4. /\ ~busy => left = <<>>
      /\ busy => ~dropped /\ left = bus
  BY UncachedAnswers
<1>5. Completes(in, b) => ~busy /\ Head(reqFifo).tag = Answered(b)[1]
  BY UncachedStarted
<1> HIDE DEF left, busy, starts
<1>6. CASE IsDrop(b)
  <2>1. dropped' /\ ~starts /\ ~busy
    BY <1>2, <1>5, <1>6, Zenon
  <2> QED
    BY <2>1, <1>3, <1>4
<1>7. CASE starts
  <2>1. requestPending' /\ ~dropped' /\ ~busy
    BY <1>2, <1>5, <1>7, Zenon
  <2>2. \A y : Append(<<>>, y) = <<y>>
    OBVIOUS
  <2>3. bus' = <<uncached>>
    BY <1>3, <1>4, <1>7, <2>1, <2>2
  <2>4. Head(reqFifo).tag = Answered(b)[1]
    BY <1>2, <1>5, <1>7, Zenon
  <2> QED
    BY <1>2, <2>1, <2>3, <2>4
<1>8. CASE ~IsDrop(b) /\ ~starts
  <2>1. ~dropped' /\ (requestPending' <=> busy) /\ bus' = left
    BY <1>2, <1>3, <1>8
  <2>2. CASE busy
    <3>1. requestPending /\ ~dropped /\ Answered(b) = respFifo /\ bus' = bus
      BY <1>4, <2>1, <2>2 DEF busy, Answered
    <3>2. OnBus(Uncached, respFifo[1])
      BY <3>1 DEF UncachedsTurn
    <3> QED
      BY <1>2, <2>1, <2>2, <3>1, <3>2 DEF OnBus
  <2>3. CASE ~busy
    BY <1>4, <2>1, <2>3
  <2> QED
    BY <2>2, <2>3
<1> QED
  BY <1>6, <1>7, <1>8

LEMMA UncachedsStep ==
  ASSUME PortInv, UncachedsTurn, NEW in \in Inputs, NEW b \in BusInputs, NEW c \in Choices,
         PortClock(in, b, c)
  PROVE  /\ pending' = Len(owed') /\ (NobodysTurn \/ UncachedsTurn)'
         /\ owed' \in Seq(Owed)
         /\ reqFifo' \in Seq(Buffered) /\ respFifo' \in Seq(ReqTag)
         /\ Len(reqFifo') <= Len(respFifo') /\ Len(respFifo') <= FifoDepth
         /\ AnswersTold'
<1> DEFINE push == ToUncached(in) /\ UncachedAccept
           x == [kind |-> in.kind, tag |-> in.tag]
           mine == [path |-> Uncached, tag |-> in.tag]
           rest == Started(in, b)
           waiting == Answered(b)
           still == StillOwed(b)
           k == AtWorkNext(in, b)
<1>0. /\ in.kind \in Kind /\ in.tag \in ReqTag /\ in.cacheable \in BOOLEAN
      /\ FifoDepth \in 1 .. 15 /\ Len(respFifo) \in Nat /\ Len(respFifo) <= FifoDepth
      /\ respFifo # <<>> /\ cacheAccess = FALSE /\ core.phase = "idle"
      /\ core \in [phase : Phase, tag : ReqTag, evicts : 0 .. MaxEvicts]
      /\ owed \in Seq(Owed)
  BY PortAssumption DEF PortInv, PortTypeOK, Inputs, UncachedsTurn
<1>1. /\ pending = Len(respFifo) /\ Len(owed) = Len(respFifo) /\ Len(respFifo) >= 1
      /\ ~Select(in) /\ ~ToCache(in)
      /\ ToUncached(in) => in.kind # "none" /\ ~in.cacheable
      /\ ~CacheAck(c) /\ ~CacheOffer(b, c)
      /\ Ack(b, c) <=> UncachedAck(b)
  BY UncachedsWires
<1>2. /\ waiting \in Seq(ReqTag) /\ still \in Seq(Owed) /\ Owes(still, waiting)
      /\ Len(waiting) <= Len(respFifo)
      /\ Len(still) = Len(owed) - (IF UncachedAck(b) THEN 1 ELSE 0)
      /\ owed # <<>> /\ Head(owed) = [path |-> Uncached, tag |-> Head(respFifo)]
  BY UncachedAnswered
<1>3. rest \in Seq(Buffered) /\ Follows(rest, waiting, k) /\ k \in {0, 1}
  BY UncachedStarted
<1>4. Accepted(in, c) <=> push
  BY <1>1, Zenon DEF Accepted
<1>5. /\ reqFifo' = IF push THEN Append(rest, x) ELSE rest
      /\ respFifo' = IF push THEN Append(waiting, in.tag) ELSE waiting
  BY <1>0 DEF PortClock, UncachedPath, Started, Completes, Answered
<1>6. owed' = IF push THEN Append(still, mine) ELSE still
  <2>1. push => in.cacheable = FALSE
    BY <1>0, <1>1
  <2>2. owed' = LET r == IF UncachedAck(b) THEN Tail(owed) ELSE owed
                IN IF push
                     THEN Append(r, [path |-> IF in.cacheable THEN Cached ELSE Uncached,
                                     tag |-> in.tag])
                     ELSE r
    BY <1>1, <1>2, <1>4 DEF PortClock, PortHistory
  <2> HIDE DEF push
  <2> QED
    BY <2>1, <2>2 DEF StillOwed
<1>7. push => in.tag \in ReqTag /\ x \in Buffered /\ mine \in Owed
  BY <1>0, <1>1 DEF Buffered, Owed
<1>8. push => Len(respFifo) < FifoDepth
  BY <1>0 DEF UncachedAccept
<1>9. Behind' = k
  <2>1. requestPending' <=> Completes(in, b) \/ (requestPending /\ ~UncachedAck(b))
    BY Zenon DEF PortClock, UncachedPath, Completes
  <2> QED
    BY <2>1 DEF Behind, AtWorkNext
<1>10. dropped' => requestPending'
  BY Zenon DEF PortClock, UncachedPath
<1>11. core'.phase = "idle"
  BY <1>0, <1>1 DEF PortClock, CoreStep, StartsEvict, CacheOffer
<1>12. ~cacheAccess'
  BY <1>0, <1>1, <1>4, Zenon DEF PortClock, Mux
<1>13. AnswersTold'
  <2>1. /\ acks'.told = acks'.given
        /\ acks'.given = IF UncachedAck(b) THEN {Head(owed)} ELSE {}
        /\ acks'.due = {Head(owed)}
    BY <1>0, <1>1, <1>2 DEF PortClock, PortHistory
  <2> QED
    BY <2>1 DEF AnswersTold
<1>14. pending' = (IF push /\ ~UncachedAck(b) THEN pending + 1
                   ELSE IF UncachedAck(b) /\ ~push THEN pending - 1 ELSE pending) % 32
  BY <1>1, <1>4 DEF PortClock, Mux, Count
<1> HIDE DEF push, x, mine, rest, waiting, still, k
<1>15. /\ Len(waiting) \in Nat /\ Len(still) = Len(waiting) /\ Len(rest) \in Nat
       /\ Len(rest) + k = Len(waiting)
  BY <1>2, <1>3 DEF Owes, Follows
<1>16. pending' = Len(owed')
  <2>1. push => Len(Append(still, mine)) = Len(still) + 1
    BY <1>2, <1>7, SeqFacts
  <2>2. Len(respFifo) \in 1 .. 15 /\ (push => Len(respFifo) + 1 \in 1 .. 15)
    <3>1. \A n \in Nat, d \in 1 .. 15 :
            n >= 1 /\ n <= d => n \in 1 .. 15 /\ (n < d => n + 1 \in 1 .. 15)
      OBVIOUS
    <3>2. Len(respFifo) \in Nat /\ Len(respFifo) >= 1 /\ Len(respFifo) <= FifoDepth
      BY <1>0, <1>1
    <3> QED
      BY <1>0, <1>8, <3>1, <3>2
  <2>3. Len(still) = Len(respFifo) - (IF UncachedAck(b) THEN 1 ELSE 0)
    BY <1>1, <1>2
  <2>4. CASE push /\ ~UncachedAck(b)
    BY <1>1, <1>6, <1>14, <2>1, <2>2, <2>3, <2>4
  <2>5. CASE push /\ UncachedAck(b)
    BY <1>1, <1>6, <1>14, <2>1, <2>2, <2>3, <2>5
  <2>6. CASE ~push /\ UncachedAck(b)
    <3>1. pending' = (Len(respFifo) - 1) % 32
      BY <1>1, <1>14, <2>6
    <3>2. \A n \in 1 .. 15 : (n - 1) % 32 = n - 1
      OBVIOUS
    <3>3. pending' = Len(respFifo) - 1
      BY <2>2, <3>1, <3>2
    <3> QED
      BY <1>6, <2>3, <2>6, <3>3
  <2>7. CASE ~push /\ ~UncachedAck(b)
    BY <1>1, <1>6, <1>14, <2>2, <2>3, <2>7, SMTT(30)
  <2> QED
    BY <2>4, <2>5, <2>6, <2>7
<1>17. /\ owed' \in Seq(Owed) /\ reqFifo' \in Seq(Buffered) /\ respFifo' \in Seq(ReqTag)
  BY <1>2, <1>3, <1>5, <1>6, <1>7, SeqFacts
<1>18. /\ Owes(owed', respFifo') /\ Follows(reqFifo', respFifo', k)
       /\ Len(waiting) >= 1 => respFifo'[1] = waiting[1] /\ respFifo' # <<>>
       /\ Len(respFifo') <= FifoDepth
  <2>1. CASE push
    <3>1. Owes(Append(still, mine), Append(waiting, in.tag))
      BY <1>2, <1>7, <2>1, OwesAppend DEF mine
    <3>2. Follows(Append(rest, x), Append(waiting, in.tag), k)
      <4>1. x \in Buffered /\ x.tag = in.tag
        BY <1>7, <2>1 DEF x
      <4> QED
        BY <1>2, <1>3, <4>1, FollowsAppend
    <3>3. /\ Len(Append(waiting, in.tag)) = Len(waiting) + 1
          /\ Len(waiting) >= 1 => Append(waiting, in.tag)[1] = waiting[1]
      BY <1>2, <1>7, <1>15, <2>1, SeqFacts
    <3>4. Len(waiting) >= 1 => Append(waiting, in.tag) # <<>>
      BY <1>2, <1>7, <2>1
    <3> QED
      BY <1>0, <1>2, <1>5, <1>6, <1>8, <1>15, <2>1, <3>1, <3>2, <3>3, <3>4
  <2>2. CASE ~push
    BY <1>0, <1>2, <1>3, <1>5, <1>6, <1>15, <2>2
  <2> QED
    BY <2>1, <2>2
<1>19. Len(reqFifo') <= Len(respFifo')
  BY <1>3, <1>17, <1>18 DEF Follows
<1>20. CASE respFifo' = <<>>
  <2>1. Len(respFifo') = 0
    BY <1>20
  <2>2. Len(owed') = 0 /\ Len(reqFifo') = 0 /\ k = 0
    BY <2>1, <1>3, <1>17, <1>18 DEF Owes, Follows
  <2>3. owed' = <<>> /\ reqFifo' = <<>>
    BY <2>2, <1>17, SeqFacts
  <2>4. ~requestPending' /\ ~dropped'
    <3>1. ~requestPending'
      BY <1>9, <2>2 DEF Behind
    <3> QED
      BY <3>1, <1>10
  <2>5. bus' = <<>>
    BY <2>4, UncachedsBus
  <2> QED
    BY <1>11, <1>13, <1>16, <1>17, <1>18, <1>19, <1>20, <2>3, <2>4, <2>5
    DEF NobodysTurn, UncachedQuiet
<1>21. CASE respFifo' # <<>>
  <2>1. IF requestPending' /\ ~dropped'
          THEN OnBus(Uncached, respFifo[1])' /\ ~selectQ'
          ELSE bus' = <<>>
    <3>1. CASE requestPending' /\ ~dropped'
      <4>1. k = 1
        BY <1>9, <3>1 DEF Behind
      <4>2. respFifo'[1] = waiting[1]
        BY <4>1, <1>15, <1>18
      <4> QED
        BY <3>1, <4>2, UncachedsBus DEF OnBus, waiting
    <3>2. CASE ~(requestPending' /\ ~dropped')
      BY <3>2, UncachedsBus
    <3> QED
      BY <3>1, <3>2
  <2>2. UncachedsTurn'
    BY <1>9, <1>10, <1>11, <1>12, <1>18, <1>21, <2>1 DEF UncachedsTurn
  <2> QED
    BY <2>2, <1>13, <1>16, <1>17, <1>18, <1>19
<1> QED
  BY <1>20, <1>21

-----------------------------------------------------------------------------
(* The invariant.                                                          *)

LEMMA BusShort == ASSUME PortInv PROVE Len(bus) \in {0, 1}
<1>1. bus = <<>> \/ Len(bus) = 1
  BY DEF PortInv, NobodysTurn, CachesTurn, UncachedsTurn, OnBus
<1>2. Len(<<>>) = 0
  OBVIOUS
<1> QED
  BY <1>1, <1>2

LEMMA PortClockKeeps ==
  ASSUME PortInv, NEW in \in Inputs, NEW b \in BusInputs, NEW c \in Choices, PortClock(in, b, c)
  PROVE  PortInv' /\ AnswersTold'
<1>1. /\ pending' = Len(owed') /\ (NobodysTurn \/ CachesTurn \/ UncachedsTurn)'
      /\ owed' \in Seq(Owed)
      /\ reqFifo' \in Seq(Buffered) /\ respFifo' \in Seq(ReqTag)
      /\ Len(reqFifo') <= Len(respFifo') /\ Len(respFifo') <= FifoDepth
      /\ AnswersTold'
  <2>1. CASE NobodysTurn
    BY <2>1, NobodysStep
  <2>2. CASE CachesTurn
    <3>1. UncachedQuiet'
      BY <2>2, CachesStep DEF NobodysTurn, CachesTurn
    <3>2. reqFifo' = <<>> /\ respFifo' = <<>> /\ FifoDepth \in 1 .. 15
      BY <3>1, PortAssumption DEF UncachedQuiet
    <3> QED
      BY <2>2, <3>2, CachesStep
  <2>3. CASE UncachedsTurn
    BY <2>3, UncachedsStep
  <2> QED
    BY <2>1, <2>2, <2>3 DEF PortInv
<1>2. pending' \in 0 .. 31
  <2>1. pending \in 0 .. 31
    BY DEF PortInv, PortTypeOK
  <2>2. Count(Accepted(in, c), Ack(b, c)) \in Int
    BY <2>1 DEF Count
  <2> QED
    BY <2>2 DEF PortClock, Mux
<1>3. bus' \in Seq(Transactions)
  BY BusShort, BusType
<1>4. core' \in [phase : Phase, tag : ReqTag, evicts : 0 .. MaxEvicts]
  BY CoreType
<1>5. /\ cacheAccess' \in BOOLEAN /\ selectQ' \in BOOLEAN
      /\ requestPending' \in BOOLEAN /\ dropped' \in BOOLEAN
  BY BooleanStep
<1>6. PortTypeOK'
  BY <1>1, <1>2, <1>3, <1>4, <1>5 DEF PortTypeOK, Transactions, Buffered
<1> QED
  BY <1>1, <1>6 DEF PortInv

(* The invariant holds, whatever the tags, the depth of the FIFOs and the  *)
(* number of evictions: no request is taken on one path while the other    *)
(* has one to answer (dcache_mux.v:136), and the uncached path's two FIFOs *)
(* never disagree by more than the request at work.                        *)
THEOREM PortInvariantHolds == PortSpec => []PortInv
<1>1. PortInv /\ [PortNext]_portVars => PortInv'
  <2> SUFFICES ASSUME PortInv, [PortNext]_portVars PROVE PortInv'
    OBVIOUS
  <2>1. CASE PortNext
    BY <2>1, PortClockKeeps DEF PortNext
  <2>2. CASE UNCHANGED portVars
    BY <2>2 DEF portVars, PortInv, PortTypeOK, NobodysTurn, CachesTurn, UncachedsTurn,
                UncachedQuiet, OnBus, Behind
  <2> QED
    BY <2>1, <2>2
<1> QED
  BY PortStarts, <1>1, PTL DEF PortSpec

(* Whose turn it is says what is on the bus and who is owed an answer. *)
LEMMA TurnsKeepApart == ASSUME PortInv PROVE PathsApart
<1>1. OneOutstanding
  <2>1. CASE Len(bus) = 0
    BY <2>1 DEF OneOutstanding
  <2>2. CASE Len(bus) = 1
    BY <2>2 DEF OneOutstanding
  <2> QED
    BY <2>1, <2>2, BusShort
<1>2. PendingCounts
  BY DEF PortInv, PendingCounts
<1>3. BusServesOldest
  <2> SUFFICES ASSUME NEW i \in DOMAIN bus
               PROVE  /\ owed # <<>>
                      /\ Head(owed) = [path |-> bus[i].path, tag |-> bus[i].tag]
                      /\ selectQ <=> (bus[i].path = Cached)
    BY DEF BusServesOldest
  <2>0. bus \in Seq(Transactions) /\ selectQ \in BOOLEAN
    BY DEF PortInv, PortTypeOK, Transactions
  <2>1. Len(bus) = 1 /\ i = 1
    BY <2>0, BusShort
  <2>2. bus # <<>>
    BY <2>1
  <2>3. CASE CachesTurn
    <3>1. OnBus(Cached, core.tag) /\ selectQ /\ owed = <<[path |-> Cached, tag |-> core.tag]>>
      BY <2>2, <2>3 DEF CachesTurn
    <3> QED
      BY <2>1, <3>1 DEF OnBus
  <2>4. CASE UncachedsTurn
    <3>1. OnBus(Uncached, respFifo[1]) /\ ~selectQ
      BY <2>2, <2>4 DEF UncachedsTurn
    <3>2. owed # <<>> /\ Head(owed) = [path |-> Uncached, tag |-> respFifo[1]]
      <4>1. /\ owed \in Seq(Owed) /\ respFifo \in Seq(ReqTag)
            /\ Owes(owed, respFifo) /\ respFifo # <<>>
        BY <2>4 DEF PortInv, PortTypeOK, UncachedsTurn
      <4> QED
        BY <4>1, OwesTail, SeqFacts
    <3>3. Cached # Uncached
      BY DEF Cached, Uncached
    <3> QED
      BY <2>1, <3>1, <3>2, <3>3 DEF OnBus
  <2> QED
    BY <2>2, <2>3, <2>4 DEF PortInv, NobodysTurn
<1> QED
  BY <1>1, <1>2, <1>3 DEF PathsApart

(* The paths never mix, for every set of tags and every depth of the       *)
(* FIFOs: one transaction at a time is on the bus, that of the oldest      *)
(* request, the delayed selector of the answers points at the path that    *)
(* made it, and dcache_mux counts exactly (dcache_mux.v:136,               *)
(* dcache_pmem_mux.v:123).                                                 *)
THEOREM PathsApartCorrect == PortSpec => []PathsApart
  BY PortInvariantHolds, TurnsKeepApart, PTL

(* What a path acknowledges the CPU is told, in that cycle and with the    *)
(* tag of the oldest request it waits for (dcache_mux.v:118-123): for      *)
(* every set of tags and every depth of the FIFOs.                         *)
THEOREM AnswersToldCorrect == PortSpec => []AnswersTold
<1>1. PortInit => AnswersTold
  BY DEF PortInit, AnswersTold
<1>2. PortInv /\ AnswersTold /\ [PortNext]_portVars => AnswersTold'
  <2> SUFFICES ASSUME PortInv, AnswersTold, [PortNext]_portVars PROVE AnswersTold'
    OBVIOUS
  <2>1. CASE PortNext
    BY <2>1, PortClockKeeps DEF PortNext
  <2>2. CASE UNCHANGED portVars
    BY <2>2 DEF portVars, AnswersTold
  <2> QED
    BY <2>1, <2>2
<1> QED
  BY PortInvariantHolds, <1>1, <1>2, PTL DEF PortSpec
=============================================================================
