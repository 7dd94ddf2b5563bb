--------------------------- MODULE DCacheAxiProofs ---------------------------
(***************************************************************************)
(* Proofs about DCacheAxi, for every payload, every length of burst up to  *)
(* 256 beats and every depth of the FIFO: a beat on offer stays until it   *)
(* is taken; and nothing is lost: each channel carries each beat once, in  *)
(* order, and the responses are counted exactly.                           *)
(***************************************************************************)
EXTENDS DCacheAxi, FiniteSetTheorems, SequenceTheorems, TLAPS

(* The limit on outstanding bursts is kept although a burst is counted in  *)
(* the cycle its last beat leaves the FIFO.                                *)
IInv ==
  /\ TypeOK
  /\ outstanding \in 0 .. 2
  /\ sending \in 0 .. 255

-----------------------------------------------------------------------------
(* The wires.                                                              *)

LEMMA SeqFacts ==
  ASSUME NEW S, NEW q \in Seq(S), q # <<>>
  PROVE  /\ Len(q) \in Nat \ {0} /\ Head(q) \in S /\ Tail(q) \in Seq(S)
         /\ Len(Tail(q)) = Len(q) - 1
         /\ \A x : Head(Append(q, x)) = Head(q) /\ Append(q, x) # <<>>
  BY HeadTailProperties, AppendProperties

LEMMA Lens == Lengths \cup {0} \subseteq 0 .. 255
  BY AxiAssumption

(* The beat on offer, when there is one.                                   *)
LEMMA FreshType ==
  ASSUME IInv
  PROVE  /\ Fresh \in {{}} \cup {{b} : b \in WireBeat}
         /\ Fresh # {} => CanIssue
         /\ CanIssue => fifo # <<>> /\ Head(fifo) \in Beat /\ outstanding # 2
<1>1. CanIssue => fifo # <<>> /\ Head(fifo) \in Beat /\ outstanding # 2
  BY SeqFacts DEF CanIssue, IInv, TypeOK
<1>2. ASSUME CanIssue
      PROVE  [write |-> Head(fifo).write, len |-> Head(fifo).len,
              payload |-> Head(fifo).payload, last |-> LastBeat(Head(fifo))] \in WireBeat
  <2>1. LastBeat(Head(fifo)) \in BOOLEAN
    BY DEF LastBeat
  <2> QED
    BY <1>1, <1>2, <2>1 DEF Beat, WireBeat
<1> QED
  BY <1>1, <1>2 DEF Fresh

LEMMA OfferedType ==
  ASSUME IInv
  PROVE  /\ Offered \in {{}} \cup {{b} : b \in WireBeat}
         /\ skid = {} => Offered = Fresh
         /\ skid # {} => Offered = skid
  BY FreshType DEF Offered, IInv, TypeOK

LEMMA AcceptFresh ==
  ASSUME IInv, NEW s \in SlaveInputs, Accept(s)
  PROVE  CanIssue
<1>1. skid = {} /\ Offered # {}
  BY DEF Accept, AwGo, WGo, ArGo, Aw, W, Ar
<1> QED
  BY <1>1, FreshType, OfferedType

LEMMA TakenType ==
  ASSUME IInv, NEW in \in Offers
  PROVE  Taken(in) # {} => /\ FifoAccept /\ The(in) \in Beat
                           /\ sending > 0 => The(in).write /\ The(in).len = 0
<1>1. in = {} \/ \E b \in Beat : in = {b} /\ (sending > 0 => b.write /\ b.len = 0)
  <2>1. CASE sending > 0
    <3>1. in = {} \/ \E p \in Payload : in = {[write |-> TRUE, len |-> 0, payload |-> p]}
      BY <2>1 DEF Offers
    <3>2. \A p \in Payload : [write |-> TRUE, len |-> 0, payload |-> p] \in Beat
      BY DEF Beat
    <3> QED
      BY <3>1, <3>2
  <2>2. CASE ~(sending > 0)
    <3>1. in = {} \/ \E w \in BOOLEAN, l \in Lengths, p \in Payload :
                        in = {[write |-> w, len |-> l, payload |-> p]}
      BY <2>2 DEF Offers
    <3>2. \A w \in BOOLEAN, l \in Lengths, p \in Payload :
            [write |-> w, len |-> l, payload |-> p] \in Beat
      BY DEF Beat
    <3> QED
      BY <2>2, <3>1, <3>2
  <2> QED
    BY <2>1, <2>2
<1>2. \A b : The({b}) = b
  BY DEF The
<1>3. ASSUME Taken(in) # {} PROVE in # {} /\ FifoAccept
  BY <1>3 DEF Taken
<1>4. ASSUME NEW b \in Beat, in = {b}, sending > 0 => b.write /\ b.len = 0
      PROVE  The(in) \in Beat /\ (sending > 0 => The(in).write /\ The(in).len = 0)
  <2>1. The(in) = b
    BY <1>2, <1>4
  <2> QED
    BY <1>4, <2>1
<1> QED
  BY <1>1, <1>3, <1>4

-----------------------------------------------------------------------------
(* The invariant.                                                          *)

LEMMA InitInv == Init => IInv
<1> SUFFICES ASSUME Init PROVE IInv
  OBVIOUS
<1>1. fifo \in Seq(Beat) /\ Len(fifo) = 0 /\ FifoDepth \in Nat
  BY AxiAssumption DEF Init
<1>2. awDone \in BOOLEAN /\ wDone \in BOOLEAN /\ wLast \in BOOLEAN
  BY Zenon DEF Init
<1> QED
  BY <1>1, <1>2 DEF Init, IInv, TypeOK

LEMMA FifoStep ==
  ASSUME IInv, NEW in \in Offers, NEW s \in SlaveInputs, Clock(in, s)
  PROVE  fifo' \in Seq(Beat) /\ Len(fifo') <= FifoDepth
<1> DEFINE rest == IF Accept(s) THEN Tail(fifo) ELSE fifo
<1>1. fifo \in Seq(Beat) /\ Len(fifo) <= FifoDepth /\ Len(fifo) \in Nat /\ FifoDepth \in Nat
  BY AxiAssumption DEF IInv, TypeOK
<1>2. rest \in Seq(Beat) /\ Len(rest) <= Len(fifo) /\ Len(rest) \in Nat
  <2>1. CASE Accept(s)
    <3>1. fifo # <<>>
      BY <2>1, AcceptFresh DEF CanIssue
    <3> QED
      BY <1>1, <2>1, <3>1, SeqFacts
  <2>2. CASE ~Accept(s)
    BY <1>1, <2>2
  <2> QED
    BY <2>1, <2>2
<1>3. fifo' = IF Taken(in) = {} THEN rest ELSE Append(rest, The(in))
  BY DEF Clock, RequestFifo
<1> HIDE DEF rest
<1>4. CASE Taken(in) = {}
  BY <1>1, <1>2, <1>3, <1>4
<1>5. CASE Taken(in) # {}
  <2>1. Len(fifo) < FifoDepth
    BY <1>1, <1>5, TakenType DEF FifoAccept
  <2>2. The(in) \in Beat
    BY <1>5, TakenType
  <2> QED
    BY <1>1, <1>2, <1>3, <1>5, <2>1, <2>2, AppendProperties
<1> QED
  BY <1>4, <1>5

LEMMA TrackingStep ==
  ASSUME IInv, NEW in \in Offers, NEW s \in SlaveInputs, Clock(in, s)
  PROVE  reqCnt' \in 0 .. 255 /\ beatCnt' \in 0 .. 255 /\ outstanding' \in 0 .. 2
<1>1. reqCnt \in 0 .. 255 /\ beatCnt \in 0 .. 255 /\ outstanding \in 0 .. 2
  BY DEF IInv, TypeOK
<1>2. Accept(s) => Head(fifo).len \in 0 .. 255 /\ outstanding # 2
  BY AcceptFresh, FreshType, Lens DEF Beat
<1>3. reqCnt' \in 0 .. 255 /\ beatCnt' \in 0 .. 255
  BY <1>1, <1>2 DEF Clock, WriteTracking, WriteAccepted
<1>4. BurstIssued(s) => outstanding # 2
  BY <1>2 DEF BurstIssued
<1>5. outstanding' = (outstanding + Count(BurstIssued(s))
                        - Count(BurstAnswered(s) /\ outstanding # 0)) % 4
  BY DEF Clock, ResponseTracking
<1>6. /\ Count(BurstIssued(s)) = IF BurstIssued(s) THEN 1 ELSE 0
      /\ Count(BurstAnswered(s) /\ outstanding # 0)
           = IF BurstAnswered(s) /\ outstanding # 0 THEN 1 ELSE 0
  BY DEF Count
<1> QED
  BY <1>1, <1>3, <1>4, <1>5, <1>6

LEMMA ClockInv ==
  ASSUME IInv, NEW in \in Offers, NEW s \in SlaveInputs, Clock(in, s)
  PROVE  IInv'
<1>1. skid' \in {{}} \cup {{b} : b \in WireBeat}
  BY OfferedType DEF Clock, SkidBuffer
<1>2. awDone' \in BOOLEAN /\ wDone' \in BOOLEAN
  BY Zenon DEF Clock, ChannelTracking
<1>3. wLast' \in BOOLEAN
  <2>1. wLast \in BOOLEAN
    BY DEF IInv, TypeOK
  <2> QED
    BY <2>1, Zenon DEF Clock, ChannelTracking
<1>4. sending' \in 0 .. 255
  <2>1. sending \in 0 .. 255
    BY DEF IInv
  <2>2. Taken(in) # {} => The(in).len \in 0 .. 255
    BY TakenType, Lens DEF Beat
  <2> QED
    BY <2>1, <2>2 DEF Clock, CacheSide
<1>5. outstanding' \in 0 .. 3
  BY TrackingStep
<1> QED
  BY <1>1, <1>2, <1>3, <1>4, <1>5, FifoStep, TrackingStep DEF IInv, TypeOK

(* Every register keeps to its width and the FIFO to its depth, and never  *)
(* more than two bursts are outstanding (dcache_axi.v:151): the counter of *)
(* two bits cannot wrap.                                                   *)
THEOREM TypeCorrect == Spec => []IInv
<1>1. IInv /\ [Next]_vars => IInv'
  <2> SUFFICES ASSUME IInv, [Next]_vars PROVE IInv'
    OBVIOUS
  <2>1. CASE Next
    BY <2>1, ClockInv DEF Next
  <2>2. CASE UNCHANGED vars
    BY <2>2 DEF vars, IInv, TypeOK
  <2> QED
    BY <2>1, <2>2
<1> QED
  BY InitInv, <1>1, PTL DEF Spec

-----------------------------------------------------------------------------
(* What is offered stays offered.                                          *)

(* A beat of which nothing was taken is on offer again: from the head of   *)
(* the FIFO, with its place in its burst, or from the skid buffer.         *)
LEMMA StaysOffered ==
  ASSUME IInv, NEW in \in Offers, NEW s \in SlaveInputs, Clock(in, s), HalfLeft(s)
  PROVE  Offered' = Offered
<1>1. CASE Accept(s) \/ skid # {}
  <2>1. Offered # {}
    BY DEF HalfLeft, Aw, W, Ar
  <2>2. skid' = Offered
    BY <1>1 DEF Clock, SkidBuffer
  <2> QED
    BY <2>1, <2>2 DEF Offered
<1>2. CASE ~Accept(s) /\ skid = {}
  <2>1. Offered = Fresh /\ Fresh # {} /\ CanIssue
    BY <1>2, OfferedType, FreshType DEF HalfLeft, Aw, W, Ar
  <2>2. fifo \in Seq(Beat) /\ fifo # <<>> /\ outstanding \in 0 .. 2 /\ outstanding # 2
    BY <2>1, FreshType DEF IInv, TypeOK
  <2>3. fifo' = IF Taken(in) = {} THEN fifo ELSE Append(fifo, The(in))
    BY <1>2 DEF Clock, RequestFifo
  <2>4. Head(fifo') = Head(fifo) /\ fifo' # <<>>
    BY <2>2, <2>3, SeqFacts
  <2>5. beatCnt' = beatCnt
    BY <1>2 DEF Clock, WriteTracking, WriteAccepted
  <2>6. outstanding' \in {outstanding, outstanding - 1} /\ outstanding' # 2
    <3>1. outstanding' = (outstanding + Count(BurstIssued(s))
                            - Count(BurstAnswered(s) /\ outstanding # 0)) % 4
      BY DEF Clock, ResponseTracking
    <3>2. /\ Count(BurstIssued(s)) = 0
          /\ Count(BurstAnswered(s) /\ outstanding # 0) \in {0, 1}
          /\ outstanding = 0 => Count(BurstAnswered(s) /\ outstanding # 0) = 0
      BY <1>2 DEF Count, BurstIssued
    <3> QED
      BY <2>2, <3>1, <3>2
  <2>7. CanIssue' /\ skid' = {}
    BY <1>2, <2>4, <2>6 DEF CanIssue, Clock, SkidBuffer
  <2>8. LastBeat(Head(fifo))' <=> LastBeat(Head(fifo))
    BY <2>4, <2>5 DEF LastBeat
  <2>9. Fresh' = Fresh
    BY <2>1, <2>4, <2>5, <2>7 DEF Fresh, LastBeat
  <2> QED
    BY <2>1, <2>7, <2>9 DEF Offered
<1> QED
  BY <1>1, <1>2

LEMMA ClockHolds ==
  ASSUME IInv, NEW in \in Offers, NEW s \in SlaveInputs, Clock(in, s)
  PROVE  /\ AwGo(s) \/ Aw \subseteq Aw'
         /\ WGo(s) \/ W \subseteq W'
         /\ ArGo(s) \/ Ar \subseteq Ar'
<1>1. ASSUME ~AwGo(s), Aw # {} PROVE Aw \subseteq Aw'
  <2>1. HalfLeft(s) /\ ~awDone
    BY <1>1 DEF AwGo, HalfLeft, Aw
  <2>2. ~awDone'
    BY <1>1, <2>1, Zenon DEF Clock, ChannelTracking
  <2> QED
    BY <2>1, <2>2, StaysOffered DEF Aw
<1>2. ASSUME ~WGo(s), W # {} PROVE W \subseteq W'
  <2>1. HalfLeft(s) /\ ~wDone
    BY <1>2 DEF WGo, HalfLeft, W
  <2>2. ~wDone'
    BY <1>2, <2>1, Zenon DEF Clock, ChannelTracking
  <2> QED
    BY <2>1, <2>2, StaysOffered DEF W
<1>3. ASSUME ~ArGo(s), Ar # {} PROVE Ar \subseteq Ar'
  <2>1. HalfLeft(s)
    BY <1>3 DEF ArGo, HalfLeft
  <2> QED
    BY <2>1, StaysOffered DEF Ar
<1> QED
  BY <1>1, <1>2, <1>3

LEMMA DoneSays ==
  ASSUME NEW in \in Offers, NEW s \in SlaveInputs, Clock(in, s)
  PROVE  /\ AwGo(s) => "aw" \in due'.done
         /\ WGo(s)  => "w"  \in due'.done
         /\ ArGo(s) => "ar" \in due'.done
<1> DEFINE on == {k \in {"aw", "w", "ar", "answer"} :
                    \/ k = "aw" /\ AwGo(s)
                    \/ k = "w"  /\ WGo(s)
                    \/ k = "ar" /\ ArGo(s)
                    \/ k = "answer" /\ BurstAnswered(s)}
<1>1. due'.done = on
  BY DEF Clock, History
<1> QED
  BY <1>1

(* AXI's rule for a valid channel (dcache_axi_axi.v:127): what is on it    *)
(* stays, unchanged, until the slave takes it, for every length of burst,  *)
(* whichever half of a beat went first.                                    *)
THEOREM HeldUntilTakenCorrect == Spec => HeldUntilTaken
<1> DEFINE Held == /\ "aw" \in due'.done \/ Aw \subseteq Aw'
                   /\ "w"  \in due'.done \/ W  \subseteq W'
                   /\ "ar" \in due'.done \/ Ar \subseteq Ar'
<1>1. IInv /\ [Next]_vars => [Held]_vars
  <2> SUFFICES ASSUME IInv, Next PROVE Held
    OBVIOUS
  <2>1. PICK in \in Offers, s \in SlaveInputs : Clock(in, s)
    BY DEF Next
  <2> QED
    BY <2>1, ClockHolds, DoneSays
<1> QED
  BY TypeCorrect, <1>1, PTL DEF Spec, HeldUntilTaken

-----------------------------------------------------------------------------
(* What waits in the FIFO, and what the channels therefore still owe.      *)

(* r[i]: how many beats of its burst come after the i-th in the FIFO,      *)
(* r[0] being how many come after what has left it.                        *)
Ranks(q, r, first, last) ==
  /\ r \in [0 .. Len(q) -> 0 .. 255] /\ r[0] = first /\ r[Len(q)] = last
  /\ \A i \in 1 .. Len(q) :
       /\ q[i].write
       /\ r[i - 1] > 0 => q[i].len = 0
       /\ r[i] = IF r[i - 1] > 0 THEN r[i - 1] - 1 ELSE q[i].len

(* What the data and the address channel owe for a beat, r beats of its    *)
(* burst coming after it.                                                  *)
Datum(b, r) == <<b.payload, r = 0>>
Command(b)  == <<b.payload, b.len>>

Zero(x) == IF x = 0 THEN 1 ELSE 0

(* The data channel still has to carry k beats that have left the FIFO and *)
(* all that are in it.                                                     *)
DataDue(q, r, d, k) ==
  /\ Len(d) = Len(q) + k
  /\ \A i \in 1 .. Len(q) : d[i + k] = Datum(q[i], r[i])

(* The address channel still has to carry k addresses that have left the   *)
(* FIFO and that of every first beat in it; c[i]: how many up to the i-th. *)
AddressDue(q, r, c, d, k) ==
  /\ c \in [0 .. Len(q) -> Nat] /\ c[0] = k /\ c[Len(q)] = Len(d)
  /\ \A i, j \in 0 .. Len(q) : i <= j => c[i] <= c[j]
  /\ \A i \in 1 .. Len(q) :
       /\ c[i] = c[i - 1] + Zero(r[i - 1])
       /\ r[i - 1] = 0 => d[c[i]] = Command(q[i])

(* The last beats of bursts. *)
Ends(q, r) == {i \in 1 .. Len(q) : r[i] = 0}

(* The FIFO q holds the last beats of n bursts; f beats of a burst come    *)
(* after what has left it, and l are still to enter it; the data channel   *)
(* owes dw, of which wk beats have left the FIFO, and the address channel  *)
(* da, of which ak.                                                        *)
Queued(q, n, f, l, dw, wk, da, ak) ==
  \E r \in [0 .. Len(q) -> 0 .. 255], c \in [0 .. Len(q) -> Nat] :
    /\ Ranks(q, r, f, l)
    /\ DataDue(q, r, dw, wk)
    /\ AddressDue(q, r, c, da, ak)
    /\ n = Cardinality(Ends(q, r))

Data == Payload \X BOOLEAN
Cmd  == Payload \X (Lengths \cup {0})

LEMMA EndsFinite ==
  ASSUME NEW q \in Seq(Beat), NEW r
  PROVE  IsFiniteSet(Ends(q, r)) /\ Cardinality(Ends(q, r)) \in Nat
<1>1. IsFiniteSet(1 .. Len(q))
  BY FS_Interval
<1>2. Ends(q, r) \in SUBSET (1 .. Len(q))
  BY DEF Ends
<1> QED
  BY <1>1, <1>2, FS_Subset, FS_CardinalityType

-----------------------------------------------------------------------------
(* The head leaves.                                                        *)

LEMMA RanksPop ==
  ASSUME NEW q \in Seq(Beat), q # <<>>, NEW r, NEW f, NEW l, Ranks(q, r, f, l)
  PROVE  Ranks(Tail(q), [i \in 0 .. Len(q) - 1 |-> r[i + 1]], r[1], l)
<1> DEFINE t == [i \in 0 .. Len(q) - 1 |-> r[i + 1]]
<1>1. Len(q) \in Nat \ {0} /\ Len(Tail(q)) = Len(q) - 1
      /\ \A i \in 1 .. Len(q) - 1 : Tail(q)[i] = q[i + 1]
  BY HeadTailProperties, SeqFacts
<1>2. r \in [0 .. Len(q) -> 0 .. 255] /\ r[Len(q)] = l
  BY DEF Ranks
<1>3. t \in [0 .. Len(Tail(q)) -> 0 .. 255] /\ t[0] = r[1] /\ t[Len(Tail(q))] = l
  <2>1. \A i \in 0 .. Len(q) - 1 : i + 1 \in 0 .. Len(q)
    BY <1>1
  <2>2. \A i \in 0 .. Len(q) - 1 : t[i] \in 0 .. 255
    BY <1>2, <2>1
  <2>3. 0 \in 0 .. Len(q) - 1 /\ Len(q) - 1 \in 0 .. Len(q) - 1
    BY <1>1
  <2>4. t[0] = r[1] /\ t[Len(q) - 1] = l
    BY <1>1, <1>2, <2>3
  <2> QED
    BY <1>1, <2>2, <2>4
<1>4. ASSUME NEW i \in 1 .. Len(Tail(q))
      PROVE  /\ Tail(q)[i].write
             /\ t[i - 1] > 0 => Tail(q)[i].len = 0
             /\ t[i] = IF t[i - 1] > 0 THEN t[i - 1] - 1 ELSE Tail(q)[i].len
  <2>1. i \in Int /\ i + 1 \in 1 .. Len(q) /\ Tail(q)[i] = q[i + 1] /\ i + 1 - 1 = i
    BY <1>1
  <2>2. t[i] = r[i + 1] /\ t[i - 1] = r[i]
    BY <1>1
  <2>3. /\ q[i + 1].write
        /\ r[i + 1 - 1] > 0 => q[i + 1].len = 0
        /\ r[i + 1] = IF r[i + 1 - 1] > 0 THEN r[i + 1 - 1] - 1 ELSE q[i + 1].len
    BY <2>1 DEF Ranks
  <2> QED
    BY <2>1, <2>2, <2>3
<1> HIDE DEF t
<1>5. Ranks(Tail(q), t, r[1], l)
  BY <1>3, <1>4 DEF Ranks
<1> QED
  BY <1>5 DEF t

LEMMA DataPop ==
  ASSUME NEW q \in Seq(Beat), q # <<>>, NEW r, NEW d, NEW k \in Nat, DataDue(q, r, d, k)
  PROVE  DataDue(Tail(q), [i \in 0 .. Len(q) - 1 |-> r[i + 1]], d, k + 1)
<1> DEFINE t == [i \in 0 .. Len(q) - 1 |-> r[i + 1]]
<1>1. Len(q) \in Nat \ {0} /\ Len(Tail(q)) = Len(q) - 1
      /\ \A i \in 1 .. Len(q) - 1 : Tail(q)[i] = q[i + 1]
  BY HeadTailProperties, SeqFacts
<1>2. ASSUME NEW i \in 1 .. Len(Tail(q))
      PROVE  d[i + (k + 1)] = Datum(Tail(q)[i], t[i])
  <2>1. i + 1 \in 1 .. Len(q) /\ Tail(q)[i] = q[i + 1] /\ i + (k + 1) = (i + 1) + k
    BY <1>1
  <2>2. t[i] = r[i + 1]
    BY <1>1
  <2>3. d[(i + 1) + k] = Datum(q[i + 1], r[i + 1])
    BY <2>1 DEF DataDue
  <2> QED
    BY <2>1, <2>2, <2>3
<1>3. Len(d) = Len(Tail(q)) + (k + 1)
  BY <1>1 DEF DataDue
<1> QED
  BY <1>2, <1>3 DEF DataDue

LEMMA AddressPop ==
  ASSUME NEW q \in Seq(Beat), q # <<>>, NEW r, NEW c, NEW d, NEW k, AddressDue(q, r, c, d, k)
  PROVE  AddressDue(Tail(q), [i \in 0 .. Len(q) - 1 |-> r[i + 1]],
                    [i \in 0 .. Len(q) - 1 |-> c[i + 1]], d, c[1])
<1> DEFINE t == [i \in 0 .. Len(q) - 1 |-> r[i + 1]]
           e == [i \in 0 .. Len(q) - 1 |-> c[i + 1]]
<1>1. Len(q) \in Nat \ {0} /\ Len(Tail(q)) = Len(q) - 1
      /\ \A i \in 1 .. Len(q) - 1 : Tail(q)[i] = q[i + 1]
  BY HeadTailProperties, SeqFacts
<1>2. c \in [0 .. Len(q) -> Nat] /\ c[Len(q)] = Len(d)
  BY DEF AddressDue
<1>3. e \in [0 .. Len(Tail(q)) -> Nat] /\ e[0] = c[1] /\ e[Len(Tail(q))] = Len(d)
  BY <1>1, <1>2
<1>4. ASSUME NEW i \in 0 .. Len(Tail(q)), NEW j \in 0 .. Len(Tail(q)), i <= j
      PROVE  e[i] <= e[j]
  <2>1. i + 1 \in 0 .. Len(q) /\ j + 1 \in 0 .. Len(q) /\ i + 1 <= j + 1
    BY <1>1, <1>4
  <2>2. c[i + 1] <= c[j + 1]
    BY <2>1 DEF AddressDue
  <2> QED
    BY <1>1, <2>2
<1>5. ASSUME NEW i \in 1 .. Len(Tail(q))
      PROVE  /\ e[i] = e[i - 1] + Zero(t[i - 1])
             /\ t[i - 1] = 0 => d[e[i]] = Command(Tail(q)[i])
  <2>1. i + 1 \in 1 .. Len(q) /\ Tail(q)[i] = q[i + 1] /\ i + 1 - 1 = i
    BY <1>1
  <2>2. t[i - 1] = r[i] /\ e[i] = c[i + 1] /\ e[i - 1] = c[i]
    BY <1>1
  <2>3. /\ c[i + 1] = c[i + 1 - 1] + Zero(r[i + 1 - 1])
        /\ r[i + 1 - 1] = 0 => d[c[i + 1]] = Command(q[i + 1])
    BY <2>1 DEF AddressDue
  <2> QED
    BY <2>1, <2>2, <2>3
<1> HIDE DEF t, e
<1>6. AddressDue(Tail(q), t, e, d, c[1])
  BY <1>3, <1>4, <1>5 DEF AddressDue
<1> QED
  BY <1>6 DEF t, e

LEMMA EndsPop ==
  ASSUME NEW q \in Seq(Beat), q # <<>>, NEW r
  PROVE  Cardinality(Ends(Tail(q), [i \in 0 .. Len(q) - 1 |-> r[i + 1]]))
           = Cardinality(Ends(q, r)) - Zero(r[1])
<1> DEFINE t == [i \in 0 .. Len(q) - 1 |-> r[i + 1]]
           S == Ends(Tail(q), t)
           T == Ends(q, r) \ {1}
           f == [i \in S |-> i + 1]
<1>1. Len(q) \in Nat \ {0} /\ Len(Tail(q)) = Len(q) - 1
  BY SeqFacts
<1>2. \A i : i \in S <=> i \in 1 .. Len(q) - 1 /\ r[i + 1] = 0
  BY <1>1 DEF Ends
<1>3. \A i : i \in T <=> i \in 2 .. Len(q) /\ r[i] = 0
  BY <1>1 DEF Ends
<1> HIDE DEF S, T
<1>4. f \in [S -> T]
  BY <1>1, <1>2, <1>3
<1>5. \A a, b \in S : f[a] = f[b] => a = b
  BY <1>2
<1>6. \A x \in T : \E a \in S : f[a] = x
  <2> SUFFICES ASSUME NEW x \in T PROVE \E a \in S : f[a] = x
    OBVIOUS
  <2>1. x \in 2 .. Len(q) /\ r[x] = 0
    BY <1>3
  <2>2. x - 1 \in 1 .. Len(q) - 1 /\ x - 1 + 1 = x
    BY <1>1, <2>1
  <2>3. x - 1 \in S
    BY <1>2, <2>1, <2>2
  <2> QED
    BY <2>2, <2>3
<1> HIDE DEF f
<1>7. f \in Bijection(S, T)
  BY <1>4, <1>5, <1>6 DEF Bijection, Injection, Surjection, IsInjective
<1>8. IsFiniteSet(S)
  <2>1. Tail(q) \in Seq(Beat)
    BY SeqFacts
  <2> QED
    BY <2>1, EndsFinite DEF S
<1>9. Cardinality(T) = Cardinality(S)
  BY <1>7, <1>8, FS_Bijection DEF ExistsBijection
<1>10. Cardinality(T) = IF 1 \in Ends(q, r) THEN Cardinality(Ends(q, r)) - 1
                        ELSE Cardinality(Ends(q, r))
  BY EndsFinite, FS_RemoveElement DEF T
<1>11. 1 \in Ends(q, r) <=> r[1] = 0
  BY <1>1 DEF Ends
<1>12. Cardinality(Ends(q, r)) \in Nat
  BY EndsFinite
<1>13. Cardinality(S) = Cardinality(Ends(q, r)) - Zero(r[1])
  BY <1>9, <1>10, <1>11, <1>12 DEF Zero
<1> QED
  BY <1>13 DEF S

(* How many beats of its burst come after a beat that leaves, f being how  *)
(* many came after the one before it.                                      *)
After(b, f) == IF f > 0 THEN f - 1 ELSE b.len

(* What leaves the FIFO is what the channels have to carry next.           *)
LEMMA QueuedPop ==
  ASSUME NEW q \in Seq(Beat), q # <<>>, NEW n, NEW f, NEW l, NEW dw, NEW da,
         Queued(q, n, f, l, dw, 0, da, 0)
  PROVE  /\ Head(q).write /\ (f > 0 => Head(q).len = 0) /\ After(Head(q), f) \in Nat
         /\ dw[1] = Datum(Head(q), After(Head(q), f))
         /\ f = 0 => da[1] = Command(Head(q))
         /\ Queued(Tail(q), n - Zero(After(Head(q), f)), After(Head(q), f), l,
                   dw, 1, da, Zero(f))
<1>0. PICK g : g = After(Head(q), f)
  OBVIOUS
<1>1. PICK r \in [0 .. Len(q) -> 0 .. 255], c \in [0 .. Len(q) -> Nat] :
        /\ Ranks(q, r, f, l) /\ DataDue(q, r, dw, 0) /\ AddressDue(q, r, c, da, 0)
        /\ n = Cardinality(Ends(q, r))
  BY DEF Queued
<1>2. Len(q) \in Nat \ {0} /\ Len(Tail(q)) = Len(q) - 1 /\ Head(q) = q[1] /\ 1 \in 1 .. Len(q)
  BY SeqFacts
<1>3. 0 \in 0 .. Len(q) /\ 1 \in 0 .. Len(q) /\ 1 - 1 = 0
  BY <1>2
<1>4. r[0] = f /\ Head(q).write /\ (f > 0 => Head(q).len = 0) /\ r[1] = g
  BY <1>0, <1>1, <1>2, <1>3 DEF Ranks, After
<1>5. g \in Nat
  <2>1. r[1] \in 0 .. 255
    BY <1>3
  <2>2. g \in 0 .. 255
    BY <1>4, <2>1
  <2> QED
    BY <2>2
<1>6. dw[1] = Datum(Head(q), g)
  <2>1. dw[1 + 0] = Datum(q[1], r[1])
    BY <1>1, <1>2 DEF DataDue
  <2>2. 1 + 0 = 1
    OBVIOUS
  <2> QED
    BY <1>2, <1>4, <2>1, <2>2
<1>7. c[1] = Zero(f) /\ (f = 0 => da[1] = Command(Head(q)))
  <2>1. c[1] = 0 + Zero(f) /\ (f = 0 => da[c[1]] = Command(Head(q)))
    BY <1>1, <1>2, <1>3, <1>4 DEF AddressDue
  <2>2. 0 + Zero(f) = Zero(f) /\ (f = 0 => Zero(f) = 1)
    BY DEF Zero
  <2> QED
    BY <2>1, <2>2
<1> DEFINE t == [i \in 0 .. Len(q) - 1 |-> r[i + 1]]
           e == [i \in 0 .. Len(q) - 1 |-> c[i + 1]]
<1>8. Ranks(Tail(q), t, g, l)
  BY <1>1, <1>4, RanksPop
<1>9. DataDue(Tail(q), t, dw, 1)
  <2>1. DataDue(Tail(q), t, dw, 0 + 1)
    BY <1>1, DataPop
  <2>2. 0 + 1 = 1
    OBVIOUS
  <2> QED
    BY <2>1, <2>2
<1>10. AddressDue(Tail(q), t, e, da, Zero(f))
  BY <1>1, <1>7, AddressPop
<1>11. Cardinality(Ends(Tail(q), t)) = n - Zero(g)
  BY <1>1, <1>4, EndsPop
<1> HIDE DEF t, e
<1>12. t \in [0 .. Len(Tail(q)) -> 0 .. 255] /\ e \in [0 .. Len(Tail(q)) -> Nat]
  BY <1>8, <1>10 DEF Ranks, AddressDue
<1>13. Queued(Tail(q), n - Zero(g), g, l, dw, 1, da, Zero(f))
  BY <1>8, <1>9, <1>10, <1>11, <1>12 DEF Queued
<1> QED
  BY <1>0, <1>4, <1>5, <1>6, <1>7, <1>13

-----------------------------------------------------------------------------
(* A channel carries what has left the FIFO.                               *)

LEMMA QueuedDataTaken ==
  ASSUME NEW q \in Seq(Beat), NEW n, NEW f, NEW l,
         NEW dw \in Seq(Data), NEW da, NEW ak,
         Queued(q, n, f, l, dw, 1, da, ak)
  PROVE  /\ dw # <<>> /\ Head(dw) = dw[1] /\ Tail(dw) \in Seq(Data)
         /\ Queued(q, n, f, l, Tail(dw), 0, da, ak)
<1>1. PICK r \in [0 .. Len(q) -> 0 .. 255], c \in [0 .. Len(q) -> Nat] :
        /\ Ranks(q, r, f, l) /\ DataDue(q, r, dw, 1) /\ AddressDue(q, r, c, da, ak)
        /\ n = Cardinality(Ends(q, r))
  BY DEF Queued
<1>2. Len(dw) = Len(q) + 1 /\ Len(q) \in Nat
  BY <1>1 DEF DataDue
<1>3. dw # <<>> /\ Head(dw) = dw[1] /\ Tail(dw) \in Seq(Data)
  BY <1>2, SeqFacts
<1>4. Len(Tail(dw)) = Len(q) + 0 /\ \A i \in 1 .. Len(q) : Tail(dw)[i] = dw[i + 1]
  BY <1>2, <1>3, HeadTailProperties
<1>5. DataDue(q, r, Tail(dw), 0)
  <2>1. ASSUME NEW i \in 1 .. Len(q)
        PROVE  Tail(dw)[i + 0] = Datum(q[i], r[i])
    <3>1. i + 0 = i /\ Tail(dw)[i] = dw[i + 1]
      BY <1>4
    <3> QED
      BY <1>1, <3>1 DEF DataDue
  <2> QED
    BY <1>4, <2>1 DEF DataDue
<1>6. Queued(q, n, f, l, Tail(dw), 0, da, ak)
  BY <1>1, <1>5 DEF Queued
<1> QED
  BY <1>3, <1>6

LEMMA QueuedAddressTaken ==
  ASSUME NEW q \in Seq(Beat), NEW n, NEW f, NEW l,
         NEW dw, NEW wk, NEW da \in Seq(Cmd),
         Queued(q, n, f, l, dw, wk, da, 1)
  PROVE  /\ da # <<>> /\ Head(da) = da[1] /\ Tail(da) \in Seq(Cmd)
         /\ Queued(q, n, f, l, dw, wk, Tail(da), 0)
<1>1. PICK r \in [0 .. Len(q) -> 0 .. 255], c \in [0 .. Len(q) -> Nat] :
        /\ Ranks(q, r, f, l) /\ DataDue(q, r, dw, wk) /\ AddressDue(q, r, c, da, 1)
        /\ n = Cardinality(Ends(q, r))
  BY DEF Queued
<1> DEFINE e == [i \in 0 .. Len(q) |-> c[i] - 1]
<1>2. /\ Len(q) \in Nat /\ Len(da) \in Nat
      /\ 0 \in 0 .. Len(q) /\ Len(q) \in 0 .. Len(q)
      /\ c[0] = 1 /\ c[Len(q)] = Len(da)
  BY <1>1 DEF AddressDue
<1>3. \A i \in 0 .. Len(q) : c[i] \in Nat /\ 1 <= c[i] /\ c[i] <= Len(da)
  <2> SUFFICES ASSUME NEW i \in 0 .. Len(q)
               PROVE  c[i] \in Nat /\ 1 <= c[i] /\ c[i] <= Len(da)
    OBVIOUS
  <2>1. 0 <= i /\ i <= Len(q)
    BY <1>2
  <2>2. c[0] <= c[i] /\ c[i] <= c[Len(q)]
    BY <1>1, <1>2, <2>1 DEF AddressDue
  <2> QED
    BY <1>1, <1>2, <2>2
<1>4. da # <<>> /\ Head(da) = da[1] /\ Tail(da) \in Seq(Cmd)
  BY <1>2, <1>3, SeqFacts
<1>5. Len(Tail(da)) = Len(da) - 1 /\ \A i \in 1 .. Len(da) - 1 : Tail(da)[i] = da[i + 1]
  BY <1>4, HeadTailProperties
<1>6. e \in [0 .. Len(q) -> Nat] /\ e[0] = 0 /\ e[Len(q)] = Len(Tail(da))
  BY <1>2, <1>3, <1>5
<1>7. ASSUME NEW i \in 0 .. Len(q), NEW j \in 0 .. Len(q), i <= j
      PROVE  e[i] <= e[j]
  <2>1. c[i] <= c[j]
    BY <1>1, <1>7 DEF AddressDue
  <2> QED
    BY <1>3, <2>1
<1>8. ASSUME NEW i \in 1 .. Len(q)
      PROVE  /\ e[i] = e[i - 1] + Zero(r[i - 1])
             /\ r[i - 1] = 0 => Tail(da)[e[i]] = Command(q[i])
  <2>1. i \in 0 .. Len(q) /\ i - 1 \in 0 .. Len(q)
    BY <1>2
  <2>2. /\ c[i] = c[i - 1] + Zero(r[i - 1])
        /\ r[i - 1] = 0 => da[c[i]] = Command(q[i])
    BY <1>1 DEF AddressDue
  <2>3. e[i] = c[i] - 1 /\ e[i - 1] = c[i - 1] - 1
    BY <2>1
  <2>4. Zero(r[i - 1]) \in {0, 1} /\ (r[i - 1] = 0 => Zero(r[i - 1]) = 1)
    BY DEF Zero
  <2>5. e[i] = e[i - 1] + Zero(r[i - 1])
    <3>1. c[i] \in Nat /\ c[i - 1] \in Nat /\ Zero(r[i - 1]) \in {0, 1}
      BY <1>3, <2>1, <2>4
    <3>2. c[i] - 1 = (c[i - 1] - 1) + Zero(r[i - 1])
      BY <2>2, <3>1
    <3> QED
      BY <2>3, <3>2
  <2>6. ASSUME r[i - 1] = 0 PROVE Tail(da)[e[i]] = da[c[i]]
    <3>1. e[i] \in 1 .. Len(da) - 1 /\ e[i] + 1 = c[i]
      BY <1>2, <1>3, <2>1, <2>2, <2>3, <2>4, <2>6
    <3> QED
      BY <1>5, <3>1
  <2> QED
    BY <2>2, <2>5, <2>6
<1> HIDE DEF e
<1>9. AddressDue(q, r, e, Tail(da), 0)
  BY <1>6, <1>7, <1>8 DEF AddressDue
<1>10. Queued(q, n, f, l, dw, wk, Tail(da), 0)
  BY <1>1, <1>6, <1>9 DEF Queued
<1> QED
  BY <1>4, <1>10

-----------------------------------------------------------------------------
(* A beat enters the FIFO.                                                 *)

Longer(q, r, m) == [i \in 0 .. Len(q) + 1 |-> IF i <= Len(q) THEN r[i] ELSE m]

LEMMA RanksAppend ==
  ASSUME NEW q \in Seq(Beat), NEW b \in Beat, b.write, NEW r, NEW f, NEW l, Ranks(q, r, f, l),
         l > 0 => b.len = 0,
         NEW m, m = IF l > 0 THEN l - 1 ELSE b.len
  PROVE  /\ l \in 0 .. 255 /\ m \in 0 .. 255
         /\ Ranks(Append(q, b), Longer(q, r, m), f, m)
<1> DEFINE u == Longer(q, r, m)
           p == Append(q, b)
<1> USE DEF Longer
<1>1. /\ Len(q) \in Nat /\ Len(p) = Len(q) + 1
      /\ \A i \in 1 .. Len(q) : p[i] = q[i]
      /\ p[Len(q) + 1] = b
  BY AppendProperties
<1>2. r \in [0 .. Len(q) -> 0 .. 255] /\ r[0] = f /\ r[Len(q)] = l
  BY DEF Ranks
<1>3. l \in 0 .. 255 /\ m \in 0 .. 255
  <2>1. Len(q) \in 0 .. Len(q)
    BY <1>1
  <2>2. r[Len(q)] \in 0 .. 255
    BY <1>2, <2>1
  <2>3. b.len \in 0 .. 255
    BY Lens DEF Beat
  <2> QED
    BY <1>2, <2>2, <2>3
<1>4. \A i \in 0 .. Len(q) : u[i] = r[i]
  BY <1>1
<1>5. u[Len(q) + 1] = m
  BY <1>1
<1>6. u \in [0 .. Len(p) -> 0 .. 255]
  <2>1. \A i \in 0 .. Len(q) + 1 : (IF i <= Len(q) THEN r[i] ELSE m) \in 0 .. 255
    <3>1. \A i \in 0 .. Len(q) : r[i] \in 0 .. 255
      BY <1>2
    <3> QED
      BY <1>1, <1>3, <3>1
  <2> QED
    BY <1>1, <2>1
<1>7. u[0] = f /\ u[Len(p)] = m
  BY <1>1, <1>2, <1>4, <1>5
<1> HIDE DEF u, p
<1>8. ASSUME NEW i \in 1 .. Len(p)
      PROVE  /\ p[i].write
             /\ u[i - 1] > 0 => p[i].len = 0
             /\ u[i] = IF u[i - 1] > 0 THEN u[i - 1] - 1 ELSE p[i].len
  <2>1. CASE i \in 1 .. Len(q)
    <3>1. u[i] = r[i] /\ u[i - 1] = r[i - 1] /\ p[i] = q[i]
      BY <1>1, <1>4, <2>1
    <3>2. /\ q[i].write
          /\ r[i - 1] > 0 => q[i].len = 0
          /\ r[i] = IF r[i - 1] > 0 THEN r[i - 1] - 1 ELSE q[i].len
      BY <2>1 DEF Ranks
    <3> QED
      BY <3>1, <3>2
  <2>2. CASE i = Len(q) + 1
    <3>1. i - 1 = Len(q) /\ Len(q) \in 0 .. Len(q)
      BY <1>1, <2>2
    <3>2. u[i - 1] = l /\ u[i] = m /\ p[i] = b
      BY <1>1, <1>2, <1>4, <1>5, <2>2, <3>1
    <3> QED
      BY <3>2
  <2> QED
    BY <1>1, <2>1, <2>2
<1>9. Ranks(p, u, f, m)
  BY <1>6, <1>7, <1>8 DEF Ranks
<1> QED
  BY <1>3, <1>9 DEF u, p

LEMMA DataAppend ==
  ASSUME NEW q \in Seq(Beat), NEW b \in Beat, NEW r, NEW m, NEW d \in Seq(Data), NEW k \in Nat,
         DataDue(q, r, d, k)
  PROVE  DataDue(Append(q, b), Longer(q, r, m),
                 Append(d, Datum(b, m)), k)
<1> DEFINE u == Longer(q, r, m)
           p == Append(q, b)
           y == Datum(b, m)
           x == Append(d, y)
<1> USE DEF Longer
<1>1. /\ Len(q) \in Nat /\ Len(p) = Len(q) + 1
      /\ \A i \in 1 .. Len(q) : p[i] = q[i]
      /\ p[Len(q) + 1] = b
  BY AppendProperties
<1>2. y \in Data
  BY DEF Data, Beat, Datum
<1>3. /\ Len(d) \in Nat /\ Len(x) = Len(d) + 1
      /\ \A i \in 1 .. Len(d) : x[i] = d[i]
      /\ x[Len(d) + 1] = y
  BY <1>2, AppendProperties
<1>4. Len(d) = Len(q) + k
  BY DEF DataDue
<1>5. (\A i \in 1 .. Len(q) : u[i] = r[i]) /\ u[Len(q) + 1] = m
  BY <1>1
<1>6. y = Datum(b, m)
  OBVIOUS
<1> HIDE DEF u, p, x, y
<1>7. ASSUME NEW i \in 1 .. Len(p)
      PROVE  x[i + k] = Datum(p[i], u[i])
  <2>1. CASE i \in 1 .. Len(q)
    <3>1. u[i] = r[i] /\ p[i] = q[i]
      BY <1>1, <1>5, <2>1
    <3>2. x[i + k] = d[i + k]
      BY <1>1, <1>3, <1>4, <2>1
    <3>3. d[i + k] = Datum(q[i], r[i])
      BY <2>1 DEF DataDue
    <3> QED
      BY <3>1, <3>2, <3>3
  <2>2. CASE i = Len(q) + 1
    <3>1. i + k = Len(d) + 1
      BY <1>1, <1>4, <2>2
    <3> QED
      BY <1>1, <1>3, <1>5, <1>6, <2>2, <3>1
  <2> QED
    BY <1>1, <2>1, <2>2
<1>8. Len(x) = Len(p) + k
  BY <1>1, <1>3, <1>4
<1>9. DataDue(p, u, x, k)
  BY <1>7, <1>8 DEF DataDue
<1> QED
  BY <1>9 DEF u, p, x, y

LEMMA AddressAppend ==
  ASSUME NEW q \in Seq(Beat), NEW b \in Beat, NEW r, NEW c, NEW m, NEW l, r[Len(q)] = l,
         NEW d \in Seq(Cmd), NEW k, AddressDue(q, r, c, d, k)
  PROVE  AddressDue(Append(q, b), Longer(q, r, m),
                    Longer(q, c, c[Len(q)] + Zero(l)),
                    Push(d, Command(b), l = 0), k)
<1> DEFINE u == Longer(q, r, m)
           e == Longer(q, c, c[Len(q)] + Zero(l))
           p == Append(q, b)
           y == Command(b)
           x == Push(d, y, l = 0)
<1> USE DEF Longer
<1>1. /\ Len(q) \in Nat /\ Len(p) = Len(q) + 1
      /\ \A i \in 1 .. Len(q) : p[i] = q[i]
      /\ p[Len(q) + 1] = b
  BY AppendProperties
<1>2. y \in Cmd
  BY DEF Cmd, Beat, Command
<1>3. Zero(l) \in {0, 1} /\ (l = 0 => Zero(l) = 1) /\ (l # 0 => Zero(l) = 0)
  BY DEF Zero
<1>4. /\ Len(d) \in Nat /\ Len(x) = Len(d) + Zero(l)
      /\ \A i \in 1 .. Len(d) : x[i] = d[i]
      /\ l = 0 => x[Len(d) + 1] = y
  <2>1. CASE l = 0
    BY <1>2, <1>3, <2>1, AppendProperties DEF Push
  <2>2. CASE l # 0
    BY <1>3, <2>2 DEF Push
  <2> QED
    BY <2>1, <2>2
<1>5. c \in [0 .. Len(q) -> Nat] /\ c[0] = k /\ c[Len(q)] = Len(d)
  BY DEF AddressDue
<1>6. \A i \in 0 .. Len(q) : u[i] = r[i] /\ e[i] = c[i]
  BY <1>1
<1>7. e[Len(q) + 1] = Len(d) + Zero(l)
  BY <1>1, <1>5
<1>8. e \in [0 .. Len(p) -> Nat] /\ e[0] = k /\ e[Len(p)] = Len(x)
  <2>1. \A i \in 0 .. Len(q) : c[i] \in Nat
    BY <1>5
  <2>2. Len(d) + Zero(l) \in Nat
    BY <1>3, <1>4
  <2>3. \A i \in 0 .. Len(q) + 1 :
          (IF i <= Len(q) THEN c[i] ELSE c[Len(q)] + Zero(l)) \in Nat
    BY <1>1, <1>5, <2>1, <2>2
  <2>4. e[0] = c[0]
    BY <1>1, <1>6
  <2> QED
    BY <1>1, <1>4, <1>5, <1>7, <2>3, <2>4
<1>9. y = Command(b)
  OBVIOUS
<1> HIDE DEF u, e, p, x, y
<1>10. \A i, j \in 0 .. Len(q) : i <= j => c[i] <= c[j]
  BY DEF AddressDue
<1>11. ASSUME NEW i \in 0 .. Len(p), NEW j \in 0 .. Len(p), i <= j
       PROVE  e[i] <= e[j]
  <2>1. CASE j \in 0 .. Len(q)
    <3>1. i \in 0 .. Len(q)
      BY <1>1, <1>11, <2>1
    <3> QED
      BY <1>6, <1>10, <1>11, <2>1, <3>1
  <2>2. CASE j = Len(q) + 1 /\ i \in 0 .. Len(q)
    <3>1. Len(q) \in 0 .. Len(q) /\ i <= Len(q)
      BY <1>1, <2>2
    <3>2. c[i] <= c[Len(q)] /\ c[i] \in Nat
      BY <1>5, <1>10, <2>2, <3>1
    <3>3. e[i] = c[i] /\ e[j] = Len(d) + Zero(l)
      BY <1>6, <1>7, <2>2
    <3> QED
      BY <1>3, <1>4, <1>5, <3>2, <3>3
  <2>3. CASE j = Len(q) + 1 /\ i = Len(q) + 1
    BY <1>3, <1>4, <1>7, <2>3
  <2> QED
    BY <1>1, <2>1, <2>2, <2>3
<1>12. ASSUME NEW i \in 1 .. Len(p)
       PROVE  /\ e[i] = e[i - 1] + Zero(u[i - 1])
              /\ u[i - 1] = 0 => x[e[i]] = Command(p[i])
  <2>1. CASE i \in 1 .. Len(q)
    <3>1. i \in 0 .. Len(q) /\ i - 1 \in 0 .. Len(q)
      BY <1>1, <2>1
    <3>2. u[i - 1] = r[i - 1] /\ e[i] = c[i] /\ e[i - 1] = c[i - 1] /\ p[i] = q[i]
      BY <1>1, <1>6, <2>1, <3>1
    <3>3. /\ c[i] = c[i - 1] + Zero(r[i - 1])
          /\ r[i - 1] = 0 => d[c[i]] = Command(q[i])
      BY <2>1 DEF AddressDue
    <3>4. ASSUME r[i - 1] = 0 PROVE c[i] \in 1 .. Len(d)
      <4>1. c[i - 1] \in Nat /\ c[i] \in Nat /\ Zero(r[i - 1]) = 1
        BY <1>5, <3>1, <3>4 DEF Zero
      <4>2. Len(q) \in 0 .. Len(q) /\ i <= Len(q)
        BY <1>1, <2>1
      <4>3. c[i] <= c[Len(q)]
        BY <1>10, <3>1, <4>2
      <4> QED
        BY <1>4, <1>5, <3>3, <4>1, <4>3
    <3> QED
      BY <1>4, <3>2, <3>3, <3>4
  <2>2. CASE i = Len(q) + 1
    <3>1. i - 1 = Len(q) /\ Len(q) \in 0 .. Len(q)
      BY <1>1, <2>2
    <3>2. u[i - 1] = l /\ e[i - 1] = Len(d) /\ e[i] = Len(d) + Zero(l) /\ p[i] = b
      BY <1>1, <1>5, <1>6, <1>7, <2>2, <3>1
    <3>3. l = 0 => x[e[i]] = y
      BY <1>3, <1>4, <3>2
    <3> QED
      BY <1>9, <3>2, <3>3
  <2> QED
    BY <1>1, <2>1, <2>2
<1>13. AddressDue(p, u, e, x, k)
  BY <1>8, <1>11, <1>12 DEF AddressDue
<1> QED
  BY <1>13 DEF u, e, p, x, y

LEMMA EndsAppend ==
  ASSUME NEW q \in Seq(Beat), NEW b \in Beat, NEW r, NEW m
  PROVE  Cardinality(Ends(Append(q, b),
                          Longer(q, r, m)))
           = Cardinality(Ends(q, r)) + Zero(m)
<1> DEFINE u == Longer(q, r, m)
<1> USE DEF Longer
<1>1. Len(q) \in Nat /\ Len(Append(q, b)) = Len(q) + 1
  BY AppendProperties
<1>2. (\A i \in 1 .. Len(q) : u[i] = r[i]) /\ u[Len(q) + 1] = m
  BY <1>1
<1> HIDE DEF u
<1>3. Ends(Append(q, b), u) = IF m = 0 THEN Ends(q, r) \cup {Len(q) + 1} ELSE Ends(q, r)
  BY <1>1, <1>2 DEF Ends
<1>4. Len(q) + 1 \notin Ends(q, r)
  BY <1>1 DEF Ends
<1>5. IsFiniteSet(Ends(q, r)) /\ Cardinality(Ends(q, r)) \in Nat
  BY EndsFinite
<1>6. Cardinality(Ends(q, r) \cup {Len(q) + 1}) = Cardinality(Ends(q, r)) + 1
  BY <1>4, <1>5, FS_AddElement
<1>7. Cardinality(Ends(Append(q, b), u)) = Cardinality(Ends(q, r)) + Zero(m)
  BY <1>3, <1>5, <1>6 DEF Zero
<1> QED
  BY <1>7 DEF u

(* What enters the FIFO is owed by the channels.                           *)
LEMMA QueuedAppend ==
  ASSUME NEW q \in Seq(Beat), NEW b \in Beat, b.write, NEW n, NEW f, NEW l,
         NEW dw \in Seq(Data), NEW wk \in Nat, NEW da \in Seq(Cmd), NEW ak,
         Queued(q, n, f, l, dw, wk, da, ak),
         l > 0 => b.len = 0,
         NEW m, m = IF l > 0 THEN l - 1 ELSE b.len
  PROVE  Queued(Append(q, b), n + Zero(m), f, m, Append(dw, Datum(b, m)), wk,
                Push(da, Command(b), l = 0), ak)
<1>1. PICK r \in [0 .. Len(q) -> 0 .. 255], c \in [0 .. Len(q) -> Nat] :
        /\ Ranks(q, r, f, l) /\ DataDue(q, r, dw, wk) /\ AddressDue(q, r, c, da, ak)
        /\ n = Cardinality(Ends(q, r))
  BY DEF Queued
<1> DEFINE u == Longer(q, r, m)
           e == Longer(q, c, c[Len(q)] + Zero(l))
<1>2. r[Len(q)] = l
  BY <1>1 DEF Ranks
<1>3. Ranks(Append(q, b), u, f, m)
  BY <1>1, RanksAppend
<1>4. DataDue(Append(q, b), u, Append(dw, Datum(b, m)), wk)
  <2>1. \A x : DataDue(Append(q, b), Longer(q, r, x), Append(dw, Datum(b, x)), wk)
    BY <1>1, DataAppend
  <2> QED
    BY <2>1
<1>5. AddressDue(Append(q, b), u, e, Push(da, Command(b), l = 0), ak)
  BY <1>1, <1>2, AddressAppend
<1>6. Cardinality(Ends(Append(q, b), u)) = n + Zero(m)
  <2>1. \A x : Cardinality(Ends(Append(q, b), Longer(q, r, x)))
                = Cardinality(Ends(q, r)) + Zero(x)
    BY EndsAppend
  <2> QED
    BY <1>1, <2>1
<1> HIDE DEF u, e
<1>7. u \in [0 .. Len(Append(q, b)) -> 0 .. 255] /\ e \in [0 .. Len(Append(q, b)) -> Nat]
  BY <1>3, <1>5 DEF Ranks, AddressDue
<1> QED
  BY <1>3, <1>4, <1>5, <1>6, <1>7 DEF Queued

-----------------------------------------------------------------------------
(* What the queues say.                                                    *)

LEMMA QueuedFacts ==
  ASSUME NEW q \in Seq(Beat), NEW n, NEW f, NEW l, NEW dw \in Seq(Data), NEW wk \in Nat,
         NEW da \in Seq(Cmd), NEW ak \in Nat, Queued(q, n, f, l, dw, wk, da, ak)
  PROVE  /\ n \in Nat /\ f \in 0 .. 255 /\ l \in 0 .. 255
         /\ q = <<>> => f = l /\ n = 0 /\ Len(dw) = wk /\ Len(da) = ak
         /\ n = 0 /\ l = 0 => q = <<>>
         /\ wk = 1 => dw # <<>>
         /\ ak = 1 => da # <<>>
         /\ q # <<>> => Head(q).write
<1>1. PICK r \in [0 .. Len(q) -> 0 .. 255], c \in [0 .. Len(q) -> Nat] :
        /\ Ranks(q, r, f, l) /\ DataDue(q, r, dw, wk) /\ AddressDue(q, r, c, da, ak)
        /\ n = Cardinality(Ends(q, r))
  BY DEF Queued
<1>2. Len(q) \in Nat /\ 0 \in 0 .. Len(q) /\ Len(q) \in 0 .. Len(q) /\ 0 <= Len(q)
      /\ (q = <<>> <=> Len(q) = 0)
  OBVIOUS
<1>3. r[0] = f /\ r[Len(q)] = l
  BY <1>1 DEF Ranks
<1>4. r[0] \in 0 .. 255 /\ r[Len(q)] \in 0 .. 255
  BY <1>2
<1>5. n \in Nat /\ (n = 0 <=> Ends(q, r) = {})
  BY <1>1, EndsFinite, FS_EmptySet
<1>6. Len(dw) = Len(q) + wk
  BY <1>1 DEF DataDue
<1>7. c[0] = ak /\ c[Len(q)] = Len(da) /\ c[0] <= c[Len(q)]
  BY <1>1, <1>2 DEF AddressDue
<1>8. Len(dw) \in Nat /\ Len(da) \in Nat /\ (dw = <<>> <=> Len(dw) = 0) /\ (da = <<>> <=> Len(da) = 0)
  OBVIOUS
<1>9. ASSUME n = 0, l = 0 PROVE q = <<>>
  <2>1. CASE Len(q) \in 1 .. Len(q)
    <3>1. Len(q) \in Ends(q, r)
      BY <1>3, <1>9, <2>1 DEF Ends
    <3> QED
      BY <1>5, <1>9, <3>1
  <2> QED
    BY <1>2, <2>1
<1>10. ASSUME q = <<>> PROVE f = l /\ n = 0 /\ Len(dw) = wk /\ Len(da) = ak
  <2>1. Len(q) = 0 /\ 1 .. Len(q) = {}
    BY <1>2, <1>10
  <2>2. Ends(q, r) = {}
    BY <2>1 DEF Ends
  <2> QED
    BY <1>3, <1>5, <1>6, <1>7, <2>1, <2>2
<1>11. ASSUME q # <<>> PROVE Head(q).write
  <2>1. 1 \in 1 .. Len(q) /\ Head(q) = q[1]
    BY <1>2, <1>11
  <2> QED
    BY <1>1, <2>1 DEF Ranks
<1> QED
  BY <1>2, <1>3, <1>4, <1>5, <1>6, <1>7, <1>8, <1>9, <1>10, <1>11

LEMMA QueuedEmpty == Queued(<<>>, 0, 0, 0, <<>>, 0, <<>>, 0)
<1> DEFINE z == [i \in 0 .. 0 |-> 0]
<1>1. Len(<<>>) = 0 /\ 1 .. 0 = {} /\ z[0] = 0
  OBVIOUS
<1>2. z \in [0 .. Len(<<>>) -> 0 .. 255] /\ z \in [0 .. Len(<<>>) -> Nat]
  OBVIOUS
<1> HIDE DEF z
<1>3. Ranks(<<>>, z, 0, 0)
  BY <1>1, <1>2 DEF Ranks
<1>4. DataDue(<<>>, z, <<>>, 0)
  BY <1>1 DEF DataDue
<1>5. AddressDue(<<>>, z, z, <<>>, 0)
  <2>1. \A i, j \in 0 .. 0 : z[i] <= z[j]
    BY <1>1
  <2> QED
    BY <1>1, <1>2, <2>1 DEF AddressDue
<1>6. Ends(<<>>, z) = {}
  BY <1>1 DEF Ends
<1>7. Cardinality(Ends(<<>>, z)) = 0
  BY <1>6, FS_EmptySet
<1> QED
  BY <1>2, <1>3, <1>4, <1>5, <1>7 DEF Queued

(* The ends in the FIFO are those that the data channel still has to mark. *)
LEMMA QueuedEnds ==
  ASSUME NEW q \in Seq(Beat), NEW n, NEW f, NEW l, NEW dw \in Seq(Data), NEW wk \in Nat,
         NEW da, NEW ak, Queued(q, n, f, l, dw, wk, da, ak)
  PROVE  n = Cardinality({i \in DOMAIN q : ~q[i].write \/ dw[Len(dw) - Len(q) + i][2]})
<1>1. PICK r \in [0 .. Len(q) -> 0 .. 255], c \in [0 .. Len(q) -> Nat] :
        /\ Ranks(q, r, f, l) /\ DataDue(q, r, dw, wk) /\ AddressDue(q, r, c, da, ak)
        /\ n = Cardinality(Ends(q, r))
  BY DEF Queued
<1>2. DOMAIN q = 1 .. Len(q) /\ Len(q) \in Nat
  OBVIOUS
<1>3. Len(dw) = Len(q) + wk
  BY <1>1 DEF DataDue
<1>4. ASSUME NEW i \in 1 .. Len(q)
      PROVE  (~q[i].write \/ dw[Len(dw) - Len(q) + i][2]) <=> r[i] = 0
  <2>1. q[i].write
    BY <1>1 DEF Ranks
  <2>2. Len(dw) - Len(q) + i = i + wk
    BY <1>2, <1>3
  <2>3. dw[i + wk] = Datum(q[i], r[i])
    BY <1>1 DEF DataDue
  <2>4. dw[i + wk][2] <=> r[i] = 0
    <3>1. dw[i + wk][2] = (r[i] = 0)
      BY <2>3 DEF Datum
    <3> QED
      BY <3>1, Zenon
  <2> QED
    BY <2>1, <2>2, <2>4
<1>5. {i \in DOMAIN q : ~q[i].write \/ dw[Len(dw) - Len(q) + i][2]} = Ends(q, r)
  BY <1>2, <1>4 DEF Ends
<1> QED
  BY <1>1, <1>5

-----------------------------------------------------------------------------
(* The invariant while writes are owed.                                    *)

(* Halves of a beat that the skid buffer still has to hand over.           *)
DataHeld    == Count(skid # {} /\ ~wDone)
AddressHeld == Count(skid # {} /\ ~awDone)
LastHeld    == \E b \in skid : b.last

SkidRegs ==
  IF skid = {} THEN ~wDone /\ (awDone <=> beatCnt > 0)
  ELSE \A b \in skid :
         /\ b.write /\ (awDone <=> ~wDone) /\ (b.last <=> beatCnt = 0)
         /\ wDone => (wLast <=> b.last)

(* The half in the skid buffer is what its channel has to carry next.      *)
SkidDue(dw, da) ==
  \A b \in skid : /\ wDone  => Head(da) = <<b.payload, b.len>>
                  /\ awDone => Head(dw) = <<b.payload, b.last>>

SkidDueNext(dw, da) ==
  \A b \in skid' : /\ wDone'  => Head(da) = <<b.payload, b.len>>
                   /\ awDone' => Head(dw) = <<b.payload, b.last>>

(* What the slave has and not answered is what is outstanding, but for the *)
(* halves of a beat that it still lacks.                                   *)
SlaveCounts ==
  /\ slave.w  = outstanding - Count(LastHeld /\ ~wDone)
  /\ slave.aw = outstanding + Count(awDone) - Count(LastHeld)
  /\ slave.ar = <<>>

CountersAgree == reqCnt = IF beatCnt > 0 THEN beatCnt - 1 ELSE 0

Waiting(n) == Queued(fifo, n, beatCnt, sending, due.w, DataHeld, due.aw, AddressHeld)

Writing ==
  /\ OneWay(TRUE) /\ due.ar = <<>>
  /\ CountersAgree /\ SkidRegs /\ SkidDue(due.w, due.aw) /\ SlaveCounts
  /\ \E n \in Nat : Waiting(n) /\ Len(owed) = outstanding + n + Count(sending > 0)

Entries == [write : BOOLEAN, left : Int]

HistoryType ==
  /\ owed \in Seq(Entries)
  /\ due.aw \in Seq(Cmd) /\ due.ar \in Seq(Cmd) /\ due.w \in Seq(Data)
  /\ slave.aw \in Nat /\ slave.w \in Nat /\ slave.ar \in Seq(Int)

LEMMA HeldType ==
  /\ DataHeld \in {0, 1} /\ AddressHeld \in {0, 1}
  /\ skid = {} => DataHeld = 0 /\ AddressHeld = 0
  /\ skid # {} /\ ~wDone => DataHeld = 1
  /\ skid # {} /\ wDone => DataHeld = 0
  /\ skid # {} /\ ~awDone => AddressHeld = 1
  /\ skid # {} /\ awDone => AddressHeld = 0
<1>1. DataHeld = IF skid # {} /\ ~wDone THEN 1 ELSE 0
  BY Zenon DEF DataHeld, Count
<1>2. AddressHeld = IF skid # {} /\ ~awDone THEN 1 ELSE 0
  BY Zenon DEF AddressHeld, Count
<1> QED
  BY <1>1, <1>2

(* The wires while writes are owed: nothing of a read moves.               *)
LEMMA WritingWires ==
  ASSUME IInv, HistoryType, Writing, NEW in \in Offers, NEW s \in SlaveInputs, Clock(in, s)
  PROVE  /\ ~s.r /\ ~s.rlast /\ (s.b => outstanding > 0 /\ slave.aw > 0 /\ slave.w > 0)
         /\ BurstAnswered(s) = s.b /\ s.b \in BOOLEAN
         /\ fifo # <<>> => Head(fifo).write
         /\ \A b \in Offered : b.write
         /\ Ar = {} /\ ~ArGo(s)
         /\ outstanding' = outstanding + Count(BurstIssued(s)) - Count(s.b)
<1>1. s \in [awready : BOOLEAN, wready : BOOLEAN, arready : BOOLEAN,
             b : BOOLEAN, r : BOOLEAN, rlast : BOOLEAN]
      /\ (s.b => slave.aw > 0 /\ slave.w > 0) /\ (s.r => slave.ar # <<>>) /\ (s.rlast => s.r)
  BY DEF SlaveInputs
<1>2. slave.ar = <<>> /\ slave.w = outstanding - Count(LastHeld /\ ~wDone) /\ outstanding \in 0 .. 2
  BY DEF Writing, SlaveCounts, IInv, TypeOK
<1>3. Count(LastHeld /\ ~wDone) \in {0, 1}
  BY DEF Count
<1>4. ~s.r /\ ~s.rlast /\ (s.b => outstanding > 0 /\ slave.aw > 0 /\ slave.w > 0)
  BY <1>1, <1>2, <1>3
<1>5. BurstAnswered(s) = s.b
  BY <1>1, <1>4 DEF BurstAnswered
<1>6. fifo # <<>> => Head(fifo).write
  <2>1. PICK n \in Nat : Waiting(n)
    BY DEF Writing
  <2>2. Queued(fifo, n, beatCnt, sending, due.w, DataHeld, due.aw, AddressHeld)
    BY <2>1 DEF Waiting
  <2>3. /\ fifo \in Seq(Beat) /\ due.w \in Seq(Data) /\ due.aw \in Seq(Cmd)
        /\ DataHeld \in Nat /\ AddressHeld \in Nat
    BY HeldType DEF IInv, TypeOK, HistoryType
  <2> QED
    BY <2>2, <2>3, QueuedFacts
<1>7. \A b \in Offered : b.write
  <2>1. \A b \in skid : b.write
    BY DEF Writing, SkidRegs
  <2>2. \A b \in Fresh : b.write
    BY <1>6 DEF Fresh, CanIssue
  <2> QED
    BY <2>1, <2>2 DEF Offered
<1>8. Ar = {} /\ ~ArGo(s)
  BY <1>7 DEF Ar, ArGo
<1>9. outstanding' = outstanding + Count(BurstIssued(s)) - Count(s.b)
  <2>1. outstanding' = (outstanding + Count(BurstIssued(s))
                         - Count(BurstAnswered(s) /\ outstanding # 0)) % 4
    BY DEF Clock, ResponseTracking
  <2>2. Count(BurstAnswered(s) /\ outstanding # 0) = Count(s.b)
    BY <1>2, <1>4, <1>5 DEF Count
  <2>3. BurstIssued(s) => outstanding # 2
    BY AcceptFresh DEF BurstIssued, CanIssue
  <2>4. Count(BurstIssued(s)) \in {0, 1} /\ Count(s.b) \in {0, 1}
        /\ (outstanding = 2 => Count(BurstIssued(s)) = 0)
        /\ (outstanding = 0 => Count(s.b) = 0)
    BY <1>4, <2>3 DEF Count
  <2> QED
    BY <1>2, <2>1, <2>2, <2>4
<1> QED
  BY <1>1, <1>4, <1>5, <1>6, <1>7, <1>8, <1>9

-----------------------------------------------------------------------------
(* What leaves the FIFO and what the channels take in one cycle.           *)

Rest(s) == IF Accept(s) THEN Tail(fifo) ELSE fifo

(* The invariant between what leaves and what enters.                      *)
Drained(n, s) ==
  /\ CountersAgree' /\ SkidRegs' /\ SlaveCounts'
  /\ SkidDueNext(Pop(due.w, WGo(s)), Pop(due.aw, AwGo(s)))
  /\ \E m \in Nat :
       /\ Queued(Rest(s), m, beatCnt', sending, Pop(due.w, WGo(s)), DataHeld',
                 Pop(due.aw, AwGo(s)), AddressHeld')
       /\ outstanding' + m = outstanding + n - Count(s.b)

(* Nothing is accepted, and the skid buffer is empty. *)
LEMMA DrainNothing ==
  ASSUME IInv, HistoryType, Writing, NEW in \in Offers, NEW s \in SlaveInputs, Clock(in, s),
         NEW n \in Nat, Waiting(n), skid = {}, ~Accept(s)
  PROVE  Drained(n, s)
<1>1. ~AwGo(s) /\ ~WGo(s) /\ ~BurstIssued(s) /\ ~WriteAccepted(s)
  BY DEF Accept, BurstIssued, WriteAccepted
<1>2. skid' = {} /\ ~wDone /\ ~wDone' /\ (awDone' <=> awDone) /\ beatCnt' = beatCnt /\ reqCnt' = reqCnt
  <2>1. ~wDone
    BY DEF Writing, SkidRegs
  <2>2. skid' = {} /\ beatCnt' = beatCnt /\ reqCnt' = reqCnt
    BY <1>1 DEF Clock, SkidBuffer, WriteTracking
  <2>3. ~wDone' /\ (awDone' <=> awDone)
    BY <1>1, <2>1, Zenon DEF Clock, ChannelTracking
  <2> QED
    BY <2>1, <2>2, <2>3
<1>3. outstanding \in 0 .. 2 /\ outstanding' = outstanding - Count(s.b) /\ Count(s.b) \in {0, 1}
  BY <1>1, WritingWires DEF IInv, TypeOK, Count
<1>4. /\ slave'.aw = slave.aw - Count(s.b) /\ slave'.w = slave.w - Count(s.b)
      /\ slave'.ar = slave.ar /\ slave.aw \in Nat /\ slave.w \in Nat
  <2>1. ~(\E b \in W : s.wready /\ b.last)
    BY <1>1 DEF WGo
  <2>2. ~s.r /\ ~ArGo(s)
    BY WritingWires
  <2> QED
    BY <1>1, <2>1, <2>2 DEF Clock, SlaveStep, Count, HistoryType
<1>5. /\ slave.w = outstanding /\ slave.aw = outstanding + Count(awDone) /\ slave.ar = <<>>
  BY <1>3 DEF Writing, SlaveCounts, LastHeld, Count
<1>6. SlaveCounts'
  <2>1. ~LastHeld'
    BY <1>2 DEF LastHeld
  <2>2. Count(awDone') = Count(awDone) /\ Count(LastHeld') = 0 /\ Count(LastHeld' /\ ~wDone') = 0
        /\ Count(awDone) \in {0, 1}
    BY <1>2, <2>1 DEF Count
  <2> QED
    BY <1>3, <1>4, <1>5, <2>2 DEF SlaveCounts
<1>7. CountersAgree' /\ SkidRegs' /\ SkidDueNext(Pop(due.w, WGo(s)), Pop(due.aw, AwGo(s)))
  BY <1>2 DEF Writing, CountersAgree, SkidRegs, SkidDueNext
<1>8. Queued(Rest(s), n, beatCnt', sending, Pop(due.w, WGo(s)), DataHeld',
             Pop(due.aw, AwGo(s)), AddressHeld')
  <2>1. DataHeld' = 0 /\ AddressHeld' = 0 /\ DataHeld = 0 /\ AddressHeld = 0
    BY <1>2 DEF DataHeld, AddressHeld, Count
  <2>2. Rest(s) = fifo /\ Pop(due.w, WGo(s)) = due.w /\ Pop(due.aw, AwGo(s)) = due.aw
    BY <1>1 DEF Rest, Pop
  <2> QED
    BY <1>2, <2>1, <2>2 DEF Waiting
<1> QED
  BY <1>3, <1>6, <1>7, <1>8 DEF Drained

(* The beat in the skid buffer waits for its data, its address having gone. *)
LEMMA DrainData ==
  ASSUME IInv, HistoryType, Writing, NEW in \in Offers, NEW s \in SlaveInputs, Clock(in, s),
         NEW n \in Nat, Waiting(n), skid # {}, awDone
  PROVE  Drained(n, s)
<1>1. PICK b \in WireBeat : skid = {b}
  BY DEF IInv, TypeOK
<1>2. ~wDone /\ b.write /\ (b.last <=> beatCnt = 0) /\ Head(due.w) = <<b.payload, b.last>>
  BY <1>1 DEF Writing, SkidRegs, SkidDue
<1>3. Offered = {b} /\ Aw = {} /\ W = {b}
  BY <1>1, <1>2 DEF Offered, Aw, W
<1>4. ~AwGo(s) /\ (WGo(s) <=> s.wready) /\ ~Accept(s) /\ ~BurstIssued(s) /\ ~WriteAccepted(s)
  BY <1>3 DEF AwGo, WGo, Accept, BurstIssued, WriteAccepted
<1>5. beatCnt' = beatCnt /\ reqCnt' = reqCnt /\ Rest(s) = fifo
  BY <1>4 DEF Clock, WriteTracking, Rest
<1>6. HalfLeft(s) <=> ~s.wready
  BY <1>3, WritingWires DEF HalfLeft
<1>7. skid' = IF s.wready THEN {} ELSE {b}
  BY <1>3, <1>6 DEF Clock, SkidBuffer
<1>8. awDone' <=> ~(s.wready /\ b.last)
  <2>1. awDone' <=> ~((WGo(s) \/ wDone) /\ ((wDone /\ wLast) \/ (\E x \in W : s.wready /\ x.last)))
    BY Zenon DEF Clock, ChannelTracking
  <2> QED
    BY <1>2, <1>3, <1>4, <2>1
<1>9. ~wDone'
  BY <1>2, Zenon DEF Clock, ChannelTracking
<1>10. outstanding \in 0 .. 2 /\ outstanding' = outstanding - Count(s.b) /\ Count(s.b) \in {0, 1}
  BY <1>4, WritingWires DEF IInv, TypeOK, Count
<1>11. (LastHeld <=> b.last) /\ (LastHeld' <=> ~s.wready /\ b.last)
  BY <1>1, <1>7 DEF LastHeld
<1>12. /\ slave'.aw = slave.aw - Count(s.b)
       /\ slave'.w = slave.w + Count(s.wready /\ b.last) - Count(s.b)
       /\ slave'.ar = slave.ar /\ slave.aw \in Nat /\ slave.w \in Nat
  <2>1. (\E x \in W : s.wready /\ x.last) <=> s.wready /\ b.last
    BY <1>3
  <2>2. ~s.r /\ ~ArGo(s)
    BY WritingWires
  <2>3. /\ slave'.aw = slave.aw + Count(AwGo(s)) - Count(s.b)
        /\ slave'.w = slave.w + Count(\E x \in W : s.wready /\ x.last) - Count(s.b)
        /\ slave'.ar = slave.ar
    BY <2>2 DEF Clock, SlaveStep
  <2>4. Count(AwGo(s)) = 0 /\ Count(\E x \in W : s.wready /\ x.last) = Count(s.wready /\ b.last)
    BY <1>4, <2>1 DEF Count
  <2>5. slave.aw \in Nat /\ slave.w \in Nat /\ slave.aw + 0 = slave.aw
    BY DEF HistoryType
  <2>6. slave'.aw = slave.aw - Count(s.b)
    <3>1. slave'.aw = slave.aw + 0 - Count(s.b)
      BY <2>3, <2>4, Zenon
    <3>2. \A k \in Nat, c \in {0, 1} : k + 0 - c = k - c
      OBVIOUS
    <3>3. slave.aw + 0 - Count(s.b) = slave.aw - Count(s.b)
      BY <1>10, <2>5, <3>2, Zenon
    <3> QED
      BY <3>1, <3>3, Zenon
  <2>7. slave'.w = slave.w + Count(s.wready /\ b.last) - Count(s.b)
    BY <2>3, <2>4, Zenon
  <2> QED
    BY <2>3, <2>5, <2>6, <2>7
<1>13. /\ slave.w = outstanding - Count(b.last) /\ slave.aw = outstanding + 1 - Count(b.last)
       /\ slave.ar = <<>>
  BY <1>2, <1>11 DEF Writing, SlaveCounts, Count
<1>14. SlaveCounts'
  BY <1>8, <1>9, <1>10, <1>11, <1>12, <1>13 DEF SlaveCounts, Count
<1>15. CountersAgree' /\ SkidRegs' /\ SkidDueNext(Pop(due.w, WGo(s)), Pop(due.aw, AwGo(s)))
  <2>1. CountersAgree'
    BY <1>5 DEF Writing, CountersAgree
  <2>2. beatCnt \in 0 .. 255
    BY DEF IInv, TypeOK
  <2>3. SkidRegs'
    BY <1>2, <1>5, <1>7, <1>8, <1>9, <2>2 DEF SkidRegs
  <2>4. SkidDueNext(Pop(due.w, WGo(s)), Pop(due.aw, AwGo(s)))
    BY <1>2, <1>4, <1>7, <1>9 DEF SkidDueNext, Pop
  <2> QED
    BY <2>1, <2>3, <2>4
<1>16. Queued(Rest(s), n, beatCnt', sending, Pop(due.w, WGo(s)), DataHeld',
              Pop(due.aw, AwGo(s)), AddressHeld')
  <2>1. Queued(fifo, n, beatCnt, sending, due.w, 1, due.aw, 0)
    BY <1>2, HeldType DEF Waiting
  <2>2. Pop(due.aw, AwGo(s)) = due.aw
    BY <1>4 DEF Pop
  <2>3. CASE s.wready
    <3>1. DataHeld' = 0 /\ AddressHeld' = 0
      BY <1>7, <2>3 DEF DataHeld, AddressHeld, Count
    <3>2. due.w # <<>> /\ Queued(fifo, n, beatCnt, sending, Tail(due.w), 0, due.aw, 0)
      BY <2>1, QueuedDataTaken DEF IInv, TypeOK, HistoryType
    <3>3. Pop(due.w, WGo(s)) = Tail(due.w)
      BY <1>4, <2>3, <3>2 DEF Pop
    <3> QED
      BY <1>5, <2>2, <3>1, <3>2, <3>3
  <2>4. CASE ~s.wready
    <3>1. DataHeld' = 1 /\ AddressHeld' = 0
      BY <1>7, <1>8, <1>9, <2>4 DEF DataHeld, AddressHeld, Count
    <3>2. Pop(due.w, WGo(s)) = due.w
      BY <1>4, <2>4 DEF Pop
    <3> QED
      BY <1>5, <2>1, <2>2, <3>1, <3>2
  <2> QED
    BY <2>3, <2>4
<1> QED
  BY <1>10, <1>14, <1>15, <1>16 DEF Drained

(* The beat in the skid buffer waits for its address, its data having gone. *)
LEMMA DrainAddress ==
  ASSUME IInv, HistoryType, Writing, NEW in \in Offers, NEW s \in SlaveInputs, Clock(in, s),
         NEW n \in Nat, Waiting(n), skid # {}, ~awDone
  PROVE  Drained(n, s)
<1>1. PICK b \in WireBeat : skid = {b}
  BY DEF IInv, TypeOK
<1>2. /\ wDone /\ b.write /\ (b.last <=> beatCnt = 0) /\ (wLast <=> b.last)
      /\ Head(due.aw) = <<b.payload, b.len>>
  BY <1>1 DEF Writing, SkidRegs, SkidDue
<1>3. Offered = {b} /\ Aw = {b} /\ W = {}
  BY <1>1, <1>2 DEF Offered, Aw, W
<1>4. (AwGo(s) <=> s.awready) /\ ~WGo(s) /\ ~Accept(s) /\ ~BurstIssued(s) /\ ~WriteAccepted(s)
  BY <1>1, <1>3 DEF AwGo, WGo, Accept, BurstIssued, WriteAccepted
<1>5. beatCnt' = beatCnt /\ reqCnt' = reqCnt /\ Rest(s) = fifo
  BY <1>4 DEF Clock, WriteTracking, Rest
<1>6. HalfLeft(s) <=> ~s.awready
  BY <1>3, WritingWires DEF HalfLeft
<1>7. skid' = IF s.awready THEN {} ELSE {b}
  BY <1>3, <1>6 DEF Clock, SkidBuffer
<1>8. awDone' <=> s.awready /\ ~b.last
  <2>1. awDone' <=> /\ AwGo(s) \/ awDone
                    /\ ~((WGo(s) \/ wDone) /\ ((wDone /\ wLast) \/ (\E x \in W : s.wready /\ x.last)))
    BY Zenon DEF Clock, ChannelTracking
  <2> QED
    BY <1>2, <1>3, <1>4, <2>1
<1>9. (wDone' <=> ~s.awready) /\ wLast' = wLast
  <2>1. wDone' <=> (WGo(s) \/ wDone) /\ ~(AwGo(s) \/ awDone)
    BY Zenon DEF Clock, ChannelTracking
  <2>2. wLast' = wLast
    BY <1>4, Zenon DEF Clock, ChannelTracking
  <2> QED
    BY <1>2, <1>4, <2>1, <2>2
<1>10. outstanding \in 0 .. 2 /\ outstanding' = outstanding - Count(s.b) /\ Count(s.b) \in {0, 1}
  BY <1>4, WritingWires DEF IInv, TypeOK, Count
<1>11. (LastHeld <=> b.last) /\ (LastHeld' <=> ~s.awready /\ b.last)
  BY <1>1, <1>7 DEF LastHeld
<1>12. /\ slave'.aw = slave.aw + Count(s.awready) - Count(s.b)
       /\ slave'.w = slave.w - Count(s.b)
       /\ slave'.ar = slave.ar /\ slave.aw \in Nat /\ slave.w \in Nat
  <2>1. ~(\E x \in W : s.wready /\ x.last)
    BY <1>3
  <2>2. ~s.r /\ ~ArGo(s)
    BY WritingWires
  <2> QED
    BY <1>4, <2>1, <2>2 DEF Clock, SlaveStep, Count, HistoryType
<1>13. /\ slave.w = outstanding /\ slave.aw = outstanding - Count(b.last)
       /\ slave.ar = <<>>
  BY <1>2, <1>10, <1>11 DEF Writing, SlaveCounts, Count
<1>14. SlaveCounts'
  BY <1>8, <1>9, <1>10, <1>11, <1>12, <1>13 DEF SlaveCounts, Count
<1>15. CountersAgree' /\ SkidRegs' /\ SkidDueNext(Pop(due.w, WGo(s)), Pop(due.aw, AwGo(s)))
  <2>1. CountersAgree'
    BY <1>5 DEF Writing, CountersAgree
  <2>2. beatCnt \in 0 .. 255
    BY DEF IInv, TypeOK
  <2>3. SkidRegs'
    BY <1>2, <1>5, <1>7, <1>8, <1>9, <2>2 DEF SkidRegs
  <2>4. SkidDueNext(Pop(due.w, WGo(s)), Pop(due.aw, AwGo(s)))
    BY <1>2, <1>4, <1>7, <1>8 DEF SkidDueNext, Pop
  <2> QED
    BY <2>1, <2>3, <2>4
<1>16. Queued(Rest(s), n, beatCnt', sending, Pop(due.w, WGo(s)), DataHeld',
              Pop(due.aw, AwGo(s)), AddressHeld')
  <2>1. Queued(fifo, n, beatCnt, sending, due.w, 0, due.aw, 1)
    BY <1>2, HeldType DEF Waiting
  <2>2. Pop(due.w, WGo(s)) = due.w
    BY <1>4 DEF Pop
  <2>3. CASE s.awready
    <3>1. DataHeld' = 0 /\ AddressHeld' = 0
      BY <1>7, <2>3 DEF DataHeld, AddressHeld, Count
    <3>2. due.aw # <<>> /\ Queued(fifo, n, beatCnt, sending, due.w, 0, Tail(due.aw), 0)
      BY <2>1, QueuedAddressTaken DEF IInv, TypeOK, HistoryType
    <3>3. Pop(due.aw, AwGo(s)) = Tail(due.aw)
      BY <1>4, <2>3, <3>2 DEF Pop
    <3> QED
      BY <1>5, <2>2, <3>1, <3>2, <3>3
  <2>4. CASE ~s.awready
    <3>1. DataHeld' = 0 /\ AddressHeld' = 1
      BY <1>7, <1>8, <1>9, <2>4 DEF DataHeld, AddressHeld, Count
    <3>2. Pop(due.aw, AwGo(s)) = due.aw
      BY <1>4, <2>4 DEF Pop
    <3> QED
      BY <1>5, <2>1, <2>2, <3>1, <3>2
  <2> QED
    BY <2>3, <2>4
<1> QED
  BY <1>10, <1>14, <1>15, <1>16 DEF Drained

(* The head of the FIFO is taken, or one half of it. *)
LEMMA DrainFifo ==
  ASSUME IInv, HistoryType, Writing, NEW in \in Offers, NEW s \in SlaveInputs, Clock(in, s),
         NEW n \in Nat, Waiting(n), Accept(s)
  PROVE  Drained(n, s)
<1> DEFINE h == Head(fifo)
           g == After(h, beatCnt)
           b == [write |-> h.write, len |-> h.len, payload |-> h.payload, last |-> LastBeat(h)]
           cmd == awDone \/ s.awready
<1>1. /\ skid = {} /\ CanIssue /\ fifo # <<>> /\ fifo \in Seq(Beat) /\ h \in Beat
      /\ outstanding \in 0 .. 2 /\ beatCnt \in 0 .. 255 /\ sending \in 0 .. 255
  BY AcceptFresh, FreshType DEF Accept, IInv, TypeOK
<1>2. ~wDone /\ (awDone <=> beatCnt > 0)
  BY <1>1 DEF Writing, SkidRegs
<1>3. Queued(fifo, n, beatCnt, sending, due.w, 0, due.aw, 0)
  BY <1>1, HeldType DEF Waiting
<1>4. /\ h.write /\ (beatCnt > 0 => h.len = 0) /\ g \in Nat /\ h.len \in 0 .. 255
      /\ due.w[1] = Datum(h, g) /\ (beatCnt = 0 => due.aw[1] = Command(h))
      /\ Queued(Tail(fifo), n - Zero(g), g, sending, due.w, 1, due.aw, Zero(beatCnt))
  <2>1. h.len \in 0 .. 255
    BY <1>1, Lens DEF Beat
  <2>2. fifo \in Seq(Beat) /\ fifo # <<>>
    BY <1>1
  <2>3. /\ h.write /\ (beatCnt > 0 => h.len = 0) /\ g \in Nat
        /\ due.w[1] = Datum(h, g) /\ (beatCnt = 0 => due.aw[1] = Command(h))
        /\ Queued(Tail(fifo), n - Zero(g), g, sending, due.w, 1, due.aw, Zero(beatCnt))
    BY <1>3, <2>2, QueuedPop
  <2> QED
    BY <2>1, <2>3
<1>33. PICK m : m = n - Zero(g)
  OBVIOUS
<1>32. Queued(Tail(fifo), m, g, sending, due.w, 1, due.aw, Zero(beatCnt))
  BY <1>4, <1>33
<1>5. g = IF beatCnt > 0 THEN beatCnt - 1 ELSE h.len
  BY DEF After
<1>6. Offered = {b} /\ b.write /\ b.len = h.len /\ b.payload = h.payload /\ (b.last <=> LastBeat(h))
  <2>1. Offered = {b}
    BY <1>1 DEF Offered, Fresh
  <2> QED
    BY <1>4, <2>1
<1>7. LastBeat(h) <=> g = 0
  BY <1>1, <1>4, <1>5 DEF LastBeat
<1>8. BurstIssued(s) <=> g = 0
  <2>1. reqCnt = IF beatCnt > 0 THEN beatCnt - 1 ELSE 0
    BY DEF Writing, CountersAgree
  <2> QED
    BY <1>1, <1>4, <1>5, <2>1 DEF BurstIssued
<1>9. beatCnt' = g /\ CountersAgree'
  <2>1. reqCnt = IF beatCnt > 0 THEN beatCnt - 1 ELSE 0
    BY DEF Writing, CountersAgree
  <2>2. WriteAccepted(s)
    BY <1>4 DEF WriteAccepted
  <2>3. beatCnt' = IF beatCnt # 0 THEN beatCnt - 1 ELSE h.len
    BY <2>2 DEF Clock, WriteTracking
  <2>4. reqCnt' = IF reqCnt # 0 THEN reqCnt - 1 ELSE IF h.len # 0 THEN h.len - 1 ELSE reqCnt
    BY <2>2 DEF Clock, WriteTracking
  <2>5. beatCnt' = g
    BY <1>1, <1>5, <2>3
  <2>6. reqCnt' = IF g > 0 THEN g - 1 ELSE 0
    BY <1>1, <1>4, <1>5, <2>1, <2>4
  <2> QED
    BY <2>5, <2>6 DEF CountersAgree
<1> HIDE DEF b, g, h
<1>10. /\ Aw = (IF awDone THEN {} ELSE {b}) /\ W = {b}
       /\ (AwGo(s) <=> ~awDone /\ s.awready) /\ (WGo(s) <=> s.wready)
  <2>1. Aw = (IF awDone THEN {} ELSE {b}) /\ W = {b}
    BY <1>2, <1>6 DEF Aw, W
  <2> QED
    BY <2>1 DEF AwGo, WGo
<1>11. cmd \/ s.wready
  BY <1>10, WritingWires DEF Accept
<1>12. s.awready \in BOOLEAN /\ s.wready \in BOOLEAN /\ s.b \in BOOLEAN
  BY DEF SlaveInputs
<1>13. skid' = IF cmd /\ s.wready THEN {} ELSE {b}
  <2>1. HalfLeft(s) <=> ~(cmd /\ s.wready)
    BY <1>10, WritingWires DEF HalfLeft
  <2> QED
    BY <1>6, <2>1 DEF Clock, SkidBuffer
<1>14. (\E x \in W : s.wready /\ x.last) <=> s.wready /\ g = 0
  BY <1>6, <1>7, <1>10
<1>15. awDone' <=> cmd /\ ~(s.wready /\ g = 0)
  <2>1. awDone' <=> /\ AwGo(s) \/ awDone
                    /\ ~((WGo(s) \/ wDone) /\ ((wDone /\ wLast) \/ (\E x \in W : s.wready /\ x.last)))
    BY Zenon DEF Clock, ChannelTracking
  <2> QED
    BY <1>2, <1>10, <1>14, <2>1
<1>16. wDone' <=> s.wready /\ ~cmd
  <2>1. wDone' <=> (WGo(s) \/ wDone) /\ ~(AwGo(s) \/ awDone)
    BY Zenon DEF Clock, ChannelTracking
  <2> QED
    BY <1>2, <1>10, <2>1
<1>17. s.wready => (wLast' <=> b.last)
  <2>1. WGo(s) => (wLast' <=> \E x \in W : x.last)
    BY Zenon DEF Clock, ChannelTracking
  <2> QED
    BY <1>10, <2>1
<1>18. SkidRegs'
  <2>1. CASE cmd /\ s.wready
    BY <1>4, <1>9, <1>13, <1>15, <1>16, <2>1 DEF SkidRegs
  <2>2. CASE ~(cmd /\ s.wready)
    <3>1. skid' = {b} /\ (awDone' <=> ~wDone')
      BY <1>11, <1>13, <1>15, <1>16, <2>2
    <3>2. (b.last <=> beatCnt' = 0) /\ (wDone' => (wLast' <=> b.last))
      BY <1>6, <1>7, <1>9, <1>16, <1>17
    <3> QED
      BY <1>6, <3>1, <3>2 DEF SkidRegs
  <2> QED
    BY <2>1, <2>2
<1>19. SlaveCounts'
  <2>1. outstanding' = outstanding + Zero(g) - Count(s.b) /\ Count(s.b) \in {0, 1}
    BY <1>8, WritingWires DEF Count, Zero
  <2>2. slave.w = outstanding /\ slave.aw = outstanding + Count(awDone) /\ slave.ar = <<>>
    BY <1>1 DEF Writing, SlaveCounts, LastHeld, Count
  <2>3. /\ slave'.aw = slave.aw + Count(AwGo(s)) - Count(s.b)
        /\ slave'.w = slave.w + Count(\E x \in W : s.wready /\ x.last) - Count(s.b)
        /\ slave'.ar = slave.ar
    BY WritingWires DEF Clock, SlaveStep, Count
  <2>4. LastHeld' <=> ~(cmd /\ s.wready) /\ g = 0
    BY <1>6, <1>7, <1>13 DEF LastHeld
  <2>5. /\ Count(AwGo(s)) = IF ~awDone /\ s.awready THEN 1 ELSE 0
        /\ Count(\E x \in W : s.wready /\ x.last) = IF s.wready /\ g = 0 THEN 1 ELSE 0
        /\ Count(awDone) = IF awDone THEN 1 ELSE 0
    BY <1>10, <1>14 DEF Count
  <2>6. /\ Count(LastHeld' /\ ~wDone') = IF ~s.wready /\ g = 0 THEN 1 ELSE 0
        /\ Count(LastHeld') = IF ~(cmd /\ s.wready) /\ g = 0 THEN 1 ELSE 0
        /\ Count(awDone') = IF cmd /\ ~(s.wready /\ g = 0) THEN 1 ELSE 0
    BY <1>11, <1>15, <1>16, <2>4 DEF Count
  <2>7. slave'.w = outstanding' - Count(LastHeld' /\ ~wDone')
    <3>1. slave'.w = outstanding + (IF s.wready /\ g = 0 THEN 1 ELSE 0) - Count(s.b)
      BY <2>2, <2>3, <2>5
    <3> QED
      BY <1>1, <2>1, <2>6, <3>1 DEF Zero
  <2>8. slave'.aw = outstanding' + Count(awDone') - Count(LastHeld')
    BY <1>1, <1>11, <2>1, <2>2, <2>3, <2>5, <2>6 DEF Zero
  <2> QED
    BY <2>2, <2>3, <2>7, <2>8 DEF SlaveCounts
<1>20. due.w \in Seq(Data) /\ due.aw \in Seq(Cmd) /\ Tail(fifo) \in Seq(Beat)
  BY <1>1, SeqFacts DEF HistoryType
<1>21. due.w # <<>> /\ Head(due.w) = due.w[1]
       /\ Queued(Tail(fifo), m, g, sending, Tail(due.w), 0, due.aw, Zero(beatCnt))
  BY <1>32, <1>20, QueuedDataTaken
<1>22. DataHeld' = IF s.wready THEN 0 ELSE 1
  BY <1>11, <1>13, <1>16 DEF DataHeld, Count
<1>23. AddressHeld' = IF cmd THEN 0 ELSE 1
  BY <1>11, <1>13, <1>15 DEF AddressHeld, Count
<1>24. Queued(Tail(fifo), m, g, sending, Pop(due.w, WGo(s)), DataHeld',
              due.aw, Zero(beatCnt))
  BY <1>32, <1>10, <1>12, <1>21, <1>22 DEF Pop
<1>25. Pop(due.w, WGo(s)) \in Seq(Data)
  BY <1>20, <1>21, SeqFacts DEF Pop
<1>26. beatCnt = 0 => due.aw # <<>> /\ Head(due.aw) = due.aw[1]
  BY <1>20, <1>24, QueuedAddressTaken DEF Zero
<1>27. Queued(Tail(fifo), m, g, sending, Pop(due.w, WGo(s)), DataHeld',
              Pop(due.aw, AwGo(s)), AddressHeld')
  <2>1. CASE AwGo(s)
    <3>1. beatCnt = 0 /\ Zero(beatCnt) = 1 /\ cmd /\ AddressHeld' = 0
      BY <1>1, <1>2, <1>10, <1>23, <2>1 DEF Zero
    <3>2. Pop(due.aw, AwGo(s)) = Tail(due.aw)
      BY <1>26, <2>1, <3>1 DEF Pop
    <3> QED
      BY <1>20, <1>24, <3>1, <3>2, QueuedAddressTaken
  <2>2. CASE ~AwGo(s)
    <3>1. Pop(due.aw, AwGo(s)) = due.aw
      BY <2>2 DEF Pop
    <3>2. AddressHeld' = Zero(beatCnt)
      BY <1>1, <1>2, <1>10, <1>23, <2>2 DEF Zero
    <3> QED
      BY <1>24, <3>1, <3>2
  <2> QED
    BY <2>1, <2>2
<1>28. SkidDueNext(Pop(due.w, WGo(s)), Pop(due.aw, AwGo(s)))
  <2>1. ASSUME ~s.wready PROVE Head(Pop(due.w, WGo(s))) = <<b.payload, b.last>>
    <3>1. Pop(due.w, WGo(s)) = due.w
      BY <1>10, <2>1 DEF Pop
    <3>2. <<h.payload, g = 0>> = <<b.payload, b.last>>
      <4>1. b.last = LastBeat(h) /\ LastBeat(h) \in BOOLEAN
        BY DEF b, LastBeat
      <4> QED
        BY <1>6, <1>7, <4>1
    <3> QED
      BY <1>4, <1>21, <3>1, <3>2 DEF Datum
  <2>2. ASSUME ~cmd PROVE Head(Pop(due.aw, AwGo(s))) = <<b.payload, b.len>>
    <3>1. Pop(due.aw, AwGo(s)) = due.aw /\ beatCnt = 0
      <4>1. ~awDone /\ ~AwGo(s)
        BY <1>10, <2>2
      <4>2. Pop(due.aw, AwGo(s)) = due.aw
        BY <4>1, Zenon DEF Pop
      <4>3. beatCnt = 0
        BY <1>1, <1>2, <4>1
      <4> QED
        BY <4>2, <4>3
    <3> QED
      BY <1>4, <1>6, <1>26, <3>1 DEF Command
  <2>3. skid' # {} => (wDone' => ~cmd) /\ (awDone' => ~s.wready)
    BY <1>13, <1>15, <1>16
  <2> QED
    BY <1>13, <2>1, <2>2, <2>3 DEF SkidDueNext
<1>29. m \in Nat /\ outstanding' + m = outstanding + n - Count(s.b)
  <2>1. m \in Nat
    <3>1. Zero(beatCnt) \in Nat
      BY DEF Zero
    <3>2. PICK k \in Nat, w \in Nat : k = Zero(beatCnt) /\ w = 1
      BY <3>1
    <3>3. PICK q \in Seq(Beat) : q = Tail(fifo)
      BY <1>20, Zenon
    <3>4. Queued(q, m, g, sending, due.w, w, due.aw, k)
      BY <1>32, <3>2, <3>3
    <3>5. due.w \in Seq(Data) /\ due.aw \in Seq(Cmd)
      BY <1>20
    <3> QED
      BY <3>4, <3>5, QueuedFacts, SMTT(30)
  <2>2. outstanding' = outstanding + Zero(g) - Count(s.b) /\ Count(s.b) \in {0, 1}
    BY <1>8, WritingWires DEF Count, Zero
  <2>3. Zero(g) \in {0, 1}
    BY DEF Zero
  <2> QED
    BY <1>1, <1>33, <2>1, <2>2, <2>3
<1>30. Rest(s) = Tail(fifo)
  BY DEF Rest
<1>31. CountersAgree'
  BY <1>9
<1> QED
  BY <1>9, <1>18, <1>19, <1>27, <1>28, <1>29, <1>30, <1>31 DEF Drained

LEMMA Drains ==
  ASSUME IInv, HistoryType, Writing, NEW in \in Offers, NEW s \in SlaveInputs, Clock(in, s),
         NEW n \in Nat, Waiting(n)
  PROVE  Drained(n, s)
<1>1. CASE Accept(s)
  BY <1>1, DrainFifo
<1>2. CASE ~Accept(s) /\ skid = {}
  BY <1>2, DrainNothing
<1>3. CASE skid # {} /\ awDone
  BY <1>3, DrainData
<1>4. CASE skid # {} /\ ~awDone
  BY <1>4, DrainAddress
<1> QED
  BY <1>1, <1>2, <1>3, <1>4

-----------------------------------------------------------------------------
(* The history's types.                                                    *)

LEMMA DueTypes ==
  ASSUME IInv, HistoryType, NEW in \in Offers, NEW s \in SlaveInputs, Clock(in, s)
  PROVE  /\ Pop(due.w, WGo(s)) \in Seq(Data) /\ Pop(due.aw, AwGo(s)) \in Seq(Cmd)
         /\ Pop(due.ar, ArGo(s)) \in Seq(Cmd)
         /\ due'.w \in Seq(Data) /\ due'.aw \in Seq(Cmd) /\ due'.ar \in Seq(Cmd)
<1>1. \A S : \A d \in Seq(S) : \A go : Pop(d, go) \in Seq(S)
  BY SeqFacts DEF Pop
<1>2. \A S : \A d \in Seq(S), x \in S : \A go : Push(d, x, go) \in Seq(S)
  BY AppendProperties DEF Push
<1>3. /\ Pop(due.w, WGo(s)) \in Seq(Data) /\ Pop(due.aw, AwGo(s)) \in Seq(Cmd)
      /\ Pop(due.ar, ArGo(s)) \in Seq(Cmd)
  BY <1>1 DEF HistoryType
<1>4. CASE Taken(in) = {}
  <2>1. due'.w = Pop(due.w, WGo(s)) /\ due'.aw = Pop(due.aw, AwGo(s)) /\ due'.ar = Pop(due.ar, ArGo(s))
    BY <1>4 DEF Clock, History
  <2> QED
    BY <1>3, <2>1
<1>5. CASE Taken(in) # {}
  <2> DEFINE b == The(in)
             left == IF sending = 0 THEN b.len ELSE sending - 1
  <2>1. b \in Beat
    BY <1>5, TakenType
  <2>2. /\ due'.aw = Push(Pop(due.aw, AwGo(s)), <<b.payload, b.len>>, b.write /\ sending = 0)
        /\ due'.w = Push(Pop(due.w, WGo(s)), <<b.payload, left = 0>>, b.write)
        /\ due'.ar = Push(Pop(due.ar, ArGo(s)), <<b.payload, b.len>>, ~b.write)
    BY <1>5 DEF Clock, History
  <2>3. <<b.payload, b.len>> \in Cmd /\ <<b.payload, left = 0>> \in Data
    BY <2>1 DEF Beat, Cmd, Data
  <2> HIDE DEF left
  <2>4. due'.aw \in Seq(Cmd) /\ due'.ar \in Seq(Cmd)
    BY <1>2, <1>3, <2>2, <2>3
  <2>5. due'.w \in Seq(Data)
    BY <1>2, <1>3, <2>2, <2>3
  <2> QED
    BY <1>3, <2>4, <2>5
<1> QED
  BY <1>4, <1>5

LEMMA ReadLength ==
  ASSUME IInv, NEW s, ArGo(s)
  PROVE  The(Ar).len \in Int
<1>1. Ar \subseteq WireBeat /\ Ar # {}
  BY OfferedType DEF Ar, ArGo
<1>2. The(Ar) \in Ar
  BY <1>1 DEF The
<1>3. The(Ar).len \in Lengths \cup {0}
  BY <1>1, <1>2 DEF WireBeat
<1> QED
  BY <1>3, Lens

LEMMA SlaveTypes ==
  ASSUME IInv, HistoryType, NEW in \in Offers, NEW s \in SlaveInputs, Clock(in, s)
  PROVE  slave'.aw \in Nat /\ slave'.w \in Nat /\ slave'.ar \in Seq(Int)
<1> DEFINE left == IF ~s.r THEN slave.ar
                   ELSE IF s.rlast THEN Tail(slave.ar)
                   ELSE [slave.ar EXCEPT ![1] = @ - 1]
<1>1. (s.b => slave.aw > 0 /\ slave.w > 0) /\ (s.r => slave.ar # <<>>)
  BY DEF SlaveInputs
<1>2. slave.aw \in Nat /\ slave.w \in Nat /\ slave.ar \in Seq(Int)
  BY DEF HistoryType
<1>3. slave'.aw \in Nat /\ slave'.w \in Nat
  BY <1>1, <1>2 DEF Clock, SlaveStep, Count
<1>4. left \in Seq(Int)
  <2>1. CASE ~s.r
    BY <1>2, <2>1
  <2>2. CASE s.r /\ s.rlast
    BY <1>1, <1>2, <2>2, SeqFacts
  <2>3. CASE s.r /\ ~s.rlast
    BY <1>1, <1>2, <2>3
  <2> QED
    BY <2>1, <2>2, <2>3
<1>5. slave'.ar = IF ArGo(s) THEN Append(left, The(Ar).len) ELSE left
  BY DEF Clock, SlaveStep
<1> HIDE DEF left
<1>6. ArGo(s) => The(Ar).len \in Int
  BY ReadLength
<1>7. slave'.ar \in Seq(Int)
  BY <1>4, <1>5, <1>6, AppendProperties
<1> QED
  BY <1>3, <1>7

-----------------------------------------------------------------------------
(* A cycle while writes are owed.                                          *)

(* The cache side is answered.                                             *)
Answered(s) == IF s.b \/ s.rlast THEN Tail(owed)
               ELSE IF s.r THEN [owed EXCEPT ![1].left = @ - 1]
               ELSE owed

LEMMA WritesAnswered ==
  ASSUME IInv, HistoryType, Writing, NEW in \in Offers, NEW s \in SlaveInputs, Clock(in, s)
  PROVE  /\ Answered(s) \in Seq(Entries) /\ Len(Answered(s)) = Len(owed) - Count(s.b)
         /\ \A i \in 1 .. Len(Answered(s)) : Answered(s)[i].write = TRUE
<1>1. PICK n \in Nat : Len(owed) = outstanding + n + Count(sending > 0)
  BY DEF Writing
<1>2. owed \in Seq(Entries) /\ Len(owed) \in Nat /\ \A i \in 1 .. Len(owed) : owed[i].write = TRUE
  BY DEF HistoryType, Writing, OneWay
<1>3. ~s.r /\ ~s.rlast /\ (s.b => outstanding > 0) /\ outstanding \in 0 .. 2
  BY WritingWires DEF IInv
<1>4. Answered(s) = IF s.b THEN Tail(owed) ELSE owed
  BY <1>3 DEF Answered
<1>5. CASE s.b
  <2>1. owed # <<>>
    <3>1. Count(sending > 0) \in Nat
      BY DEF Count
    <3> QED
      BY <1>1, <1>2, <1>3, <1>5, <3>1
  <2>2. /\ Tail(owed) \in Seq(Entries) /\ Len(Tail(owed)) = Len(owed) - 1
        /\ \A i \in 1 .. Len(Tail(owed)) : Tail(owed)[i] = owed[i + 1]
    BY <1>2, <2>1, HeadTailProperties
  <2>3. \A i \in 1 .. Len(Tail(owed)) : Tail(owed)[i].write = TRUE
    BY <1>2, <2>2
  <2> QED
    BY <1>4, <1>5, <2>2, <2>3 DEF Count
<1>6. CASE ~s.b
  BY <1>2, <1>4, <1>6 DEF Count
<1> QED
  BY <1>5, <1>6

LEMMA WritingStep ==
  ASSUME IInv, HistoryType, Writing, NEW in \in Offers, NEW s \in SlaveInputs, Clock(in, s),
         Taken(in) # {} => The(in).write
  PROVE  Writing' /\ owed' \in Seq(Entries)
<1> DEFINE w  == Pop(due.w, WGo(s))
           aw == Pop(due.aw, AwGo(s))
<1>1. PICK n \in Nat : Waiting(n) /\ Len(owed) = outstanding + n + Count(sending > 0)
  BY DEF Writing
<1>2. Drained(n, s)
  BY <1>1, Drains
<1>3. PICK m \in Nat : /\ Queued(Rest(s), m, beatCnt', sending, w, DataHeld', aw, AddressHeld')
                       /\ outstanding' + m = outstanding + n - Count(s.b)
  BY <1>2 DEF Drained
<1>4. /\ CountersAgree' /\ SkidRegs' /\ SlaveCounts' /\ SkidDueNext(w, aw)
  BY <1>2 DEF Drained
<1>5. /\ Answered(s) \in Seq(Entries) /\ Len(Answered(s)) = outstanding' + m + Count(sending > 0)
      /\ \A i \in 1 .. Len(Answered(s)) : Answered(s)[i].write = TRUE
  <2>1. /\ Count(sending > 0) \in {0, 1} /\ Count(s.b) \in {0, 1}
        /\ outstanding \in Int /\ outstanding' \in Int
    BY TrackingStep DEF IInv, TypeOK, Count
  <2>2. /\ Answered(s) \in Seq(Entries) /\ Len(Answered(s)) = Len(owed) - Count(s.b)
        /\ \A i \in 1 .. Len(Answered(s)) : Answered(s)[i].write = TRUE
    BY WritesAnswered
  <2>3. Len(owed) - Count(s.b) = outstanding' + m + Count(sending > 0)
    BY <1>1, <1>3, <2>1
  <2> QED
    BY <2>2, <2>3
<1>6. w \in Seq(Data) /\ aw \in Seq(Cmd)
  BY DueTypes
<1>7. due.ar = <<>> /\ Pop(due.ar, ArGo(s)) = <<>>
  BY DEF Writing, Pop
<1>8. DataHeld' \in Nat /\ AddressHeld' \in Nat /\ sending \in 0 .. 255 /\ beatCnt' \in 0 .. 255
  BY TrackingStep DEF DataHeld, AddressHeld, Count, IInv
<1>9. Rest(s) \in Seq(Beat)
  <2>1. fifo \in Seq(Beat)
    BY DEF IInv, TypeOK
  <2>2. Accept(s) => fifo # <<>>
    BY AcceptFresh DEF CanIssue
  <2> QED
    BY <2>1, <2>2, SeqFacts DEF Rest
<1>10. fifo' = IF Taken(in) = {} THEN Rest(s) ELSE Append(Rest(s), The(in))
  BY DEF Clock, RequestFifo, Rest
<1>11. CASE Taken(in) = {}
  <2>1. fifo' = Rest(s) /\ sending' = sending /\ owed' = Answered(s)
    BY <1>10, <1>11 DEF Clock, CacheSide, Answered
  <2>2. due'.w = w /\ due'.aw = aw /\ due'.ar = <<>>
    BY <1>7, <1>11 DEF Clock, History
  <2>3. Waiting(m)'
    BY <1>3, <2>1, <2>2 DEF Waiting
  <2>4. SkidDue(due.w, due.aw)'
    BY <1>4, <2>2 DEF SkidDue, SkidDueNext
  <2>5. OneWay(TRUE)' /\ owed' \in Seq(Entries)
    BY <1>5, <2>1 DEF OneWay
  <2>6. Len(owed') = outstanding' + m + Count(sending' > 0)
    BY <1>5, <2>1
  <2> QED
    BY <1>4, <2>2, <2>3, <2>4, <2>5, <2>6 DEF Writing
<1>12. CASE Taken(in) # {}
  <2> DEFINE b == The(in)
  <2>1. b \in Beat /\ b.write /\ (sending > 0 => b.len = 0) /\ b.len \in 0 .. 255
    BY <1>12, TakenType, Lens DEF Beat
  <2>2. fifo' = Append(Rest(s), b)
    BY <1>10, <1>12
  <2> HIDE DEF b, w, aw
  <2>3. sending' = (IF sending > 0 THEN sending - 1 ELSE b.len)
    BY <1>12, <2>1 DEF Clock, CacheSide, b
  <2>4. sending' \in 0 .. 255
    BY <1>8, <2>1, <2>3
  <2>5. /\ due'.w = Append(w, Datum(b, sending')) /\ due'.aw = Push(aw, Command(b), sending = 0)
        /\ due'.ar = <<>>
    <3> DEFINE left == IF sending = 0 THEN b.len ELSE sending - 1
    <3>1. /\ due'.aw = Push(aw, <<b.payload, b.len>>, b.write /\ sending = 0)
          /\ due'.w = Push(w, <<b.payload, left = 0>>, b.write)
          /\ due'.ar = Push(<<>>, <<b.payload, b.len>>, ~b.write)
      BY <1>7, <1>12 DEF Clock, History, b, w, aw
    <3>2. left = sending'
      BY <1>8, <2>3
    <3> HIDE DEF left
    <3>3. due'.w = Append(w, Datum(b, left))
      BY <2>1, <3>1 DEF Push, Datum
    <3> QED
      BY <2>1, <3>1, <3>2, <3>3 DEF Push, Command
  <2>6. Queued(Append(Rest(s), b), m + Zero(sending'), beatCnt', sending', Append(w, Datum(b, sending')),
               DataHeld', Push(aw, Command(b), sending = 0), AddressHeld')
    BY <1>3, <1>6, <1>8, <1>9, <2>1, <2>3, QueuedAppend DEF w, aw
  <2>14. PICK k : k = m + Zero(sending')
    OBVIOUS
  <2>7. Waiting(k)'
    BY <2>2, <2>5, <2>6, <2>14 DEF Waiting
  <2>8. (DataHeld' = 1 => w # <<>>) /\ (AddressHeld' = 1 => aw # <<>>)
    BY <1>3, <1>6, <1>8, <1>9, QueuedFacts DEF w, aw
  <2>9. SkidDue(due.w, due.aw)'
    <3> SUFFICES ASSUME NEW x \in skid'
                 PROVE  /\ wDone' => Head(due'.aw) = <<x.payload, x.len>>
                        /\ awDone' => Head(due'.w) = <<x.payload, x.last>>
      BY DEF SkidDue
    <3>1. skid' # {} /\ (awDone' <=> ~wDone')
      BY <1>4 DEF SkidRegs
    <3>2. /\ wDone' => Head(aw) = <<x.payload, x.len>>
          /\ awDone' => Head(w) = <<x.payload, x.last>>
      BY <1>4 DEF SkidDueNext, w, aw
    <3>3. (awDone' => DataHeld' = 1) /\ (wDone' => AddressHeld' = 1)
      BY <3>1, Zenon DEF DataHeld, AddressHeld, Count
    <3>4. ASSUME wDone' PROVE Head(due'.aw) = Head(aw)
      <4>1. aw # <<>>
        BY <2>8, <3>3, <3>4
      <4> QED
        BY <1>6, <2>5, <4>1, SeqFacts DEF Push, w, aw
    <3>5. ASSUME awDone' PROVE Head(due'.w) = Head(w)
      <4>1. w # <<>>
        BY <2>8, <3>3, <3>5
      <4> QED
        BY <1>6, <2>5, <4>1, SeqFacts DEF w
    <3> QED
      BY <3>2, <3>4, <3>5
  <2>10. owed' = IF sending > 0 THEN Answered(s)
                 ELSE Append(Answered(s), [write |-> TRUE, left |-> 0])
    BY <1>12, <2>1 DEF Clock, CacheSide, Answered, b
  <2>11. /\ owed' \in Seq(Entries) /\ Len(owed') = Len(Answered(s)) + Zero(sending)
         /\ \A i \in 1 .. Len(owed') : owed'[i].write = TRUE
    <3>1. CASE sending > 0
      BY <1>5, <2>10, <3>1 DEF Zero
    <3>2. CASE ~(sending > 0)
      <4>1. [write |-> TRUE, left |-> 0] \in Entries /\ sending = 0
        BY <1>8, <3>2 DEF Entries
      <4>2. /\ owed' \in Seq(Entries) /\ Len(owed') = Len(Answered(s)) + 1
            /\ \A i \in 1 .. Len(Answered(s)) : owed'[i] = Answered(s)[i]
            /\ owed'[Len(Answered(s)) + 1] = [write |-> TRUE, left |-> 0]
        BY <1>5, <2>10, <3>2, <4>1, AppendProperties
      <4>3. ASSUME NEW i \in 1 .. Len(owed') PROVE owed'[i].write = TRUE
        <5>1. Len(Answered(s)) \in Nat
          BY <1>5
        <5>2. CASE i \in 1 .. Len(Answered(s))
          BY <1>5, <4>2, <5>2
        <5>3. CASE i = Len(Answered(s)) + 1
          BY <4>2, <5>3
        <5>4. i \in 1 .. Len(Answered(s)) + 1
          BY <4>2
        <5>5. i \in 1 .. Len(Answered(s)) \/ i = Len(Answered(s)) + 1
          BY <5>1, <5>4
        <5> QED
          BY <5>2, <5>3, <5>5, Zenon
      <4> QED
        BY <4>1, <4>2, <4>3 DEF Zero
    <3> QED
      BY <3>1, <3>2
  <2>12. OneWay(TRUE)'
    BY <2>11 DEF OneWay
  <2>13. m + Zero(sending') \in Nat
         /\ Len(owed') = outstanding' + (m + Zero(sending')) + Count(sending' > 0)
    <3>1. outstanding' \in Int
      BY TrackingStep
    <3>2. Count(sending > 0) = (IF sending > 0 THEN 1 ELSE 0)
          /\ Count(sending' > 0) = (IF sending' > 0 THEN 1 ELSE 0)
      BY DEF Count
    <3> QED
      BY <1>5, <1>8, <2>4, <2>11, <3>1, <3>2 DEF Zero
  <2>15. \E j \in Nat : Waiting(j)' /\ Len(owed') = outstanding' + j + Count(sending' > 0)
    BY <2>7, <2>13, <2>14
  <2> QED
    BY <1>4, <2>5, <2>9, <2>11, <2>12, <2>15 DEF Writing
<1> QED
  BY <1>11, <1>12

-----------------------------------------------------------------------------
(* A cycle while reads are owed.                                           *)

(* The address channel of reads owes all that is in the FIFO.              *)
ReadsDue(q, d) ==
  /\ Len(d) = Len(q)
  /\ \A i \in 1 .. Len(q) : ~q[i].write /\ d[i] = Command(q[i])

Reading ==
  /\ OneWay(FALSE)
  /\ reqCnt = 0 /\ beatCnt = 0 /\ sending = 0
  /\ skid = {} /\ ~awDone /\ ~wDone
  /\ due.aw = <<>> /\ due.w = <<>> /\ ReadsDue(fifo, due.ar)
  /\ slave.aw = 0 /\ slave.w = 0 /\ Len(slave.ar) = outstanding
  /\ Len(owed) = outstanding + Len(fifo)

LEMMA ReadingWires ==
  ASSUME IInv, HistoryType, Reading, NEW in \in Offers, NEW s \in SlaveInputs, Clock(in, s)
  PROVE  /\ ~s.b /\ (s.rlast => s.r) /\ (s.r => slave.ar # <<>> /\ outstanding > 0)
         /\ Aw = {} /\ W = {} /\ ~AwGo(s) /\ ~WGo(s)
         /\ (Accept(s) <=> ArGo(s)) /\ (BurstIssued(s) <=> ArGo(s)) /\ ~WriteAccepted(s)
         /\ ArGo(s) => fifo # <<>> /\ ~HalfLeft(s)
         /\ outstanding' = outstanding + Count(ArGo(s)) - Count(s.rlast)
<1>1. /\ skid = {} /\ slave.aw = 0 /\ Len(slave.ar) = outstanding /\ slave.ar \in Seq(Int)
      /\ outstanding \in 0 .. 2 /\ fifo \in Seq(Beat)
  BY DEF Reading, HistoryType, IInv, TypeOK
<1>2. ~s.b /\ (s.rlast => s.r) /\ (s.r => slave.ar # <<>>)
  BY <1>1 DEF SlaveInputs
<1>3. s.r => outstanding > 0
  BY <1>1, <1>2
<1>4. fifo # <<>> => ~Head(fifo).write
  BY <1>1, SeqFacts DEF Reading, ReadsDue
<1>5. \A b \in Offered : ~b.write
  BY <1>1, <1>4 DEF Offered, Fresh, CanIssue
<1>6. Aw = {} /\ W = {} /\ ~AwGo(s) /\ ~WGo(s)
  BY <1>5 DEF Aw, W, AwGo, WGo
<1>7. Accept(s) <=> ArGo(s)
  BY <1>1, <1>6 DEF Accept
<1>8. ArGo(s) => fifo # <<>> /\ ~HalfLeft(s)
  BY <1>6, <1>7, AcceptFresh DEF CanIssue, HalfLeft, ArGo
<1>9. (BurstIssued(s) <=> ArGo(s)) /\ ~WriteAccepted(s)
  BY <1>4, <1>7, <1>8 DEF BurstIssued, WriteAccepted
<1>10. outstanding' = outstanding + Count(ArGo(s)) - Count(s.rlast)
  <2>1. outstanding' = (outstanding + Count(BurstIssued(s))
                         - Count(BurstAnswered(s) /\ outstanding # 0)) % 4
    BY DEF Clock, ResponseTracking
  <2>2. Count(BurstAnswered(s) /\ outstanding # 0) = Count(s.rlast)
        /\ Count(BurstIssued(s)) = Count(ArGo(s))
    BY <1>1, <1>2, <1>3, <1>9 DEF Count, BurstAnswered
  <2>3. ArGo(s) => outstanding # 2
    BY <1>7, AcceptFresh DEF CanIssue
  <2>4. Count(ArGo(s)) \in {0, 1} /\ Count(s.rlast) \in {0, 1}
        /\ (outstanding = 2 => Count(ArGo(s)) = 0)
        /\ (outstanding = 0 => Count(s.rlast) = 0)
    BY <1>2, <1>3, <2>3 DEF Count
  <2> QED
    BY <1>1, <2>1, <2>2, <2>4
<1> QED
  BY <1>2, <1>3, <1>6, <1>7, <1>8, <1>9, <1>10

LEMMA ReadsDuePop ==
  ASSUME NEW q \in Seq(Beat), q # <<>>, NEW d \in Seq(Cmd), ReadsDue(q, d)
  PROVE  d # <<>> /\ Head(d) = Command(Head(q)) /\ Tail(d) \in Seq(Cmd) /\ ReadsDue(Tail(q), Tail(d))
<1>1. Len(d) = Len(q) /\ Len(q) \in Nat \ {0} /\ d # <<>>
  BY SeqFacts DEF ReadsDue
<1>2. /\ Len(Tail(q)) = Len(q) - 1 /\ Len(Tail(d)) = Len(q) - 1 /\ Tail(d) \in Seq(Cmd)
      /\ \A i \in 1 .. Len(q) - 1 : Tail(q)[i] = q[i + 1] /\ Tail(d)[i] = d[i + 1]
  BY <1>1, HeadTailProperties
<1>3. Head(d) = d[1] /\ Head(q) = q[1] /\ 1 \in 1 .. Len(q)
  BY <1>1
<1>4. Head(d) = Command(Head(q))
  BY <1>3 DEF ReadsDue
<1>5. ASSUME NEW i \in 1 .. Len(Tail(q))
      PROVE  ~Tail(q)[i].write /\ Tail(d)[i] = Command(Tail(q)[i])
  <2>1. i + 1 \in 1 .. Len(q) /\ Tail(q)[i] = q[i + 1] /\ Tail(d)[i] = d[i + 1]
    BY <1>1, <1>2
  <2> QED
    BY <2>1 DEF ReadsDue
<1> QED
  BY <1>1, <1>2, <1>4, <1>5 DEF ReadsDue

LEMMA ReadsDueAppend ==
  ASSUME NEW q \in Seq(Beat), NEW b \in Beat, ~b.write, NEW d \in Seq(Cmd), ReadsDue(q, d)
  PROVE  ReadsDue(Append(q, b), Append(d, Command(b)))
<1>1. Command(b) \in Cmd
  BY DEF Command, Cmd, Beat
<1>2. /\ Len(q) \in Nat /\ Len(Append(q, b)) = Len(q) + 1
      /\ \A i \in 1 .. Len(q) : Append(q, b)[i] = q[i]
      /\ Append(q, b)[Len(q) + 1] = b
  BY AppendProperties
<1>3. /\ Len(d) = Len(q) /\ Len(Append(d, Command(b))) = Len(q) + 1
      /\ \A i \in 1 .. Len(q) : Append(d, Command(b))[i] = d[i]
      /\ Append(d, Command(b))[Len(q) + 1] = Command(b)
  BY <1>1, AppendProperties DEF ReadsDue
<1>4. ASSUME NEW i \in 1 .. Len(q) + 1
      PROVE  ~Append(q, b)[i].write /\ Append(d, Command(b))[i] = Command(Append(q, b)[i])
  <2>1. CASE i \in 1 .. Len(q)
    BY <1>2, <1>3, <2>1 DEF ReadsDue
  <2>2. CASE i = Len(q) + 1
    BY <1>2, <1>3, <2>2
  <2>3. i \in 1 .. Len(q) \/ i = Len(q) + 1
    BY <1>2
  <2> QED
    BY <2>1, <2>2, <2>3
<1> QED
  BY <1>2, <1>3, <1>4 DEF ReadsDue

LEMMA ReadsAnswered ==
  ASSUME IInv, HistoryType, Reading, NEW in \in Offers, NEW s \in SlaveInputs, Clock(in, s)
  PROVE  /\ Answered(s) \in Seq(Entries) /\ Len(Answered(s)) = Len(owed) - Count(s.rlast)
         /\ \A i \in 1 .. Len(Answered(s)) : Answered(s)[i].write = FALSE
<1>1. owed \in Seq(Entries) /\ Len(owed) \in Nat /\ \A i \in 1 .. Len(owed) : owed[i].write = FALSE
  BY DEF HistoryType, Reading, OneWay
<1>2. ~s.b /\ (s.rlast => s.r) /\ (s.r => owed # <<>>)
  <2>1. fifo \in Seq(Beat) /\ outstanding \in 0 .. 2
    BY DEF IInv, TypeOK
  <2>2. Len(fifo) \in Nat /\ Len(owed) = outstanding + Len(fifo)
    BY <2>1 DEF Reading
  <2>3. s.r => Len(owed) > 0
    BY <2>1, <2>2, ReadingWires
  <2> QED
    BY <1>1, <2>3, ReadingWires
<1>3. CASE s.rlast
  <2>1. Answered(s) = Tail(owed) /\ owed # <<>>
    BY <1>2, <1>3 DEF Answered
  <2>2. /\ Tail(owed) \in Seq(Entries) /\ Len(Tail(owed)) = Len(owed) - 1
        /\ \A i \in 1 .. Len(Tail(owed)) : Tail(owed)[i] = owed[i + 1]
    BY <1>1, <2>1, HeadTailProperties
  <2>3. \A i \in 1 .. Len(Tail(owed)) : Tail(owed)[i].write = FALSE
    BY <1>1, <2>2
  <2> QED
    BY <1>3, <2>1, <2>2, <2>3 DEF Count
<1>4. CASE ~s.rlast /\ s.r
  <2>1. Answered(s) = [owed EXCEPT ![1].left = @ - 1] /\ 1 \in 1 .. Len(owed)
    BY <1>1, <1>2, <1>4 DEF Answered
  <2>2. [owed[1] EXCEPT !.left = @ - 1] \in Entries
        /\ [owed[1] EXCEPT !.left = @ - 1].write = FALSE
    <3>1. owed[1] \in Entries /\ owed[1].write = FALSE
      BY <1>1, <2>1
    <3>2. \A e \in Entries : /\ [e EXCEPT !.left = @ - 1] \in Entries
                             /\ [e EXCEPT !.left = @ - 1].write = e.write
      BY DEF Entries
    <3> QED
      BY <3>1, <3>2
  <2>3. Answered(s) = [owed EXCEPT ![1] = [owed[1] EXCEPT !.left = @ - 1]]
    BY <2>1
  <2>4. /\ Answered(s) \in Seq(Entries) /\ Len(Answered(s)) = Len(owed)
        /\ Answered(s)[1] = [owed[1] EXCEPT !.left = @ - 1]
        /\ \A i \in 2 .. Len(owed) : Answered(s)[i] = owed[i]
    BY <1>1, <2>1, <2>2, <2>3
  <2>5. \A i \in 1 .. Len(owed) : Answered(s)[i].write = FALSE
    <3> SUFFICES ASSUME NEW i \in 1 .. Len(owed) PROVE Answered(s)[i].write = FALSE
      OBVIOUS
    <3>1. CASE i = 1
      BY <2>2, <2>4, <3>1
    <3>2. CASE i \in 2 .. Len(owed)
      BY <1>1, <2>4, <3>2
    <3>3. i = 1 \/ i \in 2 .. Len(owed)
      BY <1>1
    <3> QED
      BY <3>1, <3>2, <3>3, Zenon
  <2> QED
    BY <1>1, <1>4, <2>4, <2>5 DEF Count
<1>5. CASE ~s.r
  <2>1. Answered(s) = owed
    BY <1>2, <1>5 DEF Answered
  <2>2. Count(s.rlast) = 0
    BY <1>2, <1>5 DEF Count
  <2> QED
    BY <1>1, <2>1, <2>2
<1> QED
  BY <1>3, <1>4, <1>5

LEMMA ReadingStep ==
  ASSUME IInv, HistoryType, Reading, NEW in \in Offers, NEW s \in SlaveInputs, Clock(in, s),
         Taken(in) # {} => ~The(in).write
  PROVE  Reading' /\ owed' \in Seq(Entries)
<1> DEFINE ar == Pop(due.ar, ArGo(s))
<1>1. /\ fifo \in Seq(Beat) /\ due.ar \in Seq(Cmd) /\ ReadsDue(fifo, due.ar) /\ slave.ar \in Seq(Int)
      /\ outstanding \in 0 .. 2 /\ sending = 0
  BY DEF IInv, TypeOK, HistoryType, Reading
<1>2. /\ ~s.b /\ (s.rlast => s.r) /\ (s.r => slave.ar # <<>>) /\ (Accept(s) <=> ArGo(s))
      /\ (ArGo(s) => fifo # <<>> /\ ~HalfLeft(s)) /\ ~AwGo(s) /\ ~WGo(s) /\ W = {} /\ ~WriteAccepted(s)
      /\ outstanding' = outstanding + Count(ArGo(s)) - Count(s.rlast)
  BY ReadingWires
<1>3. Count(ArGo(s)) = (IF ArGo(s) THEN 1 ELSE 0) /\ Count(s.rlast) = (IF s.rlast THEN 1 ELSE 0)
      /\ Count(s.b) = 0
  BY <1>2 DEF Count
<1>4. /\ Rest(s) \in Seq(Beat) /\ ar \in Seq(Cmd) /\ ReadsDue(Rest(s), ar)
      /\ Len(Rest(s)) = Len(fifo) - Count(ArGo(s))
  <2>1. CASE ArGo(s)
    <3>1. /\ due.ar # <<>> /\ Tail(due.ar) \in Seq(Cmd) /\ ReadsDue(Tail(fifo), Tail(due.ar))
          /\ Tail(fifo) \in Seq(Beat) /\ Len(Tail(fifo)) = Len(fifo) - 1
      BY <1>1, <1>2, <2>1, ReadsDuePop, SeqFacts
    <3>2. Rest(s) = Tail(fifo) /\ ar = Tail(due.ar)
      BY <1>2, <2>1, <3>1 DEF Rest, Pop
    <3> QED
      BY <1>3, <2>1, <3>1, <3>2
  <2>2. CASE ~ArGo(s)
    <3>1. Rest(s) = fifo /\ ar = due.ar
      BY <1>2, <2>2 DEF Rest, Pop
    <3> QED
      BY <1>1, <1>3, <2>2, <3>1
  <2> QED
    BY <2>1, <2>2
<1> HIDE DEF ar
<1>5. reqCnt' = 0 /\ beatCnt' = 0 /\ skid' = {}
  <2>1. reqCnt' = reqCnt /\ beatCnt' = beatCnt
    BY <1>2 DEF Clock, WriteTracking
  <2>2. ~((Accept(s) \/ skid # {}) /\ HalfLeft(s))
    BY <1>2 DEF Reading
  <2> QED
    BY <2>1, <2>2 DEF Reading, Clock, SkidBuffer
<1>6. ~awDone' /\ ~wDone'
  <2>1. ~awDone /\ ~wDone
    BY DEF Reading
  <2> QED
    BY <1>2, <2>1, Zenon DEF Clock, ChannelTracking
<1>7. slave'.aw = 0 /\ slave'.w = 0 /\ Len(slave'.ar) = outstanding'
  <2>1. slave.aw = 0 /\ slave.w = 0 /\ Len(slave.ar) = outstanding
    BY DEF Reading
  <2>2. Count(AwGo(s)) = 0 /\ Count(\E b \in W : s.wready /\ b.last) = 0
    BY <1>2 DEF Count
  <2>3. slave'.aw = 0 /\ slave'.w = 0
    <3>1. /\ slave'.aw = slave.aw + Count(AwGo(s)) - Count(s.b)
          /\ slave'.w = slave.w + Count(\E b \in W : s.wready /\ b.last) - Count(s.b)
      BY DEF Clock, SlaveStep
    <3>2. Count(s.b) = 0
      BY <1>2 DEF Count
    <3>3. slave'.aw = 0 + 0 - 0 /\ slave'.w = 0 + 0 - 0
      BY <2>1, <2>2, <3>1, <3>2, Zenon
    <3> QED
      BY <3>3
  <2> DEFINE left == IF ~s.r THEN slave.ar
                     ELSE IF s.rlast THEN Tail(slave.ar)
                     ELSE [slave.ar EXCEPT ![1] = @ - 1]
  <2>4. left \in Seq(Int) /\ Len(left) = Len(slave.ar) - Count(s.rlast)
    <3>1. CASE ~s.r
      <4>1. left = slave.ar /\ slave.ar \in Seq(Int)
        BY <1>1, <3>1
      <4>2. Len(slave.ar) - 0 = Len(slave.ar)
        BY <4>1
      <4>3. ~s.rlast
        BY <1>2, <3>1
      <4>4. Count(s.rlast) = 0
        BY <4>3 DEF Count
      <4> HIDE DEF left
      <4> QED
        BY <4>1, <4>2, <4>4, Zenon
    <3>2. CASE s.rlast
      BY <1>1, <1>2, <1>3, <3>2, SeqFacts
    <3>3. CASE s.r /\ ~s.rlast
      BY <1>1, <1>2, <1>3, <3>3
    <3> QED
      BY <3>1, <3>2, <3>3
  <2>5. slave'.ar = IF ArGo(s) THEN Append(left, The(Ar).len) ELSE left
    BY DEF Clock, SlaveStep
  <2> HIDE DEF left
  <2>6. ArGo(s) => The(Ar).len \in Int
    BY ReadLength
  <2>7. Len(slave'.ar) = Len(left) + Count(ArGo(s))
    <3>1. CASE ArGo(s)
      BY <1>3, <2>4, <2>5, <2>6, <3>1, AppendProperties
    <3>2. CASE ~ArGo(s)
      BY <1>3, <2>4, <2>5, <3>2
    <3> QED
      BY <3>1, <3>2
  <2> QED
    BY <1>1, <1>2, <1>3, <2>1, <2>3, <2>4, <2>7
<1>8. Pop(due.aw, AwGo(s)) = <<>> /\ Pop(due.w, WGo(s)) = <<>>
  BY DEF Reading, Pop
<1>9. /\ Answered(s) \in Seq(Entries) /\ Len(Answered(s)) = outstanding' + Len(Rest(s))
      /\ \A i \in 1 .. Len(Answered(s)) : Answered(s)[i].write = FALSE
  <2>1. Len(owed) = outstanding + Len(fifo) /\ Len(fifo) \in Nat
    BY <1>1 DEF Reading
  <2>2. /\ Answered(s) \in Seq(Entries) /\ Len(Answered(s)) = Len(owed) - Count(s.rlast)
        /\ \A i \in 1 .. Len(Answered(s)) : Answered(s)[i].write = FALSE
    BY ReadsAnswered
  <2>3. Len(owed) - Count(s.rlast) = outstanding' + Len(Rest(s))
    BY <1>1, <1>2, <1>3, <1>4, <2>1
  <2> QED
    BY <2>2, <2>3
<1>10. fifo' = IF Taken(in) = {} THEN Rest(s) ELSE Append(Rest(s), The(in))
  BY DEF Clock, RequestFifo, Rest
<1>11. CASE Taken(in) = {}
  <2>1. fifo' = Rest(s) /\ sending' = 0 /\ owed' = Answered(s)
    BY <1>1, <1>10, <1>11 DEF Clock, CacheSide, Answered
  <2>2. due'.w = <<>> /\ due'.aw = <<>> /\ due'.ar = ar
    BY <1>8, <1>11 DEF Clock, History, ar
  <2>3. OneWay(FALSE)' /\ owed' \in Seq(Entries)
    BY <1>9, <2>1 DEF OneWay
  <2> QED
    BY <1>4, <1>5, <1>6, <1>7, <1>9, <2>1, <2>2, <2>3 DEF Reading
<1>12. CASE Taken(in) # {}
  <2> DEFINE b == The(in)
             y == [write |-> b.write, left |-> IF b.write THEN 0 ELSE b.len]
  <2>1. b \in Beat /\ ~b.write /\ b.len \in 0 .. 255
    BY <1>12, TakenType, Lens DEF Beat
  <2>2. fifo' = Append(Rest(s), b) /\ sending' = 0 /\ owed' = Append(Answered(s), y)
    BY <1>1, <1>10, <1>12, <2>1 DEF Clock, CacheSide, Answered
  <2>3. y \in Entries /\ y.write = FALSE
    BY <2>1 DEF Entries, Beat
  <2>4. due'.aw = <<>> /\ due'.w = <<>> /\ due'.ar = Append(ar, Command(b))
    <3> DEFINE left == IF sending = 0 THEN b.len ELSE sending - 1
    <3>1. /\ due'.aw = Push(<<>>, <<b.payload, b.len>>, b.write /\ sending = 0)
          /\ due'.w = Push(<<>>, <<b.payload, left = 0>>, b.write)
          /\ due'.ar = Push(ar, <<b.payload, b.len>>, ~b.write)
      BY <1>8, <1>12 DEF Clock, History, ar
    <3> QED
      BY <2>1, <3>1 DEF Push, Command
  <2> HIDE DEF b, y
  <2>5. ReadsDue(fifo', due'.ar) /\ Len(fifo') = Len(Rest(s)) + 1
    BY <1>4, <2>1, <2>2, <2>4, ReadsDueAppend, AppendProperties
  <2>6. /\ owed' \in Seq(Entries) /\ Len(owed') = Len(Answered(s)) + 1
        /\ \A i \in 1 .. Len(Answered(s)) : owed'[i] = Answered(s)[i]
        /\ owed'[Len(Answered(s)) + 1] = y
    BY <1>9, <2>2, <2>3, AppendProperties
  <2>7. OneWay(FALSE)'
    <3>1. Len(Answered(s)) \in Nat
      BY <1>9
    <3>2. ASSUME NEW i \in 1 .. Len(owed') PROVE owed'[i].write = FALSE
      <4>1. i \in 1 .. Len(Answered(s)) \/ i = Len(Answered(s)) + 1
        BY <2>6, <3>1
      <4>2. CASE i \in 1 .. Len(Answered(s))
        BY <1>9, <2>6, <4>2
      <4>3. CASE i = Len(Answered(s)) + 1
        BY <2>3, <2>6, <4>3
      <4> QED
        BY <4>1, <4>2, <4>3, Zenon
    <3>3. DOMAIN owed' = 1 .. Len(owed')
      BY <2>6, Zenon, LenProperties
    <3> QED
      BY <3>2, <3>3, Zenon DEF OneWay
  <2>8. Len(owed') = outstanding' + Len(fifo')
    <3>1. outstanding' \in Int /\ Len(Rest(s)) \in Int
      BY <1>4, TrackingStep
    <3> QED
      BY <1>9, <2>5, <2>6, <3>1
  <2> QED
    BY <1>5, <1>6, <1>7, <2>2, <2>4, <2>5, <2>6, <2>7, <2>8 DEF Reading
<1> QED
  BY <1>11, <1>12

-----------------------------------------------------------------------------
(* The invariant.                                                          *)

(* Where nothing is owed, nothing is anywhere, and either direction may    *)
(* begin.                                                                  *)
LEMMA IdleAfterWrites ==
  ASSUME IInv, HistoryType, Writing, owed = <<>>
  PROVE  Reading
<1>1. PICK n \in Nat : Waiting(n) /\ Len(owed) = outstanding + n + Count(sending > 0)
  BY DEF Writing
<1>2. outstanding \in 0 .. 2 /\ sending \in 0 .. 255 /\ beatCnt \in 0 .. 255 /\ fifo \in Seq(Beat)
  BY DEF IInv, TypeOK
<1>3. outstanding = 0 /\ n = 0 /\ sending = 0
  <2>1. Len(owed) = 0 /\ Count(sending > 0) = (IF sending > 0 THEN 1 ELSE 0)
    BY DEF Count
  <2> QED
    BY <1>1, <1>2, <2>1
<1>4. Queued(fifo, 0, beatCnt, 0, due.w, DataHeld, due.aw, AddressHeld)
  BY <1>1, <1>3 DEF Waiting
<1>5. due.w \in Seq(Data) /\ due.aw \in Seq(Cmd) /\ DataHeld \in Nat /\ AddressHeld \in Nat
  BY HeldType DEF HistoryType
<1>6. fifo = <<>> /\ beatCnt = 0 /\ Len(due.w) = DataHeld /\ Len(due.aw) = AddressHeld
  BY <1>2, <1>4, <1>5, QueuedFacts
<1>7. skid = {}
  <2> SUFFICES ASSUME skid # {} PROVE FALSE
    OBVIOUS
  <2>1. PICK b : skid = {b}
    BY DEF IInv, TypeOK
  <2>2. (awDone <=> ~wDone) /\ b.last
    BY <1>6, <2>1 DEF Writing, SkidRegs
  <2>3. LastHeld
    BY <2>1, <2>2 DEF LastHeld
  <2>4. slave.w = 0 - Count(LastHeld /\ ~wDone) /\ slave.aw = 0 + Count(awDone) - Count(LastHeld)
    BY <1>3 DEF Writing, SlaveCounts
  <2>5. slave.w \in Nat /\ slave.aw \in Nat
    BY DEF HistoryType
  <2>6. CASE wDone
    BY <2>2, <2>3, <2>4, <2>5, <2>6 DEF Count
  <2>7. CASE ~wDone
    BY <2>2, <2>3, <2>4, <2>5, <2>7 DEF Count
  <2> QED
    BY <2>6, <2>7
<1>8. ~wDone /\ ~awDone
  BY <1>6, <1>7 DEF Writing, SkidRegs
<1>9. due.w = <<>> /\ due.aw = <<>>
  BY <1>5, <1>6, <1>7, HeldType
<1>10. slave.aw = 0 /\ slave.w = 0 /\ slave.ar = <<>>
  <2>1. Count(LastHeld) = 0 /\ Count(LastHeld /\ ~wDone) = 0 /\ Count(awDone) = 0
    BY <1>7, <1>8 DEF LastHeld, Count
  <2> QED
    BY <1>3, <2>1 DEF Writing, SlaveCounts
<1>11. reqCnt = 0
  BY <1>6 DEF Writing, CountersAgree
<1>12. OneWay(FALSE) /\ Len(owed) = 0
  BY DEF OneWay
<1>13. ReadsDue(fifo, due.ar)
  BY <1>6 DEF Writing, ReadsDue
<1>14. Len(slave.ar) = outstanding /\ Len(owed) = outstanding + Len(fifo)
  BY <1>3, <1>6, <1>10, <1>12
<1> QED
  BY <1>3, <1>6, <1>7, <1>8, <1>9, <1>10, <1>11, <1>12, <1>13, <1>14 DEF Reading

LEMMA IdleAfterReads ==
  ASSUME IInv, HistoryType, Reading, owed = <<>>
  PROVE  Writing
<1>1. outstanding \in 0 .. 2 /\ fifo \in Seq(Beat) /\ Len(fifo) \in Nat /\ due.ar \in Seq(Cmd)
      /\ slave.ar \in Seq(Int)
  BY DEF IInv, TypeOK, HistoryType
<1>2. outstanding = 0 /\ fifo = <<>> /\ due.ar = <<>> /\ slave.ar = <<>>
  <2>1. Len(owed) = 0 /\ Len(owed) = outstanding + Len(fifo) /\ Len(due.ar) = Len(fifo)
        /\ Len(slave.ar) = outstanding
    BY DEF Reading, ReadsDue
  <2> QED
    BY <1>1, <2>1
<1>3. Waiting(0)
  <2>1. DataHeld = 0 /\ AddressHeld = 0
    BY HeldType DEF Reading
  <2> QED
    BY <1>2, <2>1, QueuedEmpty DEF Waiting, Reading
<1>4. Len(owed) = outstanding + 0 + Count(sending > 0)
  <2>1. Count(sending > 0) = 0
    BY DEF Reading, Count
  <2> QED
    BY <1>2, <2>1
<1>5. OneWay(TRUE) /\ CountersAgree /\ SkidRegs /\ SkidDue(due.w, due.aw)
  BY DEF Reading, OneWay, CountersAgree, SkidRegs, SkidDue
<1>6. SlaveCounts
  <2>1. Count(LastHeld) = 0 /\ Count(LastHeld /\ ~wDone) = 0 /\ Count(awDone) = 0
    BY DEF Reading, LastHeld, Count
  <2> QED
    BY <1>2, <2>1 DEF Reading, SlaveCounts
<1> QED
  BY <1>2, <1>3, <1>4, <1>5, <1>6 DEF Writing

WInv == IInv /\ HistoryType /\ (Reading \/ Writing)

LEMMA InitWInv == Init => WInv
<1> SUFFICES ASSUME Init PROVE WInv
  OBVIOUS
<1>1. HistoryType
  BY DEF Init, HistoryType
<1>2. Reading
  BY DEF Init, Reading, OneWay, ReadsDue
<1> QED
  BY <1>1, <1>2, InitInv DEF WInv

(* A beat turns the direction only where nothing is owed.                  *)
LEMMA ClockWInv ==
  ASSUME WInv, NEW in \in Offers, NEW s \in SlaveInputs, Clock(in, s)
  PROVE  WInv'
<1>1. IInv /\ HistoryType /\ (Reading \/ Writing) /\ owed \in Seq(Entries)
  BY DEF WInv, HistoryType
<1>2. CASE Taken(in) = {}
  BY <1>1, <1>2, ReadingStep, WritingStep, ClockInv, DueTypes, SlaveTypes DEF WInv, HistoryType
<1>3. CASE Taken(in) # {}
  <2>1. sending > 0 \/ OneWay(The(in).write)
    <3> SUFFICES ASSUME ~(sending > 0) PROVE OneWay(The(in).write)
      OBVIOUS
    <3>1. in # {}
      BY <1>3 DEF Taken
    <3>2. PICK w \in {d \in BOOLEAN : OneWay(d)}, l \in Lengths, p \in Payload :
            in = {[write |-> w, len |-> l, payload |-> p]}
      BY <3>1 DEF Offers
    <3>3. The(in) = [write |-> w, len |-> l, payload |-> p]
      BY <3>2 DEF The
    <3>4. The(in).write = w
      BY <3>3
    <3> QED
      BY <3>2, <3>4
  <2>2. The(in).write \in BOOLEAN /\ (sending > 0 => The(in).write)
    BY <1>3, TakenType DEF Beat, WInv
  <2>3. OneWay(TRUE) /\ OneWay(FALSE) => owed = <<>>
    <3> SUFFICES ASSUME OneWay(TRUE), OneWay(FALSE), owed # <<>> PROVE FALSE
      OBVIOUS
    <3>1. 1 \in DOMAIN owed
      BY <1>1
    <3>2. owed[1].write = TRUE /\ owed[1].write = FALSE
      BY <3>1 DEF OneWay
    <3> QED
      BY <3>2
  <2>4. CASE The(in).write
    <3>1. Writing
      <4>1. CASE Reading
        <5>1. sending = 0 /\ OneWay(FALSE)
          BY <4>1 DEF Reading
        <5>2. OneWay(TRUE)
          <6>1. The(in).write = TRUE /\ ~(sending > 0)
            BY <2>2, <2>4, <5>1
          <6> QED
            BY <2>1, <6>1, Zenon
        <5> QED
          BY <1>1, <2>3, <4>1, <5>1, <5>2, IdleAfterReads
      <4> QED
        BY <1>1, <4>1
    <3> QED
      BY <1>1, <2>4, <3>1, WritingStep, ClockInv, DueTypes, SlaveTypes DEF WInv, HistoryType
  <2>5. CASE ~The(in).write
    <3>1. Reading
      <4>1. CASE Writing
        <5>1. OneWay(TRUE) /\ OneWay(FALSE)
          BY <2>1, <2>2, <2>5, <4>1 DEF Writing
        <5> QED
          BY <1>1, <2>3, <4>1, <5>1, IdleAfterWrites
      <4> QED
        BY <1>1, <4>1
    <3> QED
      BY <1>1, <2>5, <3>1, ReadingStep, ClockInv, DueTypes, SlaveTypes DEF WInv, HistoryType
  <2> QED
    BY <2>4, <2>5
<1> QED
  BY <1>2, <1>3

(* What the port owes each channel and the cache side is what its          *)
(* registers and its FIFO still hold, for every length of burst and every  *)
(* order in which the slave takes addresses and data.                      *)
THEOREM InvariantHolds == Spec => []WInv
<1>1. WInv /\ [Next]_vars => WInv'
  <2> SUFFICES ASSUME WInv, [Next]_vars PROVE WInv'
    OBVIOUS
  <2>1. CASE Next
    BY <2>1, ClockWInv DEF Next
  <2>2. CASE UNCHANGED vars
    BY <2>2, Zenon DEF vars, WInv, IInv, TypeOK, HistoryType, Reading, Writing, OneWay, CountersAgree,
         SkidRegs, SkidDue, SlaveCounts, LastHeld, Waiting, DataHeld, AddressHeld
  <2> QED
    BY <2>1, <2>2
<1> QED
  BY InitWInv, <1>1, PTL DEF Spec

-----------------------------------------------------------------------------
(* What is on the channels, and what is owed.                              *)

LEMMA WritesInOrder ==
  ASSUME IInv, HistoryType, Writing
  PROVE  ChannelsInOrder
<1>1. PICK n \in Nat : Queued(fifo, n, beatCnt, sending, due.w, DataHeld, due.aw, AddressHeld)
  BY DEF Writing, Waiting
<1>2. /\ fifo \in Seq(Beat) /\ due.w \in Seq(Data) /\ due.aw \in Seq(Cmd)
      /\ DataHeld \in Nat /\ AddressHeld \in Nat /\ due.ar = <<>>
      /\ beatCnt \in 0 .. 255
  BY HeldType DEF IInv, TypeOK, HistoryType, Writing
<1>3. /\ fifo = <<>> => Len(due.w) = DataHeld /\ Len(due.aw) = AddressHeld
      /\ DataHeld = 1 => due.w # <<>>
      /\ AddressHeld = 1 => due.aw # <<>>
      /\ fifo # <<>> => Head(fifo).write
  BY <1>1, <1>2, QueuedFacts
<1>4. \A b \in Ar : due.ar # <<>> /\ Head(due.ar) = <<b.payload, b.len>>
  <2>1. \A b \in Offered : b.write
    BY <1>3 DEF Offered, Fresh, CanIssue, Writing, SkidRegs
  <2> QED
    BY <2>1 DEF Ar
<1>5. fifo = <<>> /\ skid = {} => due.aw = <<>> /\ due.w = <<>> /\ due.ar = <<>>
  BY <1>2, <1>3, HeldType
<1>6. CASE skid # {}
  <2>1. ASSUME NEW b \in Aw PROVE due.aw # <<>> /\ Head(due.aw) = <<b.payload, b.len>>
    <3>1. b \in skid /\ ~awDone
      BY <1>6 DEF Aw, Offered
    <3>2. wDone
      BY <3>1 DEF Writing, SkidRegs
    <3> QED
      BY <1>3, <1>6, <3>1, <3>2, HeldType DEF Writing, SkidDue
  <2>2. ASSUME NEW b \in W PROVE due.w # <<>> /\ Head(due.w) = <<b.payload, b.last>>
    <3>1. b \in skid /\ ~wDone
      BY <1>6 DEF W, Offered
    <3>2. awDone
      BY <1>6, <3>1 DEF Writing, SkidRegs
    <3> QED
      BY <1>3, <1>6, <3>1, <3>2, HeldType DEF Writing, SkidDue
  <2> QED
    BY <1>4, <1>5, <2>1, <2>2 DEF ChannelsInOrder
<1>7. CASE skid = {} /\ fifo # <<>>
  <2> DEFINE h == Head(fifo)
  <2>1. /\ DataHeld = 0 /\ AddressHeld = 0
        /\ ~wDone /\ (awDone <=> beatCnt > 0)
    BY <1>7, HeldType DEF Writing, SkidRegs
  <2>2. Queued(fifo, n, beatCnt, sending, due.w, 0, due.aw, 0)
    BY <1>1, <2>1
  <2>3. PICK g : g = After(h, beatCnt)
    OBVIOUS
  <2>4. /\ beatCnt > 0 => h.len = 0
        /\ g \in Nat
        /\ due.w[1] = Datum(h, g)
        /\ beatCnt = 0 => due.aw[1] = Command(h)
        /\ Queued(Tail(fifo), n - Zero(g), g, sending, due.w, 1, due.aw, Zero(beatCnt))
    BY <1>2, <1>7, <2>2, <2>3, QueuedPop
  <2>5. Tail(fifo) \in Seq(Beat) /\ Zero(beatCnt) \in Nat /\ (beatCnt = 0 => Zero(beatCnt) = 1)
    BY <1>2, <1>7 DEF Zero
  <2>6. due.w # <<>> /\ (beatCnt = 0 => due.aw # <<>>)
    <3>1. PICK k \in Nat : k = Zero(beatCnt)
      BY <2>5, Zenon
    <3>2. PICK w \in Nat : w = 1
      OBVIOUS
    <3>3. PICK q \in Seq(Beat) : q = Tail(fifo)
      BY <2>5, Zenon
    <3>4. PICK m : m = n - Zero(g)
      OBVIOUS
    <3>5. Queued(q, m, g, sending, due.w, w, due.aw, k)
      BY <2>4, <3>1, <3>2, <3>3, <3>4
    <3>6. (w = 1 => due.w # <<>>) /\ (k = 1 => due.aw # <<>>)
      BY <1>2, <3>5, QueuedFacts
    <3> QED
      BY <2>5, <3>1, <3>2, <3>6
  <2>7. Head(due.w) = due.w[1] /\ (beatCnt = 0 => Head(due.aw) = due.aw[1])
    BY <1>2, <2>6
  <2>8. h.len \in Nat
    <3>1. h \in Beat
      BY <1>2, <1>7, SeqFacts
    <3>2. h.len \in 0 .. 255
      BY <3>1, Lens DEF Beat
    <3> QED
      BY <3>2
  <2>9. LastBeat(h) <=> g = 0
    BY <1>2, <2>3, <2>4, <2>8 DEF LastBeat, After
  <2>10. ASSUME NEW b \in Offered
         PROVE  b.payload = h.payload /\ b.len = h.len /\ (b.last <=> g = 0) /\ b.last \in BOOLEAN
    <3>1. b \in Fresh
      BY <1>7 DEF Offered
    <3>2. b = [write |-> h.write, len |-> h.len, payload |-> h.payload, last |-> LastBeat(h)]
      BY <3>1 DEF Fresh
    <3>3. b.payload = h.payload /\ b.len = h.len /\ b.last = LastBeat(h)
      BY <3>2
    <3>4. LastBeat(h) \in BOOLEAN
      BY DEF LastBeat
    <3> HIDE DEF h
    <3> QED
      BY <2>9, <3>3, <3>4
  <2> HIDE DEF h
  <2>11. ASSUME NEW b \in Aw PROVE due.aw # <<>> /\ Head(due.aw) = <<b.payload, b.len>>
    <3>1. b \in Offered /\ beatCnt = 0
      BY <1>2, <2>1, <2>11 DEF Aw
    <3> QED
      BY <2>4, <2>6, <2>7, <2>10, <3>1 DEF Command
  <2>12. ASSUME NEW b \in W PROVE due.w # <<>> /\ Head(due.w) = <<b.payload, b.last>>
    <3>1. b \in Offered
      BY DEF W
    <3>2. b.last = (g = 0)
      BY <2>10, <3>1
    <3> QED
      BY <2>4, <2>6, <2>7, <2>10, <3>1, <3>2 DEF Datum
  <2> QED
    BY <1>4, <1>5, <2>11, <2>12 DEF ChannelsInOrder
<1>8. CASE skid = {} /\ fifo = <<>>
  <2>1. Offered = {}
    BY <1>8 DEF Offered, Fresh, CanIssue
  <2> QED
    BY <1>5, <2>1 DEF ChannelsInOrder, Aw, W, Ar
<1> QED
  BY <1>6, <1>7, <1>8

LEMMA ReadsInOrder ==
  ASSUME IInv, HistoryType, Reading
  PROVE  ChannelsInOrder
<1>1. /\ fifo \in Seq(Beat) /\ due.ar \in Seq(Cmd) /\ skid = {}
      /\ due.aw = <<>> /\ due.w = <<>> /\ ReadsDue(fifo, due.ar)
  BY DEF IInv, TypeOK, HistoryType, Reading
<1>2. fifo = <<>> => due.ar = <<>>
  BY <1>1 DEF ReadsDue
<1>3. CASE fifo # <<>>
  <2>1. due.ar # <<>> /\ Head(due.ar) = Command(Head(fifo))
    BY <1>1, <1>3, ReadsDuePop
  <2>2. ~Head(fifo).write
    BY <1>1, <1>3, SeqFacts DEF ReadsDue
  <2>3. ASSUME NEW b \in Offered
        PROVE  ~b.write /\ b.payload = Head(fifo).payload /\ b.len = Head(fifo).len
    BY <1>1, <2>2 DEF Offered, Fresh
  <2> QED
    BY <1>1, <1>3, <2>1, <2>3 DEF ChannelsInOrder, Aw, W, Ar, Command
<1>4. CASE fifo = <<>>
  <2>1. Offered = {}
    BY <1>1, <1>4 DEF Offered, Fresh, CanIssue
  <2> QED
    BY <1>1, <1>2, <2>1 DEF ChannelsInOrder, Aw, W, Ar
<1> QED
  BY <1>3, <1>4

LEMMA ResponsesFollow ==
  ASSUME WInv
  PROVE  ResponsesTracked
<1>1. TypeOK /\ outstanding \in 0 .. 2 /\ fifo \in Seq(Beat) /\ due.w \in Seq(Data)
  BY DEF WInv, IInv, TypeOK, HistoryType
<1>2. CASE Writing
  <2>1. PICK n \in Nat : /\ Queued(fifo, n, beatCnt, sending, due.w, DataHeld, due.aw, AddressHeld)
                         /\ Len(owed) = outstanding + n + Count(sending > 0)
    BY <1>2 DEF Writing, Waiting
  <2>2. DataHeld \in Nat
    BY HeldType
  <2>3. n = Cardinality({i \in DOMAIN fifo :
                           ~fifo[i].write \/ due.w[Len(due.w) - Len(fifo) + i][2]})
    BY <1>1, <2>1, <2>2, QueuedEnds
  <2>4. EndsWaiting = n + Count(sending > 0)
    BY <2>3 DEF EndsWaiting
  <2>5. Count(sending > 0) \in Nat
    BY DEF Count
  <2>6. Len(owed) = outstanding + EndsWaiting
    BY <1>1, <2>1, <2>4, <2>5
  <2> QED
    BY <1>1, <2>6 DEF ResponsesTracked
<1>3. CASE Reading
  <2>1. Len(owed) = outstanding + Len(fifo) /\ Count(sending > 0) = 0
        /\ \A i \in 1 .. Len(fifo) : ~fifo[i].write
    BY <1>3 DEF Reading, ReadsDue, Count
  <2>2. DOMAIN fifo = 1 .. Len(fifo) /\ Len(fifo) \in Nat
    BY <1>1
  <2>3. {i \in DOMAIN fifo : ~fifo[i].write \/ due.w[Len(due.w) - Len(fifo) + i][2]}
          = 1 .. Len(fifo)
    BY <2>1, <2>2, Zenon
  <2>4. Cardinality(1 .. Len(fifo)) = Len(fifo)
    <3>1. 1 \in Int /\ Len(fifo) \in Int
      BY <2>2
    <3>2. Cardinality(1 .. Len(fifo)) = IF 1 > Len(fifo) THEN 0 ELSE Len(fifo) - 1 + 1
      BY <3>1, FS_Interval
    <3> QED
      BY <2>2, <3>2
  <2>5. EndsWaiting = Len(fifo) + 0
    BY <2>1, <2>3, <2>4, Zenon DEF EndsWaiting
  <2>6. Len(owed) = outstanding + EndsWaiting
    BY <2>1, <2>2, <2>5
  <2> QED
    BY <1>1, <2>6 DEF ResponsesTracked
<1> QED
  BY <1>2, <1>3 DEF WInv

(* Nothing between the cache and the five channels is lost, repeated, out  *)
(* of its place or forgotten, and responses are counted exactly, for every *)
(* payload, every length of burst and every depth of the FIFO              *)
(* (dcache_axi.v:151, dcache_axi_axi.v:127).                               *)
THEOREM NothingLostCorrect == Spec => []NothingLost
<1>1. WInv => NothingLost
  BY WritesInOrder, ReadsInOrder, ResponsesFollow DEF WInv, NothingLost
<1> QED
  BY InvariantHolds, <1>1, PTL
=============================================================================
