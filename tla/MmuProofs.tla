------------------------------ MODULE MmuProofs ------------------------------
(***************************************************************************)
(* Proofs about Mmu, for every set of pages, all page tables and updates   *)
(* of them whose addresses a walk can reach, and all privileges and modes. *)
(* What is proved of translations assumes that the TLBs are not flushed    *)
(* while the walker works.                                                 *)
(***************************************************************************)
EXTENDS Mmu, Integers, FiniteSetTheorems, SequenceTheorems, TLAPS

(* The load/store unit, the fetch unit and the walker each wait for one    *)
(* thing at a time; the registers that keep a request keep the one that is *)
(* still asked for.                                                        *)
RequestInv ==
  /\ waiting # "none" => lsu.op = waiting
  /\ lsu.op # "none" => ~lsuBusy
  /\ lsu.op = "maintenance" => ~VmD
  /\ lsu.op \in {"none", "load", "store", "maintenance"}
  /\ lsu.page \in Pages /\ fetch.page \in Pages
  /\ fetch \in Fetches /\ mode \in Modes
  /\ {fetchBusy, icacheBusy, lsuBusy, flush} \subseteq BOOLEAN

PortInv ==
  /\ port \in Seq({"cpu", "mmu"})
  /\ DOMAIN tables = DOMAIN FirstTables
  /\ \A a \in DOMAIN FirstTables : tables[a] \in PtesAt(a)
  /\ state = "first" => \E p \in Pages : pteAddr = <<Root, p.hi>>

BelongInv == AnswersBelong /\ RequestInv /\ PortInv

(* What the history says an address has held is what it may hold, a PTE    *)
(* not valid in place of one whose read failed included.                   *)
MayHold(a) == PtesAt(a) \cup {[pte EXCEPT !.valid = FALSE] : pte \in PtesAt(a)}

SeenInv ==
  /\ DOMAIN seen = DOMAIN FirstTables
  /\ \A a \in DOMAIN FirstTables : tables[a] \in seen[a] /\ seen[a] \subseteq MayHold(a)

(* What the walker makes of a page when each of its reads finds one of the *)
(* PTEs in Found: Walks, where the simulator goes along.                   *)
Entries(Found, p) ==
  UNION { IF ~first.valid THEN {NoPage}
          ELSE IF Leaf(first) THEN {[page |-> <<first.ppn, p.lo>>, flags |-> first.flags]}
          ELSE { IF second.valid THEN [page |-> <<second.ppn, 0>>, flags |-> second.flags]
                 ELSE NoPage : second \in Found[<<first.ppn, p.lo>>] }
        : first \in Found[<<Root, p.hi>>] }

(* The walker is at the page of the side it works for, which asks for it   *)
(* until it has its answer, and where a walk of tables that have been      *)
(* leads.                                                                  *)
WalkInv ==
  /\ state # "idle" =>
       /\ ~flush
       /\ virt = IF dtlbReq THEN lsu.page ELSE fetch.page
       /\ dtlbReq => Access # "none" /\ VmD /\ ~DtlbHit
       /\ ~dtlbReq => VmI /\ ~ItlbHit(TRUE)
  /\ state = "first" => pteAddr = <<Root, virt.hi>>
  /\ state = "second" =>
       \E first \in seen[<<Root, virt.hi>>] :
         first.valid /\ ~Leaf(first) /\ pteAddr = <<first.ppn, virt.lo>>
  /\ state = "update" => pteEntry \in Entries(seen, virt)

TlbInv ==
  /\ itlb.valid => itlb.entry \in Entries(seen, itlb.page)
  /\ dtlb.valid => dtlb.entry \in Entries(seen, dtlb.page)

(* What the walks made so far have brought.                                *)
EffortInv ==
  /\ walks.data \in 0 .. 1 /\ walks.fetch \in 0 .. 2
  /\ walks.data = 1 =>
       /\ lsu.op # "none" /\ dtlb.valid /\ dtlb.page = lsu.page
       /\ ~(state # "idle" /\ dtlbReq)
  /\ walks.fetch >= 1 => itlb.page = fetch.page
  /\ walks.fetch = 2 => itlb.valid /\ ~FetchWalk

IInv == BelongInv /\ SeenInv /\ WalkInv /\ TlbInv /\ EffortInv

-----------------------------------------------------------------------------
(* What the data memory owes.                                              *)

Sides == {"cpu", "mmu"}

At(q, x) == {i \in DOMAIN q : q[i] = x}

OwedBy(q, x) == Cardinality(At(q, x))

LEMMA OwedIsNat ==
  ASSUME NEW q \in Seq(Sides), NEW x
  PROVE  IsFiniteSet(At(q, x)) /\ OwedBy(q, x) \in Nat
<1>1. Len(q) \in Nat /\ DOMAIN q = 1 .. Len(q)
  BY LenProperties
<1>2. IsFiniteSet(1 .. Len(q))
  BY <1>1, FS_Interval
<1>3. At(q, x) \subseteq 1 .. Len(q)
  BY <1>1 DEF At
<1> QED
  BY <1>2, <1>3, FS_Subset, FS_CardinalityType DEF OwedBy

LEMMA OwedByNone == ASSUME NEW x PROVE OwedBy(<<>>, x) = 0
<1>1. At(<<>>, x) = {}
  BY DEF At
<1> QED
  BY <1>1, FS_EmptySet DEF OwedBy

LEMMA OwedAfterPush ==
  ASSUME NEW q \in Seq(Sides), NEW y \in Sides, NEW x
  PROVE  /\ Append(q, y) \in Seq(Sides)
         /\ OwedBy(Append(q, y), x) = OwedBy(q, x) + (IF y = x THEN 1 ELSE 0)
<1>1. /\ Append(q, y) \in Seq(Sides) /\ Len(q) \in Nat
      /\ DOMAIN q = 1 .. Len(q) /\ DOMAIN Append(q, y) = 1 .. Len(q) + 1
      /\ \A i \in 1 .. Len(q) : Append(q, y)[i] = q[i]
      /\ Append(q, y)[Len(q) + 1] = y
  BY AppendProperties, LenProperties
<1>2. At(Append(q, y), x) = IF y = x THEN At(q, x) \cup {Len(q) + 1} ELSE At(q, x)
  BY <1>1 DEF At
<1>3. Len(q) + 1 \notin At(q, x)
  BY <1>1 DEF At
<1>4. Cardinality(At(q, x) \cup {Len(q) + 1}) = Cardinality(At(q, x)) + 1
  BY <1>3, OwedIsNat, FS_AddElement
<1> QED
  BY <1>1, <1>2, <1>4, OwedIsNat DEF OwedBy

LEMMA OwedAfterPop ==
  ASSUME NEW q \in Seq(Sides), q # <<>>, NEW x
  PROVE  /\ Tail(q) \in Seq(Sides) /\ Head(q) \in Sides
         /\ OwedBy(Tail(q), x) = OwedBy(q, x) - (IF Head(q) = x THEN 1 ELSE 0)
<1> DEFINE S == At(Tail(q), x)
           T == At(q, x) \ {1}
           f == [i \in S |-> i + 1]
<1>1. /\ Len(q) \in Nat \ {0} /\ Head(q) = q[1] /\ Head(q) \in Sides
      /\ Tail(q) \in Seq(Sides) /\ Len(Tail(q)) = Len(q) - 1
      /\ DOMAIN q = 1 .. Len(q) /\ DOMAIN Tail(q) = 1 .. Len(q) - 1
      /\ \A i \in 1 .. Len(q) - 1 : Tail(q)[i] = q[i + 1]
  OBVIOUS
<1>2. \A i : i \in S <=> i \in 1 .. Len(q) - 1 /\ q[i + 1] = x
  BY <1>1 DEF At
<1>3. \A i : i \in T <=> i \in 2 .. Len(q) /\ q[i] = x
  BY <1>1 DEF At
<1> HIDE DEF S, T
<1>4. f \in [S -> T]
  BY <1>1, <1>2, <1>3
<1>5. \A a, b \in S : f[a] = f[b] => a = b
  BY <1>2
<1>6. \A y \in T : \E a \in S : f[a] = y
  <2> SUFFICES ASSUME NEW y \in T PROVE \E a \in S : f[a] = y
    OBVIOUS
  <2>1. y \in 2 .. Len(q) /\ q[y] = x
    BY <1>3
  <2>2. y - 1 \in 1 .. Len(q) - 1 /\ y - 1 + 1 = y
    BY <1>1, <2>1
  <2>3. y - 1 \in S
    BY <1>2, <2>1, <2>2
  <2> QED
    BY <2>2, <2>3
<1> HIDE DEF f
<1>7. f \in Bijection(S, T)
  BY <1>4, <1>5, <1>6 DEF Bijection, Injection, Surjection, IsInjective
<1>8. IsFiniteSet(S)
  BY <1>1, OwedIsNat DEF S
<1>9. Cardinality(T) = Cardinality(S)
  BY <1>7, <1>8, FS_Bijection DEF ExistsBijection
<1>10. Cardinality(T) = IF 1 \in At(q, x) THEN Cardinality(At(q, x)) - 1 ELSE Cardinality(At(q, x))
  BY OwedIsNat, FS_RemoveElement DEF T
<1>11. 1 \in At(q, x) <=> Head(q) = x
  BY <1>1 DEF At
<1> QED
  BY <1>1, <1>9, <1>10, <1>11, OwedIsNat DEF OwedBy, S

LEMMA OwedIs == ASSUME NEW x PROVE Owed(x) = OwedBy(port, x) /\ Owed(x)' = OwedBy(port', x)
  BY DEF Owed, OwedBy, At

(* Who is answered in this cycle, and whose request goes out.              *)
Answered(x, ans) == IF ans # "none" /\ Head(port) = x THEN 1 ELSE 0

Sent(x, acc) ==
  IF /\ acc
     /\ IF FromMmu THEN memReq /\ x = "mmu" ELSE (AccessOut \/ lsu.op = "maintenance") /\ x = "cpu"
    THEN 1 ELSE 0

LEMMA OwedMoves ==
  ASSUME port \in Seq(Sides), NEW acc \in BOOLEAN, NEW ans, ans # "none" => port # <<>>,
         DataSide(acc, ans), NEW x
  PROVE  /\ port' \in Seq(Sides)
         /\ Owed(x) \in Nat /\ Owed(x)' \in Nat /\ Answered(x, ans) <= Owed(x)
         /\ Owed(x)' = Owed(x) - Answered(x, ans) + Sent(x, acc)
<1>1. PICK q : q = IF ans = "none" THEN port ELSE Tail(port)
  OBVIOUS
<1>2. q \in Seq(Sides) /\ OwedBy(q, x) = OwedBy(port, x) - Answered(x, ans)
  <2>1. CASE ans = "none"
    BY <1>1, <2>1, OwedIsNat DEF Answered
  <2>2. CASE ans # "none"
    BY <1>1, <2>2, OwedAfterPop DEF Answered
  <2> QED
    BY <2>1, <2>2
<1>3. OwedBy(port, x) \in Nat /\ OwedBy(q, x) \in Nat /\ Answered(x, ans) \in {0, 1}
  BY <1>2, OwedIsNat DEF Answered
<1>4. port' = q \o (IF ~acc THEN <<>>
                    ELSE IF FromMmu THEN IF memReq THEN <<"mmu">> ELSE <<>>
                    ELSE IF AccessOut \/ lsu.op = "maintenance" THEN <<"cpu">> ELSE <<>>)
  BY <1>1 DEF DataSide
<1>5. q \o <<>> = q /\ \A y \in Sides : q \o <<y>> = Append(q, y)
  BY <1>2
<1>6. port' \in Seq(Sides) /\ OwedBy(port', x) = OwedBy(q, x) + Sent(x, acc)
  <2>1. CASE acc /\ FromMmu /\ memReq
    <3>1. port' = Append(q, "mmu")
      BY <1>4, <1>5, <2>1 DEF Sides
    <3>2. Sent(x, acc) = IF "mmu" = x THEN 1 ELSE 0
      BY <2>1 DEF Sent
    <3> QED
      BY <1>2, <3>1, <3>2, OwedAfterPush DEF Sides
  <2>2. CASE acc /\ ~FromMmu /\ (AccessOut \/ lsu.op = "maintenance")
    <3>1. port' = Append(q, "cpu")
      BY <1>4, <1>5, <2>2 DEF Sides
    <3>2. Sent(x, acc) = IF "cpu" = x THEN 1 ELSE 0
      BY <2>2 DEF Sent
    <3> QED
      BY <1>2, <3>1, <3>2, OwedAfterPush DEF Sides
  <2>3. CASE /\ ~(acc /\ FromMmu /\ memReq)
             /\ ~(acc /\ ~FromMmu /\ (AccessOut \/ lsu.op = "maintenance"))
    <3>1. port' = q /\ Sent(x, acc) = 0
      BY <1>4, <1>5, <2>3 DEF Sent
    <3> QED
      BY <1>2, <1>3, <3>1
  <2> QED
    BY <2>1, <2>2, <2>3
<1>7. OwedBy(port', x) \in Nat
  BY <1>6, OwedIsNat
<1> QED
  BY <1>2, <1>3, <1>6, <1>7, OwedIs

-----------------------------------------------------------------------------
(* The requests under way.                                                 *)

LEMMA RequestPageType == ASSUME RequestInv PROVE RequestPage \in Pages
  BY DEF RequestInv, RequestPage

(* No request of the load/store unit goes out but one that it accepts, and *)
(* an access that faults does not go out.                                  *)
LEMMA SentIsAccepted ==
  ASSUME RequestInv, NEW acc \in BOOLEAN
  PROVE  /\ Access # "none" => lsu.op = Access
         /\ lsu.op # "none" /\ LsuAccept(acc) <=>
              Sent("cpu", acc) = 1 \/ LoadFault \/ StoreFault
         /\ Sent("cpu", acc) \in {0, 1} /\ ~(Sent("cpu", acc) = 1 /\ (LoadFault \/ StoreFault))
         /\ ~VmD /\ lsu.op # "none" => ~LoadFault /\ ~StoreFault
<1>1. /\ lsu.op \in {"none", "load", "store", "maintenance"}
      /\ waiting # "none" => lsu.op = waiting
      /\ lsu.op = "maintenance" => ~VmD
  BY DEF RequestInv
<1>2. Access # "none" => lsu.op = Access
  BY <1>1 DEF Access
<1>3. LoadFault \/ StoreFault => VmD /\ Access \in {"load", "store"} /\ DtlbHit
  BY DEF LoadFault, StoreFault
<1>4. Sent("cpu", acc) = 1 <=> acc /\ ~FromMmu /\ (AccessOut \/ lsu.op = "maintenance")
  BY DEF Sent
<1>5. Sent("cpu", acc) \in {0, 1}
  BY DEF Sent
<1>6. CASE VmD
  <2>1. AccessOut <=> Access # "none" /\ DtlbHit /\ ~LoadFault /\ ~StoreFault
    BY <1>6 DEF AccessOut
  <2>2. lsu.op # "maintenance" /\ (lsu.op # "none" <=> Access # "none")
    BY <1>1, <1>2, <1>6 DEF Access
  <2> QED
    BY <1>2, <1>3, <1>4, <1>5, <1>6, <2>1, <2>2 DEF LsuAccept
<1>7. CASE ~VmD
  <2>1. (AccessOut <=> lsu.op \in {"load", "store"}) /\ ~LoadFault /\ ~StoreFault
    BY <1>3, <1>7 DEF AccessOut
  <2> QED
    BY <1>1, <1>2, <1>4, <1>5, <1>7, <2>1 DEF LsuAccept
<1> QED
  BY <1>6, <1>7

LEMMA RequestInvKept ==
  ASSUME BelongInv, NEW rd \in BOOLEAN, NEW iacc \in BOOLEAN, NEW ivalid \in BOOLEAN,
         NEW acc \in BOOLEAN, NEW ans,
         Mux(acc), FetchSide(rd, iacc, ivalid), DataSide(acc, ans), Software(ans)
  PROVE  RequestInv'
<1> USE DEF BelongInv
<1>1. /\ lsu.op \in {"none", "load", "store", "maintenance"} /\ lsu.page \in Pages
      /\ waiting # "none" => lsu.op = waiting
      /\ lsu.op # "none" => ~lsuBusy
      /\ lsu.op = "maintenance" => ~VmD
      /\ mode \in Modes
      /\ {fetchBusy, icacheBusy, lsuBusy, flush} \subseteq BOOLEAN
  BY DEF RequestInv
<1>2. /\ NoRequest.op = "none" /\ NoRequest.page \in Pages
      /\ [NoRequest EXCEPT !.op = "maintenance"].op = "maintenance"
      /\ [NoRequest EXCEPT !.op = "maintenance"].page \in Pages
  BY MmuAssumption DEF NoRequest
<1>3. \A m \in Modes : \A r \in Requests(m) :
        /\ r.op \in {"none", "load", "store", "maintenance"} /\ r.page \in Pages
        /\ r.op = "maintenance" => ~(m.on /\ m.priv # "M")
  BY <1>2 DEF Requests
<1>4. LsuAccept(acc) \in BOOLEAN /\ LsuAck(ans) \in BOOLEAN
  BY DEF LsuAccept, LsuAck, LoadFault, StoreFault, AnswersBelong, TypeOK
<1>5. PICK accepted \in BOOLEAN : accepted <=> lsu.op # "none" /\ LsuAccept(acc)
  BY <1>4
<1>6. PICK idle \in BOOLEAN : idle <=> lsu.op = "none" /\ (lsuBusy => LsuAck(ans))
  BY <1>4
<1>7. /\ lsuBusy' = (accepted \/ (lsuBusy /\ ~LsuAck(ans)))
      /\ idle => mode' \in Modes /\ lsu' \in Requests(mode')
      /\ ~idle => mode' = mode /\ lsu' = IF accepted THEN NoRequest ELSE lsu
  BY <1>5, <1>6 DEF DataSide
<1>8. /\ waiting' = IF lsu.op \in {"load", "store"}
                      THEN IF LsuAccept(acc) THEN "none" ELSE lsu.op
                      ELSE waiting
  BY DEF Mux
<1>9. /\ lsu'.op \in {"none", "load", "store", "maintenance"} /\ lsu'.page \in Pages
      /\ mode' \in Modes
      /\ lsu'.op = "maintenance" => ~(mode'.on /\ mode'.priv # "M")
  <2>1. CASE idle
    BY <1>3, <1>7, <2>1
  <2>2. CASE ~idle
    BY <1>1, <1>2, <1>7, <2>2 DEF VmD
  <2> QED
    BY <2>1, <2>2
<1>10. waiting' # "none" => lsu'.op = waiting'
  <2>1. CASE lsu.op \in {"load", "store"}
    BY <1>5, <1>6, <1>7, <1>8, <2>1
  <2>2. CASE lsu.op \notin {"load", "store"}
    <3>1. waiting \in {"none", "load", "store"}
      BY DEF AnswersBelong, TypeOK
    <3> QED
      BY <1>1, <1>8, <2>2, <3>1
  <2> QED
    BY <2>1, <2>2
<1>11. lsu'.op # "none" => ~lsuBusy'
  <2>1. CASE idle
    BY <1>5, <1>6, <1>7, <2>1
  <2>2. CASE ~idle
    BY <1>1, <1>2, <1>5, <1>6, <1>7, <2>2
  <2> QED
    BY <2>1, <2>2
<1>12. fetch' \in Fetches /\ fetch'.page \in Pages
  BY MmuAssumption DEF FetchSide, RequestInv
<1>13. {fetchBusy', icacheBusy', lsuBusy', flush'} \subseteq BOOLEAN
  <2>1. fetchBusy' \in BOOLEAN /\ icacheBusy' \in BOOLEAN
    BY DEF FetchSide
  <2>2. flush' \in BOOLEAN
    BY DEF Software
  <2> QED
    BY <1>7, <2>1, <2>2
<1> QED
  BY <1>9, <1>10, <1>11, <1>12, <1>13 DEF RequestInv, VmD

-----------------------------------------------------------------------------
(* The page tables and the walker.                                         *)

LEMMA TablesMove ==
  ASSUME PortInv, NEW ans, Software(ans)
  PROVE  /\ DOMAIN tables' = DOMAIN FirstTables
         /\ \A a \in DOMAIN FirstTables : tables'[a] \in PtesAt(a)
<1>1. DOMAIN tables = DOMAIN FirstTables /\ \A a \in DOMAIN FirstTables : tables[a] \in PtesAt(a)
  BY DEF PortInv
<1>2. CASE UNCHANGED tables
  BY <1>1, <1>2
<1>3. CASE \E u \in Updates : tables[u.addr] # u.pte /\ tables' = [tables EXCEPT ![u.addr] = u.pte]
  <2>1. PICK u \in Updates : tables' = [tables EXCEPT ![u.addr] = u.pte]
    BY <1>3
  <2>2. u.pte \in PtesAt(u.addr)
    BY DEF PtesAt
  <2>3. DOMAIN tables' = DOMAIN FirstTables
    BY <1>1, <2>1
  <2>4. ASSUME NEW a \in DOMAIN FirstTables PROVE tables'[a] \in PtesAt(a)
    BY <1>1, <2>1, <2>2
  <2> QED
    BY <2>3, <2>4
<1> QED
  BY <1>2, <1>3 DEF Software

(* What each step of the walker does to its state, its address and its     *)
(* request.                                                                *)
LEMMA WalkerMoves ==
  ASSUME BelongInv, NEW rd \in BOOLEAN, NEW ans,
         Start(rd) \/ FirstLevel(ans) \/ SecondLevel(ans) \/ Update \/ Rest(rd, ans)
  PROVE  /\ state' \in {"idle", "first", "second", "update"}
         /\ state' = "first" => \E p \in Pages : pteAddr' = <<Root, p.hi>>
         /\ state' \in {"first", "second"} => pteAddr' \in DOMAIN FirstTables
         /\ virt' \in Pages /\ dtlbReq' \in BOOLEAN
<1> USE DEF BelongInv
<1>1. RequestPage \in Pages
  BY RequestPageType
<1>2. /\ \A p \in Pages : <<Root, p.hi>> \in DOMAIN FirstTables
      /\ \A p \in Pages : \A pte \in PtesAt(<<Root, p.hi>>), q \in Pages :
            pte.valid /\ pte.flags \cap {"R", "W", "X"} = {} =>
              <<pte.ppn, q.lo>> \in DOMAIN FirstTables
      /\ NoRequest.page \in Pages
  BY MmuAssumption DEF NoRequest
<1>3. /\ state \in {"idle", "first", "second", "update"}
      /\ state \in {"first", "second"} => pteAddr \in DOMAIN FirstTables
      /\ virt \in Pages /\ dtlbReq \in BOOLEAN
      /\ \A a \in DOMAIN FirstTables : tables[a] \in PtesAt(a)
      /\ state = "first" => \E p \in Pages : pteAddr = <<Root, p.hi>>
  BY DEF AnswersBelong, TypeOK, PortInv
<1>4. CASE Start(rd)
  <2>1. DtlbMiss \in BOOLEAN
    BY DEF DtlbMiss
  <2> QED
    BY <1>1, <1>2, <1>4, <2>1 DEF Start
<1>5. CASE FirstLevel(ans)
  <2>1. PICK p \in Pages : pteAddr = <<Root, p.hi>>
    BY <1>3, <1>5 DEF FirstLevel
  <2>2. tables[pteAddr] \in PtesAt(<<Root, p.hi>>)
    BY <1>2, <1>3, <2>1
  <2>3. PointsOn(ans) => <<tables[pteAddr].ppn, RequestPage.lo>> \in DOMAIN FirstTables
    BY <1>1, <1>2, <2>2 DEF PointsOn, Leaf
  <2> QED
    BY <1>3, <1>5, <2>3 DEF FirstLevel
<1>6. CASE SecondLevel(ans)
  BY <1>3, <1>6 DEF SecondLevel
<1>7. CASE Update
  BY <1>2, <1>7 DEF Update
<1>8. CASE Rest(rd, ans)
  BY <1>3, <1>8 DEF Rest
<1> QED
  BY <1>4, <1>5, <1>6, <1>7, <1>8

LEMMA TypeKept ==
  ASSUME BelongInv, NEW rd \in BOOLEAN, NEW iacc \in BOOLEAN, NEW ivalid \in BOOLEAN,
         NEW acc \in BOOLEAN, NEW ans, Clock(rd, iacc, ivalid, acc, ans)
  PROVE  TypeOK'
<1>1. /\ state' \in {"idle", "first", "second", "update"}
      /\ state' \in {"first", "second"} => pteAddr' \in DOMAIN FirstTables
      /\ virt' \in Pages /\ dtlbReq' \in BOOLEAN
  BY WalkerMoves DEF Clock
<1>2. DOMAIN tables' = DOMAIN FirstTables
  BY TablesMove DEF Clock, BelongInv
<1>3. /\ virt \in Pages /\ itlb.page \in Pages /\ dtlb.page \in Pages
      /\ {dtlbReq, memReq, itlb.valid, dtlb.valid, pcFault, dataFault} \subseteq BOOLEAN
      /\ waiting \in {"none", "load", "store"} /\ hold \in {"none", "mmu", "cpu"}
      /\ walks.fetch \in Nat /\ walks.data \in Nat
  BY DEF BelongInv, AnswersBelong, TypeOK
<1>4. itlb'.page \in Pages /\ dtlb'.page \in Pages
  BY <1>3 DEF Clock, Tlbs
<1>5. itlb'.valid \in BOOLEAN /\ dtlb'.valid \in BOOLEAN
  BY <1>3 DEF Clock, Tlbs
<1>6. pcFault' \in BOOLEAN /\ dataFault' \in BOOLEAN
  BY DEF Clock, Tlbs, PcFault, LoadFault, StoreFault
<1>7. memReq' \in BOOLEAN
  BY <1>3 DEF Clock, Request
<1>8. waiting' \in {"none", "load", "store"} /\ hold' \in {"none", "mmu", "cpu"}
  BY <1>3 DEF Clock, Mux
<1>9. walks'.fetch \in Nat /\ walks'.data \in Nat
  BY <1>3 DEF Clock, Effort
<1> QED
  BY <1>1, <1>2, <1>4, <1>5, <1>6, <1>7, <1>8, <1>9 DEF TypeOK

-----------------------------------------------------------------------------
(* One answer for each request.                                            *)

LEMMA DataAnswers ==
  ASSUME BelongInv, NEW rd \in BOOLEAN, NEW iacc \in BOOLEAN, NEW ivalid \in BOOLEAN,
         NEW acc \in BOOLEAN, NEW ans, Clock(rd, iacc, ivalid, acc, ans)
  PROVE  (Owed("cpu") + Count(dataFault) = Count(lsuBusy))'
<1> USE DEF BelongInv
<1> PICK o \in Nat, p \in Nat, a \in Nat, n \in Nat :
      o = Owed("cpu") /\ p = Owed("cpu")' /\ a = Answered("cpu", ans) /\ n = Sent("cpu", acc)
  BY OwedMoves DEF Clock, PortInv, Sides, Answered, Sent
<1>1. a <= o /\ p = o - a + n
  BY OwedMoves DEF Clock, PortInv, Sides
<1>2. \/ lsuBusy /\ ~dataFault /\ o = 1
      \/ lsuBusy /\ dataFault /\ o = 0
      \/ ~lsuBusy /\ ~dataFault /\ o = 0
  <2>1. PICK d \in Nat : d = Count(dataFault) /\ (dataFault => d = 1) /\ (~dataFault => d = 0)
    BY DEF Count
  <2>2. PICK l \in Nat : l = Count(lsuBusy) /\ (lsuBusy => l = 1) /\ (~lsuBusy => l = 0)
    BY DEF Count
  <2>3. o + d = l
    BY <2>1, <2>2 DEF AnswersBelong
  <2>4. (dataFault => d = 1) /\ (~dataFault => d = 0) /\ (lsuBusy => l = 1) /\ (~lsuBusy => l = 0)
    BY <2>1, <2>2
  <2> QED
    BY <2>3, <2>4
<1>3. /\ lsuBusy' <=> (lsu.op # "none" /\ LsuAccept(acc)) \/ (lsuBusy /\ ~LsuAck(ans))
      /\ dataFault' <=> LoadFault \/ StoreFault
  BY DEF Clock, DataSide, Tlbs
<1>4. /\ lsu.op # "none" /\ LsuAccept(acc) <=> n = 1 \/ LoadFault \/ StoreFault
      /\ n = 0 \/ n = 1
      /\ ~(n = 1 /\ (LoadFault \/ StoreFault))
  BY SentIsAccepted
<1>5. lsu.op # "none" => ~lsuBusy
  BY DEF RequestInv
<1>6. /\ a = 0 \/ a = 1
      /\ LsuAck(ans) <=> a = 1 \/ dataFault
  BY DEF Answered, LsuAck
<1>7. \/ lsuBusy' /\ ~dataFault' /\ p = 1
      \/ lsuBusy' /\ dataFault' /\ p = 0
      \/ ~lsuBusy' /\ ~dataFault' /\ p = 0
  <2>1. CASE lsu.op # "none" /\ LsuAccept(acc)
    <3>1. o = 0 /\ a = 0 /\ lsuBusy'
      BY <2>1, <1>1, <1>2, <1>3, <1>5
    <3>2. p = n
      BY <3>1, <1>1
    <3> QED
      BY <2>1, <3>1, <3>2, <1>3, <1>4
  <2>2. CASE ~(lsu.op # "none" /\ LsuAccept(acc))
    BY <2>2, <1>1, <1>2, <1>3, <1>4, <1>6
  <2> QED
    BY <2>1, <2>2
<1> QED
  BY <1>7 DEF Count

LEMMA WalkAnswers ==
  ASSUME BelongInv, NEW rd \in BOOLEAN, NEW iacc \in BOOLEAN, NEW ivalid \in BOOLEAN,
         NEW acc \in BOOLEAN, NEW ans, Clock(rd, iacc, ivalid, acc, ans)
  PROVE  (Owed("mmu") + Count(memReq) = Count(state \in {"first", "second"}))'
<1> USE DEF BelongInv
<1>1. /\ Owed("mmu")' \in Nat /\ Owed("mmu") \in Nat /\ Answered("mmu", ans) <= Owed("mmu")
      /\ Owed("mmu")' = Owed("mmu") - Answered("mmu", ans) + Sent("mmu", acc)
  BY OwedMoves DEF Clock, PortInv, Sides
<1>2. Owed("mmu") + Count(memReq) = Count(state \in {"first", "second"})
  BY DEF AnswersBelong
<1>3. /\ Answered("mmu", ans) \in {0, 1} /\ (PteAnswer(ans) <=> Answered("mmu", ans) = 1)
      /\ Sent("mmu", acc) \in {0, 1} /\ (Sent("mmu", acc) = 1 <=> acc /\ FromMmu /\ memReq)
  BY DEF Answered, PteAnswer, Sent
<1>4. /\ (memReq => Count(memReq) = 1) /\ (~(memReq) => Count(memReq) = 0)
      /\ (state \in {"first", "second"} => Count(state \in {"first", "second"}) = 1) /\ (~(state \in {"first", "second"}) => Count(state \in {"first", "second"}) = 0)
      /\ (memReq' => Count(memReq') = 1) /\ (~(memReq') => Count(memReq') = 0)
      /\ (state' \in {"first", "second"} => Count(state' \in {"first", "second"}) = 1) /\ (~(state' \in {"first", "second"}) => Count(state' \in {"first", "second"}) = 0)
  BY DEF Count
<1>5. memReq \in BOOLEAN /\ state \in {"idle", "first", "second", "update"}
  BY DEF AnswersBelong, TypeOK
<1>6. /\ Owed("mmu") = 0 \/ Owed("mmu") = 1
      /\ memReq <=> state \in {"first", "second"} /\ Owed("mmu") = 0
      /\ Owed("mmu") = 1 => state \in {"first", "second"}
  BY <1>1, <1>2, <1>4
<1>7. memReq' = IF \/ state = "idle" /\ (ItlbMiss(rd) \/ DtlbMiss)
                   \/ state = "first" /\ PointsOn(ans)
                  THEN TRUE
                ELSE IF FromMmu /\ acc THEN FALSE
                ELSE memReq
  BY DEF Clock, Request
<1>8. PointsOn(ans) => PteAnswer(ans)
  BY DEF PointsOn
<1>9. /\ Owed("mmu")' = 0 \/ Owed("mmu")' = 1
      /\ memReq' <=> state' \in {"first", "second"} /\ Owed("mmu")' = 0
      /\ Owed("mmu")' = 1 => state' \in {"first", "second"}
  <2>1. CASE Start(rd)
    <3>1. state = "idle" /\ state' = "first" /\ memReq'
      BY <2>1, <1>7 DEF Start
    <3> QED
      BY <3>1, <1>1, <1>3, <1>6
  <2>2. CASE PteAnswer(ans)
    <3>1. Owed("mmu") = 1 /\ ~memReq /\ Owed("mmu")' = 0 /\ state \in {"first", "second"}
      BY <2>2, <1>1, <1>3, <1>6
    <3>2. FirstLevel(ans) \/ SecondLevel(ans)
      BY <2>2, <3>1 DEF Clock, Start, Update, Rest
    <3>3. memReq' <=> state = "first" /\ PointsOn(ans)
      BY <3>1, <1>7
    <3>4. state' \in {"first", "second"} <=> state = "first" /\ PointsOn(ans)
      BY <3>2 DEF FirstLevel, SecondLevel
    <3> QED
      BY <3>1, <3>3, <3>4
  <2>3. CASE ~Start(rd) /\ ~PteAnswer(ans)
    <3>1. Update \/ Rest(rd, ans)
      BY <2>3 DEF Clock, FirstLevel, SecondLevel
    <3>2. state' \in {"first", "second"} <=> state \in {"first", "second"}
      BY <3>1 DEF Update, Rest
    <3>3. ~(state = "idle" /\ (ItlbMiss(rd) \/ DtlbMiss))
      BY <3>1 DEF Update, Rest
    <3>4. memReq' = IF FromMmu /\ acc THEN FALSE ELSE memReq
      BY <2>3, <3>3, <1>7, <1>8
    <3>5. Owed("mmu")' = Owed("mmu") + Sent("mmu", acc)
      BY <2>3, <1>1, <1>3
    <3> QED
      BY <3>2, <3>4, <3>5, <1>3, <1>5, <1>6
  <2> QED
    BY <2>1, <2>2, <2>3
<1>10. Owed("mmu")' + Count(memReq') = Count(state' \in {"first", "second"})
  BY <1>1, <1>4, <1>9
<1> QED
  BY <1>10 DEF Count

LEMMA FetchAnswers ==
  ASSUME BelongInv, NEW rd \in BOOLEAN, NEW iacc \in BOOLEAN, NEW ivalid \in BOOLEAN,
         NEW acc \in BOOLEAN, NEW ans, Clock(rd, iacc, ivalid, acc, ans)
  PROVE  (Count(icacheBusy) + Count(pcFault) = Count(fetchBusy))'
<1> USE DEF BelongInv
<1>1. /\ (icacheBusy => Count(icacheBusy) = 1) /\ (~(icacheBusy) => Count(icacheBusy) = 0)
      /\ (pcFault => Count(pcFault) = 1) /\ (~(pcFault) => Count(pcFault) = 0)
      /\ (fetchBusy => Count(fetchBusy) = 1) /\ (~(fetchBusy) => Count(fetchBusy) = 0)
      /\ (icacheBusy' => Count(icacheBusy') = 1) /\ (~(icacheBusy') => Count(icacheBusy') = 0)
      /\ (pcFault' => Count(pcFault') = 1) /\ (~(pcFault') => Count(pcFault') = 0)
      /\ (fetchBusy' => Count(fetchBusy') = 1) /\ (~(fetchBusy') => Count(fetchBusy') = 0)
  BY DEF Count
<1>2. (fetchBusy <=> icacheBusy \/ pcFault) /\ ~(icacheBusy /\ pcFault)
  BY <1>1 DEF AnswersBelong
<1>3. /\ fetchBusy' <=> (rd /\ FetchAccept(rd, iacc)) \/ (fetchBusy /\ ~ivalid /\ ~pcFault)
      /\ icacheBusy' <=> (FetchOut(rd) /\ iacc) \/ (icacheBusy /\ ~ivalid)
      /\ pcFault' <=> PcFault(rd)
  BY DEF Clock, FetchSide, Tlbs
<1>4. /\ rd => ~fetchBusy \/ ivalid \/ pcFault
      /\ ivalid => icacheBusy
  BY DEF Clock
<1>5. ItlbHit(rd) => rd
  BY DEF ItlbHit
<1>6. PcFault(rd) => rd /\ VmI /\ ItlbHit(rd)
  BY <1>5 DEF PcFault
<1>7. /\ rd /\ FetchAccept(rd, iacc) <=> (FetchOut(rd) /\ iacc) \/ PcFault(rd)
      /\ ~(FetchOut(rd) /\ PcFault(rd))
      /\ FetchOut(rd) => rd
  BY <1>5, <1>6 DEF FetchAccept, FetchOut
<1>8. (fetchBusy' <=> icacheBusy' \/ pcFault') /\ ~(icacheBusy' /\ pcFault')
  BY <1>2, <1>3, <1>4, <1>6, <1>7
<1>9. Count(icacheBusy') + Count(pcFault') = Count(fetchBusy')
  BY <1>1, <1>8
<1> QED
  BY <1>9 DEF Count

LEMMA BelongInvKept ==
  ASSUME BelongInv, NEW rd \in BOOLEAN, NEW iacc \in BOOLEAN, NEW ivalid \in BOOLEAN,
         NEW acc \in BOOLEAN, NEW ans, Clock(rd, iacc, ivalid, acc, ans)
  PROVE  BelongInv'
<1>1. RequestInv'
  BY RequestInvKept DEF Clock
<1>2. AnswersBelong'
  BY TypeKept, DataAnswers, WalkAnswers, FetchAnswers DEF AnswersBelong
<1>3. PortInv'
  <2>1. port' \in Seq({"cpu", "mmu"})
    BY OwedMoves DEF Clock, BelongInv, PortInv, Sides
  <2>2. DOMAIN tables' = DOMAIN FirstTables /\ \A a \in DOMAIN FirstTables : tables'[a] \in PtesAt(a)
    BY TablesMove DEF Clock, BelongInv
  <2>3. state' = "first" => \E p \in Pages : pteAddr' = <<Root, p.hi>>
    BY WalkerMoves DEF Clock
  <2> QED
    BY <2>1, <2>2, <2>3 DEF PortInv
<1> QED
  BY <1>1, <1>2, <1>3 DEF BelongInv

LEMMA BelongInvInit == ASSUME Init PROVE BelongInv
<1>1. /\ NoRequest.op = "none" /\ NoRequest.page \in Pages
      /\ \A p \in Pages : <<Root, p.hi>> \in DOMAIN FirstTables
  BY MmuAssumption DEF NoRequest
<1>2. TypeOK
  BY <1>1 DEF Init, TypeOK
<1>3. Owed("cpu") = 0 /\ Owed("mmu") = 0
  BY OwedIs, OwedByNone DEF Init
<1>4. AnswersBelong
  BY <1>2, <1>3 DEF AnswersBelong, Count, Init
<1>5. RequestInv
  <2>1. fetch \in Fetches /\ fetch.page \in Pages
    BY MmuAssumption DEF Init
  <2> QED
    BY <1>1, <2>1 DEF RequestInv, Init, VmD
<1>6. PortInv
  <2>1. \A a \in DOMAIN FirstTables : FirstTables[a] \in PtesAt(a)
    BY DEF PtesAt
  <2> QED
    BY <2>1 DEF PortInv, Init
<1> QED
  BY <1>4, <1>5, <1>6 DEF BelongInv

-----------------------------------------------------------------------------
(* What walks may find.                                                    *)

LEMMA MayHoldType ==
  ASSUME NEW a \in DOMAIN FirstTables, NEW pte \in MayHold(a)
  PROVE  /\ pte \in PteType
         /\ \A p, q \in Pages : a = <<Root, p.hi>> /\ pte.valid /\ ~Leaf(pte) =>
              <<pte.ppn, q.lo>> \in DOMAIN FirstTables
<1>1. CASE pte \in PtesAt(a)
  BY <1>1, MmuAssumption DEF Leaf
<1>2. CASE pte \in {[other EXCEPT !.valid = FALSE] : other \in PtesAt(a)}
  <2>1. PICK other \in PtesAt(a) : pte = [other EXCEPT !.valid = FALSE]
    BY <1>2
  <2>2. other \in PteType
    BY MmuAssumption
  <2> QED
    BY <2>1, <2>2 DEF PteType
<1> QED
  BY <1>1, <1>2 DEF MayHold

(* What one first PTE makes of a walk. *)
Step(F, p, first) ==
  IF ~first.valid THEN {NoPage}
  ELSE IF Leaf(first) THEN {[page |-> <<first.ppn, p.lo>>, flags |-> first.flags]}
  ELSE { IF second.valid THEN [page |-> <<second.ppn, 0>>, flags |-> second.flags] ELSE NoPage
         : second \in F[<<first.ppn, p.lo>>] }

LEMMA EntriesAre ==
  ASSUME NEW F, NEW p, NEW e
  PROVE  e \in Entries(F, p) <=> \E first \in F[<<Root, p.hi>>] : e \in Step(F, p, first)
  BY DEF Entries, Step

LEMMA EntriesGrow ==
  ASSUME NEW S, NEW T, \A a \in DOMAIN FirstTables : S[a] \subseteq T[a] /\ S[a] \subseteq MayHold(a),
         NEW p \in Pages
  PROVE  Entries(S, p) \subseteq Entries(T, p)
<1> SUFFICES ASSUME NEW e \in Entries(S, p) PROVE e \in Entries(T, p)
  OBVIOUS
<1>1. PICK first \in S[<<Root, p.hi>>] : e \in Step(S, p, first)
  BY EntriesAre
<1>2. <<Root, p.hi>> \in DOMAIN FirstTables
  BY MmuAssumption
<1>3. first \in T[<<Root, p.hi>>] /\ first \in MayHold(<<Root, p.hi>>)
  BY <1>2
<1>4. first.valid /\ ~Leaf(first) => <<first.ppn, p.lo>> \in DOMAIN FirstTables
  BY <1>2, <1>3, MayHoldType
<1>5. e \in Step(T, p, first)
  <2>1. CASE first.valid /\ ~Leaf(first)
    <3>1. S[<<first.ppn, p.lo>>] \subseteq T[<<first.ppn, p.lo>>]
      BY <1>4, <2>1
    <3> QED
      BY <1>1, <2>1, <3>1 DEF Step
  <2>2. CASE ~(first.valid /\ ~Leaf(first))
    BY <1>1, <2>2 DEF Step
  <2> QED
    BY <2>1, <2>2
<1> QED
  BY <1>3, <1>5, EntriesAre

(* Whatever a walk of tables that have been finds carries flags of PTEs.   *)
LEMMA EntriesFlags ==
  ASSUME NEW S, \A a \in DOMAIN FirstTables : S[a] \subseteq MayHold(a), NEW p \in Pages,
         NEW e \in Entries(S, p)
  PROVE  \/ e = NoPage
         \/ \E a \in DOMAIN FirstTables : \E pte \in MayHold(a) : pte.valid /\ e.flags = pte.flags
<1>1. PICK first \in S[<<Root, p.hi>>] : e \in Step(S, p, first)
  BY EntriesAre
<1>2. <<Root, p.hi>> \in DOMAIN FirstTables
  BY MmuAssumption
<1>3. first \in MayHold(<<Root, p.hi>>)
  BY <1>2
<1>4. CASE ~first.valid
  BY <1>1, <1>4 DEF Step
<1>5. CASE first.valid /\ Leaf(first)
  BY <1>1, <1>2, <1>3, <1>5 DEF Step
<1>6. CASE first.valid /\ ~Leaf(first)
  <2>1. <<first.ppn, p.lo>> \in DOMAIN FirstTables
    BY <1>2, <1>3, <1>6, MayHoldType
  <2>2. PICK second \in S[<<first.ppn, p.lo>>] :
          e = IF second.valid THEN [page |-> <<second.ppn, 0>>, flags |-> second.flags] ELSE NoPage
    BY <1>1, <1>6 DEF Step
  <2>3. second \in MayHold(<<first.ppn, p.lo>>)
    BY <2>1
  <2> QED
    BY <2>1, <2>2, <2>3
<1> QED
  BY <1>4, <1>5, <1>6

LEMMA SeenMoves ==
  ASSUME BelongInv, SeenInv, NEW ans, ans = "error" => state = "first", Software(ans)
  PROVE  /\ SeenInv'
         /\ ~flush => \A a \in DOMAIN FirstTables : seen[a] \subseteq seen'[a]
         /\ ans = "error" => \E pte \in seen'[pteAddr] : ~pte.valid
<1>1. /\ DOMAIN tables = DOMAIN FirstTables
      /\ \A a \in DOMAIN FirstTables : tables[a] \in PtesAt(a)
      /\ DOMAIN tables' = DOMAIN FirstTables
      /\ \A a \in DOMAIN FirstTables : tables'[a] \in PtesAt(a)
  BY TablesMove DEF BelongInv, PortInv
<1>2. seen' = [a \in DOMAIN FirstTables |->
                 (IF flush THEN {} ELSE seen[a]) \cup {tables'[a]}
                   \cup (IF ans = "error" /\ a = pteAddr
                           THEN {[tables[a] EXCEPT !.valid = FALSE]} ELSE {})]
  BY <1>1 DEF Software
<1>3. ASSUME NEW a \in DOMAIN FirstTables
      PROVE  /\ tables'[a] \in seen'[a] /\ seen'[a] \subseteq MayHold(a)
             /\ ~flush => seen[a] \subseteq seen'[a]
  <2>1. seen'[a] = (IF flush THEN {} ELSE seen[a]) \cup {tables'[a]}
                   \cup (IF ans = "error" /\ a = pteAddr
                           THEN {[tables[a] EXCEPT !.valid = FALSE]} ELSE {})
    BY <1>2
  <2>2. seen[a] \subseteq MayHold(a)
    BY DEF SeenInv
  <2>3. tables'[a] \in MayHold(a) /\ [tables[a] EXCEPT !.valid = FALSE] \in MayHold(a)
    BY <1>1 DEF MayHold
  <2> QED
    BY <2>1, <2>2, <2>3
<1>4. ASSUME ans = "error" PROVE \E pte \in seen'[pteAddr] : ~pte.valid
  <2>1. pteAddr \in DOMAIN FirstTables
    BY <1>1, <1>4 DEF BelongInv, AnswersBelong, TypeOK
  <2>2. tables[pteAddr] \in PteType
    BY <1>1, <2>1, MmuAssumption
  <2>3. [tables[pteAddr] EXCEPT !.valid = FALSE] \in seen'[pteAddr]
    BY <1>2, <1>4, <2>1
  <2>4. ~[tables[pteAddr] EXCEPT !.valid = FALSE].valid
    BY <2>2 DEF PteType
  <2> QED
    BY <2>3, <2>4
<1>5. DOMAIN seen' = DOMAIN FirstTables
  BY <1>2
<1> QED
  BY <1>3, <1>4, <1>5 DEF SeenInv

-----------------------------------------------------------------------------
(* Who misses waits: its request stays as it is.                           *)

LEMMA MissWaits ==
  ASSUME BelongInv, NEW rd \in BOOLEAN, NEW iacc \in BOOLEAN, NEW ivalid \in BOOLEAN,
         NEW acc \in BOOLEAN, NEW ans, Clock(rd, iacc, ivalid, acc, ans)
  PROVE  /\ lsu.op # "none" /\ ~LsuAccept(acc) => lsu' = lsu /\ mode' = mode
         /\ ~(rd /\ FetchAccept(rd, iacc)) => fetch' = fetch
         /\ DtlbMiss => /\ lsu.op # "none" /\ ~LsuAccept(acc)
                        /\ VmD' /\ Access' # "none" /\ lsu' = lsu
         /\ VmI /\ ~ItlbHit(TRUE) => ~(rd /\ FetchAccept(rd, iacc)) /\ VmI' /\ fetch' = fetch
<1>1. lsu.op # "none" /\ ~LsuAccept(acc) => lsu' = lsu /\ mode' = mode
  BY DEF Clock, DataSide
<1>2. ~(rd /\ FetchAccept(rd, iacc)) => fetch' = fetch
  BY DEF Clock, FetchSide
<1>3. ASSUME DtlbMiss
      PROVE  /\ lsu.op # "none" /\ ~LsuAccept(acc)
             /\ VmD' /\ Access' # "none" /\ lsu' = lsu
  <2>1. Access # "none" /\ VmD /\ ~DtlbHit
    BY <1>3 DEF DtlbMiss
  <2>2. ~LsuAccept(acc)
    BY <2>1 DEF LsuAccept, LoadFault, StoreFault
  <2>3. lsu.op = Access
    BY <2>1, SentIsAccepted DEF BelongInv
  <2>4. lsu' = lsu /\ mode' = mode
    BY <1>1, <2>1, <2>2, <2>3
  <2>5. VmD'
    BY <2>1, <2>4 DEF VmD
  <2>6. lsu.op \in {"load", "store"}
    BY <2>1, <2>3 DEF Access, BelongInv, RequestInv, AnswersBelong, TypeOK
  <2>7. Access' # "none"
    BY <2>4, <2>6 DEF Access
  <2> QED
    BY <2>1, <2>2, <2>3, <2>4, <2>5, <2>7
<1>4. ASSUME VmI, ~ItlbHit(TRUE)
      PROVE  ~(rd /\ FetchAccept(rd, iacc)) /\ VmI' /\ fetch' = fetch
  <2>1. ~ItlbHit(rd)
    BY <1>4 DEF ItlbHit
  <2>2. ~FetchAccept(rd, iacc)
    BY <1>4, <2>1 DEF FetchAccept, PcFault
  <2>3. fetch' = fetch
    BY <1>2, <2>2
  <2> QED
    BY <1>4, <2>2, <2>3 DEF VmI
<1> QED
  BY <1>1, <1>2, <1>3, <1>4

(* A TLB changes only when a walk for it ends, or else loses its entry.    *)
LEMMA TlbsMove ==
  ASSUME NEW rd \in BOOLEAN, Tlbs(rd), IInv
  PROVE  /\ ~(state = "update" /\ dtlbReq) =>
              dtlb'.page = dtlb.page /\ dtlb'.entry = dtlb.entry /\ (dtlb'.valid <=> ~flush /\ dtlb.valid)
         /\ state = "update" /\ dtlbReq =>
              dtlb'.page = virt /\ dtlb'.entry = pteEntry /\ (dtlb'.valid <=> ~flush)
         /\ ~(state = "update" /\ ~dtlbReq) =>
              /\ itlb'.page = itlb.page /\ itlb'.entry = itlb.entry
              /\ itlb'.valid <=> ~flush /\ ~FetchWalk /\ itlb.valid
         /\ state = "update" /\ ~dtlbReq =>
              /\ itlb'.page = virt /\ itlb'.entry = pteEntry
              /\ itlb'.valid <=> ~flush /\ itlb.page = fetch.page
<1>1. dtlbReq \in BOOLEAN /\ itlb.valid \in BOOLEAN /\ dtlb.valid \in BOOLEAN
  BY DEF IInv, BelongInv, AnswersBelong, TypeOK
<1> QED
  BY <1>1 DEF Tlbs

LEMMA WalkInvKept ==
  ASSUME IInv, ~FlushInWalk, NEW rd \in BOOLEAN, NEW iacc \in BOOLEAN, NEW ivalid \in BOOLEAN,
         NEW acc \in BOOLEAN, NEW ans, Clock(rd, iacc, ivalid, acc, ans)
  PROVE  WalkInv'
<1> USE DEF IInv
<1>1. state' # "idle" => ~flush'
  BY DEF Clock, Software
<1>2. /\ dtlbReq \in BOOLEAN /\ virt \in Pages /\ state \in {"idle", "first", "second", "update"}
      /\ state \in {"first", "second"} => pteAddr \in DOMAIN FirstTables
      /\ \A a \in DOMAIN FirstTables : tables[a] \in seen[a]
  BY DEF BelongInv, AnswersBelong, TypeOK, PortInv, SeenInv
<1>3. /\ \A a \in DOMAIN FirstTables : tables[a] \in seen[a] /\ seen[a] \subseteq MayHold(a)
      /\ ~flush => \A a \in DOMAIN FirstTables : seen[a] \subseteq seen'[a]
      /\ ans = "error" => \E pte \in seen'[pteAddr] : ~pte.valid
  <2>1. ans = "error" => state = "first"
    BY DEF Clock
  <2> QED
    BY <2>1, SeenMoves DEF SeenInv, Clock
<1>4. \A p \in Pages : <<Root, p.hi>> \in DOMAIN FirstTables
  BY MmuAssumption
<1>5. CASE Start(rd)
  <2>1. /\ state = "idle" /\ state' = "first" /\ (ItlbMiss(rd) \/ DtlbMiss)
        /\ virt' = RequestPage /\ dtlbReq' = DtlbMiss /\ pteAddr' = <<Root, virt'.hi>>
    BY <1>5 DEF Start
  <2>2. RequestPage = IF DtlbMiss THEN lsu.page ELSE fetch.page
    BY <2>1 DEF RequestPage
  <2>3. /\ dtlb'.page = dtlb.page /\ (dtlb'.valid => dtlb.valid)
        /\ itlb'.page = itlb.page /\ (itlb'.valid => itlb.valid)
    BY <2>1, TlbsMove DEF Clock
  <2>4. CASE DtlbMiss
    <3>1. VmD' /\ Access' # "none" /\ lsu' = lsu /\ virt' = lsu.page /\ dtlbReq'
      BY <2>1, <2>2, <2>4, MissWaits
    <3>2. ~DtlbHit'
      BY <2>3, <2>4, <3>1 DEF DtlbHit, DtlbMiss
    <3> QED
      BY <1>1, <2>1, <3>1, <3>2 DEF WalkInv
  <2>5. CASE ~DtlbMiss
    <3>1. VmI /\ ~ItlbHit(TRUE)
      BY <2>1, <2>5 DEF ItlbMiss, ItlbHit
    <3>2. VmI' /\ fetch' = fetch /\ virt' = fetch.page /\ ~dtlbReq'
      BY <2>1, <2>2, <2>5, <3>1, MissWaits
    <3>3. ~ItlbHit(TRUE)'
      BY <2>3, <3>1, <3>2 DEF ItlbHit
    <3> QED
      BY <1>1, <2>1, <3>2, <3>3 DEF WalkInv
  <2> QED
    BY <2>4, <2>5
<1>6. CASE Update
  BY <1>6 DEF Update, WalkInv
<1>7. CASE Rest(rd, ans) /\ state = "idle"
  BY <1>7 DEF Rest, WalkInv
<1>8. CASE FirstLevel(ans) \/ SecondLevel(ans) \/ (Rest(rd, ans) /\ state # "idle")
  <2>1. state \in {"first", "second"} /\ state' # "idle" /\ virt' = virt /\ dtlbReq' = dtlbReq
    BY <1>2, <1>8 DEF FirstLevel, SecondLevel, Rest
  <2>2. /\ ~flush
        /\ virt = IF dtlbReq THEN lsu.page ELSE fetch.page
        /\ dtlbReq => DtlbMiss
        /\ ~dtlbReq => VmI /\ ~ItlbHit(TRUE)
    BY <2>1 DEF WalkInv, DtlbMiss
  <2>3. /\ dtlb'.page = dtlb.page /\ (dtlb'.valid => dtlb.valid)
        /\ itlb'.page = itlb.page /\ (itlb'.valid => itlb.valid)
    BY <2>1, TlbsMove DEF Clock
  <2>4. /\ ~flush'
        /\ virt' = IF dtlbReq' THEN lsu'.page ELSE fetch'.page
        /\ dtlbReq' => Access' # "none" /\ VmD' /\ ~DtlbHit'
        /\ ~dtlbReq' => VmI' /\ ~ItlbHit(TRUE)'
    <3>1. CASE dtlbReq
      <4>1. VmD' /\ Access' # "none" /\ lsu' = lsu
        BY <2>2, <3>1, MissWaits
      <4>2. ~DtlbHit'
        BY <2>2, <2>3, <3>1, <4>1 DEF DtlbHit, DtlbMiss
      <4> QED
        BY <1>1, <2>1, <2>2, <3>1, <4>1, <4>2
    <3>2. CASE ~dtlbReq
      <4>1. VmI' /\ fetch' = fetch
        BY <2>2, <3>2, MissWaits
      <4>2. ~ItlbHit(TRUE)'
        BY <2>2, <2>3, <3>2, <4>1 DEF ItlbHit
      <4> QED
        BY <1>1, <2>1, <2>2, <3>2, <4>1, <4>2
    <3> QED
      BY <1>2, <3>1, <3>2
  <2>5. RequestPage = virt
    BY <2>1, <2>2 DEF RequestPage
  <2>6. \A a \in DOMAIN FirstTables : seen[a] \subseteq seen'[a]
    BY <1>3, <2>2
  <2>7. tables[pteAddr] \in seen[pteAddr] /\ tables[pteAddr] \in seen'[pteAddr]
    BY <1>2, <2>1, <2>6
  <2>8. CASE FirstLevel(ans)
    <3>1. state = "first" /\ pteAddr = <<Root, virt.hi>>
      BY <2>8 DEF FirstLevel, WalkInv
    <3>2. CASE PointsOn(ans)
      <4>1. state' = "second" /\ pteAddr' = <<tables[pteAddr].ppn, virt.lo>>
        BY <2>5, <2>8, <3>2 DEF FirstLevel
      <4>2. tables[pteAddr].valid /\ ~Leaf(tables[pteAddr])
        BY <3>2 DEF PointsOn
      <4>3. \E first \in seen'[<<Root, virt.hi>>] :
              first.valid /\ ~Leaf(first) /\ pteAddr' = <<first.ppn, virt.lo>>
        BY <2>7, <3>1, <4>1, <4>2
      <4> QED
        BY <2>1, <2>4, <4>1, <4>3 DEF WalkInv, Leaf
    <3>3. CASE ~PointsOn(ans)
      <4>1. /\ state' = "update"
            /\ pteEntry' = IF ans = "error" \/ ~tables[pteAddr].valid THEN NoPage
                           ELSE [page |-> <<tables[pteAddr].ppn, virt.lo>>,
                                 flags |-> tables[pteAddr].flags]
        BY <2>5, <2>8, <3>3 DEF FirstLevel
      <4>2. CASE ans = "error" \/ ~tables[pteAddr].valid
        <5>1. PICK pte \in seen'[<<Root, virt.hi>>] : ~pte.valid
          BY <1>3, <2>7, <3>1, <4>2
        <5>2. NoPage \in Step(seen', virt, pte)
          BY <5>1 DEF Step
        <5>3. pteEntry' \in Entries(seen', virt')
          BY <2>1, <4>1, <4>2, <5>1, <5>2, EntriesAre
        <5> QED
          BY <2>4, <4>1, <5>3 DEF WalkInv
      <4>3. CASE ~(ans = "error" \/ ~tables[pteAddr].valid)
        <5>1. Leaf(tables[pteAddr])
          BY <2>8, <3>3, <4>3 DEF PointsOn, FirstLevel
        <5>2. pteEntry' \in Step(seen', virt, tables[pteAddr])
          BY <4>1, <4>3, <5>1 DEF Step
        <5>3. pteEntry' \in Entries(seen', virt')
          BY <2>1, <2>7, <3>1, <5>2, EntriesAre
        <5> QED
          BY <2>4, <4>1, <5>3 DEF WalkInv
      <4> QED
        BY <4>2, <4>3
    <3> QED
      BY <3>2, <3>3
  <2>9. CASE SecondLevel(ans)
    <3>1. state = "second"
      BY <2>9 DEF SecondLevel
    <3>2. PICK first \in seen[<<Root, virt.hi>>] :
            first.valid /\ ~Leaf(first) /\ pteAddr = <<first.ppn, virt.lo>>
      BY <3>1 DEF WalkInv
    <3>3. first \in seen'[<<Root, virt.hi>>]
      BY <1>2, <1>4, <2>6, <3>2
    <3>4. /\ state' = "update"
          /\ pteEntry' = IF tables[pteAddr].valid
                           THEN [page |-> <<tables[pteAddr].ppn, 0>>, flags |-> tables[pteAddr].flags]
                           ELSE NoPage
      BY <2>9 DEF SecondLevel
    <3>5. pteEntry' \in Step(seen', virt, first)
      BY <2>7, <3>2, <3>4 DEF Step
    <3>6. pteEntry' \in Entries(seen', virt')
      BY <2>1, <3>3, <3>5, EntriesAre
    <3> QED
      BY <2>4, <3>4, <3>6 DEF WalkInv
  <2>10. CASE Rest(rd, ans)
    <3>1. state' = state /\ pteAddr' = pteAddr
      BY <2>10 DEF Rest
    <3>2. CASE state = "first"
      BY <2>1, <2>4, <3>1, <3>2 DEF WalkInv
    <3>3. CASE state = "second"
      <4>1. PICK first \in seen[<<Root, virt.hi>>] :
              first.valid /\ ~Leaf(first) /\ pteAddr = <<first.ppn, virt.lo>>
        BY <3>3 DEF WalkInv
      <4>2. first \in seen'[<<Root, virt.hi>>]
        BY <1>2, <1>4, <2>6, <4>1
      <4>3. \E pte \in seen'[<<Root, virt'.hi>>] :
              pte.valid /\ ~Leaf(pte) /\ pteAddr' = <<pte.ppn, virt'.lo>>
        BY <2>1, <3>1, <4>1, <4>2
      <4> QED
        BY <2>4, <3>1, <3>3, <4>3 DEF WalkInv, Leaf
    <3> QED
      BY <2>1, <3>2, <3>3
  <2> QED
    BY <1>8, <2>8, <2>9, <2>10
<1> QED
  BY <1>5, <1>6, <1>7, <1>8 DEF Clock

LEMMA TlbInvKept ==
  ASSUME IInv, NEW rd \in BOOLEAN, NEW iacc \in BOOLEAN, NEW ivalid \in BOOLEAN,
         NEW acc \in BOOLEAN, NEW ans, Clock(rd, iacc, ivalid, acc, ans)
  PROVE  TlbInv'
<1> USE DEF IInv
<1>1. virt \in Pages /\ itlb.page \in Pages /\ dtlb.page \in Pages /\ dtlbReq \in BOOLEAN
  BY DEF BelongInv, AnswersBelong, TypeOK
<1>2. ~flush => \A p \in Pages : Entries(seen, p) \subseteq Entries(seen', p)
  <2>1. ans = "error" => state = "first"
    BY DEF Clock
  <2>2. ~flush => \A a \in DOMAIN FirstTables : seen[a] \subseteq seen'[a] /\ seen[a] \subseteq MayHold(a)
    BY <2>1, SeenMoves DEF SeenInv, Clock
  <2> QED
    BY <2>2, EntriesGrow
<1>3. state = "update" => ~flush /\ pteEntry \in Entries(seen, virt)
  BY DEF WalkInv
<1>4. ASSUME itlb'.valid PROVE itlb'.entry \in Entries(seen', itlb'.page)
  <2>1. CASE state = "update" /\ ~dtlbReq
    <3>1. itlb'.page = virt /\ itlb'.entry = pteEntry
      BY <2>1, TlbsMove DEF Clock
    <3> QED
      BY <1>1, <1>2, <1>3, <2>1, <3>1
  <2>2. CASE ~(state = "update" /\ ~dtlbReq)
    <3>1. itlb'.page = itlb.page /\ itlb'.entry = itlb.entry /\ ~flush /\ itlb.valid
      BY <1>4, <2>2, TlbsMove DEF Clock
    <3> QED
      BY <1>1, <1>2, <3>1 DEF TlbInv
  <2> QED
    BY <2>1, <2>2
<1>5. ASSUME dtlb'.valid PROVE dtlb'.entry \in Entries(seen', dtlb'.page)
  <2>1. CASE state = "update" /\ dtlbReq
    <3>1. dtlb'.page = virt /\ dtlb'.entry = pteEntry
      BY <2>1, TlbsMove DEF Clock
    <3> QED
      BY <1>1, <1>2, <1>3, <2>1, <3>1
  <2>2. CASE ~(state = "update" /\ dtlbReq)
    <3>1. dtlb'.page = dtlb.page /\ dtlb'.entry = dtlb.entry /\ ~flush /\ dtlb.valid
      BY <1>5, <2>2, TlbsMove DEF Clock
    <3> QED
      BY <1>1, <1>2, <3>1 DEF TlbInv
  <2> QED
    BY <2>1, <2>2
<1> QED
  BY <1>4, <1>5 DEF TlbInv

LEMMA EffortInvKept ==
  ASSUME IInv, NEW rd \in BOOLEAN, NEW iacc \in BOOLEAN, NEW ivalid \in BOOLEAN,
         NEW acc \in BOOLEAN, NEW ans, Clock(rd, iacc, ivalid, acc, ans)
  PROVE  EffortInv'
<1> USE DEF IInv
<1>1. PICK d \in BOOLEAN, f \in BOOLEAN :
        /\ d <=> lsu.op # "none" /\ LsuAccept(acc)
        /\ f <=> rd /\ FetchAccept(rd, iacc)
  OBVIOUS
<1>2. /\ walks'.data = IF flush \/ d THEN 0
                       ELSE IF state = "update" /\ dtlbReq THEN walks.data + 1 ELSE walks.data
      /\ walks'.fetch = IF flush \/ f THEN 0
                        ELSE IF state = "update" /\ ~dtlbReq THEN walks.fetch + 1 ELSE walks.fetch
  BY <1>1 DEF Clock, Effort, BelongInv, AnswersBelong, TypeOK
<1>3. /\ walks.data \in 0 .. 1 /\ walks.fetch \in 0 .. 2
      /\ walks.data = 1 => /\ lsu.op # "none" /\ dtlb.valid /\ dtlb.page = lsu.page
                           /\ ~(state # "idle" /\ dtlbReq)
      /\ walks.fetch >= 1 => itlb.page = fetch.page
      /\ walks.fetch = 2 => itlb.valid /\ ~FetchWalk
  BY DEF EffortInv
<1>4. state \in {"idle", "first", "second", "update"} /\ dtlbReq \in BOOLEAN
  BY DEF BelongInv, AnswersBelong, TypeOK
<1>5. state = "update" =>
        /\ ~flush /\ state' = "idle"
        /\ virt = IF dtlbReq THEN lsu.page ELSE fetch.page
        /\ dtlbReq => DtlbMiss
        /\ ~dtlbReq => VmI /\ ~ItlbHit(TRUE)
  BY DEF WalkInv, DtlbMiss, Clock, Start, FirstLevel, SecondLevel, Update, Rest
<1>6. state # "idle" => dtlbReq' = dtlbReq \/ state' = "idle"
  BY DEF Clock, Start, FirstLevel, SecondLevel, Update, Rest
<1>7. state = "idle" /\ state' # "idle" =>
        (dtlbReq' <=> DtlbMiss) /\ (ItlbMiss(rd) \/ DtlbMiss)
  BY DEF Clock, Start, FirstLevel, SecondLevel, Update, Rest, DtlbMiss
<1>8. /\ walks'.data \in 0 .. 1
      /\ walks'.data = 1 => /\ lsu'.op # "none" /\ dtlb'.valid /\ dtlb'.page = lsu'.page
                            /\ ~(state' # "idle" /\ dtlbReq')
  <2>1. CASE flush \/ d
    BY <1>2, <2>1
  <2>2. CASE ~(flush \/ d) /\ state = "update" /\ dtlbReq
    <3>1. DtlbMiss /\ state' = "idle" /\ virt = lsu.page
      BY <1>5, <2>2
    <3>2. lsu.op # "none" /\ lsu' = lsu
      BY <3>1, MissWaits
    <3>3. dtlb'.page = virt /\ dtlb'.valid
      BY <2>2, TlbsMove DEF Clock
    <3>4. walks.data = 0
      BY <1>3, <2>2
    <3> QED
      BY <1>2, <2>2, <3>1, <3>2, <3>3, <3>4
  <2>3. CASE ~(flush \/ d) /\ ~(state = "update" /\ dtlbReq)
    <3>1. walks'.data = walks.data
      BY <1>2, <2>3
    <3>2. ASSUME walks.data = 1
          PROVE  /\ lsu'.op # "none" /\ dtlb'.valid /\ dtlb'.page = lsu'.page
                 /\ ~(state' # "idle" /\ dtlbReq')
      <4>1. lsu' = lsu
        BY <1>1, <1>3, <2>3, <3>2, MissWaits
      <4>2. dtlb'.page = dtlb.page /\ dtlb'.valid
        BY <1>3, <2>3, <3>2, TlbsMove DEF Clock
      <4>3. ~DtlbMiss
        BY <1>3, <3>2 DEF DtlbMiss, DtlbHit
      <4>4. ~(state' # "idle" /\ dtlbReq')
        BY <1>3, <1>6, <1>7, <3>2, <4>3
      <4> QED
        BY <1>3, <3>2, <4>1, <4>2, <4>4
    <3> QED
      BY <1>3, <3>1, <3>2
  <2> QED
    BY <2>1, <2>2, <2>3
<1>9. /\ walks'.fetch \in 0 .. 2
      /\ walks'.fetch >= 1 => itlb'.page = fetch'.page
      /\ walks'.fetch = 2 => itlb'.valid /\ ~(state' # "idle" /\ ~dtlbReq')
  <2>1. CASE flush \/ f
    BY <1>2, <2>1
  <2>2. CASE ~(flush \/ f) /\ state = "update" /\ ~dtlbReq
    <3>1. fetch' = fetch /\ state' = "idle" /\ virt = fetch.page
      BY <1>1, <1>5, <2>2, MissWaits
    <3>2. itlb'.page = virt /\ (itlb'.valid <=> itlb.page = fetch.page)
      BY <2>2, TlbsMove DEF Clock
    <3>3. walks.fetch \in 0 .. 1
      BY <1>3, <2>2 DEF FetchWalk
    <3>4. walks'.fetch = walks.fetch + 1
      BY <1>2, <2>2
    <3>5. walks'.fetch = 2 => itlb.page = fetch.page
      BY <1>3, <3>3, <3>4
    <3> QED
      BY <3>1, <3>2, <3>3, <3>4, <3>5
  <2>3. CASE ~(flush \/ f) /\ ~(state = "update" /\ ~dtlbReq)
    <3>1. walks'.fetch = walks.fetch /\ fetch' = fetch
      BY <1>1, <1>2, <2>3, MissWaits
    <3>2. itlb'.page = itlb.page /\ (itlb'.valid <=> ~FetchWalk /\ itlb.valid)
      BY <2>3, TlbsMove DEF Clock
    <3>3. ASSUME walks.fetch = 2 PROVE itlb'.valid /\ ~(state' # "idle" /\ ~dtlbReq')
      <4>1. itlb.valid /\ ~FetchWalk /\ itlb.page = fetch.page
        BY <1>3, <3>3
      <4>2. ~ItlbMiss(rd)
        BY <4>1 DEF ItlbMiss, ItlbHit
      <4>3. ~(state' # "idle" /\ ~dtlbReq')
        BY <1>4, <1>6, <1>7, <4>1, <4>2 DEF FetchWalk
      <4> QED
        BY <3>2, <4>1, <4>3
    <3> QED
      BY <1>3, <3>1, <3>2, <3>3
  <2> QED
    BY <2>1, <2>2, <2>3
<1> QED
  BY <1>8, <1>9 DEF EffortInv, FetchWalk

-----------------------------------------------------------------------------
(* Putting it together.                                                    *)

LEMMA IInvInit == ASSUME Init PROVE IInv
<1>1. SeenInv
  <2>1. \A a \in DOMAIN FirstTables : FirstTables[a] \in MayHold(a)
    BY DEF MayHold, PtesAt
  <2> QED
    BY <2>1 DEF Init, SeenInv
<1>2. WalkInv
  BY DEF Init, WalkInv
<1>3. TlbInv
  BY DEF Init, TlbInv
<1>4. EffortInv
  BY DEF Init, EffortInv
<1> QED
  BY <1>1, <1>2, <1>3, <1>4, BelongInvInit DEF IInv

LEMMA IInvKept ==
  ASSUME IInv, ~FlushInWalk, NEW rd \in BOOLEAN, NEW iacc \in BOOLEAN, NEW ivalid \in BOOLEAN,
         NEW acc \in BOOLEAN, NEW ans, Clock(rd, iacc, ivalid, acc, ans)
  PROVE  IInv'
<1>1. SeenInv'
  <2>1. ans = "error" => state = "first"
    BY DEF Clock
  <2> QED
    BY <2>1, SeenMoves DEF Clock, IInv
<1>2. BelongInv'
  BY BelongInvKept DEF IInv
<1> QED
  BY <1>1, <1>2, WalkInvKept, TlbInvKept, EffortInvKept DEF IInv

LEMMA StutterBelong == ASSUME BelongInv, UNCHANGED vars PROVE BelongInv'
<1>1. UNCHANGED <<walker, tlbs, mux, around, walks>>
  BY DEF vars
<1>2. UNCHANGED <<state, pteAddr, dtlbReq, memReq, virt, itlb, dtlb, pcFault, dataFault, waiting, hold>>
  BY <1>1 DEF walker, tlbs, mux
<1>3. UNCHANGED <<fetch, fetchBusy, icacheBusy, lsu, lsuBusy, mode, port, tables, flush, walks>>
  BY <1>1 DEF around
<1>4. TypeOK'
  BY <1>2, <1>3 DEF BelongInv, AnswersBelong, TypeOK
<1>5. AnswersBelong'
  BY <1>2, <1>3, <1>4 DEF BelongInv, AnswersBelong, Owed, Count
<1>6. RequestInv'
  BY <1>2, <1>3 DEF BelongInv, RequestInv, VmD
<1>7. PortInv'
  BY <1>2, <1>3 DEF BelongInv, PortInv
<1> QED
  BY <1>5, <1>6, <1>7 DEF BelongInv

LEMMA Stutter == ASSUME IInv, UNCHANGED vars PROVE IInv'
<1>1. UNCHANGED <<walker, tlbs, mux, around, seen, walks>>
  BY DEF vars
<1>2. UNCHANGED <<state, pteAddr, pteEntry, dtlbReq, virt, itlb, dtlb, waiting>>
  BY <1>1 DEF walker, tlbs, mux
<1>3. UNCHANGED <<fetch, lsu, mode, tables, flush, seen, walks>>
  BY <1>1 DEF around
<1>4. BelongInv'
  BY StutterBelong DEF IInv
<1>5. SeenInv'
  BY <1>2, <1>3 DEF IInv, SeenInv
<1>6. WalkInv'
  <2>1. (VmI' <=> VmI) /\ (VmD' <=> VmD) /\ Access' = Access /\ (DtlbHit' <=> DtlbHit)
    BY <1>2, <1>3 DEF VmI, VmD, Access, DtlbHit
  <2>2. ItlbHit(TRUE)' <=> ItlbHit(TRUE)
    BY <1>2, <1>3 DEF ItlbHit
  <2>3. Entries(seen', virt') = Entries(seen, virt)
    BY <1>2, <1>3
  <2> QED
    BY <1>2, <1>3, <2>1, <2>2, <2>3 DEF IInv, WalkInv, Leaf
<1>7. TlbInv'
  <2>1. /\ Entries(seen', itlb'.page) = Entries(seen, itlb.page)
        /\ Entries(seen', dtlb'.page) = Entries(seen, dtlb.page)
    BY <1>2, <1>3
  <2> QED
    BY <1>2, <1>3, <2>1 DEF IInv, TlbInv
<1>8. EffortInv'
  BY <1>2, <1>3 DEF IInv, EffortInv, FetchWalk
<1> QED
  BY <1>4, <1>5, <1>6, <1>7, <1>8 DEF IInv

LEMMA NextIsClock ==
  ASSUME BelongInv, Next
  PROVE  \E rd, iacc, ivalid, acc \in BOOLEAN : \E ans : Clock(rd, iacc, ivalid, acc, ans)
<1>1. icacheBusy \in BOOLEAN /\ pcFault \in BOOLEAN
  BY DEF BelongInv, RequestInv, AnswersBelong, TypeOK
<1>2. PICK rd \in IF fetchBusy THEN {FALSE, icacheBusy \/ pcFault} ELSE BOOLEAN :
        \E iacc \in IF FetchOut(rd) THEN BOOLEAN ELSE {TRUE}, ivalid \in {FALSE, icacheBusy},
           acc \in BOOLEAN, ans \in IF port = <<>> THEN {"none"} ELSE {"none", "ok", "error"} :
          Clock(rd, iacc, ivalid, acc, ans)
  BY Zenon DEF Next
<1>3. PICK iacc \in IF FetchOut(rd) THEN BOOLEAN ELSE {TRUE}, ivalid \in {FALSE, icacheBusy},
           acc \in BOOLEAN : \E ans : Clock(rd, iacc, ivalid, acc, ans)
  BY <1>2, Zenon
<1>4. rd \in BOOLEAN /\ iacc \in BOOLEAN /\ ivalid \in BOOLEAN
  BY <1>1
<1> QED
  BY <1>3, <1>4

(* Each side gets the answers to its own requests, one for each, whatever  *)
(* is flushed and whenever: the tag on the shared data port and the hold   *)
(* of it keep the walker's reads (riscv_mmu.v, resp_valid_w and mem_req_q) *)
(* and the load/store unit's accesses apart, a fault stands for the answer *)
(* of an access that does not go out, and the instruction side likewise.   *)
THEOREM AnswersBelongCorrect == Spec => []AnswersBelong
<1>1. Init => BelongInv
  BY BelongInvInit
<1>2. BelongInv /\ [Next]_vars => BelongInv'
  <2>1. ASSUME BelongInv, Next PROVE BelongInv'
    BY <2>1, NextIsClock, BelongInvKept
  <2> QED
    BY <2>1, StutterBelong
<1>3. BelongInv => AnswersBelong
  BY DEF BelongInv
<1> QED
  BY <1>1, <1>2, <1>3, PTL DEF Spec

(* What riscv_mmu.v keeps between two clock edges, as long as no TLB is    *)
(* flushed while it walks: the walker works for a side that misses, shows  *)
(* the page it walks for and is where a walk of the tables would be; what  *)
(* a TLB holds is what a walk would find; and one walk for data, two for   *)
(* an instruction, leave the entry that was missed.                        *)
THEOREM InvariantHolds == ~FlushInWalk => (Spec => []IInv)
<1> SUFFICES ASSUME ~FlushInWalk PROVE Spec => []IInv
  OBVIOUS
<1>1. Init => IInv
  BY IInvInit
<1>2. IInv /\ [Next]_vars => IInv'
  <2>1. ASSUME IInv, Next PROVE IInv'
    <3>1. PICK rd, iacc, ivalid, acc \in BOOLEAN : \E ans : Clock(rd, iacc, ivalid, acc, ans)
      BY <2>1, NextIsClock DEF IInv
    <3>2. PICK ans : Clock(rd, iacc, ivalid, acc, ans)
      BY <3>1
    <3> QED
      BY <2>1, <3>2, IInvKept
  <2> QED
    BY <2>1, Stutter
<1> QED
  BY <1>1, <1>2, PTL DEF Spec

(* One walk resolves a data miss and two an instruction miss               *)
(* (riscv_mmu.v, itlb_valid_q and dtlb_valid_q): the other side's walks,   *)
(* which take turns with them, do not undo one before it is used.          *)
THEOREM MissesResolvedCorrect == ~FlushInWalk => (Spec => []MissesResolved)
<1>1. IInv => MissesResolved
  BY DEF IInv, EffortInv, MissesResolved
<1> QED
  BY <1>1, InvariantHolds, PTL

(* A PTE in which the unit and the simulator see the same permissions: not *)
(* one writable but not readable, not a user page where S may not use it,  *)
(* not one that only mxr makes readable.                                   *)
Agree(flags, m) ==
  /\ ~Reserved(flags)
  /\ m.on /\ m.priv = "S" =>
       /\ ~m.sum => "U" \notin flags
       /\ m.mxr => "R" \in flags \/ "X" \notin flags

(* The PTEs that walks for p may end with. *)
LastPtes(p) ==
  UNION { IF first.valid /\ ~Leaf(first) THEN PtesAt(<<first.ppn, p.lo>>) ELSE {first}
        : first \in PtesAt(<<Root, p.hi>>) }

(* Tables, and programs that use them, which the simulator is meant for:   *)
(* no walk goes on after the second level or ends where there is no        *)
(* memory, and S does not fetch from a user page.                          *)
Agreed ==
  /\ \A a \in DOMAIN FirstTables : \A pte \in PtesAt(a), m \in Modes :
       pte.valid => Agree(pte.flags, m)
  /\ \A p \in Pages : \A pte \in LastPtes(p) :
       pte.valid =>
         /\ Leaf(pte)
         /\ <<pte.ppn, 0>> \notin NoMemory /\ <<pte.ppn, p.lo>> \notin NoMemory
         /\ "U" \in pte.flags => [page |-> p, priv |-> "S"] \notin Fetches

LEMMA ValidHeld ==
  ASSUME NEW a \in DOMAIN FirstTables, NEW pte \in MayHold(a), pte.valid
  PROVE  pte \in PtesAt(a)
<1>1. \A other \in PtesAt(a) : ~[other EXCEPT !.valid = FALSE].valid
  BY MmuAssumption DEF PteType
<1> QED
  BY <1>1 DEF MayHold

(* What the walker makes of agreed tables is what the simulator returns,   *)
(* and it is a page where there is memory, or none.                        *)
LEMMA EntryFound ==
  ASSUME Agreed, SeenInv, NEW p \in Pages, NEW e \in Entries(seen, p)
  PROVE  /\ e \in Walks(seen, p)
         /\ \/ e = NoPage
            \/ \E pte \in LastPtes(p) : pte.valid /\ e.flags = pte.flags
<1>1. PICK first \in seen[<<Root, p.hi>>] : e \in Step(seen, p, first)
  BY EntriesAre
<1>2. <<Root, p.hi>> \in DOMAIN FirstTables /\ first \in MayHold(<<Root, p.hi>>)
  BY <1>1, MmuAssumption DEF SeenInv
<1> DEFINE Found(first_) ==
             IF ~first_.valid THEN {NoPage}
             ELSE IF Leaf(first_) THEN LeafAt(<<first_.ppn, p.lo>>, first_.flags)
             ELSE UNION { IF ~second.valid THEN {NoPage}
                          ELSE IF Leaf(second) THEN LeafAt(<<second.ppn, 0>>, second.flags)
                          ELSE {} : second \in seen[<<first_.ppn, p.lo>>] }
<1>3. Walks(seen, p) = UNION {Found(f) : f \in seen[<<Root, p.hi>>]}
  BY DEF Walks
<1>4. e \in Found(first) => e \in Walks(seen, p)
  BY <1>1, <1>3
<1>5. first.valid => first \in PtesAt(<<Root, p.hi>>)
  BY <1>2, ValidHeld
<1>6. CASE ~first.valid
  <2>1. e = NoPage /\ e \in Found(first)
    BY <1>1, <1>6 DEF Step
  <2> QED
    BY <1>4, <2>1
<1>7. CASE first.valid /\ Leaf(first)
  <2>1. first \in LastPtes(p)
    BY <1>5, <1>7 DEF LastPtes
  <2>2. <<first.ppn, p.lo>> \notin NoMemory
    BY <1>7, <2>1 DEF Agreed
  <2>3. e = [page |-> <<first.ppn, p.lo>>, flags |-> first.flags]
    BY <1>1, <1>7 DEF Step
  <2>4. e \in Found(first)
    BY <1>7, <2>2, <2>3 DEF LeafAt
  <2> QED
    BY <1>4, <1>7, <2>1, <2>3, <2>4
<1>8. CASE first.valid /\ ~Leaf(first)
  <2>1. PICK second \in seen[<<first.ppn, p.lo>>] :
          e = IF second.valid THEN [page |-> <<second.ppn, 0>>, flags |-> second.flags] ELSE NoPage
    BY <1>1, <1>8 DEF Step
  <2>2. <<first.ppn, p.lo>> \in DOMAIN FirstTables
    BY <1>2, <1>8, MayHoldType
  <2>3. second \in MayHold(<<first.ppn, p.lo>>)
    BY <2>1, <2>2 DEF SeenInv
  <2>4. CASE ~second.valid
    <3>1. e = NoPage
      BY <2>1, <2>4
    <3>2. e \in Found(first)
      BY <1>8, <2>1, <2>4, <3>1
    <3> QED
      BY <1>4, <3>1, <3>2
  <2>5. CASE second.valid
    <3>1. second \in PtesAt(<<first.ppn, p.lo>>)
      BY <2>2, <2>3, <2>5, ValidHeld
    <3>2. second \in LastPtes(p)
      BY <1>5, <1>8, <3>1 DEF LastPtes
    <3>3. Leaf(second) /\ <<second.ppn, 0>> \notin NoMemory
      BY <2>5, <3>2 DEF Agreed
    <3>4. e = [page |-> <<second.ppn, 0>>, flags |-> second.flags]
      BY <2>1, <2>5
    <3>5. e \in LeafAt(<<second.ppn, 0>>, second.flags)
      BY <3>3, <3>4 DEF LeafAt
    <3>6. e \in Found(first)
      BY <1>8, <2>1, <2>5, <3>3, <3>5
    <3> QED
      BY <1>4, <2>5, <3>2, <3>4, <3>6
  <2> QED
    BY <2>4, <2>5
<1> QED
  BY <1>6, <1>7, <1>8

LEMMA EntryAgrees ==
  ASSUME Agreed, SeenInv, NEW p \in Pages, NEW e \in Entries(seen, p), NEW m \in Modes
  PROVE  Agree(e.flags, m)
<1>1. CASE e = NoPage
  BY <1>1 DEF NoPage, Agree, Reserved
<1>2. CASE \E a \in DOMAIN FirstTables : \E pte \in MayHold(a) : pte.valid /\ e.flags = pte.flags
  BY <1>2, ValidHeld DEF Agreed
<1> QED
  BY <1>1, <1>2, EntriesFlags DEF SeenInv

LEMMA FetchJudged ==
  ASSUME RequestInv, VmI, ItlbHit(TRUE), ~Reserved(itlb.entry.flags),
         fetch.priv = "S" => "U" \notin itlb.entry.flags
  PROVE  FetchOutcome(itlb.entry.flags, fetch.priv) = IF PcFault(TRUE) THEN "fault" ELSE "page"
<1>1. fetch.priv = "S" \/ fetch.priv = "U"
  BY MmuAssumption DEF RequestInv, VmI
<1>2. CASE fetch.priv = "S"
  BY <1>2 DEF PcFault, FetchOutcome
<1>3. CASE fetch.priv = "U"
  BY <1>3 DEF PcFault, FetchOutcome
<1> QED
  BY <1>1, <1>2, <1>3

LEMMA DataJudged ==
  ASSUME RequestInv, VmD, Access \in {"load", "store"}, DtlbHit, Agree(dtlb.entry.flags, mode)
  PROVE  DataOutcome(dtlb.entry.flags, mode, Access) =
           IF LoadFault \/ StoreFault THEN "fault" ELSE "page"
<1>1. (mode.priv = "S" \/ mode.priv = "U") /\ mode.on
  BY MmuAssumption DEF RequestInv, VmD
<1>2. "W" \in dtlb.entry.flags => "R" \in dtlb.entry.flags
  BY DEF Agree, Reserved
<1>3. CASE mode.priv = "S"
  <2>1. /\ ~mode.sum => "U" \notin dtlb.entry.flags
        /\ mode.mxr => "R" \in dtlb.entry.flags \/ "X" \notin dtlb.entry.flags
    BY <1>1, <1>3 DEF Agree
  <2>2. CASE Access = "load"
    BY <1>3, <2>1, <2>2 DEF LoadFault, StoreFault, DataOutcome, Agree
  <2>3. CASE Access = "store"
    BY <1>2, <1>3, <2>1, <2>3 DEF LoadFault, StoreFault, DataOutcome, Agree
  <2> QED
    BY <2>2, <2>3
<1>4. CASE mode.priv = "U"
  <2>1. CASE Access = "load"
    BY <1>4, <2>1 DEF LoadFault, StoreFault, DataOutcome, Agree
  <2>2. CASE Access = "store"
    BY <1>2, <1>4, <2>2 DEF LoadFault, StoreFault, DataOutcome, Agree
  <2> QED
    BY <2>1, <2>2
<1> QED
  BY <1>1, <1>3, <1>4

(* What is fetched or accessed under translation is in the page that the   *)
(* tables gave since the last flush, and faults exactly when the simulator *)
(* would (riscv_mmu.v, pc_fault_r, load_fault_r and store_fault_r, against *)
(* mmu_walk, mmu_i_translate and mmu_d_translate of isa_sim/riscv.cpp),    *)
(* which never exits: for page tables, fetches and modes that it is meant  *)
(* for (Agreed), and no flush during a walk.                               *)
THEOREM TranslationsLegalCorrect == ~FlushInWalk /\ Agreed => (Spec => []TranslationsLegal)
<1> SUFFICES ASSUME ~FlushInWalk, Agreed PROVE Spec => []TranslationsLegal
  OBVIOUS
<1>1. ASSUME IInv PROVE TranslationsLegal
  <2> USE <1>1 DEF IInv
  <2>1. itlb.page \in Pages /\ dtlb.page \in Pages /\ waiting \in {"none", "load", "store"}
    BY DEF BelongInv, AnswersBelong, TypeOK
  <2>2. RequestInv /\ mode \in Modes
    BY DEF BelongInv, RequestInv
  <2>3. ASSUME VmI, ItlbHit(TRUE)
        PROVE  /\ itlb.entry \in Walks(seen, fetch.page)
               /\ FetchOutcome(itlb.entry.flags, fetch.priv) =
                    IF PcFault(TRUE) THEN "fault" ELSE "page"
    <3>1. itlb.entry \in Entries(seen, fetch.page) /\ itlb.page = fetch.page
      BY <2>3 DEF TlbInv, ItlbHit
    <3>2. ~Reserved(itlb.entry.flags)
      BY <2>1, <2>2, <3>1, EntryAgrees DEF Agree
    <3>3. /\ itlb.entry \in Walks(seen, fetch.page)
          /\ \/ itlb.entry = NoPage
             \/ \E pte \in LastPtes(fetch.page) : pte.valid /\ itlb.entry.flags = pte.flags
      BY <2>1, <3>1, EntryFound
    <3>4. /\ fetch = [page |-> fetch.page, priv |-> fetch.priv]
          /\ fetch \in Fetches /\ fetch.page \in Pages
      BY <2>2, MmuAssumption DEF RequestInv
    <3>5. ASSUME fetch.priv = "S" PROVE "U" \notin itlb.entry.flags
      <4>1. [page |-> fetch.page, priv |-> "S"] \in Fetches
        BY <3>4, <3>5
      <4>2. \A pte \in LastPtes(fetch.page) : pte.valid => "U" \notin pte.flags
        BY <3>4, <4>1 DEF Agreed
      <4> QED
        BY <3>3, <4>2 DEF NoPage
    <3> QED
      BY <2>2, <2>3, <3>2, <3>3, <3>5, FetchJudged
  <2>4. ASSUME VmD, Access # "none", DtlbHit
        PROVE  /\ dtlb.entry \in Walks(seen, lsu.page)
               /\ DataOutcome(dtlb.entry.flags, mode, Access) =
                    IF LoadFault \/ StoreFault THEN "fault" ELSE "page"
    <3>1. dtlb.entry \in Entries(seen, dtlb.page) /\ dtlb.page = lsu.page
      BY <2>4 DEF TlbInv, DtlbHit
    <3>2. Agree(dtlb.entry.flags, mode) /\ dtlb.entry \in Walks(seen, lsu.page)
      BY <2>1, <2>2, <3>1, EntryAgrees, EntryFound
    <3>3. Access \in {"load", "store"}
      BY <2>1, <2>4 DEF Access
    <3> QED
      BY <2>2, <2>4, <3>1, <3>2, <3>3, DataJudged
  <2> QED
    BY <2>3, <2>4 DEF TranslationsLegal
<1>2. []IInv => []TranslationsLegal
  BY <1>1, PTL
<1> QED
  BY <1>2, InvariantHolds, PTL

=============================================================================
