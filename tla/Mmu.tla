-------------------------------- MODULE Mmu --------------------------------
(***************************************************************************)
(* The memory management unit, core/riscv/riscv_mmu.v with SUPPORT_MMU:    *)
(* two translation buffers (TLBs) of one entry each, one for instructions  *)
(* and one for data, a page table walker that fills both, and the          *)
(* multiplexer by which its reads of page tables share the data port with  *)
(* the load/store unit.  A step is one rising clock edge.                  *)
(*                                                                         *)
(* Around it: a fetch unit that asks for one instruction at a time and     *)
(* keeps its pc until it is accepted (riscv_fetch.v); a load/store unit    *)
(* that keeps a request until it is accepted and waits for its answer      *)
(* before the next (riscv_lsu.v); memories that accept when they like and  *)
(* answer in order; software that changes page tables at any time, and     *)
(* then flushes the TLBs (sfence.vma, or a write of satp: tlb_flush_q).    *)
(*                                                                         *)
(* A virtual page is the pair of its indices into the two levels of the    *)
(* tables, a physical page the pair of a page number and what a superpage  *)
(* adds to it.  Offsets in a page, data and request tags other than the    *)
(* walker's are left out.                                                  *)
(***************************************************************************)
EXTENDS Naturals, Sequences, FiniteSets

CONSTANTS
  Pages,           (* virtual pages: [hi, lo]                              *)
  Root,            (* where satp points: the number of the first table     *)
  FirstTables,     (* the page tables at first: a PTE for each address     *)
  Updates,         (* what software may change: [addr, pte]                *)
  Fetches,         (* what is fetched: [page, priv], priv of M, S, U       *)
  Modes,           (* how data is accessed: [on, priv, sum, mxr]           *)
  NoMemory,        (* physical pages where the simulator has no memory     *)
  BusErrors,       (* the walks' level-one reads may fail                  *)
  FlushInWalk      (* TLBs may be flushed while the walker works           *)

(* What an address of the page tables may ever hold.                       *)
PtesAt(a) == {FirstTables[a]} \cup {u.pte : u \in {v \in Updates : v.addr = a}}

Ppns == UNION {{pte.ppn : pte \in PtesAt(a)} : a \in DOMAIN FirstTables}

PteType == [valid : BOOLEAN, ppn : Ppns, flags : SUBSET {"R", "W", "X", "U"}]

(* Every address that a walk may reach is one of the tables'.              *)
ASSUME MmuAssumption ==
  /\ Pages # {}
  /\ \A a \in DOMAIN FirstTables : PtesAt(a) \subseteq PteType
  /\ \A u \in Updates : u.addr \in DOMAIN FirstTables
  /\ \A p \in Pages :
       /\ <<Root, p.hi>> \in DOMAIN FirstTables
       /\ \A pte \in PtesAt(<<Root, p.hi>>), q \in Pages :
            pte.valid /\ pte.flags \cap {"R", "W", "X"} = {} =>
              <<pte.ppn, q.lo>> \in DOMAIN FirstTables
  /\ Fetches \subseteq [page : Pages, priv : {"M", "S", "U"}] /\ Fetches # {}
  /\ Modes \subseteq [on : BOOLEAN, priv : {"M", "S", "U"}, sum : BOOLEAN, mxr : BOOLEAN]
  /\ Modes # {}
  /\ BusErrors \in BOOLEAN /\ FlushInWalk \in BOOLEAN

VARIABLES
  (* the walker *)
  state,         (* state_q                                                *)
  pteAddr,       (* pte_addr_q: <<table, index>>                           *)
  pteEntry,      (* pte_entry_q: [page, flags]                             *)
  virt,          (* virt_addr_q                                            *)
  dtlbReq,       (* dtlb_req_q: the walk is for data                       *)
  memReq,        (* mem_req_q: the walker asks for a read                  *)
  (* the TLBs *)
  itlb, dtlb,    (* [valid, page, entry]                                   *)
  pcFault,       (* pc_fault_q                                             *)
  dataFault,     (* load_fault_q or store_fault_q                          *)
  (* the data port *)
  waiting,       (* load_q and store_q: the kind of access kept, or "none" *)
  hold,          (* read_hold_q and src_mmu_q: who keeps the port, "mmu"   *)
                 (* or "cpu", or "none"                                    *)
  (* the neighbours *)
  fetch,         (* [page, priv] of the instruction the fetch unit is at   *)
  fetchBusy,     (* it waits for an instruction                            *)
  icacheBusy,    (* the instruction cache owes one                         *)
  lsu,           (* the request of the load/store unit: [op, page]         *)
  lsuBusy,       (* it waits for an answer                                 *)
  mode,          (* priv_d_i, sum_i, mxr_i and whether satp turns on       *)
  port,          (* whose reads and writes the data memory owes, in order  *)
  tables,        (* the page tables in memory                              *)
  flush,         (* flush_i                                                *)
  (* history *)
  seen,          (* the PTEs each address has held since the last flush    *)
  walks          (* walks made for what fetch unit and load/store unit ask *)
                 (* for now, since the last flush                          *)

walker == <<state, pteAddr, pteEntry, virt, dtlbReq, memReq>>
tlbs   == <<itlb, dtlb, pcFault, dataFault>>
mux    == <<waiting, hold>>
around == <<fetch, fetchBusy, icacheBusy, lsu, lsuBusy, mode, port, tables, flush>>
vars   == <<walker, tlbs, mux, around, seen, walks>>

---------------------------------------------------------------------------
(* Page tables, as the simulator reads them: mmu_walk, mmu_i_translate and *)
(* mmu_d_translate of isa_sim/riscv.cpp.  A PTE is [valid, ppn, flags],    *)
(* the flags a subset of {"R", "W", "X", "U"}.                             *)

Leaf(pte) == pte.flags \cap {"R", "W", "X"} # {}

(* The TLBs and the load/store unit when they hold nothing.                *)
NoPage == [page |-> <<0, 0>>, flags |-> {}]

(* The leaf a walk ends with: out of memory, the simulator exits.         *)
LeafAt(page, flags) ==
  IF page \in NoMemory THEN {} ELSE {[page |-> page, flags |-> flags]}

(* What a walk may return when each of its reads may find any of the PTEs  *)
(* in Found.  i >= 0 holds of every unsigned i, so a pointer in the second *)
(* level leads the walk on, by bits of the offset in the page and shifts   *)
(* by negative counts: nothing it might return then is right.              *)
Walks(Found, p) ==
  UNION { IF ~first.valid THEN {NoPage}
          ELSE IF Leaf(first) THEN LeafAt(<<first.ppn, p.lo>>, first.flags)
          ELSE UNION { IF ~second.valid THEN {NoPage}
                       ELSE IF Leaf(second) THEN LeafAt(<<second.ppn, 0>>, second.flags)
                       ELSE {} : second \in Found[<<first.ppn, p.lo>>] }
        : first \in Found[<<Root, p.hi>>] }

NoRequest == [op |-> "none", page |-> CHOOSE p \in Pages : TRUE]

Reserved(flags) == flags \cap {"R", "W", "X"} \in {{"W"}, {"W", "X"}}

(* The page, a page fault, or error(), which ends the simulator.           *)
FetchOutcome(flags, priv) ==
  IF Reserved(flags) THEN "fault"
  ELSE IF priv = "S" /\ "U" \in flags THEN "exit"
  ELSE IF "X" \in flags /\ (priv = "U" => "U" \in flags) THEN "page" ELSE "fault"

DataOutcome(flags, m, op) ==
  IF Reserved(flags) THEN "fault"
  ELSE IF m.priv = "S" /\ "U" \in flags /\ ~m.sum THEN "exit"
  ELSE IF /\ (IF op = "store" THEN "W" ELSE "R") \in flags
          /\ m.priv = "U" => "U" \in flags THEN "page" ELSE "fault"

---------------------------------------------------------------------------
(* The wires.                                                              *)

(* vm_i_enable_w: the fetch unit is told privilege M when satp is off.     *)
VmI == fetch.priv # "M"
VmD == mode.on /\ mode.priv # "M"

(* load_w, store_w: the access is asked for, or has been and waits.        *)
Access == IF lsu.op \in {"load", "store"} THEN lsu.op ELSE waiting

ItlbHit(rd) == rd /\ itlb.valid /\ itlb.page = fetch.page
DtlbHit     == dtlb.valid /\ dtlb.page = lsu.page

ItlbMiss(rd) == rd /\ VmI /\ ~ItlbHit(rd)
DtlbMiss     == Access # "none" /\ VmD /\ ~DtlbHit

(* pc_fault_r *)
PcFault(rd) ==
  /\ VmI /\ ItlbHit(rd)
  /\ LET flags == itlb.entry.flags
     IN IF fetch.priv = "S" THEN "U" \in flags \/ "X" \notin flags
        ELSE ~({"X", "U"} \subseteq flags)

(* load_fault_r, store_fault_r *)
LoadFault ==
  /\ VmD /\ Access = "load" /\ DtlbHit
  /\ LET flags == dtlb.entry.flags
     IN IF mode.priv = "S"
          THEN \/ "U" \in flags /\ ~mode.sum
               \/ "R" \notin flags /\ ~(mode.mxr /\ "X" \in flags)
          ELSE ~({"R", "U"} \subseteq flags)

StoreFault ==
  /\ VmD /\ Access = "store" /\ DtlbHit
  /\ LET flags == dtlb.entry.flags
     IN IF mode.priv = "S"
          THEN ("U" \in flags /\ ~mode.sum) \/ ~({"R", "W"} \subseteq flags)
          ELSE ~({"R", "W", "U"} \subseteq flags)

(* fetch_out_rd_o and fetch_in_accept_o *)
FetchOut(rd) == (~VmI /\ rd) \/ (ItlbHit(rd) /\ ~PcFault(rd))

FetchAccept(rd, iacc) == ((VmI => ItlbHit(rd)) /\ iacc) \/ PcFault(rd)

(* What goes out of the load/store unit: lsu_out_rd_w or lsu_out_wr_w, or  *)
(* a maintenance request, which is not translated.                         *)
AccessOut ==
  IF VmD THEN Access # "none" /\ DtlbHit /\ ~LoadFault /\ ~StoreFault
  ELSE lsu.op \in {"load", "store"}

(* src_mmu_w *)
FromMmu == hold = "mmu" \/ (hold = "none" /\ memReq)

PortRequest == IF FromMmu THEN memReq ELSE AccessOut

(* lsu_in_accept_o; a maintenance request, too, waits for a hit when       *)
(* translation is on.                                                      *)
LsuAccept(acc) ==
  \/ (VmD => DtlbHit) /\ ~FromMmu /\ acc
  \/ LoadFault
  \/ StoreFault

(* Mutation: the walker takes every answer. *)
PteAnswerAny(ans) == ans # "none"

(* resp_valid_w, by the tag only the walker uses.                          *)
PteAnswer(ans) == ans # "none" /\ Head(port) = "mmu"

(* lsu_in_ack_o *)
LsuAck(ans) == (ans # "none" /\ Head(port) = "cpu") \/ dataFault

---------------------------------------------------------------------------
(* The registers.                                                          *)

(* Mutation: data goes first in the middle of a walk, too. *)
RequestPageData == IF DtlbMiss THEN lsu.page ELSE fetch.page

(* request_addr_w *)
RequestPage ==
  IF (IF state = "idle" THEN DtlbMiss ELSE dtlbReq) THEN lsu.page ELSE fetch.page

PointsOn(ans) ==
  LET pte == tables[pteAddr]
  IN PteAnswer(ans) /\ ans # "error" /\ pte.valid /\ ~Leaf(pte)

Start(rd) ==
  /\ state = "idle" /\ (ItlbMiss(rd) \/ DtlbMiss)
  /\ pteAddr' = <<Root, RequestPage.hi>>
  /\ virt' = RequestPage
  /\ dtlbReq' = DtlbMiss
  /\ state' = "first"
  /\ UNCHANGED pteEntry

FirstLevel(ans) ==
  /\ state = "first" /\ PteAnswer(ans)
  /\ LET pte == tables[pteAddr]
     IN IF PointsOn(ans)
          THEN /\ pteAddr' = <<pte.ppn, RequestPage.lo>>
               /\ state' = "second"
               /\ UNCHANGED pteEntry
          ELSE /\ pteEntry' = IF ans = "error" \/ ~pte.valid THEN NoPage
                              ELSE [page |-> <<pte.ppn, RequestPage.lo>>, flags |-> pte.flags]
               /\ state' = "update"
               /\ UNCHANGED pteAddr
  /\ UNCHANGED <<virt, dtlbReq>>

(* An error of this read is not looked at: what it delivers is taken.      *)
SecondLevel(ans) ==
  /\ state = "second" /\ PteAnswer(ans)
  /\ LET pte == tables[pteAddr]
     IN pteEntry' = IF pte.valid THEN [page |-> <<pte.ppn, 0>>, flags |-> pte.flags]
                    ELSE NoPage
  /\ state' = "update"
  /\ UNCHANGED <<pteAddr, virt, dtlbReq>>

(* The registers of a walk are not read when it has ended.                 *)
Update ==
  /\ state = "update"
  /\ state' = "idle"
  /\ pteAddr' = <<Root, 0>> /\ pteEntry' = NoPage
  /\ virt' = NoRequest.page /\ dtlbReq' = FALSE

Rest(rd, ans) ==
  /\ state = "idle" => ~ItlbMiss(rd) /\ ~DtlbMiss
  /\ state \in {"first", "second"} => ~PteAnswer(ans)
  /\ state # "update"
  /\ UNCHANGED <<state, pteAddr, pteEntry, virt, dtlbReq>>

(* mem_req_q *)
Request(rd, acc, ans) ==
  memReq' = IF \/ state = "idle" /\ (ItlbMiss(rd) \/ DtlbMiss)
               \/ state = "first" /\ PointsOn(ans)
              THEN TRUE
            ELSE IF FromMmu /\ acc THEN FALSE
            ELSE memReq

(* Mutation: the instruction's entry is dropped when no walk goes on, too. *)
FetchWalkIdle == ~dtlbReq

FetchWalk == state # "idle" /\ ~dtlbReq

(* itlb_*_q, dtlb_*_q and the fault registers.  What the instruction TLB   *)
(* compares in STATE_UPDATE is the page it held before: a miss is walked   *)
(* for twice before it hits.                                               *)
Tlbs(rd) ==
  LET fills(data) == state = "update" /\ dtlbReq = data
  IN /\ itlb' =
          [valid |-> IF flush THEN FALSE
                     ELSE IF fills(FALSE) THEN itlb.page = fetch.page
                     ELSE IF FetchWalk THEN FALSE
                     ELSE itlb.valid,
           page  |-> IF fills(FALSE) THEN virt ELSE itlb.page,
           entry |-> IF fills(FALSE) THEN pteEntry ELSE itlb.entry]
     /\ dtlb' =
          [valid |-> IF flush THEN FALSE ELSE fills(TRUE) \/ dtlb.valid,
           page  |-> IF fills(TRUE) THEN virt ELSE dtlb.page,
           entry |-> IF fills(TRUE) THEN pteEntry ELSE dtlb.entry]
     /\ pcFault' = PcFault(rd)
     /\ dataFault' = (LoadFault \/ StoreFault)

(* load_q, store_q, read_hold_q and src_mmu_q, which is read only while the *)
(* port is held.                                                           *)
Mux(acc) ==
  /\ waiting' = IF lsu.op \in {"load", "store"}
                  THEN IF LsuAccept(acc) THEN "none" ELSE lsu.op
                  ELSE waiting
  /\ hold' = IF acc THEN "none"
             ELSE IF PortRequest THEN IF FromMmu THEN "mmu" ELSE "cpu"
             ELSE hold

---------------------------------------------------------------------------
(* The neighbours.                                                         *)

FetchSide(rd, iacc, ivalid) ==
  LET accepted == rd /\ FetchAccept(rd, iacc)
  IN /\ fetchBusy' = (accepted \/ (fetchBusy /\ ~ivalid /\ ~pcFault))
     /\ icacheBusy' = ((FetchOut(rd) /\ iacc) \/ (icacheBusy /\ ~ivalid))
     /\ IF accepted THEN fetch' \in Fetches
        ELSE UNCHANGED fetch

(* What may be asked in mode m.  Maintenance of the cache is left to code  *)
(* that runs without translation.                                          *)
Requests(m) ==
  {NoRequest} \cup [op : {"load", "store"}, page : Pages]
    \cup IF m.on /\ m.priv # "M" THEN {} ELSE {[NoRequest EXCEPT !.op = "maintenance"]}

(* How data is accessed changes when no access is under way.               *)
DataSide(acc, ans) ==
  LET accepted == lsu.op # "none" /\ LsuAccept(acc)
      idle     == lsu.op = "none" /\ (lsuBusy => LsuAck(ans))
      pushed   == IF ~acc THEN <<>>
                  ELSE IF FromMmu THEN IF memReq THEN <<"mmu">> ELSE <<>>
                  ELSE IF AccessOut \/ lsu.op = "maintenance" THEN <<"cpu">> ELSE <<>>
  IN /\ port' = (IF ans = "none" THEN port ELSE Tail(port)) \o pushed
     /\ lsuBusy' = (accepted \/ (lsuBusy /\ ~LsuAck(ans)))
     /\ IF idle THEN mode' \in Modes /\ lsu' \in Requests(mode')
        ELSE UNCHANGED mode /\ lsu' = IF accepted THEN NoRequest ELSE lsu

(* Software changes a PTE; a flush makes it forget what PTEs have been.    *)
(* A read of the first level that fails is as good as a PTE not valid.     *)
Software(ans) ==
  /\ \/ UNCHANGED tables
     \/ \E u \in Updates : tables[u.addr] # u.pte /\ tables' = [tables EXCEPT ![u.addr] = u.pte]
  /\ flush' \in IF state' = "idle" \/ FlushInWalk THEN BOOLEAN ELSE {FALSE}
  /\ seen' = [a \in DOMAIN tables |->
                (IF flush THEN {} ELSE seen[a]) \cup {tables'[a]}
                  \cup (IF ans = "error" /\ a = pteAddr
                          THEN {[tables[a] EXCEPT !.valid = FALSE]} ELSE {})]

Effort(rd, iacc, acc) ==
  LET count(n, data, done) == IF flush \/ done THEN 0
                              ELSE IF state = "update" /\ dtlbReq = data THEN n + 1
                              ELSE n
  IN walks' = [fetch |-> count(walks.fetch, FALSE, rd /\ FetchAccept(rd, iacc)),
               data  |-> count(walks.data, TRUE, lsu.op # "none" /\ LsuAccept(acc))]

---------------------------------------------------------------------------
Init ==
  /\ state = "idle" /\ memReq = FALSE
  /\ pteAddr = <<Root, 0>> /\ pteEntry = NoPage
  /\ virt = NoRequest.page /\ dtlbReq = FALSE
  /\ itlb = [valid |-> FALSE, page |-> NoRequest.page, entry |-> NoPage]
  /\ dtlb = itlb
  /\ pcFault = FALSE /\ dataFault = FALSE
  /\ waiting = "none" /\ hold = "none"
  /\ fetch \in Fetches
  /\ fetchBusy = FALSE /\ icacheBusy = FALSE
  /\ mode \in Modes /\ lsu = NoRequest /\ lsuBusy = FALSE
  /\ port = <<>>
  /\ tables = FirstTables /\ flush = FALSE
  /\ seen = [a \in DOMAIN tables |-> {tables[a]}]
  /\ walks = [fetch |-> 0, data |-> 0]

(* One cycle.  rd: the fetch unit asks; iacc, ivalid: the instruction      *)
(* cache accepts, answers; acc, ans: the data memory accepts, answers.     *)
Clock(rd, iacc, ivalid, acc, ans) ==
  /\ rd => ~fetchBusy \/ ivalid \/ pcFault
  /\ ivalid => icacheBusy
  /\ ans # "none" => port # <<>>
  /\ ans = "error" => BusErrors /\ state = "first" /\ PteAnswer(ans)
  /\ Start(rd) \/ FirstLevel(ans) \/ SecondLevel(ans) \/ Update \/ Rest(rd, ans)
  /\ Request(rd, acc, ans)
  /\ Tlbs(rd)
  /\ Mux(acc)
  /\ FetchSide(rd, iacc, ivalid)
  /\ DataSide(acc, ans)
  /\ Software(ans)
  /\ Effort(rd, iacc, acc)

Next ==
  \E rd \in IF fetchBusy THEN {FALSE, icacheBusy \/ pcFault} ELSE BOOLEAN :
    \E iacc \in IF FetchOut(rd) THEN BOOLEAN ELSE {TRUE}, ivalid \in {FALSE, icacheBusy},
       acc \in BOOLEAN, ans \in IF port = <<>> THEN {"none"} ELSE {"none", "ok", "error"} :
      Clock(rd, iacc, ivalid, acc, ans)

Spec == Init /\ [][Next]_vars

---------------------------------------------------------------------------
(* Properties.                                                             *)

(* Every register holds a value of its range.                              *)
TypeOK ==
  /\ state \in {"idle", "first", "second", "update"}
  /\ state \in {"first", "second"} => pteAddr \in DOMAIN tables
  /\ virt \in Pages /\ itlb.page \in Pages /\ dtlb.page \in Pages
  /\ {dtlbReq, memReq, itlb.valid, dtlb.valid, pcFault, dataFault} \subseteq BOOLEAN
  /\ waiting \in {"none", "load", "store"}
  /\ hold \in {"none", "mmu", "cpu"}
  /\ walks.fetch \in Nat /\ walks.data \in Nat

(* An instruction or a datum is accessed in the page, and with the         *)
(* permission, that the page tables give it, as the simulator reads them   *)
(* from what they have held since the last flush; and there is a page      *)
(* fault exactly when it raises one, and an access when it makes one: it   *)
(* never exits where the core goes on.  Walks for the two TLBs take turns, *)
(* their reads interleave with stores to the tables, and each uses the     *)
(* address the asking side shows in that cycle.                            *)
TranslationsLegal ==
  /\ VmI /\ ItlbHit(TRUE) =>
       /\ itlb.entry \in Walks(seen, fetch.page)
       /\ FetchOutcome(itlb.entry.flags, fetch.priv) = IF PcFault(TRUE) THEN "fault" ELSE "page"
  /\ VmD /\ Access # "none" /\ DtlbHit =>
       /\ dtlb.entry \in Walks(seen, lsu.page)
       /\ DataOutcome(dtlb.entry.flags, mode, Access) =
            IF LoadFault \/ StoreFault THEN "fault" ELSE "page"

Owed(whose) == Cardinality({i \in DOMAIN port : port[i] = whose})

Count(b) == IF b THEN 1 ELSE 0

(* Each side gets the answers to its own requests, one for each: the load/ *)
(* store unit one from memory or a fault, never both; the walker one while *)
(* it waits at a level, and none later; the fetch unit an instruction or a *)
(* fault.  Every register keeps to its range.                              *)
AnswersBelong ==
  /\ TypeOK
  /\ Owed("cpu") + Count(dataFault) = Count(lsuBusy)
  /\ Owed("mmu") + Count(memReq) = Count(state \in {"first", "second"})
  /\ Count(icacheBusy) + Count(pcFault) = Count(fetchBusy)

(* A miss is over after one walk for data, two for an instruction, whether *)
(* or not there is a page: the entry a walk leaves is still there, and     *)
(* still that of the page asked for, when the asking side looks; walks for *)
(* the other side, which go on meanwhile, do not undo it.                  *)
MissesResolved == walks.fetch <= 2 /\ walks.data <= 1

=============================================================================
