------------------------------- MODULE Fetch -------------------------------
(***************************************************************************)
(* The instruction fetch unit core/riscv/riscv_fetch.v: it asks for one    *)
(* instruction after the other, one request at a time (the next one in the *)
(* cycle that answers the last), holds an answer the decoder does not take *)
(* in a skid buffer, and on a branch drops what is on its way.  A step is  *)
(* one rising clock edge.                                                  *)
(*                                                                         *)
(* The memory behind it (riscv_mmu.v and icache.v) accepts a request when  *)
(* it likes, only not while it owes an answer, and answers after any       *)
(* delay.  A program counter counts words; what memory answers is kept     *)
(* whole: in this module it is the request itself and whether it failed,   *)
(* so that an answer taken for another's is seen.                          *)
(***************************************************************************)
EXTENDS Naturals

CONSTANTS
  NumPcs,     (* words of the address space, 2^30 in the code              *)
  Priv,       (* privilege levels                                          *)
  BootPc,     (* BOOT_ADDR                                                 *)
  ResetPriv   (* PRIV_MACHINE                                              *)

Pc == 0 .. NumPcs - 1

ASSUME FetchAssumption ==
  /\ NumPcs \in Nat \ {0}
  /\ BootPc \in Pc
  /\ ResetPriv \in Priv

VARIABLES
  active,       (* active_q                                                *)
  branch,       (* branch_q, branch_pc_q, branch_priv_q: {} or {a target}  *)
  fetching,     (* icache_fetch_q                                          *)
  retry,        (* icache_invalidate_q                                     *)
  pcF,          (* pc_f_q                                                  *)
  privF,        (* priv_f_q                                                *)
  branchD,      (* branch_d_q                                              *)
  pcD,          (* pc_d_q                                                  *)
  skid,         (* skid_valid_q, skid_buffer_q: {} or {an instruction}     *)
  asked,        (* the memory: {} or {the request it has to answer}        *)
  expected,     (* history: {} or {what the decoder is to be given next}   *)
  moved         (* history: the last cycle branched or gave an instruction *)

fetchVars == <<active, branch, fetching, retry, pcF, privF,
               branchD, pcD, skid>>
allFetchVars == <<fetchVars, asked, expected, moved>>

Target == [pc : Pc, priv : Priv]
Reply  == [request : Target, fault : BOOLEAN]

(* d: what the rest of the core drives; i: what memory drives.             *)
CoreInputs ==
  [accept : BOOLEAN, branch : {{}} \cup {{t} : t \in Target}, fence : BOOLEAN]

MemoryInputs ==
  {i \in [accept : BOOLEAN, valid : BOOLEAN,
          reply : {[request |-> t, fault |-> f] :
                     t \in asked \cup {x \in {[pc |-> pcF, priv |-> privF]} : asked = {}},
                     f \in BOOLEAN}] :
     /\ i.valid => asked # {}
     /\ i.accept => asked = {} \/ i.valid}

Only(S) == CHOOSE x \in S : TRUE

---------------------------------------------------------------------------
(* The wires.                                                              *)

Busy(i) == fetching /\ ~i.valid

Stall(d, i) == ~d.accept \/ Busy(i) \/ ~i.accept

IcacheRd(d, i) == active /\ d.accept /\ ~Busy(i)

IcacheInvalidate == FALSE

IcacheFlush(d) == d.fence \/ retry

Asking == [pc |-> pcF, priv |-> privF]

(* Mutation: only what arrives while the branch waits is dropped. *)
DropPending == branch # {}

(* fetch_resp_drop_w: a branch waits, or its first request is not out.     *)
Drop == branch # {} \/ branchD

FetchValid(i) == (i.valid \/ skid # {}) /\ ~Drop

Fetched(i) == IF skid # {} THEN Only(skid) ELSE [pc |-> pcD, reply |-> i.reply]

NextPc(p) == (p + 1) % NumPcs

---------------------------------------------------------------------------
(* The registers.                                                          *)

(* Mutation: a branch is forgotten before the unit is active. *)
BranchTakenInactive(d, i) == ~Busy(i) /\ i.accept

(* The request that ends the wait of a branch. *)
BranchTaken(d, i) == IcacheRd(d, i) /\ i.accept

BranchBuffer(d, i) ==
  branch' = IF d.branch # {} THEN d.branch
            ELSE IF BranchTaken(d, i) THEN {}
            ELSE branch

(* Mutation: a request in the cycle of an answer is not remembered. *)
FetchingAnswerFirst(d, i) ==
  ~i.valid /\ ((IcacheRd(d, i) /\ i.accept) \/ fetching)

FetchingAfter(d, i) ==
  (IcacheRd(d, i) /\ i.accept) \/ (fetching /\ ~i.valid)

RequestTracking(d, i) ==
  /\ fetching' = FetchingAfter(d, i)
  /\ retry' = (IcacheInvalidate /\ ~i.accept)

ProgramCounter(d, i) ==
  LET turn == branch # {} /\ ~Stall(d, i)
  IN /\ active' = (active \/ turn)
     /\ pcF'    = IF turn THEN Only(branch).pc
                  ELSE IF ~Stall(d, i) THEN NextPc(pcF) ELSE pcF
     /\ privF'  = IF turn THEN Only(branch).priv ELSE privF
     /\ branchD' = (turn \/ (branchD /\ Stall(d, i)))
     /\ pcD'    = IF IcacheRd(d, i) /\ i.accept THEN pcF ELSE pcD

SkidHolds(d, i) == FetchValid(i) /\ ~d.accept

ResponseBuffer(d, i) ==
  skid' = IF SkidHolds(d, i) THEN {Fetched(i)} ELSE {}

Memory(d, i) ==
  asked' = IF IcacheRd(d, i) /\ i.accept THEN {Asking}
           ELSE IF i.valid THEN {} ELSE asked

(* History: a branch says what comes next, then one word after the other.  *)
FetchHistory(d, i) ==
  /\ expected' = IF d.branch # {} THEN d.branch
                 ELSE IF FetchValid(i) /\ d.accept
                   THEN {[t EXCEPT !.pc = NextPc(@)] : t \in expected}
                 ELSE expected
  /\ moved' = (d.branch # {} \/ (FetchValid(i) /\ d.accept))

FetchInit ==
  /\ active = FALSE
  /\ branch = {}
  /\ fetching = FALSE
  /\ retry = FALSE
  /\ pcF = BootPc
  /\ privF = ResetPriv
  /\ branchD = FALSE
  /\ pcD = 0
  /\ skid = {}
  /\ asked = {}
  /\ expected = {}
  /\ moved = FALSE

FetchClock(d, i) ==
  /\ BranchBuffer(d, i)
  /\ RequestTracking(d, i)
  /\ ProgramCounter(d, i)
  /\ ResponseBuffer(d, i)

FetchCycle(d, i) == FetchClock(d, i) /\ Memory(d, i) /\ FetchHistory(d, i)

FetchNext == \E d \in CoreInputs : \E i \in MemoryInputs : FetchCycle(d, i)

FetchSpec == FetchInit /\ [][FetchNext]_allFetchVars

(* Again and again the decoder accepts in a cycle in which memory answers  *)
(* what it owes and accepts: an idle memory stays ready, and so does a     *)
(* decoder that has nothing to issue.                                      *)
FetchServes ==
  \E d \in CoreInputs : \E i \in MemoryInputs :
    /\ d.accept /\ i.accept
    /\ FetchCycle(d, i)

FetchFairSpec == FetchSpec /\ WF_allFetchVars(FetchServes)

---------------------------------------------------------------------------
(* Properties.                                                             *)

(* Every register holds a value of its width. *)
FetchTypeOK ==
  /\ active \in BOOLEAN /\ fetching \in BOOLEAN
  /\ branchD \in BOOLEAN /\ retry \in BOOLEAN
  /\ branch \in {{}} \cup {{t} : t \in Target}
  /\ pcF \in Pc /\ pcD \in Pc /\ privF \in Priv
  /\ skid \in {{}} \cup {{s} : s \in [pc : Pc, reply : Reply]}
  /\ asked \in {{}} \cup {{t} : t \in Target}
  /\ expected \in {{}} \cup {{t} : t \in Target}

(* What the decoder is given is, from each branch target on, every word    *)
(* once and in order, with the program counter it was asked for and the    *)
(* privilege of the branch: whatever was on its way when a branch came,    *)
(* whoever stalls, and however many branches follow each other.            *)
InOrder ==
  \A i \in MemoryInputs :
    FetchValid(i) =>
      /\ expected = {Fetched(i).reply.request}
      /\ Fetched(i).pc = Fetched(i).reply.request.pc

(* icache_fetch_q is set exactly while memory owes an answer, and there is *)
(* room for it: an answer never meets an occupied skid buffer.  Every      *)
(* register keeps to its width.                                            *)
AnswersTracked ==
  /\ FetchTypeOK
  /\ fetching <=> asked # {}
  /\ skid # {} => asked = {}

(* The decoder is given instructions for ever, unless branches never       *)
(* cease: no branch is left waiting, and no answer is waited for that was  *)
(* dropped.                                                                *)
Delivers == <>[](expected = {}) \/ []<>moved

=============================================================================
