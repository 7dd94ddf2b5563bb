------------------------------- MODULE ICache -------------------------------
(***************************************************************************)
(* The instruction cache top_cache_axi/src_v/icache.v with its tag and     *)
(* data RAMs: two ways, one lookup at a time (the next one in the cycle    *)
(* that answers the last), refills of a whole line, a flush that clears    *)
(* one set per cycle and an invalidate of one set.  A step is one rising   *)
(* clock edge.                                                             *)
(*                                                                         *)
(* Memory may change at any time, by stores that do not pass through this  *)
(* cache.  A word is its address and the number of times it was stored to, *)
(* so that a word of another address, and an old one, are seen.            *)
(***************************************************************************)
EXTENDS Integers

CONSTANTS
  NumSets,      (* ICACHE_NUM_LINES: lines of each way                     *)
  NumTags,      (* distinct tags, 2^19 in the code                         *)
  LineWords,    (* ICACHE_LINE_WORDS                                       *)
  Requests,     (* what the fetch unit may drive                           *)
  Stored,       (* addresses that are stored to                            *)
  MaxVersion,   (* bound: how often a word is stored to                    *)
  Failing,      (* addresses whose words the bus may fail to deliver       *)
  Junk          (* what RAMs hold before reset, and a failing bus delivers *)

Set  == 0 .. NumSets - 1
Tag  == 0 .. NumTags - 1
Word == 0 .. LineWords - 1
Way  == {0, 1}

Address  == [tag : Tag, set : Set, word : Word]
TagEntry == [valid : BOOLEAN, tag : Tag]
Data     == [addr : Address, version : 0 .. MaxVersion]
Place    == [set : Set, word : Word]
Line     == [tag : Tag, set : Set]

(* The address lines carry something in every cycle.  A flush together     *)
(* with an invalidate is an invalidate.                                    *)
Request == [rd : BOOLEAN, addr : Address, op : {"none", "flush", "inval"}]

ASSUME CacheAssumption ==
  /\ NumSets \in Nat \ {0}
  /\ NumTags \in Nat \ {0}
  /\ LineWords \in Nat \ {0}
  /\ Requests \subseteq Request
  /\ Stored \subseteq Address
  /\ Failing \subseteq Address
  /\ MaxVersion \in Nat
  /\ Junk \in Data

State == {"FLUSH", "LOOKUP", "REFILL", "RELOOKUP"}

VARIABLES
  state,        (* state_q                                                 *)
  lookup,       (* lookup_valid_q, lookup_addr_q: {} or {an address}       *)
  tagRam,       (* the two tag RAMs: tagRam[set][way]                      *)
  tagOut,       (* their registered outputs                                *)
  dataRam,      (* the two data RAMs: dataRam[set][way][word]              *)
  dataOut,      (* their registered outputs                                *)
  dataAddr,     (* data_write_addr_q                                       *)
  flushAddr,    (* flush_addr_q                                            *)
  replaceWay,   (* replace_way_q                                           *)
  invalidateQ,  (* invalidate_q                                            *)
  arvalidQ,     (* axi_arvalid_q                                           *)
  error,        (* axi_error_q                                             *)
  version,      (* memory: how often each word was stored to               *)
  burst,        (* the AXI slave: {} or {the next address of its burst}    *)
  floor,        (* history: version of each word at the last flush of it   *)
  doomed,       (* history: the lookup was accepted along with a flush     *)
  poisoned      (* history: lines whose refill failed                      *)

cacheVars == <<state, lookup, tagRam, tagOut, dataRam, dataOut, dataAddr,
               flushAddr, replaceWay, invalidateQ, arvalidQ, error>>
vars == <<cacheVars, version, burst, floor, doomed, poisoned>>

(* What the AXI slave drives. *)
AxiInputs ==
  {s \in [arready : BOOLEAN, rvalid : BOOLEAN, error : BOOLEAN] :
     /\ s.arready => burst = {}
     /\ s.rvalid => burst # {}
     /\ s.error => s.rvalid /\ burst \subseteq Failing}

(* A store somewhere else in the system, or none. *)
Stores == {{}} \cup {{a} : a \in {b \in Stored : version[b] < MaxVersion}}

The(S) == CHOOSE x \in S : TRUE

---------------------------------------------------------------------------
(* The wires.                                                              *)

TagHit(w) == \E a \in lookup : tagOut[w].valid /\ tagOut[w].tag = a.tag

(* Mutation: the second way is not looked at. *)
MissWay0Only == lookup # {} /\ ~TagHit(0)

Miss == lookup # {} /\ ~\E w \in Way : TagHit(w)

ReqValid == state = "LOOKUP" /\ lookup # {} /\ ~Miss

ReqAccept == state = "LOOKUP" /\ ~Miss

ReqInst == IF TagHit(0) THEN dataOut[0] ELSE IF TagHit(1) THEN dataOut[1] ELSE dataOut[0]

(* next_state_r *)
EntersRefill == state = "LOOKUP" /\ Miss

FlushTaken(in) == ReqAccept /\ in.op # "none"

Arvalid == EntersRefill \/ arvalidQ

Rlast(s) == s.rvalid /\ \E a \in burst : a.word = LineWords - 1

(* Mutation: a flush leaves out the last set. *)
LastSetShort == flushAddr = NumSets - 2

LastSet == flushAddr = NumSets - 1

FlushEnds == state = "FLUSH" /\ (invalidateQ \/ LastSet)

---------------------------------------------------------------------------
(* The registers and RAMs.                                                 *)

NextState(in, s) ==
  state' = IF FlushEnds \/ state = "RELOOKUP" THEN "LOOKUP"
           ELSE IF EntersRefill THEN "REFILL"
           ELSE IF FlushTaken(in) THEN "FLUSH"
           ELSE IF state = "REFILL" /\ Rlast(s) THEN "RELOOKUP"
           ELSE state

Lookup(in) ==
  lookup' = IF in.rd /\ ReqAccept THEN {in.addr}
            ELSE IF ReqValid THEN {} ELSE lookup

(* tag_addr_r *)
TagSet(in) ==
  IF state = "FLUSH" THEN flushAddr
  ELSE IF state \in {"REFILL", "RELOOKUP"} THEN The(lookup).set
  ELSE in.addr.set

(* The ways whose tag is written. *)
TagWays(s) ==
  IF state = "FLUSH" THEN Way
  ELSE IF state = "REFILL" /\ Rlast(s) THEN {replaceWay} ELSE {}

(* Both tag RAMs read what was there before the write. *)
TagRams(in, s) ==
  LET entry == IF state = "REFILL" THEN [valid |-> TRUE, tag |-> The(lookup).tag]
               ELSE [valid |-> FALSE, tag |-> 0]
  IN /\ tagRam' = [tagRam EXCEPT ![TagSet(in)] =
                     [w \in Way |-> IF w \in TagWays(s) THEN entry ELSE @[w]]]
     /\ tagOut' = tagRam[TagSet(in)]

(* data_addr_r *)
DataPlace(in) ==
  IF state = "REFILL" THEN dataAddr
  ELSE LET a == IF state = "RELOOKUP" THEN The(lookup) ELSE in.addr
       IN [set |-> a.set, word |-> a.word]

BusWord(s) ==
  LET a == The(burst)
  IN IF s.error THEN Junk
     ELSE [addr |-> a, version |-> IF a \in Stored THEN version[a] ELSE 0]

DataRams(in, s) ==
  LET p == DataPlace(in)
  IN /\ dataRam' = IF s.rvalid
                     THEN [dataRam EXCEPT ![p.set][replaceWay][p.word] = BusWord(s)]
                     ELSE dataRam
     /\ dataOut' = [w \in Way |-> dataRam[p.set][w][p.word]]

NextSet(x) == IF x = NumSets - 1 THEN 0 ELSE x + 1

NextPlace(p) ==
  IF p.word < LineWords - 1 THEN [p EXCEPT !.word = @ + 1]
  ELSE [set |-> NextSet(p.set), word |-> 0]

RefillPointer(s) ==
  dataAddr' = IF EntersRefill THEN [set |-> The(lookup).set, word |-> 0]
              ELSE IF state = "REFILL" /\ s.rvalid THEN NextPlace(dataAddr)
              ELSE dataAddr

FlushCounter(in) ==
  /\ flushAddr' = IF state = "FLUSH" THEN NextSet(flushAddr)
                  ELSE IF in.op = "inval" /\ ReqAccept THEN in.addr.set
                  ELSE 0
  /\ invalidateQ' = (in.op = "inval" /\ ReqAccept)

(* Mutation: the address is dropped after one cycle. *)
ArvalidOnce(s) == FALSE

ArvalidAfter(s) == Arvalid /\ ~s.arready

ErrorAfter(s) == (s.rvalid /\ s.error) \/ (error /\ ~ReqValid)

AxiRegisters(s) ==
  /\ replaceWay' = IF Rlast(s) THEN 1 - replaceWay ELSE replaceWay
  /\ arvalidQ' = ArvalidAfter(s)
  /\ error' = ErrorAfter(s)

---------------------------------------------------------------------------
(* The AXI slave, memory, and the history.                                 *)

(* axi_araddr_o *)
Araddr == [The(lookup) EXCEPT !.word = 0]

Slave(s) ==
  burst' = IF Arvalid /\ s.arready THEN {Araddr}
           ELSE IF ~s.rvalid THEN burst
           ELSE IF Rlast(s) THEN {}
           ELSE {[a EXCEPT !.word = @ + 1] : a \in burst}

Store(st) == version' = [a \in Stored |-> IF a \in st THEN version[a] + 1 ELSE version[a]]

Flushed(in) ==
  {a \in Stored : FlushTaken(in) /\ (in.op = "flush" \/ a.set = in.addr.set)}

History(in, s) ==
  /\ floor' = [a \in Stored |-> IF a \in Flushed(in) THEN version[a] ELSE floor[a]]
  /\ doomed' = IF in.rd /\ ReqAccept THEN FlushTaken(in) ELSE doomed /\ ~ReqValid
  /\ poisoned' = IF state # "REFILL" \/ ~Rlast(s) THEN poisoned
                 ELSE LET line == [tag |-> The(lookup).tag, set |-> The(lookup).set]
                      IN IF error \/ s.error THEN poisoned \cup {line}
                         ELSE poisoned \ {line}

Init ==
  /\ state = "FLUSH"
  /\ lookup = {}
  /\ tagRam = [s \in Set |-> [w \in Way |-> [valid |-> TRUE, tag |-> 0]]]
  /\ tagOut = [w \in Way |-> [valid |-> TRUE, tag |-> 0]]
  /\ dataRam = [s \in Set |-> [w \in Way |-> [x \in Word |-> Junk]]]
  /\ dataOut = [w \in Way |-> Junk]
  /\ dataAddr = [set |-> 0, word |-> 0]
  /\ flushAddr = 0
  /\ replaceWay = 0
  /\ invalidateQ = FALSE
  /\ arvalidQ = FALSE
  /\ error = FALSE
  /\ version = [a \in Stored |-> 0]
  /\ burst = {}
  /\ floor = version
  /\ doomed = FALSE
  /\ poisoned = {}

CacheClock(in, s) ==
  /\ NextState(in, s)
  /\ Lookup(in)
  /\ TagRams(in, s)
  /\ DataRams(in, s)
  /\ RefillPointer(s)
  /\ FlushCounter(in)
  /\ AxiRegisters(s)

Clock(in, s, st) ==
  /\ CacheClock(in, s)
  /\ Slave(s)
  /\ Store(st)
  /\ History(in, s)

Next == \E in \in Requests : \E s \in AxiInputs : \E st \in Stores : Clock(in, s, st)

Spec == Init /\ [][Next]_vars

(* Again and again the slave takes the address on offer, or delivers the   *)
(* next word of its burst; and the clock ticks.                            *)
Serves ==
  \E in \in Requests : \E s \in AxiInputs : \E st \in Stores :
    /\ IF burst = {} THEN s.arready ELSE s.rvalid
    /\ Clock(in, s, st)

FairSpec == Spec /\ WF_vars(Next) /\ WF_vars(Serves)

---------------------------------------------------------------------------
(* Properties.                                                             *)

(* Every register, RAM and wire bundle holds a value of its width.         *)
TypeOK ==
  /\ state \in State
  /\ lookup \in {{}} \cup {{a} : a \in Address}
  /\ tagRam \in [Set -> [Way -> TagEntry]] /\ tagOut \in [Way -> TagEntry]
  /\ dataRam \in [Set -> [Way -> [Word -> Data]]] /\ dataOut \in [Way -> Data]
  /\ dataAddr \in Place
  /\ flushAddr \in Set /\ replaceWay \in Way
  /\ invalidateQ \in BOOLEAN /\ arvalidQ \in BOOLEAN /\ error \in BOOLEAN
  /\ version \in [Stored -> 0 .. MaxVersion]
  /\ burst \in {{}} \cup {{a} : a \in Address}
  /\ floor \in [Stored -> 0 .. MaxVersion]
  /\ doomed \in BOOLEAN
  /\ poisoned \subseteq Line

(* An instruction is the word of the address asked for, and no older than  *)
(* the last flush of it: refills, replacement, flushes and invalidates may *)
(* come in any order.  Left out are lookups accepted in the cycle of a     *)
(* flush, which the core discards, and lines whose refill failed.          *)
FreshInstructions ==
  ReqValid /\ ~doomed =>
    LET a == The(lookup)
    IN [tag |-> a.tag, set |-> a.set] \in poisoned
       \/ /\ ReqInst.addr = a
          /\ a \in Stored => ReqInst.version >= floor[a]

Caches(x, w, t) == tagRam[x][w].valid /\ tagRam[x][w].tag = t

(* No line is held by both ways: a flush or a refill of one of two copies  *)
(* would leave the other.                                                  *)
OneCopyPerLine ==
  state # "FLUSH" =>
    \A x \in Set, t \in Tag : ~(Caches(x, 0, t) /\ Caches(x, 1, t))

(* The cache and the bus agree about the refill: the address is on offer   *)
(* or its words are coming, each into its place of the line looked up, and *)
(* outside STATE_REFILL nothing is outstanding.  An error is raised only on *)
(* behalf of the lookup that has not been answered, and is gone when the   *)
(* next one is.  Registers, RAMs and wires hold values of their width.     *)
RefillInStep ==
  /\ TypeOK
  /\ IF state = "REFILL"
       THEN /\ lookup # {}
            /\ arvalidQ <=> burst = {}
            /\ \A a \in burst :
                 /\ [a EXCEPT !.word = 0] = Araddr
                 /\ dataAddr = [set |-> a.set, word |-> a.word]
       ELSE burst = {} /\ ~arvalidQ
  /\ error => lookup # {} /\ state # "FLUSH"

(* Refills keep the cache consistent, with the bus and in itself, whatever *)
(* flushes and invalidates come between (icache.v:251, 520).               *)
RefillsConsistent == OneCopyPerLine /\ RefillInStep

(* Every lookup is answered, however many flushes come in between. *)
EveryLookupAnswered == lookup # {} ~> ReqValid

=============================================================================
