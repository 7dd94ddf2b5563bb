--------------------------- MODULE DCacheCoreInv ---------------------------
(***************************************************************************)
(* The inductive invariant behind the theorems about DCacheCore: what each *)
(* state of the controller knows about the request buffer, the RAM         *)
(* outputs, the victim, the flush counter and the data on the move.        *)
(***************************************************************************)
EXTENDS DCacheCore

Evicting == state \in {"EVICT", "EVICT_WAIT"}

(* Which request each state works for.                                     *)
PhaseInv ==
  /\ flushing => m.op = "flush" /\ (state \in {"FLUSH_ADDR", "FLUSH"} \/ Evicting)
  /\ state \in {"FLUSH_ADDR", "FLUSH"} => flushing
  /\ Evicting => m.op \in {"read", "write", "writeback"} \/ flushing
  /\ state = "RESET"      => m.op = "none"
  /\ state = "REFILL"     => m.op \in {"read", "write"}
  /\ state = "READ"       => m.op = "read"
  /\ state = "WRITE"      => m.op = "write"
  /\ state = "WRITEBACK"  => m.op = "writeback"
  /\ state = "INVALIDATE" => m.op = "inval"

(* Where the decision of a state rests on the tag outputs, they are the    *)
(* tags of the set it decides about.  STATE_INVALIDATE is not in the list. *)
TagOutInv ==
  /\ state \in {"READ", "WRITE", "REFILL", "WRITEBACK"} => tagOut = tagRam[m.set]
  /\ state = "LOOKUP" /\ m.op \in {"read", "write"} => tagOut = tagRam[m.set]
  /\ state = "FLUSH" => tagOut = tagRam[flushAddr]
  /\ Evicting => tagOut = tagRam[EvictSet]

(* What is known of the way that is evicted, refilled or just refilled.    *)
VictimInv ==
  /\ Evicting => /\ TagDirty(replaceWay)
                 /\ m.op = "writeback" => TagHit(replaceWay)
                 /\ m.op \in {"read", "write"} => ~TagHitAny
  /\ state = "REFILL" => /\ ~TagDirty(replaceWay)
                         /\ ~TagHit(1 - replaceWay)
  /\ state \in {"READ", "WRITE"} => TagHit(replaceWay)

Cleared(s) == \A w \in Way : ~tagRam[s][w].valid

(* The flush counter separates the sets already cleared from the others,   *)
(* and flush_last_q marks the last of them.                                *)
FlushInv ==
  /\ state = "RESET" => \A s \in Set : s < flushAddr \/ flushLast => Cleared(s)
  /\ flushing => /\ \A s \in Set : s < flushAddr => Cleared(s)
                 /\ flushLast => flushAddr = NumSets - 1
                 /\ state # "FLUSH_ADDR" => (flushAddr = NumSets - 1 => flushLast)
  /\ state = "LOOKUP" /\ m.op = "flush" => \A s \in Set : Cleared(s)

(* The bus is in step, and an idle bus remembers nothing.                  *)
BurstInv ==
  /\ BusInStep
  /\ burst.op = "idle" => burst = NoBurst
  /\ state # "EVICT" => ~pmemWr0

(* All of it holds whatever is requested and whatever the bus answers.     *)
ControlInv ==
  TypeOK /\ PhaseInv /\ TagOutInv /\ VictimInv /\ OneCopyPerLine /\ FlushInv /\ BurstInv

---------------------------------------------------------------------------
(* Data.  These parts need a bus without errors and no invalidates.        *)

QuietInputs == BusErrors = FALSE /\ \A r \in Requests : r.op # "inval"

(* A read's word is on the output of the way that hits.                    *)
ReadInv ==
  state = "LOOKUP" /\ m.op = "read" =>
    \A w \in Way : TagHit(w) => dataOut[w] = dataRam[m.set][w][m.word]

(* The victim's words arrive in memory one by one.                         *)
EvictInv ==
  LET victim == dataRam[EvictSet][replaceWay]
      saved  == memory[EvictSet][tagOut[replaceWay].tag]
  IN /\ state = "EVICT" =>
          /\ dataAddr = NextWord([set |-> EvictSet, word |-> burst.beat])
          /\ PmemWriteData = victim[burst.beat]
          /\ burst.op = "write" => burst.set = EvictSet /\ burst.tag = tagOut[replaceWay].tag
          /\ \A x \in Word : x < burst.beat => saved[x] = victim[x]
     /\ state = "EVICT_WAIT" => \A x \in Word : saved[x] = victim[x]

(* The line being refilled is up to date in memory, and arrives word by    *)
(* word.                                                                   *)
RefillInv ==
  state = "REFILL" =>
    /\ memory[m.set][m.tag] = arch[m.set][m.tag]
    /\ dataAddr = [set |-> m.set, word |-> burst.beat]
    /\ ~pmemRd => burst.set = m.set /\ burst.tag = m.tag
    /\ \A x \in Word : x < burst.beat =>
         dataRam[m.set][replaceWay][x] = arch[m.set][m.tag][x]

DataInv ==
  /\ m.op # "inval"
  /\ NoLostWrite
  /\ ReadInv
  /\ EvictInv
  /\ RefillInv
  /\ WritebackReachesMemory
  /\ state = "RESET" => memory = arch

IInv == ControlInv /\ DataInv

=============================================================================
