--------------------------- MODULE MCDCacheCore ---------------------------
(***************************************************************************)
(* Finite instances of DCacheCore: one set of two ways in which three      *)
(* lines of three words conflict, and two sets with two lines each.  Every *)
(* word of memory starts with a value of its own, so a word delivered to   *)
(* the wrong place is seen.                                                *)
(***************************************************************************)
EXTENDS DCacheCoreInv

MCValue == (0 .. 2) \X (0 .. 2) \X (0 .. 2)

MCZero == <<2, 0, 0>>

NewWord == <<2, 1, 0>>

MCInitialMemory ==
  [s \in 0 .. NumSets - 1 |-> [t \in 0 .. NumTags - 1 |->
     [w \in 0 .. LineWords - 1 |-> <<s, t, w>>]]]

(* Before reset: an entry that looks dirty, as bad as it gets.             *)
MCPowerUpTags == {[valid |-> TRUE, dirty |-> TRUE, tag |-> 0]}

MCPowerUpData == {MCZero}

Req(op, t, s, w) == [op |-> op, tag |-> t, set |-> s, word |-> w, data |-> <<s, t, w>>]

Idle == [op |-> "none", tag |-> 0, set |-> 0, word |-> 0, data |-> MCZero]

(* One word is tracked: word 0 of tag 0 in set 0 is the only one whose     *)
(* writes change its value.  The other writes store what is there already, *)
(* and serve to make their lines dirty.                                    *)
TrackedWrite == [Req("write", 0, 0, 0) EXCEPT !.data = NewWord]

Conflicts ==
  {Req("read", 0, 0, 0), Req("read", 1, 0, 1), Req("read", 2, 0, 2),
   TrackedWrite, Req("write", 1, 0, 1)}

Maintenance == {Req("flush", 0, 0, 0), Req("writeback", 0, 0, 0)}

(* One set, three lines that conflict for its two ways.                    *)
MCRequests == {Idle} \cup Conflicts \cup Maintenance

(* Two sets: two lines of the first set and one of the second.             *)
MCTwoSetRequests ==
  {Idle, Req("read", 1, 0, 1), TrackedWrite, Req("read", 0, 1, 0), Req("write", 0, 1, 1)}
     \cup Maintenance

(* Two sets again, with an invalidate of the written line.                 *)
MCInvalidateRequests ==
  {Idle, Req("read", 0, 0, 0), TrackedWrite, Req("read", 0, 1, 0), Req("inval", 0, 0, 0)}

(* For bus errors, whose data is arbitrary: every request there is, but    *)
(* words hold one value only.                                              *)
MCErrorValue == {MCZero}

MCErrorMemory ==
  [s \in 0 .. NumSets - 1 |-> [t \in 0 .. NumTags - 1 |->
     [w \in 0 .. LineWords - 1 |-> MCZero]]]

MCErrorRequests ==
  {[r EXCEPT !.data = MCZero] : r \in MCRequests \cup MCTwoSetRequests \cup {Req("inval", 0, 0, 0)}}

=============================================================================
