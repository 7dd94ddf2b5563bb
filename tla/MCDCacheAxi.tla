---------------------------- MODULE MCDCacheAxi ----------------------------
(***************************************************************************)
(* A finite instance of DCacheAxi: bursts of one, two and three beats (the *)
(* last the shortest on which both beat counters count), two payloads so   *)
(* that beats taken twice or out of order are told apart.                  *)
(***************************************************************************)
EXTENDS DCacheAxi

MCLengths == {0, 1, 2}

=============================================================================
