------------------------------ MODULE MCICache ------------------------------
(***************************************************************************)
(* A finite instance of ICache: two sets, two lines of two words in the    *)
(* first and one in the second, whose refills turn the replacement way so  *)
(* that lines of the first set displace each other; one word is stored to, *)
(* another may fail.  A flush comes together with a request, which is the  *)
(* harder case.                                                            *)
(***************************************************************************)
EXTENDS ICache

At(t, s, w) == [tag |-> t, set |-> s, word |-> w]

Read(a) == [rd |-> TRUE, addr |-> a, op |-> "none"]

MCRequests ==
  {Read(a) : a \in {At(0, 0, 0), At(1, 0, 1), At(0, 1, 1)}}
    \cup {[rd |-> FALSE, addr |-> At(0, 0, 0), op |-> o] : o \in {"none", "inval"}}
    \cup {[rd |-> TRUE, addr |-> At(0, 0, 0), op |-> "flush"]}

MCStored == {At(0, 0, 0)}

MCFailing == {At(1, 0, 1)}

MCJunk == [addr |-> At(1, 1, 0), version |-> 0]

=============================================================================
