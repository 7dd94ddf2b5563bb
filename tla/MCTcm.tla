------------------------------- MODULE MCTcm -------------------------------
(***************************************************************************)
(* A finite instance of Tcm: bursts of one and of three beats, from either *)
(* side of a RAM of two words, and a core that reads and writes a word     *)
(* that both of them reach.                                                *)
(***************************************************************************)
EXTENDS Tcm

MCCommands == {[addr |-> 0, len |-> 0, id |-> 0], [addr |-> 1, len |-> 2, id |-> 1]}

MCCpuRequests == [op : {"none", "maintenance", "read", "write"}, addr : {0}, value : {1}]

=============================================================================
