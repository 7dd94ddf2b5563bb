------------------------------ MODULE MCFetch ------------------------------
(***************************************************************************)
(* A finite instance of Fetch: three words, so that the word before, the   *)
(* word after and the target of a branch are told apart, and two levels of *)
(* privilege.                                                              *)
(***************************************************************************)
EXTENDS Fetch

MCPriv == {"machine", "user"}

=============================================================================
