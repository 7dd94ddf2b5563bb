------------------------------- MODULE MCMmu -------------------------------
(***************************************************************************)
(* A finite instance of Mmu: two pages under one first-level entry, which  *)
(* first points to a second table and may become a superpage; one of the   *)
(* two pages may be withdrawn, and S fetches from that one.                *)
(***************************************************************************)
EXTENDS Mmu, TLC

MCPages == {[hi |-> 0, lo |-> 0], [hi |-> 0, lo |-> 1]}

Pte(ppn, flags) == [valid |-> TRUE, ppn |-> ppn, flags |-> flags]

Invalid(pte) == [pte EXCEPT !.valid = FALSE]

MCTables ==
  (<<0, 0>> :> Pte(1, {})) @@ (<<1, 0>> :> Pte(2, {"R", "X", "U"})) @@ (<<1, 1>> :> Invalid(Pte(2, {})))

MCUpdates == {[addr |-> <<0, 0>>, pte |-> Pte(4, {"R", "W", "X"})]}

MCFetches ==
  [page : {[hi |-> 0, lo |-> 0]}, priv : {"M", "U"}] \cup
  [page : {[hi |-> 0, lo |-> 1]}, priv : {"S", "U"}]

MCModes ==
  {[on |-> TRUE, priv |-> "M", sum |-> TRUE, mxr |-> FALSE],
   [on |-> TRUE, priv |-> "S", sum |-> TRUE, mxr |-> FALSE]}

=============================================================================
