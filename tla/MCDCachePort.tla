---------------------------- MODULE MCDCachePort ---------------------------
(***************************************************************************)
(* A finite instance of DCachePort: three tags tell the requests apart,    *)
(* the FIFOs have the code's depth of two, and a request may make the      *)
(* cache evict two lines before a refill.                                  *)
(***************************************************************************)
EXTENDS DCachePort

MCReqTag == {0, 1, 2}

=============================================================================
