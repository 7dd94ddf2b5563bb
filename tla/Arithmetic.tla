----------------------------- MODULE Arithmetic -----------------------------
(***************************************************************************)
(* Numbers of W bits: what uint32_t and int of the simulator and a 32-bit  *)
(* wire of the core become in a machine of W bits.                         *)
(***************************************************************************)
EXTENDS Integers

CONSTANT W  (* bits of a register *)

ASSUME WidthAssumption == W \in {2, 4, 8, 16, 32}

Number == 0 .. 2^W - 1

Wrap(x) == x % 2^W

Bit(x, i) == (x \div 2^i) % 2

Negative(x) == Bit(x, W - 1) = 1

(* (signed)x *)
Signed(x) == IF Negative(x) THEN x - 2^W ELSE x

Truth(p) == IF p THEN 1 ELSE 0
=============================================================================
