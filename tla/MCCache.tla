------------------------------ MODULE MCCache ------------------------------
(* Instantiates Cache for TLC: model values for goroutines, keys and      *)
(* values, and a uint64 counter narrowed to a width TLC can represent.    *)
EXTENDS Cache, TLC

(* Goroutines and keys are interchangeable.                               *)
MCSymmetry == Permutations(Procs) \cup Permutations(Keys)

(* 2^64 does not fit TLC's integers; any modulus above size + 1 gives the *)
(* same wrap-around from 0 to the largest value.                          *)
MCUsedModulus == 16

=============================================================================
