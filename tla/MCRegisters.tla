------------------------------ MODULE MCRegisters ------------------------------
(* TLC's instances of Registers: callers are model values, all alike. *)
EXTENDS Registers, TLC

Symmetry == Permutations(Callers)
===============================================================================
