------------------------------- MODULE MCRxFifo -------------------------------
(* TLC's instance of RxFifo: one or two readers, which may be exchanged. *)
EXTENDS RxFifo, TLC

CONSTANTS r1, r2

ReaderSymmetry == Permutations({r1, r2})

===============================================================================
