------------------------------- MODULE MCTxFifo -------------------------------
(* TLC's instance of TxFifo: two writers.  Exchanging them changes nothing, so *)
(* the safety run explores one of each pair of symmetric states.               *)
EXTENDS TxFifo, TLC

CONSTANTS w1, w2

WriterSymmetry == Permutations({w1, w2})

===============================================================================
