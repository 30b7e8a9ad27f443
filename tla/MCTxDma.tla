------------------------------- MODULE MCTxDma -------------------------------
(***************************************************************************)
(* The DMA transmit path with two writers and a ring of three descriptors. *)
(***************************************************************************)
EXTENDS TxDma

CONSTANTS w1, w2

MCWriters == {w1, w2}
MCLengths == {1, 2}

=============================================================================
