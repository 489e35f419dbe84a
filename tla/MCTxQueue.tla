------------------------------ MODULE MCTxQueue ------------------------------
(***************************************************************************)
(* Instances of TxQueue.                                                   *)
(***************************************************************************)
EXTENDS TxQueue
=============================================================================
