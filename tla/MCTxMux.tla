-------------------------------- MODULE MCTxMux --------------------------------
(***************************************************************************)
(* TxMux with frames of a few bytes.                                       *)
(***************************************************************************)
EXTENDS TxMux

MCDataSizes == {1, 6}
=============================================================================
