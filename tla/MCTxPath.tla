------------------------------- MODULE MCTxPath -------------------------------
(***************************************************************************)
(* TLC instances of TxPath: three or four slots, and enough messages for w *)
(* and r to go around the ring twice.                                      *)
(***************************************************************************)
EXTENDS TxPath
===============================================================================
