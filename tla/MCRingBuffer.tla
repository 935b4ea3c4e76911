----------------------------- MODULE MCRingBuffer -----------------------------
(***************************************************************************)
(* TLC instance of RingBuffer: four slots, so that w and r meet at every   *)
(* slot and lap each other, and two distinguishable contents.              *)
(***************************************************************************)
EXTENDS RingBuffer
===============================================================================
