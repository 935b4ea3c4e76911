------------------------------- MODULE MCRxPath -------------------------------
(***************************************************************************)
(* TLC instances of RxPath.  The safe one has five slots and three frames  *)
(* outstanding (Window = MAX_BLOCK_SIZE - 2), and twelve frames take both  *)
(* pointers more than twice around the ring.  The one that looks for a     *)
(* failing assert has three slots and one frame outstanding.               *)
(***************************************************************************)
EXTENDS RxPath
===============================================================================
