------------------------------ MODULE MCAs5047p ------------------------------
(***************************************************************************)
(* TLC instance of As5047p.  With 6 counts a turn, a jump of 5 is a wrap   *)
(* and one of 4 is not, and the shaft may move one count between reads,    *)
(* the most that is safe.                                                  *)
(***************************************************************************)
EXTENDS As5047p
===============================================================================
