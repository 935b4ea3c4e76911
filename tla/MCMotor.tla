-------------------------------- MODULE MCMotor --------------------------------
(***************************************************************************)
(* TLC instance of Motor: 8 counts to a turn and 3 pole pairs, so that no  *)
(* electrical turn is a whole number of counts, and 4 ticks to a sector.   *)
(* FullLevel is more than the bridge can give and is clipped.              *)
(***************************************************************************)
EXTENDS Motor
===============================================================================
