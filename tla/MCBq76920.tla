------------------------------- MODULE MCBq76920 -------------------------------
(***************************************************************************)
(* TLC instance of Bq76920: two cells whose difference can be below,       *)
(* between and above the thresholds; a coulomb counter of two digits with  *)
(* a discharge whose low digit alone looks like a charge; counts that are  *)
(* neither of the two samples their bytes come from; a gain that a failed  *)
(* read can miss and an offset below zero.  The check byte is computed for *)
(* every register that bq76920_init, _shutdown and _update_balance_cell    *)
(* write, and every data byte.                                             *)
(***************************************************************************)
EXTENDS Bq76920, Crc8

MCChipGain == <<1, 3>>
MCChipOffset == -5

(***************************************************************************)
(* A call that writes does so with check bytes the chip accepts: none is   *)
(* refused for its register or its data alone, which would look like a     *)
(* transfer that fails now and then.                                       *)
(***************************************************************************)
ChipAcceptsEveryWrite ==
  [][Refused = {} \/ ~(bq76920_init \/ bq76920_update_balance_cell)]_vars
===============================================================================
