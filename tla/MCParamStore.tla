----------------------------- MODULE MCParamStore -----------------------------
(***************************************************************************)
(* TLC instance of ParamStore: three doublewords, so that a save can be    *)
(* cut at its start, in the middle and before its end; two parameter sets, *)
(* one that runs the motor and one that stops it, and the mixtures of them *)
(* that short frames make.  The first has a ramp, a small integral gain and*)
(* a filter; the second a smaller limit, a derivative gain and no filter.  *)
(* The table has room for three commands: one application registers as     *)
(* many, the other a second callback of a code and one command too many.   *)
(***************************************************************************)
EXTENDS ParamStore, TLC

CONSTANTS run, stop

MCGains == (run :> [number |-> TRUE, p |-> 1, i |-> 1, d |-> 0, ramp |-> 1,
                    limit |-> 2, tf |-> 1])
        @@ (stop :> [number |-> TRUE, p |-> 1, i |-> 0, d |-> 1, ramp |-> 1,
                     limit |-> 1, tf |-> 0])

MCVelocities == {-2, 1}

Registration(c, cb) == [code |-> c, callback |-> cb]
set_params == Registration("set", "motor_set_params_cb")
init_params == Registration("init", "motor_init_params_cb")
flash_params == Registration("flash", "motor_flash_params_cb")

MCFirmwares ==
  {<<set_params, init_params, flash_params>>,
   <<init_params, set_params, Registration("init", "motor_flash_params_cb"),
     flash_params>>}
===============================================================================
