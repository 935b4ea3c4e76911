---------------------------------- MODULE Pll ----------------------------------
(***************************************************************************)
(* The integer part of the encoder PLL (pll.c): pll_update turns the raw   *)
(* counts of the encoder into the counts travelled since boot.  The motor  *)
(* loop, which Motor models, feeds it.                                     *)
(*                                                                         *)
(* The loop filter that smooths the two counters is floating point and is  *)
(* not modelled.  read_* and good are history: where the rotor was at the  *)
(* last good read, and whether the last read was one.                      *)
(***************************************************************************)
EXTENDS Encoder

CONSTANT MaxErrors \* bound on the values passed to pll_update by bad reads

ASSUME ErrorAssumption == MaxErrors \in Nat

VARIABLES shadow_count, count_in_cpr,        \* pll_t
          errors, \* history: values passed to pll_update from no good read
          good, read_turn, read_angle        \* history

pll == <<shadow_count, count_in_cpr, errors>>
history == <<good, read_turn, read_angle>>
-------------------------------------------------------------------------------
RemainderMutant(v) == LET delta_enc == v - count_in_cpr
                      IN IF delta_enc > CPR \div 2 THEN delta_enc - CPR ELSE delta_enc

\* The shorter way round from the last count to this one.
DeltaEnc(v) == LET delta_enc == (v - count_in_cpr) % CPR
               IN IF delta_enc > CPR \div 2 THEN delta_enc - CPR ELSE delta_enc

CountNotReducedMutant(v) ==
  /\ shadow_count' = shadow_count + DeltaEnc(v)
  /\ count_in_cpr' = count_in_cpr + DeltaEnc(v)

pll_update(v) ==
  /\ shadow_count' = shadow_count + DeltaEnc(v)
  /\ count_in_cpr' = (count_in_cpr + DeltaEnc(v)) % CPR

\* A read of the encoder that returned v, in the history.
Observe(v) ==
  IF GoodRead(v)
  THEN good' = TRUE /\ read_turn' = turn /\ read_angle' = angle
  ELSE good' = FALSE /\ UNCHANGED <<read_turn, read_angle>>

CountErrors == /\ errors' = IF good' THEN errors ELSE errors + 1
               /\ errors' <= MaxErrors

\* pll_init
PllInit == /\ shadow_count = 0 /\ count_in_cpr = 0
           /\ errors = 0
           /\ good = FALSE /\ read_turn = 0 /\ read_angle = 0
-------------------------------------------------------------------------------
PllTypeOK == /\ shadow_count \in Int /\ count_in_cpr \in Counts
             /\ errors \in 0 .. MaxErrors
             /\ good \in BOOLEAN
             /\ read_turn \in -MaxTurn .. MaxTurn /\ read_angle \in Counts
===============================================================================
