------------------------------ MODULE CurrentSense ------------------------------
(***************************************************************************)
(* Current measurement (current.c) through the amplifiers of the gate      *)
(* driver: two ADCs sample phases a and b once in a PWM period and store   *)
(* the values in an interrupt each, adc1_val and adc2_val; the control     *)
(* loop loads them one after the other and takes off an offset, which      *)
(* motor_sensor_calibrate_offsets has measured with the motor at rest.     *)
(*                                                                         *)
(* The application, which is not in the repository, starts the board with  *)
(* motor_custom_init, measures the offset, and then steps the motor, all   *)
(* in one loop.  It may measure again later, with current still flowing,   *)
(* and switch the gate drivers.  The motor has come to rest when it starts *)
(* after a reset.  The callbacks of at most one PWM period run between the *)
(* two loads.                                                              *)
(*                                                                         *)
(* The unit is a fraction of the ADC's, so small that what the quotient at *)
(* the end of a measurement drops does not count; the rounding of the float*)
(* sums is left out, and the factor to amperes, and the rotation of        *)
(* current_get_dq_currents, a function of the pair.                        *)
(***************************************************************************)
EXTENDS Drv8323

CONSTANTS Rounds,  \* calibration_rounds, 2000 in the code
          Bias,    \* reading of no current, VREF / 2
          Currents \* readings of the two currents, above or below it

Phases == {"a", "b"}
Nothing == [p \in Phases |-> 0]

ASSUME CurrentAssumption == /\ Rounds \in Nat \ {0, 1}
                            /\ Bias \in Nat /\ Bias >= (Rounds - 1) * (Rounds - 1)
                            /\ Nothing \in Currents
                            /\ \A x \in Currents : x \in [Phases -> 1 - Bias .. Bias]

VARIABLES now, before,     \* the currents in this PWM period and in the last
          converting,      \* the phases whose interrupt is still to come
          adc_val,         \* adc1_val and adc2_val; 0 before the first interrupt
          ia,              \* the static, while a call has loaded only this one
          last_iab,        \* last_ia and last_ib
          offset,          \* offset_ia and offset_ib
          rounds,          \* of the measurement in progress, 0 for none
          reading,         \* a call is between its two loads
          interrupted,     \* a callback ran meanwhile
          zeroed           \* history: an offset was measured since the reset

plant == <<now, before>>
adcs == <<converting, adc_val>>
current == <<ia, last_iab, offset, rounds, reading, interrupted, zeroed>>
vars == <<drv, plant, adcs, current>>

-------------------------------------------------------------------------------
(***************************************************************************)
(* A PWM period begins and triggers both ADCs.  Without a measured offset  *)
(* no current flows, and it ends flowing after the first load of a         *)
(* measurement: the three half bridges have the same duty.                 *)
(***************************************************************************)
PwmPeriod ==
  /\ converting = {}
  /\ ~interrupted
  /\ converting' = Phases
  /\ before' = now
  /\ now' \in IF zeroed /\ rounds = 0 THEN Currents ELSE {Nothing}
  /\ UNCHANGED <<drv, adc_val, current>>

\* What an ADC sees: an amplifier that calibrates itself shows no current.
Sample(p) ==
  CASE ~awake -> 0
    [] awake /\ Calibrating(p) -> Bias
    [] OTHER -> Bias + now[p]

SwappedAdcMutant(p) ==
  /\ p \in converting
  /\ converting' = converting \ {p}
  /\ adc_val' = [q \in Phases |-> IF q # p THEN Sample(p) ELSE adc_val[q]]
  /\ interrupted' = reading
  /\ UNCHANGED <<drv, plant, ia, last_iab, offset, rounds, reading, zeroed>>

HAL_ADCEx_InjectedConvCpltCallback(p) ==
  /\ p \in converting
  /\ converting' = converting \ {p}
  /\ adc_val' = [adc_val EXCEPT ![p] = Sample(p)]
  /\ interrupted' = reading
  /\ UNCHANGED <<drv, plant, ia, last_iab, offset, rounds, reading, zeroed>>
-------------------------------------------------------------------------------
(***************************************************************************)
(* current_calibrate_offsets: each round adds a sample to the offset the   *)
(* call before has left.  The first is whatever the interrupts have left,  *)
(* perhaps a current, or nothing when none has run yet.  The next comes a  *)
(* millisecond later, when the current has decayed; the quotient ends the  *)
(* call.                                                                   *)
(***************************************************************************)
Settled == /\ now = Nothing /\ before = Nothing
           /\ \A p \in Phases : adc_val[p] = Bias

NotDividedMutant ==
  /\ drv_pc = "ready" /\ ~reading
  /\ rounds > 0 => Settled
  /\ offset' = [p \in Phases |-> offset[p] + adc_val[p]]
  /\ IF rounds + 1 < Rounds
     THEN rounds' = rounds + 1 /\ UNCHANGED zeroed
     ELSE rounds' = 0 /\ zeroed' = TRUE
  /\ UNCHANGED <<drv, plant, adcs, ia, last_iab, reading, interrupted>>

OneRoundMoreMutant ==
  /\ drv_pc = "ready" /\ ~reading
  /\ rounds > 0 => Settled
  /\ LET sum == [p \in Phases |-> offset[p] + adc_val[p]]
     IN IF rounds < Rounds
        THEN offset' = sum /\ rounds' = rounds + 1 /\ UNCHANGED zeroed
        ELSE /\ offset' = [p \in Phases |-> sum[p] \div Rounds]
             /\ rounds' = 0 /\ zeroed' = TRUE
  /\ UNCHANGED <<drv, plant, adcs, ia, last_iab, reading, interrupted>>

current_calibrate_offsets ==
  /\ drv_pc = "ready" /\ ~reading
  /\ rounds > 0 => Settled
  /\ LET sum == [p \in Phases |-> offset[p] + adc_val[p]]
     IN IF rounds + 1 < Rounds
        THEN offset' = sum /\ rounds' = rounds + 1 /\ UNCHANGED zeroed
        ELSE /\ offset' = [p \in Phases |-> sum[p] \div Rounds]
             /\ rounds' = 0 /\ zeroed' = TRUE
  /\ UNCHANGED <<drv, plant, adcs, ia, last_iab, reading, interrupted>>

\* current_get_phase_currents loads adc1_val, and then adc2_val.
LoadA ==
  /\ drv_pc = "ready" /\ rounds = 0 /\ ~reading
  /\ reading' = TRUE
  /\ ia' = adc_val["a"]
  /\ UNCHANGED <<drv, plant, adcs, last_iab, offset, rounds, interrupted, zeroed>>

LoadB ==
  /\ reading
  /\ last_iab' = [a |-> ia - offset["a"], b |-> adc_val["b"] - offset["b"]]
  /\ reading' = FALSE /\ interrupted' = FALSE /\ ia' = 0
  /\ UNCHANGED <<drv, plant, adcs, offset, rounds, zeroed>>
-------------------------------------------------------------------------------
DrvStep == /\ rounds = 0 /\ ~reading
           /\ StartUp \/ SwitchGateDriver
           /\ UNCHANGED <<plant, adcs, current>>

Reset ==
  /\ DrvReset
  /\ now' = Nothing /\ before' = Nothing
  /\ converting' = {} /\ adc_val' = Nothing
  /\ ia' = 0 /\ last_iab' = Nothing /\ offset' = Nothing
  /\ rounds' = 0 /\ reading' = FALSE /\ interrupted' = FALSE
  /\ zeroed' = FALSE

Init ==
  /\ DrvInit
  /\ now = Nothing /\ before = Nothing
  /\ converting = {} /\ adc_val = Nothing
  /\ ia = 0 /\ last_iab = Nothing /\ offset = Nothing
  /\ rounds = 0 /\ reading = FALSE /\ interrupted = FALSE
  /\ zeroed = FALSE

Next == \/ DrvStep
        \/ PwmPeriod
        \/ \E p \in Phases : HAL_ADCEx_InjectedConvCpltCallback(p)
        \/ current_calibrate_offsets
        \/ LoadA
        \/ LoadB
        \/ Reset

Spec == Init /\ [][Next]_vars
-------------------------------------------------------------------------------
TypeOK ==
  /\ DrvTypeOK
  /\ {now, before} \subseteq Currents
  /\ converting \subseteq Phases
  /\ adc_val \in [Phases -> Nat] /\ offset \in [Phases -> Nat]
  /\ last_iab \in [Phases -> Int] /\ ia \in Nat
  /\ rounds \in 0 .. Rounds - 1
  /\ {reading, interrupted, zeroed} \subseteq BOOLEAN

Distance(x, y) == IF x < y THEN y - x ELSE x - y

(***************************************************************************)
(* A measured offset is within two parts in Rounds - 1 of the bias, however*)
(* often it is measured, although a measurement starts from the offset of  *)
(* the one before, the first may come before the first interrupt, and in a *)
(* later one the current that was flowing is still in the first sample.    *)
(***************************************************************************)
OffsetNearBias ==
  zeroed /\ rounds = 0 =>
    \A p \in Phases : (Rounds - 1) * Distance(offset[p], Bias) <= 2 * Bias

(***************************************************************************)
(* With a clean start-up and a measured offset, each current that a call   *)
(* returns is that of its phase in this PWM period or in the last, but for *)
(* the error of the offset: the amplifiers measure and do not calibrate,   *)
(* and the pair is at most one period apart.                               *)
(***************************************************************************)
ReadsRecentCurrents ==
  [][LoadB /\ clean /\ zeroed =>
       \A p \in Phases : \E x \in {now[p], before[p]} :
         (Rounds - 1) * Distance(last_iab'[p], x) <= 2 * Bias]_vars
===============================================================================
