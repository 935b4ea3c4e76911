--------------------------------- MODULE Svpwm ---------------------------------
(***************************************************************************)
(* Space vector modulation (motor_set_phase_voltage of motor.c) and the    *)
(* PWM driver (pwmx3.c).  The voltage vector at an electrical angle lies   *)
(* between two of the six active vectors of the bridge, S ticks of angle   *)
(* apart; the sector tells which two, t1 and t2 for how long, and a table  *)
(* of six cases what that means for the three phases.                      *)
(*                                                                         *)
(* Times are in units of which a PWM period has T.  The sines of the code  *)
(* grow from 0 to their maximum over a sector, as the straight lines here  *)
(* do.  Duties are doubled, because the code halves the zero time.         *)
(***************************************************************************)
EXTENDS Integers

CONSTANTS S, \* ticks of angle in a sector, _PI_3
          T  \* a PWM period, the 1 of t0 = 1 - t1 - t2

ASSUME SvpwmAssumption == S \in Nat \ {0} /\ T \in Nat \ {0}

ElecRev == 6 * S  \* _2PI

Sectors == 1 .. 6

Limited(u, low, high) == IF u < low THEN low ELSE IF u > high THEN high ELSE u
-------------------------------------------------------------------------------
\* Duty2 with b and c exchanged in sector 4.
SwappedPhasesMutant(sector, t1, t2) ==
  LET t0 == T - t1 - t2
      abc(a, b, c) == [a |-> 2 * a + t0, b |-> 2 * b + t0, c |-> 2 * c + t0]
  IN CASE sector = 1 -> abc(t1 + t2, t2, 0)
       [] sector = 2 -> abc(t1, t1 + t2, 0)
       [] sector = 3 -> abc(0, t1 + t2, t2)
       [] sector = 4 -> abc(0, t1 + t2, t1)
       [] sector = 5 -> abc(t2, 0, t1 + t2)
       [] sector = 6 -> abc(t1 + t2, 0, t1)
       [] OTHER -> [a |-> 0, b |-> 0, c |-> 0]

\* Twice ta, tb and tc.
Duty2(sector, t1, t2) ==
  LET t0 == T - t1 - t2
      abc(a, b, c) == [a |-> 2 * a + t0, b |-> 2 * b + t0, c |-> 2 * c + t0]
  IN CASE sector = 1 -> abc(t1 + t2, t2, 0)
       [] sector = 2 -> abc(t1, t1 + t2, 0)
       [] sector = 3 -> abc(0, t1 + t2, t2)
       [] sector = 4 -> abc(0, t1, t1 + t2)
       [] sector = 5 -> abc(t2, 0, t1 + t2)
       [] sector = 6 -> abc(t1 + t2, 0, t1)
       [] OTHER -> [a |-> 0, b |-> 0, c |-> 0]

\* What the three compare registers hold, a duty of 1 being 2 * T.
pwmx3_driver_set_pwm(u) == [p \in {"a", "b", "c"} |-> Limited(u[p], 0, 2 * T)]

\* The compare registers for a voltage uout at a normalised angle.
PhaseVoltage(uout, angle) ==
  LET sector == angle \div S + 1
      t1 == (sector * S - angle) * uout
      t2 == (angle - (sector - 1) * S) * uout
  IN pwmx3_driver_set_pwm(Duty2(sector, t1, t2))
===============================================================================
