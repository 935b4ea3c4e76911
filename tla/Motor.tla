--------------------------------- MODULE Motor ---------------------------------
(***************************************************************************)
(* The field-oriented control of the motor (motor.c) on the rotor and its  *)
(* encoder.  motor_align_sensor finds the angle of the encoder at which    *)
(* the rotor is at electrical angle 0, and every motor_step turns the      *)
(* field with the rotor from there; with an encoder PLL the counts come    *)
(* from it, without one from as5047p_update.  The application, which is    *)
(* not in the repository, calls these and motor_set_control_type from one  *)
(* loop; motor_set_params_cb calls motor_reset between two steps.          *)
(*                                                                         *)
(* Electrical angles have a unit of which a count of the encoder and an    *)
(* electrical turn have a whole number each, so that the product with      *)
(* pole_pairs and fmod are a remainder.  The control types other than      *)
(* VELOCITY_OPEN_LOOP differ in the current they ask for only: ClosedLoop  *)
(* stands for them, and what their PIDs make of the currents is any voltage*)
(* of DqVoltages.                                                          *)
(* The PLL's loop filter is taken to have settled on its counters, and the *)
(* low-pass filter of the shaft angle on its input.  The rotations that    *)
(* as5047p_update counts move no electrical angle; As5047p models them.    *)
(***************************************************************************)
EXTENDS Pll, Svpwm

CONSTANTS pole_pairs,
          CountAngle, \* electrical angle of a count
          Mounts,     \* electrical angles at which the encoder reads 0
          DqAngles,   \* angles of the voltage the PIDs ask for, to the rotor
          Levels,     \* and its size, of either sign with ud = 0
          AlignLevel, \* voltage_sensor_align
          FullLevel,  \* voltage_limit
          Advances    \* target * ts of an open loop step, electrical

ASSUME MotorAssumption == /\ pole_pairs \in Nat \ {0}
                          /\ CountAngle \in Nat \ {0}
                          /\ CPR * CountAngle = pole_pairs * ElecRev
                          /\ ElecRev % 4 = 0
                          /\ Mounts \union DqAngles \subseteq 0 .. ElecRev - 1
                          /\ Levels \union {AlignLevel, FullLevel} \subseteq Nat \ {0}
                          /\ Advances \subseteq 1 .. ElecRev - 1

VARIABLES angle_prev,                                 \* as5047p_t
          encoder_pll, sensor_direction, mount,       \* how the motor is built
          control_type, zero_electrical_angle, electrical_angle,
          pwm,                                        \* the compare registers
          settling,    \* motor_align_sensor waits for the rotor
          field,       \* history: last arguments of motor_set_phase_voltage
          commutation, \* history: what zero_electrical_angle is worth
          open_loop    \* history: 0, or 1 and 2 in turn at open loop steps in a row

build == <<encoder_pll, sensor_direction, mount>>
motor == <<control_type, zero_electrical_angle, electrical_angle, pwm, field>>
aux == <<settling, commutation, open_loop>>
vars == <<shaft, pll, history, build, angle_prev, motor, aux>>

ClosedLoop == "CLOSED_LOOP"
OpenLoop == "VELOCITY_OPEN_LOOP"

Quarter == ElecRev \div 4
-------------------------------------------------------------------------------
\* The electrical angle of the rotor itself, at a position of the encoder.
RotorElectrical(count) == (sensor_direction * count * CountAngle - mount) % ElecRev

\* Two angles that differ by d are less than a count apart.
WithinCount(d) == d % ElecRev < CountAngle \/ (-d) % ElecRev < CountAngle

Turns(d) ==
  Rotate(d) /\ UNCHANGED <<pll, history, build, angle_prev, motor, aux>>

as5047p_update(v) ==
  /\ as5047p_get_raw_count(v)
  /\ Observe(v)
  /\ angle_prev' = IF v = SENSOR_ERROR THEN angle_prev ELSE v

_sensor_electrical_angle(count, zero) ==
  (sensor_direction * count * CountAngle - zero) % ElecRev

motor_set_phase_voltage(uout, at) ==
  /\ field' = [uout |-> uout, angle |-> at % ElecRev]
  /\ pwm' = PhaseVoltage(uout, at % ElecRev)

\* (uq, ud) as a size and an angle: ud = 0 leaves the sign with the size.
DqVoltages == [uout : Levels, angle : DqAngles]
                \union [uout : {-u : u \in Levels}, angle : {Quarter}]

Commutate(count) ==
  /\ electrical_angle' = _sensor_electrical_angle(count, zero_electrical_angle)
  /\ \E dq \in DqVoltages :
       motor_set_phase_voltage(dq.uout, electrical_angle' + dq.angle)
  /\ commutation' = IF commutation = "aligned" THEN "running" ELSE commutation

(***************************************************************************)
(* A read that returns an error ends _exec of a motor without PLL, and the *)
(* phases keep their voltage; with one it does not show.                   *)
(***************************************************************************)
_exec ==
  \E v \in RawCount :
    \/ /\ encoder_pll
       /\ as5047p_get_raw_count(v)
       /\ Observe(v)
       /\ pll_update(v)
       /\ CountErrors
       /\ Commutate(count_in_cpr')
       /\ UNCHANGED angle_prev
    \/ /\ ~encoder_pll
       /\ as5047p_update(v)
       /\ IF v = SENSOR_ERROR
          THEN UNCHANGED <<electrical_angle, pwm, field, commutation>>
          ELSE Commutate(angle_prev')
       /\ UNCHANGED pll

motor_shaft_angle ==
  sensor_direction * (IF encoder_pll THEN shadow_count ELSE angle_prev) * CountAngle

ClosedLoopStep ==
  /\ control_type = ClosedLoop
  /\ ~settling
  /\ _exec
  /\ open_loop' = 0
  /\ UNCHANGED <<build, control_type, zero_electrical_angle, settling>>

(***************************************************************************)
(* motor_step in VELOCITY_OPEN_LOOP: it does not read the encoder, and the *)
(* shaft angle it advances is the one motor_shaft_angle has just returned. *)
(***************************************************************************)
OpenLoopStep(advance) ==
  /\ control_type = OpenLoop
  /\ ~settling
  /\ motor_set_phase_voltage(FullLevel, motor_shaft_angle + advance + Quarter)
  /\ open_loop' = IF open_loop = 1 THEN 2 ELSE 1
  /\ UNCHANGED <<shaft, pll, history, build, angle_prev>>
  /\ UNCHANGED <<control_type, zero_electrical_angle, electrical_angle, settling,
                 commutation>>

(***************************************************************************)
(* motor_align_sensor: hold the field at electrical angle 0 until the rotor*)
(* is there, as far as the counts can tell, and read where that is.  Whether the read went well is not    *)
(* looked at.  A PLL is not fed: the read does not count for it, and what  *)
(* it leaves in angle_prev is read by nobody.                              *)
(***************************************************************************)
AlignBegin ==
  /\ ~settling
  /\ settling' = TRUE
  /\ motor_set_phase_voltage(AlignLevel, 3 * Quarter + Quarter)
  /\ open_loop' = 0
  /\ UNCHANGED <<shaft, pll, history, build, angle_prev, commutation>>
  /\ UNCHANGED <<control_type, zero_electrical_angle, electrical_angle>>

AlignWith(zero) ==
  /\ settling
  /\ WithinCount(RotorElectrical(angle))
  /\ settling' = FALSE
  /\ \/ ~encoder_pll /\ \E v \in RawCount : as5047p_update(v)
     \/ encoder_pll /\ UNCHANGED <<shaft, history, angle_prev>>
  /\ zero_electrical_angle' =
       _sensor_electrical_angle(IF encoder_pll THEN count_in_cpr ELSE angle_prev', zero)
  /\ motor_set_phase_voltage(0, Quarter)
  /\ commutation' = IF good' /\ ~encoder_pll THEN "aligned" ELSE "unknown"
  /\ UNCHANGED <<pll, build, control_type, electrical_angle, open_loop>>

ZeroNotClearedMutant == AlignWith(zero_electrical_angle)

AlignEnd == AlignWith(0)

motor_set_control_type ==
  /\ ~settling
  /\ control_type' \in {ClosedLoop, OpenLoop}
  /\ UNCHANGED <<shaft, pll, history, build, angle_prev, aux>>
  /\ UNCHANGED <<zero_electrical_angle, electrical_angle, pwm, field>>

\* Takes the alignment with it, and leaves the phases as they are.
motor_reset ==
  /\ ~settling
  /\ zero_electrical_angle' = 0
  /\ electrical_angle' = 0
  /\ commutation' = "unknown"
  /\ open_loop' = 0
  /\ UNCHANGED <<shaft, pll, history, build, angle_prev, control_type, pwm, field, settling>>
-------------------------------------------------------------------------------
Init ==
  /\ ShaftInit
  /\ PllInit
  /\ angle_prev = 0
  /\ encoder_pll \in BOOLEAN /\ sensor_direction \in {-1, 1} /\ mount \in Mounts
  /\ control_type \in {ClosedLoop, OpenLoop}
  /\ zero_electrical_angle = 0 /\ electrical_angle = 0
  /\ pwm = [p \in {"a", "b", "c"} |-> 0]
  /\ field = [uout |-> 0, angle |-> 0]
  /\ settling = FALSE /\ commutation = "unknown" /\ open_loop = 0

Next ==
  \/ \E d \in {-1, 1} : Turns(d)
  \/ ClosedLoopStep
  \/ \E advance \in Advances : OpenLoopStep(advance)
  \/ AlignBegin
  \/ AlignEnd
  \/ motor_set_control_type
  \/ motor_reset

Spec == Init /\ [][Next]_vars
-------------------------------------------------------------------------------
TypeOK ==
  /\ ShaftTypeOK
  /\ PllTypeOK
  /\ angle_prev \in Counts
  /\ encoder_pll \in BOOLEAN /\ sensor_direction \in {-1, 1} /\ mount \in Mounts
  /\ control_type \in {ClosedLoop, OpenLoop}
  /\ {zero_electrical_angle, electrical_angle, field.angle} \subseteq 0 .. ElecRev - 1
  /\ pwm \in [{"a", "b", "c"} -> 0 .. 2 * T]
  /\ commutation \in {"unknown", "aligned", "running"}
  /\ settling \in BOOLEAN /\ open_loop \in 0 .. 2

(***************************************************************************)
(* Once the rotor was aligned with a good read, every closed loop step     *)
(* commutates less than a count from the electrical angle the rotor really *)
(* had at its last read, whichever way the encoder is mounted and counts,  *)
(* and across open loop phases, failed reads and alignments that come      *)
(* later.                                                                  *)
(***************************************************************************)
CommutatesWithRotor ==
  commutation = "running" /\ good =>
    WithinCount(electrical_angle - RotorElectrical(read_angle))

(***************************************************************************)
(* After a good read the PLL has the angle of the shaft, and shadow_count  *)
(* is its position but for whole turns: none, or one less when the shaft   *)
(* started in the upper half of its turn, and at most one more or less for *)
(* each value from no good read, which the shaft may pass unseen.          *)
(***************************************************************************)
TracksShaft ==
  encoder_pll /\ good =>
    /\ \E k \in -(1 + errors) .. errors :
         shadow_count = read_angle + CPR * (read_turn + k)
    /\ count_in_cpr = read_angle

Size(u) == IF u < 0 THEN -u ELSE u

(***************************************************************************)
(* The field turns without a jump: when its angle moves by one tick, at    *)
(* the same voltage, no phase changes by more than a tick's worth of time, *)
(* over the borders of the sectors too.                                    *)
(***************************************************************************)
SmoothField ==
  [][(/\ field'.uout = field.uout
      /\ (field'.angle - field.angle) % ElecRev \in {1, ElecRev - 1})
     => \A p \in {"a", "b", "c"} :
          Size(pwm'[p] - pwm[p]) <= 2 * Size(field.uout)]_vars

(***************************************************************************)
(* motor.h:39, shaft_velocity_sp is the velocity to reach: in open loop    *)
(* each step takes the field target * ts further than the step before.     *)
(***************************************************************************)
OpenLoopTurns ==
  [][\A advance \in Advances :
       OpenLoopStep(advance) /\ open_loop # 0
         => field'.angle = (field.angle + advance) % ElecRev]_vars
===============================================================================
