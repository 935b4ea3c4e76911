------------------------------ MODULE MotorProofs ------------------------------
(***************************************************************************)
(* Proofs about Motor, its PLL and its space vector modulation, for every  *)
(* number of counts, pole pairs and ticks, every mount of the encoder and  *)
(* every voltage.  The last part says what the six cases of                *)
(* motor_set_phase_voltage compute.  Only what the PLL counts needs an     *)
(* assumption: the shaft makes less than half a turn between good reads.   *)
(***************************************************************************)
EXTENDS Motor, TLAPS

SlowShaft == 2 * MaxTravel < CPR

(***************************************************************************)
(* Types, and that the phases carry the voltage of the last call, but for  *)
(* those of a motor that was never driven.                                 *)
(***************************************************************************)
TypeInv ==
  /\ TypeOK
  /\ field \in [uout : Int, angle : 0 .. ElecRev - 1]
  /\ settling \/ field.uout # 0 => pwm = PhaseVoltage(field.uout, field.angle)

(***************************************************************************)
(* An alignment that counts has found the mount of the encoder to less than*)
(* a count, and none counts with a PLL, which is not fed meanwhile.        *)
(***************************************************************************)
AlignInv ==
  /\ commutation # "unknown" => ~encoder_pll /\ WithinCount(mount - zero_electrical_angle)
  /\ CommutatesWithRotor

(***************************************************************************)
(* What the PLL has counted, against the place of the last good read, or   *)
(* before there was one the place of the boot: half a turn off at most for *)
(* each value since that came from no good read, and whole turns off, at   *)
(* most as many as there were such values before.                          *)
(***************************************************************************)
Position == angle + CPR * turn
ReadPosition == read_angle + CPR * read_turn

HalfTurns(x, m) == -(m * CPR) <= 2 * x /\ 2 * x <= m * CPR

SinceGood(m, k) ==
  /\ k \in -(1 + errors - m) .. errors - m
  /\ Position = ReadPosition + travel
  /\ HalfTurns(shadow_count - ReadPosition - CPR * k, m)

SinceBoot ==
  /\ ~good
  /\ \E a \in Counts : Position = a + travel
  /\ HalfTurns(shadow_count, errors)

PllInv ==
  encoder_pll =>
    /\ \E n \in Int : shadow_count = count_in_cpr + CPR * n
    /\ \/ SinceBoot
       \/ \E m \in 0 .. errors : \E k \in Int : SinceGood(m, k) /\ (good => m = 0)
    /\ good => count_in_cpr = read_angle
-------------------------------------------------------------------------------
(***************************************************************************)
(* Remainders: a remainder is in range, and the only number in range that  *)
(* differs from its argument by a multiple.                                *)
(***************************************************************************)
LEMMA DivMod ==
  ASSUME NEW x \in Int, NEW b \in Nat \ {0}
  PROVE  /\ x \div b \in Int /\ x % b \in 0 .. b - 1
         /\ x = b * (x \div b) + (x % b)
OBVIOUS

LEMMA SameRemainder ==
  ASSUME NEW b \in Nat \ {0}, NEW q \in Int, NEW s \in Int,
         NEW x \in 0 .. b - 1, NEW y \in 0 .. b - 1, b * q + x = b * s + y
  PROVE  x = y /\ q = s
<1>1. b * (q - s) = y - x
  OBVIOUS
<1>2. CASE q - s >= 1
  <2>1. b * (q - s) >= b
    BY <1>2
  <2>2. QED
    BY <1>1, <2>1
<1>3. CASE q - s <= -1
  <2>1. b * (q - s) <= -b
    BY <1>3
  <2>2. QED
    BY <1>1, <2>1
<1>4. CASE q = s
  BY <1>1, <1>4
<1>5. QED
  BY <1>2, <1>3, <1>4

LEMMA RemainderIs ==
  ASSUME NEW x \in Int, NEW b \in Nat \ {0}, NEW q \in Int, NEW y \in 0 .. b - 1,
         x = b * q + y
  PROVE  x % b = y /\ x \div b = q
<1>1. x \div b \in Int /\ x % b \in 0 .. b - 1 /\ x = b * (x \div b) + (x % b)
  BY DivMod
<1>2. b * (x \div b) + (x % b) = b * q + y
  BY <1>1
<1>3. QED
  BY <1>1, <1>2, SameRemainder

LEMMA Sizes ==
  /\ CPR \in Nat \ {0} /\ SENSOR_ERROR \notin Counts /\ 0 \in Counts /\ Counts \subseteq Int
  /\ S \in Nat \ {0} /\ T \in Nat \ {0} /\ ElecRev \in Nat \ {0} /\ ElecRev = 6 * S
  /\ Quarter \in Int /\ 0 \in 0 .. ElecRev - 1
  /\ MaxTurn \in Nat /\ MaxTravel \in Nat /\ MaxFaults \in Nat /\ MaxErrors \in Nat
<1>1. CPR \in Nat \ {0} /\ SENSOR_ERROR \notin Counts /\ 0 \in Counts /\ Counts \subseteq Int
      /\ MaxTurn \in Nat /\ MaxTravel \in Nat /\ MaxFaults \in Nat /\ MaxErrors \in Nat
  BY EncoderAssumption, ErrorAssumption DEF Counts
<1>2. S \in Nat \ {0} /\ T \in Nat \ {0} /\ ElecRev \in Nat \ {0} /\ ElecRev = 6 * S
  BY SvpwmAssumption DEF ElecRev
<1>3. Quarter \in Int
  BY <1>2, DivMod DEF Quarter
<1>4. QED
  BY <1>1, <1>2, <1>3

(***************************************************************************)
(* The duties of six sectors, and what the compare registers hold.         *)
(***************************************************************************)
LEMMA DutyType ==
  ASSUME NEW sector \in Int, NEW t1 \in Int, NEW t2 \in Int, NEW p \in {"a", "b", "c"}
  PROVE  Duty2(sector, t1, t2)[p] \in Int
<1> USE SvpwmAssumption
<1>1. CASE sector = 1 BY <1>1 DEF Duty2
<1>2. CASE sector = 2 BY <1>2 DEF Duty2
<1>3. CASE sector = 3 BY <1>3 DEF Duty2
<1>4. CASE sector = 4 BY <1>4 DEF Duty2
<1>5. CASE sector = 5 BY <1>5 DEF Duty2
<1>6. CASE sector = 6 BY <1>6 DEF Duty2
<1>7. CASE sector \notin {1, 2, 3, 4, 5, 6} BY <1>7 DEF Duty2
<1>8. QED BY <1>1, <1>2, <1>3, <1>4, <1>5, <1>6, <1>7

LEMMA LimitedValue ==
  ASSUME NEW u \in Int
  PROVE  Limited(u, 0, 2 * T) \in 0 .. 2 * T
BY SvpwmAssumption DEF Limited

LEMMA PhaseVoltageType ==
  ASSUME NEW uout \in Int, NEW at \in 0 .. ElecRev - 1
  PROVE  PhaseVoltage(uout, at) \in [{"a", "b", "c"} -> 0 .. 2 * T]
<1> DEFINE sector == at \div S + 1
           t1 == (sector * S - at) * uout
           t2 == (at - (sector - 1) * S) * uout
<1>1. S \in Nat \ {0} /\ at \in Int
  BY Sizes
<1>2. sector \in Int
  <2>1. at \div S \in Int
    BY <1>1, DivMod
  <2>2. QED
    BY <2>1
<1>3. t1 \in Int /\ t2 \in Int
  <2> HIDE DEF sector
  <2>1. QED
    BY <1>1, <1>2
<1>4. PhaseVoltage(uout, at) = pwmx3_driver_set_pwm(Duty2(sector, t1, t2))
  BY DEF PhaseVoltage
<1> HIDE DEF sector, t1, t2
<1>5. QED
  BY <1>2, <1>3, <1>4, DutyType, LimitedValue DEF pwmx3_driver_set_pwm
-------------------------------------------------------------------------------
Ahead(sector, n) == IF sector + n > 6 THEN sector + n - 6 ELSE sector + n

(***************************************************************************)
(* The three phases get the same wave, a third of a turn apart: two        *)
(* sectors further on, b has the duty a had, c the one b had, a that of c. *)
(* A case with two phases exchanged, or t1 for t2, breaks it.              *)
(***************************************************************************)
THEOREM ThreePhases ==
  ASSUME NEW sector \in Sectors, NEW t1 \in Int, NEW t2 \in Int
  PROVE  LET now == Duty2(sector, t1, t2)
             later == Duty2(Ahead(sector, 2), t1, t2)
         IN  later.b = now.a /\ later.c = now.b /\ later.a = now.c
<1> USE SvpwmAssumption
<1>1. CASE sector = 1 BY <1>1 DEF Duty2, Ahead
<1>2. CASE sector = 2 BY <1>2 DEF Duty2, Ahead
<1>3. CASE sector = 3 BY <1>3 DEF Duty2, Ahead
<1>4. CASE sector = 4 BY <1>4 DEF Duty2, Ahead
<1>5. CASE sector = 5 BY <1>5 DEF Duty2, Ahead
<1>6. CASE sector = 6 BY <1>6 DEF Duty2, Ahead
<1>7. QED BY <1>1, <1>2, <1>3, <1>4, <1>5, <1>6 DEF Sectors

(***************************************************************************)
(* A voltage half a turn further on drives each phase to the other side of *)
(* the middle: the duties of a phase in opposite sectors add up to 1.      *)
(***************************************************************************)
THEOREM OppositeSectors ==
  ASSUME NEW sector \in Sectors, NEW t1 \in Int, NEW t2 \in Int
  PROVE  LET now == Duty2(sector, t1, t2)
             later == Duty2(Ahead(sector, 3), t1, t2)
         IN  \A p \in {"a", "b", "c"} : now[p] + later[p] = 2 * T
<1> USE SvpwmAssumption
<1>1. CASE sector = 1 BY <1>1 DEF Duty2, Ahead
<1>2. CASE sector = 2 BY <1>2 DEF Duty2, Ahead
<1>3. CASE sector = 3 BY <1>3 DEF Duty2, Ahead
<1>4. CASE sector = 4 BY <1>4 DEF Duty2, Ahead
<1>5. CASE sector = 5 BY <1>5 DEF Duty2, Ahead
<1>6. CASE sector = 6 BY <1>6 DEF Duty2, Ahead
<1>7. QED BY <1>1, <1>2, <1>3, <1>4, <1>5, <1>6 DEF Sectors

(***************************************************************************)
(* No phase jumps at the border of two sectors, where the end of one and   *)
(* the start of the next both give the whole time to the vector between.   *)
(***************************************************************************)
THEOREM NoJumpBetweenSectors ==
  ASSUME NEW sector \in Sectors, NEW t \in Int
  PROVE  Duty2(sector, 0, t) = Duty2(Ahead(sector, 1), t, 0)
<1> USE SvpwmAssumption
<1>1. CASE sector = 1 BY <1>1 DEF Duty2, Ahead
<1>2. CASE sector = 2 BY <1>2 DEF Duty2, Ahead
<1>3. CASE sector = 3 BY <1>3 DEF Duty2, Ahead
<1>4. CASE sector = 4 BY <1>4 DEF Duty2, Ahead
<1>5. CASE sector = 5 BY <1>5 DEF Duty2, Ahead
<1>6. CASE sector = 6 BY <1>6 DEF Duty2, Ahead
<1>7. QED BY <1>1, <1>2, <1>3, <1>4, <1>5, <1>6 DEF Sectors

(***************************************************************************)
(* A voltage the bridge can give is never clipped by pwmx3_driver_set_pwm: *)
(* while t1 and t2, which have the sign of uout, make up one period at     *)
(* most, every duty is between 0 and 1.                                    *)
(***************************************************************************)
THEOREM NotClipped ==
  ASSUME NEW sector \in Sectors, NEW t1 \in Int, NEW t2 \in Int,
         \/ 0 <= t1 /\ 0 <= t2 /\ t1 + t2 <= T
         \/ t1 <= 0 /\ t2 <= 0 /\ -T <= t1 + t2
  PROVE  LET u == Duty2(sector, t1, t2)
         IN  \A p \in {"a", "b", "c"} : pwmx3_driver_set_pwm(u)[p] = u[p]
<1> USE SvpwmAssumption
<1> SUFFICES ASSUME NEW p \in {"a", "b", "c"}
             PROVE  Duty2(sector, t1, t2)[p] \in 0 .. 2 * T
  BY DEF pwmx3_driver_set_pwm, Limited
<1>1. CASE sector = 1 BY <1>1 DEF Duty2
<1>2. CASE sector = 2 BY <1>2 DEF Duty2
<1>3. CASE sector = 3 BY <1>3 DEF Duty2
<1>4. CASE sector = 4 BY <1>4 DEF Duty2
<1>5. CASE sector = 5 BY <1>5 DEF Duty2
<1>6. CASE sector = 6 BY <1>6 DEF Duty2
<1>7. QED BY <1>1, <1>2, <1>3, <1>4, <1>5, <1>6 DEF Sectors
-------------------------------------------------------------------------------
(***************************************************************************)
(* The types that the parts of a step leave behind.                        *)
(***************************************************************************)
LEMMA VoltageType ==
  ASSUME NEW uout \in Int, NEW at \in Int, motor_set_phase_voltage(uout, at)
  PROVE  /\ field' \in [uout : Int, angle : 0 .. ElecRev - 1]
         /\ pwm' \in [{"a", "b", "c"} -> 0 .. 2 * T]
         /\ pwm' = PhaseVoltage(field'.uout, field'.angle)
<1>1. at % ElecRev \in 0 .. ElecRev - 1
  BY Sizes, DivMod
<1>2. QED
  BY <1>1, PhaseVoltageType DEF motor_set_phase_voltage

LEMMA SensorAngleType ==
  ASSUME TypeOK, NEW count \in Int, NEW zero \in Int
  PROVE  /\ sensor_direction * count * CountAngle \in Int
         /\ _sensor_electrical_angle(count, zero) \in 0 .. ElecRev - 1
<1>1. sensor_direction * count * CountAngle \in Int
  <2>1. PICK c \in Int : c = sensor_direction * count
    BY DEF TypeOK
  <2>2. c * CountAngle \in Int
    BY MotorAssumption
  <2>3. QED
    BY <2>1, <2>2
<1>2. PICK x \in Int : x = sensor_direction * count * CountAngle - zero
  BY <1>1
<1>3. x % ElecRev \in 0 .. ElecRev - 1
  BY Sizes, DivMod
<1>4. QED
  BY <1>1, <1>2, <1>3 DEF _sensor_electrical_angle

LEMMA CommutateType ==
  ASSUME TypeInv, NEW count \in Int, Commutate(count)
  PROVE  /\ electrical_angle' \in 0 .. ElecRev - 1
         /\ field' \in [uout : Int, angle : 0 .. ElecRev - 1]
         /\ pwm' \in [{"a", "b", "c"} -> 0 .. 2 * T]
         /\ pwm' = PhaseVoltage(field'.uout, field'.angle)
         /\ commutation' \in {"unknown", "aligned", "running"}
<1>1. zero_electrical_angle \in Int
  BY Sizes DEF TypeInv, TypeOK
<1>2. electrical_angle' \in 0 .. ElecRev - 1
  BY <1>1, SensorAngleType DEF TypeInv, Commutate
<1>3. PICK dq \in DqVoltages :
        motor_set_phase_voltage(dq.uout, electrical_angle' + dq.angle)
  BY DEF Commutate
<1>4. dq.uout \in Int /\ dq.angle \in Int
  BY MotorAssumption, Sizes DEF DqVoltages
<1>5. electrical_angle' + dq.angle \in Int
  BY <1>2, <1>4, Sizes
<1>6. commutation' \in {"unknown", "aligned", "running"}
  BY DEF Commutate, TypeInv, TypeOK
<1>7. QED
  BY <1>2, <1>3, <1>4, <1>5, <1>6, VoltageType

LEMMA ReadType ==
  ASSUME TypeOK, NEW v \in RawCount, as5047p_get_raw_count(v), Observe(v)
  PROVE  /\ ShaftTypeOK'
         /\ good' \in BOOLEAN
         /\ read_turn' \in -MaxTurn .. MaxTurn /\ read_angle' \in Counts
<1>1. ShaftTypeOK'
  <2>1. CASE GoodRead(v)
    BY <2>1, Sizes DEF GoodRead, rotor, TypeOK, ShaftTypeOK
  <2>2. CASE FlaggedRead(v)
    BY <2>2 DEF FlaggedRead, shaft, rotor, TypeOK, ShaftTypeOK
  <2>3. CASE FailedTransfer(v)
    BY <2>3, Sizes DEF FailedTransfer, rotor, TypeOK, ShaftTypeOK
  <2>4. QED
    BY <2>1, <2>2, <2>3 DEF as5047p_get_raw_count
<1>2. QED
  BY <1>1 DEF Observe, TypeOK, ShaftTypeOK, PllTypeOK

(***************************************************************************)
(* The PLL takes half a turn at most at once, to the place it is told.     *)
(***************************************************************************)
LEMMA DeltaIs ==
  ASSUME count_in_cpr \in Counts, NEW v \in Int
  PROVE  /\ DeltaEnc(v) \in Int
         /\ -CPR < 2 * DeltaEnc(v) /\ 2 * DeltaEnc(v) <= CPR
         /\ \E q \in Int : count_in_cpr + DeltaEnc(v) = v + CPR * q
<1> DEFINE delta == (v - count_in_cpr) % CPR
           q == (v - count_in_cpr) \div CPR
<1>1. count_in_cpr \in Int /\ CPR \in Nat \ {0}
  BY Sizes
<1>2. q \in Int /\ delta \in 0 .. CPR - 1 /\ v - count_in_cpr = CPR * q + delta
  BY <1>1, DivMod
<1>3. DeltaEnc(v) = IF delta > CPR \div 2 THEN delta - CPR ELSE delta
  BY DEF DeltaEnc
<1>4. CPR \div 2 \in Int /\ CPR - 1 <= 2 * (CPR \div 2) /\ 2 * (CPR \div 2) <= CPR
  BY <1>1
<1> HIDE DEF delta, q
<1>5. CPR * (-q) = -(CPR * q) /\ CPR * (-q - 1) = -(CPR * q) - CPR /\ CPR * q \in Int
  BY <1>1, <1>2
<1>6. CASE delta > CPR \div 2
  <2>1. DeltaEnc(v) = delta - CPR
    BY <1>3, <1>6
  <2>2. count_in_cpr + DeltaEnc(v) = v + CPR * (-q - 1)
    BY <1>1, <1>2, <1>5, <2>1
  <2>3. QED
    BY <1>1, <1>2, <1>4, <1>6, <2>1, <2>2
<1>7. CASE ~(delta > CPR \div 2)
  <2>1. DeltaEnc(v) = delta
    BY <1>3, <1>7
  <2>2. count_in_cpr + DeltaEnc(v) = v + CPR * (-q)
    BY <1>1, <1>2, <1>5, <2>1
  <2>3. QED
    BY <1>1, <1>2, <1>4, <1>7, <2>1, <2>2
<1>8. QED
  BY <1>6, <1>7

LEMMA PllUpdateType ==
  ASSUME TypeOK, NEW v \in RawCount, as5047p_get_raw_count(v), Observe(v), pll_update(v),
         CountErrors
  PROVE  ShaftTypeOK' /\ PllTypeOK'
<1>1. v \in Int
  BY Sizes DEF RawCount, SENSOR_ERROR
<1>2. DeltaEnc(v) \in Int /\ shadow_count \in Int /\ count_in_cpr \in Int
  BY <1>1, DeltaIs, Sizes DEF TypeOK, PllTypeOK
<1>3. (count_in_cpr + DeltaEnc(v)) % CPR \in Counts
  <2>1. PICK x \in Int : x = count_in_cpr + DeltaEnc(v)
    BY <1>2
  <2>2. x % CPR \in 0 .. CPR - 1
    BY Sizes, DivMod
  <2>3. QED
    BY <2>1, <2>2 DEF Counts
<1>4. errors' \in 0 .. MaxErrors
  BY Sizes DEF CountErrors, TypeOK, PllTypeOK
<1>5. shadow_count' \in Int /\ count_in_cpr' \in Counts
  BY <1>2, <1>3 DEF pll_update
<1>6. QED
  BY <1>4, <1>5, ReadType DEF PllTypeOK

LEMMA InitType == Init => TypeInv
<1> SUFFICES ASSUME Init PROVE TypeInv
  OBVIOUS
<1>1. ShaftTypeOK
  BY Sizes DEF Init, ShaftInit, ShaftTypeOK
<1>2. PllTypeOK
  <2>1. 0 \in 0 .. MaxErrors /\ 0 \in -MaxTurn .. MaxTurn
    BY Sizes
  <2>2. QED
    BY <2>1, Sizes DEF Init, PllInit, PllTypeOK
<1>3. 0 \in 0 .. 2 * T
  BY Sizes
<1>4. /\ field = [uout |-> 0, angle |-> 0] /\ ~settling
      /\ pwm \in [{"a", "b", "c"} -> 0 .. 2 * T]
  BY <1>3 DEF Init
<1>5. field \in [uout : Int, angle : 0 .. ElecRev - 1] /\ field.uout = 0 /\ field.angle = 0
  BY <1>4, Sizes
<1>6. angle_prev \in Counts /\ {zero_electrical_angle, electrical_angle} \subseteq 0 .. ElecRev - 1
  BY Sizes DEF Init
<1>7. /\ encoder_pll \in BOOLEAN /\ sensor_direction \in {-1, 1} /\ mount \in Mounts
      /\ control_type \in {ClosedLoop, OpenLoop}
      /\ commutation \in {"unknown", "aligned", "running"}
  BY DEF Init
<1>8. settling \in BOOLEAN /\ open_loop \in 0 .. 2
  <2>1. settling = FALSE
    BY Zenon DEF Init
  <2>2. open_loop = 0
    BY Zenon DEF Init
  <2>3. settling \in BOOLEAN
    BY <2>1, Zenon
  <2>4. open_loop \in 0 .. 2
    BY <2>2, SMT
  <2>5. QED
    BY <2>3, <2>4
<1>9. QED
  BY <1>1, <1>2, <1>4, <1>5, <1>6, <1>7, <1>8 DEF TypeInv, TypeOK

LEMMA TurnsType ==
  ASSUME TypeInv, NEW d \in {-1, 1}, Turns(d)
  PROVE  TypeInv'
<1>1. ShaftTypeOK'
  <2>1. angle + d \in -1 .. CPR
    BY Sizes DEF TypeInv, TypeOK, ShaftTypeOK, Counts
  <2>2. angle' \in Counts
    BY <2>1, Sizes DEF Turns, Rotate, Counts
  <2>3. QED
    BY <2>2 DEF Turns, Rotate, TypeInv, TypeOK, ShaftTypeOK
<1>2. PllTypeOK'
  BY DEF Turns, pll, history, TypeInv, TypeOK, PllTypeOK
<1>3. QED
  BY <1>1, <1>2 DEF Turns, build, motor, aux, TypeInv, TypeOK

LEMMA ClosedLoopType ==
  ASSUME TypeInv, ClosedLoopStep
  PROVE  TypeInv'
<1>1. TypeOK
  BY DEF TypeInv
<1>2. /\ encoder_pll' \in BOOLEAN /\ sensor_direction' \in {-1, 1} /\ mount' \in Mounts
      /\ control_type' \in {ClosedLoop, OpenLoop}
      /\ zero_electrical_angle' \in 0 .. ElecRev - 1
      /\ settling' \in BOOLEAN /\ open_loop' \in 0 .. 2
  BY <1>1 DEF ClosedLoopStep, build, TypeOK
<1>3. PICK v \in RawCount :
        \/ /\ encoder_pll
           /\ as5047p_get_raw_count(v) /\ Observe(v) /\ pll_update(v) /\ CountErrors
           /\ Commutate(count_in_cpr')
           /\ UNCHANGED angle_prev
        \/ /\ ~encoder_pll
           /\ as5047p_update(v)
           /\ IF v = SENSOR_ERROR
              THEN UNCHANGED <<electrical_angle, pwm, field, commutation>>
              ELSE Commutate(angle_prev')
           /\ UNCHANGED pll
  BY DEF ClosedLoopStep, _exec
<1>4. CASE encoder_pll
  <2>1. ShaftTypeOK' /\ PllTypeOK'
    BY <1>1, <1>3, <1>4, PllUpdateType
  <2>2. PICK count \in Int : count = count_in_cpr' /\ Commutate(count)
    BY <1>3, <1>4, <2>1, Sizes DEF PllTypeOK
  <2>3. QED
    BY <1>1, <1>2, <1>3, <1>4, <2>1, <2>2, CommutateType DEF TypeInv, TypeOK
<1>5. CASE ~encoder_pll
  <2>1. ShaftTypeOK' /\ PllTypeOK'
    <3>1. as5047p_get_raw_count(v) /\ Observe(v) /\ UNCHANGED pll
      BY <1>3, <1>5 DEF as5047p_update
    <3>2. QED
      BY <1>1, <3>1, ReadType DEF pll, TypeOK, PllTypeOK
  <2>2. angle_prev' \in Counts
    BY <1>1, <1>3, <1>5 DEF as5047p_update, RawCount, TypeOK
  <2>3. CASE v = SENSOR_ERROR
    BY <1>1, <1>2, <1>3, <1>5, <2>1, <2>2, <2>3 DEF ClosedLoopStep, TypeInv, TypeOK
  <2>4. CASE v # SENSOR_ERROR
    <3>1. PICK count \in Int : count = angle_prev' /\ Commutate(count)
      BY <1>3, <1>5, <2>2, <2>4, Sizes
    <3>2. QED
      BY <1>1, <1>2, <2>1, <2>2, <3>1, CommutateType DEF TypeInv, TypeOK
  <2>5. QED
    BY <2>3, <2>4
<1>6. QED
  BY <1>4, <1>5

LEMMA OpenLoopType ==
  ASSUME TypeInv, NEW advance \in Advances, OpenLoopStep(advance)
  PROVE  TypeInv'
<1>1. TypeOK
  BY DEF TypeInv
<1>2. motor_shaft_angle + advance + Quarter \in Int /\ FullLevel \in Int
  <2>1. PICK count \in Int : motor_shaft_angle = sensor_direction * count * CountAngle
    BY <1>1, Sizes DEF motor_shaft_angle, TypeOK, PllTypeOK
  <2>2. sensor_direction * count * CountAngle \in Int
    BY <1>1, SensorAngleType, Sizes
  <2>3. QED
    BY <2>1, <2>2, Sizes, MotorAssumption
<1>3. PICK x \in Int : x = motor_shaft_angle + advance + Quarter
  BY <1>2
<1>4. /\ field' \in [uout : Int, angle : 0 .. ElecRev - 1]
      /\ pwm' \in [{"a", "b", "c"} -> 0 .. 2 * T]
      /\ pwm' = PhaseVoltage(field'.uout, field'.angle)
  BY <1>2, <1>3, VoltageType DEF OpenLoopStep
<1>5. ShaftTypeOK' /\ PllTypeOK'
  BY <1>1 DEF OpenLoopStep, shaft, rotor, pll, history, TypeOK, ShaftTypeOK, PllTypeOK
<1>6. QED
  BY <1>1, <1>4, <1>5 DEF OpenLoopStep, build, TypeInv, TypeOK

LEMMA AlignBeginType ==
  ASSUME TypeInv, AlignBegin
  PROVE  TypeInv'
<1>1. TypeOK
  BY DEF TypeInv
<1>2. AlignLevel \in Int /\ 3 * Quarter + Quarter \in Int
  BY Sizes, MotorAssumption
<1>3. /\ field' \in [uout : Int, angle : 0 .. ElecRev - 1]
      /\ pwm' \in [{"a", "b", "c"} -> 0 .. 2 * T]
      /\ pwm' = PhaseVoltage(field'.uout, field'.angle)
  BY <1>2, VoltageType DEF AlignBegin
<1>4. ShaftTypeOK' /\ PllTypeOK'
  BY <1>1 DEF AlignBegin, shaft, rotor, pll, history, TypeOK, ShaftTypeOK, PllTypeOK
<1>5. QED
  BY <1>1, <1>3, <1>4 DEF AlignBegin, build, TypeInv, TypeOK

LEMMA AlignEndType ==
  ASSUME TypeInv, AlignEnd
  PROVE  TypeInv'
<1>1. TypeOK
  BY DEF TypeInv
<1>2. /\ field' \in [uout : Int, angle : 0 .. ElecRev - 1]
      /\ pwm' \in [{"a", "b", "c"} -> 0 .. 2 * T]
      /\ pwm' = PhaseVoltage(field'.uout, field'.angle)
  BY Sizes, VoltageType DEF AlignEnd, AlignWith
<1>3. ShaftTypeOK' /\ PllTypeOK' /\ angle_prev' \in Counts
  <2>1. CASE encoder_pll
    BY <1>1, <2>1 DEF AlignEnd, AlignWith, shaft, rotor, pll, history, TypeOK, ShaftTypeOK,
                      PllTypeOK
  <2>2. CASE ~encoder_pll
    <3>1. PICK v \in RawCount : as5047p_update(v)
      BY <2>2 DEF AlignEnd, AlignWith
    <3>2. UNCHANGED pll
      BY DEF AlignEnd, AlignWith
    <3>3. angle_prev' \in Counts
      BY <1>1, <3>1 DEF as5047p_update, RawCount, TypeOK
    <3>4. QED
      BY <1>1, <3>1, <3>2, <3>3, ReadType DEF as5047p_update, pll, TypeOK, PllTypeOK
  <2>3. QED
    BY <2>1, <2>2
<1>4. zero_electrical_angle' \in 0 .. ElecRev - 1
  <2>1. PICK count \in Int :
          zero_electrical_angle' = _sensor_electrical_angle(count, 0)
    BY <1>1, <1>3, Sizes DEF AlignEnd, AlignWith, TypeOK, PllTypeOK
  <2>2. QED
    BY <1>1, <2>1, SensorAngleType
<1>5. QED
  BY <1>1, <1>2, <1>3, <1>4 DEF AlignEnd, AlignWith, build, TypeInv, TypeOK

LEMMA TypeStep == TypeInv /\ [Next]_vars => TypeInv'
<1> SUFFICES ASSUME TypeInv, [Next]_vars PROVE TypeInv'
  OBVIOUS
<1>1. CASE motor_set_control_type
  <2>1. ShaftTypeOK' /\ PllTypeOK'
    BY <1>1 DEF motor_set_control_type, shaft, rotor, pll, history, TypeInv, TypeOK,
                ShaftTypeOK, PllTypeOK
  <2>2. QED
    BY <1>1, <2>1 DEF motor_set_control_type, build, aux, TypeInv, TypeOK
<1>2. CASE motor_reset
  <2>1. ShaftTypeOK' /\ PllTypeOK'
    BY <1>2 DEF motor_reset, shaft, rotor, pll, history, TypeInv, TypeOK,
                ShaftTypeOK, PllTypeOK
  <2>2. QED
    BY <1>2, <2>1, Sizes DEF motor_reset, build, TypeInv, TypeOK
<1>3. CASE UNCHANGED vars
  <2>1. ShaftTypeOK' /\ PllTypeOK'
    BY <1>3 DEF vars, shaft, rotor, pll, history, TypeInv, TypeOK, ShaftTypeOK, PllTypeOK
  <2>2. QED
    BY <1>3, <2>1 DEF vars, build, motor, aux, TypeInv, TypeOK
<1>4. QED
  BY <1>1, <1>2, <1>3, TurnsType, ClosedLoopType, OpenLoopType, AlignBeginType, AlignEndType
     DEF Next

LEMMA SpecTypeInv == Spec => []TypeInv
BY InitType, TypeStep, PTL DEF Spec

(***************************************************************************)
(* The fields of the motor, of its PLL and of its encoder keep their types:*)
(* every electrical angle is one of a turn, every compare register between *)
(* none and all of the period (motor.c, pll.c, pwmx3.c).                   *)
(***************************************************************************)
THEOREM SpecTypeOK == Spec => []TypeOK
<1>1. TypeInv => TypeOK
  BY DEF TypeInv
<1>2. QED
  BY <1>1, SpecTypeInv, PTL
-------------------------------------------------------------------------------
(***************************************************************************)
(* Whole turns do not matter to WithinCount, nor does its sign.            *)
(***************************************************************************)
LEMMA SameAngle ==
  ASSUME NEW x \in Int, NEW y \in Int, NEW q \in Int, x = y + ElecRev * q
  PROVE  x % ElecRev = y % ElecRev
<1>1. PICK b \in Nat \ {0} : b = ElecRev
  BY Sizes
<1>2. PICK d \in Int, r \in 0 .. b - 1 : r = y % b /\ y = b * d + r
  <2>1. y \div b \in Int /\ y % b \in 0 .. b - 1 /\ y = b * (y \div b) + (y % b)
    BY DivMod
  <2>2. QED
    BY <2>1
<1>3. PICK s \in Int : s = d + q /\ x = b * s + r
  <2>1. b * (d + q) = b * d + b * q /\ d + q \in Int
    BY <1>2
  <2>2. x = y + b * q /\ b * q \in Int /\ b * d \in Int
    BY <1>1, <1>2
  <2>3. QED
    BY <1>2, <2>1, <2>2
<1>4. x % b = r
  <2>1. r \in 0 .. b - 1 /\ x = b * s + r
    BY <1>2, <1>3
  <2>2. QED
    BY <2>1, RemainderIs
<1>5. QED
  BY <1>1, <1>2, <1>4

LEMMA SameWithin ==
  ASSUME NEW x \in Int, NEW y \in Int, NEW q \in Int, x = y + ElecRev * q
  PROVE  WithinCount(x) <=> WithinCount(y)
<1>1. x % ElecRev = y % ElecRev
  BY SameAngle
<1>2. -x = -y + ElecRev * (-q) /\ -x \in Int /\ -y \in Int /\ -q \in Int
  BY Sizes
<1>3. (-x) % ElecRev = (-y) % ElecRev
  BY <1>2, SameAngle
<1>4. QED
  BY <1>1, <1>3 DEF WithinCount

LEMMA TurnsApart ==
  ASSUME NEW x \in Int
  PROVE  \E q \in Int : x % ElecRev = x + ElecRev * q /\ x % ElecRev \in Int
<1>1. PICK b \in Nat \ {0} : b = ElecRev
  BY Sizes
<1>2. PICK d \in Int, r \in 0 .. b - 1 : r = x % b /\ x = b * d + r
  <2>1. x \div b \in Int /\ x % b \in 0 .. b - 1 /\ x = b * (x \div b) + (x % b)
    BY DivMod
  <2>2. QED
    BY <2>1
<1>3. b * (-d) = -(b * d) /\ b * d \in Int /\ -d \in Int
  BY <1>2
<1>4. x % b = x + b * (-d) /\ x % b \in Int
  BY <1>2, <1>3
<1>5. QED
  BY <1>1, <1>3, <1>4

(***************************************************************************)
(* At the same count, the angle of the field's frame and that of the rotor *)
(* differ by what the alignment has missed the mount.                      *)
(***************************************************************************)
LEMMA FramesDiffer ==
  ASSUME NEW x \in Int, NEW zero \in Int, NEW m \in Int
  PROVE  WithinCount(((x - zero) % ElecRev) - ((x - m) % ElecRev)) <=> WithinCount(m - zero)
<1>1. PICK z \in Int, y \in Int : z = x - zero /\ y = x - m
  OBVIOUS
<1>2. PICK q \in Int : z % ElecRev = z + ElecRev * q /\ z % ElecRev \in Int
  BY TurnsApart
<1>3. PICK r \in Int : y % ElecRev = y + ElecRev * r /\ y % ElecRev \in Int
  BY TurnsApart
<1>4. (z % ElecRev) - (y % ElecRev) = (m - zero) + ElecRev * (q - r)
  <2>1. PICK b \in Int : b = ElecRev
    BY Sizes
  <2>2. b * (q - r) = b * q - b * r /\ b * q \in Int /\ b * r \in Int
    BY <1>2, <1>3
  <2>3. QED
    BY <1>1, <1>2, <1>3, <2>1, <2>2
<1>5. PICK v \in Int, w \in Int, k \in Int :
        v = (z % ElecRev) - (y % ElecRev) /\ w = m - zero /\ k = q - r
  BY <1>2, <1>3
<1>6. WithinCount(v) <=> WithinCount(w)
  BY <1>4, <1>5, SameWithin
<1>7. QED
  BY <1>1, <1>5, <1>6

(***************************************************************************)
(* An alignment with a good read leaves the mount in zero_electrical_angle,*)
(* to less than a count: the rotor is that near to angle 0 by then.        *)
(***************************************************************************)
LEMMA AlignFindsMount ==
  ASSUME TypeOK, AlignEnd, commutation' # "unknown"
  PROVE  ~encoder_pll /\ WithinCount(mount - zero_electrical_angle')
<1>1. ~encoder_pll /\ good'
  BY DEF AlignEnd, AlignWith
<1>2. PICK v \in RawCount : as5047p_update(v)
  BY <1>1 DEF AlignEnd, AlignWith
<1>3. v = angle /\ angle_prev' = angle /\ angle \in Int
  <2>1. GoodRead(v)
    BY <1>1, <1>2 DEF as5047p_update, Observe
  <2>2. v = angle /\ angle \in Counts
    BY <2>1 DEF GoodRead, TypeOK, ShaftTypeOK
  <2>3. QED
    BY <1>2, <2>2, Sizes DEF as5047p_update
<1>4. PICK x \in Int : x = sensor_direction * angle * CountAngle
  BY <1>3, SensorAngleType, Sizes
<1>5. mount \in Int
  BY MotorAssumption, Sizes DEF TypeOK
<1>6. WithinCount((x - mount) % ElecRev)
  BY <1>4 DEF AlignEnd, AlignWith, RotorElectrical
<1>7. PICK e \in Int : e = x - mount
  BY <1>5
<1>8. WithinCount(e)
  <2>1. PICK q \in Int : e % ElecRev = e + ElecRev * q /\ e % ElecRev \in Int
    BY TurnsApart
  <2>2. PICK v1 \in Int : v1 = e % ElecRev /\ v1 = e + ElecRev * q
    BY <2>1
  <2>3. WithinCount(v1)
    BY <1>6, <1>7, <2>2
  <2>4. QED
    BY <2>2, <2>3, SameWithin
<1>9. zero_electrical_angle' = x % ElecRev
  <2>1. zero_electrical_angle' = (x - 0) % ElecRev
    BY <1>1, <1>3, <1>4 DEF AlignEnd, AlignWith, _sensor_electrical_angle
  <2>2. x - 0 = x
    OBVIOUS
  <2>3. QED
    BY <2>1, <2>2
<1>10. PICK q \in Int : x % ElecRev = x + ElecRev * q /\ x % ElecRev \in Int
  BY TurnsApart
<1>11. PICK z \in Int : z = zero_electrical_angle' /\ z = x + ElecRev * q
  BY <1>9, <1>10
<1>12. mount - z = -e + ElecRev * (-q)
  <2>1. ElecRev * (-q) = -(ElecRev * q) /\ ElecRev * q \in Int
    BY Sizes
  <2>2. QED
    BY <1>5, <1>7, <1>11, <2>1
<1>13. PICK w \in Int, f \in Int, k \in Int : w = mount - z /\ f = -e /\ k = -q
  BY <1>5
<1>14. WithinCount(f)
  <2>1. -f = e
    BY <1>13
  <2>2. QED
    BY <1>8, <1>13, <2>1 DEF WithinCount
<1>15. WithinCount(w)
  BY <1>12, <1>13, <1>14, SameWithin
<1>16. QED
  BY <1>1, <1>11, <1>13, <1>15

LEMMA AlignInvStep == TypeInv /\ AlignInv /\ [Next]_vars => AlignInv'
<1> SUFFICES ASSUME TypeInv, AlignInv, [Next]_vars PROVE AlignInv'
  OBVIOUS
<1> USE DEF AlignInv, CommutatesWithRotor, RotorElectrical
<1>1. TypeOK
  BY DEF TypeInv
<1>2. CASE \E d \in {-1, 1} : Turns(d)
  BY <1>2 DEF Turns, history, build, motor, aux
<1>3. CASE ClosedLoopStep
  <2>1. PICK v \in RawCount :
          \/ encoder_pll /\ \E count \in {count_in_cpr'} : Commutate(count)
          \/ /\ ~encoder_pll
             /\ as5047p_update(v)
             /\ IF v = SENSOR_ERROR
                THEN UNCHANGED <<electrical_angle, pwm, field, commutation>>
                ELSE Commutate(angle_prev')
    BY <1>3 DEF ClosedLoopStep, _exec
  <2>2. UNCHANGED <<encoder_pll, sensor_direction, mount, zero_electrical_angle>>
    BY <1>3 DEF ClosedLoopStep, build
  <2>3. CASE encoder_pll
    BY <2>1, <2>2, <2>3 DEF Commutate
  <2>4. CASE ~encoder_pll /\ v = SENSOR_ERROR
    <3>1. ~GoodRead(v)
      BY <1>1, <2>4, Sizes DEF GoodRead, TypeOK, ShaftTypeOK
    <3>2. ~good'
      BY <2>1, <2>4, <3>1 DEF as5047p_update, Observe
    <3>3. QED
      BY <2>1, <2>2, <2>4, <3>2
  <2>5. CASE ~encoder_pll /\ v # SENSOR_ERROR
    <3>1. Commutate(angle_prev') /\ Observe(v) /\ angle_prev' = v
      BY <2>1, <2>5 DEF as5047p_update
    <3>2. commutation' # "unknown" => WithinCount(mount' - zero_electrical_angle')
      BY <2>2, <3>1 DEF Commutate
    <3>3. good' => read_angle' = v
      BY <3>1 DEF Observe, GoodRead
    <3>4. electrical_angle' =
            (sensor_direction * v * CountAngle - zero_electrical_angle) % ElecRev
      BY <3>1 DEF Commutate, _sensor_electrical_angle
    <3>5. PICK x \in Int : x = sensor_direction * v * CountAngle
      BY <1>1, <2>5, SensorAngleType, Sizes DEF RawCount
    <3>6. zero_electrical_angle \in Int /\ mount \in Int
      BY <1>1, Sizes, MotorAssumption DEF TypeOK
    <3>7. WithinCount(mount - zero_electrical_angle) =>
            WithinCount(electrical_angle' - ((x - mount) % ElecRev))
      BY <3>4, <3>5, <3>6, FramesDiffer
    <3>8. QED
      BY <2>2, <2>5, <3>2, <3>3, <3>5, <3>7
  <2>6. QED
    BY <2>3, <2>4, <2>5
<1>4. CASE \E advance \in Advances : OpenLoopStep(advance)
  BY <1>4 DEF OpenLoopStep, history, build
<1>5. CASE AlignBegin
  BY <1>5 DEF AlignBegin, history, build
<1>6. CASE AlignEnd
  <2>1. commutation' # "running" /\ UNCHANGED build
    BY <1>6 DEF AlignEnd, AlignWith
  <2>2. QED
    BY <1>1, <1>6, <2>1, AlignFindsMount DEF build
<1>7. CASE motor_set_control_type
  BY <1>7 DEF motor_set_control_type, history, build, aux
<1>8. CASE motor_reset
  BY <1>8 DEF motor_reset
<1>9. CASE UNCHANGED vars
  BY <1>9 DEF vars, history, build, motor, aux
<1>10. QED
  BY <1>2, <1>3, <1>4, <1>5, <1>6, <1>7, <1>8, <1>9 DEF Next

(***************************************************************************)
(* Once the rotor was aligned with a good read, every closed loop step     *)
(* commutates less than a count from the electrical angle the rotor had at *)
(* its last read, for every number of counts and of pole pairs, mount and  *)
(* direction of the encoder and any faults of the bus.                     *)
(***************************************************************************)
THEOREM SpecCommutatesWithRotor == Spec => []CommutatesWithRotor
<1>1. Init => AlignInv
  BY DEF Init, AlignInv, CommutatesWithRotor
<1>2. AlignInv => CommutatesWithRotor
  BY DEF AlignInv
<1>3. QED
  BY <1>1, <1>2, AlignInvStep, SpecTypeInv, PTL DEF Spec
-------------------------------------------------------------------------------
(***************************************************************************)
(* One tick further, the time that one vector loses the other wins: a duty *)
(* changes by twice a tick or not at all, and clipping makes it no more.   *)
(***************************************************************************)
LEMMA DutyMoves ==
  ASSUME NEW sector \in Sectors, NEW t1 \in Int, NEW t2 \in Int, NEW u \in Int,
         NEW p \in {"a", "b", "c"}
  PROVE  Duty2(sector, t1 - u, t2 + u)[p] - Duty2(sector, t1, t2)[p] \in {-(2 * u), 0, 2 * u}
<1> USE SvpwmAssumption
<1>1. CASE sector = 1 BY <1>1 DEF Duty2
<1>2. CASE sector = 2 BY <1>2 DEF Duty2
<1>3. CASE sector = 3 BY <1>3 DEF Duty2
<1>4. CASE sector = 4 BY <1>4 DEF Duty2
<1>5. CASE sector = 5 BY <1>5 DEF Duty2
<1>6. CASE sector = 6 BY <1>6 DEF Duty2
<1>7. QED BY <1>1, <1>2, <1>3, <1>4, <1>5, <1>6 DEF Sectors

LEMMA LimitedMoves ==
  ASSUME NEW x \in Int, NEW y \in Int, NEW u \in Int, y - x \in {-(2 * u), 0, 2 * u}
  PROVE  Size(Limited(y, 0, 2 * T) - Limited(x, 0, 2 * T)) <= 2 * Size(u)
BY SvpwmAssumption DEF Size, Limited

(***************************************************************************)
(* PhaseVoltage by sector and ticks into the sector, of which the last is  *)
(* the first of the sector that follows.                                   *)
(***************************************************************************)
After(x) == IF x + 1 = ElecRev THEN 0 ELSE x + 1

LEMMA VoltageBySector ==
  ASSUME NEW u \in Int, NEW sector \in Sectors, NEW r \in 0 .. S - 1
  PROVE  PhaseVoltage(u, S * (sector - 1) + r) =
           pwmx3_driver_set_pwm(Duty2(sector, (S - r) * u, r * u))
<1>1. sector \in Int /\ S \in Nat \ {0} /\ r \in Int
  BY Sizes DEF Sectors
<1>2. PICK q \in Int : q = sector - 1
  BY <1>1
<1>3. PICK x \in Int : x = S * q + r
  BY <1>1
<1>4. x \div S = q /\ x \div S + 1 = sector
  BY <1>1, <1>2, <1>3, RemainderIs
<1>5. sector * S = S * q + S /\ (sector - 1) * S = S * q
  BY <1>1, <1>2
<1>6. sector * S - x = S - r /\ x - (sector - 1) * S = r
  BY <1>1, <1>3, <1>5
<1>7. PhaseVoltage(u, x) = pwmx3_driver_set_pwm(Duty2(sector, (S - r) * u, r * u))
  BY <1>4, <1>6 DEF PhaseVoltage
<1>8. QED
  BY <1>2, <1>3, <1>7

LEMMA VoltageAfter ==
  ASSUME NEW u \in Int, NEW sector \in Sectors, NEW r \in 0 .. S - 1
  PROVE  PhaseVoltage(u, After(S * (sector - 1) + r)) =
           pwmx3_driver_set_pwm(Duty2(sector, (S - r) * u - u, r * u + u))
<1>1. sector \in 1 .. 6 /\ S \in Nat \ {0} /\ r \in Int /\ ElecRev = 6 * S
  BY Sizes DEF Sectors
<1>2. (S - r) * u - u = (S - (r + 1)) * u /\ r * u + u = (r + 1) * u
  BY <1>1
<1>3. CASE r + 1 < S
  <2>1. PICK m \in Int : m = S * (sector - 1)
    BY <1>1
  <2>2. m + r + 1 < ElecRev
    <3>1. m <= 5 * S
      BY <1>1, <2>1
    <3>2. QED
      BY <1>1, <1>3, <3>1
  <2>3. After(S * (sector - 1) + r) = S * (sector - 1) + (r + 1)
    BY <1>1, <2>1, <2>2 DEF After
  <2>4. r + 1 \in 0 .. S - 1
    BY <1>1, <1>3
  <2>5. QED
    BY <1>2, <2>3, <2>4, VoltageBySector
<1>4. CASE r + 1 = S
  <2>1. Ahead(sector, 1) \in Sectors /\ 0 \in 0 .. S - 1
    BY <1>1 DEF Ahead, Sectors
  <2>2. After(S * (sector - 1) + r) = S * (Ahead(sector, 1) - 1) + 0
    <3>1. CASE sector = 6
      <4>1. PICK m \in Int : m = S * (sector - 1)
        BY <1>1
      <4>2. m = 5 * S
        BY <1>1, <3>1, <4>1
      <4>3. Ahead(sector, 1) = 1 /\ S * (1 - 1) + 0 = 0
        BY <1>1, <3>1 DEF Ahead
      <4>4. After(m + r) = 0
        BY <1>1, <1>4, <4>2 DEF After
      <4>5. After(S * (sector - 1) + r) = S * (1 - 1) + 0
        BY <4>1, <4>3, <4>4
      <4>6. QED
        BY <4>3, <4>5
    <3>2. CASE sector < 6
      <4>1. PICK m \in Int : m = S * (sector - 1)
        BY <1>1
      <4>2. S * sector = m + S /\ m <= 4 * S
        BY <1>1, <3>2, <4>1
      <4>3. Ahead(sector, 1) - 1 = sector
        BY <1>1, <3>2 DEF Ahead
      <4>4. After(m + r) = m + S
        BY <1>1, <1>4, <4>2 DEF After
      <4>5. S * (Ahead(sector, 1) - 1) + 0 = m + S
        <5>1. S * sector + 0 = m + S
          BY <1>1, <4>1, <4>2
        <5>2. QED
          BY <4>3, <5>1
      <4>6. QED
        BY <4>1, <4>4, <4>5
    <3>3. QED
      BY <1>1, <3>1, <3>2
  <2>3. PhaseVoltage(u, After(S * (sector - 1) + r)) =
          pwmx3_driver_set_pwm(Duty2(Ahead(sector, 1), (S - 0) * u, 0 * u))
    BY <2>1, <2>2, VoltageBySector
  <2>4. (S - 0) * u = S * u /\ 0 * u = 0 /\ S * u \in Int
        /\ (S - (r + 1)) * u = 0 /\ (r + 1) * u = S * u
    BY <1>1, <1>4
  <2>5. Duty2(sector, 0, S * u) = Duty2(Ahead(sector, 1), S * u, 0)
    BY <2>4, NoJumpBetweenSectors
  <2>6. QED
    BY <1>2, <2>3, <2>4, <2>5
<1>5. QED
  BY <1>1, <1>3, <1>4

LEMMA OneTick ==
  ASSUME NEW u \in Int, NEW x \in 0 .. ElecRev - 1, NEW p \in {"a", "b", "c"}
  PROVE  Size(PhaseVoltage(u, After(x))[p] - PhaseVoltage(u, x)[p]) <= 2 * Size(u)
<1>1. S \in Nat \ {0} /\ ElecRev = 6 * S /\ x \in Int
  BY Sizes
<1>2. /\ x \div S \in Int /\ x % S \in 0 .. S - 1
      /\ x = S * (x \div S) + (x % S)
  BY <1>1, DivMod
<1>3. PICK r \in 0 .. S - 1 : r = x % S
  BY <1>2
<1>4. PICK q \in Int : q = x \div S
  BY <1>2
<1>5. x = S * q + r /\ S * q \in Int
  BY <1>1, <1>2, <1>3, <1>4
<1>6. q + 1 \in Sectors
  <2>1. S * q < 6 * S /\ -S < S * q
    BY <1>1, <1>5
  <2>2. ASSUME q >= 6 PROVE FALSE
    <3>1. S * q >= S * 6
      BY <1>1, <2>2
    <3>2. QED
      BY <1>1, <2>1, <3>1
  <2>3. ASSUME q <= -1 PROVE FALSE
    <3>1. S * q <= -S
      BY <1>1, <2>3
    <3>2. QED
      BY <1>1, <2>1, <3>1
  <2>4. QED
    BY <2>2, <2>3 DEF Sectors
<1>7. PICK sector \in Sectors : sector = q + 1 /\ x = S * (sector - 1) + r
  BY <1>5, <1>6
<1>8. PICK t1 \in Int : t1 = (S - r) * u
  BY <1>1
<1>9. PICK t2 \in Int : t2 = r * u
  BY <1>1
<1>10. /\ PhaseVoltage(u, x)[p] = Limited(Duty2(sector, t1, t2)[p], 0, 2 * T)
       /\ PhaseVoltage(u, After(x))[p] = Limited(Duty2(sector, t1 - u, t2 + u)[p], 0, 2 * T)
  <2>1. /\ PhaseVoltage(u, x) = pwmx3_driver_set_pwm(Duty2(sector, t1, t2))
        /\ PhaseVoltage(u, After(x)) = pwmx3_driver_set_pwm(Duty2(sector, t1 - u, t2 + u))
    BY <1>7, <1>8, <1>9, VoltageBySector, VoltageAfter
  <2>2. \A d : pwmx3_driver_set_pwm(d)[p] = Limited(d[p], 0, 2 * T)
    BY DEF pwmx3_driver_set_pwm
  <2>3. QED
    BY <2>1, <2>2
<1>11. sector \in Int /\ t1 - u \in Int /\ t2 + u \in Int
  BY <1>7
<1>12. Duty2(sector, t1, t2)[p] \in Int /\ Duty2(sector, t1 - u, t2 + u)[p] \in Int
  <2>1. \A v1 \in Int, v2 \in Int : Duty2(sector, v1, v2)[p] \in Int
    BY <1>11, DutyType
  <2>2. QED
    BY <1>11, <2>1
<1>13. QED
  BY <1>10, <1>12, DutyMoves, LimitedMoves

LEMMA FieldMoves ==
  ASSUME TypeInv, [Next]_vars, field' # field, field'.uout = field.uout
  PROVE  /\ pwm = PhaseVoltage(field.uout, field.angle)
         /\ pwm' = PhaseVoltage(field'.uout, field'.angle)
<1>1. TypeInv'
  BY TypeStep
<1>2. CASE AlignEnd
  BY <1>2, Sizes, VoltageType DEF AlignEnd, AlignWith, TypeInv
<1>3. CASE field'.uout # 0
  BY <1>1, <1>3 DEF TypeInv
<1>4. Levels \subseteq Nat \ {0} /\ FullLevel \in Nat \ {0} /\ AlignLevel \in Nat \ {0}
  BY MotorAssumption
<1>5. CASE ClosedLoopStep
  <2>1. PICK dq \in DqVoltages : field'.uout = dq.uout
    BY <1>5 DEF ClosedLoopStep, _exec, Commutate, motor_set_phase_voltage
  <2>2. dq.uout # 0
    BY <1>4 DEF DqVoltages
  <2>3. QED
    BY <1>3, <2>1, <2>2
<1>6. CASE \E advance \in Advances : OpenLoopStep(advance)
  BY <1>3, <1>4, <1>6 DEF OpenLoopStep, motor_set_phase_voltage
<1>7. CASE AlignBegin
  BY <1>3, <1>4, <1>7 DEF AlignBegin, motor_set_phase_voltage
<1>8. QED
  BY <1>2, <1>5, <1>6, <1>7
     DEF Next, Turns, motor, motor_set_control_type, motor_reset, vars

(***************************************************************************)
(* The field turns without a jump: at the same voltage and one tick away,  *)
(* no phase changes by more than a tick's worth of time, for every length  *)
(* of the sectors and of the period, whatever the compare registers clip.  *)
(***************************************************************************)
THEOREM SpecSmoothField == Spec => SmoothField
<1>1. TypeInv /\ [Next]_vars =>
        [(/\ field'.uout = field.uout
          /\ (field'.angle - field.angle) % ElecRev \in {1, ElecRev - 1})
         => \A p \in {"a", "b", "c"} :
              Size(pwm'[p] - pwm[p]) <= 2 * Size(field.uout)]_vars
  <2> SUFFICES ASSUME TypeInv, [Next]_vars, field'.uout = field.uout,
                      (field'.angle - field.angle) % ElecRev \in {1, ElecRev - 1},
                      NEW p \in {"a", "b", "c"}
               PROVE  Size(pwm'[p] - pwm[p]) <= 2 * Size(field.uout)
    OBVIOUS
  <2>1. TypeInv'
    BY TypeStep
  <2>2. PICK u \in Int : u = field.uout
    BY DEF TypeInv
  <2>3. PICK x \in 0 .. ElecRev - 1 : x = field.angle
    BY DEF TypeInv
  <2>4. PICK y \in 0 .. ElecRev - 1 : y = field'.angle
    BY <2>1 DEF TypeInv
  <2>5. ElecRev \in Nat /\ ElecRev >= 6 /\ x \in Int /\ y \in Int
    BY Sizes
  <2>6. y = After(x) \/ x = After(y)
    <3>1. PICK d \in Int : d = y - x
      BY <2>5
    <3>2. PICK m \in 0 .. ElecRev - 1 : m = d % ElecRev /\ m \in {1, ElecRev - 1}
      BY <2>3, <2>4, <2>5, <3>1, DivMod
    <3>3. CASE d >= 0
      <4>1. d = ElecRev * 0 + d /\ d \in 0 .. ElecRev - 1
        BY <2>5, <3>1, <3>3
      <4>2. m = d
        BY <2>5, <3>2, <4>1, RemainderIs
      <4>3. QED
        BY <2>5, <3>1, <3>2, <4>2 DEF After
    <3>4. CASE d < 0
      <4>1. d = ElecRev * (-1) + (d + ElecRev) /\ d + ElecRev \in 0 .. ElecRev - 1
        BY <2>5, <3>1, <3>4
      <4>2. m = d + ElecRev
        BY <2>5, <3>2, <4>1, RemainderIs
      <4>3. QED
        BY <2>5, <3>1, <3>2, <4>2 DEF After
    <3>5. QED
      BY <3>3, <3>4
  <2>7. x # y
    BY <2>5, <2>6 DEF After
  <2>8. pwm = PhaseVoltage(u, x) /\ pwm' = PhaseVoltage(u, y)
    BY <2>2, <2>3, <2>4, <2>7, FieldMoves
  <2>9. \A at \in 0 .. ElecRev - 1 : PhaseVoltage(u, at)[p] \in Int
    <3>1. 0 .. 2 * T \subseteq Int
      BY Sizes
    <3>2. QED
      BY <3>1, PhaseVoltageType
  <2>10. PICK v \in Int : v = PhaseVoltage(u, x)[p]
    BY <2>9
  <2>11. PICK w \in Int : w = PhaseVoltage(u, y)[p]
    BY <2>9
  <2>12. Size(w - v) <= 2 * Size(u) \/ Size(v - w) <= 2 * Size(u)
    BY <2>6, <2>10, <2>11, OneTick
  <2>13. Size(w - v) = Size(v - w)
    BY DEF Size
  <2>14. QED
    BY <2>2, <2>8, <2>10, <2>11, <2>12, <2>13
<1>2. QED
  BY <1>1, SpecTypeInv, PTL DEF Spec, SmoothField
-------------------------------------------------------------------------------
LEMMA Cancel ==
  ASSUME NEW x \in Int, NEW y \in Int, CPR * x < CPR * y
  PROVE  x < y
<1>1. CPR \in Nat /\ CPR * x \in Int /\ CPR * y \in Int
  BY Sizes
<1>2. ASSUME y <= x PROVE FALSE
  <2>1. x - y \in Nat
    BY <1>2
  <2>2. CPR * (x - y) \in Nat
    BY <1>1, <2>1
  <2>3. CPR * (x - y) = CPR * x - CPR * y
    BY <1>1
  <2>4. QED
    BY <1>1, <2>2, <2>3
<1>3. QED
  BY <1>2

(***************************************************************************)
(* Whole turns that are less than (m + 2) half turns are m turns at most.  *)
(***************************************************************************)
LEMMA WholeTurns ==
  ASSUME NEW m \in Nat, NEW j \in Int, 2 * (CPR * j) < CPR * m + 2 * CPR
  PROVE  j <= m
<1>1. CPR \in Nat \ {0}
  BY Sizes
<1>2. CPR * (2 * j) = 2 * (CPR * j) /\ CPR * (m + 2) = CPR * m + 2 * CPR
  BY <1>1
<1>3. 2 * j < m + 2
  BY <1>2, Cancel
<1>4. QED
  BY <1>3

LEMMA WholeTurnsBack ==
  ASSUME NEW m \in Nat, NEW j \in Int, -(CPR * m) - 4 * CPR < 2 * (CPR * j)
  PROVE  -(m + 1) <= j
<1>1. CPR \in Nat \ {0}
  BY Sizes
<1>2. CPR * (2 * j) = 2 * (CPR * j) /\ CPR * (-m - 4) = -(CPR * m) - 4 * CPR
  BY <1>1
<1>3. -m - 4 < 2 * j
  BY <1>2, Cancel
<1>4. QED
  BY <1>3

(***************************************************************************)
(* What has turned since the last good read, or since the boot.            *)
(***************************************************************************)
LEMMA PllUnmoved ==
  ASSUME PllInv, UNCHANGED <<turn, angle, travel, pll, history, encoder_pll>>
  PROVE  PllInv'
BY DEF PllInv, SinceBoot, SinceGood, Position, ReadPosition, pll, history

LEMMA PllTurns ==
  ASSUME TypeOK, PllInv, NEW d \in {-1, 1}, Turns(d)
  PROVE  PllInv'
<1>1. travel' = travel + d /\ UNCHANGED <<pll, history, encoder_pll>>
  BY DEF Turns, Rotate, build
<1>2. turn \in Int /\ angle \in 0 .. CPR - 1 /\ CPR \in Nat \ {0} /\ travel \in Int
      /\ MaxTurn \in Nat
  BY Sizes DEF TypeOK, ShaftTypeOK, Counts
<1>3. Position' = Position + d /\ Position \in Int
  <2>1. PICK p \in Int : p = CPR * turn
    BY <1>2
  <2>2. CPR * (turn + 1) = p + CPR /\ CPR * (turn - 1) = p - CPR
    BY <1>2, <2>1
  <2>3. /\ turn' = turn + (IF angle + d = CPR THEN 1 ELSE IF angle + d < 0 THEN -1 ELSE 0)
        /\ angle' = IF angle + d = CPR THEN 0 ELSE IF angle + d < 0 THEN CPR - 1 ELSE angle + d
    BY DEF Turns, Rotate
  <2>4. CASE angle + d = CPR
    <3>1. turn' = turn + 1 /\ angle' = 0
      BY <2>3, <2>4
    <3>2. CPR * turn' = p + CPR
      BY <2>2, <3>1
    <3>3. QED
      BY <1>2, <2>1, <2>4, <3>1, <3>2 DEF Position
  <2>5. CASE angle + d < 0
    <3>1. turn' = turn - 1 /\ angle' = CPR - 1
      BY <1>2, <2>3, <2>5
    <3>2. CPR * turn' = p - CPR
      BY <2>2, <3>1
    <3>3. d = -1 /\ angle = 0
      BY <1>2, <2>5
    <3>4. QED
      BY <1>2, <2>1, <3>1, <3>2, <3>3 DEF Position
  <2>6. CASE angle + d # CPR /\ ~(angle + d < 0)
    <3>1. turn' = turn /\ angle' = angle + d
      BY <1>2, <2>3, <2>6
    <3>2. CPR * turn' = p
      BY <2>1, <3>1
    <3>3. QED
      BY <1>2, <2>1, <3>1, <3>2 DEF Position
  <2>7. QED
    BY <2>4, <2>5, <2>6
<1>4. ReadPosition' = ReadPosition /\ ReadPosition \in Int
  <2>1. read_angle \in Int /\ read_turn \in Int
    BY Sizes DEF TypeOK, PllTypeOK
  <2>2. QED
    BY <1>1, <1>2, <2>1 DEF ReadPosition, history
<1>5. \A m \in 0 .. errors : \A k \in Int : SinceGood(m, k) => SinceGood(m, k)'
  <2> SUFFICES ASSUME NEW m \in 0 .. errors, NEW k \in Int, SinceGood(m, k)
               PROVE  SinceGood(m, k)'
    OBVIOUS
  <2>1. Position' = ReadPosition' + travel'
    BY <1>1, <1>2, <1>3, <1>4 DEF SinceGood
  <2>2. QED
    BY <1>1, <1>4, <2>1 DEF SinceGood, pll
<1>6. SinceBoot => SinceBoot'
  <2> SUFFICES ASSUME SinceBoot PROVE SinceBoot'
    OBVIOUS
  <2>1. PICK a \in Counts : Position = a + travel
    BY DEF SinceBoot
  <2>2. a \in Int
    BY <2>1, Sizes
  <2>3. Position' = a + travel'
    BY <1>1, <1>2, <1>3, <2>1, <2>2
  <2>4. QED
    BY <1>1, <2>3 DEF SinceBoot, pll, history
<1>7. QED
  BY <1>1, <1>5, <1>6 DEF PllInv, pll, history

LEMMA PllCounts ==
  ASSUME TypeOK, NEW v \in RawCount, pll_update(v),
         \E n \in Int : shadow_count = count_in_cpr + CPR * n
  PROVE  /\ \E delta \in Int : /\ shadow_count' = shadow_count + delta
                               /\ -CPR < 2 * delta /\ 2 * delta <= CPR
         /\ \E n \in Int : shadow_count' = count_in_cpr' + CPR * n
         /\ v \in Counts => count_in_cpr' = v
         /\ shadow_count \in Int /\ count_in_cpr' \in Counts
<1>1. /\ CPR \in Nat \ {0} /\ v \in Int /\ count_in_cpr \in Int /\ shadow_count \in Int
      /\ count_in_cpr \in Counts
  BY Sizes DEF RawCount, SENSOR_ERROR, TypeOK, PllTypeOK
<1>2. PICK delta \in Int : delta = DeltaEnc(v)
  BY <1>1, DeltaIs
<1>3. -CPR < 2 * delta /\ 2 * delta <= CPR
  BY <1>1, <1>2, DeltaIs
<1>4. PICK q \in Int : count_in_cpr + delta = v + CPR * q
  BY <1>1, <1>2, DeltaIs
<1>5. PICK n \in Int : shadow_count = count_in_cpr + CPR * n
  OBVIOUS
<1>6. PICK x \in Int : x = count_in_cpr + delta
  BY <1>1
<1>7. shadow_count' = shadow_count + delta /\ count_in_cpr' = x % CPR
  BY <1>2, <1>6 DEF pll_update
<1>8. x \div CPR \in Int /\ x % CPR \in 0 .. CPR - 1 /\ x = CPR * (x \div CPR) + (x % CPR)
  BY <1>1, DivMod
<1>9. PICK r \in Int : r = x \div CPR
  BY <1>8
<1>10. PICK c \in 0 .. CPR - 1 : c = count_in_cpr'
  BY <1>7, <1>8
<1>11. x = CPR * r + c
  BY <1>7, <1>8, <1>9, <1>10
<1>12. shadow_count' = c + CPR * (n + r)
  <2>1. CPR * (n + r) = CPR * n + CPR * r /\ CPR * n \in Int /\ CPR * r \in Int
    BY <1>1
  <2>2. QED
    BY <1>1, <1>5, <1>6, <1>7, <1>11, <2>1
<1>13. ASSUME v \in Counts PROVE c = v
  <2>1. x = CPR * q + v /\ v \in 0 .. CPR - 1
    BY <1>1, <1>4, <1>6, <1>13 DEF Counts
  <2>2. QED
    BY <1>1, <1>7, <1>10, <2>1, RemainderIs
<1>14. n + r \in Int /\ shadow_count' = count_in_cpr' + CPR * (n + r)
  BY <1>10, <1>12
<1>15. \E z \in Int : shadow_count' = count_in_cpr' + CPR * z
  BY <1>14
<1>16. QED
  BY <1>1, <1>3, <1>7, <1>10, <1>13, <1>15 DEF Counts

(***************************************************************************)
(* A value from no good read takes the PLL half a turn off at most.        *)
(***************************************************************************)
LEMMA HalfTurnMore ==
  ASSUME NEW x \in Int, NEW m \in Nat, NEW delta \in Int, HalfTurns(x, m),
         -CPR < 2 * delta, 2 * delta <= CPR
  PROVE  HalfTurns(x + delta, m + 1)
<1>1. CPR \in Nat
  BY Sizes
<1>2. PICK p \in Int : p = m * CPR
  BY <1>1
<1>3. (m + 1) * CPR = p + CPR
  BY <1>1, <1>2
<1>4. QED
  BY <1>1, <1>2, <1>3 DEF HalfTurns

LEMMA PllBadRead ==
  ASSUME TypeOK, PllInv, encoder_pll, NEW v \in RawCount, as5047p_get_raw_count(v),
         Observe(v), pll_update(v), CountErrors, ~GoodRead(v)
  PROVE  PllInv'
<1>1. good' = FALSE /\ UNCHANGED <<read_turn, read_angle>>
  BY DEF Observe
<1>2. UNCHANGED <<turn, angle, travel>>
  BY DEF as5047p_get_raw_count, FlaggedRead, FailedTransfer, shaft, rotor
<1>3. errors \in Nat /\ errors' = errors + 1
  BY <1>1, Sizes DEF CountErrors, TypeOK, PllTypeOK
<1>4. PICK delta \in Int : /\ shadow_count' = shadow_count + delta
                           /\ -CPR < 2 * delta /\ 2 * delta <= CPR
  BY PllCounts DEF PllInv
<1>5. /\ \E n \in Int : shadow_count' = count_in_cpr' + CPR * n
      /\ shadow_count \in Int
  BY PllCounts DEF PllInv
<1>6. CASE SinceBoot
  <2>1. HalfTurns(shadow_count', errors')
    BY <1>3, <1>4, <1>5, <1>6, HalfTurnMore DEF SinceBoot
  <2>2. SinceBoot'
    BY <1>1, <1>2, <1>6, <2>1 DEF SinceBoot, Position
  <2>3. QED
    BY <1>1, <1>5, <2>2 DEF PllInv
<1>7. CASE \E m \in 0 .. errors : \E k \in Int : SinceGood(m, k)
  <2>1. PICK m \in 0 .. errors : \E k \in Int : SinceGood(m, k)
    BY <1>7
  <2>2. PICK k \in Int : SinceGood(m, k)
    BY <2>1
  <2>3. ReadPosition' = ReadPosition /\ ReadPosition \in Int /\ CPR * k \in Int
    <3>1. read_angle \in Int /\ read_turn \in Int /\ CPR \in Int
      BY Sizes DEF TypeOK, PllTypeOK
    <3>2. QED
      BY <1>1, <3>1 DEF ReadPosition
  <2>4. PICK x \in Int : x = shadow_count - ReadPosition - CPR * k
    BY <1>5, <2>3
  <2>5. HalfTurns(x + delta, m + 1)
    BY <1>4, <2>1, <2>2, <2>4, HalfTurnMore DEF SinceGood
  <2>6. shadow_count' - ReadPosition' - CPR * k = x + delta
    BY <1>4, <1>5, <2>3, <2>4
  <2>7. Position' = ReadPosition' + travel'
    BY <1>2, <2>2, <2>3 DEF SinceGood, Position
  <2>8. m + 1 \in 0 .. errors' /\ k \in -(1 + errors' - (m + 1)) .. errors' - (m + 1)
    BY <1>3, <2>1, <2>2 DEF SinceGood
  <2>9. SinceGood(m + 1, k)'
    BY <2>5, <2>6, <2>7, <2>8 DEF SinceGood
  <2>10. \E m1 \in 0 .. errors' : \E k1 \in Int : SinceGood(m1, k1)'
    BY <2>8, <2>9
  <2>11. QED
    BY <1>1, <1>5, <2>10 DEF PllInv
<1>8. QED
  BY <1>6, <1>7 DEF PllInv

(***************************************************************************)
(* At a good read the PLL knows the angle again, and its half turns have   *)
(* become whole ones.                                                      *)
(***************************************************************************)
LEMMA PllGoodRead ==
  ASSUME SlowShaft, TypeOK, PllInv, encoder_pll, NEW v \in RawCount, Observe(v),
         pll_update(v), CountErrors, GoodRead(v)
  PROVE  PllInv'
<1>1. good' = TRUE /\ read_turn' = turn /\ read_angle' = angle
  BY DEF Observe
<1>2. v = angle /\ travel' = 0 /\ UNCHANGED <<turn, angle>>
  BY DEF GoodRead, rotor
<1>3. errors \in Nat /\ errors' = errors
  BY <1>1, Sizes DEF CountErrors, TypeOK, PllTypeOK
<1>4. /\ CPR \in Nat \ {0} /\ 2 * MaxTravel < CPR /\ MaxTravel \in Nat
      /\ travel \in -MaxTravel .. MaxTravel /\ turn \in Int
      /\ angle \in 0 .. CPR - 1 /\ angle \in Counts
      /\ read_turn \in Int /\ read_angle \in Int
  BY Sizes DEF SlowShaft, TypeOK, ShaftTypeOK, PllTypeOK, Counts
<1>5. PICK delta \in Int : /\ shadow_count' = shadow_count + delta
                           /\ -CPR < 2 * delta /\ 2 * delta <= CPR
  BY PllCounts DEF PllInv
<1>6. count_in_cpr' = angle
  BY <1>2, <1>4, PllCounts DEF PllInv
<1>7. PICK n \in Int : shadow_count' = angle + CPR * n
  BY <1>6, PllCounts DEF PllInv
<1>8. shadow_count \in Int
  BY PllCounts DEF PllInv
<1>9. PICK p \in Int : p = angle + CPR * turn
  BY <1>4
<1>10. Position = p /\ Position' = p /\ ReadPosition' = p
  BY <1>1, <1>2, <1>9 DEF Position, ReadPosition
<1>11. PICK k \in Int : k = n - turn
  BY <1>4
<1>12. CPR * k \in Int /\ shadow_count' = p + CPR * k
  <2>1. CPR * k = CPR * n - CPR * turn /\ CPR * n \in Int /\ CPR * turn \in Int
    BY <1>4, <1>11
  <2>2. QED
    BY <1>4, <1>7, <1>9, <2>1
<1>13. k \in -(1 + errors) .. errors
  <2>1. CASE SinceBoot
    <3>1. PICK a \in 0 .. CPR - 1 : p = a + travel
      BY <1>10, <2>1 DEF SinceBoot, Counts
    <3>2. PICK e \in Int : e = CPR * errors
      BY <1>3, <1>4
    <3>3. -e <= 2 * shadow_count /\ 2 * shadow_count <= e
      <4>1. errors * CPR = e
        BY <1>3, <1>4, <3>2
      <4>2. QED
        BY <2>1, <4>1 DEF SinceBoot, HalfTurns
    <3>4. PICK t \in Int : t = CPR * k
      BY <1>12
    <3>5. t = shadow_count + delta - a - travel
      BY <1>4, <1>5, <1>8, <1>9, <1>12, <3>1, <3>4
    <3>6. 2 * t < e + 2 * CPR /\ -e - 4 * CPR < 2 * t
      BY <1>4, <1>5, <1>8, <3>1, <3>3, <3>5
    <3>7. k <= errors /\ -(errors + 1) <= k
      BY <1>3, <3>2, <3>4, <3>6, WholeTurns, WholeTurnsBack
    <3>8. QED
      BY <1>3, <3>7
  <2>2. CASE \E m \in 0 .. errors : \E k0 \in Int : SinceGood(m, k0)
    <3>1. PICK m \in 0 .. errors : \E k0 \in Int : SinceGood(m, k0)
      BY <2>2
    <3>2. PICK k0 \in Int : SinceGood(m, k0)
      BY <3>1
    <3>3. m \in Nat /\ k0 \in -(1 + errors - m) .. errors - m
      BY <1>3, <3>2 DEF SinceGood
    <3>4. PICK g \in Int : g = ReadPosition
      BY <1>4 DEF ReadPosition
    <3>5. p = g + travel
      BY <1>10, <3>2, <3>4 DEF SinceGood
    <3>6. PICK e \in Int : e = CPR * m
      BY <1>4, <3>3
    <3>7. PICK t0 \in Int : t0 = CPR * k0
      BY <1>4
    <3>8. -e <= 2 * (shadow_count - g - t0) /\ 2 * (shadow_count - g - t0) <= e
      <4>1. m * CPR = e
        BY <1>4, <3>3, <3>6
      <4>2. HalfTurns(shadow_count - ReadPosition - CPR * k0, m)
        BY <3>2 DEF SinceGood
      <4>3. HalfTurns(shadow_count - g - t0, m)
        BY <3>4, <3>7, <4>2
      <4>4. QED
        BY <4>1, <4>3 DEF HalfTurns
    <3>9. PICK t \in Int : t = CPR * k
      BY <1>12
    <3>10. t - t0 = (shadow_count - g - t0) + delta - travel
      BY <1>4, <1>5, <1>8, <1>9, <1>12, <3>4, <3>5, <3>7, <3>9
    <3>11. 2 * (t - t0) < e + 2 * CPR /\ 2 * (t0 - t) < e + 2 * CPR
      BY <1>4, <1>5, <1>8, <3>4, <3>7, <3>8, <3>9, <3>10
    <3>12. CPR * (k - k0) = t - t0 /\ CPR * (k0 - k) = t0 - t
      BY <1>4, <3>7, <3>9
    <3>13. k - k0 <= m /\ k0 - k <= m
      <4>1. k - k0 \in Int /\ k0 - k \in Int
        OBVIOUS
      <4>2. QED
        BY <3>3, <3>6, <3>11, <3>12, <4>1, WholeTurns
    <3>14. QED
      BY <1>3, <3>3, <3>13
  <2>3. QED
    BY <2>1, <2>2 DEF PllInv
<1>14. SinceGood(0, k)'
  <2>1. HalfTurns(shadow_count' - ReadPosition' - CPR * k, 0)
    <3>1. shadow_count' - p - CPR * k = 0
      BY <1>9, <1>12
    <3>2. 0 * CPR = 0
      BY <1>4
    <3>3. QED
      BY <1>10, <3>1, <3>2 DEF HalfTurns
  <2>2. k \in -(1 + errors' - 0) .. errors' - 0
    BY <1>3, <1>13
  <2>3. Position' = ReadPosition' + travel'
    BY <1>2, <1>9, <1>10
  <2>4. QED
    BY <2>1, <2>2, <2>3 DEF SinceGood
<1>15. \E m \in 0 .. errors' : \E z \in Int : SinceGood(m, z)' /\ m = 0
  <2>1. 0 \in 0 .. errors'
    BY <1>3
  <2>2. QED
    BY <1>14, <2>1
<1>16. \E z \in Int : shadow_count' = count_in_cpr' + CPR * z
  BY PllCounts DEF PllInv
<1>17. QED
  BY <1>1, <1>6, <1>15, <1>16 DEF PllInv

LEMMA PllInvStep ==
  ASSUME SlowShaft, TypeInv, PllInv, [Next]_vars
  PROVE  PllInv'
<1>1. TypeOK
  BY DEF TypeInv
<1>2. CASE \E d \in {-1, 1} : Turns(d)
  BY <1>1, <1>2, PllTurns
<1>3. CASE ClosedLoopStep
  <2>1. PICK v \in RawCount :
          \/ /\ encoder_pll
             /\ as5047p_get_raw_count(v) /\ Observe(v) /\ pll_update(v) /\ CountErrors
          \/ ~encoder_pll
    BY <1>3 DEF ClosedLoopStep, _exec
  <2>2. encoder_pll' = encoder_pll
    BY <1>3 DEF ClosedLoopStep, build
  <2>3. CASE ~encoder_pll
    BY <2>2, <2>3 DEF PllInv
  <2>4. CASE encoder_pll
    BY <1>1, <2>1, <2>4, PllGoodRead, PllBadRead
  <2>5. QED
    BY <2>3, <2>4
<1>4. CASE AlignEnd
  <2>1. CASE ~encoder_pll
    BY <1>4, <2>1 DEF AlignEnd, AlignWith, build, PllInv
  <2>2. CASE encoder_pll
    BY <1>4, <2>2, PllUnmoved DEF AlignEnd, AlignWith, shaft, rotor, build
  <2>3. QED
    BY <2>1, <2>2
<1>5. CASE \E advance \in Advances : OpenLoopStep(advance)
  BY <1>5, PllUnmoved DEF OpenLoopStep, shaft, rotor, build
<1>6. CASE AlignBegin
  BY <1>6, PllUnmoved DEF AlignBegin, shaft, rotor, build
<1>7. CASE motor_set_control_type
  BY <1>7, PllUnmoved DEF motor_set_control_type, shaft, rotor, build
<1>8. CASE motor_reset
  BY <1>8, PllUnmoved DEF motor_reset, shaft, rotor, build
<1>9. CASE UNCHANGED vars
  BY <1>9, PllUnmoved DEF vars, shaft, rotor, build
<1>10. QED
  BY <1>2, <1>3, <1>4, <1>5, <1>6, <1>7, <1>8, <1>9 DEF Next

LEMMA InitPll == Init => PllInv
<1> SUFFICES ASSUME Init PROVE PllInv
  OBVIOUS
<1>1. /\ angle \in Counts /\ turn = 0 /\ travel = 0
      /\ shadow_count = 0 /\ count_in_cpr = 0 /\ errors = 0 /\ good = FALSE
  BY DEF Init, ShaftInit, PllInit
<1>2. CPR \in Nat /\ angle \in Int /\ CPR * 0 = 0 /\ 0 * CPR = 0
  BY <1>1, Sizes
<1>3. Position = angle + travel
  BY <1>1, <1>2 DEF Position
<1>4. HalfTurns(shadow_count, errors)
  BY <1>1, <1>2 DEF HalfTurns
<1>5. \E n \in Int : shadow_count = count_in_cpr + CPR * n
  BY <1>1, <1>2
<1>6. QED
  BY <1>1, <1>3, <1>4, <1>5 DEF PllInv, SinceBoot

(***************************************************************************)
(* While the shaft makes less than half a turn between good reads, the PLL *)
(* has its angle after each of them, and its count is the position of the  *)
(* shaft but for the whole turns that values from no good read may cost or *)
(* bring, one each at most, and the one of a boot in the upper half.       *)
(***************************************************************************)
THEOREM SpecTracksShaft ==
  ASSUME SlowShaft
  PROVE  Spec => []TracksShaft
<1>1. TypeInv /\ PllInv /\ [Next]_vars => PllInv'
  BY PllInvStep
<1>2. TypeInv /\ PllInv => TracksShaft
  <2> SUFFICES ASSUME TypeInv, PllInv, encoder_pll, good
               PROVE  /\ \E k \in -(1 + errors) .. errors :
                           shadow_count = read_angle + CPR * (read_turn + k)
                      /\ count_in_cpr = read_angle
    BY DEF TracksShaft
  <2>1. PICK k \in Int : SinceGood(0, k)
    BY DEF PllInv, SinceBoot
  <2>2. /\ CPR \in Nat /\ shadow_count \in Int /\ read_angle \in Int /\ read_turn \in Int
        /\ errors \in Nat
    BY Sizes DEF TypeInv, TypeOK, PllTypeOK
  <2>3. PICK p \in Int : p = CPR * read_turn
    BY <2>2
  <2>4. PICK t \in Int : t = CPR * k
    BY <2>2
  <2>5. shadow_count - (read_angle + p) - t = 0
    <3>1. HalfTurns(shadow_count - (read_angle + p) - t, 0)
      BY <2>1, <2>3, <2>4 DEF SinceGood, ReadPosition
    <3>2. PICK x \in Int : x = shadow_count - (read_angle + p) - t
      BY <2>2
    <3>3. 0 * CPR = 0
      BY <2>2
    <3>4. x = 0
      BY <3>1, <3>2, <3>3 DEF HalfTurns
    <3>5. QED
      BY <3>2, <3>4
  <2>6. CPR * (read_turn + k) = p + t
    BY <2>2, <2>3, <2>4
  <2>7. shadow_count = read_angle + CPR * (read_turn + k)
    BY <2>2, <2>5, <2>6
  <2>8. k \in -(1 + errors) .. errors
    BY <2>1, <2>2 DEF SinceGood
  <2>9. QED
    BY <2>7, <2>8 DEF PllInv
<1>3. QED
  BY <1>1, <1>2, InitPll, SpecTypeInv, PTL DEF Spec
===============================================================================
