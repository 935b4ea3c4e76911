----------------------------- MODULE As5047pProofs -----------------------------
(***************************************************************************)
(* Proofs about As5047p, for every number of counts per revolution, every  *)
(* bound on turns and time and any number of flagged reads and failed      *)
(* transfers.  All but the types assume what the driver relies on: the     *)
(* shaft makes less than a fifth of a turn between two good reads.         *)
(***************************************************************************)
EXTENDS As5047p, TLAPS

SlowShaft == 5 * MaxTravel < CPR

(***************************************************************************)
(* Where the shaft is, and where the driver has it, in counts.             *)
(***************************************************************************)
Position == angle + CPR * turn
Seen == angle_prev + CPR * full_rotations

\* As far as m jumps of 0.8 turns lead: a longer one is taken for a wrap.
WithinJumps(x, m) == -(4 * m * CPR) <= 5 * x /\ 5 * x <= 4 * m * CPR

(***************************************************************************)
(* Position - travel is the place of the last good read, or that of the    *)
(* boot.  What the driver has seen is k whole turns off it, but for a jump *)
(* for each of the m transfers that failed since.                          *)
(***************************************************************************)
SinceBoot ==
  /\ spi_faults = 0 => ~was_read
  /\ \E a \in Counts : Position = a + travel
  /\ WithinJumps(Seen, spi_faults)

SinceGood(m, k) ==
  /\ spi_faults = 0 => was_read /\ k = full_rotations - read_turn
  /\ k \in -(1 + spi_faults - m) .. spi_faults - m
  /\ WithinJumps(Seen - (Position - travel) - CPR * k, m)

PlaceInv == SinceBoot \/ \E m \in 0 .. spi_faults : \E k \in Int : SinceGood(m, k)

(***************************************************************************)
(* The time stamps are the tick of the reads they belong to, the angles    *)
(* those of the shaft while no transfer fails, and the sample of the last  *)
(* velocity is an earlier read of the same offset.                         *)
(***************************************************************************)
ReadInv ==
  /\ was_read => /\ angle_prev_ts = read_clock % TickRange
                 /\ read_clock <= clock
                 /\ spi_faults = 0 => angle_prev = read_angle
  /\ vel_was_read =>
       /\ was_read
       /\ vel_angle_prev_ts = vel_read_clock % TickRange
       /\ vel_read_clock <= read_clock
       /\ spi_faults = 0 =>
            /\ vel_full_rotations - vel_read_turn = full_rotations - read_turn
            /\ vel_angle_prev = vel_read_angle

IInv == TypeOK /\ PlaceInv /\ TracksRotor /\ ReadInv
-------------------------------------------------------------------------------
LEMMA Sizes ==
  /\ CPR \in Nat \ {0, 1} /\ SENSOR_ERROR \notin Counts /\ Counts = 0 .. CPR - 1
  /\ MaxTravel \in Nat /\ MaxTurn \in Nat /\ MaxFaults \in Nat
  /\ TickRange \in Nat \ {0} /\ MaxClock \in Nat /\ Huge \in Nat /\ Huge >= TickRange
BY EncoderAssumption, TickAssumption DEF Counts

(***************************************************************************)
(* The types of a start, and of every step.                                *)
(***************************************************************************)
LEMMA InitType == Init => TypeOK
<1> SUFFICES ASSUME Init PROVE TypeOK
  OBVIOUS
<1> USE Sizes DEF Init, ShaftInit
<1>1. velocity \in Motion
  BY DEF Motion
<1>2. ShaftTypeOK
  BY DEF ShaftTypeOK
<1>3. /\ clock \in 0 .. MaxClock
      /\ angle_prev \in Counts /\ angle_prev_ts \in 0 .. TickRange - 1
      /\ vel_angle_prev \in Counts /\ vel_angle_prev_ts \in 0 .. TickRange - 1
      /\ read_angle \in Counts /\ vel_read_angle \in Counts
  OBVIOUS
<1>4. /\ read_turn \in -MaxTurn .. MaxTurn /\ vel_read_turn \in -MaxTurn .. MaxTurn
      /\ read_clock \in 0 .. MaxClock /\ vel_read_clock \in 0 .. MaxClock
      /\ full_rotations \in Int /\ vel_full_rotations \in Int
  OBVIOUS
<1>5. was_read \in BOOLEAN /\ vel_was_read \in BOOLEAN
  BY Zenon
<1>6. QED
  BY <1>1, <1>2, <1>3, <1>4, <1>5 DEF TypeOK

LEMMA TickInRange == ASSUME TypeOK PROVE HAL_GetTick \in 0 .. TickRange - 1
BY TickAssumption DEF HAL_GetTick, TypeOK

LEMMA TurnsType ==
  ASSUME TypeOK, NEW d \in {-1, 1}, Turns(d)
  PROVE  TypeOK'
<1> USE Sizes
<1>1. ShaftTypeOK'
  <2>1. /\ angle \in 0 .. CPR - 1
        /\ angle' = IF angle + d = CPR THEN 0
                    ELSE IF angle + d < 0 THEN CPR - 1 ELSE angle + d
        /\ turn' \in -MaxTurn .. MaxTurn /\ travel' \in -MaxTravel .. MaxTravel
        /\ spi_faults' = spi_faults /\ spi_faults \in 0 .. MaxFaults
    BY DEF TypeOK, ShaftTypeOK, Turns, Rotate
  <2>2. angle' \in 0 .. CPR - 1
    BY <2>1
  <2>3. QED
    BY <2>1, <2>2 DEF ShaftTypeOK
<1>2. QED
  BY <1>1 DEF TypeOK, Turns, latest, sampled, read, vel_read

(***************************************************************************)
(* What a read stores, if it is no error, with the state of the shaft.     *)
(***************************************************************************)
Stores(val) ==
  /\ angle_prev' = val /\ angle_prev_ts' = HAL_GetTick /\ full_rotations' = Unwrapped(val)
  /\ was_read' = TRUE /\ read_turn' = turn /\ read_angle' = angle /\ read_clock' = clock

LEMMA UpdateIs ==
  ASSUME TypeOK, as5047p_update
  PROVE  /\ UNCHANGED <<turn, angle, clock, sampled, velocity, vel_read>>
         /\ \E val \in RawCount :
              /\ IF val = SENSOR_ERROR THEN UNCHANGED <<latest, read>> ELSE Stores(val)
              /\ \/ /\ val = angle /\ val \in Counts /\ travel' = 0
                    /\ spi_faults' = spi_faults
                 \/ /\ val = SENSOR_ERROR /\ travel' = travel /\ spi_faults' = spi_faults
                 \/ /\ spi_faults < MaxFaults /\ spi_faults' = spi_faults + 1
                    /\ travel' = travel
<1>1. PICK val \in RawCount :
        /\ as5047p_get_raw_count(val)
        /\ IF val = SENSOR_ERROR THEN UNCHANGED <<latest, read>> ELSE Stores(val)
        /\ UNCHANGED <<clock, sampled, velocity, vel_read>>
  BY DEF as5047p_update, Sample, Stores
<1>2. angle \in Counts
  BY DEF TypeOK, ShaftTypeOK
<1>3. CASE GoodRead(val)
  BY <1>1, <1>2, <1>3 DEF GoodRead, rotor
<1>4. CASE FlaggedRead(val)
  BY <1>1, <1>4 DEF FlaggedRead, shaft, rotor
<1>5. CASE FailedTransfer(val)
  BY <1>1, <1>5 DEF FailedTransfer, rotor
<1>6. QED
  BY <1>1, <1>3, <1>4, <1>5 DEF as5047p_get_raw_count

LEMMA UpdateType ==
  ASSUME TypeOK, as5047p_update
  PROVE  TypeOK'
<1> USE Sizes
<1>1. PICK val \in RawCount :
        /\ IF val = SENSOR_ERROR THEN UNCHANGED <<latest, read>> ELSE Stores(val)
        /\ \/ /\ val = angle /\ val \in Counts /\ travel' = 0
              /\ spi_faults' = spi_faults
           \/ /\ val = SENSOR_ERROR /\ travel' = travel /\ spi_faults' = spi_faults
           \/ /\ spi_faults < MaxFaults /\ spi_faults' = spi_faults + 1
              /\ travel' = travel
  BY UpdateIs
<1>2. UNCHANGED <<turn, angle, clock, sampled, velocity, vel_read>>
  BY UpdateIs
<1>3. ShaftTypeOK'
  <2>1. spi_faults' \in 0 .. MaxFaults /\ travel' \in -MaxTravel .. MaxTravel
    BY <1>1 DEF TypeOK, ShaftTypeOK
  <2>2. QED
    BY <1>2, <2>1 DEF TypeOK, ShaftTypeOK
<1>4. /\ angle_prev' \in Counts /\ angle_prev_ts' \in 0 .. TickRange - 1
      /\ full_rotations' \in Int /\ was_read' \in BOOLEAN
      /\ read_turn' \in -MaxTurn .. MaxTurn /\ read_clock' \in 0 .. MaxClock
      /\ read_angle' \in Counts
  <2>1. CASE val = SENSOR_ERROR
    BY <1>1, <2>1 DEF latest, read, TypeOK
  <2>2. CASE val # SENSOR_ERROR
    <3>1. Stores(val) /\ val \in Counts
      BY <1>1, <2>2 DEF RawCount
    <3>2. full_rotations' \in Int
      BY <3>1 DEF Stores, Unwrapped, TypeOK
    <3>3. QED
      BY <3>1, <3>2, TickInRange DEF Stores, TypeOK, ShaftTypeOK
  <2>3. QED
    BY <2>1, <2>2
<1>5. QED
  BY <1>2, <1>3, <1>4 DEF TypeOK, sampled, vel_read

LEMMA VelocityType ==
  ASSUME TypeOK, as5047p_get_velocity
  PROVE  TypeOK'
<1>1. velocity' \in Motion
  <2>1. Elapsed \in Int
    BY Sizes DEF Elapsed, TypeOK
  <2>2. QED
    BY <2>1, Sizes DEF as5047p_get_velocity, Motion, TypeOK
<1>2. QED
  BY <1>1 DEF as5047p_get_velocity, TypeOK, ShaftTypeOK, shaft, rotor, latest, read

LEMMA TypeStep == TypeOK /\ [Next]_vars => TypeOK'
<1> SUFFICES ASSUME TypeOK, [Next]_vars PROVE TypeOK'
  OBVIOUS
<1>1. ASSUME NEW d \in {-1, 1}, Turns(d) PROVE TypeOK'
  BY <1>1, TurnsType
<1>2. CASE Tick
  <2>1. clock' \in 0 .. MaxClock
    BY <1>2, Sizes DEF Tick, TypeOK
  <2>2. QED
    BY <1>2, <2>1 DEF Tick, TypeOK, ShaftTypeOK, shaft, rotor, latest, sampled, read, vel_read
<1>3. CASE UNCHANGED vars
  BY <1>3 DEF vars, TypeOK, ShaftTypeOK, shaft, rotor, latest, sampled, read, vel_read
<1>4. QED
  BY <1>1, <1>2, <1>3, UpdateType, VelocityType DEF Next

(***************************************************************************)
(* The fields of the driver and of the rotor keep their types: no error    *)
(* code is ever stored as an angle (as5047p_update), whatever the shaft    *)
(* does and whichever transfers fail.                                      *)
(***************************************************************************)
THEOREM SpecTypeOK == Spec => []TypeOK
BY InitType, TypeStep, PTL DEF Spec
-------------------------------------------------------------------------------
(***************************************************************************)
(* A factor common to both sides.                                          *)
(***************************************************************************)
LEMMA Cancel ==
  ASSUME NEW x \in Int, NEW y \in Int, CPR * x < CPR * y
  PROVE  x < y
<1>1. CPR \in Nat /\ CPR * x \in Int /\ CPR * y \in Int
  BY Sizes
<1>2. ASSUME y <= x PROVE FALSE
  <2>1. x - y \in Nat
    BY <1>2
  <2>2. CPR * (x - y) \in Nat
    BY <1>1, <2>1
  <2>3. CPR * (x - y) = CPR * x - CPR * y
    BY <1>1
  <2>4. QED
    BY <1>1, <2>2, <2>3
<1>3. QED
  BY <1>2

(***************************************************************************)
(* A bound on fifths of whole turns is one on the turns.                   *)
(***************************************************************************)
LEMMA FifthsAbove ==
  ASSUME NEW j \in Int, NEW n \in Int, 5 * (CPR * j) < CPR * n
  PROVE  5 * j < n
<1>1. CPR * (5 * j) = 5 * (CPR * j)
  BY Sizes
<1>2. QED
  BY <1>1, Cancel

LEMMA FifthsBelow ==
  ASSUME NEW j \in Int, NEW n \in Int, CPR * n < 5 * (CPR * j)
  PROVE  n < 5 * j
<1>1. CPR * (5 * j) = 5 * (CPR * j)
  BY Sizes
<1>2. QED
  BY <1>1, Cancel

(***************************************************************************)
(* A read moves what the driver has seen by 0.8 turns at most.             *)
(***************************************************************************)
LEMMA Jump ==
  ASSUME TypeOK, NEW val \in Counts
  PROVE  \E delta \in Int :
           /\ val + CPR * Unwrapped(val) = Seen + delta
           /\ -(4 * CPR) <= 5 * delta /\ 5 * delta <= 4 * CPR
<1>1. /\ CPR \in Nat /\ full_rotations \in Int /\ angle_prev \in 0 .. CPR - 1
      /\ val \in 0 .. CPR - 1
  BY Sizes DEF TypeOK
<1>2. PICK p \in Int : p = CPR * full_rotations
  BY <1>1
<1>3. CPR * (full_rotations + 1) = p + CPR /\ CPR * (full_rotations + (-1)) = p - CPR
      /\ CPR * (full_rotations + 0) = p
  BY <1>1, <1>2
<1>4. PICK d \in Int : d = val - angle_prev
  BY <1>1
<1>5. CASE 5 * d > 4 * CPR
  <2>1. Unwrapped(val) = full_rotations + (-1)
    BY <1>4, <1>5 DEF Unwrapped
  <2>2. val + CPR * Unwrapped(val) = Seen + (d - CPR)
    BY <1>1, <1>2, <1>3, <1>4, <2>1 DEF Seen
  <2>3. d - CPR \in Int /\ -(4 * CPR) <= 5 * (d - CPR) /\ 5 * (d - CPR) <= 4 * CPR
    BY <1>1, <1>4, <1>5
  <2>4. QED
    BY <2>2, <2>3
<1>6. CASE -(5 * d) > 4 * CPR
  <2>1. Unwrapped(val) = full_rotations + 1
    BY <1>1, <1>4, <1>6 DEF Unwrapped
  <2>2. val + CPR * Unwrapped(val) = Seen + (d + CPR)
    BY <1>1, <1>2, <1>3, <1>4, <2>1 DEF Seen
  <2>3. d + CPR \in Int /\ -(4 * CPR) <= 5 * (d + CPR) /\ 5 * (d + CPR) <= 4 * CPR
    BY <1>1, <1>4, <1>6
  <2>4. QED
    BY <2>2, <2>3
<1>7. CASE 5 * d <= 4 * CPR /\ -(5 * d) <= 4 * CPR
  <2>1. Unwrapped(val) = full_rotations + 0
    BY <1>1, <1>4, <1>7 DEF Unwrapped
  <2>2. val + CPR * Unwrapped(val) = Seen + d
    BY <1>1, <1>2, <1>3, <1>4, <2>1 DEF Seen
  <2>3. QED
    BY <1>1, <1>4, <1>7, <2>2
<1>8. QED
  BY <1>1, <1>4, <1>5, <1>6, <1>7

LEMMA OneJumpMore ==
  ASSUME NEW x \in Int, NEW m \in Nat, NEW delta \in Int, WithinJumps(x, m),
         -(4 * CPR) <= 5 * delta, 5 * delta <= 4 * CPR
  PROVE  WithinJumps(x + delta, m + 1)
<1>1. CPR \in Nat
  BY Sizes
<1>2. PICK z \in Int : z = 4 * m * CPR
  BY <1>1
<1>3. 4 * (m + 1) * CPR = z + 4 * CPR
  BY <1>1, <1>2
<1>4. QED
  BY <1>1, <1>2, <1>3 DEF WithinJumps

(***************************************************************************)
(* The shaft turns: the place of the last good read stays.                 *)
(***************************************************************************)
LEMMA PositionType ==
  ASSUME TypeOK
  PROVE  Position \in Int /\ Seen \in Int /\ travel \in Int
<1>1. /\ CPR \in Nat /\ turn \in Int /\ angle \in Int /\ angle_prev \in Int
      /\ full_rotations \in Int
  BY Sizes DEF TypeOK, ShaftTypeOK
<1>2. CPR * turn \in Int /\ CPR * full_rotations \in Int
  BY <1>1
<1>3. QED
  BY <1>1, <1>2, Sizes DEF Position, Seen, TypeOK, ShaftTypeOK

LEMMA PlaceTurns ==
  ASSUME TypeOK, PlaceInv, NEW d \in {-1, 1}, Turns(d)
  PROVE  PlaceInv'
<1>1. /\ travel' = travel + d
      /\ UNCHANGED <<spi_faults, angle_prev, full_rotations, was_read, read_turn>>
  BY DEF Turns, Rotate, latest, read
<1>2. turn \in Int /\ angle \in 0 .. CPR - 1 /\ CPR \in Nat \ {0} /\ travel \in Int
      /\ Position \in Int
  BY Sizes, PositionType DEF TypeOK, ShaftTypeOK
<1>3. Position' = Position + d
  <2>1. PICK p \in Int : p = CPR * turn
    BY <1>2
  <2>2. CPR * (turn + 1) = p + CPR /\ CPR * (turn - 1) = p - CPR
    BY <1>2, <2>1
  <2>3. /\ turn' = turn + (IF angle + d = CPR THEN 1 ELSE IF angle + d < 0 THEN -1 ELSE 0)
        /\ angle' = IF angle + d = CPR THEN 0 ELSE IF angle + d < 0 THEN CPR - 1 ELSE angle + d
    BY DEF Turns, Rotate
  <2>4. CASE angle + d = CPR
    <3>1. turn' = turn + 1 /\ angle' = 0
      BY <2>3, <2>4
    <3>2. CPR * turn' = p + CPR
      BY <2>2, <3>1
    <3>3. QED
      BY <1>2, <2>1, <2>4, <3>1, <3>2 DEF Position
  <2>5. CASE angle + d < 0
    <3>1. turn' = turn - 1 /\ angle' = CPR - 1
      BY <1>2, <2>3, <2>5
    <3>2. CPR * turn' = p - CPR
      BY <2>2, <3>1
    <3>3. d = -1 /\ angle = 0
      BY <1>2, <2>5
    <3>4. QED
      BY <1>2, <2>1, <3>1, <3>2, <3>3 DEF Position
  <2>6. CASE angle + d # CPR /\ ~(angle + d < 0)
    <3>1. turn' = turn /\ angle' = angle + d
      BY <1>2, <2>3, <2>6
    <3>2. CPR * turn' = p
      BY <2>1, <3>1
    <3>3. QED
      BY <1>2, <2>1, <3>1, <3>2 DEF Position
  <2>7. QED
    BY <2>4, <2>5, <2>6
<1>4. Position' - travel' = Position - travel
  BY <1>1, <1>2, <1>3
<1>5. CASE SinceBoot
  <2>1. PICK a \in Counts : Position = a + travel
    BY <1>5 DEF SinceBoot
  <2>2. a \in Int
    BY Sizes
  <2>3. Position' = a + travel'
    BY <1>1, <1>2, <1>3, <2>1, <2>2
  <2>4. SinceBoot'
    BY <1>1, <1>5, <2>3 DEF SinceBoot, Seen
  <2>5. QED
    BY <2>4 DEF PlaceInv
<1>6. ASSUME NEW m \in 0 .. spi_faults, NEW k \in Int, SinceGood(m, k)
      PROVE  SinceGood(m, k)'
  BY <1>1, <1>4, <1>6 DEF SinceGood, Seen
<1>7. QED
  BY <1>1, <1>5, <1>6 DEF PlaceInv

(***************************************************************************)
(* Nothing of it changes.                                                  *)
(***************************************************************************)
LEMMA PlaceUnmoved ==
  ASSUME PlaceInv, UNCHANGED <<turn, angle, travel, spi_faults, angle_prev,
                               full_rotations, was_read, read_turn>>
  PROVE  PlaceInv'
BY DEF PlaceInv, SinceBoot, SinceGood, Position, Seen

(***************************************************************************)
(* A read that stores val: by how many turns the driver is off after it.   *)
(***************************************************************************)
LEMMA OffBy ==
  ASSUME TypeOK, NEW val \in Counts
  PROVE  /\ Unwrapped(val) - turn \in Int
         /\ CPR * (Unwrapped(val) - turn)
              = (val + CPR * Unwrapped(val)) - val - Position + angle
         /\ val + CPR * Unwrapped(val) \in Int
<1>1. CPR \in Nat /\ turn \in Int /\ angle \in Int /\ val \in Int
  BY Sizes DEF TypeOK, ShaftTypeOK
<1>2. PICK u \in Int : u = Unwrapped(val)
  BY DEF Unwrapped, TypeOK
<1>3. CPR * (u - turn) = CPR * u - CPR * turn /\ CPR * u \in Int /\ CPR * turn \in Int
  BY <1>1
<1>4. QED
  BY <1>1, <1>2, <1>3 DEF Position

(***************************************************************************)
(* After the boot, s is what the driver has seen then, off by what was     *)
(* turned at the boot, the travel since and the angle of one turn or two.  *)
(***************************************************************************)
LEMMA OffSinceBoot ==
  ASSUME SlowShaft, NEW m \in Nat, NEW s \in Int, WithinJumps(s, m),
         NEW a \in Counts, NEW r \in Int, -CPR < r, r < CPR, NEW t \in -MaxTravel .. MaxTravel,
         NEW j \in Int, CPR * j = s - a - t + r, m >= 1
  PROVE  j \in -(m + 1) .. m
<1>1. CPR \in Nat /\ a \in 0 .. CPR - 1
  BY Sizes
<1>2. PICK z \in Int : z = 4 * m * CPR
  BY <1>1
<1>3. CPR * (4 * m + 6) = z + 6 * CPR /\ CPR * (-(4 * m) - 11) = -z - 11 * CPR
  BY <1>1, <1>2
<1>4. PICK c \in Int : c = CPR * j
  BY <1>1
<1>5. 5 * t < CPR /\ -(5 * t) < CPR
  BY Sizes DEF SlowShaft
<1>6. 5 * c < z + 6 * CPR /\ -z - 11 * CPR < 5 * c
  BY <1>1, <1>2, <1>4, <1>5 DEF WithinJumps
<1>7. 5 * j < 4 * m + 6
  BY <1>3, <1>4, <1>6, FifthsAbove
<1>8. -(4 * m) - 11 < 5 * j
  BY <1>3, <1>4, <1>6, FifthsBelow
<1>9. QED
  BY <1>7, <1>8

(***************************************************************************)
(* After a good read, x is what the driver is off by beyond k turns.       *)
(***************************************************************************)
LEMMA OffSinceGood ==
  ASSUME SlowShaft, NEW m \in Nat, NEW x \in Int, WithinJumps(x, m),
         NEW r \in Int, -CPR < r, r < CPR, NEW t \in -MaxTravel .. MaxTravel,
         NEW j \in Int, CPR * j = x - t + r, m >= 1
  PROVE  j \in -m .. m
<1>1. CPR \in Nat
  BY Sizes
<1>2. PICK z \in Int : z = 4 * m * CPR
  BY <1>1
<1>3. CPR * (4 * m + 6) = z + 6 * CPR /\ CPR * (-(4 * m) - 6) = -z - 6 * CPR
  BY <1>1, <1>2
<1>4. PICK c \in Int : c = CPR * j
  BY <1>1
<1>5. 5 * t < CPR /\ -(5 * t) < CPR
  BY Sizes DEF SlowShaft
<1>6. 5 * c < z + 6 * CPR /\ -z - 6 * CPR < 5 * c
  BY <1>1, <1>2, <1>4, <1>5 DEF WithinJumps
<1>7. 5 * j < 4 * m + 6
  BY <1>3, <1>4, <1>6, FifthsAbove
<1>8. -(4 * m) - 6 < 5 * j
  BY <1>3, <1>4, <1>6, FifthsBelow
<1>9. QED
  BY <1>7, <1>8

(***************************************************************************)
(* A good read: the jump to it brings the driver to whole turns again.     *)
(***************************************************************************)
LEMMA GoodSinceBoot ==
  ASSUME SlowShaft, NEW m \in Nat, NEW s \in Int, WithinJumps(s, m + 1),
         NEW a \in Counts, NEW t \in -MaxTravel .. MaxTravel,
         NEW j \in Int, CPR * j = s - a - t
  PROVE  j \in -(m + 1) .. m
<1>1. CPR \in Nat /\ a \in 0 .. CPR - 1
  BY Sizes
<1>2. PICK z \in Int : z = 4 * (m + 1) * CPR
  BY <1>1
<1>3. CPR * (4 * m + 5) = z + CPR /\ CPR * (-(4 * m) - 10) = -z - 6 * CPR
  BY <1>1, <1>2
<1>4. PICK c \in Int : c = CPR * j
  BY <1>1
<1>5. 5 * t < CPR /\ -(5 * t) < CPR
  BY Sizes DEF SlowShaft
<1>6. 5 * c < z + CPR /\ -z - 6 * CPR < 5 * c
  BY <1>1, <1>2, <1>4, <1>5 DEF WithinJumps
<1>7. 5 * j < 4 * m + 5
  BY <1>3, <1>4, <1>6, FifthsAbove
<1>8. -(4 * m) - 10 < 5 * j
  BY <1>3, <1>4, <1>6, FifthsBelow
<1>9. QED
  BY <1>7, <1>8

LEMMA GoodSinceGood ==
  ASSUME SlowShaft, NEW m \in Nat, NEW x \in Int, WithinJumps(x, m + 1),
         NEW t \in -MaxTravel .. MaxTravel, NEW j \in Int, CPR * j = x - t
  PROVE  j \in -m .. m
<1>1. CPR \in Nat
  BY Sizes
<1>2. PICK z \in Int : z = 4 * (m + 1) * CPR
  BY <1>1
<1>3. CPR * (4 * m + 5) = z + CPR /\ CPR * (-(4 * m) - 5) = -z - CPR
  BY <1>1, <1>2
<1>4. PICK c \in Int : c = CPR * j
  BY <1>1
<1>5. 5 * t < CPR /\ -(5 * t) < CPR
  BY Sizes DEF SlowShaft
<1>6. 5 * c < z + CPR /\ -z - CPR < 5 * c
  BY <1>1, <1>2, <1>4, <1>5 DEF WithinJumps
<1>7. 5 * j < 4 * m + 5
  BY <1>3, <1>4, <1>6, FifthsAbove
<1>8. -(4 * m) - 5 < 5 * j
  BY <1>3, <1>4, <1>6, FifthsBelow
<1>9. QED
  BY <1>7, <1>8

(***************************************************************************)
(* A transfer that fails and passes for a count.                           *)
(***************************************************************************)
LEMMA FailedRead ==
  ASSUME SlowShaft, TypeOK, PlaceInv, NEW val \in Counts, Stores(val),
         UNCHANGED <<turn, angle, travel>>, spi_faults' = spi_faults + 1
  PROVE  PlaceInv' /\ TracksRotor'
<1>1. /\ spi_faults \in Nat /\ travel \in -MaxTravel .. MaxTravel /\ Position \in Int
      /\ Seen \in Int /\ CPR \in Nat \ {0} /\ angle \in 0 .. CPR - 1 /\ val \in 0 .. CPR - 1
  BY Sizes, PositionType DEF TypeOK, ShaftTypeOK
<1>2. PICK delta \in Int : /\ val + CPR * Unwrapped(val) = Seen + delta
                           /\ -(4 * CPR) <= 5 * delta /\ 5 * delta <= 4 * CPR
  BY Jump
<1>3. Seen' = Seen + delta /\ Position' = Position
  BY <1>2 DEF Stores, Seen, Position
<1>4. PICK j \in Int : j = full_rotations' - read_turn'
                       /\ CPR * j = Seen + delta - val - Position + angle
  <2>1. /\ Unwrapped(val) - turn \in Int
        /\ CPR * (Unwrapped(val) - turn) = Seen + delta - val - Position + angle
    <3>1. Seen + delta - val - Position + angle
            = (val + CPR * Unwrapped(val)) - val - Position + angle
      BY <1>1, <1>2
    <3>2. QED
      BY <3>1, OffBy
  <2>2. full_rotations' - read_turn' = Unwrapped(val) - turn
    BY DEF Stores
  <2>3. QED
    BY <2>1, <2>2
<1>5. PICK r \in Int : r = angle - val /\ -CPR < r /\ r < CPR
  BY <1>1
<1>6. CASE SinceBoot
  <2>1. PICK a \in Counts : Position = a + travel
    BY <1>6 DEF SinceBoot
  <2>2. WithinJumps(Seen + delta, spi_faults + 1)
    BY <1>1, <1>2, <1>6, OneJumpMore DEF SinceBoot
  <2>3. SinceBoot'
    <3>1. Position' = a + travel'
      BY <1>3, <2>1
    <3>2. WithinJumps(Seen, spi_faults)'
      BY <1>3, <2>2 DEF WithinJumps
    <3>3. QED
      BY <1>1, <3>1, <3>2 DEF SinceBoot
  <2>4. CPR * j = (Seen + delta) - a - travel + r
    BY <1>1, <1>4, <1>5, <2>1, Sizes
  <2>5. j \in -(spi_faults + 2) .. spi_faults + 1
    <3>1. PICK s \in Int : s = Seen + delta
      BY <1>1
    <3>2. PICK m \in Nat : m = spi_faults + 1 /\ m >= 1
      BY <1>1
    <3>3. j \in -(m + 1) .. m
      BY <1>1, <1>5, <2>2, <2>4, <3>1, <3>2, OffSinceBoot
    <3>4. QED
      BY <1>1, <3>2, <3>3
  <2>6. QED
    BY <1>1, <1>4, <2>3, <2>5 DEF PlaceInv, TracksRotor
<1>7. ASSUME NEW m \in 0 .. spi_faults, NEW k \in Int, SinceGood(m, k)
      PROVE  PlaceInv' /\ TracksRotor'
  <2>1. PICK x \in Int : x = Seen - (Position - travel) - CPR * k /\ WithinJumps(x, m)
    <3>1. CPR * k \in Int
      BY <1>1
    <3>2. Seen - (Position - travel) - CPR * k \in Int
      BY <1>1, <3>1
    <3>3. QED
      BY <1>7, <3>2 DEF SinceGood
  <2>2. WithinJumps(x + delta, m + 1)
    BY <1>2, <2>1, OneJumpMore
  <2>3. PICK c \in Int : c = CPR * k
    BY <1>1
  <2>4. SinceGood(m + 1, k)'
    <3>1. Seen' - (Position' - travel') - CPR * k = x + delta
      BY <1>1, <1>3, <2>1, <2>3
    <3>2. k \in -(1 + spi_faults' - (m + 1)) .. spi_faults' - (m + 1)
      BY <1>1, <1>7 DEF SinceGood
    <3>3. spi_faults' # 0
      BY <1>1
    <3>4. WithinJumps(Seen - (Position - travel) - CPR * k, m + 1)'
      BY <2>2, <3>1 DEF WithinJumps
    <3>5. QED
      BY <3>2, <3>3, <3>4 DEF SinceGood
  <2>5. PlaceInv'
    <3>1. m + 1 \in 0 .. spi_faults'
      BY <1>1
    <3>2. QED
      BY <2>4, <3>1 DEF PlaceInv
  <2>6. CPR * (j - k) = (x + delta) - travel + r
    <3>1. CPR * (j - k) = CPR * j - c
      BY <1>1, <2>3
    <3>2. QED
      BY <1>1, <1>4, <1>5, <2>1, <2>3, <3>1
  <2>7. j - k \in -(m + 1) .. m + 1
    <3>1. PICK i \in Int : i = j - k
      OBVIOUS
    <3>2. PICK y \in Int : y = x + delta
      BY <2>1
    <3>3. PICK n \in Nat : n = m + 1 /\ n >= 1
      BY <1>1
    <3>4. WithinJumps(y, n) /\ CPR * i = y - travel + r
      BY <2>2, <2>6, <3>1, <3>2, <3>3
    <3>5. i \in -n .. n
      BY <1>1, <1>5, <3>3, <3>4, OffSinceGood
    <3>6. QED
      BY <3>1, <3>3, <3>5
  <2>8. TracksRotor'
    <3>1. k \in -(1 + spi_faults - m) .. spi_faults - m
      BY <1>7 DEF SinceGood
    <3>2. j \in -(1 + spi_faults') .. spi_faults'
      BY <1>1, <2>7, <3>1
    <3>3. QED
      BY <1>4, <3>2 DEF TracksRotor
  <2>9. QED
    BY <2>5, <2>8
<1>8. QED
  BY <1>6, <1>7 DEF PlaceInv

(***************************************************************************)
(* A good read.  While no transfer has failed the offset stays.            *)
(***************************************************************************)
LEMMA GoodReadPlace ==
  ASSUME SlowShaft, TypeOK, PlaceInv, Stores(angle),
         UNCHANGED <<turn, angle, spi_faults>>, travel' = 0
  PROVE  /\ PlaceInv' /\ TracksRotor'
         /\ was_read /\ spi_faults = 0 =>
              full_rotations' - read_turn' = full_rotations - read_turn
<1>1. /\ spi_faults \in Nat /\ travel \in -MaxTravel .. MaxTravel /\ Position \in Int
      /\ Seen \in Int /\ CPR \in Nat \ {0} /\ angle \in Counts /\ angle \in Int
  BY Sizes, PositionType DEF TypeOK, ShaftTypeOK
<1>2. PICK delta \in Int : /\ angle + CPR * Unwrapped(angle) = Seen + delta
                           /\ -(4 * CPR) <= 5 * delta /\ 5 * delta <= 4 * CPR
  BY <1>1, Jump
<1>3. Seen' = Seen + delta /\ Position' = Position
  BY <1>2 DEF Stores, Seen, Position
<1>4. PICK j \in Int : j = full_rotations' - read_turn' /\ CPR * j = Seen + delta - Position
  <2>1. (Seen + delta) - angle - Position + angle = Seen + delta - Position
    BY <1>1
  <2>2. QED
    BY <1>1, <1>2, <2>1, OffBy DEF Stores
<1>5. /\ j \in -(1 + spi_faults) .. spi_faults
      /\ was_read /\ spi_faults = 0 => j = full_rotations - read_turn
  <2>1. CASE SinceBoot
    <3>1. PICK a \in Counts : Position = a + travel
      BY <2>1 DEF SinceBoot
    <3>2. PICK s \in Int : s = Seen + delta
      BY <1>1
    <3>3. WithinJumps(s, spi_faults + 1)
      BY <1>1, <1>2, <2>1, <3>2, OneJumpMore DEF SinceBoot
    <3>4. CPR * j = s - a - travel
      BY <1>1, <1>4, <3>1, <3>2, Sizes
    <3>5. j \in -(spi_faults + 1) .. spi_faults
      BY <1>1, <3>2, <3>3, <3>4, GoodSinceBoot
    <3>6. QED
      BY <1>1, <2>1, <3>5 DEF SinceBoot
  <2>2. ASSUME NEW m \in 0 .. spi_faults, NEW k \in Int, SinceGood(m, k)
        PROVE  /\ j \in -(1 + spi_faults) .. spi_faults
               /\ was_read /\ spi_faults = 0 => j = full_rotations - read_turn
    <3>1. PICK c \in Int : c = CPR * k
      BY <1>1
    <3>2. PICK x \in Int : x = Seen - (Position - travel) - CPR * k /\ WithinJumps(x, m)
      <4>1. Seen - (Position - travel) - CPR * k \in Int
        BY <1>1, <3>1
      <4>2. QED
        BY <2>2, <4>1 DEF SinceGood
    <3>3. PICK y \in Int : y = x + delta /\ WithinJumps(y, m + 1)
      BY <1>2, <3>2, OneJumpMore
    <3>4. PICK i \in Int : i = j - k
      OBVIOUS
    <3>5. CPR * i = y - travel
      <4>1. CPR * (j - k) = CPR * j - c
        BY <1>1, <3>1
      <4>2. QED
        BY <1>1, <1>4, <3>1, <3>2, <3>3, <3>4, <4>1
    <3>6. i \in -m .. m
      BY <1>1, <3>3, <3>5, GoodSinceGood
    <3>7. /\ k \in -(1 + spi_faults - m) .. spi_faults - m
          /\ spi_faults = 0 => k = full_rotations - read_turn
      BY <2>2 DEF SinceGood
    <3>8. QED
      BY <1>1, <3>4, <3>6, <3>7
  <2>3. QED
    BY <2>1, <2>2 DEF PlaceInv
<1>6. SinceGood(0, j)'
  <2>1. Seen' - (Position' - travel') - CPR * j = 0
    <3>1. PICK c \in Int : c = CPR * j
      BY <1>1
    <3>2. QED
      BY <1>1, <1>3, <1>4, <3>1
  <2>2. WithinJumps(Seen - (Position - travel) - CPR * j, 0)'
    BY <1>1, <2>1 DEF WithinJumps
  <2>3. j \in -(1 + spi_faults' - 0) .. spi_faults' - 0
    BY <1>1, <1>5
  <2>4. was_read' /\ j = full_rotations' - read_turn'
    BY <1>4 DEF Stores
  <2>5. QED
    BY <2>2, <2>3, <2>4 DEF SinceGood
<1>7. QED
  BY <1>1, <1>4, <1>5, <1>6 DEF PlaceInv, TracksRotor

(***************************************************************************)
(* Every read, good, flagged or failed.                                    *)
(***************************************************************************)
LEMMA PlaceUpdate ==
  ASSUME SlowShaft, TypeOK, PlaceInv, TracksRotor, as5047p_update
  PROVE  /\ PlaceInv' /\ TracksRotor'
         /\ was_read /\ spi_faults' = 0 =>
              full_rotations' - read_turn' = full_rotations - read_turn
<1>1. PICK val \in RawCount :
        /\ IF val = SENSOR_ERROR THEN UNCHANGED <<latest, read>> ELSE Stores(val)
        /\ \/ /\ val = angle /\ val \in Counts /\ travel' = 0
              /\ spi_faults' = spi_faults
           \/ /\ val = SENSOR_ERROR /\ travel' = travel /\ spi_faults' = spi_faults
           \/ /\ spi_faults < MaxFaults /\ spi_faults' = spi_faults + 1
              /\ travel' = travel
  BY UpdateIs
<1>2. UNCHANGED <<turn, angle>> /\ spi_faults \in Nat /\ full_rotations \in Int
      /\ read_turn \in Int
  BY UpdateIs, Sizes DEF TypeOK, ShaftTypeOK
<1>3. CASE val = angle /\ val \in Counts /\ travel' = 0 /\ spi_faults' = spi_faults
  <2>1. Stores(angle)
    BY <1>1, <1>3, Sizes
  <2>2. QED
    BY <1>2, <1>3, <2>1, GoodReadPlace
<1>4. CASE val = SENSOR_ERROR /\ travel' = travel /\ spi_faults' = spi_faults
  <2>1. UNCHANGED <<angle_prev, full_rotations, was_read, read_turn>>
    BY <1>1, <1>4 DEF latest, read
  <2>2. QED
    BY <1>2, <1>4, <2>1, PlaceUnmoved DEF TracksRotor
<1>5. CASE spi_faults' = spi_faults + 1 /\ travel' = travel
  <2>1. spi_faults' # 0
    BY <1>2, <1>5
  <2>2. CASE val = SENSOR_ERROR
    <3>1. UNCHANGED <<angle_prev, full_rotations, was_read, read_turn>>
      BY <1>1, <2>2 DEF latest, read
    <3>2. UNCHANGED <<Position, Seen, travel>>
      BY <1>2, <1>5, <3>1 DEF Position, Seen
    <3>3. ASSUME SinceBoot PROVE PlaceInv'
      <4>1. WithinJumps(Seen, spi_faults + 1)
        <5>1. CPR \in Nat /\ Seen \in Int
          BY Sizes, PositionType
        <5>2. WithinJumps(Seen + 0, spi_faults + 1)
          BY <1>2, <3>3, <5>1, OneJumpMore DEF SinceBoot
        <5>3. Seen + 0 = Seen
          BY <5>1
        <5>4. QED
          BY <5>2, <5>3
      <4>2. WithinJumps(Seen, spi_faults)'
        BY <1>5, <3>2, <4>1 DEF WithinJumps
      <4>3. SinceBoot'
        BY <2>1, <3>2, <3>3, <4>2 DEF SinceBoot
      <4>4. QED
        BY <4>3 DEF PlaceInv
    <3>4. ASSUME NEW m \in 0 .. spi_faults, NEW k \in Int, SinceGood(m, k) PROVE PlaceInv'
      <4>1. k \in -(1 + spi_faults' - m) .. spi_faults' - m /\ m \in 0 .. spi_faults'
        BY <1>2, <1>5, <3>4 DEF SinceGood
      <4>2. SinceGood(m, k)'
        BY <2>1, <3>2, <3>4, <4>1 DEF SinceGood, WithinJumps
      <4>3. QED
        BY <4>1, <4>2 DEF PlaceInv
    <3>5. TracksRotor'
      BY <1>2, <1>5, <3>1 DEF TracksRotor
    <3>6. PlaceInv'
      BY <3>3, <3>4 DEF PlaceInv
    <3>7. QED
      BY <2>1, <3>5, <3>6
  <2>3. CASE val # SENSOR_ERROR
    <3>1. val \in Counts /\ Stores(val)
      BY <1>1, <2>3 DEF RawCount
    <3>2. QED
      BY <1>2, <1>5, <2>1, <3>1, FailedRead
  <2>4. QED
    BY <2>2, <2>3
<1>6. QED
  BY <1>1, <1>3, <1>4, <1>5

(***************************************************************************)
(* Time stamps and samples.                                                *)
(***************************************************************************)
LEMMA ReadStep ==
  ASSUME TypeOK, ReadInv, [Next]_vars,
         was_read /\ spi_faults' = 0 =>
           full_rotations' - read_turn' = full_rotations - read_turn
  PROVE  ReadInv'
<1>1. read_clock \in Int /\ vel_read_clock \in Int /\ clock \in Int /\ spi_faults \in Nat
  BY Sizes DEF TypeOK, ShaftTypeOK
<1>2. ASSUME UNCHANGED <<latest, sampled, read, vel_read, spi_faults>>,
             clock' = clock \/ clock' = clock + 1
      PROVE  ReadInv'
  BY <1>1, <1>2 DEF ReadInv, latest, sampled, read, vel_read
<1>3. ASSUME NEW d \in {-1, 1}, Turns(d) PROVE ReadInv'
  BY <1>2, <1>3 DEF Turns, Rotate
<1>4. CASE Tick
  BY <1>2, <1>4 DEF Tick, shaft
<1>5. CASE as5047p_update
  <2>1. PICK val \in RawCount :
          /\ IF val = SENSOR_ERROR THEN UNCHANGED <<latest, read>> ELSE Stores(val)
          /\ \/ /\ val = angle /\ val \in Counts /\ travel' = 0
                /\ spi_faults' = spi_faults
             \/ /\ val = SENSOR_ERROR /\ travel' = travel /\ spi_faults' = spi_faults
             \/ /\ spi_faults < MaxFaults /\ spi_faults' = spi_faults + 1
                /\ travel' = travel
    BY <1>5, UpdateIs
  <2>2. UNCHANGED <<clock, sampled, vel_read>> /\ (spi_faults' = 0 => spi_faults = 0)
    <3>1. UNCHANGED <<clock, sampled, vel_read>>
      BY <1>5, UpdateIs
    <3>2. spi_faults' = 0 => spi_faults = 0
      BY <1>1, <2>1
    <3>3. QED
      BY <3>1, <3>2
  <2>3. CASE val = SENSOR_ERROR
    BY <2>1, <2>2, <2>3 DEF ReadInv, latest, sampled, read, vel_read
  <2>4. CASE val # SENSOR_ERROR
    <3>1. /\ was_read' = TRUE /\ read_clock' = clock /\ clock' = clock
          /\ angle_prev_ts' = clock % TickRange
          /\ spi_faults' = 0 => angle_prev' = read_angle'
      <4>1. /\ was_read' = TRUE /\ read_clock' = clock /\ clock' = clock
            /\ angle_prev_ts' = clock % TickRange
            /\ angle_prev' = val /\ read_angle' = angle
        BY <2>1, <2>2, <2>4 DEF Stores, HAL_GetTick
      <4>2. spi_faults' = 0 => val = angle
        BY <1>1, <2>1, <2>4
      <4>3. QED
        BY <4>1, <4>2
    <3>2. UNCHANGED <<vel_was_read, vel_angle_prev_ts, vel_read_clock, vel_full_rotations,
                      vel_read_turn, vel_angle_prev, vel_read_angle>>
      BY <2>2 DEF sampled, vel_read
    <3>3. vel_was_read =>
            /\ vel_angle_prev_ts = vel_read_clock % TickRange
            /\ vel_read_clock <= clock
            /\ spi_faults' = 0 =>
                 /\ vel_full_rotations - vel_read_turn = full_rotations' - read_turn'
                 /\ vel_angle_prev = vel_read_angle
      <4>1. SUFFICES ASSUME vel_was_read
                     PROVE  /\ vel_angle_prev_ts = vel_read_clock % TickRange
                            /\ vel_read_clock <= clock
                            /\ spi_faults' = 0 =>
                                 /\ vel_full_rotations - vel_read_turn
                                      = full_rotations' - read_turn'
                                 /\ vel_angle_prev = vel_read_angle
        OBVIOUS
      <4>2. /\ was_read /\ vel_angle_prev_ts = vel_read_clock % TickRange
            /\ vel_read_clock <= read_clock
            /\ read_clock <= clock
            /\ spi_faults = 0 =>
                 /\ vel_full_rotations - vel_read_turn = full_rotations - read_turn
                 /\ vel_angle_prev = vel_read_angle
        BY <4>1 DEF ReadInv
      <4>3. QED
        BY <1>1, <2>2, <4>2
    <3>4. QED
      BY <1>1, <3>1, <3>2, <3>3 DEF ReadInv
  <2>5. QED
    BY <2>1, <2>3, <2>4
<1>6. CASE as5047p_get_velocity
  BY <1>1, <1>6 DEF as5047p_get_velocity, ReadInv, shaft, latest, read
<1>7. CASE UNCHANGED vars
  BY <1>2, <1>7 DEF vars, shaft
<1>8. QED
  BY <1>3, <1>4, <1>5, <1>6, <1>7 DEF Next

(***************************************************************************)
(* The invariant, and with it that the offset stays.                       *)
(***************************************************************************)
LEMMA OffsetStep ==
  ASSUME SlowShaft, IInv, [Next]_vars
  PROVE  /\ PlaceInv' /\ TracksRotor'
         /\ was_read /\ spi_faults' = 0 =>
              full_rotations' - read_turn' = full_rotations - read_turn
<1> USE DEF IInv
<1>1. ASSUME UNCHANGED <<turn, angle, travel, spi_faults, angle_prev, full_rotations,
                         was_read, read_turn>>
      PROVE  /\ PlaceInv' /\ TracksRotor'
             /\ full_rotations' - read_turn' = full_rotations - read_turn
  BY <1>1, PlaceUnmoved DEF TracksRotor
<1>2. ASSUME NEW d \in {-1, 1}, Turns(d)
      PROVE  /\ PlaceInv' /\ TracksRotor'
             /\ full_rotations' - read_turn' = full_rotations - read_turn
  BY <1>2, PlaceTurns DEF Turns, Rotate, latest, read, TracksRotor
<1>3. CASE Tick
  BY <1>1, <1>3 DEF Tick, shaft, rotor, latest, read
<1>4. CASE as5047p_update
  BY <1>4, PlaceUpdate
<1>5. CASE as5047p_get_velocity
  BY <1>1, <1>5 DEF as5047p_get_velocity, shaft, rotor, latest, read
<1>6. CASE UNCHANGED vars
  BY <1>1, <1>6 DEF vars, shaft, rotor, latest, read
<1>7. QED
  BY <1>2, <1>3, <1>4, <1>5, <1>6 DEF Next

LEMMA SpecIInv == ASSUME SlowShaft PROVE Spec => []IInv
<1>1. Init => IInv
  <2> SUFFICES ASSUME Init PROVE IInv
    OBVIOUS
  <2>1. CPR \in Nat \ {0} /\ angle \in Counts /\ angle \in Int
    BY Sizes DEF Init, ShaftInit
  <2>2. Position = angle /\ Seen = 0 /\ travel = 0 /\ spi_faults = 0 /\ ~was_read
    BY <2>1 DEF Init, ShaftInit, Position, Seen
  <2>3. SinceBoot
    <3>1. Position = angle + travel
      BY <2>1, <2>2
    <3>2. WithinJumps(Seen, spi_faults)
      BY <2>1, <2>2 DEF WithinJumps
    <3>3. QED
      BY <2>1, <2>2, <3>1, <3>2 DEF SinceBoot
  <2>4. QED
    BY <2>2, <2>3, InitType DEF Init, IInv, PlaceInv, TracksRotor, ReadInv
<1>2. IInv /\ [Next]_vars => IInv'
  BY OffsetStep, ReadStep, TypeStep DEF IInv
<1>3. QED
  BY <1>1, <1>2, PTL DEF Spec
-------------------------------------------------------------------------------
(***************************************************************************)
(* While the shaft makes less than a fifth of a turn between good reads,   *)
(* the driver counts every one of its rotations: as5047p_get_angle is the  *)
(* angle of the shaft at the last read, or one turn less, but for one turn *)
(* for each transfer that failed and passed for a count.                   *)
(***************************************************************************)
THEOREM SpecTracksRotor == ASSUME SlowShaft PROVE Spec => []TracksRotor
<1>1. IInv => TracksRotor
  BY DEF IInv
<1>2. QED
  BY <1>1, SpecIInv, PTL

(***************************************************************************)
(* And the offset between the two, settled by the first good read, is      *)
(* settled for good while no transfer fails.                               *)
(***************************************************************************)
THEOREM SpecOffsetNeverChanges == ASSUME SlowShaft PROVE Spec => OffsetNeverChanges
<1>1. IInv /\ [Next]_vars =>
        [was_read /\ spi_faults' = 0
           => full_rotations' - read_turn' = full_rotations - read_turn]_vars
  BY OffsetStep
<1>2. QED
  BY <1>1, SpecIInv, PTL DEF Spec, OffsetNeverChanges
-------------------------------------------------------------------------------
(***************************************************************************)
(* Two remainders that rise while less than a whole divisor has passed     *)
(* differ by what has passed.                                              *)
(***************************************************************************)
LEMMA RemaindersApart ==
  ASSUME NEW b \in Nat \ {0}, NEW x \in Int, NEW y \in Int,
         x <= y, y - x < b, x % b <= y % b
  PROVE  (y % b) - (x % b) = y - x
<1>1. /\ x \div b \in Int /\ x % b \in 0 .. b - 1 /\ x = b * (x \div b) + (x % b)
      /\ y \div b \in Int /\ y % b \in 0 .. b - 1 /\ y = b * (y \div b) + (y % b)
  OBVIOUS
<1>2. PICK q \in Int : q = x \div b
  BY <1>1
<1>3. PICK p \in Int : p = y \div b
  BY <1>1
<1>4. PICK r \in 0 .. b - 1 : r = x % b
  BY <1>1
<1>5. PICK s \in 0 .. b - 1 : s = y % b
  BY <1>1
<1>6. x = b * q + r /\ y = b * p + s /\ b * q \in Int /\ b * p \in Int /\ r <= s
  BY <1>1, <1>2, <1>3, <1>4, <1>5
<1>7. b * (p - q) = b * p - b * q
  OBVIOUS
<1>8. CASE p - q >= 1
  <2>1. b * (p - q) >= b
    BY <1>8
  <2>2. QED
    BY <1>6, <1>7, <2>1
<1>9. CASE p - q <= -1
  <2>1. b * (p - q) <= -b
    BY <1>9
  <2>2. QED
    BY <1>6, <1>7, <2>1
<1>10. CASE p = q
  BY <1>4, <1>5, <1>6, <1>10
<1>11. QED
  BY <1>8, <1>9, <1>10

(***************************************************************************)
(* A velocity of as5047p_get_velocity is the mean speed of the shaft from  *)
(* one of its reads to another, whatever the loop did in between, for      *)
(* every resolution and wherever the tick wraps.                           *)
(***************************************************************************)
THEOREM SpecVelocityIsMeanSpeed == ASSUME SlowShaft PROVE Spec => VelocityIsMeanSpeed
<1> DEFINE Mean == (/\ velocity' # velocity /\ vel_was_read /\ spi_faults = 0
                    /\ velocity'.ms # Huge /\ read_clock - vel_read_clock < TickRange)
                     => /\ velocity'.turns = read_turn - vel_read_turn
                        /\ velocity'.counts = read_angle - vel_read_angle
                        /\ velocity'.ms = read_clock - vel_read_clock
<1>1. IInv /\ [Next]_vars => [Mean]_vars
  <2> SUFFICES ASSUME IInv, [Next]_vars,
                      velocity' # velocity, vel_was_read, spi_faults = 0,
                      velocity'.ms # Huge, read_clock - vel_read_clock < TickRange
               PROVE  /\ velocity'.turns = read_turn - vel_read_turn
                      /\ velocity'.counts = read_angle - vel_read_angle
                      /\ velocity'.ms = read_clock - vel_read_clock
    OBVIOUS
  <2>1. as5047p_get_velocity
    BY DEF Next, Turns, Tick, as5047p_update, vars
  <2>2. /\ velocity'.turns = full_rotations - vel_full_rotations
        /\ velocity'.counts = angle_prev - vel_angle_prev
        /\ velocity'.ms = Elapsed
    BY <2>1 DEF as5047p_get_velocity
  <2>3. /\ vel_angle_prev_ts <= angle_prev_ts
        /\ velocity'.ms = angle_prev_ts - vel_angle_prev_ts
    BY <2>2, Sizes DEF Elapsed, IInv, TypeOK
  <2>4. /\ full_rotations \in Int /\ vel_full_rotations \in Int
        /\ read_turn \in Int /\ vel_read_turn \in Int
        /\ read_clock \in Int /\ vel_read_clock \in Int /\ TickRange \in Nat \ {0}
    BY Sizes DEF IInv, TypeOK
  <2>5. /\ angle_prev_ts = read_clock % TickRange
        /\ vel_angle_prev_ts = vel_read_clock % TickRange
        /\ vel_read_clock <= read_clock
        /\ vel_full_rotations - vel_read_turn = full_rotations - read_turn
        /\ angle_prev = read_angle /\ vel_angle_prev = vel_read_angle
    BY DEF IInv, ReadInv
  <2>6. velocity'.ms = read_clock - vel_read_clock
    BY <2>3, <2>4, <2>5, RemaindersApart
  <2>7. full_rotations - vel_full_rotations = read_turn - vel_read_turn
    BY <2>4, <2>5
  <2>8. QED
    BY <2>2, <2>5, <2>6, <2>7
<1>2. QED
  BY <1>1, SpecIInv, PTL DEF Spec, VelocityIsMeanSpeed
===============================================================================
