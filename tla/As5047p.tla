-------------------------------- MODULE As5047p --------------------------------
(***************************************************************************)
(* The driver of the AS5047P encoder (as5047p.c): as5047p_update counts    *)
(* the rotations of the shaft from the jumps of its angle, and             *)
(* as5047p_get_velocity differentiates the position over the HAL tick.     *)
(* The motor loop calls them in turn; the rotor moves and time passes in   *)
(* between, any number of reads may fail, and the tick wraps.              *)
(*                                                                         *)
(* Angles are in counts: val / CPR * _2PI is strictly monotonic in val.    *)
(* read_* and vel_read_* are history: where the rotor was, and when, at    *)
(* the read that angle_prev and vel_angle_prev come from.                  *)
(***************************************************************************)
EXTENDS Encoder

CONSTANTS TickRange, \* HAL_GetTick wraps here, at 2^32 ms
          MaxClock,  \* bound on the milliseconds that pass
          Huge       \* the milliseconds of a 64 bit difference below zero

ASSUME TickAssumption == /\ TickRange \in Nat \ {0}
                         /\ MaxClock \in Nat
                         /\ Huge \in Nat /\ Huge >= TickRange

VARIABLES clock,                                                \* ms since boot
          angle_prev, angle_prev_ts, full_rotations,            \* as5047p_t
          vel_angle_prev, vel_angle_prev_ts, vel_full_rotations,
          velocity,
          was_read, read_turn, read_angle, read_clock,          \* history
          vel_was_read, vel_read_turn, vel_read_angle, vel_read_clock

latest == <<angle_prev, angle_prev_ts, full_rotations>>
sampled == <<vel_angle_prev, vel_angle_prev_ts, vel_full_rotations>>
read == <<was_read, read_turn, read_angle, read_clock>>
vel_read == <<vel_was_read, vel_read_turn, vel_read_angle, vel_read_clock>>
vars == <<shaft, clock, latest, sampled, velocity, read, vel_read>>

HAL_GetTick == clock % TickRange

Motion == [turns: Int, counts: Int, ms: Int]
-------------------------------------------------------------------------------
Turns(d) == Rotate(d) /\ UNCHANGED <<clock, latest, sampled, velocity, read, vel_read>>

Tick == /\ clock < MaxClock
        /\ clock' = clock + 1
        /\ UNCHANGED <<shaft, latest, sampled, velocity, read, vel_read>>

MissWrapMutant(val) == full_rotations

SwappedWrapMutant(val) ==
  full_rotations +
    (IF 5 * (val - angle_prev) > 4 * CPR THEN 1
     ELSE IF 5 * (angle_prev - val) > 4 * CPR THEN -1 ELSE 0)

\* A jump of more than 0.8 turns is a smaller move the other way.
Unwrapped(val) ==
  full_rotations +
    (IF 5 * (val - angle_prev) > 4 * CPR THEN -1
     ELSE IF 5 * (angle_prev - val) > 4 * CPR THEN 1 ELSE 0)

\* What as5047p_update does with a count.
Sample(val) == /\ angle_prev_ts' = HAL_GetTick
               /\ full_rotations' = Unwrapped(val)
               /\ angle_prev' = val

StoreErrorMutant ==
  \E val \in RawCount :
    /\ as5047p_get_raw_count(val)
    /\ Sample(val)
    /\ was_read' = TRUE
    /\ read_turn' = turn
    /\ read_angle' = angle
    /\ read_clock' = clock
    /\ UNCHANGED <<clock, sampled, velocity, vel_read>>

as5047p_update ==
  \E val \in RawCount :
    /\ as5047p_get_raw_count(val)
    /\ IF val = SENSOR_ERROR
       THEN UNCHANGED <<latest, read>>
       ELSE /\ Sample(val)
            /\ was_read' = TRUE
            /\ read_turn' = turn
            /\ read_angle' = angle
            /\ read_clock' = clock
    /\ UNCHANGED <<clock, sampled, velocity, vel_read>>

\* (float)(angle_prev_ts - vel_angle_prev_ts): both are unsigned 64 bit.
Elapsed == IF angle_prev_ts >= vel_angle_prev_ts
           THEN angle_prev_ts - vel_angle_prev_ts ELSE Huge

StaleSampleMutant ==
  /\ Elapsed # 0
  /\ velocity' = [turns  |-> full_rotations - vel_full_rotations,
                  counts |-> angle_prev - vel_angle_prev,
                  ms     |-> Elapsed]
  /\ vel_full_rotations' = full_rotations
  /\ vel_angle_prev_ts' = angle_prev_ts
  /\ vel_was_read' = was_read
  /\ vel_read_turn' = read_turn
  /\ vel_read_angle' = read_angle
  /\ vel_read_clock' = read_clock
  /\ UNCHANGED <<shaft, clock, latest, vel_angle_prev, read>>

(***************************************************************************)
(* Less than a tick since the last sample: the old velocity.  The test for *)
(* a negative time never holds.                                            *)
(***************************************************************************)
as5047p_get_velocity ==
  /\ Elapsed # 0
  /\ velocity' = [turns  |-> full_rotations - vel_full_rotations,
                  counts |-> angle_prev - vel_angle_prev,
                  ms     |-> Elapsed]
  /\ vel_angle_prev' = angle_prev
  /\ vel_full_rotations' = full_rotations
  /\ vel_angle_prev_ts' = angle_prev_ts
  /\ vel_was_read' = was_read
  /\ vel_read_turn' = read_turn
  /\ vel_read_angle' = read_angle
  /\ vel_read_clock' = read_clock
  /\ UNCHANGED <<shaft, clock, latest, read>>

\* as5047p_init
Init ==
  /\ ShaftInit
  /\ clock = 0
  /\ angle_prev = 0 /\ angle_prev_ts = 0 /\ full_rotations = 0
  /\ vel_angle_prev = 0 /\ vel_angle_prev_ts = 0 /\ vel_full_rotations = 0
  /\ velocity = [turns |-> 0, counts |-> 0, ms |-> 0]
  /\ was_read = FALSE /\ read_turn = 0 /\ read_angle = 0 /\ read_clock = 0
  /\ vel_was_read = FALSE /\ vel_read_turn = 0 /\ vel_read_angle = 0 /\ vel_read_clock = 0

Next == \/ \E d \in {-1, 1} : Turns(d)
        \/ Tick
        \/ as5047p_update
        \/ as5047p_get_velocity

Spec == Init /\ [][Next]_vars
-------------------------------------------------------------------------------
(***************************************************************************)
(* The fields of as5047p_t hold values of their range; the clock and the   *)
(* history do too.                                                         *)
(***************************************************************************)
TypeOK ==
  /\ ShaftTypeOK
  /\ clock \in 0 .. MaxClock
  /\ angle_prev \in Counts /\ angle_prev_ts \in 0 .. TickRange - 1
  /\ vel_angle_prev \in Counts /\ vel_angle_prev_ts \in 0 .. TickRange - 1
  /\ full_rotations \in Int /\ vel_full_rotations \in Int
  /\ velocity \in Motion
  /\ was_read \in BOOLEAN /\ vel_was_read \in BOOLEAN
  /\ read_turn \in -MaxTurn .. MaxTurn /\ vel_read_turn \in -MaxTurn .. MaxTurn
  /\ read_angle \in Counts /\ vel_read_angle \in Counts
  /\ read_clock \in 0 .. MaxClock /\ vel_read_clock \in 0 .. MaxClock

(***************************************************************************)
(* The counted rotations are those of the shaft, or one less: the first    *)
(* read is taken for a jump from 0, and a shaft that starts in the last    *)
(* fifth of its turn is taken to have come from behind.  A failed transfer *)
(* loses or gains one rotation at most.                                    *)
(***************************************************************************)
TracksRotor ==
  was_read => full_rotations - read_turn \in -(1 + spi_faults) .. spi_faults

(***************************************************************************)
(* After the first read the offset between the counted rotations and those *)
(* of the shaft never changes while no transfer fails: whatever was        *)
(* aligned or calibrated against as5047p_get_angle stays so, however many  *)
(* flagged reads come between two good ones.                               *)
(***************************************************************************)
OffsetNeverChanges ==
  [][was_read /\ spi_faults' = 0
       => full_rotations' - read_turn' = full_rotations - read_turn]_vars

(***************************************************************************)
(* A velocity is the mean speed of the shaft between the two reads it was  *)
(* computed from: the turns and counts the rotor has moved, over the time  *)
(* that has passed, however the reads, the flagged ones among them, and    *)
(* the calls interleave - but for the first, which starts from a position  *)
(* nobody read, and for one across a wrap of the tick, which is next to 0. *)
(***************************************************************************)
VelocityIsMeanSpeed ==
  [][(/\ velocity' # velocity /\ vel_was_read /\ spi_faults = 0
      /\ velocity'.ms # Huge /\ read_clock - vel_read_clock < TickRange)
       => /\ velocity'.turns = read_turn - vel_read_turn
          /\ velocity'.counts = read_angle - vel_read_angle
          /\ velocity'.ms = read_clock - vel_read_clock]_vars
===============================================================================
