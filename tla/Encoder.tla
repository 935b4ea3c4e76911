-------------------------------- MODULE Encoder --------------------------------
(***************************************************************************)
(* The rotor of the motor and the magnetic encoder on its shaft, as        *)
(* as5047p_get_raw_count reads it over SPI.  The rotor is at angle counts  *)
(* of turn, and moves whatever the firmware does; it travels MaxTravel     *)
(* counts at most between two reads that give its position.                *)
(***************************************************************************)
EXTENDS Integers

CONSTANTS CPR,       \* counts per revolution, 2^14 in the code
          MaxTravel, \* counts between two good reads, at most
          MaxTurn,   \* bound on the turns of the rotor, either way
          MaxFaults  \* bound on the failed SPI transfers

Counts == 0 .. CPR - 1
SENSOR_ERROR == 65535

ASSUME EncoderAssumption == /\ CPR \in Nat \ {0, 1}
                            /\ SENSOR_ERROR \notin Counts
                            /\ MaxTravel \in Nat
                            /\ MaxTurn \in Nat
                            /\ MaxFaults \in Nat

VARIABLES turn, angle, \* the rotor
          travel,      \* its net travel since the last good read
          spi_faults   \* SPI transfers that failed so far

rotor == <<turn, angle>>
shaft == <<rotor, travel, spi_faults>>

\* The rotor one count further, d = 1, or back, d = -1.
Rotate(d) ==
  /\ travel' = travel + d
  /\ travel' \in -MaxTravel .. MaxTravel
  /\ turn' = turn + (IF angle + d = CPR THEN 1 ELSE IF angle + d < 0 THEN -1 ELSE 0)
  /\ turn' \in -MaxTurn .. MaxTurn
  /\ angle' = IF angle + d = CPR THEN 0 ELSE IF angle + d < 0 THEN CPR - 1 ELSE angle + d
  /\ UNCHANGED spi_faults

(***************************************************************************)
(* as5047p_get_raw_count: a good read, one the sensor flags or whose       *)
(* parity is wrong, or one whose transfer failed.  A failed transfer is    *)
(* logged and no more: ret was never written, and what it holds passes as  *)
(* a count when flag and parity happen to fit.                             *)
(***************************************************************************)
GoodRead(val) == val = angle /\ travel' = 0 /\ UNCHANGED <<rotor, spi_faults>>

FlaggedRead(val) == val = SENSOR_ERROR /\ UNCHANGED shaft

FailedTransfer(val) ==
  /\ spi_faults < MaxFaults
  /\ spi_faults' = spi_faults + 1
  /\ UNCHANGED <<rotor, travel>>

as5047p_get_raw_count(val) == GoodRead(val) \/ FlaggedRead(val) \/ FailedTransfer(val)

RawCount == Counts \union {SENSOR_ERROR}

ShaftInit == turn = 0 /\ angle \in Counts /\ travel = 0 /\ spi_faults = 0

ShaftTypeOK == /\ turn \in -MaxTurn .. MaxTurn
               /\ angle \in Counts
               /\ travel \in -MaxTravel .. MaxTravel
               /\ spi_faults \in 0 .. MaxFaults
===============================================================================
