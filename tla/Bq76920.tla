-------------------------------- MODULE Bq76920 --------------------------------
(***************************************************************************)
(* The driver of the BQ76920 battery monitor (bq76920.c) and, external,    *)
(* the chip.  The application, which is not in the repository, calls       *)
(* bq76920_init once after a reset and then bq76920_step and               *)
(* bq76920_update_balance_cell over and over.                              *)
(*                                                                         *)
(* Every byte is an I2C transfer of its own, any of which may fail; most   *)
(* results are not looked at.  The battery changes between transfers.  The *)
(* microcontroller may be reset: the chip then keeps its registers.        *)
(*                                                                         *)
(* Cell voltages are in the chip's counts, which gain and offset scale     *)
(* alike for all cells.  A count has a low byte of Lo values, 2^8 in the   *)
(* code, and the coulomb counter a high byte of Hi.  Of PROTECT1 to        *)
(* PROTECT3, which init treats alike, there is one: the set of its bits;   *)
(* of OV_TRIP and UV_TRIP the first.  SYS_STAT and CC_CFG, the pack voltage*)
(* and the temperature decide nothing in the driver and are left out, and  *)
(* so is bq76920_shutdown.                                                 *)
(***************************************************************************)
EXTENDS Integers, FiniteSets, Functions

CONSTANTS NumCells,       \* 5 in the code
          Volts,          \* counts of a cell
          ThresholdHigh,  \* threshold_h and threshold_l, in counts
          ThresholdLow,   \*   and times NumCells
          Hi, Lo,         \* values of a high and of a low byte
          Samples,        \* what the coulomb counter may hold
          ChipGain,       \* the chip's gain, as ADCGAIN1 and ADCGAIN2 hold it
          Gain1, Gain2,   \* what those, and an unwritten byte, may hold of it
          ChipOffset,     \* the chip's ADCOFFSET, a signed byte
          Bits,           \* those of PROTECT2, and of an unwritten byte
          MaxFaults       \* bound on failed transfers and resets

ASSUME BqAssumption == /\ NumCells \in Nat \ {0}
                       /\ Volts \subseteq Nat
                       /\ ThresholdLow \in Nat /\ ThresholdHigh \in Nat
                       /\ ThresholdLow <= ThresholdHigh
                       /\ Hi \in Nat \ {0} /\ Hi % 2 = 0
                       /\ Lo \in Nat \ {0}
                       /\ Samples \subseteq 0 .. Hi * Lo - 1
                       /\ Gain1 \subseteq 0 .. 3 /\ Gain2 \subseteq 0 .. 7
                       /\ ChipGain \in Gain1 \X Gain2
                       /\ ChipOffset \in -128 .. 127
                       /\ MaxFaults \in Nat

VARIABLES cell, cc,          \* the battery, as the chip has sampled it; first 0
          enabled,           \* of SYS_CTRL1 and SYS_CTRL2, those with which
                             \*   the chip samples the cells, and the current
          cellbal,           \* register CELLBAL1: cell that is drained, 0 none
          protect,           \* register PROTECT2
          ov_trip,           \* register OV_TRIP, as what it was computed from
          gain, offset, cell_voltage, current,  \* bq76920_t
          pc, i,             \* next transfer, and cell
          reg_0, protect2_reg, \* bytes read and not used yet
          faults,
          good_init,         \* history: no transfer of the init failed
          sign               \* history: what the battery did at the end of the
                             \*   last reading of the current

battery == <<cell, cc>>
chip == <<enabled, cellbal, protect, ov_trip>>
calibration == <<gain, offset>>
measured == <<cell_voltage, current>>
local == <<i, reg_0, protect2_reg>>
vars == <<battery, chip, calibration, measured, pc, local, faults, good_init, sign>>

Cells == 1 .. NumCells

\* (int16_t) of two bytes; what then tests bit 15 changes nothing.
Signed(u) == IF 2 * u < Hi * Lo THEN u ELSE u - Hi * Lo

\* The battery is discharged, in the chip's two's complement.
Discharging == 2 * cc >= Hi * Lo

Transfer(ok) == faults' = (IF ok THEN faults ELSE faults + 1) /\ faults' <= MaxFaults
-------------------------------------------------------------------------------
\* A transfer of bq76920_init, which goes on whether or not it fails.
InitTransfer(register, next, ok) ==
  /\ pc = register
  /\ pc' = next
  /\ Transfer(ok)
  /\ good_init' = (good_init /\ ok)

\* SYS_CTRL1 and SYS_CTRL2: the chip samples the cells, and the current.
Enable(register, next) ==
  \E ok \in BOOLEAN :
    /\ InitTransfer(register, next, ok)
    /\ enabled' = IF ok THEN enabled \union {register} ELSE enabled
    /\ UNCHANGED <<battery, cellbal, protect, ov_trip, calibration, measured, local, sign>>

BQ76920_GAIN_BASE == 365

\* The two bytes of adc_gain_reg have no value before a read that fails.
ReadGain1 ==
  \E ok \in BOOLEAN :
    /\ InitTransfer("ADCGAIN1", "ADCGAIN2", ok)
    /\ reg_0' \in IF ok THEN {ChipGain[1]} ELSE Gain1
    /\ UNCHANGED <<battery, chip, calibration, measured, i, protect2_reg, sign>>

ReadGain2 ==
  \E ok \in BOOLEAN :
    /\ InitTransfer("ADCGAIN2", "ADCOFFSET", ok)
    /\ \E reg_1 \in IF ok THEN {ChipGain[2]} ELSE Gain2 :
         gain' = BQ76920_GAIN_BASE + 8 * reg_0 + reg_1
    /\ reg_0' = 0
    /\ UNCHANGED <<battery, chip, offset, measured, i, protect2_reg, sign>>

OffsetKeptMutant ==
  \E ok \in BOOLEAN :
    /\ InitTransfer("ADCOFFSET", "PROTECT2", ok)
    /\ UNCHANGED <<battery, chip, calibration, measured, local, sign>>

\* One byte is read to a uint16_t whose high byte is 0: an offset below zero
\* becomes one that is 256 higher.
ReadOffset ==
  \E ok \in BOOLEAN :
    /\ InitTransfer("ADCOFFSET", "PROTECT2", ok)
    /\ offset' = IF ok THEN ChipOffset % 256 ELSE offset
    /\ UNCHANGED <<battery, chip, gain, measured, local, sign>>

\* The bits of an 8 ms delay and an 8 mV threshold.
OCD_DELAY_8ms == {}
OCD_THRESHOLD_8mV == {}

(***************************************************************************)
(* PROTECT2 is read, the configuration is or-ed to it, and it is written   *)
(* back; protect2_reg has no value before a read that fails.               *)
(***************************************************************************)
ReadProtect2 ==
  \E ok \in BOOLEAN :
    /\ InitTransfer("PROTECT2", "protect2_reg", ok)
    /\ protect2_reg' \in IF ok THEN {protect} ELSE SUBSET Bits
    /\ UNCHANGED <<battery, chip, calibration, measured, i, reg_0, sign>>

WriteProtect2 ==
  \E ok \in BOOLEAN :
    /\ InitTransfer("protect2_reg", "OV_TRIP", ok)
    /\ protect' = IF ok THEN protect2_reg \union OCD_DELAY_8ms \union OCD_THRESHOLD_8mV
                        ELSE protect
    /\ protect2_reg' = {}
    /\ UNCHANGED <<battery, enabled, cellbal, ov_trip, calibration, measured, i, reg_0, sign>>

\* The trip voltage that the gain and the offset make of 4.2 V.
WriteTrip ==
  \E ok \in BOOLEAN :
    /\ InitTransfer("OV_TRIP", "idle", ok)
    /\ ov_trip' = IF ok THEN <<gain, offset>> ELSE ov_trip
    /\ UNCHANGED <<battery, enabled, cellbal, protect, calibration, measured, local, sign>>

bq76920_init == \/ Enable("SYS_CTRL1", "SYS_CTRL2")
                \/ Enable("SYS_CTRL2", "ADCGAIN1")
                \/ ReadGain1
                \/ ReadGain2
                \/ ReadOffset
                \/ ReadProtect2
                \/ WriteProtect2
                \/ WriteTrip
-------------------------------------------------------------------------------
bq76920_step ==
  /\ pc = "idle"
  /\ pc' = "VC_HI"
  /\ UNCHANGED <<battery, chip, calibration, measured, local, faults, good_init, sign>>

\* bq76920_update_cell_voltage gives up at the first byte it cannot read.
ReadCellHi ==
  /\ pc = "VC_HI"
  /\ \E ok \in BOOLEAN :
       /\ Transfer(ok)
       /\ \/ /\ ok
             /\ reg_0' = cell[i] \div Lo
             /\ pc' = "VC_LO"
             /\ UNCHANGED i
          \/ ~ok /\ i' = 1 /\ pc' = "CC_LO" /\ UNCHANGED reg_0
  /\ UNCHANGED <<battery, chip, calibration, measured, protect2_reg, good_init, sign>>

ReadPastTheEndMutant ==
  /\ pc = "VC_LO"
  /\ \E ok \in BOOLEAN :
       /\ Transfer(ok)
       /\ cell_voltage' = IF ok THEN [cell_voltage EXCEPT ![i] = reg_0 * Lo + (cell[i] % Lo)]
                                ELSE cell_voltage
       /\ IF ok /\ i <= NumCells THEN i' = i + 1 /\ pc' = "VC_HI"
                                 ELSE i' = 1 /\ pc' = "CC_LO"
  /\ reg_0' = 0
  /\ UNCHANGED <<battery, chip, calibration, current, protect2_reg, good_init, sign>>

\* The cell may have changed since its high byte was read.
ReadCellLo ==
  /\ pc = "VC_LO"
  /\ \E ok \in BOOLEAN :
       /\ Transfer(ok)
       /\ cell_voltage' = IF ok THEN [cell_voltage EXCEPT ![i] = reg_0 * Lo + (cell[i] % Lo)]
                                ELSE cell_voltage
       /\ IF ok /\ i < NumCells THEN i' = i + 1 /\ pc' = "VC_HI"
                                ELSE i' = 1 /\ pc' = "CC_LO"
  /\ reg_0' = 0
  /\ UNCHANGED <<battery, chip, calibration, current, protect2_reg, good_init, sign>>

\* bq76920_update_current: a byte that cannot be read is 0.
ReadCcLo ==
  /\ pc = "CC_LO"
  /\ \E ok \in BOOLEAN :
       /\ Transfer(ok)
       /\ reg_0' = IF ok THEN cc % Lo ELSE 0
  /\ pc' = "CC_HI"
  /\ UNCHANGED <<battery, chip, calibration, measured, i, protect2_reg, good_init, sign>>

\* The counter may have been sampled anew since: CC_READY is not looked at.
ReadCcHi ==
  /\ pc = "CC_HI"
  /\ \E ok \in BOOLEAN :
       /\ Transfer(ok)
       /\ LET raw_data == Signed((IF ok THEN cc \div Lo ELSE 0) * Lo + reg_0)
          IN  current' = IF raw_data \in {-1, 1} THEN 0 ELSE raw_data
       /\ sign' = IF ~ok THEN "unread" ELSE IF Discharging THEN "minus" ELSE "plus"
  /\ pc' = "idle"
  /\ reg_0' = 0
  /\ UNCHANGED <<battery, chip, calibration, cell_voltage, i, protect2_reg, good_init>>
-------------------------------------------------------------------------------
\* How far a cell is above the average, times NumCells.
Excess(j) == NumCells * cell_voltage[j] - FoldFunction(+, 0, cell_voltage)

\* The first of the highest cells.
Highest == CHOOSE j \in Cells :
             /\ \A k \in Cells : cell_voltage[k] <= cell_voltage[j]
             /\ \A k \in 1 .. j - 1 : cell_voltage[k] < cell_voltage[j]

ZeroOnlyMutant ==
  IF current = 0 THEN 0
  ELSE IF Excess(Highest) > ThresholdHigh THEN Highest
  ELSE IF Excess(Highest) < ThresholdLow THEN 0
  ELSE cellbal

NegativeOnlyMutant ==
  IF current < 0 THEN 0
  ELSE IF Excess(Highest) > ThresholdHigh THEN Highest
  ELSE IF Excess(Highest) < ThresholdLow THEN 0
  ELSE cellbal

\* What CELLBAL1 is to hold; between the thresholds it is not written.
Balance ==
  IF current <= 0 THEN 0
  ELSE IF Excess(Highest) > ThresholdHigh THEN Highest
  ELSE IF Excess(Highest) < ThresholdLow THEN 0
  ELSE cellbal

bq76920_update_balance_cell ==
  /\ pc = "idle"
  /\ \E ok \in BOOLEAN :
       /\ Transfer(ok)
       /\ cellbal' = IF ok THEN Balance ELSE cellbal
  /\ UNCHANGED <<battery, enabled, protect, ov_trip, calibration, measured, pc, local,
                 good_init, sign>>
-------------------------------------------------------------------------------
CellChanges ==
  /\ "SYS_CTRL1" \in enabled
  /\ \E j \in Cells, v \in Volts : cell' = [cell EXCEPT ![j] = v]
  /\ UNCHANGED <<cc, chip, calibration, measured, pc, local, faults, good_init, sign>>

CurrentChanges ==
  /\ "SYS_CTRL2" \in enabled
  /\ cc' \in Samples
  /\ UNCHANGED <<cell, chip, calibration, measured, pc, local, faults, good_init, sign>>

Reset ==
  /\ Transfer(FALSE)
  /\ gain' = 0 /\ offset' = 0 /\ current' = 0
  /\ cell_voltage' = [j \in Cells |-> 0]
  /\ pc' = "SYS_CTRL1" /\ i' = 1 /\ reg_0' = 0 /\ protect2_reg' = {}
  /\ good_init' = TRUE /\ sign' = "none"
  /\ UNCHANGED <<battery, chip>>

\* The battery is connected: the registers of the chip have their defaults.
Init ==
  /\ cell = [j \in Cells |-> 0] /\ cc = 0
  /\ enabled = {} /\ cellbal = 0 /\ protect = {} /\ ov_trip = <<0, 0>>
  /\ gain = 0 /\ offset = 0 /\ current = 0
  /\ cell_voltage = [j \in Cells |-> 0]
  /\ pc = "SYS_CTRL1" /\ i = 1 /\ reg_0 = 0 /\ protect2_reg = {}
  /\ faults = 0
  /\ good_init = TRUE /\ sign = "none"

Read == ReadCellHi \/ ReadCellLo \/ ReadCcLo \/ ReadCcHi

Next == \/ bq76920_init
        \/ bq76920_step
        \/ Read
        \/ bq76920_update_balance_cell
        \/ CellChanges
        \/ CurrentChanges
        \/ Reset

Spec == Init /\ [][Next]_vars

(***************************************************************************)
(* The application starts, and its loop comes back to both of its calls;   *)
(* a transfer ends, with a timeout if need be.                             *)
(***************************************************************************)
FairSpec == /\ Spec
            /\ WF_vars(bq76920_init)
            /\ WF_vars(Read)
            /\ SF_vars(bq76920_step)
            /\ SF_vars(bq76920_update_balance_cell)
-------------------------------------------------------------------------------
Initialising == {"SYS_CTRL1", "SYS_CTRL2", "ADCGAIN1", "ADCGAIN2", "ADCOFFSET",
                 "PROTECT2", "protect2_reg", "OV_TRIP"}

TypeOK ==
  /\ cell \in [Cells -> Volts \union {0}] /\ cc \in Samples \union {0}
  /\ enabled \subseteq {"SYS_CTRL1", "SYS_CTRL2"}
  /\ cellbal \in 0 .. NumCells
  /\ {protect, protect2_reg} \subseteq SUBSET Bits
  /\ ov_trip \in Nat \X Nat
  /\ gain \in {0} \union BQ76920_GAIN_BASE .. BQ76920_GAIN_BASE + 31
  /\ offset \in 0 .. 255
  /\ cell_voltage \in [Cells -> Nat]
  /\ current \in Int /\ -Hi * Lo <= 2 * current /\ 2 * current < Hi * Lo
  /\ pc \in Initialising \union {"idle", "VC_HI", "VC_LO", "CC_LO", "CC_HI"}
  /\ i \in Cells /\ reg_0 \in Nat
  /\ faults \in 0 .. MaxFaults
  /\ good_init \in BOOLEAN
  /\ sign \in {"none", "unread", "minus", "plus"}

(***************************************************************************)
(* When the battery is no longer charged, draining a cell stops for good,  *)
(* whichever transfers failed and wherever the microcontroller was reset   *)
(* before: the write that stops it is repeated at every call.  A current   *)
(* of one count is taken for none.                                         *)
(***************************************************************************)
BalancingStops ==
  \A c \in {x \in Samples : Signed(x) <= 1} : <>[](cc = c) => <>[](cellbal = 0)

(***************************************************************************)
(* bq76920_update_balance_cell never switches a cell on while the battery  *)
(* is discharged, as far as CC_HI showed it: the two bytes of a current may*)
(* be of different samples, or the first be missing, and the micro-        *)
(* controller be reset anywhere, but the byte with the sign is read last,  *)
(* and decides.  When CC_HI cannot be read the driver takes it for 0, and a*)
(* discharge for a charge: nothing is claimed of that.                     *)
(***************************************************************************)
NoDrainInDischarge ==
  [][cellbal' \notin {0, cellbal} => sign \in {"plus", "unread"}]_vars

(***************************************************************************)
(* An init with no failed transfer repairs the protection against over-    *)
(* voltage that an earlier one, complete or cut off by a reset, may have   *)
(* set from a gain that was never read: the trip voltage is that of the    *)
(* chip's own gain, and of its offset as far as one byte tells.            *)
(***************************************************************************)
GoodInitRepairsTrip ==
  pc \notin Initialising /\ good_init =>
    ov_trip = << BQ76920_GAIN_BASE + 8 * ChipGain[1] + ChipGain[2],
                 IF ChipOffset < 0 THEN ChipOffset + 256 ELSE ChipOffset >>

(***************************************************************************)
(* bq76920.c:61, "8mV / 0.5mΩ = 16A": that is the threshold of the over-   *)
(* current protection after an init with no failed transfer.               *)
(***************************************************************************)
OcdThreshold ==
  pc \notin Initialising /\ good_init => protect = OCD_DELAY_8ms \union OCD_THRESHOLD_8mV
===============================================================================
