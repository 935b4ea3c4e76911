------------------------------ MODULE Bq76920Proofs ------------------------------
(***************************************************************************)
(* Proofs about the driver of the battery monitor, for any number of cells,*)
(* any width of the coulomb counter and any number of failed transfers and *)
(* resets.                                                                 *)
(***************************************************************************)
EXTENDS Bq76920, FiniteSetTheorems, WellFoundedInduction, TLAPS

\* What the bytes that were read and not used yet may be.
TypeInv == /\ TypeOK
           /\ pc = "ADCGAIN2" => reg_0 \in 0 .. 3
           /\ pc = "CC_HI" => reg_0 \in 0 .. Lo - 1

ChipTrip == << BQ76920_GAIN_BASE + 8 * ChipGain[1] + ChipGain[2],
               IF ChipOffset < 0 THEN ChipOffset + 256 ELSE ChipOffset >>

(***************************************************************************)
(* What an init whose transfers have all succeeded has read so far.        *)
(***************************************************************************)
TripInv ==
  good_init =>
    /\ pc = "ADCGAIN2" => reg_0 = ChipGain[1]
    /\ pc \in {"ADCOFFSET", "PROTECT2", "protect2_reg", "OV_TRIP"} => gain = ChipTrip[1]
    /\ pc \in {"PROTECT2", "protect2_reg", "OV_TRIP"} => offset = ChipTrip[2]
    /\ pc \notin Initialising => ov_trip = ChipTrip

\* A current that the driver takes for a charge is none that ended as a
\* discharge, and there is none before the first reading.
SignInv == sign \in {"none", "minus"} => current <= 0
-------------------------------------------------------------------------------
(***************************************************************************)
(* A non-empty set of naturals has a least element.                        *)
(***************************************************************************)
LEMMA Least ==
  ASSUME NEW A \in SUBSET Nat, A # {}
  PROVE  \E n \in A : \A m \in A : n <= m
<1>1. IsWellFoundedOn(OpToRel(<, Nat), Nat)
  BY NatLessThanWellFounded
<1>2. PICK n \in A : \A m \in A : ~(<<m, n>> \in OpToRel(<, Nat))
  BY <1>1, WFMin
<1>3. \A m \in A : ~(m < n)
  BY <1>2 DEF OpToRel
<1>4. QED
  BY <1>3

LEMMA DivMod ==
  ASSUME NEW x \in Int, NEW b \in Nat \ {0}
  PROVE  /\ x \div b \in Int /\ x % b \in 0 .. b - 1
         /\ x = b * (x \div b) + (x % b)
OBVIOUS

(***************************************************************************)
(* There is a first one of the highest cells, the one that                 *)
(* bq76920_update_balance_cell finds.                                      *)
(***************************************************************************)
LEMMA HighestCell ==
  ASSUME cell_voltage \in [Cells -> Nat]
  PROVE  /\ Highest \in Cells
         /\ \A k \in Cells : cell_voltage[k] <= cell_voltage[Highest]
<1> DEFINE HasTop(k) == \E j \in 1 .. k : \A l \in 1 .. k : cell_voltage[l] <= cell_voltage[j]
           A == {k \in Cells : ~HasTop(k)}
           B == {j \in Cells : \A k \in Cells : cell_voltage[k] <= cell_voltage[j]}
<1>1. NumCells \in Nat \ {0} /\ Cells = 1 .. NumCells
  BY BqAssumption DEF Cells
<1>2. \A j \in Cells : cell_voltage[j] \in Nat
  OBVIOUS
<1>3. A = {}
  <2>1. SUFFICES ASSUME A # {} PROVE FALSE
    OBVIOUS
  <2>2. A \in SUBSET Nat
    BY <1>1
  <2>3. PICK n \in A : \A m \in A : n <= m
    <3> HIDE DEF A
    <3>1. QED
      BY <2>1, <2>2, Least
  <2>4. n \in 1 .. NumCells /\ ~HasTop(n)
    BY <1>1, <2>3
  <2>5. CASE n = 1
    <3>1. HasTop(n)
      BY <1>1, <1>2, <2>5
    <3>2. QED
      BY <2>4, <3>1
  <2>6. CASE n > 1
    <3>1. n - 1 \in Cells /\ ~(n <= n - 1)
      BY <1>1, <2>4, <2>6
    <3>2. HasTop(n - 1)
      BY <2>3, <3>1
    <3>3. PICK j \in 1 .. n - 1 : \A l \in 1 .. n - 1 : cell_voltage[l] <= cell_voltage[j]
      BY <3>2
    <3>4. \A l \in 1 .. n : l = n \/ l \in 1 .. n - 1
      BY <2>4
    <3>5. j \in 1 .. n /\ j \in Cells /\ n \in 1 .. n /\ n \in Cells /\ 1 .. n \subseteq Cells
      BY <1>1, <2>4, <3>3
    <3>6. CASE cell_voltage[n] <= cell_voltage[j]
      <4>1. \A l \in 1 .. n : cell_voltage[l] <= cell_voltage[j]
        BY <3>3, <3>4, <3>6
      <4>2. QED
        BY <2>4, <3>5, <4>1
    <3>7. CASE cell_voltage[j] < cell_voltage[n]
      <4>1. \A l \in 1 .. n : cell_voltage[l] <= cell_voltage[n]
        BY <1>2, <3>3, <3>4, <3>5, <3>7
      <4>2. QED
        BY <2>4, <3>5, <4>1
    <3>8. QED
      BY <1>2, <3>5, <3>6, <3>7
  <2>7. QED
    BY <2>4, <2>5, <2>6
<1>4. B # {}
  <2>1. NumCells \in Cells
    BY <1>1
  <2>2. HasTop(NumCells)
    BY <1>3, <2>1
  <2>3. PICK j \in Cells : \A l \in Cells : cell_voltage[l] <= cell_voltage[j]
    BY <1>1, <2>2
  <2>4. QED
    BY <2>3
<1>5. B \in SUBSET Nat
  BY <1>1
<1>6. PICK b \in B : \A m \in B : b <= m
  <2> HIDE DEF B
  <2>1. QED
    BY <1>4, <1>5, Least
<1>7. b \in Cells /\ \A k \in Cells : cell_voltage[k] <= cell_voltage[b]
  BY <1>6
<1>8. \A k \in 1 .. b - 1 : cell_voltage[k] < cell_voltage[b]
  <2> SUFFICES ASSUME NEW k \in 1 .. b - 1 PROVE cell_voltage[k] < cell_voltage[b]
    OBVIOUS
  <2>1. k \in Cells /\ ~(b <= k)
    BY <1>1, <1>7
  <2>2. k \notin B
    BY <1>6, <2>1
  <2>3. PICK l \in Cells : ~(cell_voltage[l] <= cell_voltage[k])
    BY <2>1, <2>2
  <2>4. cell_voltage[l] <= cell_voltage[b]
    BY <1>7
  <2>5. cell_voltage[l] \in Nat /\ cell_voltage[k] \in Nat /\ cell_voltage[b] \in Nat
    BY <1>2, <1>7, <2>1
  <2>6. QED
    BY <2>3, <2>4, <2>5
<1>9. \E j \in Cells : /\ \A k \in Cells : cell_voltage[k] <= cell_voltage[j]
                       /\ \A k \in 1 .. j - 1 : cell_voltage[k] < cell_voltage[j]
  BY <1>7, <1>8
<1>10. QED
  BY <1>9 DEF Highest
-------------------------------------------------------------------------------
(***************************************************************************)
(* The coulomb counter: two bytes of which each is in its range make a     *)
(* count in range, whether or not they are of one sample.                  *)
(***************************************************************************)
LEMMA SignedRange ==
  ASSUME NEW u \in 0 .. Hi * Lo - 1
  PROVE  /\ Signed(u) \in Int
         /\ -(Hi * Lo) <= 2 * Signed(u) /\ 2 * Signed(u) < Hi * Lo
<1>1. PICK w \in Int : w = Hi * Lo
  BY BqAssumption
<1>2. QED
  BY <1>1 DEF Signed

LEMMA BytesRange ==
  ASSUME NEW h \in 0 .. Hi - 1, NEW l \in 0 .. Lo - 1
  PROVE  h * Lo + l \in 0 .. Hi * Lo - 1
<1>1. Lo \in Nat \ {0} /\ Hi \in Nat \ {0} /\ h \in Nat /\ l \in Nat
  BY BqAssumption
<1>2. (Hi - 1 - h) * Lo \in Nat /\ h * Lo \in Nat
  BY <1>1
<1>3. (Hi - 1 - h) * Lo = Hi * Lo - Lo - h * Lo /\ Hi * Lo \in Int
  BY <1>1
<1>4. QED
  BY <1>1, <1>2, <1>3

LEMMA SampleBytes ==
  ASSUME NEW x \in 0 .. Hi * Lo - 1
  PROVE  /\ x \div Lo \in 0 .. Hi - 1 /\ x % Lo \in 0 .. Lo - 1
         /\ (x \div Lo) * Lo + (x % Lo) = x
<1>1. Lo \in Nat \ {0} /\ Hi \in Nat \ {0} /\ Hi * Lo \in Int
  BY BqAssumption
<1>2. PICK q \in Int : q = x \div Lo
  BY <1>1, DivMod
<1>3. PICK r \in 0 .. Lo - 1 : r = x % Lo
  BY <1>1, DivMod
<1>4. x = Lo * q + r
  BY <1>1, <1>2, <1>3, DivMod
<1>5. q * Lo = Lo * q /\ Lo * q \in Int
  BY <1>1
<1>6. ASSUME q <= -1 PROVE FALSE
  <2>1. Lo * (-1 - q) \in Nat /\ Lo * (-1 - q) = -Lo - Lo * q
    BY <1>1, <1>6
  <2>2. QED
    BY <1>1, <1>4, <1>5, <2>1
<1>7. ASSUME q >= Hi PROVE FALSE
  <2>1. Lo * (q - Hi) \in Nat /\ Lo * (q - Hi) = Lo * q - Hi * Lo
    BY <1>1, <1>7
  <2>2. QED
    BY <1>1, <1>4, <1>5, <2>1
<1>8. q \in 0 .. Hi - 1
  BY <1>1, <1>6, <1>7
<1>9. QED
  BY <1>2, <1>3, <1>4, <1>5, <1>8

LEMMA TransferType ==
  ASSUME faults \in 0 .. MaxFaults, NEW ok, Transfer(ok)
  PROVE  faults' \in 0 .. MaxFaults
BY BqAssumption DEF Transfer

(***************************************************************************)
(* The high byte alone tells the sign of a count: a discharge stays one    *)
(* with the low byte of any other sample.                                  *)
(***************************************************************************)
LEMMA HighByteSigns ==
  ASSUME NEW x \in 0 .. Hi * Lo - 1, 2 * x >= Hi * Lo, NEW l \in 0 .. Lo - 1
  PROVE  Signed((x \div Lo) * Lo + l) < 0
<1>1. Lo \in Nat \ {0} /\ Hi \in Nat \ {0} /\ Hi % 2 = 0
  BY BqAssumption
<1>2. PICK h \in Int : Hi = 2 * h
  BY <1>1
<1>3. PICK q \in 0 .. Hi - 1 : q = x \div Lo
  BY SampleBytes
<1>4. PICK m \in 0 .. Lo - 1 : q * Lo + m = x
  BY <1>3, SampleBytes
<1>5. PICK z \in Int : z = h * Lo /\ Hi * Lo = 2 * z
  BY <1>1, <1>2
<1>6. PICK y \in Int : y = q * Lo
  BY <1>1, <1>3
<1>7. q >= h
  <2>1. SUFFICES ASSUME q <= h - 1 PROVE FALSE
    BY <1>2, <1>3
  <2>2. (h - 1 - q) * Lo \in Nat /\ (h - 1 - q) * Lo = h * Lo - Lo - q * Lo
    BY <1>1, <1>2, <1>3, <2>1
  <2>3. y <= z - Lo
    BY <1>1, <1>5, <1>6, <2>2
  <2>4. QED
    BY <1>1, <1>4, <1>5, <1>6, <2>3
<1>8. y >= z
  <2>1. (q - h) * Lo \in Nat /\ (q - h) * Lo = q * Lo - h * Lo
    BY <1>1, <1>2, <1>3, <1>7
  <2>2. QED
    BY <1>5, <1>6, <2>1
<1>9. PICK u \in 0 .. Hi * Lo - 1 : u = (x \div Lo) * Lo + l
  BY <1>3, BytesRange
<1>10. u = y + l
  BY <1>3, <1>6, <1>9
<1>11. 2 * u >= 2 * z /\ u < 2 * z
  BY <1>1, <1>5, <1>8, <1>9, <1>10
<1>12. Signed(u) = u - 2 * z
  BY <1>5, <1>9, <1>11 DEF Signed
<1>13. QED
  BY <1>5, <1>9, <1>11, <1>12
-------------------------------------------------------------------------------
LEMMA Sizes ==
  /\ NumCells \in Nat \ {0} /\ Cells = 1 .. NumCells /\ 1 \in Cells
  /\ Hi \in Nat \ {0} /\ Lo \in Nat \ {0} /\ 0 \in 0 .. Lo - 1
  /\ MaxFaults \in Nat /\ Volts \union {0} \subseteq Nat
  /\ Samples \union {0} \subseteq 0 .. Hi * Lo - 1
  /\ ChipGain[1] \in 0 .. 3 /\ ChipGain[2] \in 0 .. 7 /\ Gain1 \subseteq 0 .. 3
  /\ Gain2 \subseteq 0 .. 7 /\ ChipOffset \in -128 .. 127
<1>1. 0 \in 0 .. Hi * Lo - 1
  <2>1. Hi \in Nat \ {0} /\ Lo \in Nat \ {0}
    BY BqAssumption
  <2>2. (Hi - 1) * Lo \in Nat /\ (Hi - 1) * Lo = Hi * Lo - Lo
    BY <2>1
  <2>3. QED
    BY <2>1, <2>2
<1>2. Samples \union {0} \subseteq 0 .. Hi * Lo - 1
  BY <1>1, BqAssumption
<1>3. ChipGain[1] \in Gain1 /\ ChipGain[2] \in Gain2
  BY BqAssumption
<1>4. Gain1 \subseteq 0 .. 3 /\ Gain2 \subseteq 0 .. 7 /\ Volts \subseteq Nat
  BY BqAssumption
<1>5. /\ NumCells \in Nat \ {0} /\ Hi \in Nat \ {0} /\ Lo \in Nat \ {0}
      /\ MaxFaults \in Nat /\ ChipOffset \in -128 .. 127
  BY BqAssumption
<1>6. Cells = 1 .. NumCells /\ 1 \in Cells /\ 0 \in 0 .. Lo - 1
  BY <1>5 DEF Cells
<1>7. Volts \union {0} \subseteq Nat /\ ChipGain[1] \in 0 .. 3 /\ ChipGain[2] \in 0 .. 7
  <2>1. Volts \union {0} \subseteq Nat
    BY <1>4
  <2>2. ChipGain[1] \in 0 .. 3
    BY Zenon, <1>3, <1>4
  <2>3. ChipGain[2] \in 0 .. 7
    BY Zenon, <1>3, <1>4
  <2>4. QED
    BY <2>1, <2>2, <2>3
<1>8. QED
  BY <1>2, <1>4, <1>5, <1>6, <1>7

LEMMA OffsetByte == ChipOffset % 256 = ChipTrip[2] /\ ChipTrip[2] \in 0 .. 255
<1>1. ChipOffset \in -128 .. 127
  BY Sizes
<1>2. CASE ChipOffset < 0
  BY <1>1, <1>2 DEF ChipTrip
<1>3. CASE ChipOffset >= 0
  BY <1>1, <1>3 DEF ChipTrip
<1>4. QED
  BY <1>1, <1>2, <1>3

LEMMA InitType == Init => TypeInv
<1> SUFFICES ASSUME Init PROVE TypeInv
  OBVIOUS
<1>1. 0 \in 0 .. MaxFaults /\ 0 \in 0 .. NumCells /\ 0 \in 0 .. 255
  BY Sizes
<1>2. -Hi * Lo <= 2 * 0 /\ 2 * 0 < Hi * Lo
  BY Sizes
<1>3. /\ ov_trip = <<0, 0>> /\ gain = 0 /\ offset = 0 /\ current = 0
      /\ cell_voltage = [j \in Cells |-> 0] /\ cellbal = 0 /\ protect = {} /\ enabled = {}
      /\ cell = [j \in Cells |-> 0] /\ cc = 0 /\ protect2_reg = {} /\ sign = "none"
      /\ pc = "SYS_CTRL1" /\ i = 1 /\ reg_0 = 0 /\ faults = 0
  BY DEF Init
<1>4. good_init \in BOOLEAN
  BY Zenon DEF Init
<1>5. cell_voltage \in [Cells -> Nat] /\ cell \in [Cells -> Volts \union {0}]
  BY <1>3
<1>6. QED
  BY <1>1, <1>2, <1>3, <1>4, <1>5, Sizes DEF TypeInv, TypeOK, Initialising

(***************************************************************************)
(* The transfers of bq76920_init.                                          *)
(***************************************************************************)
LEMMA InitTransferType ==
  ASSUME TypeInv, NEW register, NEW next, NEW ok \in BOOLEAN, InitTransfer(register, next, ok)
  PROVE  faults' \in 0 .. MaxFaults /\ good_init' \in BOOLEAN
BY TransferType DEF InitTransfer, TypeInv, TypeOK

LEMMA InitCallType ==
  ASSUME TypeInv, bq76920_init
  PROVE  TypeInv'
<1> USE DEF battery, chip, calibration, measured, local
<1>1. ASSUME NEW register \in {"SYS_CTRL1", "SYS_CTRL2"}, NEW next \in {"SYS_CTRL2", "ADCGAIN1"},
             Enable(register, next)
      PROVE  TypeInv'
  <2>1. PICK ok \in BOOLEAN :
          /\ InitTransfer(register, next, ok)
          /\ enabled' = IF ok THEN enabled \union {register} ELSE enabled
    BY <1>1 DEF Enable
  <2>2. enabled' \subseteq {"SYS_CTRL1", "SYS_CTRL2"} /\ pc' \in {"SYS_CTRL2", "ADCGAIN1"}
    BY <2>1 DEF InitTransfer, TypeInv, TypeOK
  <2>3. QED
    BY <1>1, <2>1, <2>2, InitTransferType DEF Enable, TypeInv, TypeOK, Initialising
<1>2. CASE ReadGain1
  <2>1. PICK ok \in BOOLEAN :
          /\ InitTransfer("ADCGAIN1", "ADCGAIN2", ok)
          /\ reg_0' \in IF ok THEN {ChipGain[1]} ELSE Gain1
    BY <1>2 DEF ReadGain1
  <2>2. reg_0' \in 0 .. 3 /\ pc' = "ADCGAIN2"
    BY <2>1, Sizes DEF InitTransfer
  <2>3. QED
    BY <1>2, <2>1, <2>2, InitTransferType DEF ReadGain1, TypeInv, TypeOK, Initialising
<1>3. CASE ReadGain2
  <2>1. PICK ok \in BOOLEAN :
          /\ InitTransfer("ADCGAIN2", "ADCOFFSET", ok)
          /\ \E reg_1 \in IF ok THEN {ChipGain[2]} ELSE Gain2 :
               gain' = BQ76920_GAIN_BASE + 8 * reg_0 + reg_1
    BY <1>3 DEF ReadGain2
  <2>2. PICK reg_1 \in 0 .. 7 : gain' = BQ76920_GAIN_BASE + 8 * reg_0 + reg_1
    BY <2>1, Sizes
  <2>3. reg_0 \in 0 .. 3 /\ pc' = "ADCOFFSET" /\ reg_0' = 0
    BY <1>3, <2>1 DEF InitTransfer, TypeInv, ReadGain2
  <2>4. gain' \in BQ76920_GAIN_BASE .. BQ76920_GAIN_BASE + 31
    BY <2>2, <2>3 DEF BQ76920_GAIN_BASE
  <2>5. QED
    BY <1>3, <2>1, <2>3, <2>4, InitTransferType DEF ReadGain2, TypeInv, TypeOK, Initialising
<1>4. CASE ReadOffset
  <2>1. PICK ok \in BOOLEAN :
          /\ InitTransfer("ADCOFFSET", "PROTECT2", ok)
          /\ offset' = IF ok THEN ChipOffset % 256 ELSE offset
    BY <1>4 DEF ReadOffset
  <2>2. offset' \in 0 .. 255 /\ pc' = "PROTECT2"
    BY <2>1, OffsetByte DEF InitTransfer, TypeInv, TypeOK
  <2>3. QED
    BY <1>4, <2>1, <2>2, InitTransferType DEF ReadOffset, TypeInv, TypeOK, Initialising
<1>5. CASE ReadProtect2
  <2>1. PICK ok \in BOOLEAN :
          /\ InitTransfer("PROTECT2", "protect2_reg", ok)
          /\ protect2_reg' \in IF ok THEN {protect} ELSE SUBSET Bits
    BY <1>5 DEF ReadProtect2
  <2>2. protect2_reg' \in SUBSET Bits /\ pc' = "protect2_reg"
    BY <2>1 DEF InitTransfer, TypeInv, TypeOK
  <2>3. QED
    BY <1>5, <2>1, <2>2, InitTransferType DEF ReadProtect2, TypeInv, TypeOK, Initialising
<1>6. CASE WriteProtect2
  <2>1. PICK ok \in BOOLEAN :
          /\ InitTransfer("protect2_reg", "OV_TRIP", ok)
          /\ protect' = IF ok THEN protect2_reg \union OCD_DELAY_8ms \union OCD_THRESHOLD_8mV
                              ELSE protect
    BY <1>6 DEF WriteProtect2
  <2>2. protect' \in SUBSET Bits /\ pc' = "OV_TRIP"
    BY <2>1 DEF InitTransfer, TypeInv, TypeOK, OCD_DELAY_8ms, OCD_THRESHOLD_8mV
  <2>3. {} \in SUBSET Bits /\ protect2_reg' = {}
    BY <1>6 DEF WriteProtect2
  <2>4. QED
    BY <1>6, <2>1, <2>2, <2>3, InitTransferType DEF WriteProtect2, TypeInv, TypeOK, Initialising
<1>7. CASE WriteTrip
  <2>1. PICK ok \in BOOLEAN :
          /\ InitTransfer("OV_TRIP", "idle", ok)
          /\ ov_trip' = IF ok THEN <<gain, offset>> ELSE ov_trip
    BY <1>7 DEF WriteTrip
  <2>2. gain \in Nat /\ offset \in Nat
    BY DEF TypeInv, TypeOK, BQ76920_GAIN_BASE
  <2>3. ov_trip' \in Nat \X Nat /\ pc' = "idle"
    BY <2>1, <2>2 DEF InitTransfer, TypeInv, TypeOK
  <2>4. QED
    BY <1>7, <2>1, <2>3, InitTransferType DEF WriteTrip, TypeInv, TypeOK, Initialising
<1>8. QED
  BY <1>1, <1>2, <1>3, <1>4, <1>5, <1>6, <1>7 DEF bq76920_init

(***************************************************************************)
(* The transfers of bq76920_step.                                          *)
(***************************************************************************)
LEMMA ReadType ==
  ASSUME TypeInv, Read
  PROVE  TypeInv'
<1> USE DEF battery, chip, calibration, measured, local
<1>1. CASE ReadCellHi
  <2>1. PICK ok \in BOOLEAN :
          /\ Transfer(ok)
          /\ \/ ok /\ reg_0' = cell[i] \div Lo /\ pc' = "VC_LO" /\ UNCHANGED i
             \/ ~ok /\ i' = 1 /\ pc' = "CC_LO" /\ UNCHANGED reg_0
    BY <1>1 DEF ReadCellHi
  <2>2. faults' \in 0 .. MaxFaults
    BY <2>1, TransferType DEF TypeInv, TypeOK
  <2>3. cell[i] \in Nat
    BY Sizes DEF TypeInv, TypeOK
  <2>4. cell[i] \div Lo \in Nat
    BY <2>3, Sizes
  <2>5. reg_0' \in Nat /\ i' \in Cells /\ pc' \in {"VC_LO", "CC_LO"}
    BY <2>1, <2>4, Sizes DEF TypeInv, TypeOK
  <2>6. QED
    BY <1>1, <2>2, <2>5 DEF ReadCellHi, TypeInv, TypeOK
<1>2. CASE ReadCellLo
  <2>1. PICK ok \in BOOLEAN :
          /\ Transfer(ok)
          /\ cell_voltage' = IF ok THEN [cell_voltage EXCEPT ![i] = reg_0 * Lo + (cell[i] % Lo)]
                                   ELSE cell_voltage
          /\ IF ok /\ i < NumCells THEN i' = i + 1 /\ pc' = "VC_HI"
                                   ELSE i' = 1 /\ pc' = "CC_LO"
    BY <1>2 DEF ReadCellLo
  <2>2. faults' \in 0 .. MaxFaults
    BY <2>1, TransferType DEF TypeInv, TypeOK
  <2>3. cell[i] \in Nat /\ reg_0 \in Nat
    BY Sizes DEF TypeInv, TypeOK
  <2>4. reg_0 * Lo + (cell[i] % Lo) \in Nat
    BY <2>3, Sizes
  <2>5. cell_voltage' \in [Cells -> Nat]
    BY <2>1, <2>4 DEF TypeInv, TypeOK
  <2>6. i' \in Cells /\ pc' \in {"VC_HI", "CC_LO"}
    BY <2>1, Sizes DEF TypeInv, TypeOK
  <2>7. reg_0' \in Nat
    BY <1>2 DEF ReadCellLo
  <2>8. QED
    BY <1>2, <2>2, <2>5, <2>6, <2>7 DEF ReadCellLo, TypeInv, TypeOK
<1>3. CASE ReadCcLo
  <2>1. PICK ok \in BOOLEAN : Transfer(ok) /\ reg_0' = IF ok THEN cc % Lo ELSE 0
    BY <1>3 DEF ReadCcLo
  <2>2. faults' \in 0 .. MaxFaults
    BY <2>1, TransferType DEF TypeInv, TypeOK
  <2>3. reg_0' \in 0 .. Lo - 1
    BY <2>1, Sizes, SampleBytes DEF TypeInv, TypeOK
  <2>4. reg_0' \in Nat
    BY <2>3, Sizes
  <2>5. QED
    BY <1>3, <2>2, <2>3, <2>4 DEF ReadCcLo, TypeInv, TypeOK
<1>4. CASE ReadCcHi
  <2>1. PICK ok \in BOOLEAN :
          /\ Transfer(ok)
          /\ current' = IF Signed((IF ok THEN cc \div Lo ELSE 0) * Lo + reg_0) \in {-1, 1} THEN 0
                        ELSE Signed((IF ok THEN cc \div Lo ELSE 0) * Lo + reg_0)
          /\ sign' = IF ~ok THEN "unread" ELSE IF Discharging THEN "minus" ELSE "plus"
    BY <1>4 DEF ReadCcHi
  <2>2. faults' \in 0 .. MaxFaults
    BY <2>1, TransferType DEF TypeInv, TypeOK
  <2>3. cc \in 0 .. Hi * Lo - 1 /\ reg_0 \in 0 .. Lo - 1
    BY <1>4, Sizes DEF ReadCcHi, TypeInv, TypeOK
  <2>4. (IF ok THEN cc \div Lo ELSE 0) \in 0 .. Hi - 1
    <3>1. cc \div Lo \in 0 .. Hi - 1
      BY <2>3, SampleBytes
    <3>2. 0 \in 0 .. Hi - 1
      BY Sizes
    <3>3. QED
      BY <3>1, <3>2
  <2>5. PICK u \in 0 .. Hi * Lo - 1 : u = (IF ok THEN cc \div Lo ELSE 0) * Lo + reg_0
    BY <2>3, <2>4, BytesRange
  <2>6. PICK r \in Int : r = Signed(u) /\ -(Hi * Lo) <= 2 * r /\ 2 * r < Hi * Lo
    BY SignedRange
  <2>7. current' = IF r \in {-1, 1} THEN 0 ELSE r
    BY <2>1, <2>5, <2>6
  <2>8. current' \in Int /\ -Hi * Lo <= 2 * current' /\ 2 * current' < Hi * Lo
    <3>1. PICK w \in Int : w = Hi * Lo /\ 0 < w /\ -Hi * Lo = -w
      BY Sizes
    <3>2. QED
      BY <2>6, <2>7, <3>1
  <2>9. reg_0' = 0 /\ pc' = "idle" /\ sign' \in {"none", "unread", "minus", "plus"}
    BY <1>4, <2>1 DEF ReadCcHi
  <2>10. QED
    BY <1>4, <2>2, <2>8, <2>9 DEF ReadCcHi, TypeInv, TypeOK
<1>5. QED
  BY <1>1, <1>2, <1>3, <1>4 DEF Read

LEMMA TypeStep == TypeInv /\ [Next]_vars => TypeInv'
<1> SUFFICES ASSUME TypeInv, [Next]_vars PROVE TypeInv'
  OBVIOUS
<1> USE DEF battery, chip, calibration, measured, local
<1>1. CASE bq76920_step
  BY <1>1 DEF bq76920_step, TypeInv, TypeOK
<1>2. CASE bq76920_update_balance_cell
  <2>1. PICK ok \in BOOLEAN : Transfer(ok) /\ cellbal' = IF ok THEN Balance ELSE cellbal
    BY <1>2 DEF bq76920_update_balance_cell
  <2>2. cellbal' \in 0 .. NumCells
    <3>1. Highest \in 1 .. NumCells
      BY HighestCell, Sizes DEF TypeInv, TypeOK
    <3>2. QED
      BY <2>1, <3>1, Sizes DEF Balance, TypeInv, TypeOK
  <2>3. faults' \in 0 .. MaxFaults
    BY <2>1, TransferType DEF TypeInv, TypeOK
  <2>4. QED
    BY <1>2, <2>2, <2>3 DEF bq76920_update_balance_cell, TypeInv, TypeOK
<1>3. CASE CellChanges
  <2>1. cell' \in [Cells -> Volts \union {0}]
    BY <1>3 DEF CellChanges, TypeInv, TypeOK
  <2>2. QED
    BY <1>3, <2>1 DEF CellChanges, TypeInv, TypeOK
<1>4. CASE CurrentChanges
  BY <1>4 DEF CurrentChanges, TypeInv, TypeOK
<1>5. CASE Reset
  <2>1. faults' \in 0 .. MaxFaults
    BY <1>5, TransferType DEF Reset, TypeInv, TypeOK
  <2>2. /\ cell_voltage' \in [Cells -> Nat] /\ reg_0' = 0 /\ protect2_reg' \in SUBSET Bits
        /\ -Hi * Lo <= 2 * current' /\ 2 * current' < Hi * Lo /\ current' \in Int
        /\ gain' = 0 /\ offset' \in 0 .. 255 /\ i' \in Cells
    BY <1>5, Sizes DEF Reset
  <2>3. good_init' \in BOOLEAN
    BY <1>5, Zenon DEF Reset
  <2>4. pc' = "SYS_CTRL1" /\ sign' = "none"
    BY <1>5 DEF Reset
  <2>5. QED
    BY <1>5, <2>1, <2>2, <2>3, <2>4 DEF Reset, TypeInv, TypeOK, Initialising
<1>6. CASE UNCHANGED vars
  BY <1>6 DEF vars, TypeInv, TypeOK
<1>7. QED
  BY <1>1, <1>2, <1>3, <1>4, <1>5, <1>6, InitCallType, ReadType DEF Next

LEMMA SpecTypeInv == Spec => []TypeInv
BY InitType, TypeStep, PTL DEF Spec

(***************************************************************************)
(* The registers of the chip and the fields of the driver keep their types:*)
(* the cell that is drained is one of the battery's, the gain one that the *)
(* chip can have, and a current fits the sign and the width of the counter,*)
(* whatever bytes each was made of.                                        *)
(***************************************************************************)
THEOREM SpecTypeOK == Spec => []TypeOK
<1>1. TypeInv => TypeOK
  BY DEF TypeInv
<1>2. QED
  BY <1>1, SpecTypeInv, PTL
-------------------------------------------------------------------------------
(***************************************************************************)
(* What the steps that are not part of bq76920_init leave alone.           *)
(***************************************************************************)
LEMMA LeavesInitAlone ==
  ASSUME [Next]_vars, ~bq76920_init, ~Reset
  PROVE  /\ UNCHANGED <<good_init, gain, offset, ov_trip>>
         /\ \/ UNCHANGED <<pc, reg_0>>
            \/ pc \notin Initialising /\ pc' \notin Initialising
<1> USE DEF chip, calibration, local, Initialising
<1>1. CASE CellChanges \/ CurrentChanges
  BY <1>1 DEF CellChanges, CurrentChanges
<1>2. CASE bq76920_step
  BY <1>2 DEF bq76920_step
<1>3. CASE ReadCellHi
  BY <1>3 DEF ReadCellHi
<1>4. CASE ReadCellLo
  BY <1>4 DEF ReadCellLo
<1>5. CASE ReadCcLo \/ ReadCcHi
  BY <1>5 DEF ReadCcLo, ReadCcHi
<1>6. CASE bq76920_update_balance_cell
  BY <1>6 DEF bq76920_update_balance_cell
<1>7. CASE UNCHANGED vars
  BY <1>7 DEF vars
<1>8. QED
  BY <1>1, <1>2, <1>3, <1>4, <1>5, <1>6, <1>7 DEF Next, Read

LEMMA TripStep == TypeInv /\ TripInv /\ [Next]_vars => TripInv'
<1> SUFFICES ASSUME TypeInv, TripInv, [Next]_vars, good_init'
             PROVE  /\ pc' = "ADCGAIN2" => reg_0' = ChipGain[1]
                    /\ pc' \in {"ADCOFFSET", "PROTECT2", "protect2_reg", "OV_TRIP"} =>
                         gain' = ChipTrip[1]
                    /\ pc' \in {"PROTECT2", "protect2_reg", "OV_TRIP"} => offset' = ChipTrip[2]
                    /\ pc' \notin Initialising => ov_trip' = ChipTrip
  BY DEF TripInv
<1> USE DEF chip, calibration, local, Initialising
<1>1. ASSUME NEW register \in {"SYS_CTRL1", "SYS_CTRL2"}, NEW next \in {"SYS_CTRL2", "ADCGAIN1"},
             Enable(register, next)
      PROVE  pc' \in {"SYS_CTRL2", "ADCGAIN1"}
  BY <1>1 DEF Enable, InitTransfer
<1>2. CASE ReadGain1
  BY <1>2 DEF ReadGain1, InitTransfer
<1>3. CASE ReadGain2
  <2>1. /\ pc = "ADCGAIN2" /\ pc' = "ADCOFFSET" /\ good_init
        /\ gain' = BQ76920_GAIN_BASE + 8 * reg_0 + ChipGain[2]
    BY <1>3 DEF ReadGain2, InitTransfer
  <2>2. QED
    BY <2>1 DEF TripInv, ChipTrip
<1>4. CASE ReadOffset
  <2>1. /\ pc = "ADCOFFSET" /\ pc' = "PROTECT2" /\ good_init
        /\ offset' = ChipOffset % 256 /\ gain' = gain
    BY <1>4 DEF ReadOffset, InitTransfer
  <2>2. QED
    BY <2>1, OffsetByte DEF TripInv
<1>5. CASE ReadProtect2
  BY <1>5 DEF ReadProtect2, InitTransfer, TripInv
<1>6. CASE WriteProtect2
  BY <1>6 DEF WriteProtect2, InitTransfer, TripInv
<1>7. CASE WriteTrip
  <2>1. pc = "OV_TRIP" /\ pc' = "idle" /\ good_init /\ ov_trip' = <<gain, offset>>
    BY <1>7 DEF WriteTrip, InitTransfer
  <2>2. gain = ChipTrip[1] /\ offset = ChipTrip[2]
    BY <2>1 DEF TripInv
  <2>3. QED
    BY <2>1, <2>2 DEF ChipTrip
<1>8. CASE Reset
  BY <1>8 DEF Reset
<1>9. CASE ~bq76920_init /\ ~Reset
  BY <1>9, LeavesInitAlone DEF TripInv
<1>10. QED
  BY <1>1, <1>2, <1>3, <1>4, <1>5, <1>6, <1>7, <1>8, <1>9 DEF bq76920_init

(***************************************************************************)
(* An init with no failed transfer leaves the trip voltage that the chip's *)
(* own gain and the byte of its offset make of 4.2 V, whatever was there   *)
(* before and wherever an earlier init was cut off, and nothing changes it *)
(* until the next reset.                                                   *)
(***************************************************************************)
THEOREM SpecGoodInitRepairsTrip == Spec => []GoodInitRepairsTrip
<1>1. Init => TripInv
  BY DEF Init, TripInv, Initialising
<1>2. TripInv => GoodInitRepairsTrip
  BY DEF TripInv, GoodInitRepairsTrip, ChipTrip
<1>3. QED
  BY <1>1, <1>2, TripStep, SpecTypeInv, PTL DEF Spec

LEMMA SignStep == TypeInv /\ SignInv /\ [Next]_vars => SignInv'
<1> SUFFICES ASSUME TypeInv, SignInv, [Next]_vars PROVE SignInv'
  OBVIOUS
<1>1. CASE ReadCcHi
  <2>1. PICK ok \in BOOLEAN :
          /\ current' = IF Signed((IF ok THEN cc \div Lo ELSE 0) * Lo + reg_0) \in {-1, 1} THEN 0
                        ELSE Signed((IF ok THEN cc \div Lo ELSE 0) * Lo + reg_0)
          /\ sign' = IF ~ok THEN "unread" ELSE IF Discharging THEN "minus" ELSE "plus"
    BY <1>1 DEF ReadCcHi
  <2>2. SUFFICES ASSUME ok, Discharging PROVE current' <= 0
    BY <2>1 DEF SignInv
  <2>3. cc \in 0 .. Hi * Lo - 1 /\ reg_0 \in 0 .. Lo - 1 /\ 2 * cc >= Hi * Lo
    BY <1>1, <2>2, Sizes DEF ReadCcHi, TypeInv, TypeOK, Discharging
  <2>4. PICK u \in 0 .. Hi * Lo - 1 : u = (cc \div Lo) * Lo + reg_0
    BY <2>3, SampleBytes, BytesRange
  <2>5. PICK r \in Int : r = Signed(u) /\ r < 0
    BY <2>3, <2>4, SignedRange, HighByteSigns
  <2>6. current' = IF r \in {-1, 1} THEN 0 ELSE r
    BY <2>1, <2>2, <2>4, <2>5
  <2>7. QED
    BY <2>5, <2>6
<1>2. CASE Reset
  BY <1>2 DEF Reset, SignInv
<1>3. CASE UNCHANGED <<current, sign>>
  BY <1>3 DEF SignInv
<1>4. QED
  <2>1. bq76920_init => UNCHANGED <<current, sign>>
    BY DEF bq76920_init, Enable, ReadGain1, ReadGain2, ReadOffset, ReadProtect2, WriteProtect2,
           WriteTrip, measured
  <2>2. Read /\ ~ReadCcHi => UNCHANGED <<current, sign>>
    BY DEF Read, ReadCellHi, ReadCellLo, ReadCcLo, measured
  <2>3. QED
    BY <1>1, <1>2, <1>3, <2>1, <2>2
       DEF Next, bq76920_step, bq76920_update_balance_cell, CellChanges, CurrentChanges, vars,
           measured

(***************************************************************************)
(* Whatever the battery does between the transfers, whichever of them fail *)
(* and wherever the microcontroller is reset: a call switches a cell on    *)
(* only if no discharge was to be seen at the end of the last reading of   *)
(* the current, or CC_HI could not be read then.                           *)
(***************************************************************************)
THEOREM SpecNoDrainInDischarge == Spec => NoDrainInDischarge
<1>1. Init => SignInv
  BY DEF Init, SignInv
<1>2. TypeInv /\ SignInv /\ [Next]_vars =>
        [cellbal' \notin {0, cellbal} => sign \in {"plus", "unread"}]_vars
  <2> SUFFICES ASSUME TypeInv, SignInv, [Next]_vars, cellbal' \notin {0, cellbal}
               PROVE  sign \in {"plus", "unread"}
    OBVIOUS
  <2>1. bq76920_update_balance_cell
    <3>1. bq76920_init => UNCHANGED cellbal
      BY DEF bq76920_init, Enable, ReadGain1, ReadGain2, ReadOffset, ReadProtect2,
             WriteProtect2, WriteTrip, chip
    <3>2. Read => UNCHANGED cellbal
      BY DEF Read, ReadCellHi, ReadCellLo, ReadCcLo, ReadCcHi, chip
    <3>3. QED
      BY <3>1, <3>2 DEF Next, bq76920_step, CellChanges, CurrentChanges, Reset, vars, chip
  <2>2. PICK ok \in BOOLEAN : cellbal' = IF ok THEN Balance ELSE cellbal
    BY <2>1 DEF bq76920_update_balance_cell
  <2>3. ~(current <= 0)
    BY <2>2 DEF Balance
  <2>4. QED
    BY <2>3 DEF SignInv, TypeInv, TypeOK
<1>3. QED
  BY <1>1, <1>2, SignStep, SpecTypeInv, PTL DEF Spec, NoDrainInDischarge
===============================================================================
