--------------------------------- MODULE Drv8323 ---------------------------------
(***************************************************************************)
(* The driver of the DRV8323 gate driver (drv8323.c), the start-up of the  *)
(* board that uses it (motor_custom_init of custom.c) and, external, the   *)
(* chip: its registers, its ENABLE and CAL pins, its current amplifiers.   *)
(*                                                                         *)
(* Every word is an SPI transfer of its own, which may fail, before or     *)
(* after the chip has taken the word; a failure is only logged, and the    *)
(* word returned was never written.  The microcontroller may be reset: the *)
(* chip then keeps its registers.                                          *)
(***************************************************************************)
EXTENDS BitSets

CONSTANTS Defaults,    \* the registers of a chip that wakes up
          Garbage,     \* words that a failed transfer may return
          MaxFailures  \* bound on failed transfers

ASSUME DrvAssumption == /\ Garbage \subseteq SUBSET (0 .. 15)
                        /\ MaxFailures \in Nat

VARIABLES awake,       \* the ENABLE pin
          registers,   \* of the chip, by address
          calibrated,  \* the amplifiers have calibrated themselves awake
          drv_pc, val, \* the call in progress, the word it has read
          coast,       \* the gate drivers are asked to be off
          failures,
          clean        \* history: no transfer failed since the chip woke up

drv == <<awake, registers, calibrated, drv_pc, val, coast, failures, clean>>

DCR == BitsOf(2)
HSR == BitsOf(3)
LSR == BitsOf(4)
OCPCR == BitsOf(5)
CSACR == BitsOf(6)

\* Bits of DCR, of LOCK in HSR and of the calibration of each amplifier.
CLR_FLT == 0
COAST == 2
LOCK_ON == BitsOf(6)
LOCK_OFF == BitsOf(3)
CSA_CAL == [a |-> 4, b |-> 3, c |-> 2]
-------------------------------------------------------------------------------
Lock(word) == {bit - 8 : bit \in word \cap 8 .. 10}

Addresses == {DCR, HSR, LSR, OCPCR, CSACR}

\* A chip that wakes up is not locked.
ASSUME DefaultsAssumption == /\ Defaults \in [Addresses -> SUBSET (0 .. 10)]
                             /\ Lock(Defaults[HSR]) # LOCK_ON

\* Registers with LOCK_ON ignore writes, but for LOCK_OFF and three bits of DCR.
Written(regs, address, data) ==
  IF address \notin DOMAIN regs THEN regs
  ELSE IF Lock(regs[HSR]) # LOCK_ON THEN [regs EXCEPT ![address] = data]
  ELSE IF address = DCR
       THEN [regs EXCEPT ![DCR] = (@ \ {0, 1, 2}) \union (data \cap {0, 1, 2})]
  ELSE IF address = HSR /\ Lock(data) = LOCK_OFF THEN [regs EXCEPT ![HSR] = data]
  ELSE regs

\* What a word does to the registers of the chip: bit 15 reads.
Taken(regs, word) ==
  LET address == {bit - 11 : bit \in word \cap 11 .. 14}
      data == (word \cap 0 .. 10) \ (IF address = DCR THEN {CLR_FLT} ELSE {})
  IN IF 15 \in word THEN regs ELSE Written(regs, address, data)

Returned(regs, word) ==
  LET address == {bit - 11 : bit \in word \cap 11 .. 14}
  IN IF address \in DOMAIN regs THEN regs[address] ELSE {}

Calibrating(phase) == awake /\ CSA_CAL[phase] \in registers[CSACR]

\* An amplifier calibrates in the 10 ms after a transfer.
Calibrates == calibrated' = (calibrated \/ \A phase \in DOMAIN CSA_CAL : Calibrating(phase)')

\* _SPI_WRITE, with the word it returns.
_SPI_WRITE(word, ret) ==
  /\ awake' = awake
  /\ \/ /\ registers' = Taken(registers, word)
        /\ ret = Returned(registers, word)
        /\ UNCHANGED <<failures, clean>>
     \/ /\ registers' \in {registers, Taken(registers, word)}
        /\ ret \in Garbage
        /\ failures < MaxFailures
        /\ failures' = failures + 1 /\ clean' = FALSE
  /\ Calibrates

\* A transfer whose answer is not used.
Write(reg, data) ==
  \E ret \in Garbage \union {Returned(registers, Shifted(reg, 11) \union data)} :
    _SPI_WRITE(Shifted(reg, 11) \union data, ret)

drv8323_write_dcr(dis_gdf, pwm_mode, clr_flt) ==
  Write(DCR, Shifted(BitsOf(dis_gdf), 8) \union Shifted(BitsOf(pwm_mode), 5)
               \union BitsOf(clr_flt))

drv8323_write_ocpcr(tretry, dead_time, ocp_mode, ocp_deg, vds_lvl) ==
  Write(OCPCR, Shifted(BitsOf(tretry), 10) \union Shifted(BitsOf(dead_time), 8)
                 \union Shifted(BitsOf(ocp_mode), 6) \union Shifted(BitsOf(ocp_deg), 4)
                 \union BitsOf(vds_lvl))

CsacrWord(vref_div, csa_gain, dis_sen, cal, sen_lvl) ==
  Shifted(BitsOf(vref_div), 9) \union Shifted(BitsOf(csa_gain), 6)
    \union Shifted(BitsOf(dis_sen), 5)
    \union {CSA_CAL[phase] : phase \in cal} \union BitsOf(sen_lvl)

drv8323_write_csacr(vref_div, csa_gain, dis_sen, cal, sen_lvl) ==
  Write(CSACR, CsacrWord(vref_div, csa_gain, dis_sen, cal, sen_lvl))

(***************************************************************************)
(* The shifts bind looser than the sums and the word is 1 << 11: with the  *)
(* address of CSACR that is register 7, which the chip does not have.      *)
(***************************************************************************)
drv8323_calibrate == Write(CSACR, BitsOf(2^11))
-------------------------------------------------------------------------------
At(label) == drv_pc = label
Go(label) == drv_pc' = label

NoSleepMutant ==
  /\ At("off") /\ Go("asleep")
  /\ clean' = TRUE
  /\ UNCHANGED <<awake, registers, calibrated, val, coast, failures>>

\* _ENABLE(0), _CAL(1) and a delay: asleep, the chip forgets its registers.
Sleep ==
  /\ At("off") /\ Go("asleep")
  /\ awake' = FALSE
  /\ registers' = Defaults
  /\ calibrated' = FALSE
  /\ clean' = TRUE
  /\ UNCHANGED <<val, coast, failures>>

\* _ENABLE(1) and at once _CAL(0): the pin was high for a sleeping chip only.
Wake ==
  /\ At("asleep") /\ Go("calibrate")
  /\ awake' = TRUE
  /\ UNCHANGED <<registers, calibrated, val, coast, failures, clean>>

Calibrate == /\ At("calibrate") /\ Go("dcr")
             /\ drv8323_calibrate
             /\ UNCHANGED <<val, coast>>

WriteDcr == /\ At("dcr") /\ Go("csacr_cal")
            /\ drv8323_write_dcr(1, 1, 1) \* DIS_GDF_DIS, PWM_MODE_3X, clr_flt
            /\ UNCHANGED <<val, coast>>

\* VREF_DIV_2, CSA_GAIN_40, overcurrent sense on, all calibrated, SEN_LVL_1_0
CalibrateCsa == /\ At("csacr_cal") /\ Go("csacr")
                /\ drv8323_write_csacr(1, 3, 0, DOMAIN CSA_CAL, 3)
                /\ UNCHANGED <<val, coast>>

StillCalibratingMutant == /\ At("csacr") /\ Go("ocpcr")
                          /\ drv8323_write_csacr(1, 3, 1, {"b"}, 3)
                          /\ UNCHANGED <<val, coast>>

\* The same with overcurrent sense off, and no calibration.
WriteCsacr == /\ At("csacr") /\ Go("ocpcr")
              /\ drv8323_write_csacr(1, 3, 1, {}, 3)
              /\ UNCHANGED <<val, coast>>

\* TRETRY_50US, DEADTIME_50NS, OCP_NONE, OCP_DEG_8US, VDS_LVL_1_88; what
\* follows is drv8323_enable_gd.
WriteOcpcr == /\ At("ocpcr") /\ Go("read")
              /\ drv8323_write_ocpcr(1, 0, 3, 3, 15)
              /\ coast' = FALSE
              /\ UNCHANGED val

CoastOnlyMutant ==
  /\ At("read") /\ Go("write")
  /\ \E ret \in Garbage \union {registers[DCR]} :
       /\ _SPI_WRITE({15} \union Shifted(DCR, 11), ret)
       /\ val' = IF coast THEN {COAST} ELSE {}
  /\ UNCHANGED coast

(***************************************************************************)
(* drv8323_enable_gd and drv8323_disable_gd read DCR, change COAST and     *)
(* write the word back, with whatever a failed read has returned, which    *)
(* may carry bits of the address.                                          *)
(***************************************************************************)
ReadDcr ==
  /\ At("read") /\ Go("write")
  /\ \E ret \in Garbage \union {registers[DCR]} :
       /\ _SPI_WRITE({15} \union Shifted(DCR, 11), ret)
       /\ val' = IF coast THEN ret \union {COAST} ELSE ret \ {COAST}
  /\ UNCHANGED coast

drv8323_write_register ==
  /\ At("write") /\ Go("ready")
  /\ Write(DCR, val)
  /\ val' = {}
  /\ UNCHANGED coast

\* drv8323_enable_gd and drv8323_disable_gd, called by the application.
SwitchGateDriver ==
  /\ At("ready") /\ Go("read")
  /\ coast' \in BOOLEAN
  /\ UNCHANGED <<awake, registers, calibrated, val, failures, clean>>

\* A reset of the microcontroller, wherever it is.
DrvReset == /\ Go("off")
            /\ val' = {} /\ coast' = FALSE
            /\ UNCHANGED <<awake, registers, calibrated, failures, clean>>

DrvInit == /\ awake = FALSE /\ registers = Defaults /\ calibrated = FALSE
           /\ drv_pc = "off" /\ val = {} /\ coast = FALSE
           /\ failures = 0 /\ clean = FALSE

StartUp == \/ Sleep \/ Wake \/ Calibrate \/ WriteDcr \/ CalibrateCsa
           \/ WriteCsacr \/ WriteOcpcr \/ ReadDcr \/ drv8323_write_register
-------------------------------------------------------------------------------
DrvTypeOK ==
  /\ {awake, calibrated, coast, clean} \subseteq BOOLEAN
  /\ registers \in [Addresses -> SUBSET (0 .. 10)]
  /\ val \subseteq 0 .. 15
  /\ drv_pc \in {"off", "asleep", "calibrate", "dcr", "csacr_cal", "csacr",
                 "ocpcr", "read", "write", "ready"}
  /\ failures \in 0 .. MaxFailures

\* The registers as motor_custom_init means them to be.
Wanted ==
  [Defaults EXCEPT ![DCR] = BitsOf(2^8 + 2^5) \union (IF coast THEN {COAST} ELSE {}),
                   ![OCPCR] = BitsOf(2^10 + 3 * 2^6 + 3 * 2^4 + 15),
                   ![CSACR] = BitsOf(2^9 + 3 * 2^6 + 2^5 + 3)]

(***************************************************************************)
(* When no transfer since the chip woke up has failed, a start-up and any  *)
(* number of switches of the gate drivers leave every register as it is    *)
(* meant to be and the amplifiers calibrated - also after an earlier start *)
(* that wrote elsewhere, locked the registers or was cut short by a reset: *)
(* the driver writes neither HSR nor LSR, so only the sleep mends those.   *)
(***************************************************************************)
ConfiguredWhenReady ==
  clean /\ drv_pc = "ready" => registers = Wanted /\ calibrated
===============================================================================
