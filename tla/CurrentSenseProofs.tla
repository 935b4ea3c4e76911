--------------------------- MODULE CurrentSenseProofs ---------------------------
(***************************************************************************)
(* Proofs about CurrentSense and the gate driver it measures through, for  *)
(* every number of rounds, bias, current, default of a register, word that *)
(* a failed transfer may return, and number of failed transfers.           *)
(***************************************************************************)
EXTENDS CurrentSense, TLAPS

(***************************************************************************)
(* What a start-up in which every transfer arrived has reached: the        *)
(* registers written so far, and those it must not write.                  *)
(***************************************************************************)
Awake == {"calibrate", "dcr", "csacr_cal", "csacr", "ocpcr", "read", "write", "ready"}
Measuring == {"ocpcr", "read", "write", "ready"}

GateOn == BitsOf(2^8 + 2^5)
Csacr == BitsOf(2^9 + 3 * 2^6 + 2^5 + 3)
Ocpcr == BitsOf(2^10 + 3 * 2^6 + 3 * 2^4 + 15)
Switched == GateOn \union (IF coast THEN {COAST} ELSE {})

ConfigInv ==
  clean =>
    /\ drv_pc = "asleep" => registers = Defaults
    /\ drv_pc \in Awake =>
         awake /\ registers[HSR] = Defaults[HSR] /\ registers[LSR] = Defaults[LSR]
    /\ drv_pc \in Awake \ {"calibrate", "dcr"} => registers[DCR] \in {GateOn, GateOn \union {COAST}}
    /\ drv_pc \in {"csacr"} \union Measuring => calibrated
    /\ drv_pc \in Measuring => registers[CSACR] = Csacr
    /\ drv_pc \in Measuring \ {"ocpcr"} => registers[OCPCR] = Ocpcr
    /\ drv_pc = "write" => val = Switched
    /\ drv_pc = "ready" => registers[DCR] = Switched

(***************************************************************************)
(* The sum in progress, whose first sample may be 0 or twice the bias: it  *)
(* holds one bias for each other round, and at most what an earlier offset *)
(* and every round can add.  The products avoid the quotient.              *)
(***************************************************************************)
OffsetInv ==
  \A p \in Phases :
    /\ rounds = 0 => (Rounds - 1) * offset[p] <= (Rounds + 1) * Bias
    /\ rounds > 0 =>
         (Rounds - 1) * offset[p] <= 2 * (Rounds * Bias) + (Rounds - 1) * (rounds * Bias)
    /\ rounds > 0 => (rounds - 1) * Bias <= offset[p]
    /\ zeroed /\ rounds = 0 => (Rounds - 2) * Bias <= (Rounds - 1) * offset[p]

(***************************************************************************)
(* An ADC value is that of this period once its interrupt has run, and the *)
(* last one's before; a call that is between its loads holds one of them.  *)
(***************************************************************************)
SampleInv ==
  /\ zeroed => drv_pc \in {"read", "write", "ready"}
  /\ reading => rounds = 0 /\ drv_pc = "ready"
  /\ rounds > 0 => drv_pc = "ready"
  /\ interrupted => reading
  /\ \A p \in Phases : adc_val[p] <= 2 * Bias
  /\ clean /\ zeroed =>
       /\ \A p \in Phases : adc_val[p] = Bias + (IF p \in converting THEN before[p] ELSE now[p])
       /\ reading => ia \in {Bias + now["a"], Bias + before["a"]}
       /\ reading /\ converting = {} /\ ~interrupted => ia = Bias + now["a"]

IInv == TypeOK /\ ConfigInv /\ OffsetInv /\ SampleInv
-------------------------------------------------------------------------------
Has(n, bit, weight) == bit \in BitsOf(n) <=> (n \div weight) % 2 = 1

(***************************************************************************)
(* The bits of a number, one by one; and so those of the words in use.     *)
(***************************************************************************)
LEMMA BitsOfValue ==
  ASSUME NEW n \in Nat
  PROVE  /\ BitsOf(n) \subseteq 0 .. 15
         /\ Has(n, 0, 1) /\ Has(n, 1, 2) /\ Has(n, 2, 4) /\ Has(n, 3, 8)
         /\ Has(n, 4, 16) /\ Has(n, 5, 32) /\ Has(n, 6, 64) /\ Has(n, 7, 128)
         /\ Has(n, 8, 256) /\ Has(n, 9, 512) /\ Has(n, 10, 1024) /\ Has(n, 11, 2048)
         /\ Has(n, 12, 4096) /\ Has(n, 13, 8192) /\ Has(n, 14, 16384) /\ Has(n, 15, 32768)
<1>1. /\ 2^0 = 1 /\ 2^1 = 2 /\ 2^2 = 4 /\ 2^3 = 8 /\ 2^4 = 16 /\ 2^5 = 32 /\ 2^6 = 64
      /\ 2^7 = 128 /\ 2^8 = 256 /\ 2^9 = 512 /\ 2^10 = 1024 /\ 2^11 = 2048 /\ 2^12 = 4096
      /\ 2^13 = 8192 /\ 2^14 = 16384 /\ 2^15 = 32768
  OBVIOUS
<1>2. \A bit \in 0 .. 15 : Has(n, bit, 2^bit)
  BY DEF Has, BitsOf
<1>3. QED
  BY <1>1, <1>2 DEF BitsOf

LEMMA AddressValues ==
  /\ DCR = {1} /\ HSR = {0, 1} /\ LSR = {2} /\ OCPCR = {0, 2} /\ CSACR = {1, 2}
<1>1. DCR = {1} /\ HSR = {0, 1}
  BY BitsOfValue DEF Has, DCR, HSR
<1>2. LSR = {2} /\ OCPCR = {0, 2}
  BY BitsOfValue DEF Has, LSR, OCPCR
<1>3. CSACR = {1, 2}
  BY BitsOfValue DEF Has, CSACR
<1>4. QED
  BY <1>1, <1>2, <1>3

LEMMA LockValues == LOCK_ON = {1, 2} /\ LOCK_OFF = {0, 1}
BY BitsOfValue DEF Has, LOCK_ON, LOCK_OFF

LEMMA WordValues ==
  /\ GateOn = {5, 8}
  /\ Csacr = {0, 1, 5, 6, 7, 9}
  /\ Ocpcr = {0, 1, 2, 3, 4, 5, 6, 7, 10}
  /\ BitsOf(2^11) = {11}
  /\ BitsOf(0) = {} /\ BitsOf(1) = {0} /\ BitsOf(3) = {0, 1} /\ BitsOf(15) = {0, 1, 2, 3}
<1>1. GateOn = {5, 8}
  BY BitsOfValue DEF Has, GateOn
<1>2. Csacr = {0, 1, 5, 6, 7, 9}
  BY BitsOfValue DEF Has, Csacr
<1>3. Ocpcr = {0, 1, 2, 3, 4, 5, 6, 7, 10}
  BY BitsOfValue DEF Has, Ocpcr
<1>4. BitsOf(2^11) = {11}
  BY BitsOfValue DEF Has
<1>5. BitsOf(0) = {} /\ BitsOf(1) = {0}
  BY BitsOfValue DEF Has
<1>6. BitsOf(3) = {0, 1}
  BY BitsOfValue DEF Has
<1>7. BitsOf(15) = {0, 1, 2, 3}
  BY BitsOfValue DEF Has
<1>8. QED
  BY <1>1, <1>2, <1>3, <1>4, <1>5, <1>6, <1>7
-------------------------------------------------------------------------------
RegisterMap == [Addresses -> SUBSET (0 .. 10)]

Unlocked(regs) == Lock(regs[HSR]) # LOCK_ON

(***************************************************************************)
(* Whatever word the chip takes, its registers stay words of 11 bits.      *)
(***************************************************************************)
LEMMA TakenType ==
  ASSUME NEW regs \in RegisterMap, NEW word
  PROVE  Taken(regs, word) \in RegisterMap
<1> DEFINE address == {bit - 11 : bit \in word \cap 11 .. 14}
           data == (word \cap 0 .. 10) \ (IF address = DCR THEN {CLR_FLT} ELSE {})
<1>1. data \in SUBSET (0 .. 10)
  OBVIOUS
<1>2. Taken(regs, word) = IF 15 \in word THEN regs ELSE Written(regs, address, data)
  BY DEF Taken
<1> HIDE DEF address, data
<1>3. Written(regs, address, data) \in RegisterMap
  <2>1. DCR \in Addresses /\ HSR \in Addresses
    BY DEF Addresses
  <2>2. CASE Written(regs, address, data) = regs
    BY <2>2
  <2>3. CASE address \in Addresses /\ Written(regs, address, data) = [regs EXCEPT ![address] = data]
    BY <1>1, <2>3 DEF RegisterMap
  <2>4. CASE Written(regs, address, data)
               = [regs EXCEPT ![DCR] = (@ \ {0, 1, 2}) \union (data \cap {0, 1, 2})]
    <3>1. regs[DCR] \in SUBSET (0 .. 10)
      BY <2>1 DEF RegisterMap
    <3>2. (regs[DCR] \ {0, 1, 2}) \union (data \cap {0, 1, 2}) \in SUBSET (0 .. 10)
      BY <1>1, <3>1
    <3>3. QED
      BY <2>1, <2>4, <3>2 DEF RegisterMap
  <2>5. CASE Written(regs, address, data) = [regs EXCEPT ![HSR] = data]
    BY <1>1, <2>1, <2>5 DEF RegisterMap
  <2>6. DOMAIN regs = Addresses
    BY DEF RegisterMap
  <2>7. QED
    BY <2>2, <2>3, <2>4, <2>5, <2>6 DEF Written
<1>4. QED
  BY <1>2, <1>3

(***************************************************************************)
(* A word that writes to a register of an unlocked chip writes just that.  *)
(***************************************************************************)
LEMMA TakenValue ==
  ASSUME NEW regs \in RegisterMap, NEW reg \in Addresses, NEW data \in SUBSET (0 .. 10),
         Unlocked(regs)
  PROVE  Taken(regs, Shifted(reg, 11) \union data)
           = [regs EXCEPT ![reg] = data \ (IF reg = DCR THEN {CLR_FLT} ELSE {})]
<1> DEFINE word == Shifted(reg, 11) \union data
<1>1. reg \in SUBSET (0 .. 2)
  BY AddressValues DEF Addresses
<1>2. Shifted(reg, 11) \subseteq 11 .. 13
  BY <1>1 DEF Shifted
<1>3. 15 \notin word /\ word \cap 0 .. 10 = data
  <2>1. \A x \in 11 .. 13 : x \notin 0 .. 10 /\ x # 15
    OBVIOUS
  <2>2. 15 \notin data
    OBVIOUS
  <2>3. word \cap 0 .. 10 = data
    BY <1>2, <2>1, Zenon
  <2>4. QED
    BY <1>2, <2>1, <2>2, <2>3
<1>4. {bit - 11 : bit \in word \cap 11 .. 14} = reg
  <2>1. word \cap 11 .. 14 = Shifted(reg, 11)
    BY <1>2
  <2>2. \A x : x \in {bit - 11 : bit \in Shifted(reg, 11)} <=> \E b \in reg : x = (b + 11) - 11
    BY DEF Shifted
  <2>3. \A b \in reg : (b + 11) - 11 = b
    BY <1>1
  <2>4. QED
    BY <2>1, <2>2, <2>3
<1> HIDE DEF word
<1>5. Taken(regs, word) = Written(regs, reg, data \ (IF reg = DCR THEN {CLR_FLT} ELSE {}))
  BY <1>3, <1>4 DEF Taken
<1>6. DOMAIN regs = Addresses
  BY DEF RegisterMap
<1>7. QED
  BY <1>5, <1>6 DEF Written, Unlocked, word

(***************************************************************************)
(* What drv8323_calibrate sends is addressed to register 7, and changes    *)
(* nothing.                                                                *)
(***************************************************************************)
LEMMA TakenByNone ==
  ASSUME NEW regs \in RegisterMap
  PROVE  Taken(regs, Shifted(CSACR, 11) \union BitsOf(2^11)) = regs
<1> DEFINE word == Shifted(CSACR, 11) \union BitsOf(2^11)
           address == {bit - 11 : bit \in word \cap 11 .. 14}
           data == (word \cap 0 .. 10) \ (IF address = DCR THEN {CLR_FLT} ELSE {})
<1>1. Shifted(CSACR, 11) = {12, 13}
  BY AddressValues DEF Shifted
<1>2. word = {11, 12, 13}
  BY <1>1, WordValues
<1>3. 0 \in address /\ 2 \in address /\ 1 \in address
  <2>1. 11 - 11 \in address /\ 12 - 11 \in address /\ 13 - 11 \in address
    BY <1>2
  <2>2. QED
    BY <2>1
<1>4. address \notin Addresses
  BY <1>3, AddressValues DEF Addresses
<1>5. DOMAIN regs = Addresses
  BY DEF RegisterMap
<1>6. Taken(regs, word) = IF 15 \in word THEN regs ELSE Written(regs, address, data)
  BY DEF Taken
<1> HIDE DEF word, address, data
<1>7. Written(regs, address, data) = regs
  BY <1>4, <1>5 DEF Written
<1>8. QED
  BY <1>6, <1>7 DEF word

\* A word that reads changes nothing, and returns the register.
LEMMA ReadValue ==
  ASSUME NEW regs \in RegisterMap
  PROVE  /\ Taken(regs, {15} \union Shifted(DCR, 11)) = regs
         /\ Returned(regs, {15} \union Shifted(DCR, 11)) = regs[DCR]
<1>1. Shifted(DCR, 11) = {12}
  BY AddressValues DEF Shifted
<1>2. ({15} \union {12}) \cap 11 .. 14 = {12}
  OBVIOUS
<1>3. {bit - 11 : bit \in {12}} = DCR
  BY AddressValues
<1>4. DOMAIN regs = Addresses /\ DCR \in Addresses
  BY DEF RegisterMap, Addresses
<1>5. Taken(regs, {15} \union {12}) = regs
  BY DEF Taken
<1>6. Returned(regs, {15} \union {12}) = regs[DCR]
  BY <1>2, <1>3, <1>4 DEF Returned
<1>7. QED
  BY <1>1, <1>5, <1>6
-------------------------------------------------------------------------------
LEMMA DefaultsType == Defaults \in RegisterMap /\ Unlocked(Defaults)
BY DefaultsAssumption DEF RegisterMap, Unlocked

(***************************************************************************)
(* A transfer, which may fail, keeps the types.                            *)
(***************************************************************************)
LEMMA TransferType ==
  ASSUME DrvTypeOK, NEW word, NEW ret, _SPI_WRITE(word, ret)
  PROVE  /\ awake' = awake /\ calibrated' \in BOOLEAN /\ clean' \in BOOLEAN
         /\ registers' \in RegisterMap /\ failures' \in 0 .. MaxFailures
<1>1. registers \in RegisterMap
  BY DEF DrvTypeOK, RegisterMap
<1>2. registers' \in RegisterMap
  BY <1>1, TakenType DEF _SPI_WRITE
<1>3. failures' \in 0 .. MaxFailures /\ clean' \in BOOLEAN
  <2>1. clean' = clean \/ clean' = FALSE
    BY DEF _SPI_WRITE
  <2>2. clean \in BOOLEAN /\ failures \in 0 .. MaxFailures /\ MaxFailures \in Nat
    BY DrvAssumption DEF DrvTypeOK
  <2>3. failures' = failures \/ (failures < MaxFailures /\ failures' = failures + 1)
    BY DEF _SPI_WRITE
  <2>4. clean' \in BOOLEAN
    BY <2>1, <2>2, Zenon
  <2>5. failures' \in 0 .. MaxFailures
    BY <2>2, <2>3
  <2>6. QED
    BY <2>4, <2>5
<1>4. calibrated' \in BOOLEAN
  BY DEF DrvTypeOK, _SPI_WRITE, Calibrates
<1>5. QED
  BY <1>2, <1>3, <1>4 DEF _SPI_WRITE

(***************************************************************************)
(* A transfer that leaves the start-up clean has arrived.                  *)
(***************************************************************************)
LEMMA CleanTransfer ==
  ASSUME NEW word, NEW ret, _SPI_WRITE(word, ret), clean'
  PROVE  /\ clean /\ awake' = awake
         /\ registers' = Taken(registers, word) /\ ret = Returned(registers, word)
         /\ calibrated => calibrated'
         /\ (\A phase \in DOMAIN CSA_CAL : Calibrating(phase)') => calibrated'
BY DEF _SPI_WRITE, Calibrates

LEMMA CleanWrite ==
  ASSUME DrvTypeOK, NEW reg \in Addresses, NEW data \in SUBSET (0 .. 10),
         Write(reg, data), clean', Unlocked(registers)
  PROVE  /\ clean /\ awake' = awake
         /\ registers' = [registers EXCEPT ![reg] = data \ (IF reg = DCR THEN {CLR_FLT} ELSE {})]
         /\ calibrated => calibrated'
         /\ (\A phase \in DOMAIN CSA_CAL : Calibrating(phase)') => calibrated'
<1>1. registers \in RegisterMap
  BY DEF DrvTypeOK, RegisterMap
<1>2. PICK ret : _SPI_WRITE(Shifted(reg, 11) \union data, ret)
  BY DEF Write
<1>3. QED
  BY <1>1, <1>2, CleanTransfer, TakenValue

LEMMA WriteType ==
  ASSUME DrvTypeOK, NEW reg, NEW data, Write(reg, data)
  PROVE  /\ awake' = awake /\ calibrated' \in BOOLEAN /\ clean' \in BOOLEAN
         /\ registers' \in RegisterMap /\ failures' \in 0 .. MaxFailures
<1>1. PICK ret : _SPI_WRITE(Shifted(reg, 11) \union data, ret)
  BY DEF Write
<1>2. QED
  BY <1>1, TransferType

(***************************************************************************)
(* The words of the start-up, as sets of bits.                             *)
(***************************************************************************)
LEMMA StartUpWords ==
  /\ drv8323_calibrate => Write(CSACR, BitsOf(2^11))
  /\ drv8323_write_dcr(1, 1, 1) => Write(DCR, GateOn \union {CLR_FLT})
  /\ drv8323_write_csacr(1, 3, 0, DOMAIN CSA_CAL, 3) => Write(CSACR, {0, 1, 2, 3, 4, 6, 7, 9})
  /\ drv8323_write_csacr(1, 3, 1, {}, 3) => Write(CSACR, Csacr)
  /\ drv8323_write_ocpcr(1, 0, 3, 3, 15) => Write(OCPCR, Ocpcr)
<1>1. /\ Shifted({0}, 8) = {8} /\ Shifted({0}, 5) = {5} /\ Shifted({0}, 10) = {10}
      /\ Shifted({0}, 9) = {9}
  BY DEF Shifted
<1>2. /\ Shifted({0, 1}, 6) = {6, 7} /\ Shifted({0, 1}, 4) = {4, 5}
      /\ Shifted({}, 8) = {} /\ Shifted({}, 5) = {}
  BY DEF Shifted
<1>3. {CSA_CAL[phase] : phase \in DOMAIN CSA_CAL} = {2, 3, 4}
  BY DEF CSA_CAL
<1>4. {CSA_CAL[phase] : phase \in {}} = {}
  OBVIOUS
<1>5. drv8323_write_dcr(1, 1, 1) => Write(DCR, GateOn \union {CLR_FLT})
  <2>1. ({8} \union {5}) \union {0} = GateOn \union {CLR_FLT}
    BY WordValues DEF CLR_FLT
  <2>2. QED
    BY <1>1, <2>1, WordValues DEF drv8323_write_dcr
<1>6. drv8323_write_csacr(1, 3, 0, DOMAIN CSA_CAL, 3) => Write(CSACR, {0, 1, 2, 3, 4, 6, 7, 9})
  <2>1. CsacrWord(1, 3, 0, DOMAIN CSA_CAL, 3)
          = ((({9} \union {6, 7}) \union {}) \union {2, 3, 4}) \union {0, 1}
    BY <1>1, <1>2, <1>3, WordValues DEF CsacrWord
  <2>2. ((({9} \union {6, 7}) \union {}) \union {2, 3, 4}) \union {0, 1} = {0, 1, 2, 3, 4, 6, 7, 9}
    OBVIOUS
  <2>3. QED
    BY <2>1, <2>2 DEF drv8323_write_csacr
<1>7. drv8323_write_csacr(1, 3, 1, {}, 3) => Write(CSACR, Csacr)
  <2>1. CsacrWord(1, 3, 1, {}, 3)
          = ((({9} \union {6, 7}) \union {5}) \union {}) \union {0, 1}
    BY <1>1, <1>2, <1>4, WordValues DEF CsacrWord
  <2>2. ((({9} \union {6, 7}) \union {5}) \union {}) \union {0, 1} = Csacr
    BY WordValues
  <2>3. QED
    BY <2>1, <2>2 DEF drv8323_write_csacr
<1>8. drv8323_write_ocpcr(1, 0, 3, 3, 15) => Write(OCPCR, Ocpcr)
  <2>1. ((({10} \union {}) \union {6, 7}) \union {4, 5}) \union {0, 1, 2, 3} = Ocpcr
    BY WordValues
  <2>2. QED
    BY <1>1, <1>2, <2>1, WordValues DEF drv8323_write_ocpcr
<1>9. QED
  BY <1>5, <1>6, <1>7, <1>8 DEF drv8323_calibrate
-------------------------------------------------------------------------------
(***************************************************************************)
(* Every step of the driver keeps the types.                               *)
(***************************************************************************)
LEMMA DrvTypeStep ==
  ASSUME DrvTypeOK, StartUp \/ SwitchGateDriver \/ DrvReset
  PROVE  DrvTypeOK'
<1> USE DEF At, Go
<1>1. /\ {awake, calibrated, coast, clean} \subseteq BOOLEAN
      /\ registers \in RegisterMap /\ val \subseteq 0 .. 15 /\ failures \in 0 .. MaxFailures
  BY DEF DrvTypeOK, RegisterMap
<1>2. CASE Sleep
  BY <1>1, <1>2, DefaultsType DEF Sleep, DrvTypeOK, RegisterMap
<1>3. CASE Wake
  BY <1>1, <1>3 DEF Wake, DrvTypeOK, RegisterMap
<1>4. CASE Calibrate \/ WriteDcr \/ CalibrateCsa \/ WriteCsacr
  <2>1. \E reg, data : Write(reg, data)
    BY <1>4 DEF Calibrate, WriteDcr, CalibrateCsa, WriteCsacr, drv8323_calibrate,
                drv8323_write_dcr, drv8323_write_csacr
  <2>2. /\ awake' = awake /\ calibrated' \in BOOLEAN /\ clean' \in BOOLEAN
        /\ registers' \in RegisterMap /\ failures' \in 0 .. MaxFailures
    BY <2>1, WriteType
  <2>3. UNCHANGED <<val, coast>> /\ drv_pc' \in {"dcr", "csacr_cal", "csacr", "ocpcr"}
    BY <1>4 DEF Calibrate, WriteDcr, CalibrateCsa, WriteCsacr
  <2>4. QED
    BY <1>1, <2>2, <2>3 DEF DrvTypeOK, RegisterMap
<1>5. CASE WriteOcpcr
  <2>1. \E reg, data : Write(reg, data)
    BY <1>5 DEF WriteOcpcr, drv8323_write_ocpcr
  <2>2. /\ awake' = awake /\ calibrated' \in BOOLEAN /\ clean' \in BOOLEAN
        /\ registers' \in RegisterMap /\ failures' \in 0 .. MaxFailures
    BY <2>1, WriteType
  <2>3. val' = val /\ coast' = FALSE /\ drv_pc' = "read"
    BY <1>5 DEF WriteOcpcr
  <2>4. QED
    BY <1>1, <2>2, <2>3 DEF DrvTypeOK, RegisterMap
<1>6. CASE ReadDcr
  <2>1. PICK ret \in Garbage \union {registers[DCR]} :
          /\ _SPI_WRITE({15} \union Shifted(DCR, 11), ret)
          /\ val' = IF coast THEN ret \union {COAST} ELSE ret \ {COAST}
    BY <1>6 DEF ReadDcr
  <2>2. ret \subseteq 0 .. 15
    <3>1. registers[DCR] \subseteq 0 .. 10
      BY <1>1 DEF RegisterMap, Addresses
    <3>2. QED
      BY <3>1, DrvAssumption
  <2>3. val' \subseteq 0 .. 15
    BY <2>1, <2>2 DEF COAST
  <2>4. /\ awake' = awake /\ calibrated' \in BOOLEAN /\ clean' \in BOOLEAN
        /\ registers' \in RegisterMap /\ failures' \in 0 .. MaxFailures
    BY <2>1, TransferType
  <2>5. coast' = coast /\ drv_pc' = "write"
    BY <1>6 DEF ReadDcr
  <2>6. QED
    BY <1>1, <2>3, <2>4, <2>5 DEF DrvTypeOK, RegisterMap
<1>7. CASE drv8323_write_register
  <2>1. /\ awake' = awake /\ calibrated' \in BOOLEAN /\ clean' \in BOOLEAN
        /\ registers' \in RegisterMap /\ failures' \in 0 .. MaxFailures
    BY <1>7, WriteType DEF drv8323_write_register
  <2>2. val' = {} /\ coast' = coast /\ drv_pc' = "ready"
    BY <1>7 DEF drv8323_write_register
  <2>3. QED
    BY <1>1, <2>1, <2>2 DEF DrvTypeOK, RegisterMap
<1>8. CASE SwitchGateDriver
  BY <1>1, <1>8 DEF SwitchGateDriver, DrvTypeOK, RegisterMap
<1>9. CASE DrvReset
  BY <1>1, <1>9 DEF DrvReset, DrvTypeOK, RegisterMap
<1>10. QED
  BY <1>2, <1>3, <1>4, <1>5, <1>6, <1>7, <1>8, <1>9 DEF StartUp

(***************************************************************************)
(* Every step of the driver brings a clean start-up where it should be.    *)
(***************************************************************************)
LEMMA ConfigStep ==
  ASSUME DrvTypeOK, ConfigInv, StartUp \/ SwitchGateDriver \/ DrvReset
  PROVE  ConfigInv'
<1> USE DEF At, Go, Awake, Measuring
<1>1. SUFFICES ASSUME clean'
               PROVE  ConfigInv'
  BY DEF ConfigInv
<1>2. registers \in RegisterMap /\ DOMAIN registers = Addresses
      /\ DCR \in Addresses /\ CSACR \in Addresses /\ OCPCR \in Addresses
      /\ HSR \in Addresses /\ LSR \in Addresses
      /\ DCR # CSACR /\ DCR # OCPCR /\ CSACR # OCPCR
      /\ HSR \notin {DCR, CSACR, OCPCR} /\ LSR \notin {DCR, CSACR, OCPCR}
  BY AddressValues DEF DrvTypeOK, RegisterMap, Addresses
<1>3. clean /\ registers[HSR] = Defaults[HSR] => Unlocked(registers)
  BY DefaultsType DEF Unlocked
<1>4. /\ GateOn \union {CLR_FLT} \in SUBSET (0 .. 10) /\ Csacr \in SUBSET (0 .. 10)
      /\ Ocpcr \in SUBSET (0 .. 10) /\ {0, 1, 2, 3, 4, 6, 7, 9} \in SUBSET (0 .. 10)
      /\ Switched \in SUBSET (0 .. 10)
      /\ Csacr \ {} = Csacr /\ Ocpcr \ {} = Ocpcr
      /\ Switched \ {CLR_FLT} = Switched /\ (GateOn \union {CLR_FLT}) \ {CLR_FLT} = GateOn
  BY WordValues DEF CLR_FLT, Switched, COAST
<1>5. CASE Sleep
  BY <1>5 DEF Sleep, ConfigInv
<1>6. CASE Wake
  BY <1>1, <1>6 DEF Wake, ConfigInv
<1>7. CASE Calibrate
  <2>1. drv_pc = "calibrate" /\ drv_pc' = "dcr"
    BY <1>7 DEF Calibrate
  <2>2. PICK ret : _SPI_WRITE(Shifted(CSACR, 11) \union BitsOf(2^11), ret)
    BY <1>7, StartUpWords DEF Calibrate, Write
  <2>3. clean /\ awake' = awake /\ registers' = registers
    BY <1>1, <1>2, <2>2, CleanTransfer, TakenByNone
  <2>4. QED
    BY <2>1, <2>3 DEF ConfigInv
<1>8. CASE WriteDcr
  <2>1. drv_pc = "dcr" /\ drv_pc' = "csacr_cal" /\ Write(DCR, GateOn \union {CLR_FLT})
    BY <1>8, StartUpWords DEF WriteDcr
  <2>2. clean
    BY <1>1, <2>1, CleanTransfer DEF Write
  <2>3. /\ awake' = awake /\ registers' = [registers EXCEPT ![DCR] = GateOn]
    BY <1>1, <1>2, <1>3, <1>4, <2>1, <2>2, CleanWrite DEF ConfigInv
  <2>4. QED
    BY <1>2, <2>1, <2>2, <2>3 DEF ConfigInv
<1>9. CASE CalibrateCsa
  <2>1. /\ drv_pc = "csacr_cal" /\ drv_pc' = "csacr"
        /\ Write(CSACR, {0, 1, 2, 3, 4, 6, 7, 9})
    BY <1>9, StartUpWords DEF CalibrateCsa
  <2>2. clean
    BY <1>1, <2>1, CleanTransfer DEF Write
  <2>3. /\ awake' = awake /\ registers' = [registers EXCEPT ![CSACR] = {0, 1, 2, 3, 4, 6, 7, 9}]
        /\ (\A phase \in DOMAIN CSA_CAL : Calibrating(phase)') => calibrated'
    <3> DEFINE word == {0, 1, 2, 3, 4, 6, 7, 9}
    <3>1. word \ {} = word /\ word \in SUBSET (0 .. 10) /\ Write(CSACR, word)
      BY <2>1
    <3>2. Unlocked(registers) /\ CSACR \in Addresses /\ CSACR # DCR
      BY <1>2, <1>3, <2>1, <2>2 DEF ConfigInv
    <3> HIDE DEF word
    <3>3. /\ awake' = awake
          /\ registers' = [registers EXCEPT ![CSACR] = word \ {}]
          /\ (\A phase \in DOMAIN CSA_CAL : Calibrating(phase)') => calibrated'
      BY <1>1, <3>1, <3>2, CleanWrite
    <3>4. QED
      BY <3>1, <3>3 DEF word
  <2>4. awake' /\ registers'[CSACR] = {0, 1, 2, 3, 4, 6, 7, 9}
    BY <1>2, <2>1, <2>2, <2>3 DEF ConfigInv
  <2>5. \A phase \in DOMAIN CSA_CAL : CSA_CAL[phase] \in {0, 1, 2, 3, 4, 6, 7, 9}
    BY DEF CSA_CAL
  <2>6. calibrated'
    BY <2>3, <2>4, <2>5 DEF Calibrating
  <2>7. QED
    BY <1>2, <2>1, <2>2, <2>3, <2>6 DEF ConfigInv
<1>10. CASE WriteCsacr
  <2>1. drv_pc = "csacr" /\ drv_pc' = "ocpcr" /\ Write(CSACR, Csacr)
    BY <1>10, StartUpWords DEF WriteCsacr
  <2>2. clean
    BY <1>1, <2>1, CleanTransfer DEF Write
  <2>3. /\ awake' = awake /\ registers' = [registers EXCEPT ![CSACR] = Csacr]
        /\ calibrated => calibrated'
    BY <1>1, <1>2, <1>3, <1>4, <2>1, <2>2, CleanWrite DEF ConfigInv
  <2>4. QED
    BY <1>2, <2>1, <2>2, <2>3 DEF ConfigInv
<1>11. CASE WriteOcpcr
  <2>1. drv_pc = "ocpcr" /\ drv_pc' = "read" /\ Write(OCPCR, Ocpcr)
    BY <1>11, StartUpWords DEF WriteOcpcr
  <2>2. clean
    BY <1>1, <2>1, CleanTransfer DEF Write
  <2>3. /\ awake' = awake /\ registers' = [registers EXCEPT ![OCPCR] = Ocpcr]
        /\ calibrated => calibrated'
    BY <1>1, <1>2, <1>3, <1>4, <2>1, <2>2, CleanWrite DEF ConfigInv
  <2>4. QED
    BY <1>2, <2>1, <2>2, <2>3 DEF ConfigInv
<1>12. CASE ReadDcr
  <2>1. PICK ret \in Garbage \union {registers[DCR]} :
          /\ _SPI_WRITE({15} \union Shifted(DCR, 11), ret)
          /\ val' = IF coast THEN ret \union {COAST} ELSE ret \ {COAST}
    BY <1>12 DEF ReadDcr
  <2>2. drv_pc = "read" /\ drv_pc' = "write" /\ coast' = coast
    BY <1>12 DEF ReadDcr
  <2>3. clean /\ awake' = awake /\ registers' = registers /\ ret = registers[DCR]
        /\ (calibrated => calibrated')
    BY <1>1, <1>2, <2>1, CleanTransfer, ReadValue
  <2>4. registers[DCR] \in {GateOn, GateOn \union {COAST}}
    BY <2>2, <2>3 DEF ConfigInv
  <2>5. val' = Switched
    BY <2>1, <2>3, <2>4, WordValues DEF Switched, COAST
  <2>6. Switched' = Switched
    BY <2>2 DEF Switched
  <2>7. QED
    BY <2>2, <2>3, <2>5, <2>6 DEF ConfigInv
<1>13. CASE drv8323_write_register
  <2>1. /\ drv_pc = "write" /\ drv_pc' = "ready" /\ coast' = coast /\ Write(DCR, val)
    BY <1>13 DEF drv8323_write_register
  <2>2. clean
    BY <1>1, <2>1, CleanTransfer DEF Write
  <2>3. val = Switched
    BY <2>1, <2>2 DEF ConfigInv
  <2>4. /\ awake' = awake /\ registers' = [registers EXCEPT ![DCR] = Switched]
        /\ calibrated => calibrated'
    BY <1>1, <1>2, <1>3, <1>4, <2>1, <2>2, <2>3, CleanWrite DEF ConfigInv
  <2>5. Switched' = Switched /\ Switched \in {GateOn, GateOn \union {COAST}}
    BY <2>1 DEF Switched
  <2>6. QED
    BY <1>2, <2>1, <2>2, <2>4, <2>5 DEF ConfigInv
<1>14. CASE SwitchGateDriver
  BY <1>14 DEF SwitchGateDriver, ConfigInv
<1>15. CASE DrvReset
  BY <1>15 DEF DrvReset, ConfigInv
<1>16. QED
  BY <1>5, <1>6, <1>7, <1>8, <1>9, <1>10, <1>11, <1>12, <1>13, <1>14, <1>15 DEF StartUp
-------------------------------------------------------------------------------
(***************************************************************************)
(* The arithmetic of a measurement: one more sample keeps the bound on the *)
(* sum, and the quotient at the end is near the bias.                      *)
(***************************************************************************)
LEMMA ProductOrder ==
  ASSUME NEW a \in Nat, NEW x \in Int, NEW y \in Int
  PROVE  /\ x <= y => a * x <= a * y
         /\ a > 0 /\ a * x <= a * y => x <= y
<1>1. x <= y => a * x <= a * y
  <2>1. SUFFICES ASSUME x <= y PROVE a * x <= a * y
    OBVIOUS
  <2>2. y - x \in Nat
    BY <2>1
  <2>3. a * (y - x) \in Nat
    BY <2>2
  <2>4. a * (y - x) = a * y - a * x
    OBVIOUS
  <2>5. QED
    BY <2>3, <2>4
<1>2. ASSUME a > 0, y < x PROVE a * y < a * x
  <2>1. x - y >= 1 /\ x - y \in Nat /\ x - y - 1 \in Nat
    BY <1>2
  <2>2. a * (x - y - 1) \in Nat
    BY <2>1
  <2>3. a * (x - y - 1) = a * x - a * y - a
    OBVIOUS
  <2>4. QED
    BY <1>2, <2>2, <2>3
<1>3. QED
  BY <1>1, <1>2

LEMMA FirstSample ==
  ASSUME NEW o \in Nat, NEW v \in Nat, v <= 2 * Bias,
         (Rounds - 1) * o <= (Rounds + 1) * Bias
  PROVE  (Rounds - 1) * (o + v) <= 2 * (Rounds * Bias) + (Rounds - 1) * Bias
<1>1. PICK q \in Nat : q = Rounds - 1
  BY CurrentAssumption
<1>2. Rounds \in Nat /\ Bias \in Nat
  BY CurrentAssumption
<1>3. q * v <= q * (2 * Bias)
  BY <1>1, <1>2, ProductOrder
<1>4. q * (o + v) = q * o + q * v
  BY <1>1
<1>5. PICK qb \in Nat : qb = q * Bias
  BY <1>1, <1>2
<1>6. q * (2 * Bias) = 2 * qb /\ Rounds * Bias = qb + Bias /\ (Rounds + 1) * Bias = qb + 2 * Bias
  <2>1. Rounds = q + 1 /\ Rounds + 1 = q + 2
    BY <1>1, <1>2
  <2>2. /\ q * (2 * Bias) = 2 * (q * Bias) /\ (q + 1) * Bias = q * Bias + Bias
        /\ (q + 2) * Bias = q * Bias + 2 * Bias
    BY <1>1, <1>2
  <2>3. QED
    BY <1>5, <2>1, <2>2
<1>7. q * o \in Int /\ q * v \in Int /\ q * o <= qb + 2 * Bias
  BY <1>1, <1>6
<1>8. q * (o + v) <= 2 * (qb + Bias) + qb
  BY <1>2, <1>3, <1>4, <1>5, <1>6, <1>7
<1>9. QED
  BY <1>1, <1>5, <1>6, <1>8

LEMMA SampleAdded ==
  ASSUME NEW k \in Nat, NEW c \in Int, NEW o \in Nat, NEW v \in Nat, v <= Bias,
         (Rounds - 1) * o <= c + (Rounds - 1) * (k * Bias)
  PROVE  (Rounds - 1) * (o + v) <= c + (Rounds - 1) * ((k + 1) * Bias)
<1>1. PICK q \in Nat : q = Rounds - 1
  BY CurrentAssumption
<1>2. Rounds \in Nat /\ Bias \in Nat
  BY CurrentAssumption
<1>3. q * v <= q * Bias
  BY <1>1, <1>2, ProductOrder
<1>4. q * (o + v) = q * o + q * v
  BY <1>1
<1>5. PICK kb \in Nat : kb = k * Bias
  BY <1>2
<1>6. (k + 1) * Bias = kb + Bias
  BY <1>2, <1>5
<1>7. q * (kb + Bias) = q * kb + q * Bias
  BY <1>1, <1>2, <1>5
<1>8. q * o <= c + q * kb
  BY <1>1, <1>5
<1>9. q * o + q * v <= c + (q * kb + q * Bias)
  <2>1. q * o \in Int /\ q * v \in Int /\ q * kb \in Int /\ q * Bias \in Int
    BY <1>1, <1>2, <1>5
  <2>2. QED
    BY <1>3, <1>8, <2>1
<1>10. QED
  BY <1>1, <1>4, <1>6, <1>7, <1>9

LEMMA QuotientNearBias ==
  ASSUME NEW s \in Nat,
         (Rounds - 1) * s <= 2 * (Rounds * Bias) + (Rounds - 1) * (Rounds * Bias),
         (Rounds - 1) * Bias <= s
  PROVE  /\ s \div Rounds \in Nat
         /\ (Rounds - 1) * (s \div Rounds) <= (Rounds + 1) * Bias
         /\ (Rounds - 2) * Bias <= (Rounds - 1) * (s \div Rounds)
<1>1. PICK q \in Nat : q = Rounds - 1
  BY CurrentAssumption
<1>2. Rounds \in Nat /\ Rounds = q + 1 /\ q > 0 /\ Bias \in Nat /\ q * q <= Bias
  BY <1>1, CurrentAssumption
<1>3. s \div Rounds \in Int /\ s % Rounds \in 0 .. Rounds - 1
      /\ s = Rounds * (s \div Rounds) + (s % Rounds)
  BY <1>2
<1>4. PICK d \in Int, m \in 0 .. q : d = s \div Rounds /\ m = s % Rounds
  BY <1>2, <1>3
<1>5. s = Rounds * d + m
  BY <1>3, <1>4
<1>6. d \in Nat
  <2>1. SUFFICES ASSUME d <= -1 PROVE FALSE
    BY <1>4
  <2>2. Rounds * d <= Rounds * (-1)
    BY <1>2, <1>4, <2>1, ProductOrder
  <2>3. Rounds * (-1) = -Rounds
    BY <1>2
  <2>4. QED
    BY <1>2, <1>4, <1>5, <2>2, <2>3
<1>7. q * d <= (Rounds + 1) * Bias
  <2>1. PICK b \in Nat : b = (Rounds + 1) * Bias
    BY <1>2
  <2>2. 2 * (Rounds * Bias) + q * (Rounds * Bias) = Rounds * b
    <3>1. PICK rb \in Nat : rb = Rounds * Bias
      BY <1>2
    <3>2. b = rb + Bias /\ Rounds * b = q * b + b
      BY <1>2, <2>1, <3>1
    <3>3. q * b = q * rb + q * Bias /\ rb = q * Bias + Bias
      BY <1>2, <3>1, <3>2
    <3>4. QED
      <4>1. q * rb \in Int /\ q * Bias \in Int /\ q * b \in Int
        BY <1>2, <2>1, <3>1
      <4>2. QED
        BY <1>2, <3>1, <3>2, <3>3, <4>1
  <2>3. q * s <= Rounds * b
    BY <1>1, <2>2
  <2>4. q * (Rounds * d) <= q * s
    <3>1. Rounds * d \in Int /\ Rounds * d <= s
      BY <1>2, <1>4, <1>5
    <3>2. QED
      BY <1>2, <3>1, ProductOrder
  <2>5. q * (Rounds * d) = Rounds * (q * d)
    BY <1>2, <1>4
  <2>6. q * d \in Int /\ Rounds * (q * d) <= Rounds * b
    <3>1. q * d \in Int /\ Rounds * (q * d) \in Int /\ Rounds * b \in Int /\ q * s \in Int
      BY <1>2, <1>4, <2>1
    <3>2. QED
      BY <2>3, <2>4, <2>5, <3>1
  <2>7. QED
    BY <1>2, <2>1, <2>6, ProductOrder
<1>8. (q - 1) * Bias <= q * d
  <2>1. Rounds * d >= q * Bias - q
    <3>1. Rounds * d \in Int /\ q * Bias \in Int
      BY <1>2, <1>4
    <3>2. QED
      BY <1>1, <1>2, <1>4, <1>5, <3>1
  <2>2. q * (q * Bias - q) <= q * (Rounds * d)
    <3>1. Rounds * d \in Int /\ q * Bias - q \in Int
      BY <1>2, <1>4
    <3>2. QED
      BY <1>2, <2>1, <3>1, ProductOrder
  <2>3. q * (q * Bias - q) = q * (q * Bias) - q * q
    BY <1>2
  <2>4. Rounds * ((q - 1) * Bias) = q * (q * Bias) - Bias
    <3>1. (q - 1) * Bias = q * Bias - Bias
      BY <1>2
    <3>2. PICK b \in Int : b = q * Bias
      BY <1>2
    <3>3. (q + 1) * (b - Bias) = q * b + b - q * Bias - Bias
      BY <1>2, <3>2
    <3>4. QED
      BY <1>2, <3>1, <3>2, <3>3
  <2>5. q * (Rounds * d) = Rounds * (q * d)
    BY <1>2, <1>4
  <2>6. q * d \in Int /\ (q - 1) * Bias \in Int
    BY <1>2, <1>4
  <2>7. Rounds * ((q - 1) * Bias) <= Rounds * (q * d)
    <3>1. Rounds * (q * d) \in Int /\ q * (q * Bias) \in Int /\ q * q \in Int
      BY <1>2, <1>4, <2>6
    <3>2. QED
      BY <1>2, <2>2, <2>3, <2>4, <2>5, <3>1
  <2>8. QED
    BY <1>2, <2>6, <2>7, ProductOrder
<1>9. Rounds - 2 = q - 1 /\ Rounds - 1 = q /\ s \div Rounds = d
  BY <1>2, <1>4
<1>10. QED
  BY <1>6, <1>7, <1>8, <1>9
-------------------------------------------------------------------------------
(***************************************************************************)
(* What a measurement keeps, and ends with.                                *)
(***************************************************************************)
LEMMA OffsetStep ==
  ASSUME TypeOK, OffsetInv, SampleInv, current_calibrate_offsets
  PROVE  /\ rounds' \in 0 .. Rounds - 1 /\ offset' \in [Phases -> Nat]
         /\ zeroed' \in BOOLEAN /\ OffsetInv'
<1> DEFINE sum == [p \in Phases |-> offset[p] + adc_val[p]]
<1>1. /\ offset \in [Phases -> Nat] /\ adc_val \in [Phases -> Nat] /\ zeroed \in BOOLEAN
      /\ rounds \in 0 .. Rounds - 1 /\ Rounds \in Nat /\ Rounds >= 2 /\ Bias \in Nat
  BY CurrentAssumption DEF TypeOK
<1>2. ASSUME NEW p \in Phases
      PROVE  /\ adc_val[p] <= 2 * Bias /\ (rounds > 0 => adc_val[p] = Bias)
             /\ offset[p] \in Nat /\ adc_val[p] \in Nat
  BY <1>1, <1>2 DEF current_calibrate_offsets, Settled, SampleInv
<1>3. ASSUME NEW p \in Phases
      PROVE  /\ sum[p] \in Nat
             /\ (Rounds - 1) * sum[p] <= 2 * (Rounds * Bias) + (Rounds - 1) * ((rounds + 1) * Bias)
             /\ rounds * Bias <= sum[p]
  <2>1. sum[p] = offset[p] + adc_val[p]
    OBVIOUS
  <2>2. /\ rounds = 0 => (Rounds - 1) * offset[p] <= (Rounds + 1) * Bias
        /\ rounds > 0 => (Rounds - 1) * offset[p]
                            <= 2 * (Rounds * Bias) + (Rounds - 1) * (rounds * Bias)
    BY DEF OffsetInv
  <2>3. rounds > 0 => (rounds - 1) * Bias <= offset[p]
    BY DEF OffsetInv
  <2> HIDE DEF sum
  <2>4. (Rounds - 1) * sum[p] <= 2 * (Rounds * Bias) + (Rounds - 1) * ((rounds + 1) * Bias)
    <3>1. offset[p] \in Nat /\ adc_val[p] \in Nat /\ rounds \in Nat
      BY <1>1, <1>2
    <3>2. CASE rounds = 0
      <4>1. (rounds + 1) * Bias = Bias
        BY <1>1, <3>2
      <4>2. (Rounds - 1) * (offset[p] + adc_val[p]) <= 2 * (Rounds * Bias) + (Rounds - 1) * Bias
        BY <1>2, <2>2, <3>1, <3>2, FirstSample
      <4>3. QED
        BY <2>1, <4>1, <4>2
    <3>3. CASE rounds > 0
      <4>1. adc_val[p] <= Bias /\ 2 * (Rounds * Bias) \in Int
        BY <1>1, <1>2, <3>3
      <4>2. (Rounds - 1) * (offset[p] + adc_val[p])
              <= 2 * (Rounds * Bias) + (Rounds - 1) * ((rounds + 1) * Bias)
        BY <2>2, <3>1, <3>3, <4>1, SampleAdded
      <4>3. QED
        BY <2>1, <4>2
    <3>4. QED
      BY <3>1, <3>2, <3>3
  <2>5. rounds * Bias <= sum[p]
    <3>1. CASE rounds = 0
      BY <1>1, <1>2, <2>1, <3>1
    <3>2. CASE rounds > 0
      <4>1. (rounds - 1) * Bias = rounds * Bias - Bias
        BY <1>1
      <4>2. PICK b \in Int : b = rounds * Bias
        BY <1>1
      <4>3. b - Bias <= offset[p]
        BY <2>3, <3>2, <4>1, <4>2
      <4>4. QED
        BY <1>1, <1>2, <2>1, <3>2, <4>2, <4>3
    <3>3. QED
      BY <1>1, <3>1, <3>2
  <2>6. QED
    BY <1>2, <2>1, <2>4, <2>5
<1> HIDE DEF sum
<1>4. CASE rounds + 1 < Rounds
  <2>1. offset' = sum /\ rounds' = rounds + 1 /\ zeroed' = zeroed
    BY <1>4 DEF current_calibrate_offsets, sum
  <2>2. sum \in [Phases -> Nat]
    BY <1>1 DEF sum
  <2>3. rounds' - 1 = rounds /\ rounds' > 0 /\ rounds' # 0
    BY <1>1, <2>1
  <2>4. OffsetInv'
    BY <1>3, <2>1, <2>3 DEF OffsetInv
  <2>5. QED
    BY <1>1, <1>4, <2>1, <2>2, <2>4
<1>5. CASE ~(rounds + 1 < Rounds)
  <2>1. /\ offset' = [p \in Phases |-> sum[p] \div Rounds]
        /\ rounds' = 0 /\ zeroed' = TRUE
    BY <1>5 DEF current_calibrate_offsets, sum
  <2>2. rounds + 1 = Rounds
    BY <1>1, <1>5
  <2>3. ASSUME NEW p \in Phases
        PROVE  /\ offset'[p] \in Nat
               /\ (Rounds - 1) * offset'[p] <= (Rounds + 1) * Bias
               /\ (Rounds - 2) * Bias <= (Rounds - 1) * offset'[p]
    <3>1. rounds = Rounds - 1
      BY <1>1, <2>2
    <3>2. QED
      BY <1>3, <2>1, <2>2, <3>1, QuotientNearBias
  <2>5. OffsetInv'
    BY <2>1, <2>3 DEF OffsetInv
  <2>6. offset' \in [Phases -> Nat]
    BY <2>1, <2>3
  <2>7. QED
    BY <1>1, <2>1, <2>5, <2>6
<1>6. QED
  BY <1>4, <1>5

(***************************************************************************)
(* The products of OffsetInv say what OffsetNearBias does.                 *)
(***************************************************************************)
LEMMA OffsetNear ==
  ASSUME TypeOK, OffsetInv
  PROVE  OffsetNearBias
<1>1. /\ offset \in [Phases -> Nat] /\ Rounds \in Nat /\ Rounds >= 2 /\ Bias \in Nat
  BY CurrentAssumption DEF TypeOK
<1>2. SUFFICES ASSUME zeroed, rounds = 0, NEW p \in Phases
               PROVE  (Rounds - 1) * Distance(offset[p], Bias) <= 2 * Bias
  BY DEF OffsetNearBias
<1>3. PICK q \in Nat : q = Rounds - 1
  BY <1>1
<1>3a. PICK d \in Nat : d = offset[p]
  BY <1>1
<1>4. q * d <= (Rounds + 1) * Bias /\ (Rounds - 2) * Bias <= q * d
  BY <1>2, <1>3, <1>3a DEF OffsetInv
<1>5. PICK qb \in Int, qd \in Int : qb = q * Bias /\ qd = q * d
  BY <1>1, <1>3
<1>6. (Rounds + 1) * Bias = qb + 2 * Bias /\ (Rounds - 2) * Bias = qb - Bias
  <2>1. Rounds + 1 = q + 2 /\ Rounds - 2 = q - 1
    BY <1>1, <1>3
  <2>2. (q + 2) * Bias = q * Bias + 2 * Bias /\ (q - 1) * Bias = q * Bias - Bias
    BY <1>1, <1>3
  <2>3. QED
    BY <1>1, <1>3, <1>5, <2>1, <2>2
<1>7. qd <= qb + 2 * Bias /\ qb - Bias <= qd
  BY <1>1, <1>4, <1>5, <1>6
<1>8. CASE d < Bias
  <2>1. Distance(d, Bias) = Bias - d
    BY <1>8 DEF Distance
  <2>2. q * (Bias - d) = qb - qd
    BY <1>1, <1>3, <1>5
  <2>3. QED
    BY <1>1, <1>3, <1>3a, <1>5, <1>7, <2>1, <2>2
<1>9. CASE ~(d < Bias)
  <2>1. Distance(d, Bias) = d - Bias
    BY <1>9 DEF Distance
  <2>2. q * (d - Bias) = qd - qb
    BY <1>1, <1>3, <1>5
  <2>3. QED
    BY <1>1, <1>3, <1>3a, <1>5, <1>7, <2>1, <2>2
<1>10. QED
  BY <1>8, <1>9
-------------------------------------------------------------------------------
(***************************************************************************)
(* A sample is never negative nor above the range; while the amplifiers    *)
(* measure it is the current, on top of the bias.                          *)
(***************************************************************************)
LEMMA SampleValue ==
  ASSUME TypeOK, NEW p \in Phases
  PROVE  /\ Sample(p) \in Nat /\ Sample(p) <= 2 * Bias
         /\ ConfigInv /\ clean /\ drv_pc \in Measuring => Sample(p) = Bias + now[p]
<1>1. now \in [Phases -> 1 - Bias .. Bias] /\ Bias \in Nat
  BY CurrentAssumption DEF TypeOK
<1>2. PICK x \in 1 - Bias .. Bias : x = now[p]
  BY <1>1
<1>3. Sample(p) \in Nat /\ Sample(p) <= 2 * Bias
  BY <1>1, <1>2 DEF Sample
<1>4. ASSUME ConfigInv, clean, drv_pc \in Measuring
      PROVE  Sample(p) = Bias + now[p]
  <2>1. awake /\ registers[CSACR] = Csacr
    BY <1>4 DEF ConfigInv, Awake, Measuring
  <2>2. CSA_CAL[p] \notin Csacr
    BY WordValues DEF CSA_CAL, Phases
  <2>3. ~Calibrating(p)
    BY <2>1, <2>2 DEF Calibrating
  <2>4. QED
    BY <2>1, <2>3 DEF Sample
<1>5. QED
  BY <1>3, <1>4

LEMMA NothingType == Nothing \in Currents /\ Nothing \in [Phases -> Nat]
                     /\ Nothing \in [Phases -> Int]
BY CurrentAssumption DEF Nothing

LEMMA ZeroRounds == 0 \in 0 .. Rounds - 1
BY CurrentAssumption

LEMMA InitIInv == Init => IInv
<1> SUFFICES ASSUME Init PROVE IInv
  OBVIOUS
<1>1. DrvTypeOK
  <2>1. 0 \in 0 .. MaxFailures
    BY DrvAssumption
  <2>2. QED
    BY <2>1, DefaultsType DEF Init, DrvInit, DrvTypeOK, RegisterMap
<1>2. TypeOK
  BY <1>1, NothingType, ZeroRounds DEF Init, TypeOK
<1>3. ConfigInv
  BY DEF Init, DrvInit, ConfigInv
<1>4. OffsetInv
  <2>1. (Rounds + 1) * Bias \in Nat /\ (Rounds - 1) * 0 = 0
    BY CurrentAssumption
  <2>2. QED
    BY <2>1 DEF Init, OffsetInv, Nothing
<1>5. SampleInv
  BY CurrentAssumption DEF Init, SampleInv, Nothing
<1>6. QED
  BY <1>2, <1>3, <1>4, <1>5 DEF IInv

(***************************************************************************)
(* Every step keeps the invariant.                                         *)
(***************************************************************************)
LEMMA PeriodKeeps == IInv /\ PwmPeriod => IInv'
<1> SUFFICES ASSUME IInv, PwmPeriod PROVE IInv'
  OBVIOUS
<1>1. /\ converting = {} /\ converting' = Phases /\ before' = now /\ ~interrupted
      /\ UNCHANGED <<awake, registers, calibrated, drv_pc, val, coast, failures, clean>>
      /\ UNCHANGED <<adc_val, ia, last_iab, offset, rounds, reading, interrupted, zeroed>>
  BY DEF PwmPeriod, drv, current
<1>2. now' \in Currents
  BY NothingType DEF PwmPeriod
<1>3. TypeOK'
  BY <1>1, <1>2 DEF IInv, TypeOK, DrvTypeOK
<1>4. ConfigInv' /\ OffsetInv'
  BY <1>1 DEF IInv, ConfigInv, Switched, OffsetInv
<1>5. SampleInv'
  BY <1>1 DEF IInv, SampleInv, Phases
<1>6. QED
  BY <1>3, <1>4, <1>5 DEF IInv

LEMMA ConversionKeeps ==
  ASSUME IInv, NEW p \in Phases, HAL_ADCEx_InjectedConvCpltCallback(p)
  PROVE  IInv'
<1>1. /\ p \in converting /\ converting' = converting \ {p}
      /\ adc_val' = [adc_val EXCEPT ![p] = Sample(p)] /\ interrupted' = reading
      /\ UNCHANGED <<awake, registers, calibrated, drv_pc, val, coast, failures, clean>>
      /\ UNCHANGED <<now, before, ia, last_iab, offset, rounds, reading, zeroed>>
  BY DEF HAL_ADCEx_InjectedConvCpltCallback, drv, plant
<1>2. TypeOK /\ ConfigInv /\ OffsetInv /\ SampleInv
  BY DEF IInv
<1>3. Sample(p) \in Nat /\ Sample(p) <= 2 * Bias /\ adc_val \in [Phases -> Nat]
  BY <1>2, SampleValue DEF TypeOK
<1>4. TypeOK'
  BY <1>1, <1>2, <1>3 DEF TypeOK, DrvTypeOK
<1>5. ConfigInv' /\ OffsetInv'
  BY <1>1, <1>2 DEF ConfigInv, Switched, OffsetInv
<1>6. SampleInv'
  <2>1. clean /\ zeroed => Sample(p) = Bias + now[p]
    BY <1>2, SampleValue DEF SampleInv, Measuring
  <2>2. ASSUME clean, zeroed, NEW q \in Phases
        PROVE  adc_val'[q] = Bias + (IF q \in converting' THEN before[q] ELSE now[q])
    <3>1. CASE q = p
      BY <1>1, <1>3, <2>1, <2>2, <3>1
    <3>2. CASE q # p
      BY <1>1, <1>2, <1>3, <2>2, <3>2 DEF SampleInv
    <3>3. QED
      BY <3>1, <3>2
  <2>3. \A q \in Phases : adc_val'[q] <= 2 * Bias
    BY <1>1, <1>2, <1>3 DEF SampleInv
  <2>4. QED
    BY <1>1, <1>2, <2>2, <2>3 DEF SampleInv
<1>7. QED
  BY <1>4, <1>5, <1>6 DEF IInv

LEMMA CalibrationKeeps == IInv /\ current_calibrate_offsets => IInv'
<1> SUFFICES ASSUME IInv, current_calibrate_offsets PROVE IInv'
  OBVIOUS
<1>1. /\ drv_pc = "ready" /\ ~reading
      /\ rounds > 0 => /\ now = Nothing /\ before = Nothing
                       /\ \A p \in Phases : adc_val[p] = Bias
      /\ UNCHANGED <<awake, registers, calibrated, drv_pc, val, coast, failures, clean>>
      /\ UNCHANGED <<now, before, converting, adc_val, ia, last_iab, reading, interrupted>>
  BY DEF current_calibrate_offsets, Settled, drv, plant, adcs
<1>2. TypeOK /\ ConfigInv /\ OffsetInv /\ SampleInv
  BY DEF IInv
<1>3. /\ rounds' \in 0 .. Rounds - 1 /\ offset' \in [Phases -> Nat]
      /\ zeroed' \in BOOLEAN /\ OffsetInv'
  BY <1>2, OffsetStep
<1>4. TypeOK'
  BY <1>1, <1>2, <1>3 DEF TypeOK, DrvTypeOK
<1>5. ConfigInv'
  BY <1>1, <1>2 DEF ConfigInv, Switched
<1>6. zeroed' => zeroed \/ rounds > 0
  <2>1. rounds \in Nat /\ Rounds \in Nat /\ Rounds >= 2
    BY <1>2, CurrentAssumption DEF TypeOK
  <2>2. zeroed' = zeroed \/ ~(rounds + 1 < Rounds)
    BY DEF current_calibrate_offsets
  <2>3. ~(rounds + 1 < Rounds) => rounds > 0
    BY <2>1
  <2>4. QED
    BY <2>2, <2>3, Zenon
<1>7. rounds > 0 => \A p \in Phases : now[p] = 0 /\ before[p] = 0
  BY <1>1 DEF Nothing
<1>8. Bias + 0 = Bias
  BY CurrentAssumption
<1>9. SampleInv'
  BY <1>1, <1>2, <1>6, <1>7, <1>8 DEF SampleInv
<1>10. QED
  BY <1>3, <1>4, <1>5, <1>9 DEF IInv

LEMMA LoadsKeep == IInv /\ (LoadA \/ LoadB) => IInv'
<1> SUFFICES ASSUME IInv, LoadA \/ LoadB PROVE IInv'
  OBVIOUS
<1>1. TypeOK /\ ConfigInv /\ OffsetInv /\ SampleInv
  BY DEF IInv
<1>2. /\ UNCHANGED <<awake, registers, calibrated, drv_pc, val, coast, failures, clean>>
      /\ UNCHANGED <<now, before, converting, adc_val, offset, rounds, zeroed>>
  BY DEF LoadA, LoadB, drv, plant, adcs
<1>3. ConfigInv' /\ OffsetInv'
  BY <1>1, <1>2 DEF ConfigInv, Switched, OffsetInv
<1>4. "a" \in Phases /\ "b" \in Phases
  BY DEF Phases
<1>5. CASE LoadA
  <2>1. /\ drv_pc = "ready" /\ rounds = 0 /\ ~reading
        /\ ia' = adc_val["a"] /\ reading' = TRUE /\ UNCHANGED <<last_iab, interrupted>>
    BY <1>5 DEF LoadA
  <2>2. TypeOK'
    BY <1>1, <1>2, <1>4, <2>1 DEF TypeOK, DrvTypeOK
  <2>3. SampleInv'
    BY <1>1, <1>2, <1>4, <2>1 DEF SampleInv
  <2>4. QED
    BY <1>3, <2>2, <2>3 DEF IInv
<1>6. CASE LoadB
  <2>1. /\ last_iab' = [a |-> ia - offset["a"], b |-> adc_val["b"] - offset["b"]]
        /\ reading' = FALSE /\ interrupted' = FALSE /\ ia' = 0
    BY <1>6 DEF LoadB
  <2>2. last_iab' \in [Phases -> Int]
    <3>1. ia \in Nat /\ offset \in [Phases -> Nat] /\ adc_val \in [Phases -> Nat]
      BY <1>1 DEF TypeOK
    <3>2. ia - offset["a"] \in Int /\ adc_val["b"] - offset["b"] \in Int
      BY <1>4, <3>1
    <3>3. QED
      BY <2>1, <3>2 DEF Phases
  <2>3. TypeOK'
    BY <1>1, <1>2, <2>1, <2>2 DEF TypeOK, DrvTypeOK
  <2>4. SampleInv'
    BY <1>1, <1>2, <2>1 DEF SampleInv
  <2>5. QED
    BY <1>3, <2>3, <2>4 DEF IInv
<1>7. QED
  BY <1>5, <1>6

LEMMA DrvStepKeeps == IInv /\ DrvStep => IInv'
<1> SUFFICES ASSUME IInv, DrvStep PROVE IInv'
  OBVIOUS
<1>1. TypeOK /\ ConfigInv /\ OffsetInv /\ SampleInv
  BY DEF IInv
<1>2. /\ rounds = 0 /\ ~reading /\ (StartUp \/ SwitchGateDriver)
      /\ UNCHANGED <<now, before, converting, adc_val>>
      /\ UNCHANGED <<ia, last_iab, offset, rounds, reading, interrupted, zeroed>>
  BY DEF DrvStep, plant, adcs, current
<1>3. DrvTypeOK' /\ ConfigInv'
  BY <1>1, <1>2, DrvTypeStep, ConfigStep DEF TypeOK
<1>4. TypeOK' /\ OffsetInv'
  BY <1>1, <1>2, <1>3 DEF TypeOK, OffsetInv
<1>5. zeroed => /\ drv_pc' \in {"read", "write", "ready"}
                /\ clean' => clean
  <2>1. SUFFICES ASSUME zeroed
                 PROVE  drv_pc' \in {"read", "write", "ready"} /\ (clean' => clean)
    OBVIOUS
  <2>2. drv_pc \in {"read", "write", "ready"}
    BY <1>1, <2>1 DEF SampleInv
  <2>3. ReadDcr \/ drv8323_write_register \/ SwitchGateDriver
    BY <1>2, <2>2 DEF StartUp, Sleep, Wake, Calibrate, WriteDcr, CalibrateCsa, WriteCsacr,
                      WriteOcpcr, At
  <2>4. clean' => clean
    BY <2>3, CleanTransfer DEF ReadDcr, drv8323_write_register, Write, SwitchGateDriver
  <2>5. QED
    BY <2>3, <2>4 DEF ReadDcr, drv8323_write_register, SwitchGateDriver, Go
<1>6. SampleInv'
  BY <1>1, <1>2, <1>5 DEF SampleInv
<1>7. QED
  BY <1>3, <1>4, <1>6 DEF IInv

LEMMA ResetKeeps == IInv /\ Reset => IInv'
<1> SUFFICES ASSUME IInv, Reset PROVE IInv'
  OBVIOUS
<1>1. TypeOK /\ ConfigInv
  BY DEF IInv
<1>2. DrvTypeOK' /\ ConfigInv'
  BY <1>1, DrvTypeStep, ConfigStep DEF TypeOK, Reset
<1>3. TypeOK'
  BY <1>2, NothingType, ZeroRounds DEF Reset, TypeOK
<1>4. OffsetInv'
  <2>1. (Rounds + 1) * Bias \in Nat /\ (Rounds - 1) * 0 = 0
    BY CurrentAssumption
  <2>2. \A p \in Phases : offset'[p] = 0
    BY DEF Reset, Nothing
  <2>3. rounds' = 0 /\ zeroed' = FALSE
    BY DEF Reset
  <2>4. QED
    BY <2>1, <2>2, <2>3 DEF OffsetInv
<1>5. SampleInv'
  BY CurrentAssumption DEF Reset, SampleInv, Nothing
<1>6. QED
  BY <1>2, <1>3, <1>4, <1>5 DEF IInv

LEMMA NextIInv == IInv /\ [Next]_vars => IInv'
<1> SUFFICES ASSUME IInv, [Next]_vars PROVE IInv'
  OBVIOUS
<1>1. CASE UNCHANGED vars
  BY <1>1 DEF vars, drv, plant, adcs, current, IInv, TypeOK, DrvTypeOK, ConfigInv, Switched,
              OffsetInv, SampleInv
<1>2. CASE Next
  BY <1>2, PeriodKeeps, ConversionKeeps, CalibrationKeeps, LoadsKeep, DrvStepKeeps, ResetKeeps
     DEF Next
<1>3. QED
  BY <1>1, <1>2

LEMMA SpecIInv == Spec => []IInv
BY InitIInv, NextIInv, PTL DEF Spec

(***************************************************************************)
(* The registers, the samples, the sums and the counters keep their types, *)
(* whatever a failed transfer returns.                                     *)
(***************************************************************************)
THEOREM SpecTypeOK == Spec => []TypeOK
BY SpecIInv, PTL DEF IInv

(***************************************************************************)
(* However many start-ups were cut short or garbled before, one in which   *)
(* every transfer arrived, and any number of switches of the gate drivers, *)
(* leave the chip configured as motor_custom_init means it to be.          *)
(***************************************************************************)
THEOREM SpecConfiguredWhenReady == Spec => []ConfiguredWhenReady
<1>1. IInv => ConfiguredWhenReady
  <2> SUFFICES ASSUME IInv, clean, drv_pc = "ready"
               PROVE  registers = Wanted /\ calibrated
    BY DEF ConfiguredWhenReady
  <2>1. /\ registers[DCR] = Switched /\ registers[CSACR] = Csacr /\ registers[OCPCR] = Ocpcr
        /\ registers[HSR] = Defaults[HSR] /\ registers[LSR] = Defaults[LSR] /\ calibrated
    BY DEF IInv, ConfigInv, Awake, Measuring
  <2>2. registers \in RegisterMap /\ Defaults \in RegisterMap
    BY DefaultsType DEF IInv, TypeOK, DrvTypeOK, RegisterMap
  <2>3. /\ DCR # CSACR /\ DCR # OCPCR /\ CSACR # OCPCR
        /\ HSR \notin {DCR, CSACR, OCPCR} /\ LSR \notin {DCR, CSACR, OCPCR}
    BY AddressValues
  <2>4. Wanted = [Defaults EXCEPT ![DCR] = Switched, ![OCPCR] = Ocpcr, ![CSACR] = Csacr]
    BY DEF Wanted, Switched, GateOn, Ocpcr, Csacr
  <2>5. Wanted \in [Addresses -> SUBSET (0 .. 10)]
    <3>1. Switched \in SUBSET (0 .. 10) /\ Ocpcr \in SUBSET (0 .. 10) /\ Csacr \in SUBSET (0 .. 10)
      BY WordValues DEF Switched, COAST
    <3>2. QED
      BY <2>2, <2>4, <3>1 DEF RegisterMap
  <2>6. \A address \in Addresses : registers[address] = Wanted[address]
    BY <2>1, <2>2, <2>3, <2>4 DEF Addresses, RegisterMap
  <2>7. QED
    BY <2>1, <2>2, <2>5, <2>6 DEF RegisterMap
<1>2. QED
  BY <1>1, SpecIInv, PTL

(***************************************************************************)
(* However often it is measured, an offset is within two parts in         *)
(* Rounds - 1 of the bias.                                                 *)
(***************************************************************************)
THEOREM SpecOffsetNearBias == Spec => []OffsetNearBias
<1>1. IInv => OffsetNearBias
  BY OffsetNear DEF IInv
<1>2. QED
  BY <1>1, SpecIInv, PTL

(***************************************************************************)
(* After a clean start-up and a measurement, every pair of currents that a *)
(* call returns is of this PWM period or the last, each phase on its own,  *)
(* but for the error of the offset.                                        *)
(***************************************************************************)
THEOREM SpecReadsRecentCurrents == Spec => ReadsRecentCurrents
<1>1. IInv /\ [Next]_vars =>
        [LoadB /\ clean /\ zeroed =>
           \A p \in Phases : \E x \in {now[p], before[p]} :
             (Rounds - 1) * Distance(last_iab'[p], x) <= 2 * Bias]_vars
  <2> SUFFICES ASSUME IInv, LoadB, clean, zeroed, NEW p \in Phases
               PROVE  \E x \in {now[p], before[p]} :
                        (Rounds - 1) * Distance(last_iab'[p], x) <= 2 * Bias
    OBVIOUS
  <2>1. TypeOK /\ OffsetInv /\ SampleInv
    BY DEF IInv
  <2>2. reading /\ rounds = 0
    BY <2>1 DEF LoadB, SampleInv
  <2>3. (Rounds - 1) * Distance(offset[p], Bias) <= 2 * Bias /\ offset[p] \in Nat /\ Bias \in Nat
    BY <2>1, <2>2, OffsetNear, CurrentAssumption DEF OffsetNearBias, TypeOK
  <2>4. PICK x \in {now[p], before[p]} : last_iab'[p] = (Bias + x) - offset[p]
    <3>1. last_iab' = [a |-> ia - offset["a"], b |-> adc_val["b"] - offset["b"]]
      BY DEF LoadB
    <3>2. CASE p = "a"
      BY <2>1, <2>2, <3>1, <3>2 DEF SampleInv
    <3>3. CASE p = "b"
      <4>1. adc_val["b"] = Bias + (IF "b" \in converting THEN before["b"] ELSE now["b"])
        BY <2>1, <3>3 DEF SampleInv, Phases
      <4>2. last_iab'["b"] = adc_val["b"] - offset["b"]
        BY <3>1
      <4>3. QED
        BY <3>3, <4>1, <4>2
    <3>4. QED
      BY <3>2, <3>3 DEF Phases
  <2>5. x \in Int
    BY <2>1, CurrentAssumption DEF TypeOK
  <2>6. Distance(last_iab'[p], x) = Distance(offset[p], Bias)
    BY <2>3, <2>4, <2>5 DEF Distance
  <2>7. QED
    BY <2>3, <2>4, <2>6
<1>2. QED
  BY <1>1, SpecIInv, PTL DEF Spec, ReadsRecentCurrents
===============================================================================
