SPECIFICATION Spec
CONSTANTS
  NumCells = 2
  Volts = {3, 5}
  ThresholdHigh = 1
  ThresholdLow = 1
  Hi = 4
  Lo = 4
  Samples = {1, 2, 10}
  ChipGain <- MCChipGain
  Gain1 = {0, 1}
  Gain2 = {3}
  ChipOffset <- MCChipOffset
  Address = 16
  Registers = {0, 1, 4, 5, 6, 7, 8, 9, 10, 11}
  MaxFaults = 2
  Bits = {ocd3}
  ocd3 = ocd3
INVARIANT OcdThreshold
