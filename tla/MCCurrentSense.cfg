SPECIFICATION Spec
CONSTANTS
  Defaults <- MCDefaults
  Garbage <- MCGarbage
  MaxFailures = 1
  Rounds = 3
  Bias = 4
  Currents <- MCCurrents
INVARIANTS
  TypeOK
  ConfiguredWhenReady
  OffsetNearBias
PROPERTIES
  ReadsRecentCurrents
