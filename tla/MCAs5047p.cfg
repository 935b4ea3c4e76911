SPECIFICATION Spec
CONSTANTS
  CPR = 6
  MaxTravel = 1
  MaxTurn = 1
  MaxFaults = 1
  TickRange = 3
  MaxClock = 3
  Huge = 99
INVARIANTS
  TypeOK
  TracksRotor
PROPERTIES
  OffsetNeverChanges
  VelocityIsMeanSpeed
