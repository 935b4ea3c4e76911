SPECIFICATION Spec
CONSTANTS
  CPR = 8
  MaxTravel = 1
  MaxTurn = 1
  MaxFaults = 0
  MaxErrors = 1
  S = 4
  T = 12
  pole_pairs = 3
  CountAngle = 9
  Mounts = {5}
  DqAngles = {2, 3, 4}
  Levels = {2}
  AlignLevel = 1
  FullLevel = 4
  Advances = {1}
PROPERTY OpenLoopTurns
