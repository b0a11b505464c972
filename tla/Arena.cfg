\* Radius 3 to gaps of 6 and more; a shot of radius 1.
CONSTANTS
  Radius = 3
  ShotRadius = 1
  Border <- MCBorder
  Walls <- MCWalls
  Horizon = 9
  SizeMax = 16
SPECIFICATION Spec
INVARIANTS
  PushedOut
  ShotsStopped
  CrashesWithoutMap
PROPERTY
  OpenStaysOpen
