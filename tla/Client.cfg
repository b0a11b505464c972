\* Frames of 2 + 2 bytes, one game state, two PINGs, two key presses.
CONSTANTS
  Header = 2
  Body = 2
  Keys <- MCKeys
  DirectionOf <- MCDirectionOf
  MaxPing = 2
  MaxStates = 1
  MaxEvents = 2
SPECIFICATION Spec
INVARIANTS
  TypeOK
  InStep
  RoundTrips
  MovementFollows
PROPERTY
  EscapeEnds
