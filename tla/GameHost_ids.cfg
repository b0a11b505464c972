\* Two players with one id: a late frame of client 1 makes a record with id 0.
CONSTANTS
  MaxClients = 2
  MaxFrames = 1
  ThreadFails = FALSE
  MaxHealth = 20
  Damage = 10
  MaxProjectiles = 1
  MaxSpawns = 1
SPECIFICATION SpecHost
INVARIANT
  DistinctIds
