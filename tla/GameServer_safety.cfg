\* Two clients, four frames each; two hits kill.
CONSTANTS
  MaxClients = 2
  MaxFrames = 4
  MaxHealth = 20
  Damage = 10
  MaxProjectiles = 2
  MaxSpawns = 3
SPECIFICATION Spec
INVARIANTS
  TypeOK
  HealthInRange
  KillsMatchDeaths
  ConnectedHasPlayer
  GoneUnlessLate
PROPERTY
  OneProjectileOneVictim
