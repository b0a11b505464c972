\* Two Games one after the other; the server may fail to start for either.
CONSTANT
  MaxGames = 2
SPECIFICATION SpecGoodClients
INVARIANTS
  OneGameClean
  FreedOnce
  AloneInGame
PROPERTY
  SignalEndsProgram
