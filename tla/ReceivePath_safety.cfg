\* Two clients, one frame each; their threads may fail to start.
CONSTANTS
  MaxClients = 2
  MaxFrames = 1
  ThreadFails = TRUE
SPECIFICATION Spec
INVARIANTS
  TypeOK
  InboxExact
  NoMissedSignal
  QueueOutlivesUsers
  FinishedNotRunning
