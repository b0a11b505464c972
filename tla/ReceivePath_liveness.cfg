\* One client, three frames; its thread may fail to start; a peer ends the frames it begins.
CONSTANTS
  MaxClients = 1
  MaxFrames = 3
  ThreadFails = TRUE
SPECIFICATION SpecFinishingPeers
PROPERTIES
  StreamSpec
  FramesReachHost
  LossReachesHost
  ShutdownCompletes
