\* A reused descriptor takes over another client's message.
CONSTANTS
  MaxClients = 2
  MaxOne = 1
  MaxAll = 0
  PeersStall = FALSE
SPECIFICATION Spec
INVARIANT
  OwnMessagesOnly
