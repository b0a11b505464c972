\* One client who reads; two messages of each kind.
CONSTANTS
  MaxClients = 1
  MaxOne = 2
  MaxAll = 2
  PeersStall = FALSE
SPECIFICATION Spec
PROPERTIES
  MessagesLeave
  SenderStops
