\* Two clients, who may stop reading; the second may reuse the first's descriptor.
CONSTANTS
  MaxClients = 2
  MaxOne = 1
  MaxAll = 2
  PeersStall = TRUE
SPECIFICATION Spec
INVARIANTS
  TypeOK
  OwnedOnce
  NeverSendsNull
  FreshStream
