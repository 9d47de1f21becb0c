\* A manual takeover, a cut link and a failing gateway, then peace: one node
\* ends up in charge, the preferred one unless the other may stay.
SPECIFICATION Spec
CONSTANTS
  Node <- MCNode
  Weight <- MCWeight
  NameOrd <- MCNameOrd
  ConfigPersist <- MCNoPersist
  DeadAfter = 3
  HandoverTimeout = 4
  ArpTime = 0
  BootTime = 0
  Disturbances = {"active", "cut", "gateway"}
  MaxDisturbed = 2
  FlakyGateway = {"b"}
PROPERTIES Converges PreferredReturns
