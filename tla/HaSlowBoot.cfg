\* No command and no fault, but the gateway answers only the third ping at
\* startup: the listen delay passes before the first heartbeat is read.
SPECIFICATION Safety
CONSTANTS
  Node <- MCNode
  Weight <- MCWeight
  NameOrd <- MCNameOrd
  ConfigPersist <- MCNoPersist
  DeadAfter = 4
  HandoverTimeout = 10
  ArpTime = 0
  BootTime = 4
  Disturbances = {}
  MaxDisturbed = 0
  FlakyGateway = {}
PROPERTIES NewcomerListens
