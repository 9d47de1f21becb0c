\* Normal operation: a LAN that delivers, no crash, no gateway failure, and a
\* VIP announced within a heartbeat interval.
SPECIFICATION Safety
CONSTANTS
  Node <- MCNode
  Weight <- MCWeight
  NameOrd <- MCNameOrd
  ConfigPersist <- MCNoPersist
  DeadAfter = 3
  HandoverTimeout = 5
  ArpTime = 0
  BootTime = 0
  Disturbances = {"standby", "persist", "apply", "force",
                  "stop", "replica"}
  MaxDisturbed = 2
  FlakyGateway = {}
INVARIANTS HaPairTypeOK
PROPERTIES VipIsALock
