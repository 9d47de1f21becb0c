\* No command and no fault at all, but announcing the VIP takes 2 s (arping
\* -c 3 waits a second between its announcements), as long as dead_after_ms.
SPECIFICATION Safety
CONSTANTS
  Node <- MCNode
  Weight <- MCWeight
  NameOrd <- MCNameOrd
  ConfigPersist <- MCNoPersist
  DeadAfter = 4
  HandoverTimeout = 10
  ArpTime = 4
  BootTime = 0
  Disturbances = {}
  MaxDisturbed = 0
  FlakyGateway = {}
PROPERTIES VipIsALock
