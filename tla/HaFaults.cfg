\* Commands, crashes, lost heartbeats, failing `ip` commands and a flaky
\* gateway: the services and the VIP follow the role throughout.
SPECIFICATION Safety
CONSTANTS
  Node <- MCNode
  Weight <- MCWeight
  NameOrd <- MCNameOrd
  ConfigPersist <- MCNoPersist
  DeadAfter = 3
  HandoverTimeout = 4
  ArpTime = 0
  BootTime = 0
  Disturbances = {"active", "cut", "crash", "stop", "gateway",
                  "vip_add", "vip_del"}
  MaxDisturbed = 3
  FlakyGateway = {"b"}
INVARIANTS ServicesFollowRole 
PROPERTIES ClaimsOnlyWhenPeerIsNot
