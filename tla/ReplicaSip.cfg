\* Both nodes write history, one message is queued; one crash, handover or split
\* pair after another.  One SIP call of each kind or two on a trunk, an INVITE
\* that comes twice, two handlers that end calls at once and more that must.
SPECIFICATION MCSpec
CONSTANTS
  Node = {"a", "b"}
  Message = {"m"}
  Torn = Torn
  None = None
  First = "a"
  MaxNews = 2
  MaxFaults = 2
  MaxWire = 1
  Call = {"c", "d"}
  OnTrunk = {"c", "d"}
  Targets <- Plans
  MaxRuns = 2
  MaxEnding = 2
  MaxUpsets = 1
INVARIANTS
    
  NothingIsLeftBehind TrunkCountIsExact RadioIsInARealCall
PROPERTIES
  
  FloorIsLeftToItsHolder CallsComeToAnEnd
CHECK_DEADLOCK FALSE
