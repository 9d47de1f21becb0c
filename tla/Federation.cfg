SPECIFICATION MCSpec
CONSTANTS
  Server = {"a", "b", "c"}
  Link = {"ab", "bc", "ca"}
  Ends <- MCEnds
  None = None
  Id = {1, 2, 3, 4}
  FirstId <- MCFirstId
  Gssi = {"g"}
  Here = "here"
  MaxReg = 2
  MaxPath = 16
  FastChoices <- MCFast
  Home = {"a", "b"}
  MaxChanges = 2
  MaxFailures = 1
  Fragile = {"ab"}
  Restarts = {"c"}
  MaxOpening = 1
  Kind = {"alarm", "site", "fix"}
  Versions <- MCVersions
  AdvId = {1, 2, 3, 4}
  AdvFirstId <- MCFirstId
  Life = 3
  AdvMaxPath = 16
  Origins <- MCOrigins
  Consoles = {"c"}
  BrittleLinks = {"ca"}
  AdvRestarts = {"a"}
  MaxEvents = 2
  MaxLosses = 1
INVARIANTS FederationTypeOK NeighboursAreTold ServersAgree RoutesLeadHome
PROPERTIES RoutesDieOut AdvertsSettle
CHECK_DEADLOCK FALSE
