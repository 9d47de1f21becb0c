\* The alarm goes up between a GROUP_TX's look at the alarms and its routing.
SPECIFICATION MCSafety
CONSTANTS
  Client = {"bts", "desk"}
  Issi = {"i1", "i2"}
  Gssi = {"g"}
  GroupCallId = {"x"}
  PrivateCallId = {}
  None = None
  Mode <- MCMode
  Console = {"desk"}
  Group <- MCGroup
  Talks <- MCCalls
  Setups = {}
  Alarms = {"i1"}
  Stalls = {}
  Blocked = {}
  AllowMultiple = FALSE
  HigherWins = TRUE
  RouteWithoutAffiliations = FALSE
  FallbackBroadcast = TRUE
INVARIANTS AlarmMakesEmergency
