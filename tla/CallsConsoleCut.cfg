\* The alarm is cancelled during the call, and the talker keys up again.
SPECIFICATION MCSafety
CONSTANTS
  Client = {"bts", "desk"}
  Issi = {"i1", "i2"}
  Gssi = {"g"}
  GroupCallId = {"x"}
  PrivateCallId = {}
  None = None
  Mode <- MCMode
  Console = {"desk"}
  Group <- MCGroup
  Talks <- MCCalls
  Setups = {}
  Alarms = {"i1"}
  Stalls = {}
  Blocked = {}
  AllowMultiple = FALSE
  HigherWins = TRUE
  RouteWithoutAffiliations = FALSE
  FallbackBroadcast = TRUE
PROPERTIES ConsolesHearTheEnd
