\* A Basestation, a dispatch console and a peer link: registrations, group and
\* private calls and copies of them, pre-emption and disconnections in any order;
\* and calls that fall due, with alarms and the sweep.
SPECIFICATION MCSpec
CONSTANTS
  Client = {"bts", "desk", "peer"}
  Issi = {"i1", "i2"}
  Gssi = {"g"}
  GroupCallId = {"x", "y"}
  PrivateCallId = {"v"}
  None = None
  Mode <- MCMode
  Console = {"desk"}
  Group <- MCGroup
  Talks <- MCTalks
  Setups <- MCSetups
  Alarms = {"i1"}
  Stalls = {"x", "v"}
  Blocked = {}
  AllowMultiple = FALSE
  HigherWins = TRUE
  RouteWithoutAffiliations = FALSE
  FallbackBroadcast = TRUE
INVARIANTS GroupCallsTypeOK FloorIsExact ParticipantsAreConnected GroupIndex
  MembersAreInTheCall
PROPERTIES CopyNeverTakesOver StuckCallsEnd
