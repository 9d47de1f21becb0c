\* One part at a time.  Two text messages, or one sent twice; three clients with
\* one of two message layouts each; a SIP phone and a trunk; two of six parties
\* that connect; a radio that roams between two Basestations; four edits of the
\* configuration, each made when the last is in effect.
SPECIFICATION MCSpec
CONSTANTS
  None = None
  Message = {"m1", "m2"}
  Client = {"x"}
  Sender = "far"
  Task = {"t1", "t2"}
  Uuid = {1, 2}
  MaxAttempts = 2
  QueueLimit = 1
  OnlyKnown = TRUE
  Expires = {"m2"}
  MaxMoves = 2
  MaxHeaders = 2
  MaxUpsets = 1
  Site = {"s", "t"}
  Conn = {"old", "new", "far"}
  SiteOf <- WSiteOf
  SpeaksV1 = {"new", "far"}
  Console = {"far"}
  Said <- WSaid
  Originated <- WOriginated
  Advertised <- WAdvertised
  SiteId <- WSiteId
  MaxPath = 3
  MaxText = 2
  SubframeBits = 11
  NoName = NoName
  MaxSpoken = 2
  Phone = {"p"}
  Open = {}
  Addr = {"home", "away"}
  Nonce = {1, 2, 3, 4, 5, 6}
  Ttl = 3
  NonceLife = 2
  Interval = 2
  TrunkTtl = 3
  MaxPhoneMoves = 3
  MaxMishaps = 2
  Nowhere = Nowhere
  Party = {"bs", "ms", "twin", "fed", "self", "old"}
  PAddr <- MCAddr
  Agent <- MCAgent
  OnGet <- MCOnGet
  OnUpgrade <- MCOnUpgrade
  User <- MCUser
  Offers <- MCOffers
  Absent = Absent
  OwnId = "id1"
  Repeats = {"bs"}
  MaxDial = 3
  MaxTrouble = 2
  Station = {"a", "b"}
  Issi = {"r"}
  Lists = {"a"}
  MaxQueue = 2
  MaxKickTasks = 1
  MaxRoams = 2
  MaxBreaks = 1
  NoEntry = NoEntry
  Setting = {"ext", "ha"}
  HaSetting = {"ha"}
  Blockable = {"i"}
  Person = {"admin"}
  HaModes = {TRUE, FALSE}
  Patient = TRUE
  ByHand = TRUE
  MaxEdits = 4
  Broken = Broken
  NoRequest = NoRequest
INVARIANTS ClientsTypeOK OneAttemptAtATime Understood RunsAsAnnounced
PROPERTIES
  LeavesForAReason HeldMessagesEnd
  BindingsFollowPhones  LinksSettle RadiosAreListed 
CHECK_DEADLOCK FALSE
