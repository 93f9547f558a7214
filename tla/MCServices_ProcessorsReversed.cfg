INIT MCInit
NEXT MCNext
CHECK_DEADLOCK FALSE
CONSTANTS
  MaxString = 6
  MaxOids = 2
  MaxSubIds = 10
  MaxCommunity = 8
  Scratch = 200
  MaxName = 20
  UniqueCap = 14
  ValueCap = 4
  LineCap = 64
  Messages <- MCMessages
  Reports <- MCReports
  Configs <- MCConfigs
  WalkStarts <- MCWalkStarts
  Names <- MCNames
  Setups <- MCSetups
  OurIp <- MCOurIp
  MaxChanges = 1
  DnsAttempts = 2
  DnsTimeout = 1
  MaxAttempts = 2
  AttemptTimeout = 2
  Interval = 5
  Offset = 20
  Era = 32
  StartTime = 3
  MaxTime = 13
  MaxFlight = 1
  KeepAlive = 6
  SocketTimeout = 3
  DnsTime = 1
  ConnackTimeout = 1
  RECONNECT_DELAY = 1
  MaxWrites = 1
  MaxHeld = 2
  Workers = {w1, w2}
  UserNames = {"a"}
  MaxUsers = 1
  MaxApiTokens = 1
  MAX_SESSIONS = 2
  SESSION_EXPIRY = 2
  MaxIssued = 3
  MaxUptime = 2
  Uploaders = {u1, u2}
  Images <- MCImages
  SECTOR = 2
  SLOT_B = 8
  PROTECTED = 14
  MAX_FIRMWARE_SIZE = 7
  Threads = {t1, t2}
  RingSize = 2
  IndexSpan = 4
  MaxOps = 6
INVARIANT ProcessorsReversed
