\* Two clients of any kind.
SPECIFICATION FairTcpSpec
CONSTANTS
  u1 = u1
  u2 = u2
  Ids = {u1, u2}
  NoId = NoId
  MAX_USERS = 2
  MAX_ADMINS = 1
  MAX_INTERVALS = 1
  Requests <- MCRequests
  Threads = {t1, t2}
  NoThread = NoThread
INVARIANTS TcpTypeOK PointsAsSent
PROPERTY EverySocketClosed
