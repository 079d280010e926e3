\* Four threads; the third user overruns users[].
SPECIFICATION Spec
CONSTANTS
  u1 = u1
  u2 = u2
  u3 = u3
  Ids = {u1, u2, u3}
  NoId = NoId
  MAX_USERS = 2
  MAX_ADMINS = 2
  MAX_INTERVALS = 3
  Requests <- AllRequests
  Threads = {t1, t2, t3, t4}
  NoThread = NoThread
SYMMETRY Symmetric
INVARIANTS TypeOK LockHeld OneEntryPerUser SessionsRecorded
PROPERTY ImplementsLedger
