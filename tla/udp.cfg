\* Three datagrams: two sessions of one user may race one of another.
SPECIFICATION UdpSpec
CONSTANTS
  u1 = u1
  u2 = u2
  c1 = c1
  c2 = c2
  Ids = {u1, u2}
  NoId = NoId
  MAX_USERS = 2
  MAX_ADMINS = 1
  MAX_INTERVALS = 1
  Requests <- MCRequests
  Clients = {c1, c2}
  NoClient = NoClient
  Datagrams <- MCDatagrams
  Threads = {t1, t2, t3}
  NoThread = NoThread
SYMMETRY Symmetric
INVARIANTS UdpTypeOK PointsConserved
