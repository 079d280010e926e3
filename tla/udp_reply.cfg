\* A query shorter than the receive buffer.
SPECIFICATION UdpSpec
CONSTANTS
  u1 = u1
  u2 = u2
  c1 = c1
  c2 = c2
  Ids = {u1, u2}
  NoId = NoId
  MAX_USERS = 2
  MAX_ADMINS = 1
  MAX_INTERVALS = 1
  Requests <- MCRequests
  Clients = {c1, c2}
  NoClient = NoClient
  Datagrams <- MCDatagrams
  Threads = {t1, t2}
  NoThread = NoThread
INVARIANT ReplyReachesTerminal
