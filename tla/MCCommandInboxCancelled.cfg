CONSTANTS
  s1 = s1
  p = p  x = x  k = k
  p1 = p1  p2 = p2  x1 = x1  k1 = k1  qp = qp
  NoAck = NoAck
  Session = {s1}
  Cmd = {p, x}
  Req = {p1, p2}
  SessOf <- OneSession
  CmdOf <- Carries
  Queries = {}
  Inputs = {p}
  Compacts = {}
  LruLimit = 1
  MaxCrashes = 0
  MaxIdle = 1
  MaxArrivals = 2
SPECIFICATION BoundedSpec
PROPERTIES CancelledNeverRuns
CHECK_DEADLOCK FALSE
