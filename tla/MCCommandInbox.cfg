CONSTANTS
  s1 = s1
  p = p  x = x  k = k
  p1 = p1  p2 = p2  x1 = x1  k1 = k1  qp = qp
  NoAck = NoAck
  Session = {s1}
  Cmd = {p, x, k}
  Req = {p1, p2, x1, k1, qp}
  SessOf <- OneSession
  CmdOf <- Carries
  Queries = {qp}
  Inputs = {p, k}
  Compacts = {k}
  LruLimit = 1
  MaxCrashes = 1
  MaxIdle = 1
  MaxArrivals = 3
SPECIFICATION BoundedSpec
INVARIANTS TypeOK SessionSerial PinnedInOrder
PROPERTIES ImplementsSerial AnsweredAfterFinal NeverRunTwice KnownWhenRecorded NoLatePin EveryDeliveryAnswered
CHECK_DEADLOCK FALSE
