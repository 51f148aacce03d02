CONSTANTS
  p = p  g = g  n1 = n1  n2 = n2  r = r  k = k  o1 = o1  o2 = o2
  NoCmd = NoCmd
  NoOwner = NoOwner
  Mode <- ModeOf
  Promotes <- Promotion
  Cmd = {p, g, n1, n2, r, k}
  Owner = {o1, o2}
  MaxGeneration = 1
  MaxGiven = 3
SPECIFICATION BoundedSpec
INVARIANTS TypeOK NoLostWakeup ReservationIsLive NoBlockedStart DeliveredOnce SameKindInOrder
PROPERTIES OnlyPromotedStarts EveryCommandLeaves
CHECK_DEADLOCK FALSE
