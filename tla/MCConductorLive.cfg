SPECIFICATION CFairSpec
CONSTANTS
  r1 = r1
  r2 = r2
  r3 = r3
  k1 = k1
  k2 = k2
  Keys = {k1, k2}
  Dests = {d1}
  Tickets = {t1, t2}
  MaxInFlight = 1
  Retention = TRUE
  Drains = {}
  None = None
  Requests = {r1, r2}
  KeyOf <- CompeteKeyOf
  Routed = {r1, r2}
  Trusted = {r2}
  MaxReplies = 1
  ExpirySlots = 1
CHECK_DEADLOCK FALSE
PROPERTY VerdictDelivered
