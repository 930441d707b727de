SPECIFICATION CSpec
CONSTANTS
  r1 = r1
  r2 = r2
  r3 = r3
  k1 = k1
  k2 = k2
  Keys = {k1}
  Dests = {d1}
  Tickets = {t1, t2}
  MaxInFlight = 1
  Retention = TRUE
  Drains = {c1}
  None = None
  Requests = {r1, r2, r3}
  KeyOf <- RetransmitKeyOf
  Routed = {r1, r2}
  Trusted = {r2, r3}
  MaxReplies = 1
  ExpirySlots = 1
CHECK_DEADLOCK FALSE
SYMMETRY TicketSymmetry
INVARIANTS
  OneVerdict
  VerdictsSound
