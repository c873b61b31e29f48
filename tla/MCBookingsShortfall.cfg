SPECIFICATION Spec
CONSTANTS
  Requests = {r1, r2, r3}
  Renters = {u1, u2}
  Landlord = landlord
  Tariffs <- OneTariff
  Counts = {1, 2}
  Slots <- OneSlot
  Funds = 1
  Serial = TRUE
  MaxTime = 3
  Day = 2
  MaxAge = 1
  MaxAttempts = 3
  MaxFaults = 0
  NoBooking = NoBooking
  NoRow = NoRow
  NoPeriod = NoPeriod
SYMMETRY Symmetry
INVARIANTS RefundsBacked
CHECK_DEADLOCK FALSE
