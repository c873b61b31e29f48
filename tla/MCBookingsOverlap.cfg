SPECIFICATION Spec
CONSTANTS
  Requests = {r1, r2}
  Renters = {u1, u2}
  Landlord = landlord
  Tariffs <- OneTariff
  Counts = {1, 2}
  Slots <- OneSlot
  Funds = 2
  Serial = FALSE
  MaxTime = 3
  Day = 2
  MaxAge = 0
  MaxAttempts = 3
  MaxFaults = 0
  NoBooking = NoBooking
  NoRow = NoRow
  NoPeriod = NoPeriod
SYMMETRY Symmetry
INVARIANTS NoOverlap
CHECK_DEADLOCK FALSE
