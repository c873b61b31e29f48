SPECIFICATION Spec
CONSTANTS
  Requests = {r1, r2, r3}
  Renters = {u1, u2}
  Landlord = landlord
  Tariffs <- OneTariff
  Counts = {1, 2}
  Slots <- OneSlot
  Funds = 2
  Serial = FALSE
  MaxTime = 3
  Day = 2
  MaxAge = 0
  MaxAttempts = 3
  MaxFaults = 1
  NoBooking = NoBooking
  NoRow = NoRow
  NoPeriod = NoPeriod
SYMMETRY Symmetry
INVARIANTS PaidOutOnce OfferedIsAccepted
CHECK_DEADLOCK FALSE
PROPERTIES CompletedForGood
