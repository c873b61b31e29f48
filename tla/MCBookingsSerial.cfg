SPECIFICATION Spec
CONSTANTS
  Requests = {r1, r2, r3}
  Renters = {u1, u2}
  Landlord = landlord
  Tariffs <- OneTariff
  Counts = {1, 2}
  Slots <- OneSlot
  Funds = 2
  Serial = TRUE
  MaxTime = 3
  Day = 2
  MaxAge = 1
  MaxAttempts = 3
  MaxFaults = 1
  NoBooking = NoBooking
  NoRow = NoRow
  NoPeriod = NoPeriod
SYMMETRY Symmetry
INVARIANTS Inv EscrowExact NoOverlap InItsTime PaidOutOnce
PROPERTIES StatusMoves
CHECK_DEADLOCK FALSE
