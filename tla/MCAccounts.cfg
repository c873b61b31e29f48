SPECIFICATION FairSpec
CONSTANTS
  Requests = {r1, r2}
  Mixes <- Loads
  Users = {u1, u2, u3}
  u1 = u1
  u2 = u2
  u3 = u3
  Phones = {p1, p2, p3}
  p1 = p1
  p2 = p2
  p3 = p3
  NoTg = NoTg
  Telegrams = {t1}
  t1 = t1
  Codes = {c1, c2}
  c1 = c1
  c2 = c2
  NoRow = NoRow
  Bookings <- Stays
  Ratings = {1, 4}
INVARIANTS AccountsInv UsersFresh TwoFactorCoherent TelegramLinked RegisteredIsWhole ReviewsCounted
PROPERTIES OnlyItsColumns BannedStaysOut LogoutEnds SettlesFresh
CHECK_DEADLOCK FALSE
