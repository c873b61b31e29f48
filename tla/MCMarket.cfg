SPECIFICATION FairSpec
CONSTANTS
  Requests = {r1, r2}
  Mixes <- Loads
  Users = {u1, u2}
  u1 = u1
  u2 = u2
  Listings = {l1, l2, l3}
  l1 = l1
  l2 = l2
  l3 = l3
  Offers <- Sent
  Verdicts = {"ACTIVE", "REJECTED"}
  Searches <- Asked
  Nobody = Nobody
  Anything = Anything
  NoRow = NoRow
  Buyers = {u1, u2}
  Landlords = {u1}
  Plans = {p1, p2}
  p1 = p1
  p2 = p2
  Names = {n1, n2}
  n1 = n1
  n2 = n2
  NoPlan = NoPlan
INVARIANTS MarketInv CachesFresh ViewsCounted FindOneHidesWithdrawn InterestInOthers OneSubscription
PROPERTIES VerdictKept MarketSettles
CHECK_DEADLOCK FALSE
