------------------------------ MODULE MCMarket ------------------------------
(* Market on small instances: a landlord, another user, one listing posted and two to come. *)
EXTENDS Market, TLC

CONSTANTS u1, u2, l1, l2, l3, p1, p2, n1, n2

Garage(title, price) ==
  [type |-> "GARAGE", title |-> title, pricings |-> {<<"DAY", price>>}, place |-> "near", amenities |-> {}]
Parking ==
  [type |-> "PARKING", title |-> "a", pricings |-> {<<"DAY", 1>>, <<"WEEK", 5>>}, place |-> "far",
   amenities |-> {"WIFI"}]
Sent == {Parking, [Parking EXCEPT !.pricings = {<<"DAY", 1>>, <<"DAY", 2>>}],
         [title |-> "b"], [pricings |-> {<<"WEEK", 2>>}], [place |-> "far"],
         [pricings |-> {<<"DAY", 1>>, <<"DAY", 2>>}]}

Asked == {AnyListing, ActiveListings, [AnyListing EXCEPT !.types = {"GARAGE"}],
          [ActiveListings EXCEPT !.types = {"GARAGE", "PARKING"}, !.maxPrice = 1]}

Tables(rows) == [listings |-> rows, plans |-> [p \in Plans |-> IF p = p1 THEN NewPlan(n1) ELSE NoPlan]]
Posting == Tables([l \in Listings |-> IF l = l1 THEN NewListing(u1, Garage("a", 2)) ELSE NoRow])

Load(n, f, ops, absent, lasting) ==
  [calls |-> n, faults |-> f, ops |-> ops, absent |-> absent, lasting |-> lasting, tables |-> Posting]
Loads == {
  Load(2, 1, {"update", "findByUser", "findMy"}, {u2, l2, l3}, FALSE),
  Load(2, 0, {"create", "findByUser", "findAll"}, {u2}, FALSE),
  Load(2, 1, {"update", "delete", "moderate"}, {l2, l3}, FALSE),
  Load(2, 1, {"findOne", "delete", "moderate"}, {l2, l3}, FALSE),
  Load(3, 0, {"findOne", "moderate"}, {l2, l3}, FALSE),
  Load(2, 0, {"findOne", "update"}, {l2, l3}, FALSE),
  Load(3, 0, {"findOne", "favor", "delete"}, {l2, l3, u1}, FALSE),
  Load(3, 0, {"favor", "unfavor", "moderate"}, {l2, l3}, FALSE),
  Load(3, 0, {"ask", "answer", "moderate"}, {l2, l3}, FALSE),
  Load(2, 0, {"findAll", "moderate", "findMy"}, {u2, l2, l3}, TRUE),
  Load(2, 0, {"findPlan", "findPlans", "updatePlanStatus"}, {}, TRUE),
  Load(3, 1, {"createPlan", "findPlans"}, {}, FALSE),
  Load(2, 1, {"createPlan", "updateInfo", "findPlans"}, {}, FALSE),
  Load(3, 1, {"subscribe", "cancel"}, {}, FALSE)}
=============================================================================
