----------------------------- MODULE MCBookings -----------------------------
(* Bookings on small instances: one listing, a slot of three units of time. *)
EXTENDS Availability, TLC

\* One tariff: a unit of time for 1.
OneTariff == {[length |-> 1, price |-> 1]}

\* A second tariff, of two units for 3.
TwoTariffs == OneTariff \cup {[length |-> 2, price |-> 3]}

OneSlot == {[start |-> 0, end |-> 3]}
TwoSlots == {[start |-> 0, end |-> 1], [start |-> 1, end |-> 3]}

\* Requests and renters are only compared for equality.  (Safety runs only.)
Symmetry == Permutations(Requests) \cup Permutations(Renters)
=============================================================================
