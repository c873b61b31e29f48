---------------------------- MODULE Availability ----------------------------
(***************************************************************************)
(* The free periods that a client is offered before it asks for a booking:  *)
(* the listing's availability from today on, less the bookings that keep it *)
(* busy.  What is offered should be what validateBookingDates accepts.      *)
(***************************************************************************)
EXTENDS Bookings, FiniteSetsExt

CONSTANT Day   \* units of time in a day

ASSUME DayAssumption == Day \in Nat \ {0}

StartOfToday == now - (now % Day)

\* The later of a start and of the start of today; what has ended by then is left out.
Upcoming(periods) ==
  {[start |-> Later(s.start, StartOfToday), end |-> s.end] :
     s \in {x \in periods : StartOfToday < x.end}}

Pieces(p, c) == {[start |-> p.start, end |-> c.start], [start |-> c.end, end |-> p.end]}

\* Mutant of Less: what is left after the booking is forgotten.
LessAfter(p, c) ==
  IF ~Overlap(p, c) THEN {p} ELSE {x \in Pieces(p, c) : x.start < x.end /\ x.end <= c.start}

\* A period without the time of a booking: all of it, or what is before and what is after.
Less(p, c) == IF ~Overlap(p, c) THEN {p} ELSE {x \in Pieces(p, c) : x.start < x.end}

Subtract(c, periods) == UNION {Less(p, c) : p \in periods}

\* The bookings that count, but for the one a period is sought for.
Taken(b) == {row[c] : c \in {x \in Bookings \ {b} : row[x] # NoRow /\ row[x].status \in Busy}}

GetListingAvailability(b) == FoldSet(Subtract, Upcoming(Slots), Upcoming(Taken(b)))

\* Whatever the bookings are, even those that overlap since two requests raced, a period that
\* has not begun is accepted by validateBookingDates just when it lies in one of the periods that
\* getListingAvailability offers: for a new booking, or instead of the one that is excluded.
OfferedIsAccepted ==
  \A b \in {c \in Bookings : row[c] # NoRow} \cup {NoBooking} :
    LET offered == GetListingAvailability(b) IN
    \A p \in Periods : now <= p.start =>
      (Valid(b, p) <=> \E f \in offered : f.start <= p.start /\ EndOf(p) <= f.end)
=============================================================================
