------------------------------ MODULE Bookings ------------------------------
(***************************************************************************)
(* The life of the bookings of one listing: the HTTP handlers of           *)
(* bookings.handler.ts on bookings.service.ts, the listener that schedules *)
(* the start job, the two BullMQ processors that start and complete a      *)
(* booking, and the money that moves with each of them.                    *)
(*                                                                         *)
(* A step is what runs between two awaits, so handlers, workers and the    *)
(* clock interleave at every await.  An operation of WalletsService is one *)
(* step (Wallets.tla shows that it may be).  Repository.save(entity)       *)
(* writes the whole entity the actor has in memory.                        *)
(***************************************************************************)
EXTENDS Integers, FiniteSets

CONSTANTS
  Requests,     \* the HTTP requests of a behaviour; each runs one handler once
  Renters,      \* users with the role RENTER
  Landlord,     \* the owner of the listing
  Tariffs,      \* the listing's pricings: [length, price] of one period
  Counts,       \* the periodsCount of the requests
  Slots,        \* the listing's availability: a set of [start, end]
  Funds,        \* what a renter's wallet holds at first
  Serial,       \* TRUE: clients never send two requests that compete (see Alone)
  MaxTime,      \* the clock stops here
  MaxAge,       \* ticks of the clock a handler or a job may take
  MaxAttempts,  \* "attempts" of the BullMQ jobs
  MaxFaults,    \* failed statements and crashes of a behaviour
  NoBooking, NoRow, NoPeriod

ASSUME TariffsAssumption == Tariffs \subseteq [length: Nat \ {0}, price: Nat \ {0}]
ASSUME CountsAssumption  == Counts \subseteq Nat \ {0}
ASSUME SlotsAssumption   == Slots \subseteq [start: Nat, end: Nat]
ASSUME BoundsAssumption  == MaxTime \in Nat /\ MaxAge \in Nat /\ MaxFaults \in Nat
                            /\ MaxAttempts \in Nat \ {0} /\ Funds \in Nat
ASSUME FlagAssumption    == Serial \in BOOLEAN

\* A request inserts at most one booking: the key of a row is the request that inserts it.
Bookings == Requests
Queues   == {"start", "complete"}     \* booking-start and booking-completion
Actors   == Requests \cup Queues      \* one worker for each queue
Users    == Renters \cup {Landlord}

VARIABLES
  now,          \* the clock
  row,          \* the table bookings
  balance,      \* the balance of each user's wallet
  entries,      \* the sums of the transactions of each booking, by type
  jobs,         \* the jobs of each queue, by booking
  pc,           \* the next step of each actor
  req,          \* the operation of each actor, its user and its booking
  want,         \* the period a request asks for
  ent,          \* the Booking entity an actor is going to save
  first,        \* the Booking entity an actor read first
  age,          \* ticks of the clock since the actor began
  faults,       \* failures so far
  interrupted   \* history: bookings whose money a handler or a job left unmoved

vars == <<now, row, balance, entries, jobs, pc, req, want, ent, first, age, faults, interrupted>>

-----------------------------------------------------------------------------
(* Bookings *)

Busy == {"PENDING", "CONFIRMED", "ACTIVE"}
Statuses == Busy \cup {"CANCELLED", "REJECTED", "COMPLETED"}

Periods == [start: 0..MaxTime, tariff: Tariffs, count: Counts]

\* calculateEndDate; totalPrice is price * periodsCount.
EndOf(p)   == p.start + p.tariff.length * p.count
TotalOf(p) == p.tariff.price * p.count

Row(u, p, s) == [renter |-> u, status |-> s, start |-> p.start, end |-> EndOf(p),
                 total |-> TotalOf(p)]
Rows == [renter: Renters, status: Statuses, start: Nat, end: Nat, total: Nat]

ASSUME NullsAssumption ==
  /\ NoRow \notin Rows /\ NoBooking \notin Bookings /\ NoPeriod \notin Periods
  /\ Requests \cap Queues = {}

Overlap(x, y) == x.start < y.end /\ y.start < x.end

\* validateBookingDates: not in the past, within a slot, free of other bookings.
FreeIgnoring(b, p) ==
  \A c \in Bookings \ {b} :
    row[c] # NoRow /\ row[c].status \in Busy
      => ~Overlap(row[c], [start |-> p.start, end |-> EndOf(p)])

\* Mutant of Valid: check 3 is gone.
ValidIgnoringBookings(b, p) ==
  /\ now <= p.start
  /\ \E s \in Slots : s.start <= p.start /\ EndOf(p) <= s.end

Valid(b, p) == ValidIgnoringBookings(b, p) /\ FreeIgnoring(b, p)

\* What a handler or a processor requires of the booking it reads first.
Allowed(o, u, b, pending) ==
  \/ o = "updatePeriod" /\ u = b.renter /\ pending
  \/ o = "cancel" /\ u = b.renter /\ pending /\ now <= b.start
  \/ o \in {"confirm", "reject"} /\ u = Landlord /\ pending /\ now <= b.start
  \/ o = "start" /\ b.status = "CONFIRMED"
  \/ o = "complete" /\ b.status = "ACTIVE" /\ b.end <= now

\* Mutants of Permitted: the handlers take a booking in any status; the
\* completion processor takes one that is not ACTIVE.
PermittedAnyStatus(o, u, b) == Allowed(o, u, b, TRUE)
PermittedAgain(o, u, b) ==
  \/ Allowed(o, u, b, b.status = "PENDING")
  \/ o = "complete" /\ b.end <= now

Permitted(o, u, b) == Allowed(o, u, b, b.status = "PENDING")

\* The status an operation sets with updateStatus, and the step after its save.
TargetStatus(o) ==
  CASE o = "cancel"   -> "CANCELLED"
    [] o = "reject"   -> "REJECTED"
    [] o = "confirm"  -> "CONFIRMED"
    [] o = "start"    -> "ACTIVE"
    [] o = "complete" -> "COMPLETED"
AfterSave(o) ==
  CASE o = "updatePeriod"         -> "charge"
    [] o \in {"cancel", "reject"} -> "refund"
    [] o \in {"confirm", "start"} -> "schedule"
    [] o = "complete"             -> "payout"

-----------------------------------------------------------------------------
(* Jobs *)

NoJob == [state |-> "none", due |-> 0, attempts |-> 0, stalled |-> FALSE]
Jobs  == [state: {"none", "waiting", "active", "failed"}, due: Nat,
          attempts: Nat, stalled: BOOLEAN]

\* queue.add with a jobId: a job with that id that is still stored, whatever its
\* state, makes the call do nothing.
Add(q, b, due) ==
  IF jobs[q][b] = NoJob
    THEN [jobs EXCEPT ![q][b] = [NoJob EXCEPT !.state = "waiting", !.due = due]]
    ELSE jobs

\* queue.remove: not while a worker holds the job.
Remove(q, b) ==
  IF jobs[q][b].state = "active" THEN jobs ELSE [jobs EXCEPT ![q][b] = NoJob]

\* An attempt threw: the job waits for the next one (the backoff of seconds is
\* less than a tick), or it is kept as failed.
Retried(j) ==
  [j EXCEPT !.attempts = @ + 1,
            !.state = IF j.attempts + 1 < MaxAttempts THEN "waiting" ELSE "failed"]

\* The worker died with the job: BullMQ moves it back once.
Recovered(j) ==
  IF j.state # "active" THEN j
  ELSE [j EXCEPT !.stalled = TRUE, !.state = IF j.stalled THEN "failed" ELSE "waiting"]

Later(x, y) == IF x < y THEN y ELSE x

-----------------------------------------------------------------------------
(* Actors *)

NoReq    == [op |-> "none", user |-> Landlord, bk |-> NoBooking]
Idle     == {"idle", "done"}
InFlight == {r \in Requests : pc[r] \notin Idle}

Bk(a) == req[a].bk

Goto(a, label) == pc' = [pc EXCEPT ![a] = label]

\* The actor is through and forgets what it knew.
Leave(a) ==
  /\ Goto(a, IF a \in Queues THEN "idle" ELSE "done")
  /\ req' = [req EXCEPT ![a] = NoReq]
  /\ want' = [want EXCEPT ![a] = NoPeriod]
  /\ ent' = [ent EXCEPT ![a] = NoRow]
  /\ first' = [first EXCEPT ![a] = NoRow]
  /\ age' = [age EXCEPT ![a] = 0]

\* The handler returns; the worker has yet to report the job done.
Finish(a) ==
  /\ \/ a \in Requests /\ Leave(a)
     \/ a \in Queues /\ Goto(a, "ack") /\ UNCHANGED <<req, want, ent, first, age>>

\* The handler throws; a job that throws is tried again.
Throw(a) ==
  /\ Leave(a)
  /\ jobs' = IF a \in Queues THEN [jobs EXCEPT ![a][Bk(a)] = Retried(@)] ELSE jobs

\* The booking is saved and the money that goes with it has not moved yet.
Owing(a) == pc[a] \in {"readback", "pay", "delete", "charge", "refund", "payout"}

Interrupt(A) == interrupted' = interrupted \cup {Bk(a) : a \in {x \in A : Owing(x)}}

Table == <<row, balance, entries>>

-----------------------------------------------------------------------------
(* Wallets: each of these is one committed transaction of WalletsService; the *)
(* entry refers to the booking, so it cannot be written if the row is gone.   *)

Payable(u, b, n) == row[b] # NoRow /\ n <= balance[u]
Creditable(b)    == row[b] # NoRow

ProcessPayment(u, b, n) ==
  /\ balance' = [balance EXCEPT ![u] = @ - n]
  /\ entries' = [entries EXCEPT ![b].paid = @ + n]
ProcessRefund(u, b, n) ==
  /\ balance' = [balance EXCEPT ![u] = @ + n]
  /\ entries' = [entries EXCEPT ![b].refunded = @ + n]
ProcessPayout(b, n) ==
  /\ balance' = [balance EXCEPT ![Landlord] = @ + n]
  /\ entries' = [entries EXCEPT ![b].paidOut = @ + n]

-----------------------------------------------------------------------------
(* Steps *)

\* No request in flight is about the booking b, nor asks for a period of the
\* listing if o does.  Nothing in the code ensures this.
Claims == {"create", "updatePeriod"}
Alone(o, b) ==
  \A q \in InFlight : Bk(q) # b /\ ~{o, req[q].op} \subseteq Claims

\* A request arrives; a client only knows the ids of bookings that exist.
Ask(r, o, u, b, p, label) ==
  /\ Serial => Alone(o, b)
  /\ req' = [req EXCEPT ![r] = [op |-> o, user |-> u, bk |-> b]]
  /\ want' = [want EXCEPT ![r] = p]
  /\ Goto(r, label)

Arrive(r) ==
  /\ pc[r] = "idle"
  /\ \/ \E u \in Renters, p \in Periods : Ask(r, "create", u, r, p, "validate")
     \/ \E u \in Renters, p \in Periods, b \in Bookings :
          row[b] # NoRow /\ Ask(r, "updatePeriod", u, b, p, "load")
     \/ \E u \in Users, b \in Bookings, o \in {"cancel", "confirm", "reject"} :
          row[b] # NoRow /\ Ask(r, o, u, b, NoPeriod, "load")
  /\ UNCHANGED <<now, Table, jobs, ent, first, age, faults, interrupted>>

\* The worker of a queue takes a job that is due.
Take(q) ==
  /\ pc[q] = "idle"
  /\ \E b \in Bookings :
       /\ jobs[q][b].state = "waiting" /\ jobs[q][b].due <= now
       /\ jobs' = [jobs EXCEPT ![q][b].state = "active"]
       /\ req' = [req EXCEPT ![q] = [op |-> q, user |-> Landlord, bk |-> b]]
  /\ Goto(q, "load")
  /\ UNCHANGED <<now, Table, want, ent, first, age, faults, interrupted>>

\* findById and the checks at the head of the handler or processor.
Load(a) ==
  /\ pc[a] = "load"
  /\ LET b == row[Bk(a)] IN
     \/ b = NoRow /\ Throw(a)
     \/ b # NoRow /\ ~Permitted(req[a].op, req[a].user, b) /\ Finish(a) /\ UNCHANGED jobs
     \/ /\ b # NoRow /\ Permitted(req[a].op, req[a].user, b)
        /\ first' = [first EXCEPT ![a] = b]
        /\ Goto(a, IF req[a].op = "updatePeriod" THEN "validate" ELSE "reload")
        /\ UNCHANGED <<jobs, req, want, ent, age>>
  /\ UNCHANGED <<now, Table, faults, interrupted>>

\* bookingsService.create and updatePeriod, up to the query for overlapping
\* bookings; updatePeriod reads the booking again and does not look at its status.
Validate(r) ==
  /\ pc[r] = "validate"
  /\ LET b == Bk(r)
         p == want[r]
         gone == req[r].op = "updatePeriod" /\ row[b] = NoRow
     IN \/ /\ ~gone /\ Valid(b, p)
           /\ ent' = [ent EXCEPT ![r] =
                IF req[r].op = "create" THEN Row(req[r].user, p, "PENDING")
                ELSE Row(row[b].renter, p, row[b].status)]
           /\ Goto(r, IF req[r].op = "create" THEN "insert" ELSE "save")
           /\ UNCHANGED <<req, want, first, age>>
        \/ (gone \/ ~Valid(b, p)) /\ Finish(r)
  /\ UNCHANGED <<now, Table, jobs, faults, interrupted>>

\* create: the INSERT.
Insert(r) ==
  /\ pc[r] = "insert"
  /\ row' = [row EXCEPT ![r] = ent[r]]
  /\ Goto(r, "readback")
  /\ UNCHANGED <<now, balance, entries, jobs, req, want, ent, first, age, faults, interrupted>>

\* create: findById of the new booking.
ReadBack(r) ==
  /\ pc[r] = "readback"
  /\ ent' = [ent EXCEPT ![r] = row[r]]
  /\ Goto(r, "pay")
  /\ UNCHANGED <<now, Table, jobs, req, want, first, age, faults, interrupted>>

\* Mutant of Pay: the handler leaves an unpaid booking in the table.
PayKeepingUnpaid(r) ==
  /\ pc[r] = "pay"
  /\ LET payable == Payable(req[r].user, r, ent[r].total) IN
     \/ payable /\ ProcessPayment(req[r].user, r, ent[r].total)
     \/ ~payable /\ UNCHANGED <<balance, entries>>
  /\ Finish(r)
  /\ UNCHANGED <<now, row, jobs, faults, interrupted>>

\* create: processBookingPayment; the handler deletes the booking if it throws.
Pay(r) ==
  /\ pc[r] = "pay"
  /\ LET payable == Payable(req[r].user, r, ent[r].total) IN
     \/ payable /\ ProcessPayment(req[r].user, r, ent[r].total) /\ Finish(r)
     \/ ~payable /\ Goto(r, "delete") /\ UNCHANGED <<balance, entries, req, want, ent, first, age>>
  /\ UNCHANGED <<now, row, jobs, faults, interrupted>>

Delete(r) ==
  /\ pc[r] = "delete"
  /\ row' = [row EXCEPT ![r] = NoRow]
  /\ Finish(r)
  /\ UNCHANGED <<now, balance, entries, jobs, faults, interrupted>>

\* updateStatus: findById, and the status is set in memory whatever it is by now.
Reload(a) ==
  /\ pc[a] = "reload"
  /\ LET b == row[Bk(a)] IN
     \/ b = NoRow /\ Throw(a)
     \/ /\ b # NoRow
        /\ ent' = [ent EXCEPT ![a] = [b EXCEPT !.status = TargetStatus(req[a].op)]]
        /\ Goto(a, "save")
        /\ UNCHANGED <<jobs, req, want, first, age>>
  /\ UNCHANGED <<now, Table, faults, interrupted>>

\* bookingRepository.save of updateStatus and updatePeriod: every column is
\* written, and a row that was deleted is inserted again.
Save(a) ==
  /\ pc[a] = "save"
  /\ row' = [row EXCEPT ![Bk(a)] = ent[a]]
  /\ Goto(a, AfterSave(req[a].op))
  /\ UNCHANGED <<now, balance, entries, jobs, req, want, ent, first, age, faults, interrupted>>

\* updatePeriod: the renter pays the difference or gets it back; a payment that
\* is refused leaves the new period and price saved.
Charge(r) ==
  /\ pc[r] = "charge"
  /\ LET b == Bk(r)
         u == req[r].user
         diff == ent[r].total - first[r].total
         refused == \/ diff > 0 /\ ~Payable(u, b, diff)
                    \/ diff < 0 /\ ~Creditable(b)
     IN \/ diff > 0 /\ ~refused /\ ProcessPayment(u, b, diff) /\ UNCHANGED interrupted
        \/ diff < 0 /\ ~refused /\ ProcessRefund(u, b, -diff) /\ UNCHANGED interrupted
        \/ diff = 0 /\ UNCHANGED <<balance, entries, interrupted>>
        \/ refused /\ Interrupt({r}) /\ UNCHANGED <<balance, entries>>
  /\ Finish(r)
  /\ UNCHANGED <<now, row, jobs, faults>>

\* Mutant of Refund: only a renter's cancellation pays the price back.
RefundCancelledOnly(r) ==
  /\ pc[r] = "refund"
  /\ \/ req[r].op = "cancel" /\ Creditable(Bk(r)) /\ ProcessRefund(ent[r].renter, Bk(r), ent[r].total)
     \/ req[r].op # "cancel" /\ UNCHANGED <<balance, entries>>
  /\ Goto(r, "unschedule")
  /\ UNCHANGED <<now, row, faults, jobs, req, want, ent, first, age, interrupted>>

\* cancel and reject: processRefund of the price of the booking that was saved.
Refund(r) ==
  /\ pc[r] = "refund"
  /\ \/ /\ Creditable(Bk(r))
        /\ ProcessRefund(ent[r].renter, Bk(r), ent[r].total)
        /\ Goto(r, "unschedule")
        /\ UNCHANGED <<jobs, req, want, ent, first, age, interrupted>>
     \/ ~Creditable(Bk(r)) /\ Interrupt({r}) /\ Throw(r) /\ UNCHANGED <<balance, entries>>
  /\ UNCHANGED <<now, row, faults>>

\* The listener on booking.cancelled and booking.rejected.
Unschedule(r) ==
  /\ pc[r] = "unschedule"
  /\ jobs' = Remove("start", Bk(r))
  /\ Finish(r)
  /\ UNCHANGED <<now, Table, faults, interrupted>>

\* Mutant of Schedule: jobs are added without a delay.
ScheduleNow(a) ==
  /\ pc[a] = "schedule"
  /\ jobs' = Add(IF a = "start" THEN "complete" ELSE "start", Bk(a), now)
  /\ Finish(a)
  /\ UNCHANGED <<now, Table, faults, interrupted>>

\* The listener on booking.confirmed adds the start job; the start processor
\* adds the completion job, with the end of the booking it read first.
Schedule(a) ==
  /\ pc[a] = "schedule"
  /\ jobs' = IF a = "start" THEN Add("complete", Bk(a), Later(now, first[a].end))
               ELSE Add("start", Bk(a), Later(now, ent[a].start))
  /\ Finish(a)
  /\ UNCHANGED <<now, Table, faults, interrupted>>

\* The completion processor pays the landlord the price it read first.
Payout(q) ==
  /\ pc[q] = "payout"
  /\ \/ /\ Creditable(Bk(q)) /\ ProcessPayout(Bk(q), first[q].total)
        /\ Finish(q) /\ UNCHANGED <<jobs, interrupted>>
     \/ ~Creditable(Bk(q)) /\ Interrupt({q}) /\ Throw(q) /\ UNCHANGED <<balance, entries>>
  /\ UNCHANGED <<now, row, faults>>

\* The worker reports the job done and BullMQ removes it (removeOnComplete).
Ack(q) ==
  /\ pc[q] = "ack"
  /\ jobs' = [jobs EXCEPT ![q][Bk(q)] = NoJob]
  /\ Leave(q)
  /\ UNCHANGED <<now, Table, faults, interrupted>>

\* A statement on PostgreSQL or Redis fails at the await where the actor is; a
\* job whose report is lost keeps the state of a job whose worker died.
Fault(a) ==
  /\ pc[a] \notin Idle /\ faults < MaxFaults
  /\ faults' = faults + 1
  /\ \/ /\ pc[a] = "pay" /\ Goto(a, "delete")
        /\ UNCHANGED <<jobs, req, want, ent, first, age, interrupted>>
     \/ /\ pc[a] = "ack" /\ Leave(a)
        /\ jobs' = [jobs EXCEPT ![a][Bk(a)] = Recovered(@)]
        /\ UNCHANGED interrupted
     \/ pc[a] \notin {"pay", "ack"} /\ Throw(a) /\ Interrupt({a})
  /\ UNCHANGED <<now, Table>>

\* The process dies with every handler and worker in it, and starts again.
Crash ==
  /\ \E a \in Actors : pc[a] \notin Idle
  /\ faults < MaxFaults /\ faults' = faults + 1
  /\ Interrupt(Actors)
  /\ pc' = [a \in Actors |-> IF pc[a] \in Idle THEN pc[a] ELSE IF a \in Queues THEN "idle" ELSE "done"]
  /\ req' = [a \in Actors |-> NoReq]
  /\ want' = [a \in Actors |-> NoPeriod]
  /\ ent' = [a \in Actors |-> NoRow]
  /\ first' = [a \in Actors |-> NoRow]
  /\ age' = [a \in Actors |-> 0]
  /\ jobs' = [q \in Queues |-> [b \in Bookings |-> Recovered(jobs[q][b])]]
  /\ UNCHANGED <<now, Table>>

\* The clock; no handler and no job takes more than MaxAge ticks.
Tick ==
  /\ now < MaxTime
  /\ \A a \in Actors : pc[a] \notin Idle => age[a] < MaxAge
  /\ now' = now + 1
  /\ age' = [a \in Actors |-> IF pc[a] \in Idle THEN 0 ELSE age[a] + 1]
  /\ UNCHANGED <<Table, jobs, pc, req, want, ent, first, faults, interrupted>>

Init ==
  /\ now = 0
  /\ row = [b \in Bookings |-> NoRow]
  /\ balance = [u \in Users |-> IF u \in Renters THEN Funds ELSE 0]
  /\ entries = [b \in Bookings |-> [paid |-> 0, refunded |-> 0, paidOut |-> 0]]
  /\ jobs = [q \in Queues |-> [b \in Bookings |-> NoJob]]
  /\ pc = [a \in Actors |-> "idle"]
  /\ req = [a \in Actors |-> NoReq]
  /\ want = [a \in Actors |-> NoPeriod]
  /\ ent = [a \in Actors |-> NoRow]
  /\ first = [a \in Actors |-> NoRow]
  /\ age = [a \in Actors |-> 0]
  /\ faults = 0
  /\ interrupted = {}

\* What an actor does next.
Progress(a) ==
  \/ a \in Queues /\ (Take(a) \/ Payout(a) \/ Ack(a))
  \/ a \in Requests /\ (\/ Validate(a) \/ Insert(a) \/ ReadBack(a) \/ Pay(a) \/ Delete(a)
                        \/ Charge(a) \/ Refund(a) \/ Unschedule(a))
  \/ Load(a) \/ Reload(a) \/ Save(a) \/ Schedule(a)

Next ==
  \/ \E r \in Requests : Arrive(r)
  \/ \E a \in Actors : Progress(a) \/ Fault(a)
  \/ Crash
  \/ Tick

Spec == Init /\ [][Next]_vars

\* The event loop runs every handler on, BullMQ polls its queues and the clock
\* goes on; nobody has to send a request.
FairSpec == Spec /\ WF_vars(Tick) /\ \A a \in Actors : WF_vars(Progress(a))

-----------------------------------------------------------------------------
(* Properties *)

Labels == {"load", "validate", "insert", "readback", "pay", "delete", "reload", "save",
           "charge", "refund", "unschedule", "schedule", "payout", "ack"}
Ops == {"create", "updatePeriod", "cancel", "confirm", "reject", "none"} \cup Queues

\* Every variable has the type the schema, the entities and BullMQ give it.
TypeOK ==
  /\ now \in 0..MaxTime
  /\ row \in [Bookings -> Rows \cup {NoRow}]
  /\ balance \in [Users -> Nat]
  /\ entries \in [Bookings -> [paid: Nat, refunded: Nat, paidOut: Nat]]
  /\ jobs \in [Queues -> [Bookings -> Jobs]]
  /\ pc \in [Actors -> Idle \cup Labels]
  /\ req \in [Actors -> [op: Ops, user: Users, bk: Bookings \cup {NoBooking}]]
  /\ want \in [Actors -> Periods \cup {NoPeriod}]
  /\ ent \in [Actors -> Rows \cup {NoRow}]
  /\ first \in [Actors -> Rows \cup {NoRow}]
  /\ age \in [Actors -> 0..MaxAge]
  /\ faults \in 0..MaxFaults
  /\ interrupted \subseteq Bookings

\* The steps at which each operation can be, once it has begun.
Steps(o) ==
  CASE o = "create"               -> {"validate", "insert", "readback", "pay", "delete"}
    [] o = "updatePeriod"         -> {"load", "validate", "save", "charge"}
    [] o \in {"cancel", "reject"} -> {"load", "reload", "save", "refund", "unschedule"}
    [] o = "confirm"              -> {"load", "reload", "save", "schedule"}
    [] o = "start"                -> {"load", "reload", "save", "schedule", "ack"}
    [] o = "complete"             -> {"load", "reload", "save", "payout", "ack"}
    [] o = "none"                 -> {}

\* An actor at work has an operation and a booking, and in memory what its next step uses.
Fits(a) ==
  /\ pc[a] \notin Idle =>
       /\ pc[a] \in Steps(req[a].op) /\ Bk(a) \in Bookings
       /\ a \in Queues <=> req[a].op \in Queues
       /\ a \in Queues => req[a].op = a
       /\ req[a].op \in Claims => want[a] \in Periods /\ req[a].user \in Renters
       /\ req[a].op = "create" => Bk(a) = a
  /\ pc[a] \in {"insert", "pay", "save", "charge", "refund"} => ent[a] \in Rows
  /\ pc[a] = "schedule" /\ a \in Requests => ent[a] \in Rows
  /\ pc[a] \in {"reload", "save", "charge", "payout"} => first[a] \in Rows
  /\ pc[a] = "schedule" /\ a \in Queues => first[a] \in Rows
  /\ pc[a] = "validate" /\ req[a].op = "updatePeriod" => first[a] \in Rows
  /\ pc[a] \in {"readback", "pay"} => row[a] \in Rows
Shape == \A a \in Actors : Fits(a)

\* When clients do not compete (Serial) ...
Exclusive ==
  \A q, r \in InFlight : q # r => Bk(q) # Bk(r) /\ ~{req[q].op, req[r].op} \subseteq Claims

\* ... a request that has not begun has no booking yet,
Fresh == \A r \in Requests : pc[r] = "idle" => row[r] = NoRow

\* ... what an actor has read is still what the table holds, all the way to its save,
Sees(a) ==
  LET b == row[Bk(a)] IN
  /\ pc[a] = "validate" /\ req[a].op = "updatePeriod" => b = first[a] /\ b.status = "PENDING"
  /\ pc[a] \in {"validate", "insert"} /\ req[a].op = "create" => b = NoRow
  /\ pc[a] = "insert" => ent[a].status = "PENDING"
  /\ pc[a] \in {"readback", "delete"} => b \in Rows /\ b.status = "PENDING"
  /\ pc[a] \in {"pay", "charge"} => b = ent[a] /\ b.status = "PENDING"
  /\ pc[a] \in {"reload", "save"} =>
       /\ b = first[a]
       /\ b.status = IF a = "start" THEN "CONFIRMED" ELSE IF a = "complete" THEN "ACTIVE"
                     ELSE "PENDING"
       /\ a = "complete" => b.end <= now
  /\ pc[a] = "save" =>
       IF req[a].op = "updatePeriod" THEN ent[a].status = "PENDING"
       ELSE ent[a] = [b EXCEPT !.status = TargetStatus(req[a].op)]
  /\ pc[a] = "refund" => b = ent[a] /\ b.status \in {"CANCELLED", "REJECTED"}
  /\ pc[a] = "payout" => b = [first[a] EXCEPT !.status = "COMPLETED"] /\ b.end <= now
View == \A a \in Actors : Sees(a)

\* ... the period it is about to save is still free,
PeriodFree(r) ==
  pc[r] \in {"insert", "save"} /\ req[r].op \in Claims =>
    \A c \in Bookings \ {Bk(r)} :
      row[c] # NoRow /\ row[c].status \in Busy => ~Overlap(row[c], ent[r])
StillFree == \A r \in Requests : PeriodFree(r)

Held(b) == IF row[b] # NoRow /\ row[b].status \in Busy THEN row[b].total ELSE 0

\* What the entries of a booking come to.
Escrow(b, n) == entries[b].paid = entries[b].refunded + entries[b].paidOut + n

\* What they come to before the actor moves the money it owes.
Before(a) ==
  CASE pc[a] \in {"readback", "pay", "delete"} -> 0
    [] pc[a] \in {"charge", "payout"}          -> first[a].total
    [] pc[a] = "refund"                        -> ent[a].total

\* ... and the money on the way is known.
OnTheWay(a) ==
  Owing(a) => /\ Bk(a) \notin interrupted => Escrow(Bk(a), Before(a))
              /\ a = "complete" => entries[Bk(a)].paidOut = 0
MoneyOnTheWay == \A a \in Actors : OnTheWay(a)

\* The platform holds exactly the price of every booking that is waiting or
\* under way, and nothing of one that is cancelled, rejected or completed;
\* unless a handler or a job was stopped between its save and its money.
EscrowExact ==
  \A b \in Bookings \ interrupted : (\A a \in Actors : Owing(a) => Bk(a) # b) =>
    Escrow(b, Held(b))

\* Two bookings of the listing that are waiting or under way never overlap
\* (validateBookingDates, check 3).
NoOverlap ==
  \A b, c \in Bookings :
    b # c /\ row[b] # NoRow /\ row[c] # NoRow /\ {row[b].status, row[c].status} \subseteq Busy
      => ~Overlap(row[b], row[c])

StatusGraph == {<<"PENDING", "CANCELLED">>, <<"PENDING", "REJECTED">>, <<"PENDING", "CONFIRMED">>,
                <<"CONFIRMED", "ACTIVE">>, <<"ACTIVE", "COMPLETED">>}

\* A booking moves only from PENDING, and then one way (the checks of the handlers).
StatusMoves ==
  [][\A b \in Bookings : row[b] # NoRow /\ row'[b] # NoRow /\ row[b].status # row'[b].status
       => <<row[b].status, row'[b].status>> \in StatusGraph]_vars

\* A booking is not started before its start nor completed before its end.
InItsTime ==
  \A b \in Bookings : row[b] # NoRow =>
    /\ row[b].status = "ACTIVE" => row[b].start <= now
    /\ row[b].status = "COMPLETED" => row[b].end <= now

\* The landlord is paid at most once, the price of a booking that was completed
\* after its end and stays so.
PaidOutOnce ==
  \A b \in Bookings : entries[b].paidOut > 0 =>
    /\ row[b] # NoRow /\ row[b].status = "COMPLETED" /\ row[b].end <= now
    /\ entries[b].paidOut = row[b].total

\* A booking becomes COMPLETED only from ACTIVE, after its end and with the period
\* and price it had, and stays COMPLETED, whatever the handlers are doing meanwhile.
CompletedForGood ==
  [][\A b \in Bookings :
       /\ row'[b] # row[b] /\ row'[b] # NoRow /\ row'[b].status = "COMPLETED" =>
            /\ row[b] = [row'[b] EXCEPT !.status = "ACTIVE"]
            /\ row[b].end <= now
       /\ row[b] # NoRow /\ row[b].status = "COMPLETED" => row'[b] = row[b]]_vars

\* When clients do not compete, a start job is one of a booking that was confirmed and
\* is due when it starts or later; so is the booking of a handler about to add one and
\* that of the worker that has taken one.
Begun(b) == row[b] # NoRow /\ row[b].status \in {"CONFIRMED", "ACTIVE", "COMPLETED"}
DueInTime ==
  /\ \A b \in Bookings : jobs["start"][b] # NoJob => Begun(b) /\ row[b].start <= jobs["start"][b].due
  /\ \A r \in Requests : pc[r] = "schedule" => Begun(Bk(r)) /\ row[Bk(r)].start = ent[r].start
  /\ pc["start"] \notin Idle =>
       LET b == Bk("start") IN
       jobs["start"][b].state = "active" /\ Begun(b) /\ row[b].start <= now

\* The inductive invariant: the types, the shape of what actors know and, when
\* clients do not compete, the table as each actor sees it, the money of each booking
\* and when its start job is due.
SerialInv == Exclusive /\ Fresh /\ View /\ StillFree /\ NoOverlap
             /\ MoneyOnTheWay /\ EscrowExact /\ PaidOutOnce
Known == TypeOK /\ Shape
Inv == Known /\ (Serial => SerialInv /\ DueInTime /\ InItsTime)

\* While nothing fails, a booking that was confirmed is completed and the
\* landlord gets the price.
ConfirmedIsPaidOut ==
  \A b \in Bookings :
    row[b] # NoRow /\ row[b].status = "CONFIRMED"
      ~> faults > 0 \/ (row[b] # NoRow /\ entries[b].paidOut = row[b].total)

\* A booking that was cancelled or rejected is paid back in full, unless the
\* handler was stopped before it could do so.
CancelledIsRefunded ==
  \A b \in Bookings :
    row[b] # NoRow /\ row[b].status \in {"CANCELLED", "REJECTED"}
      ~> b \in interrupted \/ entries[b].refunded = entries[b].paid

\* "BullMQ will retry automatically" (booking-completion.processor.ts:86): a
\* failure of the payout does not keep the landlord from being paid.
CompletedIsPaidOut ==
  \A b \in Bookings :
    row[b] # NoRow /\ row[b].status = "COMPLETED" ~> entries[b].paidOut > 0

\* "REFUND: the return for a cancelled or rejected booking" (01_init_schema.sql:16):
\* no more is returned for a booking than was paid for it.
RefundsBacked == \A b \in Bookings : entries[b].refunded <= entries[b].paid
=============================================================================
