--------------------------- MODULE BookingsProofs ---------------------------
(* Theorems about Bookings: first for any requests, then for clients that   *)
(* do not send competing requests (Serial), with the inductive invariant    *)
(* and what follows from it.                                                *)
EXTENDS Availability, FiniteSetTheorems, TLAPS
DI == INSTANCE DataInduction

\* The types of what an actor has in memory, and of everything else.
LocalOK ==
  /\ pc \in [Actors -> Idle \cup Labels]
  /\ req \in [Actors -> [op: Ops, user: Users, bk: Bookings \cup {NoBooking}]]
  /\ want \in [Actors -> Periods \cup {NoPeriod}]
  /\ ent \in [Actors -> Rows \cup {NoRow}]
  /\ first \in [Actors -> Rows \cup {NoRow}]
  /\ age \in [Actors -> 0..MaxAge]
SharedOK ==
  /\ now \in 0..MaxTime
  /\ row \in [Bookings -> Rows \cup {NoRow}]
  /\ balance \in [Users -> Nat]
  /\ entries \in [Bookings -> [paid: Nat, refunded: Nat, paidOut: Nat]]
  /\ jobs \in [Queues -> [Bookings -> Jobs]]
  /\ faults \in 0..MaxFaults
  /\ interrupted \subseteq Bookings

LEMMA TypeParts == TypeOK <=> LocalOK /\ SharedOK
  BY DEF TypeOK, LocalOK, SharedOK

-----------------------------------------------------------------------------
(* What the helpers return *)

\* A period has a length and a price.
LEMMA PeriodFacts ==
  ASSUME NEW p \in Periods
  PROVE  /\ p.start \in Nat /\ EndOf(p) \in Nat /\ TotalOf(p) \in Nat
         /\ p.start < EndOf(p)
<1>0. p.start \in 0..MaxTime /\ p.tariff \in Tariffs /\ p.count \in Counts
  BY DEF Periods
<1>1. p.start \in Nat /\ p.count \in Nat \ {0}
  <2>1. p.start \in Nat
    BY <1>0, BoundsAssumption
  <2>2. p.count \in Nat \ {0}
    BY <1>0, CountsAssumption
  <2>3. QED
    BY <2>1, <2>2
<1>2. p.tariff.length \in Nat \ {0} /\ p.tariff.price \in Nat \ {0}
  BY <1>0, TariffsAssumption
<1>3. \A m, n \in Nat \ {0} : m * n \in Nat \ {0}
  OBVIOUS
<1>4. p.tariff.length * p.count \in Nat \ {0} /\ p.tariff.price * p.count \in Nat \ {0}
  BY <1>1, <1>2, <1>3
<1>5. QED
  BY <1>1, <1>4 DEF EndOf, TotalOf

\* The entity create saves is one the table can hold.
LEMMA RowFacts ==
  ASSUME NEW u \in Renters, NEW p \in Periods, NEW s \in Statuses
  PROVE  Row(u, p, s) \in Rows
  BY PeriodFacts DEF Row, Rows

\* Queues hold jobs, whatever is done with them.
LEMMA JobFacts ==
  ASSUME jobs \in [Queues -> [Bookings -> Jobs]], NEW q \in Queues, NEW b \in Bookings
  PROVE  /\ NoJob \in Jobs
         /\ \A due \in Nat : Add(q, b, due) \in [Queues -> [Bookings -> Jobs]]
         /\ Remove(q, b) \in [Queues -> [Bookings -> Jobs]]
         /\ Retried(jobs[q][b]) \in Jobs /\ Recovered(jobs[q][b]) \in Jobs
<1>1. NoJob \in Jobs
  BY DEF NoJob, Jobs
<1>2. ASSUME NEW due \in Nat PROVE Add(q, b, due) \in [Queues -> [Bookings -> Jobs]]
  BY <1>1 DEF Add, NoJob, Jobs
<1>3. Remove(q, b) \in [Queues -> [Bookings -> Jobs]]
  BY <1>1 DEF Remove
<1>4. ASSUME NEW j \in Jobs PROVE Retried(j) \in Jobs /\ Recovered(j) \in Jobs
  <2>1. j.attempts + 1 \in Nat
    BY DEF Jobs
  <2>2. Retried(j) \in Jobs
    BY <2>1 DEF Retried, Jobs
  <2>3. Recovered(j) \in Jobs
    BY DEF Recovered, Jobs
  <2>4. QED
    BY <2>2, <2>3
<1>5. jobs[q][b] \in Jobs
  OBVIOUS
<1>6. QED
  BY <1>1, <1>2, <1>3, <1>4, <1>5

\* The initial state has the types and the shape.
LEMMA InitKnown == Init => Known
<1> SUFFICES ASSUME Init PROVE Known
  OBVIOUS
<1>1. TypeOK
  BY BoundsAssumption DEF Init, TypeOK, NoJob, Jobs, NoReq, Ops, Users, Idle
<1>2. Shape
  BY DEF Init, Shape, Fits, Idle
<1>3. QED
  BY <1>1, <1>2 DEF Known

-----------------------------------------------------------------------------
(* What the building blocks of the actions preserve *)

\* An actor whose memory does not change still fits, if the row it is about to
\* read back or pay for is still there.
LEMMA OthersFit ==
  ASSUME Known, NEW x \in Actors, pc'[x] = pc[x], req'[x] = req[x], want'[x] = want[x],
         ent'[x] = ent[x], first'[x] = first[x],
         x \in Requests /\ row[x] \in Rows => row'[x] \in Rows
  PROVE  Fits(x)'
<1>1. Fits(x)
  BY DEF Known, Shape
<1>2. pc[x] \in {"readback", "pay"} => x \in Requests
  BY <1>1 DEF Fits, Steps, Idle, Actors, Queues, Claims
<1>3. QED
  BY <1>1, <1>2 DEF Fits, Bk

\* Leaving forgets.
LEMMA LeaveKnown ==
  ASSUME Known, NEW a \in Actors, Leave(a),
         \A r \in Requests \ {a} : row[r] \in Rows => row'[r] \in Rows
  PROVE  LocalOK' /\ Shape'
<1>1. LocalOK'
  BY BoundsAssumption
  DEF Known, TypeOK, LocalOK, Leave, Goto, NoReq, Idle, Ops, Users
<1>2. ASSUME NEW x \in Actors PROVE Fits(x)'
  <2>1. CASE x = a
    <3>1. pc'[a] \in Idle
      BY DEF Known, TypeOK, Leave, Goto, Idle
    <3>2. QED
      BY <2>1, <3>1 DEF Fits, Idle
  <2>2. CASE x # a
    BY <2>2, OthersFit DEF Known, TypeOK, Leave, Goto
  <2>3. QED
    BY <2>1, <2>2
<1>3. QED
  BY <1>1, <1>2 DEF Shape

\* A handler that returns leaves, a worker goes on to report its job.
LEMMA FinishKnown ==
  ASSUME Known, NEW a \in Actors, pc[a] \notin Idle, Finish(a),
         \A r \in Requests \ {a} : row[r] \in Rows => row'[r] \in Rows
  PROVE  LocalOK' /\ Shape'
<1>1. CASE a \in Requests /\ Leave(a)
  BY <1>1, LeaveKnown
<1>2. CASE a \in Queues /\ Goto(a, "ack") /\ UNCHANGED <<req, want, ent, first, age>>
  <2>1. LocalOK'
    BY <1>2 DEF Known, TypeOK, LocalOK, Goto, Labels
  <2>2. ASSUME NEW x \in Actors PROVE Fits(x)'
    <3>1. CASE x = a
      <4>1. pc'[a] = "ack"
        BY <1>2 DEF Known, TypeOK, Goto
      <4>2. Fits(a)
        BY DEF Known, Shape
      <4>3. req[a].op \in {"start", "complete"} /\ a \notin Requests
        BY <4>2, <1>2, NullsAssumption DEF Fits, Queues
      <4>4. QED
        BY <3>1, <1>2, <4>1, <4>2, <4>3 DEF Fits, Steps, Bk, Idle, Claims
    <3>2. CASE x # a
      BY <3>2, <1>2, OthersFit DEF Known, TypeOK, Goto
    <3>3. QED
      BY <3>1, <3>2
  <2>3. QED
    BY <2>1, <2>2 DEF Shape
<1>3. QED
  BY <1>1, <1>2 DEF Finish

\* Throwing leaves, and a job that throws is still a job.
LEMMA ThrowKnown ==
  ASSUME Known, NEW a \in Actors, pc[a] \notin Idle, Throw(a),
         \A r \in Requests \ {a} : row[r] \in Rows => row'[r] \in Rows
  PROVE  LocalOK' /\ Shape' /\ jobs' \in [Queues -> [Bookings -> Jobs]]
<1>1. Bk(a) \in Bookings
  BY DEF Known, Shape, Fits
<1>2. jobs \in [Queues -> [Bookings -> Jobs]]
  BY DEF Known, TypeOK
<1>3. CASE a \in Queues
  <2>1. jobs' = [jobs EXCEPT ![a][Bk(a)] = Retried(jobs[a][Bk(a)])]
    BY <1>1, <1>2, <1>3 DEF Throw
  <2>2. Retried(jobs[a][Bk(a)]) \in Jobs
    BY <1>1, <1>2, <1>3, JobFacts
  <2>3. QED
    BY <1>1, <1>2, <1>3, <2>1, <2>2, LeaveKnown DEF Throw
<1>4. CASE a \notin Queues
  BY <1>2, <1>4, LeaveKnown DEF Throw
<1>5. QED
  BY <1>3, <1>4

\* An actor that goes on to a step of its operation, with what the step needs.
LEMMA GotoKnown ==
  ASSUME Known, NEW a \in Actors, NEW l \in Labels, Goto(a, l), Fits(a)',
         req' \in [Actors -> [op: Ops, user: Users, bk: Bookings \cup {NoBooking}]],
         want' \in [Actors -> Periods \cup {NoPeriod}],
         ent' \in [Actors -> Rows \cup {NoRow}],
         first' \in [Actors -> Rows \cup {NoRow}],
         \A x \in Actors \ {a} : /\ req'[x] = req[x] /\ want'[x] = want[x]
                                 /\ ent'[x] = ent[x] /\ first'[x] = first[x],
         UNCHANGED age,
         \A r \in Requests \ {a} : row[r] \in Rows => row'[r] \in Rows
  PROVE  LocalOK' /\ Shape'
<1>1. LocalOK'
  BY DEF Known, TypeOK, LocalOK, Goto
<1>2. ASSUME NEW x \in Actors, x # a PROVE Fits(x)'
  BY <1>2, OthersFit DEF Known, TypeOK, Goto
<1>3. QED
  BY <1>1, <1>2 DEF Shape

\* Money stays in natural numbers: a payment is checked against the balance.
LEMMA MoneyTyped ==
  ASSUME TypeOK, NEW u \in Users, NEW b \in Bookings, NEW n \in Nat,
         \/ Payable(u, b, n) /\ ProcessPayment(u, b, n)
         \/ ProcessRefund(u, b, n)
         \/ ProcessPayout(b, n)
  PROVE  /\ balance' \in [Users -> Nat]
         /\ entries' \in [Bookings -> [paid: Nat, refunded: Nat, paidOut: Nat]]
<1>1. /\ \A v \in Users : balance[v] \in Nat
      /\ entries[b] \in [paid: Nat, refunded: Nat, paidOut: Nat]
      /\ Landlord \in Users
  BY DEF TypeOK, Users
<1>2. CASE Payable(u, b, n) /\ ProcessPayment(u, b, n)
  <2>1. balance[u] - n \in Nat /\ entries[b].paid + n \in Nat
    BY <1>1, <1>2 DEF Payable
  <2>2. QED
    BY <1>2, <2>1 DEF TypeOK, ProcessPayment
<1>3. CASE ProcessRefund(u, b, n)
  <2>1. balance[u] + n \in Nat /\ entries[b].refunded + n \in Nat
    BY <1>1
  <2>2. QED
    BY <1>3, <2>1 DEF TypeOK, ProcessRefund
<1>4. CASE ProcessPayout(b, n)
  <2>1. balance[Landlord] + n \in Nat /\ entries[b].paidOut + n \in Nat
    BY <1>1
  <2>2. QED
    BY <1>4, <2>1 DEF TypeOK, ProcessPayout
<1>5. QED
  BY <1>2, <1>3, <1>4

-----------------------------------------------------------------------------
(* Each action preserves the types and the shape *)

LEMMA ArriveKnown == ASSUME Known, NEW r \in Requests, Arrive(r) PROVE Known'
<1>1. SharedOK'
  BY DEF Known, TypeOK, SharedOK, Arrive, Table
<1>2. PICK o \in Ops, u \in Users, b \in Bookings, p \in Periods \cup {NoPeriod},
           l \in {"validate", "load"} :
        /\ Ask(r, o, u, b, p, l)
        /\ \/ o = "create" /\ b = r /\ u \in Renters /\ p \in Periods /\ l = "validate"
           \/ o = "updatePeriod" /\ u \in Renters /\ p \in Periods /\ l = "load"
           \/ o \in {"cancel", "confirm", "reject"} /\ l = "load"
  <2>1. CASE \E u \in Renters, p \in Periods : Ask(r, "create", u, r, p, "validate")
    BY <2>1 DEF Ops, Users, Bookings
  <2>2. CASE \E u \in Renters, p \in Periods, b \in Bookings :
               row[b] # NoRow /\ Ask(r, "updatePeriod", u, b, p, "load")
    BY <2>2 DEF Ops, Users
  <2>3. CASE \E u \in Users, b \in Bookings, o \in {"cancel", "confirm", "reject"} :
               row[b] # NoRow /\ Ask(r, o, u, b, NoPeriod, "load")
    BY <2>3 DEF Ops
  <2>4. QED
    BY <2>1, <2>2, <2>3 DEF Arrive
<1>3. /\ r \in Actors /\ r \notin Queues /\ l \in Labels /\ Goto(r, l)
      /\ req' = [req EXCEPT ![r] = [op |-> o, user |-> u, bk |-> b]]
      /\ want' = [want EXCEPT ![r] = p]
      /\ UNCHANGED <<row, ent, first, age>>
  BY <1>2, NullsAssumption DEF Arrive, Ask, Actors, Labels, Table
<1>4. Fits(r)'
  <2>1. pc'[r] = l /\ req'[r] = [op |-> o, user |-> u, bk |-> b] /\ want'[r] = p
    BY <1>3 DEF Known, TypeOK, Goto
  <2>2. QED
    BY <1>2, <1>3, <2>1 DEF Fits, Steps, Bk, Idle, Claims, Queues
<1>5. LocalOK' /\ Shape'
  BY <1>3, <1>4, GotoKnown DEF Known, TypeOK
<1>6. QED
  BY <1>1, <1>5, TypeParts DEF Known, TypeOK, LocalOK, SharedOK

LEMMA TakeKnown == ASSUME Known, NEW q \in Queues, Take(q) PROVE Known'
<1>1. PICK b \in Bookings :
        /\ jobs' = [jobs EXCEPT ![q][b].state = "active"]
        /\ req' = [req EXCEPT ![q] = [op |-> q, user |-> Landlord, bk |-> b]]
  BY DEF Take
<1>2. SharedOK'
  <2>0. jobs[q][b] \in Jobs
    BY DEF Known, TypeOK
  <2>1. [jobs[q][b] EXCEPT !.state = "active"] \in Jobs
    BY <2>0 DEF Jobs
  <2>2. jobs' \in [Queues -> [Bookings -> Jobs]]
    BY <1>1, <2>1 DEF Known, TypeOK
  <2>3. QED
    BY <2>2 DEF Known, TypeOK, SharedOK, Take, Table
<1>3. /\ q \in Actors /\ q \notin Requests /\ Goto(q, "load") /\ "load" \in Labels
      /\ q \in {"start", "complete"} /\ Landlord \in Users /\ q \in Ops
      /\ UNCHANGED <<row, want, ent, first, age>>
  BY NullsAssumption DEF Take, Actors, Labels, Table, Queues, Users, Ops
<1>4. Fits(q)'
  <2>1. pc'[q] = "load" /\ req'[q] = [op |-> q, user |-> Landlord, bk |-> b]
    BY <1>1, <1>3 DEF Known, TypeOK, Goto
  <2>2. QED
    BY <1>3, <2>1 DEF Fits, Steps, Bk, Idle, Claims, Queues
<1>5. LocalOK' /\ Shape'
  BY <1>1, <1>3, <1>4, GotoKnown DEF Known, TypeOK
<1>6. QED
  BY <1>2, <1>5, TypeParts DEF Known, TypeOK, LocalOK, SharedOK

\* The operation of an actor at each of its steps.
LEMMA AtWork ==
  ASSUME Known, NEW a \in Actors, pc[a] \notin Idle
  PROVE  /\ Bk(a) \in Bookings /\ req[a].op \in Ops /\ req[a].user \in Users
         /\ a \in Queues => a \notin Requests /\ req[a].op = a /\ a \in {"start", "complete"}
         /\ a \in Requests => req[a].op \notin Queues
         /\ pc[a] \in {"validate", "charge"} => a \in Requests /\ req[a].user \in Renters
         /\ pc[a] = "validate" => req[a].op \in Claims /\ want[a] \in Periods
         /\ pc[a] \in {"insert", "readback", "pay", "delete"} =>
              req[a].op = "create" /\ Bk(a) = a /\ a \in Requests /\ req[a].user \in Renters
         /\ pc[a] = "load" => req[a].op \in Ops \ {"create", "none"}
         /\ pc[a] = "reload" => req[a].op \in {"cancel", "reject", "confirm", "start", "complete"}
         /\ pc[a] = "save" =>
              req[a].op \in {"updatePeriod", "cancel", "reject", "confirm", "start", "complete"}
         /\ pc[a] = "charge" => req[a].op = "updatePeriod"
         /\ pc[a] \in {"refund", "unschedule"} => req[a].op \in {"cancel", "reject"} /\ a \in Requests
         /\ pc[a] = "schedule" => req[a].op \in {"confirm", "start"}
         /\ pc[a] = "payout" => a = "complete"
         /\ pc[a] = "ack" => a \in Queues
<1>1. Fits(a) /\ req[a] \in [op: Ops, user: Users, bk: Bookings \cup {NoBooking}]
  BY DEF Known, TypeOK, Shape
<1>2. a \in Requests \/ a \in Queues
  BY DEF Actors
<1>3. pc[a] \in Steps(req[a].op) /\ Bk(a) \in Bookings
      /\ (a \in Queues <=> req[a].op \in Queues) /\ (a \in Queues => req[a].op = a)
      /\ (req[a].op \in Claims => want[a] \in Periods /\ req[a].user \in Renters)
      /\ (req[a].op = "create" => Bk(a) = a)
  BY <1>1 DEF Fits
<1>4. /\ pc[a] = "validate" => req[a].op \in Claims
      /\ pc[a] \in {"insert", "readback", "pay", "delete"} => req[a].op = "create"
      /\ pc[a] = "load" => req[a].op \in Ops \ {"create", "none"}
      /\ pc[a] = "reload" => req[a].op \in {"cancel", "reject", "confirm", "start", "complete"}
      /\ pc[a] = "save" =>
           req[a].op \in {"updatePeriod", "cancel", "reject", "confirm", "start", "complete"}
      /\ pc[a] = "charge" => req[a].op = "updatePeriod"
      /\ pc[a] \in {"refund", "unschedule"} => req[a].op \in {"cancel", "reject"}
      /\ pc[a] = "schedule" => req[a].op \in {"confirm", "start"}
      /\ pc[a] = "payout" => req[a].op = "complete"
      /\ pc[a] = "ack" => req[a].op \in {"start", "complete"}
  BY <1>1, <1>3 DEF Steps, Ops, Queues, Claims
<1>5. Queues = {"start", "complete"} /\ Claims = {"create", "updatePeriod"}
      /\ (a \in Queues => a \notin Requests)
  BY NullsAssumption DEF Queues, Claims
<1>6. QED
  BY <1>1, <1>2, <1>3, <1>4, <1>5

LEMMA LoadKnown == ASSUME Known, NEW a \in Actors, Load(a) PROVE Known'
<1> DEFINE b == row[Bk(a)]
<1>1. /\ pc[a] = "load" /\ pc[a] \notin Idle /\ UNCHANGED <<row, balance, entries, now, faults, interrupted>>
      /\ b \in Rows \cup {NoRow} /\ jobs \in [Queues -> [Bookings -> Jobs]]
  BY AtWork DEF Load, Idle, Table, Known, TypeOK
<1>2. CASE b = NoRow /\ Throw(a)
  BY <1>1, <1>2, ThrowKnown, TypeParts DEF Known, TypeOK, LocalOK, SharedOK
<1>3. CASE Finish(a) /\ UNCHANGED jobs
  BY <1>1, <1>3, FinishKnown, TypeParts DEF Known, TypeOK, LocalOK, SharedOK
<1>4. CASE /\ b # NoRow
           /\ first' = [first EXCEPT ![a] = b]
           /\ Goto(a, IF req[a].op = "updatePeriod" THEN "validate" ELSE "reload")
           /\ UNCHANGED <<jobs, req, want, ent, age>>
  <2>1. /\ first' \in [Actors -> Rows \cup {NoRow}] /\ first'[a] \in Rows
        /\ \A x \in Actors \ {a} : first'[x] = first[x]
    BY <1>1, <1>4 DEF Known, TypeOK
  <2>2. PICK l \in {"validate", "reload"} :
          /\ Goto(a, l)
          /\ l = "validate" <=> req[a].op = "updatePeriod"
    BY <1>4
  <2>3. pc'[a] = l /\ l \in Labels
    BY <2>2 DEF Known, TypeOK, Goto, Labels
  <2>4. Fits(a)'
    <3>1. Fits(a) /\ req[a].op \in Ops \ {"create", "none"}
      BY <1>1, AtWork DEF Known, Shape
    <3>2. l \in Steps(req[a].op)
      BY <2>2, <3>1 DEF Steps, Ops, Queues
    <3>3. QED
      BY <1>1, <1>4, <2>1, <2>2, <2>3, <3>1, <3>2 DEF Fits, Bk
  <2>5. LocalOK' /\ Shape'
    BY <1>1, <1>4, <2>1, <2>2, <2>3, <2>4, GotoKnown DEF Known, TypeOK
  <2>6. QED
    BY <1>1, <1>4, <2>5, TypeParts DEF Known, TypeOK, LocalOK, SharedOK
<1>5. QED
  BY <1>2, <1>3, <1>4 DEF Load

LEMMA ValidateKnown == ASSUME Known, NEW r \in Requests, Validate(r) PROVE Known'
<1>1. /\ r \in Actors /\ pc[r] = "validate" /\ pc[r] \notin Idle
      /\ UNCHANGED <<row, balance, entries, jobs, now, faults, interrupted>>
  BY DEF Validate, Idle, Table, Actors
<1>2. /\ req[r].op \in Claims /\ want[r] \in Periods /\ req[r].user \in Renters
      /\ Bk(r) \in Bookings
  BY <1>1, AtWork
<1>3. CASE Finish(r)
  BY <1>1, <1>3, FinishKnown, TypeParts DEF Known, TypeOK, LocalOK, SharedOK
<1>4. CASE /\ ~(req[r].op = "updatePeriod" /\ row[Bk(r)] = NoRow)
           /\ ent' = [ent EXCEPT ![r] =
                IF req[r].op = "create" THEN Row(req[r].user, want[r], "PENDING")
                ELSE Row(row[Bk(r)].renter, want[r], row[Bk(r)].status)]
           /\ Goto(r, IF req[r].op = "create" THEN "insert" ELSE "save")
           /\ UNCHANGED <<req, want, first, age>>
  <2>1. PICK l \in {"insert", "save"} :
          /\ Goto(r, l)
          /\ l = "insert" => req[r].op = "create"
          /\ l = "save" => req[r].op = "updatePeriod"
    BY <1>2, <1>4 DEF Claims
  <2>2. pc'[r] = l /\ l \in Labels
    BY <1>1, <2>1 DEF Known, TypeOK, Goto, Labels
  <2>3. PICK e \in Rows : ent' = [ent EXCEPT ![r] = e]
    <3>1. CASE req[r].op = "create"
      BY <1>2, <1>4, <3>1, RowFacts DEF Statuses, Busy
    <3>2. CASE req[r].op = "updatePeriod"
      <4>1. row[Bk(r)] \in Rows
        BY <1>2, <1>4, <3>2 DEF Known, TypeOK
      <4>2. row[Bk(r)].renter \in Renters /\ row[Bk(r)].status \in Statuses
        BY <4>1 DEF Rows
      <4>3. Row(row[Bk(r)].renter, want[r], row[Bk(r)].status) \in Rows
        BY <1>2, <4>2, RowFacts
      <4>4. QED
        BY <1>4, <3>2, <4>3
    <3>3. QED
      BY <1>2, <3>1, <3>2 DEF Claims
  <2>4. /\ ent' \in [Actors -> Rows \cup {NoRow}] /\ ent'[r] \in Rows
        /\ \A x \in Actors \ {r} : ent'[x] = ent[x]
    BY <1>1, <2>3 DEF Known, TypeOK
  <2>5. Fits(r)'
    <3>1. Fits(r)
      BY <1>1 DEF Known, Shape
    <3>2. l \in Steps(req[r].op)
      BY <2>1 DEF Steps
    <3>3. QED
      BY <1>1, <1>4, <2>1, <2>2, <2>4, <3>1, <3>2 DEF Fits, Bk
  <2>6. LocalOK' /\ Shape'
    BY <1>1, <1>4, <2>1, <2>2, <2>4, <2>5, GotoKnown DEF Known, TypeOK
  <2>7. QED
    BY <1>1, <2>6, TypeParts DEF Known, TypeOK, LocalOK, SharedOK
<1>5. QED
  BY <1>3, <1>4 DEF Validate

LEMMA InsertKnown == ASSUME Known, NEW r \in Requests, Insert(r) PROVE Known'
<1>1. /\ r \in Actors /\ pc[r] = "insert" /\ pc[r] \notin Idle /\ "readback" \in Labels
      /\ ent[r] \in Rows /\ r \in Bookings
  BY DEF Insert, Idle, Actors, Labels, Bookings, Known, Shape, Fits
<1>2. /\ req[r].op = "create" /\ Bk(r) = r
  BY <1>1, AtWork
<1>3. /\ row' \in [Bookings -> Rows \cup {NoRow}] /\ row'[r] \in Rows
      /\ \A b \in Bookings \ {r} : row'[b] = row[b]
  BY <1>1 DEF Insert, Known, TypeOK
<1>4. Fits(r)'
  <2>1. pc'[r] = "readback" /\ Fits(r)
    BY <1>1 DEF Known, TypeOK, Shape, Insert, Goto
  <2>2. QED
    BY <1>1, <1>2, <1>3, <2>1 DEF Fits, Bk, Insert, Steps
<1>5. LocalOK' /\ Shape'
  BY <1>1, <1>3, <1>4, GotoKnown DEF Known, TypeOK, Insert, Bookings
<1>6. QED
  BY <1>3, <1>5, TypeParts DEF Known, TypeOK, LocalOK, SharedOK, Insert

LEMMA ReadBackKnown == ASSUME Known, NEW r \in Requests, ReadBack(r) PROVE Known'
<1>1. /\ r \in Actors /\ pc[r] = "readback" /\ pc[r] \notin Idle /\ "pay" \in Labels
      /\ row[r] \in Rows /\ UNCHANGED row
  BY DEF ReadBack, Idle, Actors, Labels, Known, Shape, Fits, Table
<1>2. /\ req[r].op = "create" /\ Bk(r) = r
  BY <1>1, AtWork
<1>3. /\ ent' \in [Actors -> Rows \cup {NoRow}] /\ ent'[r] \in Rows
      /\ \A x \in Actors \ {r} : ent'[x] = ent[x]
  BY <1>1 DEF ReadBack, Known, TypeOK
<1>4. Fits(r)'
  <2>1. pc'[r] = "pay" /\ Fits(r)
    BY <1>1 DEF Known, TypeOK, Shape, ReadBack, Goto
  <2>2. QED
    BY <1>1, <1>2, <1>3, <2>1 DEF Fits, Bk, ReadBack, Steps
<1>5. LocalOK' /\ Shape'
  BY <1>1, <1>3, <1>4, GotoKnown DEF Known, TypeOK, ReadBack
<1>6. QED
  BY <1>5, TypeParts DEF Known, TypeOK, LocalOK, SharedOK, ReadBack, Table

\* A create whose payment did not go through goes on to delete the booking.
LEMMA DeleteNextKnown ==
  ASSUME Known, NEW a \in Actors, pc[a] = "pay", Goto(a, "delete"),
         UNCHANGED <<row, req, want, ent, first, age>>
  PROVE  LocalOK' /\ Shape'
<1>1. /\ pc[a] \notin Idle /\ "delete" \in Labels
  BY DEF Idle, Labels
<1>2. /\ req[a].op = "create" /\ Bk(a) = a
  BY <1>1, AtWork
<1>3. Fits(a)'
  <2>1. pc'[a] = "delete" /\ Fits(a)
    BY DEF Known, TypeOK, Shape, Goto
  <2>2. QED
    BY <1>1, <1>2, <2>1 DEF Fits, Bk, Steps
<1>4. QED
  BY <1>1, <1>3, GotoKnown DEF Known, TypeOK

LEMMA PayKnown == ASSUME Known, NEW r \in Requests, Pay(r) PROVE Known'
<1>1. /\ r \in Actors /\ pc[r] = "pay" /\ pc[r] \notin Idle /\ ent[r] \in Rows
      /\ UNCHANGED <<now, row, jobs, faults, interrupted>>
  BY DEF Pay, Idle, Actors, Known, Shape, Fits
<1>2. /\ req[r].user \in Users /\ r \in Bookings /\ ent[r].total \in Nat
  BY <1>1, AtWork DEF Bookings, Rows
<1>3. CASE /\ Payable(req[r].user, r, ent[r].total)
           /\ ProcessPayment(req[r].user, r, ent[r].total) /\ Finish(r)
  <2>1. /\ balance' \in [Users -> Nat]
        /\ entries' \in [Bookings -> [paid: Nat, refunded: Nat, paidOut: Nat]]
    BY <1>2, <1>3, MoneyTyped DEF Known
  <2>2. LocalOK' /\ Shape'
    BY <1>1, <1>3, FinishKnown
  <2>3. QED
    BY <1>1, <2>1, <2>2, TypeParts DEF Known, TypeOK, LocalOK, SharedOK
<1>4. CASE Goto(r, "delete") /\ UNCHANGED <<balance, entries, req, want, ent, first, age>>
  <2>1. LocalOK' /\ Shape'
    BY <1>1, <1>4, DeleteNextKnown
  <2>2. QED
    BY <1>1, <1>4, <2>1, TypeParts DEF Known, TypeOK, LocalOK, SharedOK
<1>5. QED
  BY <1>3, <1>4 DEF Pay

LEMMA DeleteKnown == ASSUME Known, NEW r \in Requests, Delete(r) PROVE Known'
<1>1. /\ r \in Actors /\ pc[r] = "delete" /\ pc[r] \notin Idle /\ Finish(r)
      /\ row' = [row EXCEPT ![r] = NoRow]
      /\ UNCHANGED <<now, balance, entries, jobs, faults, interrupted>>
  BY DEF Delete, Idle, Actors
<1>2. /\ row' \in [Bookings -> Rows \cup {NoRow}]
      /\ \A x \in Requests \ {r} : row'[x] = row[x]
  BY <1>1 DEF Known, TypeOK, Bookings
<1>3. LocalOK' /\ Shape'
  BY <1>1, <1>2, FinishKnown
<1>4. QED
  BY <1>1, <1>2, <1>3, TypeParts DEF Known, TypeOK, LocalOK, SharedOK

LEMMA ReloadKnown == ASSUME Known, NEW a \in Actors, Reload(a) PROVE Known'
<1> DEFINE b == row[Bk(a)]
<1>1. /\ pc[a] = "reload" /\ pc[a] \notin Idle /\ UNCHANGED <<row, balance, entries, now, faults, interrupted>>
      /\ b \in Rows \cup {NoRow} /\ "save" \in Labels
  BY AtWork DEF Reload, Idle, Table, Known, TypeOK, Labels
<1>2. CASE b = NoRow /\ Throw(a)
  BY <1>1, <1>2, ThrowKnown, TypeParts DEF Known, TypeOK, LocalOK, SharedOK
<1>3. CASE /\ b # NoRow
           /\ ent' = [ent EXCEPT ![a] = [b EXCEPT !.status = TargetStatus(req[a].op)]]
           /\ Goto(a, "save")
           /\ UNCHANGED <<jobs, req, want, first, age>>
  <2>1. req[a].op \in {"cancel", "reject", "confirm", "start", "complete"}
    BY <1>1, AtWork
  <2>2. TargetStatus(req[a].op) \in Statuses
    BY <2>1 DEF TargetStatus, Statuses, Busy
  <2>3. [b EXCEPT !.status = TargetStatus(req[a].op)] \in Rows
    BY <1>1, <1>3, <2>2 DEF Rows
  <2>4. /\ ent' \in [Actors -> Rows \cup {NoRow}] /\ ent'[a] \in Rows
        /\ \A x \in Actors \ {a} : ent'[x] = ent[x]
    BY <1>3, <2>3 DEF Known, TypeOK
  <2>5. Fits(a)'
    <3>1. pc'[a] = "save" /\ Fits(a)
      BY <1>3 DEF Known, TypeOK, Shape, Goto
    <3>2. "save" \in Steps(req[a].op)
      BY <2>1 DEF Steps
    <3>3. QED
      BY <1>1, <1>3, <2>4, <3>1, <3>2 DEF Fits, Bk
  <2>6. LocalOK' /\ Shape'
    BY <1>1, <1>3, <2>4, <2>5, GotoKnown DEF Known, TypeOK
  <2>7. QED
    BY <1>1, <1>3, <2>6, TypeParts DEF Known, TypeOK, LocalOK, SharedOK
<1>4. QED
  BY <1>2, <1>3 DEF Reload

LEMMA SaveKnown == ASSUME Known, NEW a \in Actors, Save(a) PROVE Known'
<1>1. /\ pc[a] = "save" /\ pc[a] \notin Idle /\ ent[a] \in Rows /\ first[a] \in Rows
      /\ UNCHANGED <<now, balance, entries, jobs, req, want, ent, first, age, faults, interrupted>>
  BY DEF Save, Idle, Known, Shape, Fits
<1>2. /\ req[a].op \in {"updatePeriod", "cancel", "reject", "confirm", "start", "complete"}
      /\ Bk(a) \in Bookings
  BY <1>1, AtWork
<1>3. /\ row' \in [Bookings -> Rows \cup {NoRow}]
      /\ \A x \in Requests : row[x] \in Rows => row'[x] \in Rows
  BY <1>1, <1>2 DEF Save, Known, TypeOK, Bookings
<1>4. PICK l \in {"charge", "refund", "schedule", "payout"} :
        Goto(a, l) /\ l \in Steps(req[a].op)
  BY <1>2 DEF Save, AfterSave, Steps
<1>5. pc'[a] = l /\ l \in Labels
  BY <1>4 DEF Known, TypeOK, Goto, Labels
<1>6. Fits(a)'
  <2>1. Fits(a)
    BY DEF Known, Shape
  <2>2. QED
    BY <1>1, <1>2, <1>4, <1>5, <2>1 DEF Fits, Bk
<1>7. LocalOK' /\ Shape'
  BY <1>1, <1>3, <1>4, <1>5, <1>6, GotoKnown DEF Known, TypeOK
<1>8. QED
  BY <1>1, <1>3, <1>7, TypeParts DEF Known, TypeOK, LocalOK, SharedOK

\* An interruption is of bookings.
LEMMA InterruptTyped ==
  ASSUME Known, NEW A \in SUBSET Actors, Interrupt(A)
  PROVE  interrupted' \subseteq Bookings
<1>1. \A x \in A : Owing(x) => Bk(x) \in Bookings
  BY AtWork DEF Owing, Idle
<1>2. QED
  BY <1>1 DEF Interrupt, Known, TypeOK

LEMMA ChargeKnown == ASSUME Known, NEW r \in Requests, Charge(r) PROVE Known'
<1> DEFINE diff == ent[r].total - first[r].total
<1>1. /\ r \in Actors /\ pc[r] = "charge" /\ pc[r] \notin Idle /\ Finish(r)
      /\ ent[r] \in Rows /\ first[r] \in Rows /\ UNCHANGED <<now, row, jobs, faults>>
  BY DEF Charge, Idle, Actors, Known, Shape, Fits
<1>2. req[r].user \in Users /\ Bk(r) \in Bookings
  BY <1>1, AtWork
<1>3. diff \in Int
  <2>1. ent[r].total \in Nat /\ first[r].total \in Nat
    BY <1>1 DEF Rows
  <2>2. QED
    BY <2>1
<1>4. /\ balance' \in [Users -> Nat]
      /\ entries' \in [Bookings -> [paid: Nat, refunded: Nat, paidOut: Nat]]
      /\ interrupted' \subseteq Bookings
  <2>1. CASE diff > 0 /\ Payable(req[r].user, Bk(r), diff)
             /\ ProcessPayment(req[r].user, Bk(r), diff) /\ UNCHANGED interrupted
    <3>1. diff \in Nat
      BY <1>3, <2>1
    <3>2. QED
      BY <1>2, <2>1, <3>1, MoneyTyped DEF Known, TypeOK
  <2>2. CASE diff < 0 /\ ProcessRefund(req[r].user, Bk(r), -diff) /\ UNCHANGED interrupted
    <3>1. -diff \in Nat
      BY <1>3, <2>2
    <3>2. QED
      BY <1>2, <2>2, <3>1, MoneyTyped DEF Known, TypeOK
  <2>3. CASE UNCHANGED <<balance, entries, interrupted>>
    BY <2>3 DEF Known, TypeOK
  <2>4. CASE Interrupt({r}) /\ UNCHANGED <<balance, entries>>
    BY <1>1, <2>4, InterruptTyped DEF Known, TypeOK
  <2>5. QED
    BY <2>1, <2>2, <2>3, <2>4 DEF Charge
<1>5. LocalOK' /\ Shape'
  BY <1>1, FinishKnown
<1>6. QED
  BY <1>1, <1>4, <1>5, TypeParts DEF Known, TypeOK, LocalOK, SharedOK

LEMMA RefundKnown == ASSUME Known, NEW r \in Requests, Refund(r) PROVE Known'
<1>1. /\ r \in Actors /\ pc[r] = "refund" /\ pc[r] \notin Idle /\ "unschedule" \in Labels
      /\ ent[r] \in Rows /\ UNCHANGED <<now, row, faults>>
  BY DEF Refund, Idle, Actors, Labels, Known, Shape, Fits
<1>2. Bk(r) \in Bookings /\ req[r].op \in {"cancel", "reject"}
  BY <1>1, AtWork
<1>3. CASE /\ ProcessRefund(ent[r].renter, Bk(r), ent[r].total)
           /\ Goto(r, "unschedule")
           /\ UNCHANGED <<jobs, req, want, ent, first, age, interrupted>>
  <2>1. ent[r].renter \in Users /\ ent[r].total \in Nat
    BY <1>1 DEF Rows, Users
  <2>2. /\ balance' \in [Users -> Nat]
        /\ entries' \in [Bookings -> [paid: Nat, refunded: Nat, paidOut: Nat]]
    BY <1>2, <1>3, <2>1, MoneyTyped DEF Known
  <2>3. Fits(r)'
    <3>1. pc'[r] = "unschedule" /\ Fits(r)
      BY <1>1, <1>3 DEF Known, TypeOK, Shape, Goto
    <3>2. QED
      BY <1>1, <1>2, <1>3, <3>1 DEF Fits, Bk, Steps
  <2>4. LocalOK' /\ Shape'
    BY <1>1, <1>3, <2>3, GotoKnown DEF Known, TypeOK
  <2>5. QED
    BY <1>1, <1>3, <2>2, <2>4, TypeParts DEF Known, TypeOK, LocalOK, SharedOK
<1>4. CASE Interrupt({r}) /\ Throw(r) /\ UNCHANGED <<balance, entries>>
  <2>1. interrupted' \subseteq Bookings
    BY <1>1, <1>4, InterruptTyped
  <2>2. LocalOK' /\ Shape' /\ jobs' \in [Queues -> [Bookings -> Jobs]]
    BY <1>1, <1>4, ThrowKnown
  <2>3. QED
    BY <1>1, <1>4, <2>1, <2>2, TypeParts DEF Known, TypeOK, LocalOK, SharedOK
<1>5. QED
  BY <1>3, <1>4 DEF Refund

LEMMA UnscheduleKnown == ASSUME Known, NEW r \in Requests, Unschedule(r) PROVE Known'
<1>1. /\ r \in Actors /\ pc[r] = "unschedule" /\ pc[r] \notin Idle /\ Finish(r)
      /\ jobs' = Remove("start", Bk(r))
      /\ UNCHANGED <<row, balance, entries, now, faults, interrupted>>
  BY DEF Unschedule, Idle, Actors, Table
<1>2. jobs' \in [Queues -> [Bookings -> Jobs]]
  BY <1>1, AtWork, JobFacts DEF Known, TypeOK, Queues
<1>3. LocalOK' /\ Shape'
  BY <1>1, FinishKnown
<1>4. QED
  BY <1>1, <1>2, <1>3, TypeParts DEF Known, TypeOK, LocalOK, SharedOK

LEMMA ScheduleKnown == ASSUME Known, NEW a \in Actors, Schedule(a) PROVE Known'
<1>1. /\ pc[a] = "schedule" /\ pc[a] \notin Idle /\ Finish(a)
      /\ UNCHANGED <<row, balance, entries, now, faults, interrupted>>
  BY DEF Schedule, Idle, Table
<1>2. PICK q \in Queues, due \in Nat : jobs' = Add(q, Bk(a), due)
  <2>1. now \in Nat
    BY BoundsAssumption DEF Known, TypeOK
  <2>2. CASE a = "start"
    <3>1. first[a] \in Rows
      BY <1>1, <2>2 DEF Known, Shape, Fits, Queues
    <3>2. Later(now, first[a].end) \in Nat
      BY <2>1, <3>1 DEF Later, Rows
    <3>3. QED
      BY <2>2, <3>2 DEF Schedule, Queues
  <2>3. CASE a # "start"
    <3>1. a \in Requests
      BY <1>1, <2>3, AtWork DEF Actors, Queues
    <3>2. ent[a] \in Rows
      BY <1>1, <3>1 DEF Known, Shape, Fits
    <3>3. Later(now, ent[a].start) \in Nat
      BY <2>1, <3>2 DEF Later, Rows
    <3>4. QED
      BY <2>3, <3>3 DEF Schedule, Queues
  <2>4. QED
    BY <2>2, <2>3
<1>3. jobs' \in [Queues -> [Bookings -> Jobs]]
  BY <1>1, <1>2, AtWork, JobFacts DEF Known, TypeOK
<1>4. LocalOK' /\ Shape'
  BY <1>1, FinishKnown
<1>5. QED
  BY <1>1, <1>3, <1>4, TypeParts DEF Known, TypeOK, LocalOK, SharedOK

LEMMA PayoutKnown == ASSUME Known, NEW q \in Queues, Payout(q) PROVE Known'
<1>1. /\ q \in Actors /\ pc[q] = "payout" /\ pc[q] \notin Idle /\ first[q] \in Rows
      /\ UNCHANGED <<now, row, faults>>
  BY DEF Payout, Idle, Actors, Known, Shape, Fits
<1>2. Bk(q) \in Bookings /\ first[q].total \in Nat /\ Landlord \in Users
  BY <1>1, AtWork DEF Rows, Users
<1>3. CASE ProcessPayout(Bk(q), first[q].total) /\ Finish(q) /\ UNCHANGED <<jobs, interrupted>>
  <2>1. /\ balance' \in [Users -> Nat]
        /\ entries' \in [Bookings -> [paid: Nat, refunded: Nat, paidOut: Nat]]
    BY <1>2, <1>3, MoneyTyped DEF Known
  <2>2. LocalOK' /\ Shape'
    BY <1>1, <1>3, FinishKnown
  <2>3. QED
    BY <1>1, <1>3, <2>1, <2>2, TypeParts DEF Known, TypeOK, LocalOK, SharedOK
<1>4. CASE Interrupt({q}) /\ Throw(q) /\ UNCHANGED <<balance, entries>>
  <2>1. interrupted' \subseteq Bookings
    BY <1>1, <1>4, InterruptTyped
  <2>2. LocalOK' /\ Shape' /\ jobs' \in [Queues -> [Bookings -> Jobs]]
    BY <1>1, <1>4, ThrowKnown
  <2>3. QED
    BY <1>1, <1>4, <2>1, <2>2, TypeParts DEF Known, TypeOK, LocalOK, SharedOK
<1>5. QED
  BY <1>3, <1>4 DEF Payout

LEMMA AckKnown == ASSUME Known, NEW q \in Queues, Ack(q) PROVE Known'
<1>1. /\ q \in Actors /\ pc[q] = "ack" /\ pc[q] \notin Idle /\ Leave(q)
      /\ jobs' = [jobs EXCEPT ![q][Bk(q)] = NoJob]
      /\ UNCHANGED <<row, balance, entries, now, faults, interrupted>>
  BY DEF Ack, Idle, Actors, Table
<1>2. jobs' \in [Queues -> [Bookings -> Jobs]]
  <2>1. Bk(q) \in Bookings
    BY <1>1, AtWork
  <2>2. NoJob \in Jobs
    BY <2>1, JobFacts DEF Known, TypeOK
  <2>3. QED
    BY <1>1, <2>1, <2>2 DEF Known, TypeOK
<1>3. LocalOK' /\ Shape'
  BY <1>1, LeaveKnown
<1>4. QED
  BY <1>1, <1>2, <1>3, TypeParts DEF Known, TypeOK, LocalOK, SharedOK

LEMMA FaultKnown == ASSUME Known, NEW a \in Actors, Fault(a) PROVE Known'
<1>1. pc[a] \notin Idle /\ UNCHANGED <<row, balance, entries, now>>
  BY DEF Fault, Table
<1>2. faults' \in 0..MaxFaults
  BY BoundsAssumption DEF Fault, Known, TypeOK
<1>3. CASE pc[a] = "pay" /\ Goto(a, "delete")
           /\ UNCHANGED <<jobs, req, want, ent, first, age, interrupted>>
  BY <1>1, <1>2, <1>3, DeleteNextKnown, TypeParts DEF Known, TypeOK, LocalOK, SharedOK
<1>4. CASE pc[a] = "ack" /\ Leave(a) /\ UNCHANGED interrupted
           /\ jobs' = [jobs EXCEPT ![a][Bk(a)] = Recovered(jobs[a][Bk(a)])]
  <2>1. a \in Queues /\ Bk(a) \in Bookings
    BY <1>1, <1>4, AtWork
  <2>2. Recovered(jobs[a][Bk(a)]) \in Jobs
    BY <2>1, JobFacts DEF Known, TypeOK
  <2>3. jobs' \in [Queues -> [Bookings -> Jobs]]
    BY <1>4, <2>1, <2>2 DEF Known, TypeOK
  <2>4. LocalOK' /\ Shape'
    BY <1>1, <1>4, LeaveKnown
  <2>5. QED
    BY <1>1, <1>2, <1>4, <2>3, <2>4, TypeParts DEF Known, TypeOK, LocalOK, SharedOK
<1>5. CASE Throw(a) /\ Interrupt({a})
  <2>1. interrupted' \subseteq Bookings
    BY <1>5, InterruptTyped
  <2>2. LocalOK' /\ Shape' /\ jobs' \in [Queues -> [Bookings -> Jobs]]
    BY <1>1, <1>5, ThrowKnown
  <2>3. QED
    BY <1>1, <1>2, <2>1, <2>2, TypeParts DEF Known, TypeOK, LocalOK, SharedOK
<1>6. QED
  <2>1. \/ pc[a] = "pay" /\ Goto(a, "delete")
           /\ UNCHANGED <<jobs, req, want, ent, first, age, interrupted>>
        \/ pc[a] = "ack" /\ Leave(a) /\ UNCHANGED interrupted
           /\ jobs' = [jobs EXCEPT ![a][Bk(a)] = Recovered(jobs[a][Bk(a)])]
        \/ Throw(a) /\ Interrupt({a})
    BY AtWork DEF Fault, Known, TypeOK
  <2>2. QED
    BY <1>3, <1>4, <1>5, <2>1

LEMMA CrashKnown == ASSUME Known, Crash PROVE Known'
<1>1. LocalOK'
  BY BoundsAssumption DEF Crash, Known, TypeOK, LocalOK, NoReq, Idle, Ops, Users
<1>2. \A a \in Actors : pc'[a] \in Idle
  BY DEF Crash, Idle
<1>3. Shape'
  BY <1>2 DEF Shape, Fits, Idle
<1>4. jobs' \in [Queues -> [Bookings -> Jobs]]
  BY JobFacts DEF Crash, Known, TypeOK
<1>5. interrupted' \subseteq Bookings
  BY InterruptTyped DEF Crash
<1>6. faults' \in 0..MaxFaults
  BY BoundsAssumption DEF Crash, Known, TypeOK
<1>7. SharedOK'
  BY <1>4, <1>5, <1>6 DEF Crash, Table, Known, TypeOK, SharedOK
<1>8. QED
  BY <1>1, <1>3, <1>7 DEF Known, TypeOK, LocalOK, SharedOK

LEMMA TickKnown == ASSUME Known, Tick PROVE Known'
<1>1. now' \in 0..MaxTime
  BY BoundsAssumption DEF Tick, Known, TypeOK
<1>2. age' \in [Actors -> 0..MaxAge]
  BY BoundsAssumption DEF Tick, Known, TypeOK
<1>3. UNCHANGED <<row, balance, entries, jobs, pc, req, want, ent, first, faults, interrupted>>
  BY DEF Tick, Table
<1>4. Shape'
  BY <1>3, OthersFit DEF Shape
<1>5. QED
  BY <1>1, <1>2, <1>3, <1>4 DEF Known, TypeOK

-----------------------------------------------------------------------------
(* The theorem *)

LEMMA NextKnown == Known /\ [Next]_vars => Known'
<1> SUFFICES ASSUME Known, [Next]_vars PROVE Known'
  OBVIOUS
<1>1. CASE \E r \in Requests : Arrive(r)
  BY <1>1, ArriveKnown
<1>2. ASSUME NEW a \in Actors, Progress(a) PROVE Known'
  <2>1. CASE a \in Queues /\ (Take(a) \/ Payout(a) \/ Ack(a))
    BY <2>1, TakeKnown, PayoutKnown, AckKnown
  <2>2. CASE a \in Requests /\ (\/ Validate(a) \/ Insert(a) \/ ReadBack(a) \/ Pay(a) \/ Delete(a)
                                \/ Charge(a) \/ Refund(a) \/ Unschedule(a))
    BY <2>2, ValidateKnown, InsertKnown, ReadBackKnown, PayKnown, DeleteKnown, ChargeKnown,
       RefundKnown, UnscheduleKnown
  <2>3. CASE Load(a) \/ Reload(a) \/ Save(a) \/ Schedule(a)
    BY <2>3, LoadKnown, ReloadKnown, SaveKnown, ScheduleKnown
  <2>4. QED
    BY <1>2, <2>1, <2>2, <2>3 DEF Progress
<1>3. CASE \E a \in Actors : Fault(a)
  BY <1>3, FaultKnown
<1>4. CASE Crash \/ Tick
  BY <1>4, CrashKnown, TickKnown
<1>5. CASE UNCHANGED vars
  BY <1>5 DEF vars, Known, TypeOK, Shape, Fits, Bk
<1>6. QED
  BY <1>1, <1>2, <1>3, <1>4, <1>5 DEF Next

\* Whatever the requests, the failures and the crashes are, every variable keeps
\* its type (a balance is never negative, a job is one BullMQ can hold) and no
\* actor is ever at a step whose operation does not have it or whose entity it
\* has not read: the handlers and processors never work on nothing.
THEOREM KnownInvariance == Spec => []Known
<1>1. QED
  BY InitKnown, NextKnown, PTL DEF Spec

-----------------------------------------------------------------------------
(* Clients that do not compete *)

\* The steps at which an actor relies on the row of its booking.
Watching == {"validate", "insert", "readback", "pay", "delete", "charge", "reload", "save",
             "refund", "payout"}

\* A step changes the memory of one actor, the row and the entries of its booking.
Same(x) == /\ pc'[x] = pc[x] /\ req'[x] = req[x] /\ ent'[x] = ent[x] /\ first'[x] = first[x]
Frame(a) ==
  /\ \A x \in Actors \ {a} : Same(x)
  /\ \A c \in Bookings \ {Bk(a)} : row'[c] = row[c] /\ entries'[c] = entries[c]
  /\ now' = now
  /\ interrupted \subseteq interrupted'

-----------------------------------------------------------------------------
(* Who relies on a row *)

\* The status of a row tells which kind of actor relies on it.
LEMMA Watched ==
  ASSUME Known, NEW x \in Actors, Sees(x), pc[x] \in Watching
  PROVE  /\ Bk(x) \in Bookings
         /\ x \in Requests => row[Bk(x)] = NoRow \/ row[Bk(x)].status \in {"PENDING", "CANCELLED", "REJECTED"}
         /\ x \in Queues => row[Bk(x)] # NoRow
         /\ x = "start" => row[Bk(x)].status = "CONFIRMED"
         /\ x = "complete" => row[Bk(x)].status \in {"ACTIVE", "COMPLETED"}
<1>1. pc[x] \notin Idle /\ Fits(x)
  BY DEF Watching, Idle, Known, Shape
<1>2. CASE x \in Requests
  <2>1. x \notin {"start", "complete"} /\ x \notin Queues
    BY <1>2, NullsAssumption DEF Queues
  <2>2. pc[x] = "validate" => req[x].op \in {"create", "updatePeriod"}
    BY <1>1, AtWork DEF Claims
  <2>3. pc[x] = "insert" => req[x].op = "create"
    BY <1>1, AtWork
  <2>4. pc[x] # "payout"
    BY <1>1, <2>1, AtWork
  <2>5. QED
    BY <1>1, <1>2, <2>1, <2>2, <2>3, <2>4, AtWork DEF Sees, Watching
<1>3. CASE x \in Queues
  <2>1. x \in {"start", "complete"} /\ x \notin Requests
    BY <1>1, <1>3, AtWork
  <2>2. pc[x] \in {"reload", "save", "payout"} /\ (pc[x] = "payout" => x = "complete")
    BY <1>1, <2>1, AtWork DEF Watching
  <2>3. first[x] \in Rows
    BY <1>1, <2>2 DEF Fits
  <2>4. row[Bk(x)] # NoRow
    <3>1. [first[x] EXCEPT !.status = "COMPLETED"] \in Rows
      BY <2>3 DEF Rows, Statuses
    <3>2. QED
      BY <2>2, <2>3, <3>1, NullsAssumption DEF Sees
  <2>5. pc[x] = "payout" => row[Bk(x)].status = "COMPLETED"
    BY <2>3 DEF Sees, Rows
  <2>6. QED
    BY <1>1, <2>1, <2>2, <2>4, <2>5, AtWork DEF Sees
<1>4. QED
  BY <1>2, <1>3 DEF Actors

\* No two actors rely on the same row.
LEMMA OneWatcher ==
  ASSUME Known, SerialInv, NEW a \in Actors, NEW x \in Actors, a # x, Bk(a) = Bk(x),
         pc[a] \in Watching
  PROVE  pc[x] \notin Watching
<1> SUFFICES ASSUME pc[x] \in Watching PROVE FALSE
  OBVIOUS
<1>1. Sees(a) /\ Sees(x)
  BY DEF SerialInv, View
<1>2. CASE a \in Requests /\ x \in Requests
  BY <1>2 DEF SerialInv, Exclusive, InFlight, Watching, Idle
<1>3. CASE a \in Queues \/ x \in Queues
  <2>1. Queues = {"start", "complete"} /\ (a \in Queues => a \notin Requests)
        /\ (x \in Queues => x \notin Requests)
    BY NullsAssumption DEF Queues
  <2>2. QED
    BY <1>1, <1>3, <2>1, Watched DEF Actors
<1>4. QED
  BY <1>2, <1>3 DEF Actors

\* An actor that owes money relies on the row.
LEMMA OwingWatches ==
  ASSUME NEW a, Owing(a)
  PROVE  pc[a] \in Watching /\ pc[a] \notin Idle
BY DEF Owing, Watching, Idle

-----------------------------------------------------------------------------
(* What an actor keeps while another one moves *)

LEMMA SeesSame ==
  ASSUME NEW x \in Actors, Sees(x), Same(x), now' = now,
         pc[x] \in Watching => row'[Bk(x)] = row[Bk(x)]
  PROVE  Sees(x)'
BY DEF Sees, Same, Bk, Watching

LEMMA ViewStep ==
  ASSUME Known, SerialInv, NEW a \in Actors, Frame(a), Sees(a)',
         pc[a] \in Watching \/ UNCHANGED row
  PROVE  View'
<1>1. ASSUME NEW x \in Actors, x # a PROVE Sees(x)'
  <2>1. Sees(x) /\ Same(x) /\ now' = now
    BY <1>1 DEF SerialInv, View, Frame
  <2>2. pc[x] \in Watching => row'[Bk(x)] = row[Bk(x)]
    <3>1. SUFFICES ASSUME pc[x] \in Watching PROVE row'[Bk(x)] = row[Bk(x)]
      OBVIOUS
    <3>2. Bk(x) \in Bookings
      BY <2>1, <3>1, Watched
    <3>3. CASE pc[a] \in Watching
      BY <1>1, <3>1, <3>2, <3>3, OneWatcher DEF Frame
    <3>4. QED
      BY <3>3
  <2>3. QED
    BY <2>1, <2>2, SeesSame
<1>2. QED
  BY <1>1 DEF View

\* No request begins, none changes its mind.
LEMMA ExclusiveStep ==
  ASSUME Exclusive, \A r \in Requests : pc'[r] \notin Idle => pc[r] \notin Idle /\ req'[r] = req[r]
  PROVE  Exclusive'
<1>1. \A r \in Requests : r \in InFlight' => r \in InFlight /\ req'[r] = req[r]
  BY DEF InFlight
<1>2. QED
  BY <1>1 DEF Exclusive, InFlight, Bk

\* The memory of an actor that is through.
LEMMA Left ==
  ASSUME Known, NEW a \in Actors, pc[a] \notin Idle, Finish(a) \/ Leave(a)
  PROVE  /\ \A x \in Actors \ {a} : Same(x)
         /\ Sees(a)' /\ PeriodFree(a)' /\ ~Owing(a)'
         /\ pc'[a] \in {"idle", "done", "ack"} /\ (a \in Requests => pc'[a] = "done")
<1>1. \A x \in Actors \ {a} : Same(x)
  BY DEF Known, TypeOK, Finish, Leave, Goto, Same
<1>2. pc'[a] \in {"idle", "done", "ack"} /\ (a \in Requests => pc'[a] = "done")
  BY NullsAssumption DEF Known, TypeOK, Finish, Leave, Goto
<1>3. Sees(a)' /\ PeriodFree(a)' /\ ~Owing(a)'
  BY <1>2 DEF Sees, PeriodFree, Owing
<1>4. QED
  BY <1>1, <1>2, <1>3

-----------------------------------------------------------------------------
(* Steps by what they do to the bookings and the money *)

\* A step that moves no money and changes no booking: what the actor owed, if
\* anything, is written down as interrupted.
LEMMA QuietStep ==
  ASSUME Known, SerialInv, NEW a \in Actors, Frame(a), UNCHANGED <<row, entries>>,
         Sees(a)', a \in Requests => PeriodFree(a)', Exclusive', Fresh',
         ~Owing(a)', Owing(a) => Bk(a) \in interrupted'
  PROVE  SerialInv'
<1>1. View'
  BY ViewStep
<1>2. StillFree'
  <2>1. ASSUME NEW r \in Requests, r # a PROVE PeriodFree(r)'
    BY <2>1 DEF SerialInv, StillFree, PeriodFree, Frame, Same, Bk, Actors
  <2>2. QED
    BY <2>1 DEF StillFree
<1>3. NoOverlap' /\ PaidOutOnce'
  BY DEF SerialInv, NoOverlap, PaidOutOnce, Frame
<1>4. MoneyOnTheWay'
  <2>1. ASSUME NEW x \in Actors, x # a PROVE OnTheWay(x)'
    BY <2>1 DEF SerialInv, MoneyOnTheWay, OnTheWay, Owing, Before, Escrow, Bk, Frame, Same
  <2>2. OnTheWay(a)'
    BY DEF OnTheWay
  <2>3. QED
    BY <2>1, <2>2 DEF MoneyOnTheWay
<1>5. EscrowExact'
  <2>1. ASSUME NEW b \in Bookings, b \notin interrupted', \A x \in Actors : Owing(x)' => Bk(x)' # b
        PROVE  Escrow(b, Held(b))'
    <3>1. \A x \in Actors : Owing(x) => Bk(x) # b
      BY <2>1 DEF Frame, Same, Owing, Bk
    <3>2. Escrow(b, Held(b))
      BY <2>1, <3>1 DEF SerialInv, EscrowExact, Frame
    <3>3. QED
      BY <3>2 DEF Escrow, Held
  <2>2. QED
    BY <2>1 DEF EscrowExact
<1>6. QED
  BY <1>1, <1>2, <1>3, <1>4, <1>5 DEF SerialInv

\* An actor goes from one step at which it owes to another.
LEMMA StillOwingStep ==
  ASSUME Known, SerialInv, NEW a \in Actors, Frame(a), UNCHANGED <<row, entries, interrupted, req>>,
         Sees(a)', pc'[a] \in {"pay", "delete"}, a \in Requests,
         pc[a] \in {"readback", "pay", "delete"}
  PROVE  SerialInv'
<1>1. View'
  BY ViewStep
<1>2. pc[a] \notin Idle /\ Bk(a)' = Bk(a) /\ pc'[a] # "idle" /\ a \notin Queues
  BY NullsAssumption DEF Idle, Bk
<1>3. Exclusive' /\ Fresh'
  <2>1. \A r \in Requests : pc'[r] \notin Idle => pc[r] \notin Idle
    BY <1>2 DEF Frame, Same, Actors
  <2>2. \A r \in Requests : pc'[r] = "idle" => pc[r] = "idle"
    BY <1>2 DEF Frame, Same, Actors
  <2>3. QED
    BY <2>1, <2>2, ExclusiveStep DEF SerialInv, Fresh
<1>4. StillFree'
  <2>1. ASSUME NEW r \in Requests PROVE PeriodFree(r)'
    BY DEF SerialInv, StillFree, PeriodFree, Frame, Same, Bk, Actors
  <2>2. QED
    BY <2>1 DEF StillFree
<1>5. NoOverlap' /\ PaidOutOnce'
  BY DEF SerialInv, NoOverlap, PaidOutOnce, Frame
<1>6. Owing(a) /\ Owing(a)' /\ Before(a) = 0 /\ Before(a)' = 0
  BY DEF Owing, Before
<1>7. MoneyOnTheWay'
  <2>1. ASSUME NEW x \in Actors, x # a PROVE OnTheWay(x)'
    BY <2>1 DEF SerialInv, MoneyOnTheWay, OnTheWay, Owing, Before, Escrow, Bk, Frame, Same
  <2>2. OnTheWay(a)'
    BY <1>2, <1>6 DEF SerialInv, MoneyOnTheWay, OnTheWay, Escrow, Bk
  <2>3. QED
    BY <2>1, <2>2 DEF MoneyOnTheWay
<1>8. EscrowExact'
  <2>1. ASSUME NEW b \in Bookings, b \notin interrupted', \A x \in Actors : Owing(x)' => Bk(x)' # b
        PROVE  Escrow(b, Held(b))'
    <3>1. \A x \in Actors : Owing(x) => Bk(x) # b
      BY <2>1, <1>2, <1>6 DEF Frame, Same, Owing, Bk
    <3>2. Escrow(b, Held(b))
      BY <2>1, <3>1 DEF SerialInv, EscrowExact
    <3>3. QED
      BY <3>2 DEF Escrow, Held
  <2>2. QED
    BY <2>1 DEF EscrowExact
<1>9. QED
  BY <1>1, <1>3, <1>4, <1>5, <1>7, <1>8 DEF SerialInv

\* The actor moves the money it owes and is through with its debt.
LEMMA SettlingStep ==
  ASSUME Known, SerialInv, NEW a \in Actors, Frame(a), UNCHANGED <<row, interrupted>>, Owing(a),
         Sees(a)', ~Owing(a)', pc'[a] \in {"done", "ack", "unschedule"},
         a \in Requests => req'[a] = req[a] \/ pc'[a] = "done",
         \A b \in Bookings \ interrupted : b = Bk(a) => Escrow(b, Held(b))',
         entries'[Bk(a)].paidOut > 0 =>
           /\ row[Bk(a)] # NoRow /\ row[Bk(a)].status = "COMPLETED" /\ row[Bk(a)].end <= now
           /\ entries'[Bk(a)].paidOut = row[Bk(a)].total
  PROVE  SerialInv'
<1>1. View'
  BY ViewStep, OwingWatches
<1>2. pc[a] \notin Idle /\ pc[a] \in Watching /\ pc'[a] # "idle"
  BY OwingWatches
<1>3. Exclusive' /\ Fresh'
  <2>1. \A r \in Requests : pc'[r] \notin Idle => pc[r] \notin Idle /\ req'[r] = req[r]
    BY <1>2 DEF Frame, Same, Actors, Idle
  <2>2. \A r \in Requests : pc'[r] = "idle" => pc[r] = "idle"
    BY <1>2 DEF Frame, Same, Actors
  <2>3. QED
    BY <2>1, <2>2, ExclusiveStep DEF SerialInv, Fresh
<1>4. StillFree'
  <2>1. ASSUME NEW r \in Requests PROVE PeriodFree(r)'
    BY DEF SerialInv, StillFree, PeriodFree, Frame, Same, Bk, Actors
  <2>2. QED
    BY <2>1 DEF StillFree
<1>5. NoOverlap'
  BY DEF SerialInv, NoOverlap
<1>6. PaidOutOnce'
  <2>1. ASSUME NEW b \in Bookings, entries'[b].paidOut > 0
        PROVE  /\ row[b] # NoRow /\ row[b].status = "COMPLETED" /\ row[b].end <= now
               /\ entries'[b].paidOut = row[b].total
    BY <2>1 DEF SerialInv, PaidOutOnce, Frame
  <2>2. QED
    BY <2>1 DEF PaidOutOnce, Frame
<1>7. MoneyOnTheWay'
  <2>1. ASSUME NEW x \in Actors, x # a, Owing(x) PROVE entries'[Bk(x)] = entries[Bk(x)]
    <3>1. pc[x] \in Watching /\ pc[x] \notin Idle
      BY <2>1, OwingWatches
    <3>2. Bk(x) # Bk(a) /\ Bk(x) \in Bookings
      BY <1>2, <2>1, <3>1, OneWatcher, AtWork
    <3>3. QED
      BY <3>2 DEF Frame
  <2>2. ASSUME NEW x \in Actors, x # a PROVE OnTheWay(x)'
    BY <2>1, <2>2 DEF SerialInv, MoneyOnTheWay, OnTheWay, Owing, Before, Escrow, Bk, Frame, Same
  <2>3. OnTheWay(a)'
    BY DEF OnTheWay
  <2>4. QED
    BY <2>2, <2>3 DEF MoneyOnTheWay
<1>8. EscrowExact'
  <2>1. ASSUME NEW b \in Bookings, b \notin interrupted', \A x \in Actors : Owing(x)' => Bk(x)' # b
        PROVE  Escrow(b, Held(b))'
    <3>1. CASE b = Bk(a)
      BY <2>1, <3>1
    <3>2. CASE b # Bk(a)
      <4>1. \A x \in Actors : Owing(x) => Bk(x) # b
        BY <2>1, <3>2 DEF Frame, Same, Owing, Bk
      <4>2. Escrow(b, Held(b))
        BY <2>1, <4>1 DEF SerialInv, EscrowExact
      <4>3. QED
        BY <3>2, <4>2 DEF Escrow, Held, Frame
    <3>3. QED
      BY <3>1, <3>2
  <2>2. QED
    BY <2>1 DEF EscrowExact
<1>9. QED
  BY <1>1, <1>3, <1>4, <1>5, <1>6, <1>7, <1>8 DEF SerialInv

-----------------------------------------------------------------------------
(* The actions that change no booking and move no money *)

\* A handler returns or throws, a worker is through with its job.
LEMMA LeavingStep ==
  ASSUME Known, SerialInv, NEW a \in Actors, pc[a] \notin Idle, Finish(a) \/ Leave(a),
         UNCHANGED <<row, entries, now>>,
         Interrupt({a}) \/ (~Owing(a) /\ UNCHANGED interrupted)
  PROVE  SerialInv'
<1>1. /\ \A x \in Actors \ {a} : Same(x)
      /\ Sees(a)' /\ PeriodFree(a)' /\ ~Owing(a)'
      /\ pc'[a] \in {"idle", "done", "ack"} /\ (a \in Requests => pc'[a] = "done")
  BY Left
<1>2. Frame(a)
  BY <1>1 DEF Frame, Interrupt
<1>3. Owing(a) => Bk(a) \in interrupted'
  BY DEF Interrupt
<1>4. Exclusive' /\ Fresh'
  <2>1. \A r \in Requests : pc'[r] \notin Idle => pc[r] \notin Idle /\ req'[r] = req[r]
    BY <1>1 DEF Same, Actors, Idle
  <2>2. \A r \in Requests : pc'[r] = "idle" => pc[r] = "idle"
    BY <1>1 DEF Same, Actors
  <2>3. QED
    BY <2>1, <2>2, ExclusiveStep DEF SerialInv, Fresh
<1>5. QED
  BY <1>1, <1>2, <1>3, <1>4, QuietStep

\* An actor at work goes on to a step at which it owes nothing.
LEMMA GoingOnStep ==
  ASSUME Known, SerialInv, NEW a \in Actors, pc[a] \notin Idle, ~Owing(a), NEW l \in Labels,
         l \notin {"readback", "pay", "delete", "charge", "refund", "payout"}, Goto(a, l),
         UNCHANGED <<row, entries, now, interrupted, req>>,
         \A x \in Actors \ {a} : ent'[x] = ent[x] /\ first'[x] = first[x],
         Sees(a)', PeriodFree(a)'
  PROVE  SerialInv'
<1>1. pc'[a] = l /\ l \notin Idle /\ \A x \in Actors \ {a} : pc'[x] = pc[x]
  BY DEF Known, TypeOK, Goto, Idle, Labels
<1>2. Frame(a) /\ ~Owing(a)'
  BY <1>1 DEF Frame, Same, Owing
<1>3. Exclusive' /\ Fresh'
  <2>1. \A r \in Requests : pc'[r] \notin Idle => pc[r] \notin Idle
    BY <1>1 DEF Actors
  <2>2. \A r \in Requests : pc'[r] = "idle" => pc[r] = "idle"
    BY <1>1 DEF Actors, Idle
  <2>3. QED
    BY <2>1, <2>2, ExclusiveStep DEF SerialInv, Fresh
<1>4. QED
  BY <1>2, <1>3, QuietStep

LEMMA ArriveSerial == ASSUME Serial, Known, SerialInv, NEW r \in Requests, Arrive(r) PROVE SerialInv'
<1>1. PICK o \in Ops, b \in Bookings, l \in {"validate", "load"} :
        /\ Alone(o, b) /\ Goto(r, l)
        /\ \E u \in Users : req' = [req EXCEPT ![r] = [op |-> o, user |-> u, bk |-> b]]
        /\ l = "validate" => o = "create" /\ b = r
  <2>1. CASE \E u \in Renters, p \in Periods : Ask(r, "create", u, r, p, "validate")
    BY <2>1 DEF Ops, Users, Bookings, Ask
  <2>2. CASE \E u \in Renters, p \in Periods, b \in Bookings :
               row[b] # NoRow /\ Ask(r, "updatePeriod", u, b, p, "load")
    BY <2>2 DEF Ops, Users, Ask
  <2>3. CASE \E u \in Users, b \in Bookings, o \in {"cancel", "confirm", "reject"} :
               row[b] # NoRow /\ Ask(r, o, u, b, NoPeriod, "load")
    BY <2>3 DEF Ops, Ask
  <2>4. QED
    BY <2>1, <2>2, <2>3 DEF Arrive
<1>2. /\ r \in Actors /\ pc[r] = "idle" /\ UNCHANGED <<now, row, entries, ent, first, interrupted>>
  BY DEF Arrive, Actors, Table
<1>3. /\ pc'[r] = l /\ req'[r].op = o /\ req'[r].bk = b
      /\ \A x \in Actors \ {r} : pc'[x] = pc[x] /\ req'[x] = req[x]
  BY <1>1, <1>2 DEF Known, TypeOK, Goto
<1>4. Frame(r) /\ ~Owing(r) /\ ~Owing(r)' /\ PeriodFree(r)'
  BY <1>2, <1>3 DEF Frame, Same, Owing, PeriodFree
<1>5. Sees(r)'
  BY <1>1, <1>2, <1>3 DEF Sees, Bk, SerialInv, Fresh
<1>6. Exclusive'
  <2>1. ASSUME NEW q \in InFlight', NEW x \in InFlight', q # x, x # r
        PROVE  Bk(q)' # Bk(x)' /\ ~{req'[q].op, req'[x].op} \subseteq Claims
    <3>1. x \in InFlight /\ req'[x] = req[x]
      BY <1>3, <2>1 DEF InFlight, Actors
    <3>2. CASE q = r
      BY <1>1, <1>3, <3>1, <3>2 DEF Alone, Bk
    <3>3. CASE q # r
      BY <1>3, <2>1, <3>1, <3>3 DEF InFlight, Actors, SerialInv, Exclusive, Bk
    <3>4. QED
      BY <3>2, <3>3
  <2>2. QED
    BY <2>1 DEF Exclusive
<1>7. Fresh'
  BY <1>2, <1>3 DEF SerialInv, Fresh, Actors
<1>8. QED
  BY <1>2, <1>4, <1>5, <1>6, <1>7, QuietStep

LEMMA TakeSerial == ASSUME Known, SerialInv, NEW q \in Queues, Take(q) PROVE SerialInv'
<1>1. /\ q \in Actors /\ q \notin Requests /\ pc[q] = "idle"
      /\ UNCHANGED <<now, row, entries, ent, first, interrupted>>
  BY NullsAssumption DEF Take, Actors, Table
<1>2. pc'[q] = "load" /\ \A x \in Actors \ {q} : pc'[x] = pc[x] /\ req'[x] = req[x]
  BY <1>1 DEF Take, Goto, Known, TypeOK
<1>3. Frame(q) /\ ~Owing(q) /\ ~Owing(q)' /\ Sees(q)'
  BY <1>1, <1>2 DEF Frame, Same, Owing, Sees
<1>4. Exclusive' /\ Fresh'
  BY <1>1, <1>2, ExclusiveStep DEF SerialInv, Fresh, Actors
<1>5. QED
  BY <1>1, <1>3, <1>4, QuietStep

LEMMA LoadSerial == ASSUME Known, SerialInv, NEW a \in Actors, Load(a) PROVE SerialInv'
<1> DEFINE b == row[Bk(a)]
<1>1. /\ pc[a] = "load" /\ pc[a] \notin Idle /\ ~Owing(a)
      /\ UNCHANGED <<row, entries, now, interrupted>>
  BY DEF Load, Idle, Table, Owing
<1>2. CASE Finish(a) \/ Throw(a)
  BY <1>1, <1>2, LeavingStep DEF Throw
<1>3. CASE /\ Permitted(req[a].op, req[a].user, b)
           /\ first' = [first EXCEPT ![a] = b]
           /\ Goto(a, IF req[a].op = "updatePeriod" THEN "validate" ELSE "reload")
           /\ UNCHANGED <<jobs, req, want, ent, age>>
  <2>1. PICK l \in {"validate", "reload"} :
          Goto(a, l) /\ (l = "validate" <=> req[a].op = "updatePeriod")
    BY <1>3
  <2>2. pc'[a] = l /\ l \in Labels /\ first'[a] = b /\ \A x \in Actors \ {a} : first'[x] = first[x]
    BY <1>3, <2>1 DEF Known, TypeOK, Goto, Labels
  <2>3. Sees(a)'
    <3>1. CASE l = "validate"
      BY <1>1, <1>3, <2>1, <2>2, <3>1 DEF Sees, Bk, Permitted, Allowed
    <3>2. CASE l = "reload"
      <4>1. /\ req[a].op \in {"cancel", "reject", "confirm", "start", "complete"}
            /\ a \in Queues => req[a].op = a /\ a \in {"start", "complete"}
            /\ a \in Requests => req[a].op \notin {"start", "complete"} /\ a \notin Queues
        BY <1>1, <2>1, <3>2, AtWork DEF Ops, Queues
      <4>2. CASE a \in Queues
        BY <1>1, <1>3, <2>2, <3>2, <4>1, <4>2 DEF Sees, Bk, Permitted, Allowed
      <4>3. CASE a \in Requests
        BY <1>1, <1>3, <2>2, <3>2, <4>1, <4>3 DEF Sees, Bk, Permitted, Allowed, Queues
      <4>4. QED
        BY <4>2, <4>3 DEF Actors
    <3>3. QED
      BY <3>1, <3>2
  <2>4. PeriodFree(a)'
    BY <2>2 DEF PeriodFree
  <2>5. QED
    BY <1>1, <1>3, <2>1, <2>2, <2>3, <2>4, GoingOnStep
<1>4. QED
  BY <1>2, <1>3 DEF Load

LEMMA ValidateSerial == ASSUME Known, SerialInv, NEW r \in Requests, Validate(r) PROVE SerialInv'
<1> DEFINE b == Bk(r)
           p == want[r]
<1>1. /\ r \in Actors /\ pc[r] = "validate" /\ pc[r] \notin Idle /\ ~Owing(r)
      /\ UNCHANGED <<row, entries, now, interrupted>>
  BY DEF Validate, Idle, Table, Owing, Actors
<1>2. /\ req[r].op \in Claims /\ p \in Periods /\ req[r].user \in Renters /\ b \in Bookings
      /\ r \notin {"start", "complete"}
  BY <1>1, AtWork, NullsAssumption DEF Queues
<1>3. CASE Finish(r)
  BY <1>1, <1>3, LeavingStep
<1>4. CASE /\ Valid(b, p)
           /\ ent' = [ent EXCEPT ![r] =
                IF req[r].op = "create" THEN Row(req[r].user, p, "PENDING")
                ELSE Row(row[b].renter, p, row[b].status)]
           /\ Goto(r, IF req[r].op = "create" THEN "insert" ELSE "save")
           /\ UNCHANGED <<req, want, first, age>>
  <2>1. PICK l \in {"insert", "save"} :
          Goto(r, l) /\ (l = "insert" <=> req[r].op = "create")
    BY <1>4
  <2>2. /\ pc'[r] = l /\ l \in Labels /\ \A x \in Actors \ {r} : ent'[x] = ent[x]
    BY <1>1, <1>4, <2>1 DEF Known, TypeOK, Goto, Labels
  <2>3. PICK u, s : /\ ent'[r] = Row(u, p, s)
                    /\ s = IF req[r].op = "create" THEN "PENDING" ELSE row[b].status
    <3>1. ent'[r] = IF req[r].op = "create" THEN Row(req[r].user, p, "PENDING")
                    ELSE Row(row[b].renter, p, row[b].status)
      BY <1>1, <1>4 DEF Known, TypeOK
    <3>2. QED
      BY <3>1
  <2>4. ent'[r].status = s /\ ent'[r].start = p.start /\ ent'[r].end = EndOf(p)
    BY <2>3 DEF Row
  <2>5. Sees(r) /\ (req[r].op = "updatePeriod" => row[b].status = "PENDING" /\ row[b] = first[r])
        /\ (req[r].op = "create" => row[b] = NoRow)
    BY <1>1 DEF SerialInv, View, Sees
  <2>6. Sees(r)'
    BY <1>1, <1>2, <1>4, <2>1, <2>2, <2>3, <2>4, <2>5 DEF Sees, Bk, Claims
  <2>7. PeriodFree(r)'
    <3>1. ASSUME NEW c \in Bookings \ {b}, row[c] # NoRow, row[c].status \in Busy
          PROVE  ~Overlap(row[c], ent'[r])
      <4>1. ~Overlap(row[c], [start |-> p.start, end |-> EndOf(p)])
        BY <1>4, <3>1 DEF Valid, FreeIgnoring
      <4>2. QED
        BY <2>4, <4>1 DEF Overlap
    <3>2. QED
      BY <1>1, <1>4, <3>1 DEF PeriodFree, Bk
  <2>8. QED
    BY <1>1, <1>4, <2>1, <2>2, <2>6, <2>7, GoingOnStep
<1>5. QED
  BY <1>3, <1>4 DEF Validate

LEMMA ReloadSerial == ASSUME Known, SerialInv, NEW a \in Actors, Reload(a) PROVE SerialInv'
<1> DEFINE b == row[Bk(a)]
<1>1. /\ pc[a] = "reload" /\ pc[a] \notin Idle /\ ~Owing(a) /\ "save" \in Labels
      /\ UNCHANGED <<row, entries, now, interrupted>>
  BY DEF Reload, Idle, Table, Owing, Labels
<1>2. CASE Throw(a)
  BY <1>1, <1>2, LeavingStep DEF Throw
<1>3. CASE /\ ent' = [ent EXCEPT ![a] = [b EXCEPT !.status = TargetStatus(req[a].op)]]
           /\ Goto(a, "save")
           /\ UNCHANGED <<jobs, req, want, first, age>>
  <2>1. /\ pc'[a] = "save" /\ ent'[a] = [b EXCEPT !.status = TargetStatus(req[a].op)]
        /\ \A x \in Actors \ {a} : ent'[x] = ent[x]
    BY <1>3 DEF Known, TypeOK, Goto
  <2>2. req[a].op \in {"cancel", "reject", "confirm", "start", "complete"}
    BY <1>1, AtWork
  <2>3. Sees(a)'
    BY <1>1, <1>3, <2>1, <2>2 DEF Sees, Bk, SerialInv, View
  <2>4. PeriodFree(a)'
    BY <1>3, <2>2 DEF PeriodFree, Claims
  <2>5. QED
    BY <1>1, <1>3, <2>1, <2>3, <2>4, GoingOnStep
<1>4. QED
  BY <1>2, <1>3 DEF Reload

LEMMA JobsSerial ==
  ASSUME Known, SerialInv, NEW a \in Actors, Unschedule(a) \/ Schedule(a) \/ Ack(a)
  PROVE  SerialInv'
<1>1. /\ pc[a] \in {"unschedule", "schedule", "ack"} /\ pc[a] \notin Idle /\ ~Owing(a)
      /\ (Finish(a) \/ Leave(a)) /\ UNCHANGED <<row, entries, now, interrupted>>
  BY DEF Unschedule, Schedule, Ack, Idle, Owing, Table
<1>2. QED
  BY <1>1, LeavingStep

-----------------------------------------------------------------------------
(* The actions that move money *)

LEMMA ReadBackSerial == ASSUME Known, SerialInv, NEW r \in Requests, ReadBack(r) PROVE SerialInv'
<1>1. /\ r \in Actors /\ pc[r] = "readback" /\ pc[r] \notin Idle
      /\ UNCHANGED <<row, entries, now, interrupted, req, first>>
  BY DEF ReadBack, Idle, Actors, Table
<1>2. Bk(r) = r /\ Sees(r)
  BY <1>1, AtWork DEF SerialInv, View
<1>3. pc'[r] = "pay" /\ ent'[r] = row[r] /\ \A x \in Actors \ {r} : pc'[x] = pc[x] /\ ent'[x] = ent[x]
  BY <1>1 DEF ReadBack, Goto, Known, TypeOK
<1>4. Frame(r)
  BY <1>1, <1>3 DEF Frame, Same
<1>5. Sees(r)'
  BY <1>1, <1>2, <1>3 DEF Sees, Bk
<1>6. QED
  BY <1>1, <1>3, <1>4, <1>5, StillOwingStep

\* The payment of a new booking is refused or fails.
LEMMA DeleteNextSerial ==
  ASSUME Known, SerialInv, NEW a \in Actors, pc[a] = "pay", Goto(a, "delete"),
         UNCHANGED <<row, entries, now, interrupted, req, ent, first>>
  PROVE  SerialInv'
<1>1. pc[a] \notin Idle /\ a \in Requests /\ Sees(a) /\ ent[a] \in Rows
  <2>1. pc[a] \notin Idle
    BY DEF Idle
  <2>2. QED
    BY <2>1, AtWork DEF SerialInv, View, Known, Shape, Fits
<1>2. pc'[a] = "delete" /\ \A x \in Actors \ {a} : pc'[x] = pc[x]
  BY DEF Goto, Known, TypeOK
<1>3. Frame(a)
  BY <1>2 DEF Frame, Same
<1>4. Sees(a)'
  BY <1>1, <1>2 DEF Sees, Bk
<1>5. QED
  BY <1>1, <1>2, <1>3, <1>4, StillOwingStep

\* The entries of a booking that is not completed hold no payout.
LEMMA NothingPaidOut ==
  ASSUME Known, SerialInv, NEW b \in Bookings, row[b] = NoRow \/ row[b].status # "COMPLETED"
  PROVE  entries[b].paidOut = 0
<1>1. entries[b].paidOut \in Nat
  BY DEF Known, TypeOK
<1>2. ~(entries[b].paidOut > 0)
  BY DEF SerialInv, PaidOutOnce
<1>3. QED
  BY <1>1, <1>2

LEMMA PaySerial == ASSUME Known, SerialInv, NEW r \in Requests, Pay(r) PROVE SerialInv'
<1>1. /\ r \in Actors /\ pc[r] = "pay" /\ pc[r] \notin Idle /\ Owing(r) /\ ent[r] \in Rows
      /\ UNCHANGED <<row, now, interrupted>>
  BY DEF Pay, Idle, Actors, Owing, Known, Shape, Fits
<1>2. Bk(r) = r /\ r \in Bookings /\ Sees(r) /\ row[r] = ent[r] /\ row[r].status = "PENDING"
  <2>1. Bk(r) = r /\ Sees(r)
    BY <1>1, AtWork DEF SerialInv, View
  <2>2. QED
    BY <1>1, <2>1 DEF Bookings, Sees
<1>3. CASE ProcessPayment(req[r].user, r, ent[r].total) /\ Finish(r)
  <2>1. /\ \A x \in Actors \ {r} : Same(x)
        /\ Sees(r)' /\ ~Owing(r)' /\ pc'[r] = "done"
    BY <1>1, <1>3, Left
  <2>2. /\ entries'[r] = [entries[r] EXCEPT !.paid = @ + ent[r].total]
        /\ \A c \in Bookings \ {r} : entries'[c] = entries[c]
    BY <1>2, <1>3 DEF ProcessPayment, Known, TypeOK
  <2>3. Frame(r)
    BY <1>1, <1>2, <2>1, <2>2 DEF Frame
  <2>4. entries[r] \in [paid: Nat, refunded: Nat, paidOut: Nat] /\ ent[r].total \in Nat
    BY <1>1, <1>2 DEF Known, TypeOK, Rows
  <2>5. entries[r].paidOut = 0
    BY <1>2, NothingPaidOut
  <2>6. /\ entries'[r].paidOut = entries[r].paidOut /\ entries'[r].refunded = entries[r].refunded
        /\ entries'[r].paid = entries[r].paid + ent[r].total
    BY <2>2, <2>4
  <2>7. r \notin interrupted => entries[r].paid = entries[r].refunded + entries[r].paidOut + 0
    BY <1>1, <1>2 DEF SerialInv, MoneyOnTheWay, OnTheWay, Escrow, Before
  <2>8. Held(r)' = ent[r].total
    <3>1. row[r] # NoRow
      BY <1>1, <1>2, NullsAssumption
    <3>2. QED
      BY <1>1, <1>2, <3>1 DEF Held, Busy
  <2>9. r \notin interrupted => entries'[r].paid = entries'[r].refunded + entries'[r].paidOut + ent[r].total
    BY <2>4, <2>5, <2>6, <2>7
  <2>10. r \notin interrupted => Escrow(r, Held(r))'
    BY <2>8, <2>9 DEF Escrow
  <2>11. ~(entries'[r].paidOut > 0)
    BY <2>5, <2>6
  <2>12. QED
    BY <1>1, <1>2, <2>1, <2>3, <2>10, <2>11, SettlingStep
<1>4. CASE Goto(r, "delete") /\ UNCHANGED <<balance, entries, req, want, ent, first, age>>
  BY <1>1, <1>4, DeleteNextSerial
<1>5. QED
  BY <1>3, <1>4 DEF Pay

\* What an entry does to the sums of its booking.
LEMMA EntryFacts ==
  ASSUME TypeOK, NEW u, NEW b \in Bookings, NEW n \in Nat
  PROVE  /\ entries[b].paid \in Nat /\ entries[b].refunded \in Nat /\ entries[b].paidOut \in Nat
         /\ ProcessPayment(u, b, n) =>
              /\ entries'[b].paid = entries[b].paid + n
              /\ entries'[b].refunded = entries[b].refunded
              /\ entries'[b].paidOut = entries[b].paidOut
         /\ ProcessRefund(u, b, n) =>
              /\ entries'[b].paid = entries[b].paid
              /\ entries'[b].refunded = entries[b].refunded + n
              /\ entries'[b].paidOut = entries[b].paidOut
         /\ ProcessPayout(b, n) =>
              /\ entries'[b].paid = entries[b].paid
              /\ entries'[b].refunded = entries[b].refunded
              /\ entries'[b].paidOut = entries[b].paidOut + n
         /\ ProcessPayment(u, b, n) \/ ProcessRefund(u, b, n) \/ ProcessPayout(b, n) =>
              \A c \in Bookings \ {b} : entries'[c] = entries[c]
<1>1. entries[b] \in [paid: Nat, refunded: Nat, paidOut: Nat]
  BY DEF TypeOK
<1>2. entries[b].paid \in Nat /\ entries[b].refunded \in Nat /\ entries[b].paidOut \in Nat
  BY <1>1
<1>3. ASSUME ProcessPayment(u, b, n)
      PROVE  entries'[b] = [entries[b] EXCEPT !.paid = @ + n]
             /\ \A c \in Bookings \ {b} : entries'[c] = entries[c]
  BY <1>3 DEF ProcessPayment, TypeOK
<1>4. ASSUME ProcessRefund(u, b, n)
      PROVE  entries'[b] = [entries[b] EXCEPT !.refunded = @ + n]
             /\ \A c \in Bookings \ {b} : entries'[c] = entries[c]
  BY <1>4 DEF ProcessRefund, TypeOK
<1>5. ASSUME ProcessPayout(b, n)
      PROVE  entries'[b] = [entries[b] EXCEPT !.paidOut = @ + n]
             /\ \A c \in Bookings \ {b} : entries'[c] = entries[c]
  BY <1>5 DEF ProcessPayout, TypeOK
<1>6. QED
  BY <1>1, <1>2, <1>3, <1>4, <1>5

LEMMA ChargeSerial == ASSUME Known, SerialInv, NEW r \in Requests, Charge(r) PROVE SerialInv'
<1> DEFINE b == Bk(r)
           u == req[r].user
           diff == ent[r].total - first[r].total
<1>1. /\ r \in Actors /\ pc[r] = "charge" /\ pc[r] \notin Idle /\ Finish(r) /\ Owing(r)
      /\ ent[r] \in Rows /\ first[r] \in Rows /\ UNCHANGED <<now, row>>
  BY DEF Charge, Idle, Actors, Owing, Known, Shape, Fits
<1>2. /\ b \in Bookings /\ row[b] = ent[r] /\ row[b].status = "PENDING"
  <2>1. b \in Bookings /\ Sees(r)
    BY <1>1, AtWork DEF SerialInv, View
  <2>2. QED
    BY <1>1, <2>1 DEF Sees
<1>3. /\ \A x \in Actors \ {r} : Same(x)
      /\ Sees(r)' /\ ~Owing(r)' /\ pc'[r] = "done"
  BY <1>1, Left
<1>4. /\ ent[r].total \in Nat /\ first[r].total \in Nat /\ diff \in Int
      /\ diff > 0 => diff \in Nat
      /\ diff < 0 => -diff \in Nat
  <2>1. ent[r].total \in Nat /\ first[r].total \in Nat
    BY <1>1 DEF Rows
  <2>2. QED
    BY <2>1
<1>5. entries[b].paidOut = 0 /\ entries[b].paid \in Nat /\ entries[b].refunded \in Nat
  BY <1>2, <1>4, NothingPaidOut, EntryFacts DEF Known
<1>6. b \notin interrupted =>
        entries[b].paid = entries[b].refunded + entries[b].paidOut + first[r].total
  BY <1>1 DEF SerialInv, MoneyOnTheWay, OnTheWay, Escrow, Before
<1>7. row[b] # NoRow /\ \A c \in Bookings : c = b => Held(c)' = ent[r].total
  <2>1. row[b] # NoRow
    BY <1>1, <1>2, NullsAssumption
  <2>2. QED
    BY <1>1, <1>2, <2>1 DEF Held, Busy
<1>8. ASSUME entries'[b].paidOut = entries[b].paidOut, UNCHANGED interrupted,
             \A c \in Bookings \ {b} : entries'[c] = entries[c],
             b \notin interrupted =>
               entries'[b].paid = entries'[b].refunded + entries'[b].paidOut + ent[r].total
      PROVE  SerialInv'
  <2>1. Frame(r)
    BY <1>1, <1>3, <1>8 DEF Frame
  <2>2. \A c \in Bookings \ interrupted : c = b => Escrow(c, Held(c))'
    BY <1>7, <1>8 DEF Escrow
  <2>3. ~(entries'[b].paidOut > 0)
    BY <1>5, <1>8
  <2>4. QED
    BY <1>1, <1>3, <1>8, <2>1, <2>2, <2>3, SettlingStep
<1>9. CASE diff > 0 /\ ProcessPayment(u, b, diff) /\ UNCHANGED interrupted
  <2>1. /\ entries'[b].paid = entries[b].paid + diff
        /\ entries'[b].refunded = entries[b].refunded
        /\ entries'[b].paidOut = entries[b].paidOut
        /\ \A c \in Bookings \ {b} : entries'[c] = entries[c]
    BY <1>2, <1>4, <1>9, EntryFacts DEF Known
  <2>2. b \notin interrupted =>
          entries'[b].paid = entries'[b].refunded + entries'[b].paidOut + ent[r].total
    BY <1>4, <1>5, <1>6, <2>1
  <2>3. QED
    BY <1>8, <1>9, <2>1, <2>2
<1>10. CASE diff < 0 /\ ProcessRefund(u, b, -diff) /\ UNCHANGED interrupted
  <2>1. /\ entries'[b].paid = entries[b].paid
        /\ entries'[b].refunded = entries[b].refunded + (-diff)
        /\ entries'[b].paidOut = entries[b].paidOut
        /\ \A c \in Bookings \ {b} : entries'[c] = entries[c]
    BY <1>2, <1>4, <1>10, EntryFacts DEF Known
  <2>2. b \notin interrupted =>
          entries'[b].paid = entries'[b].refunded + entries'[b].paidOut + ent[r].total
    BY <1>4, <1>5, <1>6, <2>1
  <2>3. QED
    BY <1>8, <1>10, <2>1, <2>2
<1>11. CASE diff = 0 /\ UNCHANGED <<balance, entries, interrupted>>
  <2>1. ent[r].total = first[r].total
    BY <1>4, <1>11
  <2>2. QED
    BY <1>6, <1>8, <1>11, <2>1
<1>12. CASE Interrupt({r}) /\ UNCHANGED <<balance, entries>>
  BY <1>1, <1>12, LeavingStep
<1>13. QED
  BY <1>9, <1>10, <1>11, <1>12 DEF Charge

LEMMA RefundSerial == ASSUME Known, SerialInv, NEW r \in Requests, Refund(r) PROVE SerialInv'
<1> DEFINE b == Bk(r)
           n == ent[r].total
<1>1. /\ r \in Actors /\ pc[r] = "refund" /\ pc[r] \notin Idle /\ Owing(r)
      /\ ent[r] \in Rows /\ UNCHANGED <<now, row>>
  BY DEF Refund, Idle, Actors, Owing, Known, Shape, Fits
<1>2. /\ b \in Bookings /\ row[b] = ent[r] /\ row[b].status \in {"CANCELLED", "REJECTED"}
  <2>1. b \in Bookings /\ Sees(r)
    BY <1>1, AtWork DEF SerialInv, View
  <2>2. QED
    BY <1>1, <2>1 DEF Sees
<1>3. CASE /\ ProcessRefund(ent[r].renter, b, n)
           /\ Goto(r, "unschedule")
           /\ UNCHANGED <<jobs, req, want, ent, first, age, interrupted>>
  <2>1. /\ pc'[r] = "unschedule" /\ \A x \in Actors \ {r} : Same(x)
    BY <1>1, <1>3 DEF Goto, Same, Known, TypeOK
  <2>2. Sees(r)' /\ ~Owing(r)'
    BY <2>1 DEF Sees, Owing
  <2>3. n \in Nat
    BY <1>1 DEF Rows
  <2>4. /\ entries'[b].paid = entries[b].paid /\ entries'[b].refunded = entries[b].refunded + n
        /\ entries'[b].paidOut = entries[b].paidOut
        /\ \A c \in Bookings \ {b} : entries'[c] = entries[c]
        /\ entries[b].paid \in Nat /\ entries[b].refunded \in Nat
    BY <1>2, <1>3, <2>3, EntryFacts DEF Known
  <2>5. Frame(r)
    BY <1>1, <1>3, <2>1, <2>4 DEF Frame
  <2>6. entries[b].paidOut = 0
    BY <1>2, NothingPaidOut
  <2>7. b \notin interrupted => entries[b].paid = entries[b].refunded + entries[b].paidOut + n
    BY <1>1 DEF SerialInv, MoneyOnTheWay, OnTheWay, Escrow, Before
  <2>8. \A c \in Bookings : c = b => Held(c)' = 0
    BY <1>1, <1>2 DEF Held, Busy
  <2>9. b \notin interrupted => entries'[b].paid = entries'[b].refunded + entries'[b].paidOut + 0
    BY <2>3, <2>4, <2>6, <2>7
  <2>10. \A c \in Bookings \ interrupted : c = b => Escrow(c, Held(c))'
    BY <1>3, <2>8, <2>9 DEF Escrow
  <2>11. ~(entries'[b].paidOut > 0)
    BY <2>4, <2>6
  <2>12. QED
    BY <1>1, <1>3, <2>1, <2>2, <2>5, <2>10, <2>11, SettlingStep
<1>4. CASE Interrupt({r}) /\ Throw(r) /\ UNCHANGED <<balance, entries>>
  BY <1>1, <1>4, LeavingStep DEF Throw
<1>5. QED
  BY <1>3, <1>4 DEF Refund

LEMMA PayoutSerial == ASSUME Known, SerialInv, NEW q \in Queues, Payout(q) PROVE SerialInv'
<1> DEFINE b == Bk(q)
           n == first[q].total
<1>1. /\ q \in Actors /\ q \notin Requests /\ pc[q] = "payout" /\ pc[q] \notin Idle /\ Owing(q)
      /\ first[q] \in Rows /\ UNCHANGED <<now, row>>
  BY NullsAssumption DEF Payout, Idle, Actors, Owing, Known, Shape, Fits
<1>2. /\ b \in Bookings /\ q = "complete" /\ row[b] = [first[q] EXCEPT !.status = "COMPLETED"]
      /\ row[b].end <= now
  <2>1. b \in Bookings /\ q = "complete" /\ Sees(q)
    BY <1>1, AtWork DEF SerialInv, View
  <2>2. QED
    BY <1>1, <2>1 DEF Sees
<1>3. /\ row[b].status = "COMPLETED" /\ row[b].total = n /\ row[b] # NoRow /\ n \in Nat
  <2>1. [first[q] EXCEPT !.status = "COMPLETED"] \in Rows /\ n \in Nat
    BY <1>1 DEF Rows, Statuses
  <2>2. QED
    BY <1>1, <1>2, <2>1, NullsAssumption DEF Rows
<1>4. CASE ProcessPayout(b, n) /\ Finish(q) /\ UNCHANGED <<jobs, interrupted>>
  <2>1. /\ \A x \in Actors \ {q} : Same(x)
        /\ Sees(q)' /\ ~Owing(q)'
    BY <1>1, <1>4, Left
  <2>2. pc'[q] = "ack"
    BY <1>1, <1>4 DEF Finish, Goto, Known, TypeOK
  <2>3. /\ entries'[b].paid = entries[b].paid /\ entries'[b].refunded = entries[b].refunded
        /\ entries'[b].paidOut = entries[b].paidOut + n
        /\ \A c \in Bookings \ {b} : entries'[c] = entries[c]
        /\ entries[b].paid \in Nat /\ entries[b].refunded \in Nat
    BY <1>2, <1>3, <1>4, EntryFacts DEF Known
  <2>4. Frame(q)
    BY <1>1, <1>4, <2>1, <2>3 DEF Frame
  <2>5. /\ entries[b].paidOut = 0
        /\ b \notin interrupted => entries[b].paid = entries[b].refunded + entries[b].paidOut + n
    BY <1>1, <1>2 DEF SerialInv, MoneyOnTheWay, OnTheWay, Escrow, Before
  <2>6. \A c \in Bookings : c = b => Held(c)' = 0
    BY <1>1, <1>3 DEF Held, Busy
  <2>7. b \notin interrupted => entries'[b].paid = entries'[b].refunded + entries'[b].paidOut + 0
    BY <1>3, <2>3, <2>5
  <2>8. \A c \in Bookings \ interrupted : c = b => Escrow(c, Held(c))'
    BY <1>4, <2>6, <2>7 DEF Escrow
  <2>9. entries'[b].paidOut = row[b].total
    BY <1>3, <2>3, <2>5
  <2>10. QED
    BY <1>1, <1>2, <1>3, <1>4, <2>1, <2>2, <2>4, <2>8, <2>9, SettlingStep
<1>5. CASE Interrupt({q}) /\ Throw(q) /\ UNCHANGED <<balance, entries>>
  BY <1>1, <1>5, LeavingStep DEF Throw
<1>6. QED
  BY <1>4, <1>5 DEF Payout

-----------------------------------------------------------------------------
(* The actions that change a booking *)

\* Nobody owes money for a booking that is about to be saved.
LEMMA SettledBefore ==
  ASSUME Known, SerialInv, NEW a \in Actors, pc[a] \in {"insert", "save"}, Bk(a) \notin interrupted
  PROVE  Escrow(Bk(a), Held(Bk(a)))
<1>1. pc[a] \in Watching /\ ~Owing(a) /\ pc[a] \notin Idle
  BY DEF Watching, Owing, Idle
<1>2. \A x \in Actors : Owing(x) => Bk(x) # Bk(a)
  BY <1>1, OneWatcher, OwingWatches
<1>3. QED
  BY <1>1, <1>2, AtWork DEF SerialInv, EscrowExact

\* The row of one booking changes.
LEMMA RowStep ==
  ASSUME Known, SerialInv, NEW a \in Actors, Frame(a), UNCHANGED <<entries, interrupted>>,
         pc[a] \in {"insert", "save", "delete"}, pc'[a] \notin {"idle", "insert", "save"},
         Sees(a)', pc'[a] \notin Idle => req'[a] = req[a],
         \* the row is new, has a new period or comes no nearer to other bookings;
         NEW b \in Bookings, b = Bk(a),
         \/ pc[a] \in {"insert", "save"} /\ req[a].op \in Claims /\ a \in Requests
            /\ row'[b] = ent[a]
         \/ row'[b] = NoRow
         \/ row'[b].status \notin Busy
         \/ row[b] # NoRow /\ row[b].status \in Busy /\ row'[b].start = row[b].start
            /\ row'[b].end = row[b].end,
         row[b] = NoRow \/ row[b].status # "COMPLETED",
         \A r \in Requests : pc'[r] = "idle" => row'[r] = NoRow,
         OnTheWay(a)',
         b \notin interrupted /\ ~Owing(a)' => Escrow(b, Held(b))'
  PROVE  SerialInv'
<1>1. pc[a] \in Watching /\ pc[a] \notin Idle
  BY DEF Watching, Idle
<1>2. View'
  BY <1>1, ViewStep
<1>3. Exclusive'
  <2>1. \A r \in Requests : pc'[r] \notin Idle => pc[r] \notin Idle /\ req'[r] = req[r]
    BY <1>1 DEF Frame, Same, Actors
  <2>2. QED
    BY <2>1, ExclusiveStep DEF SerialInv
<1>4. Fresh'
  BY DEF Fresh
<1>5. \A c \in Bookings \ {b} : row'[c] = row[c]
  BY DEF Frame
<1>6. StillFree'
  <2>1. ASSUME NEW r \in Requests, r # a, pc[r] \in {"insert", "save"}, req[r].op \in Claims,
               Bk(r) # b, row'[b] # NoRow, row'[b].status \in Busy
        PROVE  ~Overlap(row'[b], ent[r])
    <3>1. ~(a \in Requests /\ req[a].op \in Claims)
      BY <1>1, <2>1 DEF SerialInv, Exclusive, InFlight, Idle
    <3>2. row[b] # NoRow /\ row[b].status \in Busy /\ row'[b].start = row[b].start
            /\ row'[b].end = row[b].end
      BY <2>1, <3>1
    <3>3. ~Overlap(row[b], ent[r])
      BY <2>1, <3>2 DEF SerialInv, StillFree, PeriodFree
    <3>4. QED
      BY <3>2, <3>3 DEF Overlap
  <2>2. ASSUME NEW r \in Requests, r # a PROVE PeriodFree(r)'
    <3>1. Same(r)
      BY <2>2 DEF Frame, Actors
    <3>2. PeriodFree(r)
      BY DEF SerialInv, StillFree
    <3>3. QED
      BY <1>5, <2>1, <2>2, <3>1, <3>2 DEF PeriodFree, Same, Bk
  <2>3. PeriodFree(a)'
    BY DEF PeriodFree
  <2>4. QED
    BY <2>2, <2>3 DEF StillFree
<1>7. NoOverlap'
  <2>1. ASSUME NEW c \in Bookings \ {b}, row[c] # NoRow, row[c].status \in Busy,
               row'[b] # NoRow, row'[b].status \in Busy
        PROVE  ~Overlap(row[c], row'[b])
    <3>1. CASE pc[a] \in {"insert", "save"} /\ req[a].op \in Claims /\ a \in Requests
               /\ row'[b] = ent[a]
      BY <2>1, <3>1 DEF SerialInv, StillFree, PeriodFree
    <3>2. CASE row[b] # NoRow /\ row[b].status \in Busy /\ row'[b].start = row[b].start
               /\ row'[b].end = row[b].end
      <4>1. ~Overlap(row[c], row[b])
        BY <2>1, <3>2 DEF SerialInv, NoOverlap
      <4>2. QED
        BY <3>2, <4>1 DEF Overlap
    <3>3. QED
      BY <2>1, <3>1, <3>2
  <2>2. ASSUME NEW c \in Bookings \ {b}, row[c] # NoRow, row[c].status \in Busy,
               row'[b] # NoRow, row'[b].status \in Busy
        PROVE  ~Overlap(row'[b], row[c])
    BY <2>1, <2>2 DEF Overlap
  <2>3. ASSUME NEW c \in Bookings, NEW d \in Bookings, c # d, row'[c] # NoRow, row'[d] # NoRow,
               {row'[c].status, row'[d].status} \subseteq Busy
        PROVE  ~Overlap(row'[c], row'[d])
    <3>1. CASE c = b
      BY <1>5, <2>2, <2>3, <3>1
    <3>2. CASE d = b
      BY <1>5, <2>1, <2>3, <3>2
    <3>3. CASE c # b /\ d # b
      BY <1>5, <2>3, <3>3 DEF SerialInv, NoOverlap
    <3>4. QED
      BY <3>1, <3>2, <3>3
  <2>4. QED
    BY <2>3 DEF NoOverlap
<1>8. MoneyOnTheWay'
  <2>1. ASSUME NEW x \in Actors, x # a PROVE OnTheWay(x)'
    BY <2>1 DEF SerialInv, MoneyOnTheWay, OnTheWay, Owing, Before, Escrow, Bk, Frame, Same
  <2>2. QED
    BY <2>1 DEF MoneyOnTheWay
<1>9. EscrowExact'
  <2>1. ASSUME NEW c \in Bookings, c \notin interrupted', \A x \in Actors : Owing(x)' => Bk(x)' # c
        PROVE  Escrow(c, Held(c))'
    <3>1. CASE c = b
      <4>1. Owing(a)' => Bk(a)' = b
        BY DEF Owing, Idle, Bk
      <4>2. QED
        BY <2>1, <3>1, <4>1
    <3>2. CASE c # b
      <4>1. \A x \in Actors : Owing(x) => Bk(x) # c
        BY <2>1, <3>2 DEF Frame, Same, Owing, Bk
      <4>2. Escrow(c, Held(c))
        BY <2>1, <4>1 DEF SerialInv, EscrowExact
      <4>3. QED
        BY <1>5, <3>2, <4>2 DEF Escrow, Held
    <3>3. QED
      BY <3>1, <3>2
  <2>2. QED
    BY <2>1 DEF EscrowExact
<1>10. PaidOutOnce'
  <2>1. entries[b].paidOut = 0
    BY NothingPaidOut
  <2>2. ASSUME NEW c \in Bookings, entries[c].paidOut > 0
        PROVE  /\ row'[c] # NoRow /\ row'[c].status = "COMPLETED" /\ row'[c].end <= now
               /\ entries[c].paidOut = row'[c].total
    BY <1>5, <2>1, <2>2 DEF SerialInv, PaidOutOnce
  <2>3. QED
    BY <2>2 DEF PaidOutOnce, Frame
<1>11. QED
  BY <1>2, <1>3, <1>4, <1>6, <1>7, <1>8, <1>9, <1>10 DEF SerialInv

LEMMA InsertSerial == ASSUME Known, SerialInv, NEW r \in Requests, Insert(r) PROVE SerialInv'
<1>1. /\ r \in Actors /\ r \in Bookings /\ pc[r] = "insert" /\ pc[r] \notin Idle /\ ent[r] \in Rows
      /\ UNCHANGED <<now, entries, req, ent, first, interrupted>>
  BY DEF Insert, Idle, Actors, Bookings, Known, Shape, Fits
<1>2. /\ req[r].op = "create" /\ Bk(r) = r /\ row[r] = NoRow /\ ent[r].status = "PENDING"
  <2>1. req[r].op = "create" /\ Bk(r) = r /\ Sees(r)
    BY <1>1, AtWork DEF SerialInv, View
  <2>2. QED
    BY <1>1, <2>1 DEF Sees
<1>3. /\ pc'[r] = "readback" /\ \A x \in Actors \ {r} : pc'[x] = pc[x]
      /\ row'[r] = ent[r] /\ \A c \in Bookings \ {r} : row'[c] = row[c]
  BY <1>1 DEF Insert, Goto, Known, TypeOK
<1>4. Frame(r)
  BY <1>1, <1>2, <1>3 DEF Frame, Same
<1>5. Sees(r)'
  BY <1>1, <1>2, <1>3 DEF Sees, Bk
<1>6. \A q \in Requests : pc'[q] = "idle" => row'[q] = NoRow
  BY <1>3 DEF SerialInv, Fresh, Actors, Bookings
<1>7. OnTheWay(r)' /\ Owing(r)'
  <2>1. r \notin interrupted => Escrow(r, 0)
    BY <1>1, <1>2, SettledBefore DEF Held
  <2>2. Owing(r)' /\ Bk(r)' = r /\ Before(r)' = 0 /\ r # "complete"
    BY <1>1, <1>2, <1>3, NullsAssumption DEF Owing, Bk, Before, Queues
  <2>3. QED
    BY <1>1, <2>1, <2>2 DEF OnTheWay, Escrow
<1>8. QED
  BY <1>1, <1>2, <1>3, <1>4, <1>5, <1>6, <1>7, RowStep DEF Claims

LEMMA DeleteSerial == ASSUME Known, SerialInv, NEW r \in Requests, Delete(r) PROVE SerialInv'
<1>1. /\ r \in Actors /\ r \in Bookings /\ pc[r] = "delete" /\ pc[r] \notin Idle /\ Finish(r)
      /\ Owing(r) /\ UNCHANGED <<now, entries, interrupted>>
  BY DEF Delete, Idle, Actors, Bookings, Owing
<1>2. /\ Bk(r) = r /\ row[r].status = "PENDING"
  <2>1. Bk(r) = r /\ Sees(r)
    BY <1>1, AtWork DEF SerialInv, View
  <2>2. QED
    BY <1>1, <2>1 DEF Sees
<1>3. /\ \A x \in Actors \ {r} : Same(x)
      /\ Sees(r)' /\ ~Owing(r)' /\ pc'[r] = "done"
  BY <1>1, Left
<1>4. row'[r] = NoRow /\ \A c \in Bookings \ {r} : row'[c] = row[c]
  BY <1>1 DEF Delete, Known, TypeOK
<1>5. Frame(r)
  BY <1>1, <1>2, <1>3, <1>4 DEF Frame
<1>6. \A q \in Requests : pc'[q] = "idle" => row'[q] = NoRow
  BY <1>3, <1>4 DEF SerialInv, Fresh, Actors, Bookings, Same
<1>7. r \notin interrupted => Escrow(r, Held(r))'
  <2>1. r \notin interrupted => Escrow(r, 0)
    BY <1>1, <1>2 DEF SerialInv, MoneyOnTheWay, OnTheWay, Before
  <2>2. Held(r)' = 0
    BY <1>4 DEF Held
  <2>3. QED
    BY <1>1, <2>1, <2>2 DEF Escrow
<1>8. OnTheWay(r)'
  BY <1>3 DEF OnTheWay
<1>9. pc'[r] \in Idle
  BY <1>3 DEF Idle
<1>10. QED
  BY <1>1, <1>2, <1>3, <1>4, <1>5, <1>6, <1>7, <1>8, <1>9, RowStep

\* What Save writes over, and what it writes.
LEMMA SaveFacts ==
  ASSUME Known, SerialInv, NEW a \in Actors, Save(a)
  PROVE  /\ Bk(a) \in Bookings /\ row[Bk(a)] \in Rows /\ row[Bk(a)] = first[a] /\ ent[a] \in Rows
         /\ row'[Bk(a)] = ent[a] /\ \A c \in Bookings \ {Bk(a)} : row'[c] = row[c]
         /\ req[a].op = "updatePeriod" =>
              a \in Requests /\ row[Bk(a)].status = "PENDING" /\ ent[a].status = "PENDING"
         /\ req[a].op # "updatePeriod" =>
              /\ ent[a] = [row[Bk(a)] EXCEPT !.status = TargetStatus(req[a].op)]
              /\ <<row[Bk(a)].status, ent[a].status>> \in StatusGraph
         /\ ent[a].status = "COMPLETED" => row[Bk(a)].status = "ACTIVE" /\ row[Bk(a)].end <= now
<1>1. /\ pc[a] = "save" /\ pc[a] \notin Idle /\ ent[a] \in Rows /\ first[a] \in Rows /\ Sees(a)
  BY DEF Save, Idle, Known, Shape, Fits, SerialInv, View
<1>2. /\ Bk(a) \in Bookings /\ row[Bk(a)] \in Rows /\ row[Bk(a)] = first[a]
      /\ row'[Bk(a)] = ent[a] /\ \A c \in Bookings \ {Bk(a)} : row'[c] = row[c]
  BY <1>1, AtWork DEF Sees, Save, Known, TypeOK
<1>3. /\ req[a].op \in {"updatePeriod", "cancel", "reject", "confirm", "start", "complete"}
      /\ a \in Queues => req[a].op = a /\ a \in {"start", "complete"}
      /\ a \in Requests => a \notin {"start", "complete"} /\ req[a].op \notin {"start", "complete"}
  BY <1>1, AtWork, NullsAssumption DEF Queues
<1>4. CASE req[a].op = "updatePeriod"
  BY <1>1, <1>2, <1>3, <1>4 DEF Sees, Actors
<1>5. CASE req[a].op # "updatePeriod"
  <2>1. /\ ent[a] = [row[Bk(a)] EXCEPT !.status = TargetStatus(req[a].op)]
        /\ row[Bk(a)].status = IF a = "start" THEN "CONFIRMED" ELSE IF a = "complete" THEN "ACTIVE"
                               ELSE "PENDING"
        /\ a = "complete" => row[Bk(a)].end <= now
    BY <1>1, <1>5 DEF Sees
  <2>2. ent[a].status = TargetStatus(req[a].op)
    BY <1>2, <2>1 DEF Rows
  <2>3. <<row[Bk(a)].status, ent[a].status>> \in StatusGraph
    BY <1>3, <1>5, <2>1, <2>2 DEF StatusGraph, TargetStatus, Actors
  <2>4. ent[a].status = "COMPLETED" => req[a].op = "complete"
    BY <1>3, <1>5, <2>2 DEF TargetStatus
  <2>5. req[a].op = "complete" => a = "complete"
    BY <1>3 DEF Actors
  <2>6. QED
    BY <1>1, <1>2, <1>5, <2>1, <2>3, <2>4, <2>5
<1>6. QED
  BY <1>4, <1>5

LEMMA SaveSerial == ASSUME Known, SerialInv, NEW a \in Actors, Save(a) PROVE SerialInv'
<1> DEFINE b == Bk(a)
           o == req[a].op
<1>1. /\ pc[a] = "save" /\ pc[a] \notin Idle /\ first[a] \in Rows
      /\ UNCHANGED <<now, entries, req, ent, first, interrupted>>
  BY DEF Save, Idle, Known, Shape, Fits
<1>2. /\ b \in Bookings /\ row[b] \in Rows /\ row[b] = first[a] /\ ent[a] \in Rows
      /\ row'[b] = ent[a] /\ \A c \in Bookings \ {b} : row'[c] = row[c]
      /\ row[b] # NoRow /\ row'[b] # NoRow
  <2>1. /\ b \in Bookings /\ row[b] \in Rows /\ row[b] = first[a] /\ ent[a] \in Rows
        /\ row'[b] = ent[a] /\ \A c \in Bookings \ {b} : row'[c] = row[c]
    BY SaveFacts
  <2>2. QED
    BY <2>1, NullsAssumption
<1>3. o \in {"updatePeriod", "cancel", "reject", "confirm", "start", "complete"}
      /\ (o = "complete" <=> a = "complete") /\ (o = "start" => a \notin Requests)
  BY <1>1, AtWork, NullsAssumption DEF Queues, Actors
<1>4. o # "updatePeriod" =>
        /\ row'[b].start = row[b].start /\ row'[b].end = row[b].end /\ row'[b].total = row[b].total
        /\ row[b].status \in Busy /\ <<row[b].status, row'[b].status>> \in StatusGraph
        /\ row'[b].status = TargetStatus(o)
  <2>1. o # "updatePeriod" => ent[a] = [row[b] EXCEPT !.status = TargetStatus(o)]
           /\ <<row[b].status, ent[a].status>> \in StatusGraph
    BY SaveFacts
  <2>2. QED
    BY <1>2, <2>1 DEF Rows, StatusGraph, Busy
<1>5. PICK l \in {"charge", "refund", "schedule", "payout"} :
        /\ pc'[a] = l
        /\ l = "charge" <=> o = "updatePeriod"
        /\ l = "refund" <=> o \in {"cancel", "reject"}
        /\ l = "schedule" <=> o \in {"confirm", "start"}
        /\ l = "payout" <=> o = "complete"
  BY <1>3 DEF Save, AfterSave, Goto, Known, TypeOK
<1>6. \A x \in Actors \ {a} : pc'[x] = pc[x]
  BY DEF Save, Goto, Known, TypeOK
<1>7. Frame(a)
  BY <1>1, <1>2, <1>6 DEF Frame, Same
<1>8. row[b].status # "COMPLETED"
  BY <1>4, SaveFacts DEF StatusGraph
<1>9. Sees(a)'
  <2>1. CASE l = "charge"
    BY <1>1, <1>2, <1>5, <2>1, SaveFacts DEF Sees, Bk
  <2>2. CASE l = "refund"
    BY <1>1, <1>2, <1>4, <1>5, <2>2 DEF Sees, Bk, TargetStatus
  <2>3. CASE l = "schedule"
    BY <1>5, <2>3 DEF Sees
  <2>4. CASE l = "payout"
    <3>1. ent[a] = [first[a] EXCEPT !.status = "COMPLETED"] /\ ent[a].status = "COMPLETED"
      BY <1>2, <1>4, <1>5, <2>4, SaveFacts DEF TargetStatus
    <3>2. row[b].end <= now
      BY <3>1, SaveFacts
    <3>3. row'[b].end <= now'
      BY <1>1, <1>4, <1>5, <2>4, <3>2
    <3>4. QED
      BY <1>1, <1>2, <1>5, <2>4, <3>1, <3>3 DEF Sees, Bk
  <2>5. QED
    BY <2>1, <2>2, <2>3, <2>4
<1>10. \A q \in Requests : pc'[q] = "idle" => row'[q] = NoRow
  <2>1. ASSUME NEW q \in Requests, pc'[q] = "idle" PROVE row'[q] = NoRow
    <3>1. pc[q] = "idle"
      BY <1>1, <1>5, <1>6, <2>1 DEF Actors
    <3>2. row[q] = NoRow
      BY <3>1 DEF SerialInv, Fresh
    <3>3. QED
      BY <1>2, <3>2 DEF Bookings
  <2>2. QED
    BY <2>1
<1>11. b \notin interrupted => Escrow(b, first[a].total)
  <2>1. row[b].status \in Busy
    BY <1>4, SaveFacts DEF Busy
  <2>2. Held(b) = first[a].total
    BY <1>2, <2>1 DEF Held
  <2>3. QED
    BY <1>1, <2>2, SettledBefore
<1>12. OnTheWay(a)'
  <2>1. entries[b].paidOut = 0
    BY <1>2, <1>8, NothingPaidOut
  <2>2. Owing(a)' => Before(a)' = first[a].total
    <3>1. l = "refund" => ent[a].total = first[a].total
      BY <1>2, <1>4, <1>5
    <3>2. QED
      BY <1>1, <1>5, <3>1 DEF Owing, Before
  <2>3. QED
    BY <1>1, <1>11, <2>1, <2>2 DEF OnTheWay, Bk, Escrow
<1>13. ~Owing(a)' => l = "schedule"
  BY <1>5 DEF Owing
<1>14. ASSUME NEW c \in Bookings, c = b, c \notin interrupted, ~Owing(a)' PROVE Escrow(c, Held(c))'
  <2>1. row'[b].status \in Busy /\ row'[b].total = first[a].total
    BY <1>2, <1>4, <1>5, <1>13, <1>14 DEF TargetStatus, Busy
  <2>2. Held(c)' = first[a].total
    BY <1>2, <1>14, <2>1 DEF Held
  <2>3. QED
    BY <1>1, <1>11, <1>14, <2>2 DEF Escrow
<1>15. \/ o \in Claims /\ a \in Requests
       \/ row'[b].status \notin Busy
       \/ row[b].status \in Busy /\ row'[b].start = row[b].start /\ row'[b].end = row[b].end
  BY <1>4, SaveFacts DEF Claims
<1>16. QED
  BY <1>1, <1>2, <1>5, <1>7, <1>8, <1>9, <1>10, <1>12, <1>14, <1>15, RowStep DEF Idle

-----------------------------------------------------------------------------
(* Failures, crashes, the clock *)

LEMMA FaultSerial == ASSUME Known, SerialInv, NEW a \in Actors, Fault(a) PROVE SerialInv'
<1>1. pc[a] \notin Idle /\ UNCHANGED <<row, entries, now>>
  BY DEF Fault, Table
<1>2. CASE pc[a] = "pay" /\ Goto(a, "delete")
           /\ UNCHANGED <<jobs, req, want, ent, first, age, interrupted>>
  BY <1>1, <1>2, DeleteNextSerial
<1>3. CASE pc[a] = "ack" /\ Leave(a) /\ UNCHANGED interrupted
  BY <1>1, <1>3, LeavingStep DEF Owing
<1>4. CASE Throw(a) /\ Interrupt({a})
  BY <1>1, <1>4, LeavingStep DEF Throw
<1>5. QED
  BY <1>2, <1>3, <1>4 DEF Fault

LEMMA CrashSerial == ASSUME Known, SerialInv, Crash PROVE SerialInv'
<1>1. /\ \A a \in Actors : pc'[a] \in Idle /\ (pc'[a] = "idle" /\ a \notin Queues => pc[a] = "idle")
      /\ UNCHANGED <<row, entries, now>> /\ Interrupt(Actors)
  BY DEF Crash, Table, Idle
<1>2. Exclusive' /\ View' /\ StillFree' /\ MoneyOnTheWay'
  BY <1>1 DEF Exclusive, InFlight, View, Sees, StillFree, PeriodFree, MoneyOnTheWay, OnTheWay, Owing,
     Idle, Actors
<1>3. Fresh'
  BY <1>1, NullsAssumption DEF SerialInv, Fresh, Actors
<1>4. NoOverlap' /\ PaidOutOnce'
  BY <1>1 DEF SerialInv, NoOverlap, PaidOutOnce
<1>5. EscrowExact'
  <2>1. ASSUME NEW b \in Bookings, b \notin interrupted' PROVE Escrow(b, Held(b))'
    <3>1. b \notin interrupted /\ \A x \in Actors : Owing(x) => Bk(x) # b
      BY <1>1, <2>1 DEF Interrupt
    <3>2. Escrow(b, Held(b))
      BY <3>1 DEF SerialInv, EscrowExact
    <3>3. QED
      BY <1>1, <3>2 DEF Escrow, Held
  <2>2. QED
    BY <2>1 DEF EscrowExact
<1>6. QED
  BY <1>2, <1>3, <1>4, <1>5 DEF SerialInv

LEMMA TickSerial == ASSUME Known, SerialInv, Tick PROVE SerialInv'
<1>1. now \in Nat /\ now' = now + 1
  BY BoundsAssumption DEF Tick, Known, TypeOK
<1>2. UNCHANGED <<row, balance, entries, jobs, pc, req, want, ent, first, faults, interrupted>>
  BY DEF Tick, Table
<1>3. \A b \in Bookings : row[b] # NoRow /\ row[b].end <= now => row[b].end <= now'
  <2>1. ASSUME NEW b \in Bookings, row[b] # NoRow, row[b].end <= now PROVE row[b].end <= now'
    <3>1. row[b].end \in Nat
      BY <2>1 DEF Known, TypeOK, Rows
    <3>2. QED
      BY <1>1, <2>1, <3>1
  <2>2. QED
    BY <2>1
<1>4. Exclusive' /\ Fresh' /\ StillFree' /\ NoOverlap'
  BY <1>2 DEF SerialInv, Exclusive, InFlight, Fresh, StillFree, PeriodFree, NoOverlap, Bk
<1>5. MoneyOnTheWay' /\ EscrowExact'
  BY <1>2 DEF SerialInv, MoneyOnTheWay, OnTheWay, Owing, Before, EscrowExact, Escrow, Held, Bk
<1>6. View'
  <2>1. ASSUME NEW x \in Actors PROVE Sees(x)'
    <3>1. Sees(x)
      BY DEF SerialInv, View
    <3>2. CASE pc[x] \in Watching
      <4>1. Bk(x) \in Bookings /\ (x = "complete" => row[Bk(x)] # NoRow)
        BY <3>1, <3>2, Watched DEF Queues
      <4>2. pc[x] = "payout" => x = "complete"
        BY <3>2, AtWork DEF Watching, Idle
      <4>3. QED
        BY <1>2, <1>3, <3>1, <4>1, <4>2 DEF Sees, Bk
    <3>3. CASE pc[x] \notin Watching
      BY <1>2, <3>3 DEF Sees, Watching
    <3>4. QED
      BY <3>2, <3>3
  <2>2. QED
    BY <2>1 DEF View
<1>7. PaidOutOnce'
  BY <1>2, <1>3 DEF SerialInv, PaidOutOnce
<1>8. QED
  BY <1>4, <1>5, <1>6, <1>7 DEF SerialInv

-----------------------------------------------------------------------------
(* Jobs and the clock *)

\* A step changes the rows of bookings with Insert, Delete or Save only.
LEMMA RowChanges ==
  ASSUME [Next]_vars, row' # row
  PROVE  \/ \E r \in Requests : Insert(r) \/ Delete(r)
         \/ \E a \in Actors : Save(a)
BY DEF Next, Progress, vars, Arrive, Take, Payout, Ack, Validate, ReadBack, Pay, Charge, Refund,
   Unschedule, Load, Reload, Schedule, Fault, Crash, Tick, Table

\* Insert writes a row that was not there.
LEMMA InsertFacts ==
  ASSUME Known, SerialInv, NEW r \in Requests, pc[r] = "insert"
  PROVE  req[r].op = "create" /\ Bk(r) = r /\ row[r] = NoRow
<1>1. r \in Actors /\ pc[r] \notin Idle /\ Sees(r)
  BY DEF Actors, Idle, SerialInv, View
<1>2. req[r].op = "create" /\ Bk(r) = r
  BY <1>1, AtWork
<1>3. QED
  BY <1>1, <1>2 DEF Sees

\* The row of a booking changes with the save of an actor or is that of a new or
\* an unpaid booking.
LEMMA RowWrites ==
  ASSUME Known, SerialInv, [Next]_vars, NEW b \in Bookings, row'[b] # row[b]
  PROVE  \/ row[b] = NoRow /\ row'[b].status = "PENDING"
         \/ row[b].status = "PENDING" /\ row'[b] = NoRow
         \/ \E a \in Actors : Save(a) /\ b = Bk(a)
<1>1. CASE \E r \in Requests : Insert(r)
  <2>1. PICK r \in Requests : Insert(r)
    BY <1>1
  <2>2. r \in Actors /\ r \in Bookings /\ pc[r] = "insert" /\ Sees(r)
    BY <2>1 DEF Actors, Bookings, Insert, SerialInv, View
  <2>3. row[r] = NoRow /\ ent[r].status = "PENDING"
    BY <2>2, InsertFacts DEF Sees
  <2>4. b = r /\ row'[r] = ent[r]
    BY <2>1, <2>2 DEF Insert, Known, TypeOK
  <2>5. QED
    BY <2>3, <2>4
<1>2. CASE \E r \in Requests : Delete(r)
  <2>1. PICK r \in Requests : Delete(r)
    BY <1>2
  <2>2. r \in Actors /\ r \in Bookings /\ pc[r] = "delete" /\ pc[r] \notin Idle /\ Sees(r)
    BY <2>1 DEF Actors, Bookings, Delete, Idle, SerialInv, View
  <2>3. row[r].status = "PENDING"
    BY <2>2, AtWork DEF Sees
  <2>4. b = r /\ row'[r] = NoRow
    BY <2>1, <2>2 DEF Delete, Known, TypeOK
  <2>5. QED
    BY <2>3, <2>4
<1>3. CASE \E a \in Actors : Save(a)
  BY <1>3, SaveFacts
<1>4. QED
  BY <1>1, <1>2, <1>3, RowChanges

\* What the start queue holds after a step.
LEMMA StartJobs ==
  ASSUME Known, DueInTime, [Next]_vars, NEW b \in Bookings
  PROVE  \/ jobs'["start"][b] = NoJob
         \/ jobs["start"][b] # NoJob /\ jobs'["start"][b].due = jobs["start"][b].due
         \/ \E r \in Requests : /\ Schedule(r) /\ b = Bk(r)
                                /\ jobs'["start"][b].due = Later(now, ent[r].start)
<1> DEFINE Goal == \/ jobs'["start"][b] = NoJob
                   \/ jobs["start"][b] # NoJob /\ jobs'["start"][b].due = jobs["start"][b].due
                   \/ \E r \in Requests : /\ Schedule(r) /\ b = Bk(r)
                                          /\ jobs'["start"][b].due = Later(now, ent[r].start)
<1>1. /\ jobs \in [Queues -> [Bookings -> Jobs]] /\ "start" \in Queues /\ jobs["start"][b] \in Jobs
      /\ NoJob.state = "none"
  BY DEF Known, TypeOK, Queues, NoJob
<1>2. CASE jobs' = jobs
  BY <1>2
<1>3. ASSUME NEW q \in Queues, Take(q) PROVE Goal
  BY <1>1, <1>3 DEF Take, Jobs
<1>4. ASSUME NEW a \in Actors, pc[a] \notin Idle,
             a \in Queues => jobs' = [jobs EXCEPT ![a][Bk(a)] = Retried(jobs[a][Bk(a)])],
             a \notin Queues => jobs' = jobs
      PROVE  Goal
  <2>1. CASE a = "start" /\ Bk(a) = b
    <3>1. jobs["start"][b].state = "active"
      BY <1>4, <2>1 DEF DueInTime
    <3>2. jobs'["start"][b] = Retried(jobs["start"][b])
      BY <1>1, <1>4, <2>1
    <3>3. QED
      BY <1>1, <3>1, <3>2 DEF Retried, Jobs
  <2>2. CASE ~(a = "start" /\ Bk(a) = b)
    BY <1>1, <1>4, <2>2 DEF Jobs
  <2>3. QED
    BY <2>1, <2>2
<1>5. ASSUME NEW r \in Requests, Unschedule(r) PROVE Goal
  BY <1>1, <1>5 DEF Unschedule, Remove
<1>6. ASSUME NEW a \in Actors, Schedule(a) PROVE Goal
  <2>1. CASE a = "start"
    BY <1>1, <1>6, <2>1 DEF Schedule, Add, Queues
  <2>2. CASE a # "start"
    <3>1. pc[a] = "schedule" /\ pc[a] \notin Idle
      BY <1>6 DEF Schedule, Idle
    <3>2. a \in Requests
      BY <2>2, <3>1, AtWork DEF Actors
    <3>3. jobs' = Add("start", Bk(a), Later(now, ent[a].start))
      BY <1>6, <2>2 DEF Schedule
    <3>4. CASE jobs["start"][Bk(a)] = NoJob /\ b = Bk(a)
      BY <1>1, <1>6, <3>2, <3>3, <3>4 DEF Add, NoJob
    <3>5. CASE ~(jobs["start"][Bk(a)] = NoJob /\ b = Bk(a))
      BY <1>1, <3>3, <3>5 DEF Add
    <3>6. QED
      BY <3>4, <3>5
  <2>3. QED
    BY <2>1, <2>2
<1>7. ASSUME NEW q \in Queues, Ack(q) PROVE Goal
  BY <1>1, <1>7 DEF Ack
<1>8. ASSUME NEW a \in Actors, Fault(a), jobs' # jobs PROVE Goal
  <2>1. pc[a] \notin Idle
    BY <1>8 DEF Fault
  <2>2. CASE jobs' = [jobs EXCEPT ![a][Bk(a)] = Recovered(jobs[a][Bk(a)])]
    BY <1>1, <2>2 DEF Recovered, Jobs
  <2>3. CASE Throw(a)
    BY <1>4, <2>1, <2>3 DEF Throw
  <2>4. QED
    BY <1>8, <2>2, <2>3 DEF Fault
<1>9. CASE Crash
  BY <1>1, <1>9 DEF Crash, Recovered, Jobs
<1>10. ASSUME NEW a \in Actors, Load(a) \/ Reload(a) \/ Refund(a) \/ Payout(a), jobs' # jobs PROVE Goal
  <2>1. pc[a] \notin Idle /\ Throw(a)
    BY <1>10 DEF Load, Reload, Refund, Payout, Idle
  <2>2. QED
    BY <1>4, <2>1 DEF Throw
<1>11. CASE jobs' # jobs
  BY <1>3, <1>5, <1>6, <1>7, <1>8, <1>9, <1>10, <1>11 DEF Next, Progress, vars, Arrive, Validate, Insert,
     ReadBack, Pay, Delete, Charge, Save, Tick, Actors
<1>12. QED
  BY <1>2, <1>11

\* A job the worker of the start queue holds stays active while the worker is at it.
LEMMA ActiveStays ==
  ASSUME Known, [Next]_vars, NEW b \in Bookings, jobs["start"][b].state = "active",
         pc["start"] \notin Idle, b = Bk("start"), pc'["start"] \notin Idle
  PROVE  jobs'["start"][b].state = "active"
<1> DEFINE Goal == jobs'["start"][b].state = "active"
<1>1. /\ jobs \in [Queues -> [Bookings -> Jobs]] /\ "start" \in Queues /\ "start" \in Actors
      /\ DOMAIN pc = Actors /\ NoJob.state = "none" /\ \A r \in Requests : r # "start"
  BY NullsAssumption DEF Known, TypeOK, Queues, Actors, NoJob
<1>2. CASE jobs' = jobs
  BY <1>2
<1>3. ASSUME NEW a \in Actors, Leave(a) PROVE a # "start"
  BY <1>1, <1>3 DEF Leave, Goto, Idle
<1>4. ASSUME NEW q \in Queues, Take(q) PROVE Goal
  BY <1>1, <1>4 DEF Take, Jobs, Idle
<1>5. ASSUME NEW a \in Actors, Throw(a) PROVE Goal
  BY <1>1, <1>3, <1>5 DEF Throw
<1>6. ASSUME NEW r \in Requests, Unschedule(r) PROVE Goal
  BY <1>1, <1>6 DEF Unschedule, Remove
<1>7. ASSUME NEW a \in Actors, Schedule(a) PROVE Goal
  BY <1>1, <1>7 DEF Schedule, Add
<1>8. ASSUME NEW q \in Queues, Ack(q) PROVE Goal
  BY <1>1, <1>3, <1>8 DEF Ack, Actors
<1>9. ASSUME NEW a \in Actors, Fault(a), jobs' # jobs PROVE Goal
  BY <1>1, <1>3, <1>5, <1>9 DEF Fault
<1>10. ~Crash
  BY <1>1 DEF Crash, Idle, Queues
<1>11. ASSUME NEW a \in Actors, Load(a) \/ Reload(a) \/ Refund(a) \/ Payout(a), jobs' # jobs PROVE Goal
  BY <1>5, <1>11 DEF Load, Reload, Refund, Payout
<1>12. CASE jobs' # jobs
  BY <1>4, <1>6, <1>7, <1>8, <1>9, <1>10, <1>11, <1>12 DEF Next, Progress, vars, Arrive, Validate, Insert,
     ReadBack, Pay, Delete, Charge, Save, Tick, Actors
<1>13. QED
  BY <1>2, <1>12

\* How an actor comes to where it is: it stays, it forgets, or it takes its next step.
LEMMA Moves ==
  ASSUME Known, [Next]_vars, NEW x \in Actors
  PROVE  \/ pc'[x] = pc[x] /\ req'[x] = req[x] /\ ent'[x] = ent[x]
         \/ pc'[x] \in Idle
         \/ pc[x] \notin Idle /\ pc'[x] # "schedule" /\ req'[x] = req[x]
         \/ Save(x)
         \/ x \in Queues /\ Take(x)
         \/ x \in Requests /\ Arrive(x)
<1> DEFINE Goal == \/ pc'[x] = pc[x] /\ req'[x] = req[x] /\ ent'[x] = ent[x]
                   \/ pc'[x] \in Idle
                   \/ pc[x] \notin Idle /\ pc'[x] # "schedule" /\ req'[x] = req[x]
<1>1. /\ pc \in [Actors -> Idle \cup Labels]
      /\ req \in [Actors -> [op: Ops, user: Users, bk: Bookings \cup {NoBooking}]]
      /\ ent \in [Actors -> Rows \cup {NoRow}]
  BY DEF Known, TypeOK
<1>2. ASSUME NEW a \in Actors, Leave(a) PROVE Goal
  BY <1>1, <1>2 DEF Leave, Goto, Idle
<1>3. ASSUME NEW a \in Actors, Finish(a), pc[a] \notin Idle PROVE Goal
  BY <1>1, <1>2, <1>3 DEF Finish, Goto
<1>4. ASSUME NEW a \in Actors, Throw(a) PROVE Goal
  BY <1>2, <1>4 DEF Throw
<1>5. ASSUME NEW r \in Requests, Arrive(r), x # r PROVE Goal
  BY <1>1, <1>5 DEF Arrive, Ask, Goto
<1>6. ASSUME NEW q \in Queues, Take(q), x # q PROVE Goal
  BY <1>1, <1>6 DEF Take, Goto
<1>7. ASSUME NEW a \in Actors, Load(a) PROVE Goal
  BY <1>1, <1>3, <1>4, <1>7 DEF Load, Goto, Idle
<1>8. ASSUME NEW a \in Actors, Validate(a) \/ Insert(a) \/ ReadBack(a) PROVE Goal
  BY <1>1, <1>3, <1>8 DEF Validate, Insert, ReadBack, Goto, Idle
<1>9. ASSUME NEW a \in Actors, Pay(a) \/ Delete(a) \/ Charge(a) \/ Unschedule(a) \/ Schedule(a) PROVE Goal
  BY <1>1, <1>3, <1>9 DEF Pay, Delete, Charge, Unschedule, Schedule, Goto, Idle
<1>10. ASSUME NEW a \in Actors, Reload(a) \/ Refund(a) \/ Payout(a) PROVE Goal
  BY <1>1, <1>3, <1>4, <1>10 DEF Reload, Refund, Payout, Goto, Idle
<1>11. ASSUME NEW a \in Actors, Save(a), x # a PROVE Goal
  BY <1>1, <1>11 DEF Save, Goto
<1>12. ASSUME NEW a \in Actors, Ack(a) PROVE Goal
  BY <1>2, <1>12 DEF Ack
<1>13. ASSUME NEW a \in Actors, Fault(a) PROVE Goal
  BY <1>1, <1>2, <1>4, <1>13 DEF Fault, Goto, Idle
<1>14. ASSUME Crash PROVE Goal
  BY <1>1, <1>14 DEF Crash, Idle
<1>15. ASSUME Tick \/ UNCHANGED vars PROVE Goal
  BY <1>15 DEF Tick, vars
<1>16. \/ Goal
       \/ Save(x)
       \/ x \in Queues /\ Take(x)
       \/ x \in Requests /\ Arrive(x)
  <2> HIDE DEF Goal
  <2>1. CASE \E r \in Requests : Arrive(r)
    BY <1>5, <2>1
  <2>2. ASSUME NEW a \in Actors, Progress(a), ~Goal
        PROVE  (Save(x) \/ (x \in Queues /\ Take(x)))
    <3>1. Save(a) \/ (a \in Queues /\ Take(a))
      BY <1>7, <1>8, <1>9, <1>10, <1>12, <2>2 DEF Progress
    <3>2. x = a
      BY <1>6, <1>11, <2>2, <3>1
    <3>3. QED
      BY <3>1, <3>2
  <2>3. CASE \E a \in Actors : Progress(a)
    BY <2>2, <2>3
  <2>4. CASE (\E a \in Actors : Fault(a)) \/ Crash \/ Tick \/ UNCHANGED vars
    BY <1>13, <1>14, <1>15, <2>4
  <2>5. QED
    <3>1. \/ \E r \in Requests : Arrive(r)
          \/ \E a \in Actors : Progress(a)
          \/ (\E a \in Actors : Fault(a)) \/ Crash \/ Tick \/ UNCHANGED vars
      BY DEF Next
    <3>2. QED
      BY <2>1, <2>3, <2>4, <3>1
<1>17. QED
  BY <1>16

\* The clock does not go back.
LEMMA Clock ==
  ASSUME Known, [Next]_vars
  PROVE  now \in Nat /\ now' \in Nat /\ now <= now'
<1>1. now \in Nat
  BY BoundsAssumption DEF Known, TypeOK
<1>2. now' = now \/ now' = now + 1
  BY DEF Next, Progress, vars, Arrive, Take, Payout, Ack, Validate, Insert, ReadBack, Pay, Delete, Charge,
     Refund, Unschedule, Load, Reload, Save, Schedule, Fault, Crash, Tick
<1>3. QED
  BY <1>1, <1>2

\* A booking that was confirmed keeps its period.
LEMMA BegunStays ==
  ASSUME Known, SerialInv, [Next]_vars, NEW b \in Bookings, Begun(b)
  PROVE  Begun(b)' /\ row'[b].start = row[b].start /\ row'[b].end = row[b].end
<1>1. CASE row'[b] = row[b]
  BY <1>1 DEF Begun
<1>2. CASE row'[b] # row[b]
  <2>1. \E a \in Actors : Save(a) /\ b = Bk(a)
    BY <1>2, RowWrites DEF Begun
  <2>2. PICK a \in Actors : Save(a) /\ b = Bk(a)
    BY <2>1
  <2>3. /\ row[b] \in Rows /\ row'[b] = ent[a] /\ ent[a] \in Rows
        /\ req[a].op = "updatePeriod" => row[b].status = "PENDING"
        /\ req[a].op # "updatePeriod" =>
             /\ ent[a] = [row[b] EXCEPT !.status = TargetStatus(req[a].op)]
             /\ <<row[b].status, ent[a].status>> \in StatusGraph
    BY <2>2, SaveFacts
  <2>4. ent[a] = [row[b] EXCEPT !.status = TargetStatus(req[a].op)]
        /\ <<row[b].status, ent[a].status>> \in StatusGraph
    BY <2>3 DEF Begun
  <2>5. ent[a].status \in {"ACTIVE", "COMPLETED"}
    BY <2>4 DEF Begun, StatusGraph
  <2>6. ent[a].start = row[b].start /\ ent[a].end = row[b].end
    BY <2>3, <2>4 DEF Rows
  <2>7. row'[b] # NoRow
    BY <2>3, NullsAssumption
  <2>8. QED
    BY <2>3, <2>5, <2>6, <2>7 DEF Begun
<1>3. QED
  BY <1>1, <1>2

LEMMA InitInTime == Init => DueInTime /\ InItsTime
BY DEF Init, DueInTime, InItsTime, Actors, Idle, Queues, Bookings

\* The start queue, the listener and the worker go by the start of the booking.
LEMMA DueStep ==
  ASSUME Known, SerialInv, DueInTime, [Next]_vars
  PROVE  DueInTime'
<1>1. now \in Nat /\ now' \in Nat /\ now <= now'
  BY Clock
<1>2. /\ "start" \in Actors /\ "start" \in Queues /\ Requests \subseteq Actors /\ Queues \subseteq Actors
      /\ \A r \in Requests : r \notin Queues
  BY NullsAssumption DEF Actors, Queues
<1>3. \A b \in Bookings : Begun(b) => row[b].start \in Nat
  BY DEF Known, TypeOK, Begun, Rows
<1>4. ASSUME NEW b \in Bookings, jobs'["start"][b] # NoJob
      PROVE  Begun(b)' /\ row'[b].start <= jobs'["start"][b].due
  <2>1. CASE jobs["start"][b] # NoJob /\ jobs'["start"][b].due = jobs["start"][b].due
    BY <2>1, BegunStays DEF DueInTime
  <2>2. CASE \E r \in Requests : /\ Schedule(r) /\ b = Bk(r)
                                 /\ jobs'["start"][b].due = Later(now, ent[r].start)
    <3>1. PICK r \in Requests : /\ Schedule(r) /\ b = Bk(r)
                                /\ jobs'["start"][b].due = Later(now, ent[r].start)
      BY <2>2
    <3>2. Begun(b) /\ row[b].start = ent[r].start
      BY <3>1 DEF DueInTime, Schedule
    <3>3. row[b].start <= Later(now, ent[r].start)
      BY <1>1, <1>3, <3>2 DEF Later
    <3>4. QED
      BY <3>1, <3>2, <3>3, BegunStays
  <2>3. QED
    BY <1>4, <2>1, <2>2, StartJobs
<1>5. ASSUME NEW r \in Requests, pc'[r] = "schedule"
      PROVE  Begun(Bk(r))' /\ row'[Bk(r)'].start = ent'[r].start
  <2>1. r \in Actors /\ pc'[r] \notin Idle /\ r \notin Queues
    BY <1>2, <1>5 DEF Idle
  <2>2. CASE pc'[r] = pc[r] /\ req'[r] = req[r] /\ ent'[r] = ent[r]
    <3>1. pc[r] \notin Idle /\ Bk(r) \in Bookings
      BY <2>1, <2>2, AtWork
    <3>2. Begun(Bk(r)) /\ row[Bk(r)].start = ent[r].start
      BY <1>5, <2>2 DEF DueInTime
    <3>3. Bk(r)' = Bk(r)
      BY <2>2 DEF Bk
    <3>4. \A b \in Bookings : Begun(b) => Begun(b)' /\ row'[b].start = row[b].start
      BY BegunStays
    <3>5. QED
      BY <2>2, <3>1, <3>2, <3>3, <3>4 DEF Begun
  <2>3. CASE Save(r)
    <3>1. pc[r] = "save" /\ req' = req /\ ent' = ent /\ pc[r] \notin Idle
      BY <2>3 DEF Save, Idle
    <3>2. AfterSave(req[r].op) = "schedule"
      BY <1>5, <2>1, <2>3 DEF Save, Goto, Known, TypeOK
    <3>3. req[r].op \in {"updatePeriod", "cancel", "reject", "confirm"}
      BY <2>1, <3>1, AtWork DEF Queues
    <3>4. req[r].op = "confirm"
      BY <3>2, <3>3 DEF AfterSave
    <3>5. /\ row'[Bk(r)] = ent[r] /\ ent[r] \in Rows /\ row[Bk(r)] \in Rows
          /\ ent[r] = [row[Bk(r)] EXCEPT !.status = TargetStatus(req[r].op)]
      BY <2>1, <2>3, <3>4, SaveFacts
    <3>6. ent[r].status = "CONFIRMED"
      BY <3>4, <3>5 DEF TargetStatus, Rows
    <3>7. QED
      BY <3>1, <3>5, <3>6, NullsAssumption DEF Begun, Bk
  <2>4. CASE Arrive(r)
    BY <1>2, <1>5, <2>1, <2>4 DEF Arrive, Ask, Goto, Known, TypeOK
  <2>5. QED
    BY <1>5, <2>1, <2>2, <2>3, <2>4, Moves
<1>6. ASSUME pc'["start"] \notin Idle
      PROVE  /\ jobs'["start"][Bk("start")'].state = "active" /\ Begun(Bk("start"))'
             /\ row'[Bk("start")'].start <= now'
  <2> DEFINE s == "start"
  <2>1. CASE Take(s)
    <3>1. PICK b \in Bookings :
            /\ jobs[s][b].state = "waiting" /\ jobs[s][b].due <= now
            /\ jobs' = [jobs EXCEPT ![s][b].state = "active"]
            /\ req' = [req EXCEPT ![s] = [op |-> s, user |-> Landlord, bk |-> b]]
      BY <2>1 DEF Take
    <3>2. Bk(s)' = b /\ jobs'[s][b].state = "active"
      BY <1>2, <3>1 DEF Bk, Known, TypeOK, Jobs
    <3>3. jobs[s][b] # NoJob /\ jobs[s][b].due \in Nat
      BY <1>2, <3>1 DEF NoJob, Known, TypeOK, Jobs
    <3>4. Begun(b) /\ row[b].start <= jobs[s][b].due
      BY <3>3 DEF DueInTime
    <3>5. row' = row
      BY <2>1 DEF Take, Table
    <3>6. row[b].start \in Nat
      BY <1>3, <3>4
    <3>7. row[b].start <= now'
      BY <1>1, <3>1, <3>3, <3>4, <3>6
    <3>8. QED
      BY <3>2, <3>4, <3>5, <3>7 DEF Begun
  <2>2. CASE pc[s] \notin Idle /\ req'[s] = req[s]
    <3>1. Bk(s) \in Bookings /\ Bk(s)' = Bk(s)
      BY <1>2, <2>2, AtWork DEF Bk
    <3>2. jobs[s][Bk(s)].state = "active" /\ Begun(Bk(s)) /\ row[Bk(s)].start <= now
      BY <2>2 DEF DueInTime
    <3>3. Begun(Bk(s))' /\ row'[Bk(s)].start <= now'
      <4>1. \A b \in Bookings : Begun(b) => Begun(b)' /\ row'[b].start = row[b].start
        BY BegunStays
      <4>2. Begun(Bk(s))' /\ row'[Bk(s)].start = row[Bk(s)].start /\ row[Bk(s)].start \in Nat
        BY <1>3, <3>1, <3>2, <4>1 DEF Begun
      <4>3. QED
        BY <1>1, <3>2, <4>2
    <3>4. jobs'[s][Bk(s)].state = "active"
      BY <1>6, <2>2, <3>1, <3>2, ActiveStays
    <3>5. QED
      BY <3>1, <3>3, <3>4
  <2>3. (pc[s] \notin Idle /\ req'[s] = req[s]) \/ Take(s)
    <3>1. CASE Save(s)
      BY <3>1 DEF Save, Idle
    <3>2. QED
      BY <1>2, <1>6, <3>1, Moves
  <2>4. QED
    BY <2>1, <2>2, <2>3
<1>7. QED
  BY <1>4, <1>5, <1>6 DEF DueInTime

\* A booking becomes ACTIVE at the hands of the start worker, and COMPLETED after its end.
LEMMA InTimeStep ==
  ASSUME Known, SerialInv, DueInTime, InItsTime, [Next]_vars
  PROVE  InItsTime'
<1>1. now \in Nat /\ now' \in Nat /\ now <= now'
  BY Clock
<1>2. ASSUME NEW b \in Bookings, row'[b] # NoRow
      PROVE  /\ row'[b].status = "ACTIVE" => row'[b].start <= now'
             /\ row'[b].status = "COMPLETED" => row'[b].end <= now'
  <2>1. CASE row'[b] = row[b]
    <3>1. row[b].start \in Nat /\ row[b].end \in Nat
      BY <1>2, <2>1 DEF Known, TypeOK, Rows
    <3>2. QED
      BY <1>1, <1>2, <2>1, <3>1 DEF InItsTime
  <2>2. CASE \E a \in Actors : Save(a) /\ b = Bk(a)
    <3>1. PICK a \in Actors : Save(a) /\ b = Bk(a)
      BY <2>2
    <3>2. /\ row[b] \in Rows /\ row'[b] = ent[a] /\ ent[a] \in Rows
          /\ req[a].op = "updatePeriod" => ent[a].status = "PENDING"
          /\ req[a].op # "updatePeriod" =>
               /\ ent[a] = [row[b] EXCEPT !.status = TargetStatus(req[a].op)]
               /\ <<row[b].status, ent[a].status>> \in StatusGraph
          /\ ent[a].status = "COMPLETED" => row[b].end <= now
      BY <3>1, SaveFacts
    <3>3. ASSUME ent[a].status \in {"ACTIVE", "COMPLETED"}
          PROVE  ent[a].start = row[b].start /\ ent[a].end = row[b].end /\ ent[a].status = TargetStatus(req[a].op)
      <4>1. ent[a] = [row[b] EXCEPT !.status = TargetStatus(req[a].op)]
        BY <3>2, <3>3
      <4>2. QED
        BY <3>2, <4>1 DEF Rows
    <3>4. pc[a] = "save" /\ pc[a] \notin Idle
      BY <3>1 DEF Save, Idle
    <3>5. CASE ent[a].status = "ACTIVE"
      <4>1. TargetStatus(req[a].op) = "ACTIVE"
        BY <3>3, <3>5
      <4>2. req[a].op \in {"cancel", "reject", "confirm", "start", "complete"}
        BY <3>2, <3>4, <3>5, AtWork
      <4>3. req[a].op = "start"
        BY <4>1, <4>2 DEF TargetStatus
      <4>4. a = "start"
        BY <3>4, <4>3, AtWork DEF Actors, Queues
      <4>5. row[b].start <= now /\ row[b].start \in Nat
        BY <3>1, <3>2, <3>4, <4>4 DEF DueInTime, Rows
      <4>6. QED
        BY <1>1, <3>2, <3>3, <3>5, <4>5
    <3>6. CASE ent[a].status = "COMPLETED"
      <4>1. row[b].end \in Nat
        BY <3>2 DEF Rows
      <4>2. QED
        BY <1>1, <3>2, <3>3, <3>6, <4>1
    <3>7. QED
      BY <3>2, <3>5, <3>6
  <2>3. QED
    BY <1>2, <2>1, <2>2, RowWrites
<1>3. QED
  BY <1>2 DEF InItsTime

-----------------------------------------------------------------------------
(* The theorems *)

LEMMA InitSerial == Init => SerialInv
<1> SUFFICES ASSUME Init PROVE SerialInv
  OBVIOUS
<1>1. \A a \in Actors : pc[a] = "idle"
  BY DEF Init
<1>2. Exclusive /\ View /\ StillFree /\ MoneyOnTheWay
  BY <1>1 DEF Exclusive, InFlight, Idle, View, Sees, StillFree, PeriodFree, MoneyOnTheWay, OnTheWay,
     Owing, Actors
<1>3. Fresh /\ NoOverlap
  BY DEF Init, Fresh, NoOverlap, Bookings
<1>4. EscrowExact /\ PaidOutOnce
  BY DEF Init, EscrowExact, Escrow, Held, PaidOutOnce
<1>5. QED
  BY <1>2, <1>3, <1>4 DEF SerialInv

LEMMA NextSerial == Serial /\ Known /\ SerialInv /\ [Next]_vars => SerialInv'
<1> SUFFICES ASSUME Serial, Known, SerialInv, [Next]_vars PROVE SerialInv'
  OBVIOUS
<1>1. CASE \E r \in Requests : Arrive(r)
  BY <1>1, ArriveSerial
<1>2. ASSUME NEW a \in Actors, Progress(a) PROVE SerialInv'
  <2>1. CASE a \in Queues /\ (Take(a) \/ Payout(a) \/ Ack(a))
    BY <2>1, TakeSerial, PayoutSerial, JobsSerial
  <2>2. CASE a \in Requests /\ (\/ Validate(a) \/ Insert(a) \/ ReadBack(a) \/ Pay(a) \/ Delete(a)
                                \/ Charge(a) \/ Refund(a) \/ Unschedule(a))
    BY <2>2, ValidateSerial, InsertSerial, ReadBackSerial, PaySerial, DeleteSerial, ChargeSerial,
       RefundSerial, JobsSerial
  <2>3. CASE Load(a) \/ Reload(a) \/ Save(a) \/ Schedule(a)
    BY <2>3, LoadSerial, ReloadSerial, SaveSerial, JobsSerial
  <2>4. QED
    BY <1>2, <2>1, <2>2, <2>3 DEF Progress
<1>3. CASE \E a \in Actors : Fault(a)
  BY <1>3, FaultSerial
<1>4. CASE Crash \/ Tick
  BY <1>4, CrashSerial, TickSerial
<1>5. CASE UNCHANGED vars
  BY <1>5 DEF vars, SerialInv, Exclusive, InFlight, Fresh, View, Sees, StillFree, PeriodFree,
     NoOverlap, MoneyOnTheWay, OnTheWay, Owing, Before, EscrowExact, Escrow, Held, PaidOutOnce, Bk
<1>6. QED
  BY <1>1, <1>2, <1>3, <1>4, <1>5 DEF Next

\* The invariant the runs check holds in every instance: the types, the shape of
\* what handlers and processors know and, when clients do not compete, that what
\* they read is still so when they save, and where the money of a booking is.
THEOREM Invariance == Spec => []Inv
<1>1. Init => Inv
  BY InitKnown, InitSerial, InitInTime DEF Inv
<1>2. Inv /\ [Next]_vars => Inv'
  BY NextKnown, NextSerial, DueStep, InTimeStep DEF Inv
<1>3. QED
  BY <1>1, <1>2, PTL DEF Spec

\* When clients do not send competing requests, two bookings that are waiting or
\* under way never overlap, whatever fails and whenever the process dies.
THEOREM NoDoubleBooking == ASSUME Serial PROVE Spec => []NoOverlap
<1>1. Inv => NoOverlap
  BY DEF Inv, SerialInv
<1>2. QED
  BY <1>1, Invariance, PTL

\* When clients do not compete, the platform holds exactly the price of a booking
\* that is waiting or under way and nothing of another, unless a handler or a job
\* was stopped between its save and its money.
THEOREM ExactEscrow == ASSUME Serial PROVE Spec => []EscrowExact
<1>1. Inv => EscrowExact
  BY DEF Inv, SerialInv
<1>2. QED
  BY <1>1, Invariance, PTL

\* When clients do not compete, the landlord is paid at most once, the price of a
\* booking that was completed, however often the completion job is run.
THEOREM OnePayout == ASSUME Serial PROVE Spec => []PaidOutOnce
<1>1. Inv => PaidOutOnce
  BY DEF Inv, SerialInv
<1>2. QED
  BY <1>1, Invariance, PTL

\* When clients do not compete, no booking is started before its start nor completed
\* before its end: the start job is never due early, and no period changes once the
\* job exists, however late the worker takes it.
THEOREM NotEarly == ASSUME Serial PROVE Spec => []InItsTime
<1>1. Inv => InItsTime
  BY DEF Inv
<1>2. QED
  BY <1>1, Invariance, PTL

\* When clients do not compete, a booking moves only along the graph the checks of
\* the handlers and processors describe.
THEOREM OneWay == ASSUME Serial PROVE Spec => StatusMoves
<1>1. ASSUME Inv, [Next]_vars, NEW b \in Bookings, row[b] # NoRow, row'[b] # NoRow,
             row[b].status # row'[b].status
      PROVE  <<row[b].status, row'[b].status>> \in StatusGraph
  <2>1. Known /\ SerialInv
    BY <1>1 DEF Inv
  <2>2. row' # row
    BY <1>1
  <2>3. CASE \E r \in Requests : Insert(r) \/ Delete(r)
    <3>1. PICK r \in Requests : Insert(r) \/ Delete(r)
      BY <2>3
    <3>2. r \in Actors /\ r \in Bookings
      BY DEF Actors, Bookings
    <3>3. pc[r] = "insert" => req[r].op = "create" /\ Bk(r) = r /\ row[r] = NoRow
      BY <2>1, <3>2, InsertFacts
    <3>4. QED
      BY <1>1, <2>1, <3>1, <3>2, <3>3 DEF Insert, Delete, Known, TypeOK
  <2>4. CASE \E a \in Actors : Save(a)
    <3>1. PICK a \in Actors : Save(a)
      BY <2>4
    <3>2. QED
      BY <1>1, <2>1, <3>1, SaveFacts
  <2>5. QED
    BY <1>1, <2>2, <2>3, <2>4, RowChanges
<1>2. Inv /\ [Next]_vars =>
        [\A b \in Bookings : row[b] # NoRow /\ row'[b] # NoRow /\ row[b].status # row'[b].status
           => <<row[b].status, row'[b].status>> \in StatusGraph]_vars
  BY <1>1
<1>3. QED
  BY <1>2, Invariance, PTL DEF Spec, StatusMoves

\* When clients do not compete, a booking becomes COMPLETED only from ACTIVE, after
\* its end and as it was, and stays as it is from then on, however long a handler
\* or a job may take.
THEOREM CompletedStays == ASSUME Serial PROVE Spec => CompletedForGood
<1>1. ASSUME Inv, [Next]_vars, NEW b \in Bookings, row'[b] # row[b]
      PROVE  /\ row'[b] # NoRow /\ row'[b].status = "COMPLETED" =>
                  row[b] = [row'[b] EXCEPT !.status = "ACTIVE"] /\ row[b].end <= now
             /\ ~(row[b] # NoRow /\ row[b].status = "COMPLETED")
  <2>1. Known /\ SerialInv /\ row' # row
    BY <1>1 DEF Inv
  <2>2. CASE \E r \in Requests : Insert(r)
    <3>1. PICK r \in Requests : Insert(r)
      BY <2>2
    <3>2. r \in Actors /\ r \in Bookings /\ pc[r] = "insert"
      BY <3>1 DEF Actors, Bookings, Insert
    <3>3. row[r] = NoRow /\ Sees(r)
      BY <2>1, <3>2, InsertFacts DEF SerialInv, View
    <3>4. ent[r].status = "PENDING"
      BY <3>2, <3>3 DEF Sees
    <3>5. b = r /\ row'[r] = ent[r]
      BY <1>1, <2>1, <3>1, <3>2 DEF Insert, Known, TypeOK
    <3>6. QED
      BY <3>3, <3>4, <3>5
  <2>3. CASE \E r \in Requests : Delete(r)
    <3>1. PICK r \in Requests : Delete(r)
      BY <2>3
    <3>2. r \in Actors /\ r \in Bookings /\ pc[r] = "delete" /\ pc[r] \notin Idle
      BY <3>1 DEF Actors, Bookings, Delete, Idle
    <3>3. Bk(r) = r /\ Sees(r)
      BY <2>1, <3>2, AtWork DEF SerialInv, View
    <3>4. b = r /\ row'[r] = NoRow
      BY <1>1, <2>1, <3>1, <3>2 DEF Delete, Known, TypeOK
    <3>5. row[r].status = "PENDING"
      BY <3>2, <3>3 DEF Sees
    <3>6. QED
      BY <3>4, <3>5
  <2>4. CASE \E a \in Actors : Save(a)
    <3>1. PICK a \in Actors : Save(a)
      BY <2>4
    <3>2. /\ b = Bk(a) /\ row[b] \in Rows /\ row'[b] = ent[a]
          /\ req[a].op = "updatePeriod" => row[b].status = "PENDING" /\ ent[a].status = "PENDING"
          /\ req[a].op # "updatePeriod" =>
               /\ ent[a] = [row[b] EXCEPT !.status = TargetStatus(req[a].op)]
               /\ <<row[b].status, ent[a].status>> \in StatusGraph
          /\ ent[a].status = "COMPLETED" => row[b].status = "ACTIVE" /\ row[b].end <= now
      BY <1>1, <2>1, <3>1, SaveFacts
    <3>3. row[b].status # "COMPLETED"
      BY <3>2 DEF StatusGraph
    <3>4. ent[a].status = "COMPLETED" => row[b] = [ent[a] EXCEPT !.status = "ACTIVE"]
      BY <3>2 DEF Rows
    <3>5. QED
      BY <3>2, <3>3, <3>4
  <2>5. QED
    BY <1>1, <2>1, <2>2, <2>3, <2>4, RowChanges
<1>2. Inv /\ [Next]_vars =>
        [\A b \in Bookings :
           /\ row'[b] # row[b] /\ row'[b] # NoRow /\ row'[b].status = "COMPLETED" =>
                /\ row[b] = [row'[b] EXCEPT !.status = "ACTIVE"]
                /\ row[b].end <= now
           /\ row[b] # NoRow /\ row[b].status = "COMPLETED" => row'[b] = row[b]]_vars
  BY <1>1
<1>3. QED
  BY <1>2, Invariance, PTL DEF Spec, CompletedForGood

-----------------------------------------------------------------------------
(* What getListingAvailability offers *)

\* The time from a to e lies in one of the periods.
Covers(F, a, e) == \E f \in F : f.start <= a /\ e <= f.end
Spans == [start: Int, end: Int]

\* A booking is taken out of a period: what is left covers what the period does and the booking leaves.
LEMMA LessCovers ==
  ASSUME NEW p \in Spans, NEW c \in Spans, NEW a \in Int, NEW e \in Int, a < e
  PROVE  Covers(Less(p, c), a, e) <=> Covers({p}, a, e) /\ ~Overlap(c, [start |-> a, end |-> e])
<1> DEFINE one == [start |-> p.start, end |-> c.start]
           two == [start |-> c.end, end |-> p.end]
<1>1. /\ p.start \in Int /\ p.end \in Int /\ c.start \in Int /\ c.end \in Int
      /\ one.start = p.start /\ one.end = c.start /\ two.start = c.end /\ two.end = p.end
      /\ Overlap(c, [start |-> a, end |-> e]) <=> c.start < e /\ a < c.end
      /\ Overlap(p, c) <=> p.start < c.end /\ c.start < p.end
  BY DEF Spans, Overlap
<1>2. Covers({p}, a, e) <=> p.start <= a /\ e <= p.end
  BY DEF Covers
<1>3. CASE ~Overlap(p, c)
  <2>1. Less(p, c) = {p}
    BY <1>3 DEF Less
  <2> QED
    BY <1>1, <1>2, <1>3, <2>1
<1>4. CASE Overlap(p, c)
  <2>1. Less(p, c) = {x \in {one, two} : x.start < x.end}
    BY <1>4 DEF Less, Pieces
  <2>2. Covers(Less(p, c), a, e) <=>
          \/ one.start < one.end /\ one.start <= a /\ e <= one.end
          \/ two.start < two.end /\ two.start <= a /\ e <= two.end
    BY <2>1 DEF Covers
  <2> HIDE DEF one, two
  <2> QED
    BY <1>1, <1>2, <1>4, <2>2
<1> QED
  BY <1>3, <1>4

LEMMA LessSpans ==
  ASSUME NEW p \in Spans, NEW c \in Spans
  PROVE  Less(p, c) \subseteq Spans
  BY DEF Less, Pieces, Spans

\* It is taken out of every period.
LEMMA SubtractCovers ==
  ASSUME NEW F, F \subseteq Spans, NEW c \in Spans
  PROVE  /\ Subtract(c, F) \subseteq Spans
         /\ \A a, e \in Int : a < e =>
              (Covers(Subtract(c, F), a, e)
                 <=> Covers(F, a, e) /\ ~Overlap(c, [start |-> a, end |-> e]))
<1>1. Subtract(c, F) \subseteq Spans
  BY LessSpans DEF Subtract
<1>2. ASSUME NEW a \in Int, NEW e \in Int, a < e
      PROVE  Covers(Subtract(c, F), a, e)
               <=> Covers(F, a, e) /\ ~Overlap(c, [start |-> a, end |-> e])
  <2>1. Covers(Subtract(c, F), a, e) <=> \E p \in F : Covers(Less(p, c), a, e)
    BY DEF Covers, Subtract
  <2>2. Covers(F, a, e) <=> \E p \in F : Covers({p}, a, e)
    BY DEF Covers
  <2>3. \A p \in F : Covers(Less(p, c), a, e)
          <=> Covers({p}, a, e) /\ ~Overlap(c, [start |-> a, end |-> e])
    BY <1>2, LessCovers
  <2> QED
    BY <2>1, <2>2, <2>3
<1> QED
  BY <1>1, <1>2

\* The recursion of FoldSet over the bookings, and a function that satisfies it on the sets in D.
Leaves(g, F, s) == IF s = {} THEN F ELSE LET c == CHOOSE c \in s : TRUE IN Subtract(c, g[s \ {c}])
LeavesOn(g, F, D) == g = [s \in D |-> Leaves(g, F, s)]

LEMMA FoldIs ==
  ASSUME NEW F, NEW C
  PROVE  FoldSet(Subtract, F, C) = (CHOOSE g : LeavesOn(g, F, SUBSET C))[C]
  BY DEF FoldSet, MapThenFoldSet, LeavesOn, Leaves

\* There is such a function on the subsets of a finite set.
LEMMA FoldExists ==
  ASSUME NEW F, NEW C, IsFiniteSet(C)
  PROVE  \E g : LeavesOn(g, F, SUBSET C)
<1> DEFINE D(n) == {s \in SUBSET C : Cardinality(s) <= n}
           N == {n \in Nat : \E g : LeavesOn(g, F, D(n))}
<1>1. \A T \in SUBSET C : IsFiniteSet(T) /\ Cardinality(T) \in Nat
  BY FS_Subset, FS_CardinalityType
<1>2. 0 \in N
  <2>1. \A s \in D(0) : s = {}
    BY <1>1, FS_EmptySet
  <2>2. LeavesOn([s \in D(0) |-> F], F, D(0))
    BY <2>1 DEF LeavesOn, Leaves
  <2> QED
    BY <2>2
<1>3. ASSUME NEW n \in Nat, n \in N PROVE n + 1 \in N
  <2>1. PICK g : LeavesOn(g, F, D(n))
    BY <1>3
  <2> DEFINE h == [s \in D(n + 1) |-> Leaves(g, F, s)]
  <2>2. ASSUME NEW s \in D(n + 1) PROVE Leaves(h, F, s) = Leaves(g, F, s)
    <3>1. CASE s = {}
      BY <3>1 DEF Leaves
    <3>2. CASE s # {}
      <4> DEFINE x == CHOOSE x \in s : TRUE
      <4>1. x \in s
        BY <3>2
      <4>2. Cardinality(s \ {x}) = Cardinality(s) - 1
        BY <1>1, <4>1, FS_RemoveElement
      <4>3. s \ {x} \in D(n) /\ s \ {x} \in D(n + 1)
        BY <1>1, <4>2
      <4>4. h[s \ {x}] = g[s \ {x}]
        BY <2>1, <4>3 DEF LeavesOn
      <4> QED
        BY <3>2, <4>4 DEF Leaves
    <3> QED
      BY <3>1, <3>2
  <2>3. LeavesOn(h, F, D(n + 1))
    BY <2>2 DEF LeavesOn
  <2>4. \E k : LeavesOn(k, F, D(n + 1))
    BY <2>3, Zenon
  <2> HIDE DEF D, h
  <2> QED
    BY <2>4
<1>4. Cardinality(C) \in N
  <2> HIDE DEF N
  <2> QED
    BY <1>1, <1>2, <1>3, DI!SetInduction
<1>5. D(Cardinality(C)) = SUBSET C
  BY <1>1, FS_Subset
<1> QED
  BY <1>4, <1>5

\* In whatever order the bookings are taken out, what is left covers what the periods do and no booking needs.
LEMMA FoldCovers ==
  ASSUME NEW F, F \subseteq Spans, NEW C, C \subseteq Spans, IsFiniteSet(C)
  PROVE  \A a, e \in Int : a < e =>
           (Covers(FoldSet(Subtract, F, C), a, e)
              <=> Covers(F, a, e) /\ \A c \in C : ~Overlap(c, [start |-> a, end |-> e]))
<1> DEFINE g == CHOOSE g : LeavesOn(g, F, SUBSET C)
           Clear(T, a, e) == \A c \in T : ~Overlap(c, [start |-> a, end |-> e])
           Good(T) == /\ g[T] \subseteq Spans
                      /\ \A a, e \in Int : a < e =>
                           (Covers(g[T], a, e) <=> Covers(F, a, e) /\ Clear(T, a, e))
           N == {n \in Nat : \A T \in SUBSET C : Cardinality(T) = n => Good(T)}
<1>1. LeavesOn(g, F, SUBSET C)
  BY FoldExists
<1>2. \A T \in SUBSET C : IsFiniteSet(T) /\ Cardinality(T) \in Nat
  BY FS_Subset, FS_CardinalityType
<1> HIDE DEF g
<1>3. \A T \in SUBSET C : g[T] = Leaves(g, F, T)
  BY <1>1 DEF LeavesOn
<1>4. 0 \in N
  <2>1. ASSUME NEW T \in SUBSET C, Cardinality(T) = 0 PROVE Good(T)
    <3>1. T = {}
      BY <1>2, <2>1, FS_EmptySet
    <3>2. g[T] = F
      BY <1>3, <3>1 DEF Leaves
    <3> QED
      BY <3>1, <3>2
  <2> QED
    BY <2>1
<1>5. ASSUME NEW n \in Nat, n \in N PROVE n + 1 \in N
  <2> SUFFICES ASSUME NEW T \in SUBSET C, Cardinality(T) = n + 1 PROVE Good(T)
    OBVIOUS
  <2> DEFINE c == CHOOSE c \in T : TRUE
             R == T \ {c}
  <2>1. c \in T
    BY <1>2, FS_EmptySet
  <2>2. Cardinality(R) = n /\ R \in SUBSET C
    <3>1. IsFiniteSet(T) /\ R \in SUBSET C
      BY <1>2
    <3>2. Cardinality(R) = Cardinality(T) - 1
      BY <2>1, <3>1, FS_RemoveElement, Zenon
    <3> QED
      BY <3>1, <3>2
  <2>3. Good(R)
    BY <1>5, <2>2
  <2>4. g[T] = Subtract(c, g[R])
    BY <1>3, <2>1 DEF Leaves
  <2>5. c \in Spans /\ \A a, e : Clear(T, a, e) <=> Clear(R, a, e) /\ ~Overlap(c, [start |-> a, end |-> e])
    BY <2>1
  <2> HIDE DEF c, R, Clear
  <2>6. Subtract(c, g[R]) \subseteq Spans
    BY <2>3, <2>5, SubtractCovers
  <2>7. ASSUME NEW a \in Int, NEW e \in Int, a < e
        PROVE  Covers(g[T], a, e) <=> Covers(F, a, e) /\ Clear(T, a, e)
    <3>1. Covers(Subtract(c, g[R]), a, e)
            <=> Covers(g[R], a, e) /\ ~Overlap(c, [start |-> a, end |-> e])
      BY <2>3, <2>5, <2>7, SubtractCovers
    <3> QED
      BY <2>3, <2>4, <2>5, <2>7, <3>1
  <2> QED
    BY <2>4, <2>6, <2>7
<1>6. Cardinality(C) \in N
  <2> HIDE DEF N
  <2> QED
    BY <1>2, <1>4, <1>5, DI!SetInduction
<1>7. Good(C)
  BY <1>2, <1>6
<1> QED
  BY <1>7, FoldIs DEF g
\* The bookings there are, which each step adds one to at most.
Booked == {b \in Bookings : row[b] # NoRow}

LEMMA InitBooked == ASSUME Init PROVE IsFiniteSet(Booked)
<1>1. Booked = {}
  BY DEF Init, Booked
<1> QED
  BY <1>1, FS_EmptySet

LEMMA BookedStep ==
  ASSUME IsFiniteSet(Booked), [Next]_vars, TypeOK
  PROVE  IsFiniteSet(Booked')
<1>1. ASSUME NEW c, \A b \in Bookings : b # c => row'[b] = row[b] PROVE IsFiniteSet(Booked')
  <2>1. Booked' \subseteq Booked \cup {c}
    BY <1>1 DEF Booked
  <2>2. IsFiniteSet(Booked \cup {c})
    BY FS_AddElement
  <2> QED
    BY <2>1, <2>2, FS_Subset
<1>2. CASE row' = row
  BY <1>2 DEF Booked
<1>3. ASSUME NEW c, NEW v, row' = [row EXCEPT ![c] = v] PROVE IsFiniteSet(Booked')
  <2>1. \A b \in Bookings : b # c => row'[b] = row[b]
    BY <1>3 DEF TypeOK
  <2> QED
    BY <1>1, <2>1
<1>4. CASE UNCHANGED vars
  BY <1>2, <1>4 DEF vars
<1>5. ASSUME NEW r \in Requests, Arrive(r) PROVE IsFiniteSet(Booked')
  BY <1>2, <1>5 DEF Arrive, Table
<1>6. CASE Crash \/ Tick
  BY <1>2, <1>6 DEF Crash, Tick, Table
<1>7. ASSUME NEW a \in Actors, Fault(a) PROVE IsFiniteSet(Booked')
  BY <1>2, <1>7 DEF Fault, Table
<1>8. ASSUME NEW a \in Actors, Progress(a) PROVE IsFiniteSet(Booked')
  <2>1. CASE Take(a)
    BY <1>2, <2>1 DEF Take, Table
  <2> QED
    BY <1>2, <1>3, <1>8, <2>1 DEF Progress, Payout, Ack, Validate, Insert, ReadBack, Pay, Delete, Charge,
       Refund, Unschedule, Load, Reload, Save, Schedule, Table
<1> QED
  BY <1>4, <1>5, <1>6, <1>7, <1>8 DEF Next

\* What is offered is what validateBookingDates accepts, whatever the bookings are.
LEMMA OfferedAccepted ==
  ASSUME TypeOK, IsFiniteSet(Booked)
  PROVE  OfferedIsAccepted
<1> SUFFICES ASSUME NEW b, NEW p \in Periods, now <= p.start
             PROVE  Valid(b, p)
                      <=> \E f \in GetListingAvailability(b) : f.start <= p.start /\ EndOf(p) <= f.end
  BY DEF OfferedIsAccepted
<1> DEFINE today == StartOfToday
           a == p.start
           e == EndOf(p)
           asked == [start |-> a, end |-> e]
<1>1. a \in Int /\ e \in Int /\ a < e
  BY PeriodFacts
<1>2. now \in Int /\ today \in Int /\ today <= now
  <2>1. now \in Nat /\ Day \in Nat \ {0}
    BY BoundsAssumption, DayAssumption DEF TypeOK
  <2>2. now % Day \in 0..(Day - 1)
    BY <2>1
  <2> QED
    BY <2>1, <2>2 DEF StartOfToday
<1>3. today <= a
  BY <1>1, <1>2
<1>4. ASSUME NEW x, x.start \in Int, x.end \in Int
      PROVE  /\ [start |-> Later(x.start, today), end |-> x.end] \in Spans
             /\ (Later(x.start, today) <= a <=> x.start <= a)
             /\ (Later(x.start, today) < e <=> x.start < e)
  BY <1>1, <1>2, <1>3, <1>4 DEF Later, Spans
<1>5. \A s \in Slots : s.start \in Int /\ s.end \in Int
  BY SlotsAssumption
<1>6. \A c \in Bookings : row[c] # NoRow => row[c].start \in Int /\ row[c].end \in Int
  BY DEF TypeOK, Rows
<1>7. \A x \in Taken(b) : x.start \in Int /\ x.end \in Int
  BY <1>6 DEF Taken
<1> HIDE DEF today, a, e
<1>8. Upcoming(Slots) \subseteq Spans /\ Upcoming(Taken(b)) \subseteq Spans
  BY <1>4, <1>5, <1>7 DEF Upcoming, today
<1>9. IsFiniteSet(Upcoming(Taken(b)))
  <2> DEFINE soon == {c \in Bookings \ {b} :
                        row[c] # NoRow /\ row[c].status \in Busy /\ today < row[c].end}
             span == [c \in soon |-> [start |-> Later(row[c].start, today), end |-> row[c].end]]
  <2>1. IsFiniteSet(soon)
    <3>1. soon \subseteq Booked
      BY DEF Booked
    <3> QED
      BY <3>1, FS_Subset
  <2>2. \A x : x \in Upcoming(Taken(b)) <=> \E c \in soon : x = span[c]
    BY DEF Upcoming, Taken, today
  <2> HIDE DEF soon, span
  <2>3. span \in Surjection(soon, Upcoming(Taken(b)))
    <3>1. span = [c \in soon |-> span[c]]
      BY DEF span
    <3> QED
      BY <2>2, <3>1 DEF Surjection
  <2> QED
    BY <2>1, <2>3, FS_Surjection
<1>10. Covers(GetListingAvailability(b), a, e)
         <=> Covers(Upcoming(Slots), a, e) /\ \A c \in Upcoming(Taken(b)) : ~Overlap(c, asked)
  BY <1>1, <1>8, <1>9, FoldCovers DEF GetListingAvailability
<1>11. Covers(Upcoming(Slots), a, e) <=> \E s \in Slots : s.start <= a /\ e <= s.end
  <2>1. Covers(Upcoming(Slots), a, e)
          <=> \E s \in Slots : today < s.end /\ Later(s.start, today) <= a /\ e <= s.end
    <3> DEFINE U == {x \in Slots : today < x.end}
    <3> DEFINE from(s) == [start |-> Later(s.start, today), end |-> s.end]
    <3>1. Upcoming(Slots) = {from(s) : s \in U}
      BY DEF Upcoming, today
    <3>2. \A s : from(s).start = Later(s.start, today) /\ from(s).end = s.end
      OBVIOUS
    <3> HIDE DEF from
    <3>3. Covers(Upcoming(Slots), a, e) <=> \E s \in U : from(s).start <= a /\ e <= from(s).end
      BY <3>1 DEF Covers
    <3> QED
      BY <3>2, <3>3
  <2>2. \A s \in Slots : e <= s.end => today < s.end
    BY <1>1, <1>2, <1>3, <1>5
  <2> QED
    BY <1>4, <1>5, <2>1, <2>2
<1>12. (\A c \in Upcoming(Taken(b)) : ~Overlap(c, asked)) <=> FreeIgnoring(b, p)
  <2>1. (\A c \in Upcoming(Taken(b)) : ~Overlap(c, asked))
          <=> \A x \in Taken(b) : today < x.end => ~(Later(x.start, today) < e /\ a < x.end)
    <3> DEFINE U == {x \in Taken(b) : today < x.end}
    <3> DEFINE from(s) == [start |-> Later(s.start, today), end |-> s.end]
    <3>1. Upcoming(Taken(b)) = {from(s) : s \in U}
      BY DEF Upcoming, today
    <3>2. \A x : Overlap(from(x), asked) <=> Later(x.start, today) < e /\ a < x.end
      BY DEF Overlap
    <3> HIDE DEF from
    <3>3. (\A c \in Upcoming(Taken(b)) : ~Overlap(c, asked)) <=> \A x \in U : ~Overlap(from(x), asked)
      BY <3>1
    <3> QED
      BY <3>2, <3>3
  <2>2. \A x \in Taken(b) : a < x.end => today < x.end
    BY <1>1, <1>2, <1>3, <1>7
  <2>3. (\A c \in Upcoming(Taken(b)) : ~Overlap(c, asked)) <=> \A x \in Taken(b) : ~(x.start < e /\ a < x.end)
    BY <1>4, <1>7, <2>1, <2>2
  <2>4. FreeIgnoring(b, p) <=> \A x \in Taken(b) : ~(x.start < e /\ a < x.end)
    BY DEF FreeIgnoring, Taken, Overlap, a, e
  <2> QED
    BY <2>3, <2>4
<1> QED
  BY <1>10, <1>11, <1>12 DEF Valid, ValidIgnoringBookings, Covers, a, e

\* Whatever requests race and whatever fails, a period lies in one of those that getListingAvailability offers
\* just when validateBookingDates accepts it.
THEOREM OfferedExactly == Spec => []OfferedIsAccepted
<1>1. Init => IsFiniteSet(Booked)
  BY InitBooked
<1>2. IsFiniteSet(Booked) /\ TypeOK /\ [Next]_vars => IsFiniteSet(Booked)'
  BY BookedStep
<1>3. IsFiniteSet(Booked) /\ TypeOK => OfferedIsAccepted
  BY OfferedAccepted
<1>4. Known => TypeOK
  BY DEF Known
<1> QED
  BY <1>1, <1>2, <1>3, <1>4, KnownInvariance, PTL DEF Spec
=============================================================================
