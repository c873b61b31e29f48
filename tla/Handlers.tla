------------------------------ MODULE Handlers ------------------------------
(***************************************************************************)
(* What the handlers of the backend have in common.  Node runs one callback *)
(* at a time, so a handler is a program of steps, each of which is what     *)
(* runs from one await to the next, and handlers interleave between steps.  *)
(* A step is a tuple: its label and its arguments.  The modules that extend *)
(* this one define the programs (in the order of the code's statements) and *)
(* one action for each label.                                               *)
(***************************************************************************)
EXTENDS Naturals, Sequences

CONSTANTS
  Requests,   \* slots for requests in flight; a slot is used again when its handler ends
  Mixes       \* the loads to consider: [ops, calls, faults, absent, lasting, tables], see below

ASSUME HandlersAssumption == \A m \in Mixes : m.calls \in Nat /\ m.faults \in Nat

VARIABLES
  req,        \* the request in each slot
  mix,        \* the load of this behaviour: its operations, how many requests arrive, how
              \* many statements fail, subjects no request is about, whether it lasts long enough
              \* for keys to expire, and what the tables hold at first
  calls,      \* requests so far
  faults,     \* failures so far
  contended   \* history: subjects that two requests in flight were about, or one that failed

handlerVars == <<req, mix, calls, faults, contended>>

-----------------------------------------------------------------------------

\* op: the operation; about: the subjects (users, listings, ...) it may write or cache;
\* todo: the steps that are left; got: what it has read so far, by kind.
Idle == [op |-> "none", about |-> {}, todo |-> <<>>, got |-> <<>>]

HandlersInit ==
  /\ req = [r \in Requests |-> Idle]
  /\ mix \in Mixes
  /\ calls = 0 /\ faults = 0 /\ contended = {}

InFlight == {r \in Requests : req[r] # Idle}
At(r, label) == req[r].todo # <<>> /\ req[r].todo[1][1] = label
Arg(r, i) == req[r].todo[1][i + 1]
Got(r, kind) == req[r].got[kind]

With(f, k, v) == [x \in DOMAIN f \cup {k} |-> IF x = k THEN v ELSE f[x]]
Without(f, S) == [x \in DOMAIN f \ S |-> f[x]]

Goes(r, todo, got) ==
  /\ req' = [req EXCEPT ![r] = IF todo = <<>> THEN Idle
                               ELSE [@ EXCEPT !.todo = todo, !.got = got]]
  /\ UNCHANGED <<mix, calls, faults, contended>>

\* The step at hand is done: go on, having read v, with other steps first, or not at all.
Continue(r)   == Goes(r, Tail(req[r].todo), req[r].got)
Read(r, k, v) == Goes(r, Tail(req[r].todo), With(req[r].got, k, v))
Do(r, more)   == Goes(r, more \o Tail(req[r].todo), req[r].got)
Throw(r)      == Goes(r, <<>>, <<>>)
Require(r, condition) == IF condition THEN Continue(r) ELSE Throw(r)

\* The step finds what else the request is about, and goes on with other steps first.
Others(r) == UNION {req[q].about : q \in Requests \ {r}}
DoAbout(r, subjects, more) ==
  LET todo == more \o Tail(req[r].todo) IN
  /\ req' = [req EXCEPT ![r] = IF todo = <<>> THEN Idle
                               ELSE [@ EXCEPT !.todo = todo, !.about = req[r].about \cup subjects]]
  /\ contended' = contended \cup (subjects \cap Others(r))
  /\ UNCHANGED <<mix, calls, faults>>

\* A handler starts, for a request that arrives or for a timer or a job of the process itself.
Start(r, op, about, program) ==
  /\ req[r] = Idle
  /\ req' = [req EXCEPT ![r] = [op |-> op, about |-> about, todo |-> program, got |-> <<>>]]
  /\ contended' = contended \cup (about \cap Others(r))
  /\ UNCHANGED <<mix, faults>>

Begin(r, op, about, program) ==
  /\ op \in mix.ops /\ calls < mix.calls /\ about \cap mix.absent = {}
  /\ Start(r, op, about, program)
  /\ calls' = calls + 1

Wake(r, op, about, program) == Start(r, op, about, program) /\ UNCHANGED calls

\* What the handler awaits is rejected, and the handler ends there.
Fault(r) ==
  /\ req[r] # Idle /\ faults < mix.faults
  /\ faults' = faults + 1
  /\ contended' = contended \cup req[r].about
  /\ req' = [req EXCEPT ![r] = Idle]
  /\ UNCHANGED <<mix, calls>>

\* Nothing is in flight about a subject, ...
Quiet(s) == \A r \in Requests : s \notin req[r].about
\* ... and nothing that could have disturbed another request ever was.
Settled(s) == Quiet(s) /\ s \notin contended
=============================================================================
