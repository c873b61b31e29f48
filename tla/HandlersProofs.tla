--------------------------- MODULE HandlersProofs ---------------------------
(***************************************************************************)
(* What every step of a handler leaves of its program: the lemmas that the  *)
(* proofs about Realtime, Accounts and Market have in common.               *)
(***************************************************************************)
EXTENDS Handlers, SequenceTheorems, TLAPS

\* The steps of a program, and a program, which is a sequence of its steps.
Steps(q) == {q[i] : i \in DOMAIN q}
Program(q) == q \in Seq(Steps(q))

\* The steps that are left of a request.
Left(r) == Steps(req[r].todo)

\* Every slot holds a request.
Proper ==
  /\ req = [r \in Requests |-> req[r]]
  /\ \A r \in Requests :
       /\ req[r] = [op |-> req[r].op, about |-> req[r].about, todo |-> req[r].todo, got |-> req[r].got]
       /\ Program(req[r].todo)

\* The other requests are left as they are.
Elsewhere(r) == \A q \in Requests \ {r} : req'[q] = req[q]

\* The request r has taken its step, and goes on with other steps first, or is thrown out.
Went(r, more) ==
  /\ Elsewhere(r)
  /\ req'[r].todo = more \o Tail(req[r].todo)
  /\ req'[r] # Idle => req'[r].op = req[r].op /\ req[r].about \subseteq req'[r].about
  /\ contended \subseteq contended' /\ UNCHANGED <<mix, calls, faults>>

Thrown(r) ==
  /\ Elsewhere(r) /\ req'[r] = Idle
  /\ contended \subseteq contended' /\ UNCHANGED <<mix, calls, faults>>

\* The steps with these labels come only last in a program.
Ends(q, labels) == \A i \in DOMAIN q : q[i][1] \in labels => i = Len(q)

-----------------------------------------------------------------------------
(* Programs *)

\* A program has a first step, and the others follow it.
LEMMA ProgramTail ==
  ASSUME NEW q, Program(q), q # <<>>
  PROVE  /\ Program(Tail(q)) /\ q[1] \in Steps(q) /\ 1 \in DOMAIN q
         /\ Steps(q) = {q[1]} \cup Steps(Tail(q))
         /\ \A i \in DOMAIN Tail(q) : i + 1 \in DOMAIN q /\ Tail(q)[i] = q[i + 1]
         /\ Len(q) \in Nat \ {0} /\ Len(Tail(q)) = Len(q) - 1
         /\ DOMAIN q = 1..Len(q) /\ DOMAIN Tail(q) = 1..Len(Tail(q))
<1>1. /\ Len(q) \in Nat \ {0} /\ DOMAIN q = 1..Len(q) /\ Tail(q) \in Seq(Steps(q))
      /\ Len(Tail(q)) = Len(q) - 1 /\ DOMAIN Tail(q) = 1..Len(Tail(q))
      /\ \A i \in 1..Len(Tail(q)) : Tail(q)[i] = q[i + 1]
  BY DEF Program
<1>2. \A i \in DOMAIN Tail(q) : i + 1 \in DOMAIN q /\ Tail(q)[i] = q[i + 1]
  BY <1>1
<1>3. q[1] \in Steps(q) /\ 1 \in DOMAIN q
  BY <1>1 DEF Steps
<1>4. Steps(q) = {q[1]} \cup Steps(Tail(q))
  <2>1. ASSUME NEW i \in DOMAIN q PROVE q[i] \in {q[1]} \cup Steps(Tail(q))
    <3>1. CASE i = 1
      BY <3>1
    <3>2. CASE i # 1
      <4>1. i - 1 \in DOMAIN Tail(q) /\ Tail(q)[i - 1] = q[i]
        BY <1>1, <2>1, <3>2
      <4>2. QED
        BY <4>1 DEF Steps
    <3>3. QED
      BY <3>1, <3>2
  <2>2. Steps(Tail(q)) \subseteq Steps(q)
    BY <1>2 DEF Steps
  <2>3. QED
    BY <1>3, <2>1, <2>2 DEF Steps
<1>5. Program(Tail(q))
  <2>1. Tail(q) \in Seq(Range(Tail(q)))
    BY <1>1, SeqOfRange
  <2>2. Range(Tail(q)) = Steps(Tail(q))
    BY DEF Range, Steps
  <2>3. QED
    BY <2>1, <2>2 DEF Program
<1>6. QED
  BY <1>1, <1>2, <1>3, <1>4, <1>5

\* A program after another has the steps of both, in this order.
LEMMA ProgramJoin ==
  ASSUME NEW p, NEW q, Program(p), Program(q)
  PROVE  /\ Program(p \o q) /\ Steps(p \o q) = Steps(p) \cup Steps(q)
         /\ Len(p) \in Nat /\ Len(q) \in Nat /\ Len(p \o q) = Len(p) + Len(q)
         /\ DOMAIN p = 1..Len(p) /\ DOMAIN q = 1..Len(q) /\ DOMAIN (p \o q) = 1..Len(p) + Len(q)
         /\ \A i \in 1..Len(p) + Len(q) : (p \o q)[i] = IF i <= Len(p) THEN p[i] ELSE q[i - Len(p)]
<1> DEFINE S == Steps(p) \cup Steps(q)
<1>1. p \in Seq(S) /\ q \in Seq(S)
  BY SeqMonotonic DEF Program
<1> HIDE DEF S
<1>2. /\ Len(p) \in Nat /\ Len(q) \in Nat /\ Len(p \o q) = Len(p) + Len(q) /\ p \o q \in Seq(S)
      /\ DOMAIN p = 1..Len(p) /\ DOMAIN q = 1..Len(q) /\ DOMAIN (p \o q) = 1..Len(p) + Len(q)
      /\ \A i \in 1..Len(p) + Len(q) : (p \o q)[i] = IF i <= Len(p) THEN p[i] ELSE q[i - Len(p)]
  BY <1>1
<1>3. Steps(p) \subseteq Steps(p \o q)
  <2>1. ASSUME NEW i \in DOMAIN p PROVE i \in DOMAIN (p \o q) /\ (p \o q)[i] = p[i]
    BY <1>2, <2>1
  <2>2. QED
    BY <2>1 DEF Steps
<1>4. Steps(q) \subseteq Steps(p \o q)
  <2>1. ASSUME NEW i \in DOMAIN q PROVE i + Len(p) \in DOMAIN (p \o q) /\ (p \o q)[i + Len(p)] = q[i]
    BY <1>2, <2>1
  <2>2. QED
    BY <2>1 DEF Steps
<1>5. Steps(p \o q) \subseteq Steps(p) \cup Steps(q)
  <2>1. ASSUME NEW i \in DOMAIN (p \o q) PROVE (p \o q)[i] \in Steps(p) \cup Steps(q)
    <3>1. CASE i <= Len(p)
      BY <1>2, <2>1, <3>1 DEF Steps
    <3>2. CASE ~(i <= Len(p))
      <4>1. i - Len(p) \in DOMAIN q /\ (p \o q)[i] = q[i - Len(p)]
        BY <1>2, <2>1, <3>2
      <4>2. QED
        BY <4>1 DEF Steps
    <3>3. QED
      BY <3>1, <3>2
  <2>2. QED
    BY <2>1 DEF Steps
<1>6. Program(p \o q)
  <2>1. p \o q \in Seq(Range(p \o q))
    BY <1>2, SeqOfRange
  <2>2. Range(p \o q) = Steps(p \o q)
    BY DEF Range, Steps
  <2>3. QED
    BY <2>1, <2>2 DEF Program
<1>7. QED
  BY <1>2, <1>3, <1>4, <1>5, <1>6

LEMMA NoProgram == Program(<<>>) /\ Steps(<<>>) = {} /\ \A q : Program(q) => <<>> \o q = q
<1>1. Program(<<>>) /\ Steps(<<>>) = {}
  BY DEF Program, Steps
<1>2. ASSUME NEW q, Program(q) PROVE <<>> \o q = q
  BY <1>2 DEF Program
<1>3. QED
  BY <1>1, <1>2

LEMMA ProgramOf1 == ASSUME NEW a PROVE Program(<<a>>) /\ Steps(<<a>>) = {a} /\ Len(<<a>>) = 1
BY DEF Program, Steps

LEMMA ProgramOf2 == ASSUME NEW a, NEW b PROVE Program(<<a, b>>) /\ Steps(<<a, b>>) = {a, b}
BY DEF Program, Steps

LEMMA ProgramOf3 ==
  ASSUME NEW a, NEW b, NEW c PROVE Program(<<a, b, c>>) /\ Steps(<<a, b, c>>) = {a, b, c}
BY DEF Program, Steps

LEMMA ProgramOf4 ==
  ASSUME NEW a, NEW b, NEW c, NEW d
  PROVE  Program(<<a, b, c, d>>) /\ Steps(<<a, b, c, d>>) = {a, b, c, d}
BY DEF Program, Steps

\* The join of short programs.
LEMMA JoinOf1 ==
  ASSUME NEW a, NEW b, NEW c
  PROVE  <<a>> \o <<b>> = <<a, b>> /\ <<a>> \o <<b, c>> = <<a, b, c>> /\ <<a, b>> \o <<c>> = <<a, b, c>>
<1> DEFINE S == {a, b, c}
<1>1. /\ <<a>> \in Seq(S) /\ <<b>> \in Seq(S) /\ <<c>> \in Seq(S) /\ <<a, b>> \in Seq(S)
      /\ <<b, c>> \in Seq(S) /\ <<a, b, c>> \in Seq(S)
  OBVIOUS
<1>2. /\ <<a>> \o <<b>> \in Seq(S) /\ <<a>> \o <<b, c>> \in Seq(S) /\ <<a, b>> \o <<c>> \in Seq(S)
  BY <1>1
<1>3. <<a>> \o <<b>> = <<a, b>>
  <2>1. Len(<<a>> \o <<b>>) = 2 /\ \A i \in 1..2 : (<<a>> \o <<b>>)[i] = <<a, b>>[i]
    BY <1>1
  <2>2. QED
    BY <1>1, <1>2, <2>1, SeqEqual
<1>4. <<a>> \o <<b, c>> = <<a, b, c>>
  <2>1. Len(<<a>> \o <<b, c>>) = 3 /\ \A i \in 1..3 : (<<a>> \o <<b, c>>)[i] = <<a, b, c>>[i]
    BY <1>1
  <2>2. QED
    BY <1>1, <1>2, <2>1, SeqEqual
<1>5. <<a, b>> \o <<c>> = <<a, b, c>>
  <2>1. Len(<<a, b>> \o <<c>>) = 3 /\ \A i \in 1..3 : (<<a, b>> \o <<c>>)[i] = <<a, b, c>>[i]
    BY <1>1
  <2>2. QED
    BY <1>1, <1>2, <2>1, SeqEqual
<1>6. QED
  BY <1>3, <1>4, <1>5

LEMMA JoinOf2 ==
  ASSUME NEW a, NEW b, NEW c, NEW d
  PROVE  <<a, b>> \o <<c, d>> = <<a, b, c, d>>
<1> DEFINE S == {a, b, c, d}
<1>1. <<a, b>> \in Seq(S) /\ <<c, d>> \in Seq(S) /\ <<a, b, c, d>> \in Seq(S)
  OBVIOUS
<1>2. Len(<<a, b>> \o <<c, d>>) = 4 /\ \A i \in 1..4 : (<<a, b>> \o <<c, d>>)[i] = <<a, b, c, d>>[i]
  BY <1>1
<1>3. <<a, b>> \o <<c, d>> \in Seq(S)
  BY <1>1
<1>4. QED
  BY <1>1, <1>2, <1>3, SeqEqual

-----------------------------------------------------------------------------
(* Tables, which are sequences of rows *)

\* A sequence with other elements.
LEMMA RowsChange ==
  ASSUME NEW S, NEW T, NEW q \in Seq(S), NEW f, f = [i \in DOMAIN q |-> f[i]],
         \A i \in DOMAIN q : f[i] \in T
  PROVE  /\ f \in Seq(T) /\ Len(f) = Len(q) /\ DOMAIN f = DOMAIN q /\ DOMAIN q = 1..Len(q)
         /\ Len(q) \in Nat
<1>1. Len(q) \in Nat /\ DOMAIN q = 1..Len(q)
  OBVIOUS
<1>2. f \in [1..Len(q) -> T]
  BY <1>1
<1>3. f \in Seq(T) /\ Len(f) = Len(q)
  BY <1>1, <1>2, IsASeq, LenProperties
<1>4. QED
  BY <1>1, <1>2, <1>3

\* A row is added at the end.
LEMMA RowAdded ==
  ASSUME NEW S, NEW q \in Seq(S), NEW v \in S
  PROVE  /\ Append(q, v) \in Seq(S) /\ Len(Append(q, v)) = Len(q) + 1 /\ Len(q) \in Nat
         /\ DOMAIN q = 1..Len(q) /\ DOMAIN Append(q, v) = 1..Len(q) + 1
         /\ DOMAIN Append(q, v) = DOMAIN q \cup {Len(q) + 1} /\ Len(q) + 1 \notin DOMAIN q
         /\ \A i \in DOMAIN q : Append(q, v)[i] = q[i]
         /\ Append(q, v)[Len(q) + 1] = v
<1>1. /\ Append(q, v) \in Seq(S) /\ Len(Append(q, v)) = Len(q) + 1 /\ Len(q) \in Nat
      /\ DOMAIN q = 1..Len(q) /\ DOMAIN Append(q, v) = 1..Len(q) + 1
  OBVIOUS
<1>2. \A i \in DOMAIN q : Append(q, v)[i] = q[i]
  BY <1>1
<1>3. Append(q, v)[Len(q) + 1] = v
  OBVIOUS
<1>4. 1..Len(q) + 1 = 1..Len(q) \cup {Len(q) + 1} /\ Len(q) + 1 \notin 1..Len(q)
  BY <1>1
<1>5. QED
  BY <1>1, <1>2, <1>3, <1>4

-----------------------------------------------------------------------------
(* Positions *)

LEMMA EndsTail ==
  ASSUME NEW q, NEW labels, Program(q), q # <<>>, Ends(q, labels)
  PROVE  Ends(Tail(q), labels) /\ (q[1][1] \in labels => Tail(q) = <<>> /\ Steps(q) = {q[1]})
<1>1. /\ \A i \in DOMAIN Tail(q) : i + 1 \in DOMAIN q /\ Tail(q)[i] = q[i + 1]
      /\ Len(q) \in Nat \ {0} /\ Len(Tail(q)) = Len(q) - 1
      /\ DOMAIN q = 1..Len(q) /\ DOMAIN Tail(q) = 1..Len(Tail(q))
      /\ Program(Tail(q)) /\ 1 \in DOMAIN q /\ Steps(q) = {q[1]} \cup Steps(Tail(q))
  BY ProgramTail
<1>2. Ends(Tail(q), labels)
  <2>1. ASSUME NEW i \in DOMAIN Tail(q), Tail(q)[i][1] \in labels PROVE i = Len(Tail(q))
    <3>1. i + 1 = Len(q)
      BY <1>1, <2>1 DEF Ends
    <3>2. QED
      BY <1>1, <3>1, <2>1
  <2>2. QED
    BY <2>1 DEF Ends
<1>3. ASSUME q[1][1] \in labels PROVE Tail(q) = <<>> /\ Steps(Tail(q)) = {}
  <2>1. Len(Tail(q)) = 0
    BY <1>1, <1>3 DEF Ends
  <2>2. Tail(q) = <<>>
    BY <2>1, <1>1 DEF Program
  <2>3. QED
    BY <2>2, NoProgram
<1>4. QED
  BY <1>1, <1>2, <1>3

LEMMA EndsJoin ==
  ASSUME NEW p, NEW q, NEW labels, Program(p), Program(q), Ends(q, labels),
         \A x \in Steps(p) : x[1] \notin labels
  PROVE  Ends(p \o q, labels)
<1>1. /\ Len(p) \in Nat /\ Len(q) \in Nat /\ Len(p \o q) = Len(p) + Len(q)
      /\ DOMAIN p = 1..Len(p) /\ DOMAIN q = 1..Len(q) /\ DOMAIN (p \o q) = 1..Len(p) + Len(q)
      /\ \A i \in 1..Len(p) + Len(q) : (p \o q)[i] = IF i <= Len(p) THEN p[i] ELSE q[i - Len(p)]
  BY ProgramJoin
<1>2. ASSUME NEW i \in DOMAIN (p \o q), (p \o q)[i][1] \in labels PROVE i = Len(p \o q)
  <2>1. ~(i <= Len(p))
    <3>1. ASSUME i <= Len(p) PROVE FALSE
      <4>1. i \in DOMAIN p /\ (p \o q)[i] = p[i]
        BY <1>1, <1>2, <3>1
      <4>2. QED
        BY <4>1, <1>2 DEF Steps
    <3>2. QED
      BY <3>1
  <2>2. i - Len(p) \in DOMAIN q /\ (p \o q)[i] = q[i - Len(p)]
    BY <1>1, <1>2, <2>1
  <2>3. i - Len(p) = Len(q)
    BY <2>2, <1>2 DEF Ends
  <2>4. QED
    BY <2>3, <1>1, <1>2
<1>3. QED
  BY <1>2 DEF Ends

\* A program none of whose steps has one of the labels, but perhaps the last.
LEMMA EndsPlain ==
  ASSUME NEW q, NEW labels, \A x \in Steps(q) : x[1] \notin labels
  PROVE  Ends(q, labels)
BY DEF Ends, Steps

-----------------------------------------------------------------------------
(* Steps *)

LEMMA GoesOn ==
  ASSUME Proper, NEW r \in Requests, NEW todo, NEW got, Program(todo), Goes(r, todo, got)
  PROVE  /\ Proper' /\ Elsewhere(r) /\ req'[r].todo = todo
         /\ req'[r] = IF todo = <<>> THEN Idle
                      ELSE [op |-> req[r].op, about |-> req[r].about, todo |-> todo, got |-> got]
         /\ UNCHANGED <<mix, calls, faults, contended>>
<1>1. /\ req' = [req EXCEPT ![r] = IF todo = <<>> THEN Idle
                                   ELSE [req[r] EXCEPT !.todo = todo, !.got = got]]
      /\ UNCHANGED <<mix, calls, faults, contended>>
  BY DEF Goes
<1>2. Elsewhere(r)
  BY <1>1 DEF Proper, Elsewhere
<1>3. req'[r] = IF todo = <<>> THEN Idle ELSE [req[r] EXCEPT !.todo = todo, !.got = got]
  BY <1>1 DEF Proper
<1>4. req[r] = [op |-> req[r].op, about |-> req[r].about, todo |-> req[r].todo, got |-> req[r].got]
  BY DEF Proper
<1>5. todo # <<>> => req'[r] = [op |-> req[r].op, about |-> req[r].about, todo |-> todo, got |-> got]
  BY <1>3, <1>4
<1>6. req'[r].todo = todo
  BY <1>3, <1>5 DEF Idle
<1>7. Proper'
  <2>1. req' = [q \in Requests |-> req'[q]]
    BY <1>1 DEF Proper
  <2>2. ASSUME NEW q \in Requests
        PROVE  /\ req'[q] = [op |-> req'[q].op, about |-> req'[q].about, todo |-> req'[q].todo,
                             got |-> req'[q].got]
               /\ Program(req'[q].todo)
    <3>1. CASE q = r
      BY <1>3, <1>5, <1>6, <3>1 DEF Idle
    <3>2. CASE q # r
      BY <1>2, <3>2 DEF Proper, Elsewhere
    <3>3. QED
      BY <3>1, <3>2
  <2>3. QED
    BY <2>1, <2>2 DEF Proper
<1>8. QED
  BY <1>1, <1>2, <1>3, <1>5, <1>6, <1>7

LEMMA Does ==
  ASSUME Proper, NEW r \in Requests, req[r].todo # <<>>, NEW more, Program(more), NEW got,
         Goes(r, more \o Tail(req[r].todo), got)
  PROVE  /\ Proper' /\ Went(r, more) /\ contended' = contended
         /\ req'[r] # Idle => req'[r].about = req[r].about /\ req'[r].got = got
         /\ Left(r)' = Steps(more) \cup Steps(Tail(req[r].todo))
         /\ Left(r) = {req[r].todo[1]} \cup Steps(Tail(req[r].todo))
<1> DEFINE todo == more \o Tail(req[r].todo)
<1>1. Program(req[r].todo)
  BY DEF Proper
<1>2. Program(Tail(req[r].todo)) /\ Steps(req[r].todo) = {req[r].todo[1]} \cup Steps(Tail(req[r].todo))
  BY <1>1, ProgramTail
<1>3. Program(todo) /\ Steps(todo) = Steps(more) \cup Steps(Tail(req[r].todo))
  BY <1>2, ProgramJoin
<1> HIDE DEF todo
<1>4. Goes(r, todo, got)
  BY DEF todo
<1>5. /\ Proper' /\ Elsewhere(r) /\ req'[r].todo = todo
      /\ req'[r] = IF todo = <<>> THEN Idle
                   ELSE [op |-> req[r].op, about |-> req[r].about, todo |-> todo, got |-> got]
      /\ UNCHANGED <<mix, calls, faults, contended>>
  BY <1>3, <1>4, GoesOn
<1>6. Went(r, more)
  <2>1. ASSUME req'[r] # Idle PROVE req'[r].op = req[r].op /\ req[r].about \subseteq req'[r].about
    BY <1>5, <2>1
  <2>2. QED
    BY <1>5, <2>1 DEF Went, todo
<1>7. QED
  BY <1>2, <1>3, <1>5, <1>6 DEF Left

LEMMA Continues ==
  ASSUME Proper, NEW r \in Requests, req[r].todo # <<>>, NEW got, Goes(r, Tail(req[r].todo), got)
  PROVE  /\ Proper' /\ Went(r, <<>>) /\ contended' = contended
         /\ req'[r].todo = Tail(req[r].todo)
         /\ req'[r] # Idle => req'[r].about = req[r].about /\ req'[r].got = got
         /\ Left(r)' = Steps(Tail(req[r].todo))
         /\ Left(r) = {req[r].todo[1]} \cup Left(r)'
<1>1. Program(Tail(req[r].todo))
  BY ProgramTail DEF Proper
<1>2. <<>> \o Tail(req[r].todo) = Tail(req[r].todo) /\ Program(<<>>) /\ Steps(<<>>) = {}
  BY <1>1, NoProgram
<1>3. Goes(r, <<>> \o Tail(req[r].todo), got)
  BY <1>2
<1>4. /\ Proper' /\ Went(r, <<>>) /\ contended' = contended
      /\ req'[r] # Idle => req'[r].about = req[r].about /\ req'[r].got = got
      /\ Left(r)' = Steps(<<>>) \cup Steps(Tail(req[r].todo))
      /\ Left(r) = {req[r].todo[1]} \cup Steps(Tail(req[r].todo))
  BY <1>2, <1>3, Does
<1>5. req'[r].todo = Tail(req[r].todo)
  BY <1>2, <1>4 DEF Went
<1>6. QED
  BY <1>2, <1>4, <1>5

LEMMA Throws ==
  ASSUME Proper, NEW r \in Requests, Throw(r)
  PROVE  Proper' /\ Thrown(r) /\ contended' = contended /\ req'[r].todo = <<>> /\ Left(r)' = {}
<1>1. Goes(r, <<>>, <<>>) /\ Program(<<>>) /\ Steps(<<>>) = {}
  BY NoProgram DEF Throw
<1>2. /\ Proper' /\ Elsewhere(r) /\ req'[r].todo = <<>> /\ req'[r] = Idle
      /\ UNCHANGED <<mix, calls, faults, contended>>
  BY <1>1, GoesOn
<1>3. QED
  BY <1>1, <1>2 DEF Thrown, Left

\* A request starts in a slot that is free.
LEMMA Starts ==
  ASSUME Proper, NEW r \in Requests, NEW op, NEW about, NEW program, Program(program),
         Start(r, op, about, program)
  PROVE  /\ Proper' /\ Elsewhere(r) /\ req[r] = Idle /\ Left(r) = {} /\ Left(r)' = Steps(program)
         /\ req'[r] = [op |-> op, about |-> about, todo |-> program, got |-> <<>>]
         /\ contended' = contended \cup (about \cap Others(r)) /\ UNCHANGED <<mix, faults>>
<1>1. /\ req[r] = Idle
      /\ req' = [req EXCEPT ![r] = [op |-> op, about |-> about, todo |-> program, got |-> <<>>]]
      /\ contended' = contended \cup (about \cap Others(r)) /\ UNCHANGED <<mix, faults>>
  BY DEF Start
<1>2. Elsewhere(r)
  BY <1>1 DEF Proper, Elsewhere
<1>3. req'[r] = [op |-> op, about |-> about, todo |-> program, got |-> <<>>]
  BY <1>1 DEF Proper
<1>4. Left(r) = {}
  BY <1>1, NoProgram DEF Left, Idle
<1>5. Left(r)' = Steps(program)
  BY <1>3 DEF Left
<1>6. Proper'
  <2>1. req' = [q \in Requests |-> req'[q]]
    BY <1>1 DEF Proper
  <2>2. ASSUME NEW q \in Requests
        PROVE  /\ req'[q] = [op |-> req'[q].op, about |-> req'[q].about, todo |-> req'[q].todo,
                             got |-> req'[q].got]
               /\ Program(req'[q].todo)
    <3>1. CASE q = r
      BY <1>3, <3>1
    <3>2. CASE q # r
      BY <1>2, <3>2 DEF Proper, Elsewhere
    <3>3. QED
      BY <3>1, <3>2
  <2>3. QED
    BY <2>1, <2>2 DEF Proper
<1>7. QED
  BY <1>1, <1>2, <1>3, <1>4, <1>5, <1>6

\* A request that fails is over.
LEMMA Faults ==
  ASSUME Proper, NEW r \in Requests, Fault(r)
  PROVE  /\ Proper' /\ Elsewhere(r) /\ req'[r] = Idle /\ req'[r].todo = <<>> /\ Left(r)' = {}
         /\ contended' = contended \cup req[r].about /\ faults < mix.faults /\ faults' = faults + 1
         /\ UNCHANGED <<mix, calls>>
<1>1. /\ req' = [req EXCEPT ![r] = Idle] /\ faults < mix.faults /\ faults' = faults + 1
      /\ contended' = contended \cup req[r].about /\ UNCHANGED <<mix, calls>>
  BY DEF Fault
<1>2. Elsewhere(r)
  BY <1>1 DEF Proper, Elsewhere
<1>3. req'[r] = Idle
  BY <1>1 DEF Proper
<1>4. req'[r].todo = <<>> /\ Left(r)' = {}
  BY <1>3, NoProgram DEF Left, Idle
<1>5. Proper'
  <2>1. req' = [q \in Requests |-> req'[q]]
    BY <1>1 DEF Proper
  <2>2. ASSUME NEW q \in Requests
        PROVE  /\ req'[q] = [op |-> req'[q].op, about |-> req'[q].about, todo |-> req'[q].todo,
                             got |-> req'[q].got]
               /\ Program(req'[q].todo)
    <3>1. CASE q = r
      BY <1>3, <1>4, <3>1, NoProgram DEF Idle
    <3>2. CASE q # r
      BY <1>2, <3>2 DEF Proper, Elsewhere
    <3>3. QED
      BY <3>1, <3>2
  <2>3. QED
    BY <2>1, <2>2 DEF Proper
<1>6. QED
  BY <1>1, <1>2, <1>3, <1>4, <1>5

LEMMA NoneYet == ASSUME HandlersInit PROVE Proper /\ \A r \in Requests : req[r] = Idle /\ Left(r) = {}
<1>1. req = [r \in Requests |-> Idle]
  BY DEF HandlersInit
<1>2. QED
  BY <1>1, NoProgram DEF Proper, Left, Idle

-----------------------------------------------------------------------------
(* Subjects *)

\* Two requests in flight are about the same subject only if that is noted.
Apart == \A r, q \in Requests : r # q => req[r].about \cap req[q].about \subseteq contended

LEMMA ApartWhenDone ==
  ASSUME Proper, Apart, NEW r \in Requests, Elsewhere(r), contended \subseteq contended',
         req'[r].about \subseteq req[r].about
  PROVE  Apart'
BY DEF Apart, Elsewhere

LEMMA ApartWhenMore ==
  ASSUME Proper, Apart, NEW r \in Requests, Elsewhere(r), NEW more,
         req'[r].about \subseteq req[r].about \cup more,
         contended \cup (more \cap Others(r)) \subseteq contended'
  PROVE  Apart'
<1>1. \A q \in Requests \ {r} : req'[q].about = req[q].about /\ req[q].about \subseteq Others(r)
  BY DEF Elsewhere, Others
<1>2. QED
  BY <1>1 DEF Apart, Elsewhere
=============================================================================
