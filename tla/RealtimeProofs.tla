--------------------------- MODULE RealtimeProofs ---------------------------
(***************************************************************************)
(* What the gateway, the chat and the notifications keep for any number of  *)
(* users, sockets, requests and failures: the types of their tables, and    *)
(* what is promised of the notifications and of the devices, whatever is    *)
(* handled in between: texts and deliveries; nothing is there twice that no *)
(* two requests raced for; and every message that is sent reaches the other *)
(* participant, in the room or by a notification, unless a deletion or a    *)
(* failure comes in between.                                                 *)
(***************************************************************************)
EXTENDS Realtime, HandlersProofs, DataInduction, FiniteSetTheorems

-----------------------------------------------------------------------------
(* The inductive invariant of the types *)

\* Of what the steps of the worker and of the listener are about.
AboutNotification == {"ifOnline", "record", "send", "enqueue", "push", "multicast", "telegram", "complete"}

SignalTypes == BookingTypes \cup {"REVIEW_NEW", "MESSAGE_NEW"}

\* The arguments of a step that is left are what its action expects.
StepOK(x) ==
  /\ x[1] \in {"join", "leave"} => x[2] \in Sockets
  /\ x[1] \in {"setOnline", "tellStatus"} => x[3] \in BOOLEAN
  /\ x[1] = "enter" => x[3] \in DOMAIN conversation
  /\ x[1] = "insert" =>
       x[2] \in Sockets /\ x[3] \in DOMAIN conversation /\ x[4] = SocketUser[x[2]]
  /\ x[1] = "touch" => Sent(x[2]) # {}
  /\ x[1] = "emitNew" =>
       /\ x[2] \in Sockets /\ x[3] \in DOMAIN conversation /\ x[4] = SocketUser[x[2]]
       /\ x[5] \in DOMAIN message /\ message[x[5]].conv = x[3] /\ message[x[5]].sender = x[4]
  /\ x[1] = "store" =>
       /\ x[2] \in Users \cup {NoUser} /\ x[3] \in SignalTypes /\ x[4] \in 0..Len(message)
       /\ x[3] = "REVIEW_NEW" => x[2] = NoUser
  /\ x[1] \in AboutNotification => x[2] \in DOMAIN notification
  /\ x[1] \in {"record", "send", "multicast"} => x[3] \in Channels
  /\ x[1] \in {"findDevice", "saveDevice"} => x[2] \in Users /\ x[3] \in Devices /\ x[4] \in Tokens
  /\ x[1] \in {"mayTalk", "findExisting", "createConversation"} =>
       x[2] \in Speakers /\ x[3] \in Speakers /\ x[4] \in Topics \cup {NoTopic}
  /\ x[1] = "createConversation" => x[2] # x[3]

\* What is checked or read for the last step of a program is checked or read before.
Guarded == {"insert", "findExisting", "setLast"}
Before(y, x) ==
  \/ x[1] = "insert" /\ y[1] = "access" /\ y[2] = x[3] /\ y[3] = x[4]
  \/ x[1] = "findExisting" /\ y[1] = "mayTalk" /\ y[2] = x[2] /\ y[3] = x[3]
  \/ x[1] = "setLast" /\ y[1] = "readNewLast"
Ready(r, x) ==
  /\ x[1] = "insert" => x[4] \in Participants(x[3])
  /\ x[1] = "findExisting" => x[2] # x[3]
  /\ x[1] = "setLast" =>
       "newLast" \in DOMAIN req[r].got /\ req[r].got["newLast"] \in SUBSET (1..Len(message))

\* The steps that come last in a program.
Final == {"insert", "emitNew", "store", "findExisting", "setLast", "saveDevice", "delete", "restore"}

ReqOK(r) ==
  /\ \A x \in Left(r) : StepOK(x)
  /\ \A x \in Left(r) : Ready(r, x) \/ \E y \in Left(r) : Before(y, x)
  /\ Ends(req[r].todo, Final)

OfTwo == \A c \in DOMAIN conversation : conversation[c].pair[1] # conversation[c].pair[2]

NotificationRow ==
  [user: Users, type: SignalTypes, about: Nat, read: BOOLEAN,
   job: {"none", "waiting", "active", "done", "failed"}, tries: Nat,
   recorded: [Channels -> Nat], sent: [Channels -> Nat]]

PresenceOK ==
  /\ connected \subseteq Sockets /\ timers \in [Users -> {"none", "set", "fired"}]
  /\ orphans \in [Users -> Nat] /\ online \in [Users -> BOOLEAN] /\ told \in [Users -> BOOLEAN]
RoomsOK == rooms \subseteq connected \X DOMAIN conversation
ChatOK ==
  /\ conversation \in Seq(ConversationRow) /\ message \in Seq(MessageRow(DOMAIN conversation))
  /\ SentByParticipants /\ OfTwo
NoticesOK ==
  /\ notification \in Seq(NotificationRow)
  /\ \A n \in DOMAIN notification : notification[n].about \in 0..Len(message)
DevicesOK == device \in Seq(DeviceRow)
CallsOK == mix \in Mixes /\ calls \in 0..mix.calls /\ faults \in 0..mix.faults

ReqsOK == Proper /\ CallsOK /\ \A r \in Requests : ReqOK(r)
TypesInv == ReqsOK /\ PresenceOK /\ RoomsOK /\ ChatOK /\ NoticesOK /\ DevicesOK

\* No row of a table goes, and what a row is about stays.
Grows ==
  /\ DOMAIN conversation \subseteq DOMAIN conversation'
  /\ \A c \in DOMAIN conversation : conversation'[c].pair = conversation[c].pair
  /\ DOMAIN message \subseteq DOMAIN message' /\ 0..Len(message) \subseteq 0..Len(message')
  /\ \A m \in DOMAIN message :
       message'[m].conv = message[m].conv /\ message'[m].sender = message[m].sender
  /\ DOMAIN notification \subseteq DOMAIN notification'

-----------------------------------------------------------------------------
(* Requests *)

LEMMA StepGrows == ASSUME Grows, NEW x, StepOK(x) PROVE StepOK(x)'
<1>1. x[1] = "touch" => Sent(x[2])' # {}
  BY DEF StepOK, Grows, Sent
<1>2. 0..Len(message) \subseteq 0..Len(message')
  BY DEF Grows
<1>3. QED
  BY <1>1, <1>2 DEF StepOK, Grows

LEMMA OthersOK ==
  ASSUME Proper, NEW r \in Requests, \A q \in Requests : ReqOK(q), Grows, Elsewhere(r)
  PROVE  \A q \in Requests \ {r} : ReqOK(q)'
<1> SUFFICES ASSUME NEW q \in Requests \ {r} PROVE ReqOK(q)'
  OBVIOUS
<1>1. req'[q] = req[q] /\ Left(q)' = Left(q)
  BY DEF Elsewhere, Left
<1>2. \A x \in Left(q) : StepOK(x)'
  BY StepGrows DEF ReqOK
<1>3. \A x \in Left(q) : x[1] = "insert" => x[3] \in DOMAIN conversation
  BY DEF ReqOK, StepOK
<1>4. \A x \in Left(q) : Ready(q, x) => Ready(q, x)'
  BY <1>1, <1>3 DEF Ready, Grows, Participants
<1>5. QED
  BY <1>1, <1>2, <1>4 DEF ReqOK

LEMMA EndedOK ==
  ASSUME Proper, NEW r \in Requests, \A q \in Requests : ReqOK(q), Grows, Elsewhere(r), req'[r] = Idle
  PROVE  \A q \in Requests : ReqOK(q)'
<1>1. req'[r].todo = <<>> /\ Left(r)' = {}
  BY NoProgram DEF Left, Idle
<1>2. ReqOK(r)'
  BY <1>1 DEF ReqOK, Ends
<1>3. QED
  BY <1>2, OthersOK

LEMMA StartedOK ==
  ASSUME Proper, NEW r \in Requests, \A q \in Requests : ReqOK(q), Grows, Elsewhere(r),
         \A x \in Left(r)' : StepOK(x)',
         \A x \in Left(r)' : x[1] \in Guarded => \E y \in Left(r)' : Before(y, x),
         Ends(req'[r].todo, Final)
  PROVE  \A q \in Requests : ReqOK(q)'
<1>1. \A x \in Left(r)' : x[1] \notin Guarded => Ready(r, x)'
  BY DEF Ready, Guarded
<1>2. ReqOK(r)'
  BY <1>1 DEF ReqOK
<1>3. QED
  BY <1>2, OthersOK

\* What the request r has read of the kind k stays, or is a set of messages that it reads now.
Keeps(r, k) ==
  req'[r] # Idle /\ k \in DOMAIN req[r].got =>
    /\ k \in DOMAIN req'[r].got
    /\ req'[r].got[k] = req[r].got[k] \/ req'[r].got[k] \in SUBSET (1..Len(message'))

LEMMA AdvancedOK ==
  ASSUME Proper, Proper', NEW r \in Requests, \A q \in Requests : ReqOK(q), Grows,
         req[r].todo # <<>>, NEW more, Program(more), Went(r, more),
         NEW h, h = req[r].todo[1],
         Keeps(r, "newLast"),
         \A x \in Left(r) : Before(h, x) => Ready(r, x)',
         \A x \in Steps(more) : StepOK(x)' /\ x[1] \notin Guarded,
         \/ \A x \in Steps(more) : x[1] \notin Final
         \/ h[1] \in Final /\ Ends(more, Final)
  PROVE  \A q \in Requests : ReqOK(q)'
<1> DEFINE tail == Tail(req[r].todo)
<1>1. Program(req[r].todo)
  BY DEF Proper
<1>2. Program(tail) /\ Left(r) = {h} \cup Steps(tail) /\ h \in Left(r)
  BY <1>1, ProgramTail DEF Left
<1>3. req'[r].todo = more \o tail
  BY DEF Went
<1>4. Left(r)' = Steps(more) \cup Steps(tail)
  BY <1>2, <1>3, ProgramJoin DEF Left
<1>5. Ends(tail, Final) /\ (h[1] \in Final => tail = <<>>)
  BY <1>1, EndsTail DEF ReqOK
<1>6. Ends(req'[r].todo, Final)
  <2>1. CASE \A x \in Steps(more) : x[1] \notin Final
    BY <1>2, <1>3, <1>5, <2>1, EndsJoin
  <2>2. CASE h[1] \in Final /\ Ends(more, Final)
    <3>1. more \o <<>> = more
      BY DEF Program
    <3>2. QED
      BY <1>3, <1>5, <2>2, <3>1
  <2>3. QED
    BY <2>1, <2>2
<1> HIDE DEF tail
<1>7. \A x \in Left(r)' : StepOK(x)'
  BY <1>2, <1>4, StepGrows DEF ReqOK
<1>8. ASSUME NEW x \in Left(r)' PROVE Ready(r, x)' \/ \E y \in Left(r)' : Before(y, x)
  <2>1. CASE x \in Steps(more)
    BY <2>1 DEF Guarded, Ready
  <2>2. CASE x \in Steps(tail)
    <3>1. Ready(r, x) \/ \E y \in Left(r) : Before(y, x)
      BY <1>2, <2>2 DEF ReqOK
    <3>2. CASE \E y \in Left(r) : Before(y, x)
      <4>1. PICK y \in Left(r) : Before(y, x)
        BY <3>2
      <4>2. CASE y = h
        BY <4>1, <4>2, <1>2, <2>2
      <4>3. CASE y # h
        BY <4>1, <4>3, <1>2, <1>4
      <4>4. QED
        BY <4>2, <4>3
    <3>3. CASE Ready(r, x)
      <4>1. req'[r] # Idle
        <5>1. ASSUME req'[r] = Idle PROVE Left(r)' = {}
          BY <5>1, NoProgram DEF Left, Idle
        <5>2. QED
          BY <5>1, <1>8
      <4>2. x[1] = "insert" => x[3] \in DOMAIN conversation
        BY <1>2, <2>2 DEF ReqOK, StepOK
      <4>3. x[1] = "insert" => (x[4] \in Participants(x[3]))'
        BY <4>2, <3>3 DEF Ready, Grows, Participants
      <4>4. x[1] = "setLast" =>
              "newLast" \in DOMAIN req'[r].got /\ req'[r].got["newLast"] \in SUBSET (1..Len(message'))
        <5>1. 1..Len(message) \subseteq 1..Len(message')
          <6>1. ASSUME NEW k \in 1..Len(message) PROVE k \in 1..Len(message')
            <7>1. k \in 0..Len(message) /\ k \in Int /\ 1 <= k
              BY <6>1
            <7>2. k \in 0..Len(message')
              BY <7>1 DEF Grows
            <7>3. QED
              BY <7>1, <7>2
          <6>2. QED
            BY <6>1
        <5>2. QED
          BY <5>1, <4>1, <3>3 DEF Ready, Keeps
      <4>5. QED
        BY <4>3, <4>4, <3>3 DEF Ready
    <3>4. QED
      BY <3>1, <3>2, <3>3
  <2>3. QED
    BY <1>4, <2>1, <2>2, <1>8
<1>9. ReqOK(r)'
  BY <1>6, <1>7, <1>8 DEF ReqOK
<1>10. QED
  BY <1>9, OthersOK DEF Went

\* The steps after which a guarded step is ready.
Guards == {"access", "mayTalk", "readNewLast"}

LEMMA HeadOK ==
  ASSUME Proper, NEW r \in Requests, ReqOK(r), req[r].todo # <<>>
  PROVE  /\ req[r].todo[1] \in Left(r) /\ StepOK(req[r].todo[1])
         /\ req[r].todo[1][1] \in Guarded => Ready(r, req[r].todo[1])
<1> DEFINE h == req[r].todo[1]
<1>1. Program(req[r].todo)
  BY DEF Proper
<1>2. h \in Left(r) /\ StepOK(h)
  BY <1>1, ProgramTail DEF Left, ReqOK
<1>3. ASSUME h[1] \in Guarded PROVE Left(r) = {h}
  <2>1. h[1] \in Final
    BY <1>3 DEF Guarded, Final
  <2>2. QED
    BY <1>1, <2>1, EndsTail DEF ReqOK, Left
<1> HIDE DEF h
<1>4. ~Before(h, h)
  BY DEF Before
<1>5. h[1] \in Guarded => Ready(r, h)
  BY <1>2, <1>3, <1>4 DEF ReqOK
<1>6. QED
  BY <1>2, <1>5 DEF h

LEMMA ThrowOK ==
  ASSUME ReqsOK, Grows, NEW r \in Requests, Throw(r)
  PROVE  ReqsOK'
<1>1. Proper' /\ Thrown(r)
  BY Throws DEF ReqsOK
<1>2. \A q \in Requests : ReqOK(q)'
  BY <1>1, EndedOK DEF Thrown, ReqsOK
<1>3. CallsOK'
  BY <1>1 DEF Thrown, ReqsOK, CallsOK
<1>4. QED
  BY <1>1, <1>2, <1>3 DEF ReqsOK

LEMMA FaultOK ==
  ASSUME ReqsOK, Grows, NEW r \in Requests, Fault(r)
  PROVE  ReqsOK'
<1>1. /\ Proper' /\ Elsewhere(r) /\ req'[r] = Idle
      /\ faults < mix.faults /\ faults' = faults + 1 /\ UNCHANGED <<mix, calls>>
  BY Faults DEF ReqsOK
<1>2. \A q \in Requests : ReqOK(q)'
  BY <1>1, EndedOK DEF ReqsOK
<1>3. CallsOK'
  BY <1>1, HandlersAssumption DEF ReqsOK, CallsOK
<1>4. QED
  BY <1>1, <1>2, <1>3 DEF ReqsOK

LEMMA StartOK ==
  ASSUME ReqsOK, Grows, NEW r \in Requests,
         NEW op, NEW about, NEW program, Program(program), Start(r, op, about, program),
         calls' = calls \/ calls' \in 0..mix.calls,
         \A x \in Steps(program) : StepOK(x)',
         \A x \in Steps(program) : x[1] \in Guarded => \E y \in Steps(program) : Before(y, x),
         Ends(program, Final)
  PROVE  ReqsOK'
<1>1. /\ Proper' /\ Elsewhere(r) /\ Left(r)' = Steps(program) /\ UNCHANGED <<mix, faults>>
      /\ req'[r] = [op |-> op, about |-> about, todo |-> program, got |-> <<>>]
  BY Starts DEF ReqsOK
<1>2. req'[r].todo = program
  BY <1>1
<1>3. \A q \in Requests : ReqOK(q)'
  BY <1>1, <1>2, StartedOK DEF ReqsOK
<1>4. CallsOK'
  BY <1>1 DEF ReqsOK, CallsOK
<1>5. QED
  BY <1>1, <1>3, <1>4 DEF ReqsOK

LEMMA BeginOK ==
  ASSUME ReqsOK, Grows, NEW r \in Requests,
         NEW op, NEW about, NEW program, Program(program), Begin(r, op, about, program),
         \A x \in Steps(program) : StepOK(x)',
         \A x \in Steps(program) : x[1] \in Guarded => \E y \in Steps(program) : Before(y, x),
         Ends(program, Final)
  PROVE  ReqsOK'
<1>1. Start(r, op, about, program) /\ calls < mix.calls /\ calls' = calls + 1
  BY DEF Begin
<1>2. calls' \in 0..mix.calls
  BY <1>1, HandlersAssumption DEF ReqsOK, CallsOK
<1>3. QED
  BY <1>1, <1>2, StartOK

LEMMA WakeOK ==
  ASSUME ReqsOK, Grows, NEW r \in Requests,
         NEW op, NEW about, NEW program, Program(program), Wake(r, op, about, program),
         \A x \in Steps(program) : StepOK(x)' /\ x[1] \notin Guarded \cup Final
  PROVE  ReqsOK'
<1>1. Start(r, op, about, program) /\ calls' = calls
  BY DEF Wake
<1>2. Ends(program, Final)
  BY EndsPlain
<1>3. QED
  BY <1>1, <1>2, StartOK

\* The request goes on, with more to do first, having perhaps read something.
LEMMA GoOK ==
  ASSUME ReqsOK, Grows, NEW r \in Requests, Proper', req[r].todo # <<>>,
         NEW more, Program(more), Went(r, more), Keeps(r, "newLast"),
         \A x \in Left(r) : Before(req[r].todo[1], x) => Ready(r, x)',
         \A x \in Steps(more) : StepOK(x)' /\ x[1] \notin Guarded,
         \/ \A x \in Steps(more) : x[1] \notin Final
         \/ req[r].todo[1][1] \in Final /\ Ends(more, Final)
  PROVE  ReqsOK'
<1>1. \A q \in Requests : ReqOK(q)'
  BY AdvancedOK DEF ReqsOK
<1>2. CallsOK'
  BY DEF Went, ReqsOK, CallsOK
<1>3. QED
  BY <1>1, <1>2 DEF ReqsOK

LEMMA ReadOK ==
  ASSUME ReqsOK, Grows, NEW r \in Requests, req[r].todo # <<>>,
         NEW k, NEW v, Read(r, k, v), k # "newLast", req[r].todo[1][1] \notin Guards
  PROVE  ReqsOK'
<1>1. /\ Proper' /\ Went(r, <<>>)
      /\ req'[r] # Idle => req'[r].got = With(req[r].got, k, v)
  BY Continues DEF Read, ReqsOK
<1>2. Keeps(r, "newLast")
  BY <1>1 DEF Keeps, With
<1>3. \A x : ~Before(req[r].todo[1], x)
  BY DEF Before, Guards
<1>4. Program(<<>>) /\ Steps(<<>>) = {}
  BY NoProgram
<1>5. QED
  BY <1>1, <1>2, <1>3, <1>4, GoOK

\* What a guard lets pass is ready.
LEMMA PassedOK ==
  ASSUME ReqsOK, Grows, NEW r \in Requests, req[r].todo # <<>>, Continue(r),
         \A x \in Left(r) : Before(req[r].todo[1], x) => Ready(r, x)'
  PROVE  ReqsOK'
<1>1. /\ Proper' /\ Went(r, <<>>) /\ (req'[r] # Idle => req'[r].got = req[r].got)
  BY Continues DEF Continue, ReqsOK
<1>2. Keeps(r, "newLast")
  BY <1>1 DEF Keeps
<1>3. Program(<<>>) /\ Steps(<<>>) = {}
  BY NoProgram
<1>4. QED
  BY <1>1, <1>2, <1>3, GoOK

LEMMA ContinueOK ==
  ASSUME ReqsOK, Grows, NEW r \in Requests, req[r].todo # <<>>,
         Continue(r), req[r].todo[1][1] \notin Guards
  PROVE  ReqsOK'
<1>1. \A x : ~Before(req[r].todo[1], x)
  BY DEF Before, Guards
<1>2. QED
  BY <1>1, PassedOK

LEMMA DoOK ==
  ASSUME ReqsOK, Grows, NEW r \in Requests, req[r].todo # <<>>,
         NEW more, Program(more), Do(r, more), req[r].todo[1][1] \notin Guards,
         \A x \in Steps(more) : StepOK(x)' /\ x[1] \notin Guarded,
         \/ \A x \in Steps(more) : x[1] \notin Final
         \/ req[r].todo[1][1] \in Final /\ Ends(more, Final)
  PROVE  ReqsOK'
<1>1. /\ Proper' /\ Went(r, more) /\ (req'[r] # Idle => req'[r].got = req[r].got)
  BY Does DEF Do, ReqsOK
<1>2. Keeps(r, "newLast")
  BY <1>1 DEF Keeps
<1>3. \A x : ~Before(req[r].todo[1], x)
  BY DEF Before, Guards
<1>5. QED
  BY <1>1, <1>2, <1>3, GoOK

-----------------------------------------------------------------------------
(* Tables that a step leaves alone *)

LEMMA SameGrows == ASSUME UNCHANGED <<conversation, message, notification>> PROVE Grows
BY DEF Grows

LEMMA SameChat == ASSUME ChatOK, UNCHANGED <<conversation, message>> PROVE ChatOK'
BY DEF ChatOK, SentByParticipants, OfTwo, Participants

LEMMA SameNotices == ASSUME NoticesOK, UNCHANGED notification, Grows PROVE NoticesOK'
<1>1. 0..Len(message) \subseteq 0..Len(message')
  BY DEF Grows
<1>2. QED
  BY <1>1 DEF NoticesOK

LEMMA SameRooms ==
  ASSUME RoomsOK, UNCHANGED rooms, connected \subseteq connected', Grows PROVE RoomsOK'
BY DEF RoomsOK, Grows

-----------------------------------------------------------------------------
(* Presence *)

LEMMA ShowAsSteps ==
  ASSUME NEW u, NEW b \in BOOLEAN
  PROVE  /\ Program(ShowAs(u, b))
         /\ \A x \in Steps(ShowAs(u, b)) : StepOK(x)' /\ x[1] \in {"setOnline", "tellStatus"}
<1>1. Program(ShowAs(u, b)) /\ Steps(ShowAs(u, b)) = {<<"setOnline", u, b>>, <<"tellStatus", u, b>>}
  BY ProgramOf2 DEF ShowAs
<1>2. ASSUME NEW x, x = <<"setOnline", u, b>> \/ x = <<"tellStatus", u, b>>
      PROVE  StepOK(x)' /\ x[1] \in {"setOnline", "tellStatus"}
  <2>1. x[1] \in {"setOnline", "tellStatus"} /\ x[3] \in BOOLEAN
    BY <1>2
  <2>2. QED
    BY <2>1 DEF StepOK, AboutNotification
<1>3. QED
  BY <1>1, <1>2

\* A connection that opens or closes, and the status that is shown then.
LEMMA PresenceKept ==
  ASSUME TypesInv, NEW r \in Requests, PresenceSteps(r), LeaveRooms, UNCHANGED <<noticeVars, chatVars>>
  PROVE  TypesInv' /\ Grows
<1> DEFINE h == req[r].todo[1]
<1>1. Grows
  BY SameGrows DEF noticeVars, chatVars
<1>2. ReqsOK /\ Proper /\ ReqOK(r)
  BY DEF TypesInv, ReqsOK
<1>3. req[r].todo # <<>> /\ h[1] \in {"join", "leave", "setOnline", "tellStatus"}
  BY DEF PresenceSteps, HandleConnection, HandleDisconnect, UpdateOnlineStatus,
         NotifyUserStatusUpdate, At
<1>4. StepOK(h)
  BY <1>2, <1>3, HeadOK
<1>5. h[1] \notin Guards
  BY <1>3 DEF Guards
<1>6. ReqsOK' /\ PresenceOK'
  <2>1. CASE HandleConnection(r)
    <3>1. PICK more : /\ Do(r, more)
                      /\ more = <<>> \/ more = ShowAs(SocketUser[Arg(r, 1)], TRUE)
      BY <2>1 DEF HandleConnection
    <3>2. Program(more) /\ \A x \in Steps(more) : StepOK(x)' /\ x[1] \in {"setOnline", "tellStatus"}
      BY <3>1, ShowAsSteps, NoProgram
    <3>3. \A x \in Steps(more) : x[1] \notin Guarded /\ x[1] \notin Final
      BY <3>2 DEF Guarded, Final
    <3>4. ReqsOK'
      BY <1>1, <1>2, <1>3, <1>5, <3>1, <3>2, <3>3, DoOK
    <3>5. h[1] = "join" /\ connected' = connected \cup {h[2]}
      <4>1. h[1] = "join" /\ connected' = connected \cup {Arg(r, 1)}
        BY <2>1 DEF HandleConnection, At, Opens
      <4>2. QED
        BY <4>1 DEF Arg
    <3>6. h[2] \in Sockets
      BY <1>4, <3>5 DEF StepOK
    <3>7. PresenceOK'
      BY <2>1, <3>5, <3>6 DEF TypesInv, PresenceOK, HandleConnection
    <3>8. QED
      BY <3>4, <3>7
  <2>2. CASE HandleDisconnect(r)
    <3>1. ReqsOK'
      BY <1>1, <1>2, <1>3, <1>5, <2>2, ContinueOK DEF HandleDisconnect
    <3>2. PresenceOK'
      BY <2>2 DEF TypesInv, PresenceOK, HandleDisconnect
    <3>3. QED
      BY <3>1, <3>2
  <2>3. CASE UpdateOnlineStatus(r)
    <3>1. ReqsOK'
      BY <1>1, <1>2, <1>3, <1>5, <2>3, ContinueOK DEF UpdateOnlineStatus
    <3>2. h[1] = "setOnline" /\ online' = [online EXCEPT ![h[2]] = h[3]]
      BY <2>3 DEF UpdateOnlineStatus, At, Arg
    <3>3. h[3] \in BOOLEAN
      BY <1>4, <3>2 DEF StepOK
    <3>4. PresenceOK'
      BY <2>3, <3>2, <3>3 DEF TypesInv, PresenceOK, UpdateOnlineStatus
    <3>5. QED
      BY <3>1, <3>4
  <2>4. CASE NotifyUserStatusUpdate(r)
    <3>1. ReqsOK'
      BY <1>1, <1>2, <1>3, <1>5, <2>4, ContinueOK DEF NotifyUserStatusUpdate
    <3>2. h[1] = "tellStatus" /\ told' = [told EXCEPT ![h[2]] = h[3]]
      BY <2>4 DEF NotifyUserStatusUpdate, At, Arg
    <3>3. h[3] \in BOOLEAN
      BY <1>4, <3>2 DEF StepOK
    <3>4. timers' \in [Users -> {"none", "set", "fired"}] /\ orphans' \in [Users -> Nat]
      BY <2>4 DEF TypesInv, PresenceOK, NotifyUserStatusUpdate
    <3>5. PresenceOK'
      BY <2>4, <3>2, <3>3, <3>4 DEF TypesInv, PresenceOK, NotifyUserStatusUpdate
    <3>6. QED
      BY <3>1, <3>5
  <2>5. QED
    BY <2>1, <2>2, <2>3, <2>4 DEF PresenceSteps
<1>7. RoomsOK'
  BY DEF TypesInv, RoomsOK, LeaveRooms, chatVars
<1>8. ChatOK' /\ NoticesOK' /\ DevicesOK'
  BY <1>1, SameChat, SameNotices DEF TypesInv, DevicesOK, chatVars, noticeVars
<1>9. QED
  BY <1>1, <1>6, <1>7, <1>8 DEF TypesInv

LEMMA ConnectionsKept ==
  ASSUME TypesInv, NEW r \in Requests, BeginConnections(r) \/ Fire(r),
         UNCHANGED <<noticeVars, chatVars, gatewayVars>>
  PROVE  TypesInv' /\ Grows
<1>1. Grows
  BY SameGrows DEF noticeVars, chatVars
<1>2. ReqsOK
  BY DEF TypesInv
<1>3. ReqsOK' /\ PresenceOK'
  <2>1. CASE BeginConnections(r)
    <3>1. PICK s \in Sockets :
             \/ Begin(r, "connect", {SocketUser[s]}, <<<<"join", s>>>>)
             \/ Begin(r, "disconnect", {SocketUser[s]}, <<<<"leave", s>>>>)
      BY <2>1 DEF BeginConnections
    <3>2. ASSUME NEW x, x = <<"join", s>> \/ x = <<"leave", s>>
          PROVE  StepOK(x)' /\ x[1] \notin Guarded \cup Final
      <4>1. x[1] \in {"join", "leave"} /\ x[2] \in Sockets
        BY <3>2
      <4>2. QED
        BY <4>1 DEF StepOK, AboutNotification, Guarded, Final
    <3>3. ASSUME NEW x, x = <<"join", s>> \/ x = <<"leave", s>>, NEW op,
                 Begin(r, op, {SocketUser[s]}, <<x>>)
          PROVE  ReqsOK'
      <4>1. Program(<<x>>) /\ Steps(<<x>>) = {x}
        BY ProgramOf1
      <4>2. StepOK(x)' /\ x[1] \notin Guarded /\ x[1] \notin Final
        BY <3>2, <3>3
      <4>3. Ends(<<x>>, Final)
        BY <4>1, <4>2, EndsPlain
      <4>4. QED
        BY <1>1, <1>2, <3>3, <4>1, <4>2, <4>3, BeginOK
    <3>4. ReqsOK'
      BY <3>1, <3>3
    <3>5. PresenceOK'
      BY <2>1 DEF BeginConnections, presenceVars, TypesInv, PresenceOK
    <3>6. QED
      BY <3>4, <3>5
  <2>2. CASE Fire(r)
    <3>1. PICK u \in Users :
             /\ \/ timers[u] = "set" /\ timers' = [timers EXCEPT ![u] = "fired"] /\ UNCHANGED orphans
                \/ orphans[u] > 0 /\ orphans' = [orphans EXCEPT ![u] = @ - 1] /\ UNCHANGED timers
             /\ Wake(r, "timeout", {u}, ShowAs(u, FALSE))
      BY <2>2 DEF Fire
    <3>2. /\ Program(ShowAs(u, FALSE))
          /\ \A x \in Steps(ShowAs(u, FALSE)) : StepOK(x)' /\ x[1] \notin Guarded \cup Final
      BY ShowAsSteps DEF Guarded, Final
    <3>3. ReqsOK'
      BY <1>1, <1>2, <3>1, <3>2, WakeOK
    <3>4. PresenceOK'
      BY <2>2, <3>1 DEF TypesInv, PresenceOK, Fire
    <3>5. QED
      BY <3>3, <3>4
  <2>3. QED
    BY <2>1, <2>2
<1>4. connected' = connected
  BY DEF BeginConnections, Fire, presenceVars
<1>5. RoomsOK'
  BY <1>1, <1>4, SameRooms DEF TypesInv, gatewayVars
<1>6. ChatOK' /\ NoticesOK' /\ DevicesOK'
  BY <1>1, SameChat, SameNotices DEF TypesInv, DevicesOK, chatVars, noticeVars
<1>7. QED
  BY <1>1, <1>3, <1>5, <1>6 DEF TypesInv

-----------------------------------------------------------------------------
(* Rows of notifications *)

\* What a notification is about stays, ...
AsBefore(n) ==
  /\ notification'[n].user = notification[n].user /\ notification'[n].type = notification[n].type
  /\ notification'[n].about = notification[n].about
\* ... and no row but one changes.
OnlyRow(n) ==
  /\ DOMAIN notification' = DOMAIN notification
  /\ \A i \in DOMAIN notification \ {n} : notification'[i] = notification[i]
  /\ AsBefore(n)

LEMMA NoticesChange ==
  ASSUME NoticesOK, UNCHANGED message, notification' = [i \in DOMAIN notification |-> notification'[i]],
         \A i \in DOMAIN notification :
           notification'[i] \in NotificationRow /\ notification'[i].about = notification[i].about
  PROVE  NoticesOK' /\ DOMAIN notification' = DOMAIN notification
<1>1. notification' \in Seq(NotificationRow) /\ DOMAIN notification' = DOMAIN notification
  BY RowsChange DEF NoticesOK
<1>2. QED
  BY <1>1 DEF NoticesOK

\* A row is replaced.
RowBecomes(n, new) ==
  notification' = [i \in DOMAIN notification |-> IF i = n THEN new ELSE notification[i]]

LEMMA RowsTyped == ASSUME NoticesOK PROVE \A n \in DOMAIN notification : notification[n] \in NotificationRow
BY ElementOfSeq DEF NoticesOK

LEMMA RowChange ==
  ASSUME NoticesOK, UNCHANGED message, NEW n \in DOMAIN notification, NEW new \in NotificationRow,
         new.user = notification[n].user, new.type = notification[n].type,
         new.about = notification[n].about, RowBecomes(n, new)
  PROVE  NoticesOK' /\ OnlyRow(n) /\ notification'[n] = new
<1>1. /\ notification'[n] = new /\ notification' = [i \in DOMAIN notification |-> notification'[i]]
      /\ DOMAIN notification' = DOMAIN notification
      /\ \A i \in DOMAIN notification \ {n} : notification'[i] = notification[i]
  BY DEF RowBecomes
<1>2. \A i \in DOMAIN notification :
        notification'[i] \in NotificationRow /\ notification'[i].about = notification[i].about
  BY <1>1, RowsTyped
<1>3. NoticesOK'
  BY <1>1, <1>2, NoticesChange
<1>4. QED
  BY <1>1, <1>3 DEF OnlyRow, AsBefore

\* What is counted in a row, and its job.
SameRow(n) ==
  /\ notification'[n].job = notification[n].job /\ notification'[n].tries = notification[n].tries
  /\ notification'[n].recorded = notification[n].recorded
  /\ notification'[n].sent = notification[n].sent

LEMMA OthersSame == ASSUME NEW n, OnlyRow(n) PROVE \A i \in DOMAIN notification \ {n} : SameRow(i)
BY DEF OnlyRow, SameRow

\* A delivery is recorded or sent, a job is taken or moves on.
LEMMA Recorded ==
  ASSUME NoticesOK, UNCHANGED message, NEW n \in DOMAIN notification, NEW ch \in Channels,
         notification' = [notification EXCEPT ![n].recorded[ch] = @ + 1]
  PROVE  /\ NoticesOK' /\ OnlyRow(n) /\ DOMAIN notification' = DOMAIN notification
         /\ \A i \in DOMAIN notification \ {n} : SameRow(i)
         /\ notification'[n].job = notification[n].job /\ notification'[n].tries = notification[n].tries
         /\ notification'[n].sent = notification[n].sent
         /\ notification'[n].recorded = [notification[n].recorded EXCEPT ![ch] = @ + 1]
<1>1. PICK row : row = notification[n]
  OBVIOUS
<1>2. PICK new : new = [row EXCEPT !.recorded = [row.recorded EXCEPT ![ch] = @ + 1]]
  OBVIOUS
<1>3. row \in NotificationRow
  BY <1>1, RowsTyped
<1>4. new \in NotificationRow
  BY <1>2, <1>3 DEF NotificationRow
<1>5. /\ new.user = row.user /\ new.type = row.type /\ new.about = row.about
      /\ new.job = row.job /\ new.tries = row.tries /\ new.sent = row.sent
      /\ new.recorded = [row.recorded EXCEPT ![ch] = @ + 1]
  BY <1>2, <1>3 DEF NotificationRow
<1>6. RowBecomes(n, new)
  <2>1. notification = [i \in DOMAIN notification |-> notification[i]]
    BY DEF NoticesOK
  <2>2. QED
    BY <1>1, <1>2, <2>1 DEF RowBecomes
<1>7. NoticesOK' /\ OnlyRow(n) /\ notification'[n] = new
  BY <1>1, <1>4, <1>5, <1>6, RowChange
<1>8. DOMAIN notification' = DOMAIN notification
  BY <1>7 DEF OnlyRow
<1>9. QED
  BY <1>1, <1>5, <1>7, <1>8, OthersSame

LEMMA SentOnce ==
  ASSUME NoticesOK, UNCHANGED message, NEW n \in DOMAIN notification, NEW ch \in Channels,
         notification' = [notification EXCEPT ![n].sent[ch] = @ + 1]
  PROVE  /\ NoticesOK' /\ OnlyRow(n) /\ DOMAIN notification' = DOMAIN notification
         /\ \A i \in DOMAIN notification \ {n} : SameRow(i)
         /\ notification'[n].job = notification[n].job /\ notification'[n].tries = notification[n].tries
         /\ notification'[n].recorded = notification[n].recorded
         /\ notification'[n].sent = [notification[n].sent EXCEPT ![ch] = @ + 1]
<1>1. PICK row : row = notification[n]
  OBVIOUS
<1>2. PICK new : new = [row EXCEPT !.sent = [row.sent EXCEPT ![ch] = @ + 1]]
  OBVIOUS
<1>3. row \in NotificationRow
  BY <1>1, RowsTyped
<1>4. new \in NotificationRow
  BY <1>2, <1>3 DEF NotificationRow
<1>5. /\ new.user = row.user /\ new.type = row.type /\ new.about = row.about
      /\ new.job = row.job /\ new.tries = row.tries /\ new.recorded = row.recorded
      /\ new.sent = [row.sent EXCEPT ![ch] = @ + 1]
  BY <1>2, <1>3 DEF NotificationRow
<1>6. RowBecomes(n, new)
  <2>1. notification = [i \in DOMAIN notification |-> notification[i]]
    BY DEF NoticesOK
  <2>2. QED
    BY <1>1, <1>2, <2>1 DEF RowBecomes
<1>7. NoticesOK' /\ OnlyRow(n) /\ notification'[n] = new
  BY <1>1, <1>4, <1>5, <1>6, RowChange
<1>8. DOMAIN notification' = DOMAIN notification
  BY <1>7 DEF OnlyRow
<1>9. QED
  BY <1>1, <1>5, <1>7, <1>8, OthersSame

LEMMA JobMoved ==
  ASSUME NoticesOK, UNCHANGED message, NEW n \in DOMAIN notification,
         NEW job \in {"none", "waiting", "active", "done", "failed"},
         notification' = [notification EXCEPT ![n].job = job]
  PROVE  /\ NoticesOK' /\ OnlyRow(n) /\ DOMAIN notification' = DOMAIN notification
         /\ \A i \in DOMAIN notification \ {n} : SameRow(i)
         /\ notification'[n].job = job /\ notification'[n].tries = notification[n].tries
         /\ notification'[n].recorded = notification[n].recorded
         /\ notification'[n].sent = notification[n].sent
<1>1. PICK row : row = notification[n]
  OBVIOUS
<1>2. PICK new : new = [row EXCEPT !.job = job]
  OBVIOUS
<1>3. row \in NotificationRow
  BY <1>1, RowsTyped
<1>4. new \in NotificationRow
  BY <1>2, <1>3 DEF NotificationRow
<1>5. /\ new.user = row.user /\ new.type = row.type /\ new.about = row.about
      /\ new.job = job /\ new.tries = row.tries /\ new.recorded = row.recorded /\ new.sent = row.sent
  BY <1>2, <1>3 DEF NotificationRow
<1>6. RowBecomes(n, new)
  <2>1. notification = [i \in DOMAIN notification |-> notification[i]]
    BY DEF NoticesOK
  <2>2. QED
    BY <1>1, <1>2, <2>1 DEF RowBecomes
<1>7. NoticesOK' /\ OnlyRow(n) /\ notification'[n] = new
  BY <1>1, <1>4, <1>5, <1>6, RowChange
<1>8. DOMAIN notification' = DOMAIN notification
  BY <1>7 DEF OnlyRow
<1>9. QED
  BY <1>1, <1>5, <1>7, <1>8, OthersSame

LEMMA JobTaken ==
  ASSUME NoticesOK, UNCHANGED message, NEW n \in DOMAIN notification,
         notification' = [notification EXCEPT ![n].job = "active", ![n].tries = @ + 1]
  PROVE  /\ NoticesOK' /\ OnlyRow(n) /\ DOMAIN notification' = DOMAIN notification
         /\ \A i \in DOMAIN notification \ {n} : SameRow(i)
         /\ notification'[n].job = "active" /\ notification'[n].tries = notification[n].tries + 1
         /\ notification'[n].recorded = notification[n].recorded
         /\ notification'[n].sent = notification[n].sent
<1>1. PICK row : row = notification[n]
  OBVIOUS
<1>2. PICK new : new = [row EXCEPT !.job = "active", !.tries = row.tries + 1]
  OBVIOUS
<1>3. row \in NotificationRow
  BY <1>1, RowsTyped
<1>4. new \in NotificationRow
  <2>1. PICK tries : tries = row.tries + 1
    OBVIOUS
  <2>2. tries \in Nat
    BY <1>3, <2>1 DEF NotificationRow
  <2>3. new = [row EXCEPT !.job = "active", !.tries = tries]
    BY <1>2, <2>1
  <2>4. QED
    BY <1>3, <2>2, <2>3 DEF NotificationRow
<1>5. /\ new.user = row.user /\ new.type = row.type /\ new.about = row.about
      /\ new.job = "active" /\ new.tries = row.tries + 1 /\ new.recorded = row.recorded
      /\ new.sent = row.sent
  BY <1>2, <1>3 DEF NotificationRow
<1>6. RowBecomes(n, new)
  <2>1. notification = [i \in DOMAIN notification |-> notification[i]]
    BY DEF NoticesOK
  <2>2. QED
    BY <1>1, <1>2, <2>1 DEF RowBecomes
<1>7. NoticesOK' /\ OnlyRow(n) /\ notification'[n] = new
  BY <1>1, <1>4, <1>5, <1>6, RowChange
<1>8. DOMAIN notification' = DOMAIN notification
  BY <1>7 DEF OnlyRow
<1>9. QED
  BY <1>1, <1>5, <1>7, <1>8, OthersSame

-----------------------------------------------------------------------------
(* Notifications *)

\* What follows a step of the listener or of the worker.
NoticeSteps == AboutNotification \cup {"deleteDevice"}

LEMMA NoticeStepsOK ==
  ASSUME NEW x, x[1] \in AboutNotification => x[2] \in DOMAIN notification', x[1] \in NoticeSteps,
         x[1] \in {"record", "send", "multicast"} => x[3] \in Channels
  PROVE  StepOK(x)' /\ x[1] \notin Guarded /\ x[1] \notin Final /\ x[1] \notin Guards
BY DEF StepOK, NoticeSteps, AboutNotification, Guarded, Final, Guards

LEMMA NoticeAdded ==
  ASSUME NoticesOK, UNCHANGED message, NEW u \in Users, NEW type \in SignalTypes,
         NEW about \in 0..Len(message), message \in Seq(MessageRow(DOMAIN conversation)),
         notification' = Append(notification, Notification(u, type, about))
  PROVE  /\ NoticesOK' /\ Len(notification') = Len(notification) + 1 /\ Len(notification) \in Nat
         /\ DOMAIN notification = 1..Len(notification)
         /\ DOMAIN notification' = DOMAIN notification \cup {Len(notification')}
         /\ Len(notification') \notin DOMAIN notification
         /\ \A n \in DOMAIN notification : notification'[n] = notification[n]
         /\ notification'[Len(notification')] = Notification(u, type, about)
<1>1. Notification(u, type, about) \in NotificationRow /\ Notification(u, type, about).about = about
  BY DEF Notification, NotificationRow, None
<1>2. /\ notification' \in Seq(NotificationRow)
      /\ Len(notification') = Len(notification) + 1 /\ Len(notification) \in Nat
      /\ DOMAIN notification = 1..Len(notification)
      /\ DOMAIN notification' = DOMAIN notification \cup {Len(notification')}
      /\ Len(notification') \notin DOMAIN notification
      /\ \A n \in DOMAIN notification : notification'[n] = notification[n]
      /\ notification'[Len(notification')] = Notification(u, type, about)
  BY <1>1, RowAdded DEF NoticesOK
<1>3. \A n \in DOMAIN notification' : notification'[n].about \in 0..Len(message')
  BY <1>1, <1>2 DEF NoticesOK
<1>4. QED
  BY <1>2, <1>3 DEF NoticesOK

\* The listener.
LEMMA ListenerKept ==
  ASSUME TypesInv, NEW r \in Requests,
         Create(r) \/ IsOnline(r) \/ CreateDelivery(r) \/ Send(r) \/ Enqueue(r),
         UNCHANGED <<presenceVars, chatVars, gatewayVars>>
  PROVE  ReqsOK' /\ NoticesOK' /\ Grows /\ device' = device
<1> DEFINE h == req[r].todo[1]
<1>1. ReqsOK /\ Proper /\ ReqOK(r) /\ NoticesOK /\ message' = message /\ conversation' = conversation
      /\ message \in Seq(MessageRow(DOMAIN conversation))
  BY DEF TypesInv, ReqsOK, ChatOK, chatVars
<1>2. /\ req[r].todo # <<>> /\ h[1] \in {"store", "ifOnline", "record", "send", "enqueue"}
      /\ device' = device
  BY DEF Create, IsOnline, CreateDelivery, Send, Enqueue, At, noticeVars
<1>3. StepOK(h) /\ h[1] \notin Guards
  BY <1>1, <1>2, HeadOK DEF Guards
<1>4. ASSUME DOMAIN notification \subseteq DOMAIN notification' PROVE Grows
  BY <1>1, <1>4 DEF Grows
<1>5. ASSUME h[1] \in AboutNotification
      PROVE  h[2] \in DOMAIN notification /\ (h[1] \in {"record", "send"} => h[3] \in Channels)
  BY <1>3, <1>5 DEF StepOK
<1> HIDE DEF h
<1>6. Arg(r, 1) = h[2] /\ Arg(r, 2) = h[3] /\ Arg(r, 3) = h[4]
  BY DEF Arg, h
<1>7. CASE Create(r)
  <2>1. h[1] = "store"
    BY <1>7 DEF Create, At, h
  <2>2. /\ h[2] \in Users \cup {NoUser} /\ h[3] \in SignalTypes /\ h[4] \in 0..Len(message)
    BY <2>1, <1>3 DEF StepOK
  <2>3. CASE h[2] = NoUser
    <3>1. Throw(r) /\ notification' = notification
      BY <1>7, <1>6, <2>3 DEF Create
    <3>2. Grows
      BY <1>4, <3>1
    <3>3. QED
      BY <1>1, <1>2, <3>1, <3>2, ThrowOK, SameNotices
  <2>4. CASE h[2] # NoUser
    <3>0. PICK n : n = Len(notification')
      OBVIOUS
    <3> DEFINE more == <<<<"ifOnline", n>>, <<"enqueue", n>>>>
    <3>1. notification' = Append(notification, Notification(h[2], h[3], h[4])) /\ Do(r, more)
      BY <1>7, <1>6, <2>4, <3>0 DEF Create
    <3>2. NoticesOK' /\ DOMAIN notification' = DOMAIN notification \cup {n}
      BY <1>1, <2>2, <2>4, <3>0, <3>1, NoticeAdded
    <3>3. Grows
      BY <1>4, <3>2
    <3>4. Program(more) /\ Steps(more) = {<<"ifOnline", n>>, <<"enqueue", n>>}
      BY ProgramOf2
    <3>5. \A x \in Steps(more) : x[1] \in {"ifOnline", "enqueue"} /\ x[2] \in DOMAIN notification'
      BY <3>2, <3>4
    <3>6. \A x \in Steps(more) : StepOK(x)' /\ x[1] \notin Guarded /\ x[1] \notin Final
      BY <3>5, NoticeStepsOK DEF AboutNotification, NoticeSteps
    <3> HIDE DEF more
    <3>7. ReqsOK'
      BY <1>1, <1>2, <1>3, <3>1, <3>3, <3>4, <3>6, DoOK DEF h
    <3>8. QED
      BY <1>2, <3>2, <3>3, <3>7
  <2>5. QED
    BY <2>3, <2>4
<1>8. CASE IsOnline(r)
  <2>1. h[1] = "ifOnline" /\ notification' = notification
    BY <1>8 DEF IsOnline, At, h, noticeVars
  <2>2. h[2] \in DOMAIN notification /\ Grows
    BY <1>4, <1>5, <2>1 DEF AboutNotification
  <2>3. ReqsOK'
    <3> DEFINE more == <<<<"record", h[2], "WEBSOCKET">>, <<"send", h[2], "WEBSOCKET">>>>
    <3>1. Do(r, more) \/ Continue(r)
      BY <1>8, <1>6 DEF IsOnline
    <3>2. Program(more) /\ Steps(more) = {<<"record", h[2], "WEBSOCKET">>, <<"send", h[2], "WEBSOCKET">>}
      BY ProgramOf2
    <3>3. \A x \in Steps(more) :
             x[1] \in {"record", "send"} /\ x[2] \in DOMAIN notification' /\ x[3] \in Channels
      BY <2>1, <2>2, <3>2 DEF Channels
    <3>4. \A x \in Steps(more) : StepOK(x)' /\ x[1] \notin Guarded /\ x[1] \notin Final
      BY <3>3, NoticeStepsOK DEF AboutNotification, NoticeSteps
    <3> HIDE DEF more
    <3>5. CASE Do(r, more)
      BY <1>1, <1>2, <1>3, <2>2, <3>2, <3>4, <3>5, DoOK DEF h
    <3>6. CASE Continue(r)
      BY <1>1, <1>2, <1>3, <2>2, <3>6, ContinueOK DEF h
    <3>7. QED
      BY <3>1, <3>5, <3>6
  <2>4. QED
    BY <1>1, <1>2, <2>1, <2>2, <2>3, SameNotices
<1>9. CASE CreateDelivery(r) \/ Send(r) \/ Enqueue(r)
  <2>1. Continue(r) /\ h[1] \in {"record", "send", "enqueue"}
    BY <1>9 DEF CreateDelivery, Send, Enqueue, At, h
  <2>2. h[2] \in DOMAIN notification /\ (h[1] \in {"record", "send"} => h[3] \in Channels)
    BY <1>5, <2>1 DEF AboutNotification
  <2>3. NoticesOK' /\ OnlyRow(h[2])
    <3>1. CASE CreateDelivery(r)
      <4>1. h[3] \in Channels /\ notification' = [notification EXCEPT ![h[2]].recorded[h[3]] = @ + 1]
        BY <1>6, <2>2, <3>1 DEF CreateDelivery, At, h
      <4>2. PICK n, ch : n = h[2] /\ ch = h[3]
        OBVIOUS
      <4>3. /\ NoticesOK /\ message' = message /\ n \in DOMAIN notification /\ ch \in Channels
            /\ notification' = [notification EXCEPT ![n].recorded[ch] = @ + 1]
        BY <1>1, <2>2, <4>1, <4>2
      <4>4. NoticesOK' /\ OnlyRow(n)
        BY <4>3, Recorded
      <4>5. QED
        BY <4>2, <4>4
    <3>2. CASE Send(r)
      <4>1. h[3] \in Channels /\ notification' = [notification EXCEPT ![h[2]].sent[h[3]] = @ + 1]
        BY <1>6, <2>2, <3>2 DEF Send, Emitted, At, h
      <4>2. PICK n, ch : n = h[2] /\ ch = h[3]
        OBVIOUS
      <4>3. /\ NoticesOK /\ message' = message /\ n \in DOMAIN notification /\ ch \in Channels
            /\ notification' = [notification EXCEPT ![n].sent[ch] = @ + 1]
        BY <1>1, <2>2, <4>1, <4>2
      <4>4. NoticesOK' /\ OnlyRow(n)
        BY <4>3, SentOnce
      <4>5. QED
        BY <4>2, <4>4
    <3>3. CASE Enqueue(r)
      <4>1. notification' = [notification EXCEPT ![h[2]].job = "waiting"]
        BY <1>6, <3>3 DEF Enqueue
      <4>2. PICK n, job : n = h[2] /\ job = "waiting"
        OBVIOUS
      <4>3. /\ NoticesOK /\ message' = message /\ n \in DOMAIN notification
            /\ job \in {"none", "waiting", "active", "done", "failed"}
            /\ notification' = [notification EXCEPT ![n].job = job]
        BY <1>1, <2>2, <4>1, <4>2
      <4>4. NoticesOK' /\ OnlyRow(n)
        BY <4>3, JobMoved
      <4>5. QED
        BY <4>2, <4>4
    <3>4. QED
      BY <1>9, <3>1, <3>2, <3>3
  <2>4. Grows
    BY <1>4, <2>3 DEF OnlyRow
  <2>5. ReqsOK'
    BY <1>1, <1>2, <1>3, <2>1, <2>4, ContinueOK DEF h
  <2>6. QED
    BY <1>2, <2>3, <2>4, <2>5
<1>10. QED
  BY <1>7, <1>8, <1>9

\* What the worker adds to its program.
LEMMA WorkerPrograms ==
  ASSUME NEW n \in DOMAIN notification', NEW tokens, NEW more,
         \/ more = <<>>
         \/ more = <<<<"record", n, "FCM">>, <<"multicast", n, "FCM", tokens>>>>
         \/ more = <<<<"deleteDevice", Users, tokens>>>>
         \/ more = <<<<"record", n, "TG_BOT">>, <<"send", n, "TG_BOT">>>>
  PROVE  /\ Program(more)
         /\ \A x \in Steps(more) : StepOK(x)' /\ x[1] \notin Guarded /\ x[1] \notin Final
<1>1. CASE more = <<>>
  BY <1>1, NoProgram
<1>2. CASE more = <<<<"record", n, "FCM">>, <<"multicast", n, "FCM", tokens>>>>
  <2>1. Program(more) /\ Steps(more) = {<<"record", n, "FCM">>, <<"multicast", n, "FCM", tokens>>}
    BY <1>2, ProgramOf2
  <2>2. \A x \in Steps(more) : x[1] \in {"record", "multicast"} /\ x[2] = n /\ x[3] = "FCM"
    BY <2>1
  <2>3. QED
    BY <2>1, <2>2, NoticeStepsOK DEF AboutNotification, NoticeSteps, Channels
<1>3. CASE more = <<<<"deleteDevice", Users, tokens>>>>
  <2>1. Program(more) /\ Steps(more) = {<<"deleteDevice", Users, tokens>>}
    BY <1>3, ProgramOf1
  <2>2. \A x \in Steps(more) : x[1] = "deleteDevice"
    BY <2>1
  <2>3. QED
    BY <2>1, <2>2, NoticeStepsOK DEF AboutNotification, NoticeSteps
<1>4. CASE more = <<<<"record", n, "TG_BOT">>, <<"send", n, "TG_BOT">>>>
  <2>1. Program(more) /\ Steps(more) = {<<"record", n, "TG_BOT">>, <<"send", n, "TG_BOT">>}
    BY <1>4, ProgramOf2
  <2>2. \A x \in Steps(more) : x[1] \in {"record", "send"} /\ x[2] = n /\ x[3] = "TG_BOT"
    BY <2>1
  <2>3. QED
    BY <2>1, <2>2, NoticeStepsOK DEF AboutNotification, NoticeSteps, Channels
<1>5. QED
  BY <1>1, <1>2, <1>3, <1>4

\* The worker.
LEMMA WorkerKept ==
  ASSUME TypesInv, NEW r \in Requests,
         HandlePushNotification(r) \/ SendPush(r) \/ HandleTelegramNotification(r) \/ Complete(r),
         UNCHANGED <<presenceVars, chatVars, gatewayVars>>
  PROVE  ReqsOK' /\ NoticesOK' /\ Grows /\ device' = device
<1> DEFINE h == req[r].todo[1]
<1>1. ReqsOK /\ Proper /\ ReqOK(r) /\ NoticesOK /\ message' = message /\ conversation' = conversation
  BY DEF TypesInv, ReqsOK, chatVars
<1>2. /\ req[r].todo # <<>> /\ h[1] \in {"push", "multicast", "telegram", "complete"}
      /\ device' = device
  BY DEF HandlePushNotification, SendPush, HandleTelegramNotification, Complete, At, noticeVars
<1>3. StepOK(h) /\ h[1] \notin Guards
  BY <1>1, <1>2, HeadOK DEF Guards
<1>4. ASSUME DOMAIN notification \subseteq DOMAIN notification' PROVE Grows
  BY <1>1, <1>4 DEF Grows
<1>5. h[2] \in DOMAIN notification
  BY <1>2, <1>3 DEF StepOK, AboutNotification
<1> HIDE DEF h
<1>6. Arg(r, 1) = h[2] /\ Arg(r, 2) = h[3] /\ Arg(r, 3) = h[4]
  BY DEF Arg, h
<1>7. ASSUME DOMAIN notification \subseteq DOMAIN notification', NEW more, Do(r, more), NEW tokens,
             \/ more = <<>>
             \/ more = <<<<"record", h[2], "FCM">>, <<"multicast", h[2], "FCM", tokens>>>>
             \/ more = <<<<"deleteDevice", Users, tokens>>>>
             \/ more = <<<<"record", h[2], "TG_BOT">>, <<"send", h[2], "TG_BOT">>>>
      PROVE  ReqsOK'
  <2>1. Program(more) /\ \A x \in Steps(more) : StepOK(x)' /\ x[1] \notin Guarded /\ x[1] \notin Final
    BY <1>5, <1>7, WorkerPrograms
  <2>2. QED
    BY <1>1, <1>2, <1>3, <1>4, <1>7, <2>1, DoOK DEF h
<1>8. CASE HandlePushNotification(r)
  <2>1. PICK more, tokens :
          /\ Do(r, more)
          /\ more = <<>> \/ more = <<<<"record", h[2], "FCM">>, <<"multicast", h[2], "FCM", tokens>>>>
    BY <1>8, <1>6 DEF HandlePushNotification
  <2>2. notification' = notification
    BY <1>8 DEF HandlePushNotification, noticeVars
  <2>3. QED
    BY <1>1, <1>2, <1>4, <1>7, <2>1, <2>2, SameNotices
<1>9. CASE HandleTelegramNotification(r)
  <2>1. PICK more :
          /\ Do(r, more)
          /\ more = <<>> \/ more = <<<<"record", h[2], "TG_BOT">>, <<"send", h[2], "TG_BOT">>>>
    BY <1>9, <1>6 DEF HandleTelegramNotification
  <2>2. notification' = notification
    BY <1>9 DEF HandleTelegramNotification, noticeVars
  <2>3. QED
    BY <1>1, <1>2, <1>4, <1>7, <2>1, <2>2, SameNotices
<1>10. CASE SendPush(r)
  <2>1. PICK more, tokens : Do(r, more) /\ (more = <<>> \/ more = <<<<"deleteDevice", Users, tokens>>>>)
    BY <1>10 DEF SendPush
  <2>2. notification' = [notification EXCEPT ![h[2]].sent[h[3]] = @ + 1]
    BY <1>10, <1>6 DEF SendPush, Emitted
  <2>3. CASE h[3] \in Channels
    <3>0. PICK n, ch : n = h[2] /\ ch = h[3]
      OBVIOUS
    <3>1. /\ NoticesOK /\ message' = message /\ n \in DOMAIN notification /\ ch \in Channels
          /\ notification' = [notification EXCEPT ![n].sent[ch] = @ + 1]
      BY <1>1, <1>5, <2>2, <2>3, <3>0
    <3>2. NoticesOK' /\ OnlyRow(n)
      BY <3>1, SentOnce
    <3>3. QED
      BY <1>2, <1>4, <1>7, <2>1, <3>2 DEF OnlyRow
  <2>4. QED
    BY <2>3, <1>3, <1>10 DEF StepOK, SendPush, At, h
<1>11. CASE Complete(r)
  <2>1. notification' = [notification EXCEPT ![h[2]].job = "done"] /\ Continue(r)
    BY <1>6, <1>11 DEF Complete
  <2>2. PICK n, job : n = h[2] /\ job = "done"
    OBVIOUS
  <2>3. /\ NoticesOK /\ message' = message /\ n \in DOMAIN notification
        /\ job \in {"none", "waiting", "active", "done", "failed"}
        /\ notification' = [notification EXCEPT ![n].job = job]
    BY <1>1, <1>5, <2>1, <2>2
  <2>4. NoticesOK' /\ OnlyRow(n)
    BY <2>3, JobMoved
  <2>5. Grows
    BY <1>4, <2>4 DEF OnlyRow
  <2>6. ReqsOK'
    BY <1>1, <1>2, <1>3, <2>1, <2>5, ContinueOK DEF h
  <2>7. QED
    BY <1>2, <2>4, <2>5, <2>6
<1>12. QED
  BY <1>8, <1>9, <1>10, <1>11

\* A job is taken, or its attempt fails.
LEMMA JobsKept ==
  ASSUME TypesInv, NEW r \in Requests, Take(r) \/ FailAttempt(r),
         UNCHANGED <<presenceVars, chatVars, gatewayVars>>
  PROVE  ReqsOK' /\ NoticesOK' /\ Grows /\ device' = device
<1>1. ReqsOK /\ NoticesOK /\ message' = message /\ conversation' = conversation
  BY DEF TypesInv, chatVars
<1>2. ASSUME DOMAIN notification \subseteq DOMAIN notification' PROVE Grows
  BY <1>1, <1>2 DEF Grows
<1>3. "FCM" \in Channels
  BY DEF Channels
<1>4. CASE Take(r)
  <2>1. PICK n \in DOMAIN notification :
          /\ notification' = [notification EXCEPT ![n].job = "active", ![n].tries = @ + 1]
          /\ Wake(r, "process", {}, <<<<"push", n>>, <<"telegram", n>>, <<"complete", n>>>>)
    BY <1>4 DEF Take
  <2>5. NoticesOK' /\ OnlyRow(n)
    BY <1>1, <2>1, JobTaken
  <2>6. Grows /\ DOMAIN notification' = DOMAIN notification
    BY <1>2, <2>5 DEF OnlyRow
  <2> DEFINE program == <<<<"push", n>>, <<"telegram", n>>, <<"complete", n>>>>
  <2>7. Program(program) /\ Steps(program) = {<<"push", n>>, <<"telegram", n>>, <<"complete", n>>}
    BY ProgramOf3
  <2>8. \A x \in Steps(program) : x[1] \in {"push", "telegram", "complete"} /\ x[2] \in DOMAIN notification'
    BY <2>6, <2>7
  <2>9. \A x \in Steps(program) : StepOK(x)' /\ x[1] \notin Guarded \cup Final
    BY <2>8, NoticeStepsOK DEF AboutNotification, NoticeSteps
  <2>10. Wake(r, "process", {}, program)
    BY <2>1
  <2> HIDE DEF program
  <2>11. ReqsOK'
    BY <1>1, <2>6, <2>7, <2>9, <2>10, WakeOK
  <2>12. QED
    BY <1>4, <2>5, <2>6, <2>11 DEF Take
<1>5. CASE FailAttempt(r)
  <2>0. PICK n, job : /\ n = JobOf(r)
                      /\ job = IF notification[n].tries < Attempts THEN "waiting" ELSE "failed"
    OBVIOUS
  <2>1. notification' = [notification EXCEPT ![n].job = job] /\ Fault(r)
    BY <1>5, <2>0 DEF FailAttempt
  <2>2. NoticesOK' /\ DOMAIN notification' = DOMAIN notification
    <3>1. CASE n \in DOMAIN notification
      <4>1. job \in {"none", "waiting", "active", "done", "failed"}
        BY <2>0
      <4>3. NoticesOK' /\ OnlyRow(n)
        BY <1>1, <2>1, <3>1, <4>1, JobMoved
      <4>4. QED
        BY <4>3 DEF OnlyRow
    <3>2. CASE n \notin DOMAIN notification
      <4>1. notification = [i \in DOMAIN notification |-> notification[i]]
        BY <1>1 DEF NoticesOK
      <4>2. notification' = notification
        BY <2>1, <3>2, <4>1
      <4>3. QED
        BY <1>1, <1>2, <4>2, SameNotices
    <3>3. QED
      BY <3>1, <3>2
  <2>3. Grows
    BY <1>2, <2>2
  <2>4. ReqsOK'
    BY <1>1, <2>1, <2>3, FaultOK
  <2>5. QED
    BY <1>5, <2>2, <2>3, <2>4 DEF FailAttempt
<1>6. QED
  BY <1>4, <1>5

\* The rows that a user reads, and the devices.
LEMMA DeviceAdded ==
  ASSUME DevicesOK, NEW u \in Users, NEW d \in Devices, NEW token \in Tokens,
         device' = Append(device, [user |-> u, device |-> d, token |-> token, gone |-> FALSE])
  PROVE  /\ DevicesOK' /\ DOMAIN device' = DOMAIN device \cup {Len(device) + 1}
         /\ Len(device) + 1 \notin DOMAIN device /\ Len(device) \in Nat /\ DOMAIN device = 1..Len(device)
         /\ \A i \in DOMAIN device : device'[i] = device[i]
         /\ device'[Len(device) + 1] = [user |-> u, device |-> d, token |-> token, gone |-> FALSE]
<1>1. [user |-> u, device |-> d, token |-> token, gone |-> FALSE] \in DeviceRow
  BY DEF DeviceRow
<1>2. QED
  BY <1>1, RowAdded DEF DevicesOK

LEMMA DeviceSaved ==
  ASSUME DevicesOK, NEW i, NEW token \in Tokens, device' = [device EXCEPT ![i].token = token]
  PROVE  /\ DevicesOK' /\ DOMAIN device' = DOMAIN device
         /\ \A j \in DOMAIN device : /\ device'[j].user = device[j].user
                                     /\ device'[j].device = device[j].device
                                     /\ device'[j].gone = device[j].gone
<1>1. device = [j \in DOMAIN device |-> device[j]]
  BY DEF DevicesOK
<1>2. device' = [j \in DOMAIN device |->
                   IF j = i THEN [device[j] EXCEPT !.token = token] ELSE device[j]]
  BY <1>1
<1>3. \A j \in DOMAIN device : device[j] \in DeviceRow
  BY ElementOfSeq DEF DevicesOK
<1>4. \A j \in DOMAIN device :
        /\ device'[j] \in DeviceRow
        /\ device'[j].user = device[j].user /\ device'[j].device = device[j].device
        /\ device'[j].gone = device[j].gone
  BY <1>2, <1>3 DEF DeviceRow
<1>5. device' = [j \in DOMAIN device |-> device'[j]]
  BY <1>2
<1>6. device \in Seq(DeviceRow) /\ \A j \in DOMAIN device : device'[j] \in DeviceRow
  BY <1>4 DEF DevicesOK
<1>7. device' \in Seq(DeviceRow) /\ DOMAIN device' = DOMAIN device
  BY ONLY <1>5, <1>6, RowsChange
<1>8. QED
  BY <1>4, <1>7 DEF DevicesOK

LEMMA TokensDeleted ==
  ASSUME DevicesOK, NEW users, NEW tokens,
         device' = [i \in DOMAIN device |->
           IF device[i].user \in users /\ device[i].token \in tokens
             THEN [device[i] EXCEPT !.gone = TRUE] ELSE device[i]]
  PROVE  /\ DevicesOK' /\ DOMAIN device' = DOMAIN device
         /\ \A j \in DOMAIN device : /\ device'[j].user = device[j].user
                                     /\ device'[j].device = device[j].device
                                     /\ device[j].gone => device'[j].gone
<1>1. \A j \in DOMAIN device : device[j] \in DeviceRow
  BY ElementOfSeq DEF DevicesOK
<1>2. \A j \in DOMAIN device :
        /\ device'[j] \in DeviceRow
        /\ device'[j].user = device[j].user /\ device'[j].device = device[j].device
        /\ device[j].gone => device'[j].gone
  BY <1>1 DEF DeviceRow
<1>3. device' = [j \in DOMAIN device |-> device'[j]]
  OBVIOUS
<1>4. QED
  BY <1>2, <1>3, RowsChange DEF DevicesOK

LEMMA ReadEffect ==
  ASSUME NoticesOK, UNCHANGED message, NEW u, NEW ids,
         notification' = [n \in DOMAIN notification |->
           IF notification[n].user = u /\ (ids = {} \/ n \in ids)
             THEN [notification[n] EXCEPT !.read = TRUE] ELSE notification[n]]
  PROVE  /\ NoticesOK' /\ DOMAIN notification' = DOMAIN notification
         /\ \A n \in DOMAIN notification :
              /\ AsBefore(n) /\ notification'[n].job = notification[n].job
              /\ notification'[n].tries = notification[n].tries
              /\ notification'[n].recorded = notification[n].recorded
              /\ notification'[n].sent = notification[n].sent
<1>1. \A n \in DOMAIN notification : notification[n] \in NotificationRow
  BY ElementOfSeq DEF NoticesOK
<1>2. ASSUME NEW row \in NotificationRow
      PROVE  /\ [row EXCEPT !.read = TRUE] \in NotificationRow
             /\ [row EXCEPT !.read = TRUE].user = row.user /\ [row EXCEPT !.read = TRUE].type = row.type
             /\ [row EXCEPT !.read = TRUE].about = row.about /\ [row EXCEPT !.read = TRUE].job = row.job
             /\ [row EXCEPT !.read = TRUE].tries = row.tries
             /\ [row EXCEPT !.read = TRUE].recorded = row.recorded
             /\ [row EXCEPT !.read = TRUE].sent = row.sent
  BY DEF NotificationRow
<1>3. \A n \in DOMAIN notification :
        notification'[n] = notification[n] \/ notification'[n] = [notification[n] EXCEPT !.read = TRUE]
  OBVIOUS
<1>4. \A n \in DOMAIN notification :
        /\ AsBefore(n) /\ notification'[n].job = notification[n].job
        /\ notification'[n].tries = notification[n].tries
        /\ notification'[n].recorded = notification[n].recorded
        /\ notification'[n].sent = notification[n].sent
        /\ notification'[n] \in NotificationRow
  <2>1. ASSUME NEW n \in DOMAIN notification
        PROVE  /\ AsBefore(n) /\ notification'[n].job = notification[n].job
               /\ notification'[n].tries = notification[n].tries
               /\ notification'[n].recorded = notification[n].recorded
               /\ notification'[n].sent = notification[n].sent
               /\ notification'[n] \in NotificationRow
    <3>1. CASE notification'[n] = notification[n]
      BY <1>1, <3>1 DEF AsBefore
    <3>2. CASE notification'[n] = [notification[n] EXCEPT !.read = TRUE]
      BY <1>1, <1>2, <3>2 DEF AsBefore
    <3>3. QED
      BY <1>3, <3>1, <3>2
  <2>2. QED
    BY <2>1
<1>5. notification' = [n \in DOMAIN notification |-> notification'[n]]
  OBVIOUS
<1>6. QED
  BY <1>4, <1>5, NoticesChange DEF AsBefore

\* Who reads notifications, and the devices.
LEMMA DevicesKept ==
  ASSUME TypesInv, NEW r \in Requests,
         ReadNotifications(r) \/ FindDevice(r) \/ SaveDevice(r) \/ DeleteTokens(r),
         UNCHANGED <<presenceVars, chatVars, gatewayVars>>
  PROVE  ReqsOK' /\ NoticesOK' /\ DevicesOK' /\ Grows
<1> DEFINE h == req[r].todo[1]
<1>1. ReqsOK /\ Proper /\ ReqOK(r) /\ NoticesOK /\ DevicesOK /\ message' = message
      /\ conversation' = conversation
  BY DEF TypesInv, ReqsOK, chatVars
<1>2. req[r].todo # <<>> /\ h[1] \in {"markAsRead", "findDevice", "saveDevice", "deleteDevice"}
  BY DEF ReadNotifications, FindDevice, SaveDevice, DeleteTokens, At
<1>3. StepOK(h) /\ h[1] \notin Guards
  BY <1>1, <1>2, HeadOK DEF Guards
<1>4. ASSUME DOMAIN notification \subseteq DOMAIN notification' PROVE Grows
  BY <1>1, <1>4 DEF Grows
<1> HIDE DEF h
<1>5. Arg(r, 1) = h[2] /\ Arg(r, 2) = h[3] /\ Arg(r, 3) = h[4]
  BY DEF Arg, h
<1>6. CASE ReadNotifications(r)
  <2>1. /\ notification' = [n \in DOMAIN notification |->
             IF notification[n].user = h[3] /\ (h[2] = {} \/ n \in h[2])
               THEN [notification[n] EXCEPT !.read = TRUE] ELSE notification[n]]
        /\ Continue(r) /\ device' = device
    BY <1>5, <1>6 DEF ReadNotifications
  <2>2. NoticesOK' /\ DOMAIN notification' = DOMAIN notification
    <3>1. PICK u, ids : u = h[3] /\ ids = h[2]
      OBVIOUS
    <3>2. /\ notification' = [n \in DOMAIN notification |->
               IF notification[n].user = u /\ (ids = {} \/ n \in ids)
                 THEN [notification[n] EXCEPT !.read = TRUE] ELSE notification[n]]
          /\ NoticesOK /\ message' = message
      BY <1>1, <2>1, <3>1
    <3>3. QED
      BY <3>2, ReadEffect
  <2>3. Grows
    BY <1>4, <2>2
  <2>4. ReqsOK'
    BY <1>1, <1>2, <1>3, <2>1, <2>3, ContinueOK DEF h
  <2>5. QED
    BY <1>1, <2>1, <2>2, <2>3, <2>4 DEF DevicesOK
<1>7. CASE FindDevice(r)
  <2>1. /\ notification' = notification /\ device' = device
        /\ \E i : Read(r, "row", i)
    BY <1>7 DEF FindDevice, noticeVars
  <2>2. Grows
    BY <1>4, <2>1
  <2>3. ReqsOK'
    BY <1>1, <1>2, <1>3, <2>1, <2>2, ReadOK DEF h
  <2>4. QED
    BY <1>1, <2>1, <2>2, <2>3, SameNotices DEF DevicesOK
<1>8. CASE SaveDevice(r)
  <2>1. h[1] = "saveDevice" /\ (Continue(r) \/ Throw(r)) /\ notification' = notification
    BY <1>8 DEF SaveDevice, At, h
  <2>2. h[2] \in Users /\ h[3] \in Devices /\ h[4] \in Tokens
    BY <1>3, <2>1 DEF StepOK
  <2>3. PICK i : \/ device' = [device EXCEPT ![i].token = h[4]]
                 \/ device' = Append(device, [user |-> h[2], device |-> h[3],
                                              token |-> h[4], gone |-> FALSE])
                 \/ device' = device
    BY <1>5, <1>8 DEF SaveDevice
  <2>4. DevicesOK'
    BY <1>1, <2>2, <2>3, DeviceAdded, DeviceSaved DEF DevicesOK
  <2>5. Grows
    BY <1>4, <2>1
  <2>6. ReqsOK'
    BY <1>1, <1>2, <1>3, <2>1, <2>5, ContinueOK, ThrowOK DEF h
  <2>7. QED
    BY <1>1, <2>1, <2>4, <2>5, <2>6, SameNotices
<1>9. CASE DeleteTokens(r)
  <2>1. /\ Continue(r) /\ notification' = notification
        /\ device' = [i \in DOMAIN device |->
             IF device[i].user \in h[2] /\ device[i].token \in h[3]
               THEN [device[i] EXCEPT !.gone = TRUE] ELSE device[i]]
    BY <1>5, <1>9 DEF DeleteTokens
  <2>2. DevicesOK'
    BY <1>1, <2>1, TokensDeleted
  <2>3. Grows
    BY <1>4, <2>1
  <2>4. ReqsOK'
    BY <1>1, <1>2, <1>3, <2>1, <2>3, ContinueOK DEF h
  <2>5. QED
    BY <1>1, <2>1, <2>2, <2>3, <2>4, SameNotices
<1>10. QED
  BY <1>6, <1>7, <1>8, <1>9

\* What is asked of the notifications and of the devices.
LEMMA NoticesBeginKept ==
  ASSUME TypesInv, NEW r \in Requests, BeginSignals(r) \/ BeginNotifications(r) \/ BeginDevices(r),
         UNCHANGED <<presenceVars, chatVars, gatewayVars>>
  PROVE  ReqsOK' /\ NoticesOK' /\ DevicesOK' /\ Grows
<1>1. /\ ReqsOK /\ NoticesOK /\ DevicesOK /\ UNCHANGED <<conversation, message, notification, device>>
      /\ message \in Seq(MessageRow(DOMAIN conversation))
  BY DEF TypesInv, ChatOK, chatVars, noticeVars, BeginSignals, BeginNotifications, BeginDevices
<1>2. Grows
  BY <1>1, SameGrows
<1>3. NoticesOK' /\ DevicesOK'
  BY <1>1, <1>2, SameNotices DEF DevicesOK
<1>4. ASSUME NEW x, StepOK(x)', x[1] \notin Guarded, NEW op, NEW about, Begin(r, op, about, <<x>>)
      PROVE  ReqsOK'
  <2>1. Program(<<x>>) /\ Steps(<<x>>) = {x} /\ Len(<<x>>) = 1 /\ DOMAIN <<x>> = {1}
    BY ProgramOf1
  <2>2. Ends(<<x>>, Final)
    BY <2>1 DEF Ends
  <2>3. QED
    BY <1>1, <1>2, <1>4, <2>1, <2>2, BeginOK
<1>5. CASE BeginSignals(r)
  <2>1. PICK u \in Users, type \in Signals :
          Begin(r, "signal", {}, Signal(IF type = "REVIEW_NEW" THEN NoUser ELSE u, type, 0))
    BY <1>5 DEF BeginSignals
  <2> DEFINE v == IF type = "REVIEW_NEW" THEN NoUser ELSE u
             x == <<"store", v, type, 0>>
  <2>2. x[1] = "store" /\ x[2] = v /\ x[3] = type /\ x[4] = 0
    OBVIOUS
  <2>3. v \in Users \cup {NoUser} /\ (type = "REVIEW_NEW" => v = NoUser) /\ type \in SignalTypes
    BY RealtimeAssumption DEF SignalTypes
  <2>4. 0 \in 0..Len(message')
    BY <1>1, LenProperties
  <2>5. Begin(r, "signal", {}, <<x>>)
    BY <2>1 DEF Signal
  <2> HIDE DEF v, x
  <2>6. StepOK(x)' /\ x[1] \notin Guarded
    BY <2>2, <2>3, <2>4 DEF StepOK, Guarded, AboutNotification
  <2>7. QED
    BY <1>3, <1>2, <1>4, <2>5, <2>6
<1>6. CASE BeginNotifications(r)
  <2>1. PICK u, ids : Begin(r, "readNotifications", {}, <<<<"markAsRead", ids, u>>>>)
    BY <1>6 DEF BeginNotifications, MarkAsRead
  <2> DEFINE x == <<"markAsRead", ids, u>>
  <2>2. x[1] = "markAsRead"
    OBVIOUS
  <2> HIDE DEF x
  <2>3. StepOK(x)' /\ x[1] \notin Guarded
    BY <2>2 DEF StepOK, Guarded, AboutNotification
  <2>4. QED
    BY <1>3, <1>2, <1>4, <2>1, <2>3 DEF x
<1>7. CASE BeginDevices(r)
  <2>1. PICK u \in Users, token \in Tokens :
          \/ \E d \in Devices : Begin(r, "updateDevice", {d}, UpsertDevice(u, d, token))
          \/ Begin(r, "deleteDevice", {}, <<<<"deleteDevice", {u}, {token}>>>>)
    BY <1>7 DEF BeginDevices
  <2>2. ASSUME NEW d \in Devices, Begin(r, "updateDevice", {d}, UpsertDevice(u, d, token))
        PROVE  ReqsOK'
    <3> DEFINE x == <<"findDevice", u, d, token>>
               y == <<"saveDevice", u, d, token>>
    <3>1. /\ x[1] = "findDevice" /\ x[2] = u /\ x[3] = d /\ x[4] = token
          /\ y[1] = "saveDevice" /\ y[2] = u /\ y[3] = d /\ y[4] = token
      OBVIOUS
    <3>2. Begin(r, "updateDevice", {d}, <<x, y>>)
      BY <2>2 DEF UpsertDevice
    <3> HIDE DEF x, y
    <3>3. StepOK(x)' /\ StepOK(y)' /\ x[1] \notin Guarded /\ y[1] \notin Guarded /\ x[1] \notin Final
      BY <3>1 DEF StepOK, Guarded, Final, AboutNotification
    <3>4. Program(<<x, y>>) /\ Steps(<<x, y>>) = {x, y}
      BY ProgramOf2
    <3>5. Ends(<<x, y>>, Final)
      BY <3>3 DEF Ends
    <3>6. QED
      BY <1>1, <1>2, <3>2, <3>3, <3>4, <3>5, BeginOK
  <2>3. ASSUME Begin(r, "deleteDevice", {}, <<<<"deleteDevice", {u}, {token}>>>>) PROVE ReqsOK'
    <3> DEFINE x == <<"deleteDevice", {u}, {token}>>
    <3>1. x[1] = "deleteDevice"
      OBVIOUS
    <3> HIDE DEF x
    <3>2. StepOK(x)' /\ x[1] \notin Guarded
      BY <3>1 DEF StepOK, Guarded, AboutNotification
    <3>3. QED
      BY <1>4, <2>3, <3>2 DEF x
  <2>4. QED
    BY <1>2, <1>3, <2>1, <2>2, <2>3
<1>8. QED
  BY <1>5, <1>6, <1>7

LEMMA NotificationsKept ==
  ASSUME TypesInv, NEW r \in Requests, UNCHANGED <<presenceVars, chatVars, gatewayVars>>,
         \/ NotificationsSteps(r) \/ Take(r) \/ FailAttempt(r)
         \/ BeginSignals(r) \/ BeginNotifications(r) \/ BeginDevices(r)
  PROVE  TypesInv' /\ Grows
<1>1. ReqsOK' /\ NoticesOK' /\ Grows /\ (DevicesOK' \/ device' = device)
  BY ListenerKept, WorkerKept, JobsKept, DevicesKept, NoticesBeginKept DEF NotificationsSteps
<1>2. DevicesOK'
  BY <1>1 DEF TypesInv, DevicesOK
<1>3. ChatOK'
  BY SameChat DEF TypesInv, chatVars
<1>4. PresenceOK' /\ RoomsOK'
  BY <1>1, SameRooms DEF TypesInv, PresenceOK, presenceVars, gatewayVars
<1>5. QED
  BY <1>1, <1>2, <1>3, <1>4 DEF TypesInv

-----------------------------------------------------------------------------
(* Rows of conversations and of messages *)

LEMMA ChatChange ==
  ASSUME ChatOK, UNCHANGED notification,
         conversation' = [c \in DOMAIN conversation |-> conversation'[c]],
         \A c \in DOMAIN conversation :
           conversation'[c] \in ConversationRow /\ conversation'[c].pair = conversation[c].pair,
         message' = [m \in DOMAIN message |-> message'[m]],
         \A m \in DOMAIN message :
           /\ message'[m] \in MessageRow(DOMAIN conversation)
           /\ message'[m].conv = message[m].conv /\ message'[m].sender = message[m].sender
  PROVE  /\ ChatOK' /\ Grows
         /\ DOMAIN conversation' = DOMAIN conversation /\ DOMAIN message' = DOMAIN message
<1>1. /\ conversation' \in Seq(ConversationRow) /\ DOMAIN conversation' = DOMAIN conversation
  BY RowsChange DEF ChatOK
<1>2. /\ message' \in Seq(MessageRow(DOMAIN conversation)) /\ DOMAIN message' = DOMAIN message
      /\ Len(message') = Len(message)
  BY RowsChange DEF ChatOK
<1>3. \A m \in DOMAIN message : message[m].conv \in DOMAIN conversation
  <2>1. \A m \in DOMAIN message : message[m] \in MessageRow(DOMAIN conversation)
    BY ElementOfSeq DEF ChatOK
  <2>2. QED
    BY <2>1 DEF MessageRow
<1>4. SentByParticipants' /\ OfTwo'
  <2>1. ASSUME NEW c \in DOMAIN conversation PROVE Participants(c)' = Participants(c)
    BY <2>1 DEF Participants
  <2>2. SentByParticipants'
    BY <1>2, <1>3, <2>1 DEF ChatOK, SentByParticipants
  <2>3. OfTwo'
    BY <1>1 DEF ChatOK, OfTwo
  <2>4. QED
    BY <2>2, <2>3
<1>5. Grows
  BY <1>1, <1>2 DEF Grows
<1>6. QED
  BY <1>1, <1>2, <1>4, <1>5 DEF ChatOK

LEMMA ChatRows ==
  ASSUME ChatOK
  PROVE  /\ conversation = [c \in DOMAIN conversation |-> conversation[c]]
         /\ message = [m \in DOMAIN message |-> message[m]]
         /\ \A c \in DOMAIN conversation : conversation[c] \in ConversationRow
         /\ \A m \in DOMAIN message : message[m] \in MessageRow(DOMAIN conversation)
         /\ DOMAIN message = 1..Len(message) /\ Len(message) \in Nat
         /\ DOMAIN conversation = 1..Len(conversation) /\ Len(conversation) \in Nat
BY ElementOfSeq DEF ChatOK

\* One conversation changes.
LEMMA ConversationChange ==
  ASSUME ChatOK, UNCHANGED <<message, notification>>, NEW c,
         conversation' = [d \in DOMAIN conversation |-> conversation'[d]],
         \A d \in DOMAIN conversation \ {c} : conversation'[d] = conversation[d],
         c \in DOMAIN conversation =>
           /\ conversation'[c] \in ConversationRow
           /\ conversation'[c].pair = conversation[c].pair /\ conversation'[c].topic = conversation[c].topic
  PROVE  /\ ChatOK' /\ Grows /\ DOMAIN conversation' = DOMAIN conversation
         /\ \A d \in DOMAIN conversation : /\ conversation'[d].pair = conversation[d].pair
                                           /\ conversation'[d].topic = conversation[d].topic
<1>1. /\ \A d \in DOMAIN conversation : conversation[d] \in ConversationRow
      /\ message = [m \in DOMAIN message |-> message[m]]
      /\ \A m \in DOMAIN message : message[m] \in MessageRow(DOMAIN conversation)
  BY ChatRows
<1>2. \A d \in DOMAIN conversation : /\ conversation'[d] \in ConversationRow
                                    /\ conversation'[d].pair = conversation[d].pair
                                    /\ conversation'[d].topic = conversation[d].topic
  BY <1>1
<1>3. /\ message' = [m \in DOMAIN message |-> message'[m]]
      /\ \A m \in DOMAIN message :
           /\ message'[m] \in MessageRow(DOMAIN conversation)
           /\ message'[m].conv = message[m].conv /\ message'[m].sender = message[m].sender
  BY <1>1
<1>4. ChatOK' /\ Grows /\ DOMAIN conversation' = DOMAIN conversation
  BY <1>2, <1>3, ChatChange
<1>5. QED
  BY <1>2, <1>4

LEMMA LastSet ==
  ASSUME ChatOK, UNCHANGED <<message, notification>>, NEW c, NEW last \in Nat,
         conversation' = [conversation EXCEPT ![c].last = last]
  PROVE  /\ ChatOK' /\ Grows /\ DOMAIN conversation' = DOMAIN conversation
         /\ \A d \in DOMAIN conversation :
              /\ conversation'[d].pair = conversation[d].pair
              /\ conversation'[d].topic = conversation[d].topic
              /\ conversation'[d].deleted = conversation[d].deleted
              /\ conversation'[d].gone = conversation[d].gone
<1>1. /\ conversation = [d \in DOMAIN conversation |-> conversation[d]]
      /\ \A d \in DOMAIN conversation : conversation[d] \in ConversationRow
  BY ChatRows
<1>2. conversation' = [d \in DOMAIN conversation |->
                         IF d = c THEN [conversation[d] EXCEPT !.last = last] ELSE conversation[d]]
  BY <1>1
<1>3. \A row \in ConversationRow :
        /\ [row EXCEPT !.last = last] \in ConversationRow
        /\ [row EXCEPT !.last = last].pair = row.pair /\ [row EXCEPT !.last = last].topic = row.topic
        /\ [row EXCEPT !.last = last].deleted = row.deleted /\ [row EXCEPT !.last = last].gone = row.gone
  BY DEF ConversationRow
<1>4. /\ conversation' = [d \in DOMAIN conversation |-> conversation'[d]]
      /\ \A d \in DOMAIN conversation \ {c} : conversation'[d] = conversation[d]
  BY <1>2
<1>5. c \in DOMAIN conversation =>
        /\ conversation'[c] \in ConversationRow
        /\ conversation'[c].pair = conversation[c].pair /\ conversation'[c].topic = conversation[c].topic
        /\ conversation'[c].deleted = conversation[c].deleted /\ conversation'[c].gone = conversation[c].gone
  BY <1>1, <1>2, <1>3
<1>6. /\ ChatOK' /\ Grows /\ DOMAIN conversation' = DOMAIN conversation
      /\ \A d \in DOMAIN conversation : /\ conversation'[d].pair = conversation[d].pair
                                        /\ conversation'[d].topic = conversation[d].topic
  BY <1>4, <1>5, ConversationChange
<1>7. QED
  BY <1>4, <1>5, <1>6

LEMMA DeletedSet ==
  ASSUME ChatOK, UNCHANGED <<message, notification>>, NEW c, NEW b \in BOOLEAN,
         conversation' = [conversation EXCEPT ![c].deleted = b]
  PROVE  /\ ChatOK' /\ Grows /\ DOMAIN conversation' = DOMAIN conversation
         /\ \A d \in DOMAIN conversation :
              /\ conversation'[d].pair = conversation[d].pair
              /\ conversation'[d].topic = conversation[d].topic
              /\ conversation'[d].deleted = (IF d = c THEN b ELSE conversation[d].deleted)
              /\ conversation'[d].gone = conversation[d].gone
<1>1. /\ conversation = [d \in DOMAIN conversation |-> conversation[d]]
      /\ \A d \in DOMAIN conversation : conversation[d] \in ConversationRow
  BY ChatRows
<1>2. conversation' = [d \in DOMAIN conversation |->
                         IF d = c THEN [conversation[d] EXCEPT !.deleted = b] ELSE conversation[d]]
  BY <1>1
<1>3. \A row \in ConversationRow :
        /\ [row EXCEPT !.deleted = b] \in ConversationRow
        /\ [row EXCEPT !.deleted = b].pair = row.pair /\ [row EXCEPT !.deleted = b].topic = row.topic
        /\ [row EXCEPT !.deleted = b].deleted = b /\ [row EXCEPT !.deleted = b].gone = row.gone
  BY DEF ConversationRow
<1>4. /\ conversation' = [d \in DOMAIN conversation |-> conversation'[d]]
      /\ \A d \in DOMAIN conversation \ {c} : conversation'[d] = conversation[d]
  BY <1>2
<1>5. c \in DOMAIN conversation =>
        /\ conversation'[c] \in ConversationRow
        /\ conversation'[c].pair = conversation[c].pair /\ conversation'[c].topic = conversation[c].topic
        /\ conversation'[c].deleted = b /\ conversation'[c].gone = conversation[c].gone
  <2>1. c \in DOMAIN conversation => conversation'[c] = [conversation[c] EXCEPT !.deleted = b]
    BY <1>2
  <2>2. QED
    BY <1>1, <1>3, <2>1, Zenon
<1>6. /\ ChatOK' /\ Grows /\ DOMAIN conversation' = DOMAIN conversation
      /\ \A d \in DOMAIN conversation : /\ conversation'[d].pair = conversation[d].pair
                                        /\ conversation'[d].topic = conversation[d].topic
  BY <1>4, <1>5, ConversationChange
<1>7. QED
  BY <1>4, <1>5, <1>6

\* A conversation goes, with its messages.
LEMMA GoneSet ==
  ASSUME ChatOK, UNCHANGED notification, NEW c,
         conversation' = [conversation EXCEPT ![c].gone = TRUE],
         message' = [m \in DOMAIN message |->
                       IF m \in Sent(c) THEN [message[m] EXCEPT !.gone = TRUE] ELSE message[m]]
  PROVE  /\ ChatOK' /\ Grows /\ DOMAIN conversation' = DOMAIN conversation
         /\ \A d \in DOMAIN conversation :
              /\ conversation'[d].pair = conversation[d].pair
              /\ conversation'[d].topic = conversation[d].topic
              /\ conversation'[d].deleted = conversation[d].deleted
              /\ conversation'[d].gone = (IF d = c THEN TRUE ELSE conversation[d].gone)
<1>1. /\ conversation = [d \in DOMAIN conversation |-> conversation[d]]
      /\ \A d \in DOMAIN conversation : conversation[d] \in ConversationRow
      /\ \A m \in DOMAIN message : message[m] \in MessageRow(DOMAIN conversation)
  BY ChatRows
<1>2. conversation' = [d \in DOMAIN conversation |->
                         IF d = c THEN [conversation[d] EXCEPT !.gone = TRUE] ELSE conversation[d]]
  BY <1>1
<1>3. \A row \in ConversationRow :
        /\ [row EXCEPT !.gone = TRUE] \in ConversationRow
        /\ [row EXCEPT !.gone = TRUE].pair = row.pair /\ [row EXCEPT !.gone = TRUE].topic = row.topic
        /\ [row EXCEPT !.gone = TRUE].deleted = row.deleted /\ [row EXCEPT !.gone = TRUE].gone = TRUE
  BY DEF ConversationRow
<1>4. /\ conversation' = [d \in DOMAIN conversation |-> conversation'[d]]
      /\ \A d \in DOMAIN conversation :
           /\ conversation'[d] \in ConversationRow
           /\ conversation'[d].pair = conversation[d].pair
           /\ conversation'[d].topic = conversation[d].topic
           /\ conversation'[d].deleted = conversation[d].deleted
           /\ conversation'[d].gone = (IF d = c THEN TRUE ELSE conversation[d].gone)
  <2>1. conversation' = [d \in DOMAIN conversation |-> conversation'[d]]
    BY <1>2
  <2>2. ASSUME NEW d \in DOMAIN conversation, d = c
        PROVE  /\ conversation'[d] = [conversation[d] EXCEPT !.gone = TRUE]
               /\ conversation[d] \in ConversationRow
    BY <1>1, <1>2, <2>2
  <2>3. ASSUME NEW d \in DOMAIN conversation, d # c PROVE conversation'[d] = conversation[d]
    BY <1>2, <2>3
  <2>4. QED
    BY <1>1, <1>3, <2>1, <2>2, <2>3
<1>5. /\ message' = [m \in DOMAIN message |-> message'[m]]
      /\ \A m \in DOMAIN message :
           /\ message'[m] \in MessageRow(DOMAIN conversation)
           /\ message'[m].conv = message[m].conv /\ message'[m].sender = message[m].sender
  BY <1>1 DEF MessageRow
<1>6. ChatOK' /\ Grows /\ DOMAIN conversation' = DOMAIN conversation
  BY <1>4, <1>5, ChatChange
<1>7. QED
  BY <1>4, <1>6

LEMMA ConversationAdded ==
  ASSUME ChatOK, UNCHANGED <<message, notification>>, NEW u \in Speakers, NEW v \in Speakers, u # v,
         NEW topic \in Topics \cup {NoTopic},
         conversation' = Append(conversation, Conversation(u, v, topic))
  PROVE  /\ ChatOK' /\ Grows /\ Len(conversation') = Len(conversation) + 1
         /\ DOMAIN conversation' = DOMAIN conversation \cup {Len(conversation')}
         /\ Len(conversation') \notin DOMAIN conversation
         /\ \A d \in DOMAIN conversation : conversation'[d] = conversation[d]
         /\ conversation'[Len(conversation')] = Conversation(u, v, topic)
<1>1. Conversation(u, v, topic) \in ConversationRow /\ Conversation(u, v, topic).pair = <<u, v>>
  BY DEF Conversation, ConversationRow
<1>2. /\ conversation' \in Seq(ConversationRow) /\ Len(conversation') = Len(conversation) + 1
      /\ DOMAIN conversation' = DOMAIN conversation \cup {Len(conversation')}
      /\ Len(conversation') \notin DOMAIN conversation
      /\ \A d \in DOMAIN conversation : conversation'[d] = conversation[d]
      /\ conversation'[Len(conversation')] = Conversation(u, v, topic)
  BY <1>1, RowAdded DEF ChatOK
<1>3. \A m \in DOMAIN message : message[m].conv \in DOMAIN conversation
  BY ChatRows DEF MessageRow
<1>4. message' \in Seq(MessageRow(DOMAIN conversation'))
  <2>1. MessageRow(DOMAIN conversation) \subseteq MessageRow(DOMAIN conversation')
    BY <1>2 DEF MessageRow
  <2>2. QED
    BY <2>1, SeqMonotonic DEF ChatOK
<1>5. SentByParticipants'
  BY <1>2, <1>3 DEF ChatOK, SentByParticipants, Participants
<1>6. OfTwo'
  BY <1>1, <1>2 DEF ChatOK, OfTwo
<1>7. Grows
  BY <1>2 DEF Grows
<1>8. QED
  BY <1>2, <1>4, <1>5, <1>6, <1>7 DEF ChatOK

LEMMA MessagesChange ==
  ASSUME ChatOK, UNCHANGED <<conversation, notification>>,
         message' = [m \in DOMAIN message |-> message'[m]],
         \A m \in DOMAIN message : \/ message'[m] = message[m]
                                   \/ message'[m] = [message[m] EXCEPT !.gone = TRUE]
                                   \/ message'[m] = [message[m] EXCEPT !.read = TRUE]
                                   \/ message'[m] = [message[m] EXCEPT !.edited = TRUE]
  PROVE  /\ ChatOK' /\ Grows /\ DOMAIN message' = DOMAIN message
<1>1. /\ conversation = [d \in DOMAIN conversation |-> conversation[d]]
      /\ \A d \in DOMAIN conversation : conversation[d] \in ConversationRow
      /\ \A m \in DOMAIN message : message[m] \in MessageRow(DOMAIN conversation)
  BY ChatRows
<1>2. ASSUME NEW row \in MessageRow(DOMAIN conversation), NEW new,
             \/ new = row \/ new = [row EXCEPT !.gone = TRUE]
             \/ new = [row EXCEPT !.read = TRUE] \/ new = [row EXCEPT !.edited = TRUE]
      PROVE  new \in MessageRow(DOMAIN conversation) /\ new.conv = row.conv /\ new.sender = row.sender
  BY <1>2 DEF MessageRow
<1>3. \A m \in DOMAIN message :
        /\ message'[m] \in MessageRow(DOMAIN conversation)
        /\ message'[m].conv = message[m].conv /\ message'[m].sender = message[m].sender
  BY <1>1, <1>2
<1>4. conversation' = [d \in DOMAIN conversation |-> conversation'[d]]
  BY <1>1
<1>5. \A d \in DOMAIN conversation :
        conversation'[d] \in ConversationRow /\ conversation'[d].pair = conversation[d].pair
  BY <1>1
<1>6. QED
  BY <1>3, <1>4, <1>5, ChatChange

LEMMA MessageAdded ==
  ASSUME ChatOK, UNCHANGED <<conversation, notification>>, NEW c \in DOMAIN conversation,
         NEW u \in Participants(c), message' = Append(message, Message(c, u))
  PROVE  /\ ChatOK' /\ Grows /\ Len(message') = Len(message) + 1
         /\ DOMAIN message' = DOMAIN message \cup {Len(message')}
         /\ Len(message') \notin DOMAIN message
         /\ \A m \in DOMAIN message : message'[m] = message[m]
         /\ message'[Len(message')] = Message(c, u)
<1>1. u \in Speakers
  BY ChatRows DEF Participants, ConversationRow
<1>2. Message(c, u) \in MessageRow(DOMAIN conversation)
  BY <1>1 DEF Message, MessageRow
<1>3. /\ message' \in Seq(MessageRow(DOMAIN conversation)) /\ Len(message') = Len(message) + 1
      /\ DOMAIN message' = DOMAIN message \cup {Len(message')} /\ Len(message) \in Nat
      /\ Len(message') \notin DOMAIN message
      /\ \A m \in DOMAIN message : message'[m] = message[m]
      /\ message'[Len(message')] = Message(c, u)
  BY <1>2, RowAdded DEF ChatOK
<1>4. SentByParticipants' /\ OfTwo'
  BY <1>3 DEF ChatOK, SentByParticipants, OfTwo, Participants, Message
<1>5. Grows
  BY <1>3 DEF Grows
<1>6. QED
  BY <1>3, <1>4, <1>5 DEF ChatOK

-----------------------------------------------------------------------------
(* Conversations *)

\* The steps that show a conversation.
PreviewLabels == {"found", "readLast", "show"}

LEMMA PreviewOK ==
  ASSUME NEW x, x[1] \in PreviewLabels
  PROVE  StepOK(x)' /\ x[1] \notin Guarded /\ x[1] \notin Final
BY DEF PreviewLabels, StepOK, AboutNotification, Guarded, Final

LEMMA ShowProgram ==
  ASSUME NEW c, NEW u
  PROVE  Program(Show(c, u)) /\ Steps(Show(c, u)) = {<<"readLast", c>>, <<"show", c, u>>}
BY ProgramOf2 DEF Show

LEMMA GetPreviewProgram ==
  ASSUME NEW c, NEW u
  PROVE  /\ Program(GetPreview(c, u))
         /\ Steps(GetPreview(c, u)) = {<<"found", c>>, <<"readLast", c>>, <<"show", c, u>>}
         /\ \A x \in Steps(GetPreview(c, u)) : x[1] \in PreviewLabels
<1>1. Program(<<<<"found", c>>>>) /\ Steps(<<<<"found", c>>>>) = {<<"found", c>>}
  BY ProgramOf1
<1>2. /\ Program(GetPreview(c, u))
      /\ Steps(GetPreview(c, u)) = {<<"found", c>>} \cup {<<"readLast", c>>, <<"show", c, u>>}
  BY <1>1, ShowProgram, ProgramJoin DEF GetPreview
<1>3. QED
  BY <1>2 DEF PreviewLabels

LEMMA PreviewsProgram ==
  ASSUME NEW c, NEW u
  PROVE  /\ Program(Previews(c, u))
         /\ \A x \in Steps(Previews(c, u)) : x[1] \in PreviewLabels /\ x[2] = c
<1>1. Program(<<<<"found", c>>>>) /\ Steps(<<<<"found", c>>>>) = {<<"found", c>>}
  BY ProgramOf1
<1>2. PICK v : v = OtherOf(c, u)
  OBVIOUS
<1>3. /\ Program(Show(c, v)) /\ Steps(Show(c, v)) = {<<"readLast", c>>, <<"show", c, v>>}
      /\ Program(Show(c, u)) /\ Steps(Show(c, u)) = {<<"readLast", c>>, <<"show", c, u>>}
  BY ShowProgram
<1>4. /\ Program(<<<<"found", c>>>> \o Show(c, v))
      /\ Steps(<<<<"found", c>>>> \o Show(c, v)) = {<<"found", c>>, <<"readLast", c>>, <<"show", c, v>>}
  BY <1>1, <1>3, ProgramJoin
<1>5. /\ Program((<<<<"found", c>>>> \o Show(c, v)) \o Show(c, u))
      /\ Steps((<<<<"found", c>>>> \o Show(c, v)) \o Show(c, u)) =
           {<<"found", c>>, <<"readLast", c>>, <<"show", c, v>>, <<"show", c, u>>}
  BY <1>3, <1>4, ProgramJoin
<1>6. /\ Program(Previews(c, u))
      /\ Steps(Previews(c, u)) = {<<"found", c>>, <<"readLast", c>>, <<"show", c, v>>, <<"show", c, u>>}
  BY <1>2, <1>5 DEF Previews
<1>7. QED
  BY <1>6 DEF PreviewLabels

LEMMA ShowAllProgram ==
  ASSUME NEW n \in Nat, NEW S, NEW rows \in [1..n -> S], NEW u
  PROVE  /\ Program(ShowAll(rows, u))
         /\ \A x \in Steps(ShowAll(rows, u)) : x[1] \in PreviewLabels
<1>1. Len(rows) = n
  BY LenProperties, IsASeq
<1>2. \A c : /\ Show(c, u)[1][1] = "readLast" /\ Show(c, u)[2][1] = "show"
  BY DEF Show
<1>3. ShowAll(rows, u) = [i \in 1..2 * n |-> Show(rows[(i + 1) \div 2], u)[2 - (i % 2)]]
  BY <1>1 DEF ShowAll
<1>4. 2 * n \in Nat
  OBVIOUS
<1>5. \A i \in 1..2 * n : 2 - (i % 2) = 1 \/ 2 - (i % 2) = 2
  OBVIOUS
<1>6. \A i \in DOMAIN ShowAll(rows, u) : ShowAll(rows, u)[i][1] \in PreviewLabels
  <2>1. ASSUME NEW i \in 1..2 * n
        PROVE  ShowAll(rows, u)[i] = Show(rows[(i + 1) \div 2], u)[1]
                 \/ ShowAll(rows, u)[i] = Show(rows[(i + 1) \div 2], u)[2]
    BY <1>3, <1>5
  <2>2. QED
    BY <1>2, <1>3, <2>1 DEF PreviewLabels
<1>7. Program(ShowAll(rows, u))
  <2> DEFINE q == ShowAll(rows, u)
             m == 2 * n
  <2>1. m \in Nat /\ DOMAIN q = 1..m /\ q = [i \in 1..m |-> q[i]]
    BY <1>3, <1>4
  <2> HIDE DEF q, m
  <2>2. q \in [1..m -> Steps(q)]
    BY <2>1 DEF Steps
  <2>3. q \in Seq(Steps(q))
    BY <2>1, <2>2, IsASeq
  <2>4. QED
    BY <2>3 DEF Program, q
<1>8. QED
  BY <1>6, <1>7 DEF Steps

\* The rest of a step whose tables are done.
LEMMA PreviewsAfter ==
  ASSUME ReqsOK, Grows, NEW r \in Requests, req[r].todo # <<>>, req[r].todo[1][1] \notin Guards,
         NEW more, Do(r, more), Program(more), \A x \in Steps(more) : x[1] \in PreviewLabels
  PROVE  ReqsOK'
BY PreviewOK, DoOK

LEMMA ChecksKept ==
  ASSUME TypesInv, NEW r \in Requests,
         \/ VerifyAccess(r) \/ FindConversation(r) \/ GetLastMessage(r) \/ ShowPreview(r)
         \/ FindConversations(r) \/ MayTalk(r) \/ FindExisting(r) \/ StillThere(r),
         UNCHANGED <<presenceVars, noticeVars>>
  PROVE  ReqsOK' /\ UNCHANGED <<conversation, message>> /\ Grows
<1> DEFINE h == req[r].todo[1]
<1>1. ReqsOK /\ Proper /\ ReqOK(r) /\ ChatOK /\ notification' = notification
      /\ UNCHANGED <<conversation, message>>
  BY DEF TypesInv, ReqsOK, noticeVars, chatVars, VerifyAccess, FindConversation, GetLastMessage,
         ShowPreview, FindConversations, MayTalk, FindExisting, StillThere
<1>2. Grows
  BY <1>1, SameGrows
<1>3. req[r].todo # <<>>
  BY DEF VerifyAccess, FindConversation, GetLastMessage, ShowPreview, FindConversations, MayTalk,
         FindExisting, StillThere, At
<1>4. StepOK(h) /\ (h[1] \in Guarded => Ready(r, h)) /\ h \in Left(r)
  BY <1>1, <1>3, HeadOK
<1> HIDE DEF h
<1>5. Arg(r, 1) = h[2] /\ Arg(r, 2) = h[3] /\ Arg(r, 3) = h[4]
  BY DEF Arg, h
<1>6. CASE VerifyAccess(r)
  <2>1. Require(r, MayEnter(h[2], h[3])) /\ h[1] = "access"
    BY <1>5, <1>6 DEF VerifyAccess, At, h
  <2>2. CASE ~MayEnter(h[2], h[3])
    BY <1>1, <1>2, <2>1, <2>2, ThrowOK DEF Require
  <2>3. CASE MayEnter(h[2], h[3])
    <3>1. Continue(r)
      BY <2>1, <2>3 DEF Require
    <3>2. \A x \in Left(r) : Before(h, x) => Ready(r, x)'
      BY <1>1, <2>1, <2>3 DEF Before, Ready, MayEnter, Participants
    <3>3. QED
      BY <1>1, <1>2, <1>3, <3>1, <3>2, PassedOK DEF h
  <2>4. QED
    BY <1>1, <1>2, <2>2, <2>3
<1>7. CASE MayTalk(r)
  <2>1. PICK b \in BOOLEAN : Require(r, b) /\ h[1] = "mayTalk" /\ (b => h[2] # h[3])
    BY <1>5, <1>7 DEF MayTalk, At, h
  <2>2. CASE ~b
    BY <1>1, <1>2, <2>1, <2>2, ThrowOK DEF Require
  <2>3. CASE b
    <3>1. Continue(r)
      BY <2>1, <2>3 DEF Require
    <3>2. \A x \in Left(r) : Before(h, x) => Ready(r, x)'
      BY <1>1, <2>1, <2>3 DEF Before, Ready
    <3>3. QED
      BY <1>1, <1>2, <1>3, <3>1, <3>2, PassedOK DEF h
  <2>4. QED
    BY <1>1, <1>2, <2>2, <2>3
<1>8. CASE FindConversation(r) \/ StillThere(r)
  <2>1. h[1] \in {"found", "stillThere"} /\ (Continue(r) \/ Throw(r))
    BY <1>8 DEF FindConversation, StillThere, At, h, Require
  <2>2. h[1] \notin Guards
    BY <2>1 DEF Guards
  <2>3. QED
    BY <1>1, <1>2, <1>3, <2>1, <2>2, ContinueOK, ThrowOK DEF h
<1>9. CASE GetLastMessage(r) \/ ShowPreview(r)
  <2>1. h[1] \in {"readLast", "show"} /\ (Continue(r) \/ \E v : Read(r, "last", v))
    BY <1>9 DEF GetLastMessage, ShowPreview, At, h
  <2>2. h[1] \notin Guards
    BY <2>1 DEF Guards
  <2>3. QED
    BY <1>1, <1>2, <1>3, <2>1, <2>2, ContinueOK, ReadOK DEF h
<1>10. CASE FindConversations(r)
  <2> DEFINE mine == {c \in DOMAIN conversation : MayEnter(c, h[2])}
  <2>1. Do(r, ShowAll(SetToSeq(mine), h[2])) /\ h[1] = "list"
    BY <1>5, <1>10 DEF FindConversations, At, h
  <2>2. DOMAIN conversation = 1..Len(conversation) /\ Len(conversation) \in Nat
    BY <1>1, ChatRows
  <2>3. IsFiniteSet(mine)
    <3>1. mine \subseteq 1..Len(conversation)
      BY <2>2
    <3>2. IsFiniteSet(1..Len(conversation))
      BY <2>2, FS_Interval
    <3> HIDE DEF mine
    <3>3. QED
      BY <3>1, <3>2, FS_Subset
  <2> HIDE DEF mine
  <2>4. Cardinality(mine) \in Nat /\ SetToSeq(mine) \in [1..Cardinality(mine) -> mine]
    BY <2>3, SetInSequence
  <2>5. /\ Program(ShowAll(SetToSeq(mine), h[2]))
        /\ \A x \in Steps(ShowAll(SetToSeq(mine), h[2])) : x[1] \in PreviewLabels
    BY <2>4, ShowAllProgram
  <2>6. h[1] \notin Guards
    BY <2>1 DEF Guards
  <2>7. QED
    BY <1>1, <1>2, <1>3, <2>1, <2>5, <2>6, PreviewsAfter DEF h
<1>11. CASE FindExisting(r)
  <2>1. PICK more : /\ Do(r, more) /\ h[1] = "findExisting"
                    /\ \/ more = <<<<"createConversation", h[2], h[3], h[4]>>>>
                       \/ \E c : more = GetPreview(c, h[2])
    BY <1>5, <1>11 DEF FindExisting, At, h
  <2>2. h[1] \notin Guards
    BY <2>1 DEF Guards
  <2>3. CASE \E c : more = GetPreview(c, h[2])
    <3>1. Program(more) /\ \A x \in Steps(more) : x[1] \in PreviewLabels
      BY <2>3, GetPreviewProgram
    <3>2. QED
      BY <1>1, <1>2, <1>3, <2>1, <2>2, <3>1, PreviewsAfter DEF h
  <2>4. CASE more = <<<<"createConversation", h[2], h[3], h[4]>>>>
    <3>1. h[2] \in Speakers /\ h[3] \in Speakers /\ h[4] \in Topics \cup {NoTopic} /\ h[2] # h[3]
      BY <1>4, <2>1 DEF StepOK, Ready, Guarded
    <3>0. PICK y : y = <<"createConversation", h[2], h[3], h[4]>>
      OBVIOUS
    <3>2. y[1] = "createConversation" /\ y[2] = h[2] /\ y[3] = h[3] /\ y[4] = h[4]
      BY <3>0
    <3>3. Program(more) /\ Steps(more) = {y}
      BY <2>4, <3>0, ProgramOf1
    <3>4. StepOK(y)' /\ y[1] \notin Guarded /\ y[1] \notin Final
      BY <3>1, <3>2 DEF StepOK, Guarded, Final, AboutNotification
    <3>5. QED
      BY <1>1, <1>2, <1>3, <2>1, <2>2, <3>3, <3>4, DoOK DEF h
  <2>5. QED
    BY <1>1, <1>2, <2>1, <2>3, <2>4
<1>12. QED
  BY <1>1, <1>2, <1>6, <1>7, <1>8, <1>9, <1>10, <1>11

\* A conversation is created, deleted or restored.
LEMMA ConversationsKept ==
  ASSUME TypesInv, NEW r \in Requests,
         CreateConversation(r) \/ DeleteConversation(r) \/ RestoreConversation(r),
         UNCHANGED <<presenceVars, noticeVars>>
  PROVE  ReqsOK' /\ ChatOK' /\ Grows
<1> DEFINE h == req[r].todo[1]
<1>1. ReqsOK /\ Proper /\ ReqOK(r) /\ ChatOK /\ notification' = notification
  BY DEF TypesInv, ReqsOK, noticeVars
<1>2. req[r].todo # <<>> /\ h[1] \in {"createConversation", "delete", "restore"}
  BY DEF CreateConversation, DeleteConversation, RestoreConversation, At
<1>3. StepOK(h) /\ h[1] \notin Guards
  BY <1>1, <1>2, HeadOK DEF Guards
<1> HIDE DEF h
<1>4. Arg(r, 1) = h[2] /\ Arg(r, 2) = h[3] /\ Arg(r, 3) = h[4]
  BY DEF Arg, h
<1>5. CASE CreateConversation(r)
  <2>1. /\ h[1] = "createConversation" /\ message' = message
        /\ conversation' = Append(conversation, Conversation(h[2], h[3], h[4]))
        /\ \E c : Do(r, GetPreview(c, h[2]))
    BY <1>4, <1>5 DEF CreateConversation, At, h
  <2>2. h[2] \in Speakers /\ h[3] \in Speakers /\ h[4] \in Topics \cup {NoTopic} /\ h[2] # h[3]
    BY <1>3, <2>1 DEF StepOK
  <2>3. ChatOK' /\ Grows
    BY <1>1, <2>1, <2>2, ConversationAdded
  <2>4. PICK c : Do(r, GetPreview(c, h[2]))
    BY <2>1
  <2>5. ReqsOK'
    BY <1>1, <1>2, <1>3, <2>3, <2>4, GetPreviewProgram, PreviewsAfter DEF h
  <2>6. QED
    BY <2>3, <2>5
<1>6. CASE DeleteConversation(r) \/ RestoreConversation(r)
  <2>1. Continue(r) /\
        \/ /\ conversation' = [conversation EXCEPT ![h[2]].gone = TRUE]
           /\ message' = [m \in DOMAIN message |->
                           IF m \in Sent(h[2]) THEN [message[m] EXCEPT !.gone = TRUE] ELSE message[m]]
        \/ /\ message' = message
           /\ \/ conversation' = [conversation EXCEPT ![h[2]].deleted = TRUE]
              \/ conversation' = [conversation EXCEPT ![h[2]].deleted = FALSE]
    BY <1>4, <1>6 DEF DeleteConversation, RestoreConversation
  <2>2. ChatOK' /\ Grows
    BY <1>1, <2>1, GoneSet, DeletedSet
  <2>3. ReqsOK'
    BY <1>1, <1>2, <1>3, <2>1, <2>2, ContinueOK DEF h
  <2>4. QED
    BY <2>2, <2>3
<1>7. QED
  BY <1>5, <1>6

-----------------------------------------------------------------------------
(* Messages *)

LEMMA EndsOf1 == ASSUME NEW a, NEW labels PROVE Ends(<<a>>, labels)
BY DEF Ends

LEMMA StoredProgram ==
  ASSUME NEW s, NEW c, NEW u, NEW m
  PROVE  /\ Program(Stored(s, c, u, m)) /\ Ends(Stored(s, c, u, m), Final)
         /\ Steps(Stored(s, c, u, m)) =
              {<<"touch", c>>, <<"findMessage", m>>, <<"emitNew", s, c, u, m>>} \cup Steps(Previews(c, u))
<1>1. PICK a, b, e : a = <<"touch", c>> /\ b = <<"findMessage", m>> /\ e = <<"emitNew", s, c, u, m>>
  OBVIOUS
<1>2. /\ Program(<<a, b>>) /\ Steps(<<a, b>>) = {a, b} /\ Program(<<e>>) /\ Steps(<<e>>) = {e}
  BY ProgramOf1, ProgramOf2
<1>3. /\ Program(Previews(c, u)) /\ \A x \in Steps(Previews(c, u)) : x[1] \in PreviewLabels
  BY PreviewsProgram
<1>4. PICK p : p = <<a, b>> \o Previews(c, u)
  OBVIOUS
<1>5. Program(p) /\ Steps(p) = {a, b} \cup Steps(Previews(c, u))
  BY <1>2, <1>3, <1>4, ProgramJoin
<1>6. Stored(s, c, u, m) = p \o <<e>>
  BY <1>1, <1>4 DEF Stored
<1>7. \A x \in Steps(p) : x[1] \notin Final
  <2>1. a[1] \notin Final /\ b[1] \notin Final
    BY <1>1 DEF Final
  <2>2. \A x \in Steps(Previews(c, u)) : x[1] \notin Final
    BY <1>3 DEF PreviewLabels, Final
  <2>3. QED
    BY <1>5, <2>1, <2>2
<1>8. Ends(<<e>>, Final)
  BY EndsOf1
<1>9. Program(p \o <<e>>) /\ Steps(p \o <<e>>) = Steps(p) \cup {e}
  BY <1>2, <1>5, ProgramJoin
<1>10. Ends(p \o <<e>>, Final)
  BY <1>2, <1>5, <1>7, <1>8, EndsJoin
<1>11. QED
  BY <1>1, <1>5, <1>6, <1>9, <1>10

\* A message is inserted.
LEMMA InsertKept ==
  ASSUME TypesInv, NEW r \in Requests, InsertMessage(r), UNCHANGED <<presenceVars, noticeVars>>
  PROVE  ReqsOK' /\ ChatOK' /\ Grows
<1> DEFINE h == req[r].todo[1]
<1>1. ReqsOK /\ Proper /\ ReqOK(r) /\ ChatOK /\ notification' = notification /\ conversation' = conversation
  BY DEF TypesInv, ReqsOK, noticeVars, InsertMessage
<1>2. req[r].todo # <<>> /\ h[1] = "insert"
  BY DEF InsertMessage, At
<1>3. StepOK(h) /\ Ready(r, h) /\ h[1] \notin Guards /\ h[1] \in Final
  BY <1>1, <1>2, HeadOK DEF Guards, Guarded, Final
<1> HIDE DEF h
<1>4. Arg(r, 1) = h[2] /\ Arg(r, 2) = h[3] /\ Arg(r, 3) = h[4]
  BY DEF Arg, h
<1>5. PICK s, c, u : s = h[2] /\ c = h[3] /\ u = h[4]
  OBVIOUS
<1>6. s \in Sockets /\ c \in DOMAIN conversation /\ u = SocketUser[s] /\ u \in Participants(c)
  BY <1>2, <1>3, <1>5 DEF StepOK, Ready
<1>7. \/ Throw(r) /\ message' = message
      \/ message' = Append(message, Message(c, u)) /\ Do(r, Stored(s, c, u, Len(message')))
  BY <1>4, <1>5 DEF InsertMessage
<1>8. CASE Throw(r) /\ message' = message
  <2>1. Grows
    BY <1>1, <1>8, SameGrows
  <2>2. QED
    BY <1>1, <1>8, <2>1, ThrowOK, SameChat
<1>9. CASE message' = Append(message, Message(c, u)) /\ Do(r, Stored(s, c, u, Len(message')))
  <2>1. /\ ChatOK' /\ Grows /\ DOMAIN message' = DOMAIN message \cup {Len(message')}
        /\ message'[Len(message')] = Message(c, u)
    BY <1>1, <1>6, <1>9, MessageAdded
  <2>2. PICK m : m = Len(message')
    OBVIOUS
  <2>3. m \in DOMAIN message' /\ message'[m].conv = c /\ message'[m].sender = u
    BY <2>1, <2>2 DEF Message
  <2>4. Sent(c)' # {}
    BY <2>3 DEF Sent
  <2>5. PICK a, b, e : a = <<"touch", c>> /\ b = <<"findMessage", m>> /\ e = <<"emitNew", s, c, u, m>>
    OBVIOUS
  <2>6. StepOK(a)' /\ a[1] \notin Guarded
    BY <2>4, <2>5 DEF StepOK, AboutNotification, Guarded
  <2>7. StepOK(b)' /\ b[1] \notin Guarded
    BY <2>5 DEF StepOK, AboutNotification, Guarded
  <2>8. StepOK(e)' /\ e[1] \notin Guarded
    <3>1. e[1] = "emitNew" /\ e[2] = s /\ e[3] = c /\ e[4] = u /\ e[5] = m
      BY <2>5
    <3>2. QED
      BY <1>1, <1>6, <2>3, <3>1 DEF StepOK, AboutNotification, Guarded
  <2>9. PICK q : q = Stored(s, c, u, m)
    OBVIOUS
  <2>10. Program(q) /\ Ends(q, Final) /\ Steps(q) = {a, b, e} \cup Steps(Previews(c, u))
    BY <2>5, <2>9, StoredProgram
  <2>11. \A x \in Steps(Previews(c, u)) : StepOK(x)' /\ x[1] \notin Guarded
    BY PreviewsProgram, PreviewOK
  <2>12. \A x \in Steps(q) : StepOK(x)' /\ x[1] \notin Guarded
    BY <2>6, <2>7, <2>8, <2>10, <2>11
  <2>13. Do(r, q)
    BY <1>9, <2>2, <2>9
  <2>14. ReqsOK'
    BY <1>1, <1>2, <1>3, <2>1, <2>10, <2>12, <2>13, DoOK DEF h
  <2>15. QED
    BY <2>1, <2>14
<1>10. QED
  BY <1>7, <1>8, <1>9

\* The other participant is a user.
LEMMA OtherIsUser ==
  ASSUME ChatOK, NEW c \in DOMAIN conversation, NEW u
  PROVE  OtherOf(c, u) \in Participants(c) /\ OtherOf(c, u) # u /\ OtherOf(c, u) \in Speakers
         /\ OtherOf(c, u) \in Users
<1>1. conversation[c].pair \in Speakers \X Speakers /\ conversation[c].pair[1] # conversation[c].pair[2]
  BY ChatRows DEF ConversationRow, ChatOK, OfTwo
<1>2. \E v \in Participants(c) : v # u
  BY <1>1 DEF Participants
<1>3. OtherOf(c, u) \in Participants(c) /\ OtherOf(c, u) # u
  BY <1>2 DEF OtherOf
<1>4. QED
  BY <1>1, <1>3, RealtimeAssumption DEF Participants

\* It is told to the room, and to who is not there.
LEMMA EmitKept ==
  ASSUME TypesInv, NEW r \in Requests, EmitMessageNew(r), UNCHANGED <<presenceVars, noticeVars>>
  PROVE  ReqsOK' /\ UNCHANGED <<conversation, message>> /\ Grows
<1> DEFINE h == req[r].todo[1]
<1>1. ReqsOK /\ Proper /\ ReqOK(r) /\ ChatOK /\ UNCHANGED <<conversation, message, notification>>
  BY DEF TypesInv, ReqsOK, noticeVars, chatVars, EmitMessageNew
<1>2. Grows
  BY <1>1, SameGrows
<1>3. req[r].todo # <<>> /\ h[1] = "emitNew"
  BY DEF EmitMessageNew, At
<1>4. StepOK(h) /\ h[1] \notin Guards /\ h[1] \in Final
  BY <1>1, <1>3, HeadOK DEF Guards, Final
<1> HIDE DEF h
<1>5. Arg(r, 1) = h[2] /\ Arg(r, 2) = h[3] /\ Arg(r, 3) = h[4] /\ Arg(r, 4) = h[5]
  BY DEF Arg, h
<1>6. PICK c, u, m : c = h[3] /\ u = h[4] /\ m = h[5]
  OBVIOUS
<1>7. c \in DOMAIN conversation /\ m \in DOMAIN message
  BY <1>3, <1>4, <1>6 DEF StepOK
<1>8. PICK v : v = OtherOf(c, u)
  OBVIOUS
<1>9. v \in Users
  BY <1>1, <1>7, <1>8, OtherIsUser
<1>10. Continue(r) \/ Do(r, <<<<"found", c>>>> \o Signal(v, "MESSAGE_NEW", m))
  BY <1>5, <1>6, <1>8 DEF EmitMessageNew
<1>11. PICK f, e : f = <<"found", c>> /\ e = <<"store", v, "MESSAGE_NEW", m>>
  OBVIOUS
<1>12. <<<<"found", c>>>> \o Signal(v, "MESSAGE_NEW", m) = <<f, e>>
  BY <1>11, JoinOf1 DEF Signal
<1>13. Program(<<f, e>>) /\ Steps(<<f, e>>) = {f, e}
  BY ProgramOf2
<1>14. StepOK(f)' /\ f[1] \notin Guarded
  BY <1>11 DEF StepOK, AboutNotification, Guarded
<1>15. StepOK(e)' /\ e[1] \notin Guarded
  <2>1. e[1] = "store" /\ e[2] = v /\ e[3] = "MESSAGE_NEW" /\ e[4] = m
    BY <1>11
  <2>2. m \in 0..Len(message')
    BY <1>1, <1>7, ChatRows
  <2>3. QED
    BY <1>9, <2>1, <2>2 DEF StepOK, AboutNotification, Guarded, SignalTypes
<1>16. Ends(<<f, e>>, Final)
  <2>1. Program(<<f>>) /\ Steps(<<f>>) = {f} /\ Program(<<e>>) /\ Ends(<<e>>, Final)
    BY ProgramOf1, EndsOf1
  <2>2. f[1] \notin Final /\ <<f>> \o <<e>> = <<f, e>>
    BY <1>11, JoinOf1 DEF Final
  <2>3. Ends(<<f>> \o <<e>>, Final)
    BY <2>1, <2>2, EndsJoin
  <2>4. QED
    BY <2>2, <2>3
<1>17. CASE Continue(r)
  BY <1>1, <1>2, <1>3, <1>4, <1>17, ContinueOK DEF h
<1>18. CASE Do(r, <<<<"found", c>>>> \o Signal(v, "MESSAGE_NEW", m))
  <2>1. PICK q : q = <<f, e>>
    OBVIOUS
  <2>2. Do(r, q) /\ Program(q) /\ Steps(q) = {f, e} /\ Ends(q, Final)
    BY <1>12, <1>13, <1>16, <1>18, <2>1
  <2>3. ReqsOK'
    BY <1>1, <1>2, <1>3, <1>4, <1>14, <1>15, <2>2, DoOK DEF h
  <2>4. QED
    BY <1>1, <1>2, <2>3
<1>19. QED
  BY <1>10, <1>17, <1>18

\* The rooms.
LEMMA RoomsKept ==
  ASSUME TypesInv, NEW r \in Requests, Enter(r) \/ Exit(r), UNCHANGED <<presenceVars, noticeVars>>
  PROVE  ReqsOK' /\ RoomsOK' /\ UNCHANGED <<conversation, message>> /\ Grows
<1> DEFINE h == req[r].todo[1]
<1>1. /\ ReqsOK /\ Proper /\ ReqOK(r) /\ UNCHANGED <<conversation, message, notification, connected>>
      /\ RoomsOK
  BY DEF TypesInv, ReqsOK, noticeVars, chatVars, presenceVars, Enter, Exit
<1>2. Grows
  BY <1>1, SameGrows
<1>3. req[r].todo # <<>> /\ h[1] \in {"enter", "exit"} /\ Continue(r)
  BY DEF Enter, Exit, At
<1>4. StepOK(h) /\ h[1] \notin Guards
  BY <1>1, <1>3, HeadOK DEF Guards
<1> HIDE DEF h
<1>5. Arg(r, 1) = h[2] /\ Arg(r, 2) = h[3]
  BY DEF Arg, h
<1>6. ReqsOK'
  BY <1>1, <1>2, <1>3, <1>4, ContinueOK DEF h
<1>7. RoomsOK'
  <2>1. CASE Enter(r)
    <3>1. h[1] = "enter"
      BY <2>1 DEF Enter, At, h
    <3>2. h[3] \in DOMAIN conversation
      BY <1>4, <3>1 DEF StepOK
    <3>3. QED
      BY <1>1, <1>5, <2>1, <3>2 DEF Enter, RoomsOK
  <2>2. CASE Exit(r)
    BY <1>1, <2>2 DEF Exit, RoomsOK
  <2>3. QED
    BY <2>1, <2>2
<1>8. QED
  BY <1>1, <1>2, <1>6, <1>7

\* The time of the last message.
LEMMA LastKept ==
  ASSUME TypesInv, NEW r \in Requests, Touch(r) \/ SetLast(r), UNCHANGED <<presenceVars, noticeVars>>
  PROVE  ReqsOK' /\ ChatOK' /\ Grows
<1> DEFINE h == req[r].todo[1]
<1>1. ReqsOK /\ Proper /\ ReqOK(r) /\ ChatOK /\ UNCHANGED <<message, notification>>
  BY DEF TypesInv, ReqsOK, noticeVars, Touch, SetLast
<1>2. req[r].todo # <<>> /\ h[1] \in {"touch", "setLast"}
  BY DEF Touch, SetLast, At
<1>3. StepOK(h) /\ (h[1] \in Guarded => Ready(r, h)) /\ h[1] \notin Guards
  BY <1>1, <1>2, HeadOK DEF Guards
<1> HIDE DEF h
<1>4. Arg(r, 1) = h[2] /\ Arg(r, 2) = h[3]
  BY DEF Arg, h
<1>5. Len(message) \in Nat /\ DOMAIN message = 1..Len(message)
  BY <1>1, ChatRows
<1>6. ASSUME NEW S, S \subseteq 1..Len(message), S # {} PROVE Max(S) \in Nat
  <2>1. S \subseteq 0..Len(message)
    BY <1>6
  <2>2. PICK k : k = Max(S)
    OBVIOUS
  <2>3. k \in 1..Len(message)
    BY <1>5, <1>6, <2>1, <2>2, MaxElement
  <2>4. QED
    BY <1>5, <2>2, <2>3
<1>7. CASE Touch(r)
  <2>1. /\ h[1] = "touch" /\ Continue(r)
        /\ conversation' = [conversation EXCEPT ![h[2]].last = Max(Sent(h[2]))]
    BY <1>4, <1>7 DEF Touch, At, h
  <2>2. Sent(h[2]) # {} /\ Sent(h[2]) \subseteq 1..Len(message)
    BY <1>3, <1>5, <2>1 DEF StepOK, Sent
  <2>3. PICK last : last = Max(Sent(h[2]))
    OBVIOUS
  <2>4. last \in Nat /\ conversation' = [conversation EXCEPT ![h[2]].last = last]
    BY <1>6, <2>1, <2>2, <2>3
  <2>5. ChatOK' /\ Grows
    BY <1>1, <2>4, LastSet
  <2>6. ReqsOK'
    BY <1>1, <1>2, <1>3, <2>1, <2>5, ContinueOK DEF h
  <2>7. QED
    BY <2>5, <2>6
<1>8. CASE SetLast(r)
  <2>1. h[1] = "setLast"
    BY <1>8 DEF SetLast, At, h
  <2>2. PICK new : new = req[r].got["newLast"]
    OBVIOUS
  <2>3. new \in SUBSET (1..Len(message))
    BY <1>3, <2>1, <2>2 DEF Ready, Guarded
  <2>4. PICK last : last = IF new = {} THEN 0 ELSE Max(new)
    OBVIOUS
  <2>5. last \in Nat
    BY <1>6, <2>3, <2>4
  <2>6. conversation' = [conversation EXCEPT ![h[2]].last = last]
    BY <1>4, <1>8, <2>2, <2>4 DEF SetLast, Got
  <2>7. ChatOK' /\ Grows
    BY <1>1, <2>5, <2>6, LastSet
  <2>8. PICK more : Do(r, more) /\ more \in {<<>>, Previews(h[2], h[3])}
    BY <1>4, <1>8 DEF SetLast
  <2>9. Program(more) /\ \A x \in Steps(more) : x[1] \in PreviewLabels
    BY <2>8, NoProgram, PreviewsProgram
  <2>10. ReqsOK'
    BY <1>1, <1>2, <1>3, <2>7, <2>8, <2>9, PreviewsAfter DEF h
  <2>11. QED
    BY <2>7, <2>10
<1>9. QED
  BY <1>7, <1>8

\* What is only read of the messages.
LEMMA ReadsKept ==
  ASSUME TypesInv, NEW r \in Requests,
         \/ FindMessage(r) \/ WasRead(r) \/ CountUnread(r) \/ NowRead(r) \/ VerifyMessageOwnership(r)
         \/ IfLast(r) \/ UnreadBefore(r) \/ LastBefore(r) \/ ReadNewLast(r),
         UNCHANGED <<presenceVars, noticeVars>>
  PROVE  ReqsOK' /\ UNCHANGED <<conversation, message>> /\ Grows
<1> DEFINE h == req[r].todo[1]
<1>1. ReqsOK /\ Proper /\ ReqOK(r) /\ ChatOK /\ UNCHANGED <<conversation, message, notification>>
  BY DEF TypesInv, ReqsOK, noticeVars, chatVars, FindMessage, WasRead, CountUnread, NowRead,
         VerifyMessageOwnership, IfLast, UnreadBefore, LastBefore, ReadNewLast
<1>2. Grows
  BY <1>1, SameGrows
<1>3. /\ req[r].todo # <<>>
      /\ h[1] \in {"findMessage", "wasRead", "unread", "nowRead", "owns", "ifLast", "unreadBefore",
                   "lastBefore", "readNewLast"}
  BY DEF FindMessage, WasRead, CountUnread, NowRead, VerifyMessageOwnership, IfLast, UnreadBefore,
         LastBefore, ReadNewLast, At
<1> HIDE DEF h
<1>4. Arg(r, 1) = h[2] /\ Arg(r, 2) = h[3] /\ Arg(r, 3) = h[4]
  BY DEF Arg, h
<1>5. CASE FindMessage(r) \/ CountUnread(r) \/ VerifyMessageOwnership(r)
  <2>1. (Continue(r) \/ Throw(r)) /\ h[1] \notin Guards
    BY <1>5 DEF FindMessage, CountUnread, VerifyMessageOwnership, Require, At, h, Guards
  <2>2. QED
    BY <1>1, <1>2, <1>3, <2>1, ContinueOK, ThrowOK DEF h
<1>6. CASE WasRead(r) \/ UnreadBefore(r) \/ LastBefore(r)
  <2>1. PICK k, v : Read(r, k, v) /\ k # "newLast" /\ h[1] \notin Guards
    BY <1>6 DEF WasRead, UnreadBefore, LastBefore, At, h, Guards
  <2>2. QED
    BY <1>1, <1>2, <1>3, <2>1, ReadOK DEF h
<1>7. CASE NowRead(r) \/ IfLast(r)
  <2>1. PICK more : /\ Do(r, more) /\ more \in {<<>>, Previews(h[2], h[3])} /\ h[1] \notin Guards
    BY <1>7, <1>4 DEF NowRead, IfLast, At, h, Guards
  <2>2. Program(more) /\ \A x \in Steps(more) : x[1] \in PreviewLabels
    BY <2>1, NoProgram, PreviewsProgram
  <2>3. QED
    BY <1>1, <1>2, <1>3, <2>1, <2>2, PreviewsAfter DEF h
<1>8. CASE ReadNewLast(r)
  <2>1. PICK last : last = LastMessage(h[2])
    OBVIOUS
  <2>2. Read(r, "newLast", last) /\ h[1] = "readNewLast"
    BY <1>4, <1>8, <2>1 DEF ReadNewLast, At, h
  <2>3. last \in SUBSET (1..Len(message))
    BY <1>1, <2>1, ChatRows DEF LastMessage, Listed, Messages, Sent
  <2>4. /\ Proper' /\ Went(r, <<>>) /\ Left(r)' = Steps(Tail(req[r].todo))
        /\ req'[r] # Idle => req'[r].got = With(req[r].got, "newLast", last)
    BY <1>1, <1>3, <2>2, Continues DEF Read
  <2>5. req'[r] # Idle => "newLast" \in DOMAIN req'[r].got /\ req'[r].got["newLast"] = last
    BY <2>4 DEF With
  <2>6. message' = message
    BY <1>1
  <2>7. Keeps(r, "newLast")
    BY <2>3, <2>5, <2>6 DEF Keeps
  <2>8. ASSUME NEW x \in Left(r), Before(h, x) PROVE Ready(r, x)'
    <3>1. x[1] = "setLast"
      BY <2>2, <2>8 DEF Before
    <3>2. x # h /\ Left(r) = {h} \cup Left(r)'
      BY <1>1, <1>3, <2>2, <3>1, Continues DEF Read, h
    <3>3. req'[r] # Idle
      <4>1. ASSUME req'[r] = Idle PROVE Left(r)' = {}
        BY <4>1, NoProgram DEF Left, Idle
      <4>2. QED
        BY <4>1, <3>2, <2>8
    <3>4. QED
      BY <2>3, <2>5, <2>6, <3>1, <3>3 DEF Ready
  <2>9. Program(<<>>) /\ Steps(<<>>) = {}
    BY NoProgram
  <2>10. QED
    BY <1>1, <1>2, <1>3, <2>4, <2>7, <2>8, <2>9, GoOK DEF h
<1>9. QED
  BY <1>5, <1>6, <1>7, <1>8

\* What is changed in the messages.
LEMMA EditsKept ==
  ASSUME TypesInv, NEW r \in Requests, MarkMessagesAsRead(r) \/ Edit(r) \/ DeleteRows(r),
         UNCHANGED <<presenceVars, noticeVars>>
  PROVE  ReqsOK' /\ ChatOK' /\ Grows
<1> DEFINE h == req[r].todo[1]
<1>1. ReqsOK /\ Proper /\ ReqOK(r) /\ ChatOK /\ UNCHANGED <<conversation, notification>>
  BY DEF TypesInv, ReqsOK, noticeVars, MarkMessagesAsRead, Edit, DeleteRows
<1>2. req[r].todo # <<>> /\ h[1] \in {"markRead", "edit", "deleteMessages"} /\ Continue(r)
  BY DEF MarkMessagesAsRead, Edit, DeleteRows, At
<1>3. h[1] \notin Guards
  BY <1>2 DEF Guards
<1> HIDE DEF h
<1>4. message = [m \in DOMAIN message |-> message[m]]
  BY <1>1, ChatRows
<1>5. /\ message' = [m \in DOMAIN message |-> message'[m]]
      /\ \A m \in DOMAIN message : \/ message'[m] = message[m]
                                   \/ message'[m] = [message[m] EXCEPT !.gone = TRUE]
                                   \/ message'[m] = [message[m] EXCEPT !.read = TRUE]
                                   \/ message'[m] = [message[m] EXCEPT !.edited = TRUE]
  <2>1. CASE Edit(r)
    <3>1. PICK n : message' = [message EXCEPT ![n].edited = TRUE]
      BY <2>1 DEF Edit
    <3>2. QED
      BY <1>4, <3>1
  <2>2. CASE DeleteRows(r)
    <3>1. PICK S : message' = [m \in DOMAIN message |->
                     IF m \in S THEN [message[m] EXCEPT !.gone = TRUE] ELSE message[m]]
      BY <2>2 DEF DeleteRows
    <3>2. QED
      BY <3>1
  <2>3. CASE MarkMessagesAsRead(r)
    <3>1. PICK S : message' = [m \in DOMAIN message |->
                     IF m \in S THEN [message[m] EXCEPT !.read = TRUE] ELSE message[m]]
      BY <2>3 DEF MarkMessagesAsRead
    <3>2. QED
      BY <3>1
  <2>4. QED
    BY <2>1, <2>2, <2>3
<1>6. ChatOK' /\ Grows
  BY <1>1, <1>5, MessagesChange
<1>7. ReqsOK'
  BY <1>1, <1>2, <1>3, <1>6, ContinueOK DEF h
<1>8. QED
  BY <1>6, <1>7

-----------------------------------------------------------------------------
(* Requests that arrive *)

\* The steps whose arguments are not asked for more than their program says.
PlainLabels ==
  PreviewLabels \cup
  {"list", "access", "delete", "stillThere", "restore", "exit", "findMessage", "wasRead", "unread",
   "markRead", "nowRead", "owns", "edit", "ifLast", "unreadBefore", "lastBefore", "deleteMessages",
   "readNewLast", "setLast"}

LEMMA PlainOK == ASSUME NEW x, x[1] \in PlainLabels PROVE StepOK(x)' /\ (x[1] \in Guarded => x[1] = "setLast")
BY DEF PlainLabels, PreviewLabels, StepOK, AboutNotification, Guarded

LEMMA PlainBegins ==
  ASSUME ReqsOK, Grows, NEW r \in Requests, NEW op, NEW about, NEW program, Program(program),
         Begin(r, op, about, program),
         \A x \in Steps(program) : x[1] \in PlainLabels \ {"setLast"},
         Ends(program, Final)
  PROVE  ReqsOK'
<1>1. \A x \in Steps(program) : StepOK(x)' /\ x[1] \notin Guarded
  BY PlainOK
<1>2. QED
  BY <1>1, BeginOK

\* A program that begins with the check of the access.
LEMMA AccessProgram ==
  ASSUME NEW c, NEW u, NEW rest, Program(rest)
  PROVE  /\ Program(Access(c, u) \o rest)
         /\ Steps(Access(c, u) \o rest) = {<<"access", c, u>>} \cup Steps(rest)
         /\ Ends(rest, Final) => Ends(Access(c, u) \o rest, Final)
<1>1. PICK a : a = <<"access", c, u>>
  OBVIOUS
<1>2. Program(<<a>>) /\ Steps(<<a>>) = {a} /\ Access(c, u) = <<a>>
  BY <1>1, ProgramOf1 DEF Access
<1>3. Program(<<a>> \o rest) /\ Steps(<<a>> \o rest) = {a} \cup Steps(rest)
  BY <1>2, ProgramJoin
<1>4. a[1] \notin Final
  BY <1>1 DEF Final
<1>5. Ends(rest, Final) => Ends(<<a>> \o rest, Final)
  BY <1>2, <1>4, EndsJoin
<1>6. QED
  BY <1>1, <1>2, <1>3, <1>5

LEMMA EndsOf2 ==
  ASSUME NEW a, NEW b, NEW labels, a[1] \notin labels PROVE Ends(<<a, b>>, labels)
<1>1. DOMAIN <<a, b>> = 1..2 /\ Len(<<a, b>>) = 2 /\ <<a, b>>[1] = a
  OBVIOUS
<1>2. QED
  BY <1>1 DEF Ends

LEMMA ConversationsBegin ==
  ASSUME TypesInv, NEW r \in Requests, BeginConversations(r), UNCHANGED <<presenceVars, noticeVars>>
  PROVE  ReqsOK' /\ UNCHANGED <<conversation, message>> /\ Grows
<1>1. ReqsOK /\ UNCHANGED <<conversation, message, notification>>
  BY DEF TypesInv, noticeVars, chatVars, BeginConversations
<1>2. Grows
  BY <1>1, SameGrows
<1>3. PICK u \in Speakers :
        \/ \E mine : Begin(r, "findConversations", mine, <<<<"list", u>>>>)
        \/ \E v \in Speakers, topic \in Topics \cup {NoTopic} :
             Begin(r, "getOrCreate", {topic}, GetOrCreate(u, v, topic))
        \/ \E c \in DOMAIN conversation :
             \/ Begin(r, "findConversation", {c}, Access(c, u) \o GetPreview(c, u))
             \/ \E permanent \in BOOLEAN : Begin(r, "deleteConversation", {c}, Delete(c, u, permanent))
             \/ Begin(r, "restore", {c}, Restore(c, u))
  BY DEF BeginConversations
<1>4. ASSUME NEW mine, Begin(r, "findConversations", mine, <<<<"list", u>>>>) PROVE ReqsOK'
  <2>1. PICK a : a = <<"list", u>>
    OBVIOUS
  <2>2. Program(<<a>>) /\ Steps(<<a>>) = {a} /\ Ends(<<a>>, Final) /\ a[1] \in PlainLabels \ {"setLast"}
    BY <2>1, ProgramOf1, EndsOf1 DEF PlainLabels
  <2>3. QED
    BY <1>1, <1>2, <1>4, <2>1, <2>2, PlainBegins
<1>5. ASSUME NEW v \in Speakers, NEW topic \in Topics \cup {NoTopic},
             Begin(r, "getOrCreate", {topic}, GetOrCreate(u, v, topic))
      PROVE  ReqsOK'
  <2>1. PICK a, b : a = <<"mayTalk", u, v, topic>> /\ b = <<"findExisting", u, v, topic>>
    OBVIOUS
  <2>2. Program(<<a, b>>) /\ Steps(<<a, b>>) = {a, b} /\ GetOrCreate(u, v, topic) = <<a, b>>
    BY <2>1, ProgramOf2 DEF GetOrCreate
  <2>3. Ends(<<a, b>>, Final)
    BY <2>1, EndsOf2 DEF Final
  <2>4. StepOK(a)' /\ StepOK(b)' /\ Before(a, b) /\ a[1] \notin Guarded
    BY <2>1 DEF StepOK, AboutNotification, Before, Guarded
  <2>5. PICK q : q = <<a, b>>
    OBVIOUS
  <2>6. /\ Program(q) /\ Begin(r, "getOrCreate", {topic}, q) /\ Ends(q, Final)
        /\ \A x \in Steps(q) : StepOK(x)'
        /\ \A x \in Steps(q) : x[1] \in Guarded => \E y \in Steps(q) : Before(y, x)
    BY <1>5, <2>2, <2>3, <2>4, <2>5
  <2>7. QED
    BY <1>1, <1>2, <2>6, BeginOK
<1>6. ASSUME NEW c, NEW op, NEW rest, Program(rest), Ends(rest, Final),
             \A x \in Steps(rest) : x[1] \in PlainLabels \ {"setLast"},
             Begin(r, op, {c}, Access(c, u) \o rest)
      PROVE  ReqsOK'
  <2>1. PICK a : a = <<"access", c, u>>
    OBVIOUS
  <2>2. a[1] \in PlainLabels \ {"setLast"}
    BY <2>1 DEF PlainLabels
  <2>3. PICK q : q = Access(c, u) \o rest
    OBVIOUS
  <2>4. /\ Program(q) /\ Ends(q, Final) /\ Steps(q) = {a} \cup Steps(rest)
    BY <1>6, <2>1, <2>3, AccessProgram
  <2>5. \A x \in Steps(q) : x[1] \in PlainLabels \ {"setLast"}
    BY <1>6, <2>2, <2>4
  <2>6. QED
    BY <1>1, <1>2, <1>6, <2>3, <2>4, <2>5, PlainBegins
<1>7. ASSUME NEW c, Begin(r, "findConversation", {c}, Access(c, u) \o GetPreview(c, u)) PROVE ReqsOK'
  <2>1. /\ Program(GetPreview(c, u)) /\ \A x \in Steps(GetPreview(c, u)) : x[1] \in PreviewLabels
    BY GetPreviewProgram
  <2>2. \A x \in Steps(GetPreview(c, u)) : x[1] \notin Final /\ x[1] \in PlainLabels \ {"setLast"}
    BY <2>1 DEF PreviewLabels, PlainLabels, Final
  <2>3. Ends(GetPreview(c, u), Final)
    BY <2>2, EndsPlain
  <2>4. QED
    BY <1>6, <1>7, <2>1, <2>2, <2>3
<1>8. ASSUME NEW c, NEW permanent, Begin(r, "deleteConversation", {c}, Delete(c, u, permanent))
      PROVE  ReqsOK'
  <2>1. PICK a : a = <<"delete", c, permanent>>
    OBVIOUS
  <2>2. Program(<<a>>) /\ Steps(<<a>>) = {a} /\ Ends(<<a>>, Final) /\ a[1] \in PlainLabels \ {"setLast"}
    BY <2>1, ProgramOf1, EndsOf1 DEF PlainLabels
  <2>3. Delete(c, u, permanent) = Access(c, u) \o <<a>>
    BY <2>1 DEF Delete
  <2>4. QED
    BY <1>6, <1>8, <2>2, <2>3
<1>9. ASSUME NEW c, Begin(r, "restore", {c}, Restore(c, u)) PROVE ReqsOK'
  <2>1. PICK a, b : a = <<"stillThere", c>> /\ b = <<"restore", c>>
    OBVIOUS
  <2>2. /\ Program(<<a, b>>) /\ Steps(<<a, b>>) = {a, b}
        /\ a[1] \in PlainLabels \ {"setLast"} /\ b[1] \in PlainLabels \ {"setLast"}
    BY <2>1, ProgramOf2 DEF PlainLabels
  <2>3. Restore(c, u) = Access(c, u) \o <<a, b>>
    BY <2>1 DEF Restore
  <2>4. Ends(<<a, b>>, Final)
    BY <2>1, EndsOf2 DEF Final
  <2>5. QED
    BY <1>6, <1>9, <2>2, <2>3, <2>4
<1>10. ReqsOK'
  BY <1>3, <1>4, <1>5, <1>7, <1>8, <1>9
<1>11. QED
  BY <1>1, <1>2, <1>10

LEMMA EndsOf4 ==
  ASSUME NEW a, NEW b, NEW c, NEW d, NEW labels, a[1] \notin labels, b[1] \notin labels, c[1] \notin labels
  PROVE  Ends(<<a, b, c, d>>, labels)
<1>1. /\ DOMAIN <<a, b, c, d>> = 1..4 /\ Len(<<a, b, c, d>>) = 4
      /\ <<a, b, c, d>>[1] = a /\ <<a, b, c, d>>[2] = b /\ <<a, b, c, d>>[3] = c
  OBVIOUS
<1>2. QED
  BY <1>1 DEF Ends

LEMMA ProgramOf6 ==
  ASSUME NEW a, NEW b, NEW c, NEW d, NEW e, NEW f, NEW labels, a[1] \notin labels, b[1] \notin labels,
         c[1] \notin labels, d[1] \notin labels, e[1] \notin labels
  PROVE  /\ Program(<<a, b, c, d, e, f>>) /\ Steps(<<a, b, c, d, e, f>>) = {a, b, c, d, e, f}
         /\ Ends(<<a, b, c, d, e, f>>, labels)
<1>1. /\ DOMAIN <<a, b, c, d, e, f>> = 1..6 /\ Len(<<a, b, c, d, e, f>>) = 6
      /\ <<a, b, c, d, e, f>>[1] = a /\ <<a, b, c, d, e, f>>[2] = b /\ <<a, b, c, d, e, f>>[3] = c
      /\ <<a, b, c, d, e, f>>[4] = d /\ <<a, b, c, d, e, f>>[5] = e
  OBVIOUS
<1>2. Ends(<<a, b, c, d, e, f>>, labels)
  BY <1>1 DEF Ends
<1>3. QED
  BY <1>2 DEF Program, Steps

LEMMA MessagesBegin ==
  ASSUME TypesInv, NEW r \in Requests, BeginMessages(r), UNCHANGED <<presenceVars, noticeVars>>
  PROVE  ReqsOK' /\ UNCHANGED <<conversation, message, rooms>> /\ Grows
<1>1. ReqsOK /\ UNCHANGED <<conversation, message, notification, rooms>> /\ connected \subseteq Sockets
  BY DEF TypesInv, PresenceOK, noticeVars, chatVars, gatewayVars, BeginMessages
<1>2. Grows
  BY <1>1, SameGrows
<1>3. PICK s, c, u :
        /\ s \in connected /\ c \in DOMAIN conversation /\ u = SocketUser[s]
        /\ \/ Begin(r, "subscribe", {}, Access(c, u) \o <<<<"enter", s, c>>>>)
           \/ Begin(r, "unsubscribe", {}, <<<<"exit", s, c>>>>)
           \/ Begin(r, "send", {c}, SendMessage(s, c, u))
           \/ \E ids : Begin(r, "read", {c}, ReadMessages(c, u, ids))
           \/ \E m : Begin(r, "edit", {c}, EditMessage(c, u, m))
           \/ \E ids : Begin(r, "deleteMessages", {c}, DeleteMessages(c, u, ids))
  BY DEF BeginMessages
<1>4. s \in Sockets
  BY <1>1, <1>3
<1>5. ASSUME NEW rest, Program(rest), Ends(rest, Final), NEW op, NEW about,
             Begin(r, op, about, Access(c, u) \o rest),
             \A x \in Steps(rest) :
               /\ StepOK(x)'
               /\ x[1] \notin Guarded \/ (x[1] = "insert" /\ x[3] = c /\ x[4] = u)
      PROVE  ReqsOK'
  <2>1. PICK a : a = <<"access", c, u>>
    OBVIOUS
  <2>2. StepOK(a)' /\ a[1] \notin Guarded /\ a[1] = "access" /\ a[2] = c /\ a[3] = u
    BY <2>1 DEF StepOK, AboutNotification, Guarded
  <2>3. PICK q : q = Access(c, u) \o rest
    OBVIOUS
  <2>4. /\ Program(q) /\ Ends(q, Final) /\ Steps(q) = {a} \cup Steps(rest) /\ Begin(r, op, about, q)
    BY <1>5, <2>1, <2>3, AccessProgram
  <2>5. \A x \in Steps(q) : StepOK(x)'
    BY <1>5, <2>2, <2>4
  <2>6. \A x \in Steps(q) : x[1] \in Guarded => Before(a, x)
    BY <1>5, <2>2, <2>4 DEF Before
  <2>7. QED
    BY <1>1, <1>2, <2>4, <2>5, <2>6, BeginOK
<1>6. CASE Begin(r, "subscribe", {}, Access(c, u) \o <<<<"enter", s, c>>>>)
  <2>1. PICK y : y = <<"enter", s, c>>
    OBVIOUS
  <2>2. Program(<<y>>) /\ Steps(<<y>>) = {y} /\ Ends(<<y>>, Final)
    BY ProgramOf1, EndsOf1
  <2>3. StepOK(y)' /\ y[1] \notin Guarded
    BY <1>1, <1>3, <2>1 DEF StepOK, AboutNotification, Guarded
  <2>4. PICK rest : rest = <<y>>
    OBVIOUS
  <2>5. /\ Program(rest) /\ Ends(rest, Final) /\ Begin(r, "subscribe", {}, Access(c, u) \o rest)
        /\ \A x \in Steps(rest) :
             /\ StepOK(x)'
             /\ x[1] \notin Guarded \/ (x[1] = "insert" /\ x[3] = c /\ x[4] = u)
    BY <1>6, <2>1, <2>2, <2>3, <2>4
  <2>6. QED
    BY <1>1, <1>2, <1>5, <2>5
<1>7. CASE Begin(r, "unsubscribe", {}, <<<<"exit", s, c>>>>)
  <2>1. PICK x : x = <<"exit", s, c>>
    OBVIOUS
  <2>2. Program(<<x>>) /\ Steps(<<x>>) = {x} /\ Ends(<<x>>, Final)
    BY ProgramOf1, EndsOf1
  <2>3. x[1] \in PlainLabels \ {"setLast"}
    BY <2>1 DEF PlainLabels
  <2>4. QED
    BY <1>1, <1>2, <1>7, <2>1, <2>2, <2>3, PlainBegins
<1>8. CASE Begin(r, "send", {c}, SendMessage(s, c, u))
  <2>1. PICK y : y = <<"insert", s, c, u>>
    OBVIOUS
  <2>2. /\ Program(<<y>>) /\ Steps(<<y>>) = {y} /\ Ends(<<y>>, Final)
        /\ SendMessage(s, c, u) = Access(c, u) \o <<y>>
    BY <2>1, ProgramOf1, EndsOf1 DEF SendMessage
  <2>3. y[1] = "insert" /\ y[2] = s /\ y[3] = c /\ y[4] = u
    BY <2>1
  <2>4. StepOK(y)'
    BY <1>1, <1>3, <1>4, <2>3 DEF StepOK, AboutNotification
  <2>5. PICK rest : rest = <<y>>
    OBVIOUS
  <2>6. /\ Program(rest) /\ Ends(rest, Final) /\ Begin(r, "send", {c}, Access(c, u) \o rest)
        /\ \A x \in Steps(rest) :
             /\ StepOK(x)'
             /\ x[1] \notin Guarded \/ (x[1] = "insert" /\ x[3] = c /\ x[4] = u)
    BY <1>8, <2>2, <2>3, <2>4, <2>5
  <2>7. QED
    BY <1>1, <1>2, <1>5, <2>6
<1>9. ASSUME NEW ids, Begin(r, "read", {c}, ReadMessages(c, u, ids)) PROVE ReqsOK'
  <2>1. PICK a, b, d, e : a = <<"wasRead", c>> /\ b = <<"unread", c, u, ids>> /\ d = <<"markRead", c, u, ids>>
                          /\ e = <<"nowRead", c, u>>
    OBVIOUS
  <2>2. ReadMessages(c, u, ids) = Access(c, u) \o <<a, b, d, e>>
    BY <2>1 DEF ReadMessages
  <2>3. a[1] = "wasRead" /\ b[1] = "unread" /\ d[1] = "markRead" /\ e[1] = "nowRead"
    BY <2>1
  <2>4. Ends(<<a, b, d, e>>, Final)
    BY <2>3, EndsOf4 DEF Final
  <2>5. Program(<<a, b, d, e>>) /\ Steps(<<a, b, d, e>>) = {a, b, d, e}
    BY ProgramOf4
  <2>6. \A x \in {a, b, d, e} : StepOK(x)' /\ x[1] \notin Guarded
    BY <2>3, PlainOK DEF PlainLabels
  <2>7. PICK rest : rest = <<a, b, d, e>>
    OBVIOUS
  <2>8. /\ Program(rest) /\ Ends(rest, Final) /\ Begin(r, "read", {c}, Access(c, u) \o rest)
        /\ \A x \in Steps(rest) :
             /\ StepOK(x)'
             /\ x[1] \notin Guarded \/ (x[1] = "insert" /\ x[3] = c /\ x[4] = u)
    BY <1>9, <2>2, <2>4, <2>5, <2>6, <2>7
  <2>9. QED
    BY <1>5, <2>8
<1>10. ASSUME NEW m, Begin(r, "edit", {c}, EditMessage(c, u, m)) PROVE ReqsOK'
  <2>1. PICK a, b, d, e : a = <<"owns", c, u, {m}>> /\ b = <<"edit", m>> /\ d = <<"findMessage", m>>
                          /\ e = <<"ifLast", c, u, m>>
    OBVIOUS
  <2>2. EditMessage(c, u, m) = Access(c, u) \o <<a, b, d, e>>
    BY <2>1 DEF EditMessage
  <2>3. a[1] = "owns" /\ b[1] = "edit" /\ d[1] = "findMessage" /\ e[1] = "ifLast"
    BY <2>1
  <2>4. Ends(<<a, b, d, e>>, Final)
    BY <2>3, EndsOf4 DEF Final
  <2>5. Program(<<a, b, d, e>>) /\ Steps(<<a, b, d, e>>) = {a, b, d, e}
    BY ProgramOf4
  <2>6. \A x \in {a, b, d, e} : StepOK(x)' /\ x[1] \notin Guarded
    BY <2>3, PlainOK DEF PlainLabels
  <2>7. PICK rest : rest = <<a, b, d, e>>
    OBVIOUS
  <2>8. /\ Program(rest) /\ Ends(rest, Final) /\ Begin(r, "edit", {c}, Access(c, u) \o rest)
        /\ \A x \in Steps(rest) :
             /\ StepOK(x)'
             /\ x[1] \notin Guarded \/ (x[1] = "insert" /\ x[3] = c /\ x[4] = u)
    BY <1>10, <2>2, <2>4, <2>5, <2>6, <2>7
  <2>9. QED
    BY <1>5, <2>8
<1>11. ASSUME NEW ids, Begin(r, "deleteMessages", {c}, DeleteMessages(c, u, ids)) PROVE ReqsOK'
  <2>1. PICK a, b, d, e, f, g :
          /\ a = <<"owns", c, u, ids>> /\ b = <<"unreadBefore", c, u, ids>> /\ d = <<"lastBefore", c, ids>>
          /\ e = <<"deleteMessages", c, ids>> /\ f = <<"readNewLast", c>> /\ g = <<"setLast", c, u>>
    OBVIOUS
  <2>2. DeleteMessages(c, u, ids) = <<a, b, d, e, f, g>>
    BY <2>1 DEF DeleteMessages
  <2>3. /\ a[1] = "owns" /\ b[1] = "unreadBefore" /\ d[1] = "lastBefore" /\ e[1] = "deleteMessages"
        /\ f[1] = "readNewLast" /\ g[1] = "setLast"
    BY <2>1
  <2>4. PICK q : q = <<a, b, d, e, f, g>>
    OBVIOUS
  <2>5. Program(q) /\ Steps(q) = {a, b, d, e, f, g} /\ Ends(q, Final)
    <3>1. a[1] \notin Final /\ b[1] \notin Final /\ d[1] \notin Final /\ e[1] \notin Final /\ f[1] \notin Final
      BY <2>3 DEF Final
    <3>2. QED
      BY <2>4, <3>1, ProgramOf6
  <2>6. \A x \in Steps(q) : x[1] \in PlainLabels
    BY <2>3, <2>5 DEF PlainLabels
  <2>7. \A x \in Steps(q) : StepOK(x)'
    BY <2>6, PlainOK
  <2>8. ASSUME NEW x \in Steps(q), x[1] \in Guarded PROVE \E y \in Steps(q) : Before(y, x)
    <3>1. x[1] = "setLast"
      BY <2>6, <2>8, PlainOK
    <3>2. Before(f, x)
      BY <2>3, <3>1 DEF Before
    <3>3. QED
      BY <2>5, <3>2
  <2>9. QED
    BY <1>1, <1>2, <1>11, <2>2, <2>4, <2>5, <2>7, <2>8, BeginOK
<1>12. ReqsOK'
  BY <1>3, <1>6, <1>7, <1>8, <1>9, <1>10, <1>11
<1>13. QED
  BY <1>1, <1>2, <1>12

-----------------------------------------------------------------------------
(* The theorem of the types *)

LEMMA TypesInit == ASSUME Init PROVE TypesInv
<1>1. mix \in Mixes /\ Consistent(mix.tables)
  BY RealtimeAssumption DEF Init, HandlersInit
<1>2. ReqsOK
  <2>1. Proper /\ \A r \in Requests : req[r] = Idle /\ Left(r) = {}
    BY NoneYet DEF Init
  <2>2. ASSUME NEW r \in Requests PROVE ReqOK(r)
    <3>1. req[r].todo = <<>> /\ Left(r) = {}
      BY <2>1 DEF Idle
    <3>2. QED
      BY <3>1 DEF ReqOK, Ends
  <2>3. mix.calls \in Nat /\ mix.faults \in Nat /\ calls = 0 /\ faults = 0
    BY <1>1, HandlersAssumption DEF Init, HandlersInit
  <2>4. CallsOK
    BY <1>1, <2>3 DEF CallsOK
  <2>5. QED
    BY <2>1, <2>2, <2>4 DEF ReqsOK
<1>3. /\ conversation = mix.tables.conversations /\ message = mix.tables.messages
      /\ rooms = mix.tables.rooms /\ connected = mix.tables.connected
      /\ notification = <<>> /\ device = mix.tables.devices
  BY DEF Init, ChatInit, GatewayInit, PresenceInit, NotificationsInit
<1>4. PresenceOK
  <2>1. /\ timers = [u \in Users |-> "none"] /\ orphans = [u \in Users |-> 0]
        /\ online = [u \in Users |-> Online(u)] /\ told = online
    BY DEF Init, PresenceInit
  <2>2. \A u \in Users : Online(u) \in BOOLEAN
    BY DEF Online
  <2>3. connected \subseteq Sockets
    BY <1>1, <1>3 DEF Consistent
  <2>4. timers \in [Users -> {"none", "set", "fired"}] /\ orphans \in [Users -> Nat]
    BY <2>1
  <2>5. online \in [Users -> BOOLEAN] /\ told \in [Users -> BOOLEAN]
    BY <2>1, <2>2, Zenon
  <2>6. QED
    BY <2>3, <2>4, <2>5 DEF PresenceOK
<1>5. RoomsOK /\ DevicesOK
  BY <1>1, <1>3 DEF Consistent, RoomsOK, DevicesOK
<1>6. ChatOK
  <2>1. /\ conversation \in Seq(ConversationRow) /\ message \in Seq(MessageRow(DOMAIN conversation))
    BY <1>1, <1>3 DEF Consistent
  <2>2. OfTwo
    BY <1>1, <1>3 DEF Consistent, OfTwo
  <2>3. SentByParticipants
    BY <1>1, <1>3 DEF Consistent, SentByParticipants, Participants
  <2>4. QED
    BY <2>1, <2>2, <2>3 DEF ChatOK
<1>7. NoticesOK
  BY <1>3 DEF NoticesOK
<1>8. QED
  BY <1>2, <1>4, <1>5, <1>6, <1>7 DEF TypesInv

\* A step of the handlers, of the chat or of the messages, or what arrives, keeps the types.
LEMMA ChatKept ==
  ASSUME TypesInv, NEW r \in Requests, UNCHANGED <<presenceVars, noticeVars>>,
         \/ ChatSteps(r) \/ MessageSteps(r) \/ BeginMessages(r)
         \/ BeginConversations(r) /\ UNCHANGED gatewayVars
  PROVE  TypesInv' /\ Grows
<1>1. PresenceOK' /\ DevicesOK' /\ connected' = connected /\ ChatOK /\ RoomsOK /\ NoticesOK
      /\ notification' = notification
  BY DEF TypesInv, PresenceOK, DevicesOK, presenceVars, noticeVars
<1>2. ASSUME ReqsOK', ChatOK', Grows, rooms' = rooms PROVE TypesInv' /\ Grows
  <2>1. NoticesOK' /\ RoomsOK'
    BY <1>1, <1>2, SameNotices, SameRooms
  <2>2. QED
    BY <1>1, <1>2, <2>1 DEF TypesInv
<1>3. ASSUME UNCHANGED <<conversation, message>> PROVE ChatOK'
  BY <1>1, <1>3, SameChat
<1>4. CASE Enter(r) \/ Exit(r)
  <2>1. ReqsOK' /\ RoomsOK' /\ UNCHANGED <<conversation, message>> /\ Grows
    BY <1>4, RoomsKept
  <2>2. ChatOK' /\ NoticesOK'
    BY <1>1, <1>3, <2>1, SameNotices
  <2>3. QED
    BY <1>1, <2>1, <2>2 DEF TypesInv
<1>5. CASE ChatSteps(r) \/ (BeginConversations(r) /\ UNCHANGED gatewayVars)
  <2>1. rooms' = rooms
    BY <1>5 DEF ChatSteps, gatewayVars
  <2>2. CASE BeginConversations(r)
    BY <1>2, <1>3, <2>1, <2>2, ConversationsBegin
  <2>3. CASE CreateConversation(r) \/ DeleteConversation(r) \/ RestoreConversation(r)
    BY <1>2, <2>1, <2>3, ConversationsKept
  <2>4. CASE \/ VerifyAccess(r) \/ FindConversation(r) \/ GetLastMessage(r) \/ ShowPreview(r)
             \/ FindConversations(r) \/ MayTalk(r) \/ FindExisting(r) \/ StillThere(r)
    BY <1>2, <1>3, <2>1, <2>4, ChecksKept
  <2>5. QED
    BY <1>5, <2>2, <2>3, <2>4 DEF ChatSteps
<1>6. CASE BeginMessages(r)
  BY <1>2, <1>3, <1>6, MessagesBegin
<1>7. CASE InsertMessage(r)
  BY <1>2, <1>7, InsertKept DEF InsertMessage, gatewayVars
<1>8. CASE EmitMessageNew(r)
  BY <1>2, <1>3, <1>8, EmitKept DEF EmitMessageNew
<1>9. CASE Touch(r) \/ SetLast(r)
  BY <1>2, <1>9, LastKept DEF Touch, SetLast, gatewayVars
<1>10. CASE \/ FindMessage(r) \/ WasRead(r) \/ CountUnread(r) \/ NowRead(r) \/ VerifyMessageOwnership(r)
            \/ IfLast(r) \/ UnreadBefore(r) \/ LastBefore(r) \/ ReadNewLast(r)
  <2>1. rooms' = rooms
    BY <1>10 DEF FindMessage, WasRead, CountUnread, NowRead, VerifyMessageOwnership, IfLast,
                 UnreadBefore, LastBefore, ReadNewLast, gatewayVars
  <2>2. QED
    BY <1>2, <1>3, <1>10, <2>1, ReadsKept
<1>11. CASE MarkMessagesAsRead(r) \/ Edit(r) \/ DeleteRows(r)
  <2>1. rooms' = rooms
    BY <1>11 DEF MarkMessagesAsRead, Edit, DeleteRows, gatewayVars
  <2>2. QED
    BY <1>2, <1>11, <2>1, EditsKept
<1>12. QED
  BY <1>4, <1>5, <1>6, <1>7, <1>8, <1>9, <1>10, <1>11 DEF MessageSteps

LEMMA TypesStep == ASSUME TypesInv, Next PROVE TypesInv' /\ Grows
<1>1. PICK r \in Requests : Arrive(r) \/ Progress(r) \/ Serve(r) \/ Fail(r)
  BY DEF Next
<1>2. CASE Arrive(r)
  BY <1>2, ConnectionsKept, NotificationsKept, ChatKept DEF Arrive
<1>3. CASE Progress(r)
  BY <1>3, PresenceKept, NotificationsKept, ChatKept DEF Progress
<1>4. CASE Serve(r)
  BY <1>4, ConnectionsKept, NotificationsKept DEF Serve
<1>5. CASE Fail(r)
  <2>1. CASE FailAttempt(r) /\ UNCHANGED <<presenceVars, chatVars, gatewayVars>>
    BY <2>1, NotificationsKept
  <2>2. CASE Fault(r) /\ UNCHANGED <<presenceVars, noticeVars, chatVars, gatewayVars>>
    <3>1. Grows /\ ReqsOK /\ ChatOK /\ NoticesOK /\ RoomsOK
      BY <2>2, SameGrows DEF chatVars, noticeVars, TypesInv
    <3>2. ReqsOK'
      BY <2>2, <3>1, FaultOK
    <3>3. ChatOK' /\ NoticesOK' /\ RoomsOK'
      BY <2>2, <3>1, SameChat, SameNotices, SameRooms DEF chatVars, noticeVars, gatewayVars, presenceVars
    <3>4. PresenceOK' /\ DevicesOK'
      BY <2>2 DEF TypesInv, PresenceOK, DevicesOK, presenceVars, noticeVars
    <3>5. QED
      BY <3>1, <3>2, <3>3, <3>4 DEF TypesInv
  <2>3. QED
    BY <1>5, <2>1, <2>2 DEF Fail
<1>6. QED
  BY <1>1, <1>2, <1>3, <1>4, <1>5

LEMMA TypesStutter == ASSUME TypesInv, UNCHANGED vars PROVE TypesInv' /\ Grows
<1>1. /\ UNCHANGED <<req, mix, calls, faults>> /\ UNCHANGED <<conversation, message, notification, device>>
      /\ UNCHANGED <<rooms, connected, timers, orphans, online, told>>
  BY DEF vars, presenceVars, noticeVars, chatVars, gatewayVars
<1>2. Grows
  BY <1>1, SameGrows
<1>3. ReqsOK'
  <2>1. Proper' /\ CallsOK'
    BY <1>1 DEF TypesInv, ReqsOK, Proper, CallsOK
  <2>2. ASSUME NEW r \in Requests PROVE ReqOK(r)'
    <3>1. \A x \in Left(r) : StepOK(x)'
      BY <1>2, StepGrows DEF TypesInv, ReqsOK, ReqOK
    <3>2. Left(r)' = Left(r) /\ req'[r].todo = req[r].todo
      BY <1>1 DEF Left
    <3>3. \A x \in Left(r) : Ready(r, x) => Ready(r, x)'
      BY <1>1 DEF Ready, Participants
    <3>4. QED
      BY <3>1, <3>2, <3>3 DEF ReqOK, TypesInv, ReqsOK
  <2>3. QED
    BY <2>1, <2>2 DEF ReqsOK
<1>4. ChatOK' /\ NoticesOK' /\ RoomsOK'
  BY <1>1, <1>2, SameChat, SameNotices, SameRooms DEF TypesInv
<1>5. PresenceOK' /\ DevicesOK'
  BY <1>1 DEF TypesInv, PresenceOK, DevicesOK
<1>6. QED
  BY <1>2, <1>3, <1>4, <1>5 DEF TypesInv

LEMMA TypesHold == TypesInv => RealtimeInv
<1> SUFFICES ASSUME TypesInv PROVE RealtimeInv
  OBVIOUS
<1>1. \A n \in DOMAIN notification : notification[n] \in NotificationRow
  BY ElementOfSeq DEF TypesInv, NoticesOK
<1>2. \A n \in DOMAIN notification :
        /\ notification[n].user \in Users /\ notification[n].about \in 0..Len(message)
        /\ notification[n].job \in {"none", "waiting", "active", "done", "failed"}
  BY <1>1 DEF NotificationRow, TypesInv, NoticesOK
<1>3. QED
  BY <1>2 DEF RealtimeInv, TypeOK, TypesInv, ReqsOK, CallsOK, PresenceOK, RoomsOK, ChatOK, DevicesOK

LEMMA TypesAlways == Spec => []TypesInv
<1>1. Init => TypesInv
  BY TypesInit
<1>2. TypesInv /\ [Next]_vars => TypesInv'
  BY TypesStep, TypesStutter
<1>3. QED
  BY <1>1, <1>2, PTL DEF Spec

\* Every table of the gateway, the chat and the notifications has rows that refer to rows that are
\* there, and every message is of a participant of its conversation: what the access check found
\* is still so when the message is inserted, after an await.
THEOREM RealtimeTypes == Spec => []RealtimeInv
BY TypesAlways, TypesHold, PTL

-----------------------------------------------------------------------------
(* What a step adds to what is left *)

\* The request r has gone on, with the steps that it had and some with these labels, or has ended.
Moved(r, labels) ==
  /\ Elsewhere(r) /\ req[r].todo # <<>>
  /\ \A x \in Left(r)' : x \in Steps(Tail(req[r].todo)) \/ x[1] \in labels
  /\ req'[r] # Idle => /\ req'[r].op = req[r].op /\ req'[r].about = req[r].about
                       /\ Steps(Tail(req[r].todo)) \subseteq Left(r)'
  /\ UNCHANGED <<mix, faults, contended>>

\* What follows a step with a label.
Adds(label) ==
  CASE label = "insert"       -> PreviewLabels \cup {"touch", "findMessage", "emitNew"}
    [] label = "emitNew"      -> {"found", "store"}
    [] label = "findExisting" -> PreviewLabels \cup {"createConversation"}
    [] label \in {"list", "createConversation", "nowRead", "ifLast", "setLast"} -> PreviewLabels
    [] label = "join"         -> {"setOnline", "tellStatus"}
    [] label \in AboutNotification \cup {"store"} -> NoticeSteps
    [] OTHER -> {}

LEMMA AddsOf ==
  ASSUME NEW label
  PROVE  /\ label = "insert" => Adds(label) = PreviewLabels \cup {"touch", "findMessage", "emitNew"}
         /\ label = "emitNew" => Adds(label) = {"found", "store"}
         /\ label = "findExisting" => Adds(label) = PreviewLabels \cup {"createConversation"}
         /\ label \in {"list", "createConversation", "nowRead", "ifLast", "setLast"} =>
              Adds(label) = PreviewLabels
         /\ label = "join" => Adds(label) = {"setOnline", "tellStatus"}
         /\ label \in AboutNotification \cup {"store"} => Adds(label) = NoticeSteps
<1>1. CASE label = "insert"
  BY <1>1 DEF Adds, AboutNotification
<1>2. CASE label = "emitNew"
  BY <1>2 DEF Adds, AboutNotification
<1>3. CASE label = "findExisting"
  BY <1>3 DEF Adds, AboutNotification
<1>4. CASE label \in {"list", "createConversation", "nowRead", "ifLast", "setLast"}
  BY <1>4 DEF Adds, AboutNotification
<1>5. CASE label = "join"
  BY <1>5 DEF Adds, AboutNotification
<1>6. CASE label \in AboutNotification \cup {"store"}
  BY <1>6 DEF Adds, AboutNotification
<1>7. QED
  BY <1>1, <1>2, <1>3, <1>4, <1>5, <1>6

LEMMA MovedPast ==
  ASSUME Proper, NEW r \in Requests, req[r].todo # <<>>, NEW labels,
         Continue(r) \/ Throw(r) \/ \E k, v : Read(r, k, v)
  PROVE  Moved(r, labels)
<1>1. CASE Throw(r)
  BY <1>1, Throws DEF Moved, Thrown
<1>2. CASE Continue(r) \/ \E k, v : Read(r, k, v)
  <2>1. PICK got : Goes(r, Tail(req[r].todo), got)
    BY <1>2 DEF Continue, Read
  <2>2. /\ Went(r, <<>>) /\ contended' = contended /\ Left(r)' = Steps(Tail(req[r].todo))
        /\ req'[r] # Idle => req'[r].about = req[r].about
    BY <2>1, Continues
  <2>3. QED
    BY <2>2 DEF Moved, Went
<1>3. QED
  BY <1>1, <1>2

LEMMA MovedOn ==
  ASSUME Proper, NEW r \in Requests, req[r].todo # <<>>, NEW labels, NEW more, Do(r, more), Program(more),
         \A x \in Steps(more) : x[1] \in labels
  PROVE  Moved(r, labels)
<1>1. /\ Went(r, more) /\ contended' = contended
      /\ req'[r] # Idle => req'[r].about = req[r].about
      /\ Left(r)' = Steps(more) \cup Steps(Tail(req[r].todo))
  BY Does DEF Do
<1>2. QED
  BY <1>1 DEF Moved, Went

LEMMA StepsAdded ==
  ASSUME TypesInv, NEW r \in Requests, Progress(r)
  PROVE  Moved(r, Adds(req[r].todo[1][1]))
<1>1. Proper
  BY DEF TypesInv, ReqsOK
<1>2. PICK h : h = req[r].todo[1]
  OBVIOUS
<1>3. ASSUME req[r].todo # <<>>, NEW more, Do(r, more), Program(more),
             \A x \in Steps(more) : x[1] \in Adds(h[1])
      PROVE  Moved(r, Adds(h[1]))
  BY <1>1, <1>3, MovedOn
<1>4. ASSUME req[r].todo # <<>>, Continue(r) \/ Throw(r) \/ \E k, v : Read(r, k, v)
      PROVE  Moved(r, Adds(h[1]))
  BY <1>1, <1>4, MovedPast
<1>5. ASSUME req[r].todo # <<>>, Adds(h[1]) = PreviewLabels, NEW more, Do(r, more), Program(more),
             \A x \in Steps(more) : x[1] \in PreviewLabels
      PROVE  Moved(r, Adds(h[1]))
  BY <1>3, <1>5
<1>6. Arg(r, 1) = h[2] /\ Arg(r, 2) = h[3] /\ Arg(r, 3) = h[4]
  BY <1>2 DEF Arg
<1>7. CASE PresenceSteps(r)
  <2>1. CASE HandleConnection(r)
    <3>1. PICK more, u : Do(r, more) /\ (more = <<>> \/ more = ShowAs(u, TRUE))
      BY <2>1 DEF HandleConnection
    <3>2. h[1] = "join" /\ req[r].todo # <<>>
      BY <1>2, <2>1 DEF HandleConnection, At
    <3>3. Adds(h[1]) = {"setOnline", "tellStatus"}
      BY <3>2, AddsOf
    <3>4. Program(more) /\ \A x \in Steps(more) : x[1] \in {"setOnline", "tellStatus"}
      BY <3>1, ShowAsSteps, NoProgram
    <3>5. QED
      BY <1>2, <1>3, <3>1, <3>2, <3>3, <3>4
  <2>2. CASE HandleDisconnect(r) \/ UpdateOnlineStatus(r) \/ NotifyUserStatusUpdate(r)
    BY <1>2, <1>4, <2>2 DEF HandleDisconnect, UpdateOnlineStatus, NotifyUserStatusUpdate, At
  <2>3. QED
    BY <1>7, <2>1, <2>2 DEF PresenceSteps
<1>8. CASE NotificationsSteps(r)
  <2>0. /\ req[r].todo # <<>>
        /\ h[1] \in AboutNotification \cup {"store", "markAsRead", "findDevice", "saveDevice", "deleteDevice"}
    BY <1>2, <1>8 DEF NotificationsSteps, Create, IsOnline, CreateDelivery, Send, Enqueue,
         HandlePushNotification, SendPush, HandleTelegramNotification, Complete, ReadNotifications,
         FindDevice, SaveDevice, DeleteTokens, At, AboutNotification
  <2>1. \/ Continue(r) \/ Throw(r) \/ \E k, v : Read(r, k, v)
        \/ /\ h[1] \in AboutNotification \cup {"store"}
           /\ \E n, more, tokens :
                /\ Do(r, more)
                /\ \/ more = <<>> \/ more = <<<<"ifOnline", n>>, <<"enqueue", n>>>>
                   \/ more = <<<<"record", n, "WEBSOCKET">>, <<"send", n, "WEBSOCKET">>>>
                   \/ more = <<<<"record", n, "FCM">>, <<"multicast", n, "FCM", tokens>>>>
                   \/ more = <<<<"deleteDevice", Users, tokens>>>>
                   \/ more = <<<<"record", n, "TG_BOT">>, <<"send", n, "TG_BOT">>>>
    <3>1. CASE Create(r)
      BY <1>2, <3>1 DEF Create, At
    <3>2. CASE IsOnline(r)
      BY <1>2, <3>2 DEF IsOnline, At, AboutNotification
    <3>3. CASE HandlePushNotification(r)
      BY <1>2, <3>3 DEF HandlePushNotification, At, AboutNotification
    <3>4. CASE SendPush(r)
      BY <1>2, <3>4 DEF SendPush, At, AboutNotification
    <3>5. CASE HandleTelegramNotification(r)
      BY <1>2, <3>5 DEF HandleTelegramNotification, At, AboutNotification
    <3>6. CASE \/ CreateDelivery(r) \/ Send(r) \/ Enqueue(r) \/ Complete(r) \/ ReadNotifications(r)
               \/ FindDevice(r) \/ SaveDevice(r) \/ DeleteTokens(r)
      BY <3>6 DEF CreateDelivery, Send, Enqueue, Complete, ReadNotifications, FindDevice, SaveDevice,
                  DeleteTokens
    <3>7. QED
      BY <1>8, <3>1, <3>2, <3>3, <3>4, <3>5, <3>6 DEF NotificationsSteps
  <2>2. CASE Continue(r) \/ Throw(r) \/ \E k, v : Read(r, k, v)
    BY <1>2, <1>4, <2>0, <2>2
  <2>3. CASE ~(Continue(r) \/ Throw(r) \/ \E k, v : Read(r, k, v))
    <3>1. PICK n, more, tokens :
                /\ Do(r, more)
                /\ \/ more = <<>> \/ more = <<<<"ifOnline", n>>, <<"enqueue", n>>>>
                   \/ more = <<<<"record", n, "WEBSOCKET">>, <<"send", n, "WEBSOCKET">>>>
                   \/ more = <<<<"record", n, "FCM">>, <<"multicast", n, "FCM", tokens>>>>
                   \/ more = <<<<"deleteDevice", Users, tokens>>>>
                   \/ more = <<<<"record", n, "TG_BOT">>, <<"send", n, "TG_BOT">>>>
      BY <2>1, <2>3
    <3>2. ASSUME NEW a, NEW b, a[1] \in NoticeSteps, b[1] \in NoticeSteps,
                 more = <<a, b>> \/ more = <<a>> \/ more = <<>>
          PROVE  Program(more) /\ \A x \in Steps(more) : x[1] \in NoticeSteps
      BY <3>2, NoProgram, ProgramOf1, ProgramOf2
    <3>3. Program(more) /\ \A x \in Steps(more) : x[1] \in NoticeSteps
      <4>1. \A a : a[1] \in {"ifOnline", "enqueue", "record", "send", "multicast", "deleteDevice"} =>
              a[1] \in NoticeSteps
        BY DEF NoticeSteps, AboutNotification
      <4>2. CASE more = <<>>
        BY <4>2, NoProgram
      <4>3. CASE more = <<<<"ifOnline", n>>, <<"enqueue", n>>>>
        <5>1. PICK a, b : a = <<"ifOnline", n>> /\ b = <<"enqueue", n>>
          OBVIOUS
        <5>2. QED
          BY <3>2, <4>1, <4>3, <5>1
      <4>4. CASE more = <<<<"record", n, "WEBSOCKET">>, <<"send", n, "WEBSOCKET">>>>
        <5>1. PICK a, b : a = <<"record", n, "WEBSOCKET">> /\ b = <<"send", n, "WEBSOCKET">>
          OBVIOUS
        <5>2. QED
          BY <3>2, <4>1, <4>4, <5>1
      <4>5. CASE more = <<<<"record", n, "FCM">>, <<"multicast", n, "FCM", tokens>>>>
        <5>1. PICK a, b : a = <<"record", n, "FCM">> /\ b = <<"multicast", n, "FCM", tokens>>
          OBVIOUS
        <5>2. QED
          BY <3>2, <4>1, <4>5, <5>1
      <4>6. CASE more = <<<<"deleteDevice", Users, tokens>>>>
        <5>1. PICK a : a = <<"deleteDevice", Users, tokens>>
          OBVIOUS
        <5>2. QED
          BY <3>2, <4>1, <4>6, <5>1
      <4>7. CASE more = <<<<"record", n, "TG_BOT">>, <<"send", n, "TG_BOT">>>>
        <5>1. PICK a, b : a = <<"record", n, "TG_BOT">> /\ b = <<"send", n, "TG_BOT">>
          OBVIOUS
        <5>2. QED
          BY <3>2, <4>1, <4>7, <5>1
      <4>8. QED
        BY <3>1, <4>2, <4>3, <4>4, <4>5, <4>6, <4>7
    <3>4. Adds(h[1]) = NoticeSteps
      BY <2>1, <2>3, AddsOf
    <3>5. QED
      BY <1>2, <1>3, <2>0, <3>1, <3>3, <3>4
  <2>4. QED
    BY <2>2, <2>3
<1>9. CASE ChatSteps(r)
  <2>1. CASE FindConversations(r)
    <3>1. PICK S : Do(r, ShowAll(SetToSeq(S), h[2])) /\ S = {c \in DOMAIN conversation : MayEnter(c, h[2])}
      BY <1>6, <2>1 DEF FindConversations
    <3>2. h[1] = "list" /\ req[r].todo # <<>>
      BY <1>2, <2>1 DEF FindConversations, At
    <3>3. DOMAIN conversation = 1..Len(conversation) /\ Len(conversation) \in Nat
      BY ChatRows DEF TypesInv
    <3>4. S \subseteq 1..Len(conversation)
      BY <3>1, <3>3
    <3>5. IsFiniteSet(S)
      <4>1. IsFiniteSet(1..Len(conversation))
        BY <3>3, FS_Interval
      <4>2. QED
        BY <3>4, <4>1, FS_Subset
    <3>6. Cardinality(S) \in Nat /\ SetToSeq(S) \in [1..Cardinality(S) -> S]
      BY <3>5, SetInSequence
    <3>7. /\ Program(ShowAll(SetToSeq(S), h[2]))
          /\ \A x \in Steps(ShowAll(SetToSeq(S), h[2])) : x[1] \in PreviewLabels
      BY <3>6, ShowAllProgram
    <3>8. Adds(h[1]) = PreviewLabels
      BY <3>2, AddsOf
    <3>9. QED
      BY <1>2, <1>5, <3>1, <3>2, <3>7, <3>8
  <2>2. CASE FindExisting(r)
    <3>1. PICK more, c : Do(r, more) /\ (more = GetPreview(c, h[2]) \/
                                         more = <<<<"createConversation", h[2], h[3], h[4]>>>>)
      BY <1>6, <2>2 DEF FindExisting
    <3>2. h[1] = "findExisting" /\ req[r].todo # <<>>
      BY <1>2, <2>2 DEF FindExisting, At
    <3>3. Adds(h[1]) = PreviewLabels \cup {"createConversation"}
      BY <3>2, AddsOf
    <3>4. Program(more) /\ \A x \in Steps(more) : x[1] \in PreviewLabels \cup {"createConversation"}
      <4>1. CASE more = GetPreview(c, h[2])
        BY <4>1, GetPreviewProgram
      <4>2. CASE more = <<<<"createConversation", h[2], h[3], h[4]>>>>
        BY <4>2, ProgramOf1
      <4>3. QED
        BY <3>1, <4>1, <4>2
    <3>5. QED
      BY <1>2, <1>3, <3>1, <3>2, <3>3, <3>4
  <2>3. CASE CreateConversation(r)
    <3>1. PICK c : Do(r, GetPreview(c, h[2]))
      BY <1>6, <2>3 DEF CreateConversation
    <3>2. h[1] = "createConversation" /\ req[r].todo # <<>>
      BY <1>2, <2>3 DEF CreateConversation, At
    <3>3. Adds(h[1]) = PreviewLabels
      BY <3>2, AddsOf
    <3>4. QED
      BY <1>2, <1>5, <3>1, <3>2, <3>3, GetPreviewProgram
  <2>4. CASE \/ VerifyAccess(r) \/ FindConversation(r) \/ GetLastMessage(r) \/ ShowPreview(r) \/ MayTalk(r)
             \/ DeleteConversation(r) \/ StillThere(r) \/ RestoreConversation(r)
    <3>1. req[r].todo # <<>> /\ (Continue(r) \/ Throw(r) \/ \E k, v : Read(r, k, v))
      BY <2>4 DEF VerifyAccess, FindConversation, GetLastMessage, ShowPreview, MayTalk,
                  DeleteConversation, StillThere, RestoreConversation, Require, At
    <3>2. QED
      BY <1>2, <1>4, <3>1
  <2>5. QED
    BY <1>9, <2>1, <2>2, <2>3, <2>4 DEF ChatSteps
<1>10. CASE MessageSteps(r)
  <2>1. CASE InsertMessage(r)
    <3>1. req[r].todo # <<>> /\ h[1] = "insert"
      BY <1>2, <2>1 DEF InsertMessage, At
    <3>2. PICK m : Throw(r) \/ Do(r, Stored(h[2], h[3], h[4], m))
      BY <1>6, <2>1 DEF InsertMessage
    <3>3. Adds(h[1]) = PreviewLabels \cup {"touch", "findMessage", "emitNew"}
      BY <3>1, AddsOf
    <3>4. PICK q : q = Stored(h[2], h[3], h[4], m)
      OBVIOUS
    <3>5. Program(q) /\ \A x \in Steps(q) : x[1] \in Adds(h[1])
      <4>1. /\ Program(q)
            /\ Steps(q) = {<<"touch", h[3]>>, <<"findMessage", m>>, <<"emitNew", h[2], h[3], h[4], m>>}
                            \cup Steps(Previews(h[3], h[4]))
        BY <3>4, StoredProgram
      <4>2. \A x \in Steps(Previews(h[3], h[4])) : x[1] \in PreviewLabels
        BY PreviewsProgram
      <4>3. QED
        BY <3>3, <4>1, <4>2
    <3>6. QED
      BY <1>2, <1>3, <1>4, <3>1, <3>2, <3>4, <3>5
  <2>2. CASE EmitMessageNew(r)
    <3>1. req[r].todo # <<>> /\ h[1] = "emitNew"
      BY <1>2, <2>2 DEF EmitMessageNew, At
    <3>2. PICK more, c, v, m : /\ Continue(r) \/ Do(r, more)
                               /\ more = <<<<"found", c>>>> \o Signal(v, "MESSAGE_NEW", m)
      BY <2>2 DEF EmitMessageNew
    <3>3. PICK f, e : f = <<"found", c>> /\ e = <<"store", v, "MESSAGE_NEW", m>>
      OBVIOUS
    <3>4. Program(more) /\ Steps(more) = {f, e}
      <4>1. more = <<f, e>>
        BY <3>2, <3>3, JoinOf1 DEF Signal
      <4>2. QED
        BY <4>1, ProgramOf2
    <3>5. Adds(h[1]) = {"found", "store"}
      BY <3>1, AddsOf
    <3>6. \A x \in Steps(more) : x[1] \in Adds(h[1])
      BY <3>3, <3>4, <3>5
    <3>7. QED
      BY <1>2, <1>3, <1>4, <3>1, <3>2, <3>4, <3>6
  <2>3. CASE NowRead(r) \/ IfLast(r) \/ SetLast(r)
    <3>1. req[r].todo # <<>> /\ h[1] \in {"nowRead", "ifLast", "setLast"}
      BY <1>2, <2>3 DEF NowRead, IfLast, SetLast, At
    <3>2. PICK more : Do(r, more) /\ more \in {<<>>, Previews(h[2], h[3])}
      BY <1>6, <2>3 DEF NowRead, IfLast, SetLast
    <3>3. Adds(h[1]) = PreviewLabels
      BY <3>1, AddsOf
    <3>4. Program(more) /\ \A x \in Steps(more) : x[1] \in PreviewLabels
      BY <3>2, NoProgram, PreviewsProgram
    <3>5. QED
      BY <1>2, <1>5, <3>1, <3>2, <3>3, <3>4
  <2>4. CASE \/ Enter(r) \/ Exit(r) \/ Touch(r) \/ FindMessage(r) \/ WasRead(r) \/ CountUnread(r)
             \/ MarkMessagesAsRead(r) \/ VerifyMessageOwnership(r) \/ Edit(r)
             \/ UnreadBefore(r) \/ LastBefore(r) \/ DeleteRows(r) \/ ReadNewLast(r)
    <3>1. req[r].todo # <<>> /\ (Continue(r) \/ Throw(r) \/ \E k, v : Read(r, k, v))
      BY <2>4 DEF Enter, Exit, Touch, FindMessage, WasRead, CountUnread, MarkMessagesAsRead,
                  VerifyMessageOwnership, Edit, UnreadBefore, LastBefore, DeleteRows, ReadNewLast,
                  Require, At
    <3>2. QED
      BY <1>2, <1>4, <3>1
  <2>5. QED
    BY <1>10, <2>1, <2>2, <2>3, <2>4 DEF MessageSteps
<1>11. QED
  BY <1>2, <1>7, <1>8, <1>9, <1>10 DEF Progress

-----------------------------------------------------------------------------
(* What a request begins with *)

CalmLabels ==
  (PlainLabels \ {"restore", "delete", "deleteMessages"}) \cup
  {"join", "leave", "setOnline", "tellStatus", "enter", "store", "markAsRead", "findDevice",
   "deleteDevice", "mayTalk"}

\* A program begins with no step of the worker; what it will insert, find or restore, it is about,
\* and it looks before it does.
BeginsWith(op, about, steps) ==
  /\ op # "process"
  /\ \A x \in steps :
       \/ x[1] \in CalmLabels
       \/ /\ x[1] = "saveDevice" /\ x[3] \in about
          /\ \E y \in steps : y[1] = "findDevice"
          /\ \A y \in steps : y = x \/ (y[1] = "findDevice" /\ y[2] = x[2] /\ y[3] = x[3])
       \/ x[1] = "findExisting" /\ x[4] \in about
       \/ /\ x[1] = "restore" /\ x[2] \in about \cap DOMAIN conversation
          /\ \E y \in steps : y[1] = "access" /\ y[2] = x[2]
       \/ /\ x[1] = "insert" /\ x[3] \in about
          /\ \E y \in steps : y[1] = "access" /\ y[2] = x[3]
       \/ x[1] = "delete" /\ x[2] \in about /\ op = "deleteConversation"
       \/ x[1] = "deleteMessages" /\ op = "deleteMessages"

Begun(r) ==
  \E op, about, program :
    /\ Program(program) /\ Start(r, op, about, program) /\ BeginsWith(op, about, Steps(program))
    /\ op \in mix.ops \/ op = "timeout"

LEMMA CalmBegun ==
  ASSUME NEW r, NEW op, NEW about, NEW program, Program(program),
         Begin(r, op, about, program) \/ (op = "timeout" /\ Wake(r, op, about, program)), op # "process",
         \A x \in Steps(program) : x[1] \in CalmLabels
  PROVE  Begun(r)
BY DEF Begun, BeginsWith, Begin, Wake

LEMMA OneBegun ==
  ASSUME NEW r, NEW op, NEW about, NEW x, Begin(r, op, about, <<x>>), op # "process", x[1] \in CalmLabels
  PROVE  Begun(r)
<1>1. Program(<<x>>) /\ Steps(<<x>>) = {x}
  BY ProgramOf1
<1>2. QED
  BY <1>1, CalmBegun

LEMMA AccessBegun ==
  ASSUME NEW r, NEW op, NEW about, NEW c, NEW u, NEW rest, Program(rest), op \in mix.ops,
         Start(r, op, about, Access(c, u) \o rest),
         NEW a, a = <<"access", c, u>>, BeginsWith(op, about, {a} \cup Steps(rest))
  PROVE  Begun(r)
<1>1. PICK q : q = Access(c, u) \o rest
  OBVIOUS
<1>2. Program(q) /\ Steps(q) = {a} \cup Steps(rest)
  BY <1>1, AccessProgram
<1>3. QED
  BY <1>1, <1>2 DEF Begun

LEMMA NoticesBegun ==
  ASSUME NEW r \in Requests, BeginConnections(r) \/ Fire(r) \/ BeginSignals(r) \/ BeginNotifications(r) \/
                             BeginDevices(r)
  PROVE  Begun(r)
<1>1. CASE BeginConnections(r)
  <2>1. PICK s \in Sockets :
           \/ Begin(r, "connect", {SocketUser[s]}, <<<<"join", s>>>>)
           \/ Begin(r, "disconnect", {SocketUser[s]}, <<<<"leave", s>>>>)
    BY <1>1 DEF BeginConnections
  <2>2. PICK a, b : a = <<"join", s>> /\ b = <<"leave", s>>
    OBVIOUS
  <2>3. a[1] \in CalmLabels /\ b[1] \in CalmLabels
    BY <2>2 DEF CalmLabels
  <2>4. QED
    BY <2>1, <2>2, <2>3, OneBegun
<1>2. CASE Fire(r)
  <2>1. PICK u : Wake(r, "timeout", {u}, ShowAs(u, FALSE))
    BY <1>2 DEF Fire
  <2>2. Program(ShowAs(u, FALSE)) /\ \A x \in Steps(ShowAs(u, FALSE)) : x[1] \in CalmLabels
    BY ShowAsSteps DEF CalmLabels
  <2>3. QED
    BY <2>1, <2>2, CalmBegun
<1>3. CASE BeginSignals(r)
  <2>1. PICK v, type : Begin(r, "signal", {}, Signal(v, type, 0))
    BY <1>3 DEF BeginSignals
  <2>2. PICK a : a = <<"store", v, type, 0>>
    OBVIOUS
  <2>3. a[1] \in CalmLabels /\ Begin(r, "signal", {}, <<a>>)
    BY <2>1, <2>2 DEF CalmLabels, Signal
  <2>4. QED
    BY <2>3, OneBegun
<1>4. CASE BeginNotifications(r)
  <2>1. PICK u, ids : Begin(r, "readNotifications", {}, <<<<"markAsRead", ids, u>>>>)
    BY <1>4 DEF BeginNotifications, MarkAsRead
  <2>2. PICK a : a = <<"markAsRead", ids, u>>
    OBVIOUS
  <2>3. a[1] \in CalmLabels
    BY <2>2 DEF CalmLabels
  <2>4. QED
    BY <2>1, <2>2, <2>3, OneBegun
<1>5. CASE BeginDevices(r)
  <2>1. PICK u \in Users, token \in Tokens :
          \/ \E d \in Devices : Begin(r, "updateDevice", {d}, UpsertDevice(u, d, token))
          \/ Begin(r, "deleteDevice", {}, <<<<"deleteDevice", {u}, {token}>>>>)
    BY <1>5 DEF BeginDevices
  <2>2. ASSUME NEW d \in Devices, Begin(r, "updateDevice", {d}, UpsertDevice(u, d, token))
        PROVE  Begun(r)
    <3>1. PICK a, b : a = <<"findDevice", u, d, token>> /\ b = <<"saveDevice", u, d, token>>
      OBVIOUS
    <3>2. /\ a[1] = "findDevice" /\ a[2] = u /\ a[3] = d /\ b[1] = "saveDevice" /\ b[2] = u /\ b[3] = d
          /\ a[1] \in CalmLabels
      BY <3>1 DEF CalmLabels
    <3>3. PICK q : q = <<a, b>>
      OBVIOUS
    <3>4. Program(q) /\ Steps(q) = {a, b} /\ Begin(r, "updateDevice", {d}, q)
      BY <2>2, <3>1, <3>3, ProgramOf2 DEF UpsertDevice
    <3>5. BeginsWith("updateDevice", {d}, Steps(q))
      BY <3>2, <3>4 DEF BeginsWith
    <3>6. QED
      BY <3>4, <3>5 DEF Begun, Begin
  <2>3. PICK a : a = <<"deleteDevice", {u}, {token}>>
    OBVIOUS
  <2>4. a[1] \in CalmLabels
    BY <2>3 DEF CalmLabels
  <2>5. QED
    BY <2>1, <2>2, <2>3, <2>4, OneBegun
<1>6. QED
  BY <1>1, <1>2, <1>3, <1>4, <1>5

LEMMA ConversationsBegun ==
  ASSUME NEW r \in Requests, BeginConversations(r)
  PROVE  Begun(r)
<1>1. PICK u \in Speakers :
        \/ \E mine : Begin(r, "findConversations", mine, <<<<"list", u>>>>)
        \/ \E v \in Speakers, topic \in Topics \cup {NoTopic} :
             Begin(r, "getOrCreate", {topic}, GetOrCreate(u, v, topic))
        \/ \E c \in DOMAIN conversation :
             \/ Begin(r, "findConversation", {c}, Access(c, u) \o GetPreview(c, u))
             \/ \E permanent \in BOOLEAN : Begin(r, "deleteConversation", {c}, Delete(c, u, permanent))
             \/ Begin(r, "restore", {c}, Restore(c, u))
  BY DEF BeginConversations
<1>2. ASSUME NEW mine, Begin(r, "findConversations", mine, <<<<"list", u>>>>) PROVE Begun(r)
  <2>1. PICK a : a = <<"list", u>>
    OBVIOUS
  <2>2. a[1] \in CalmLabels
    BY <2>1 DEF CalmLabels, PlainLabels
  <2>3. QED
    BY <1>2, <2>1, <2>2, OneBegun
<1>3. ASSUME NEW v, NEW topic, Begin(r, "getOrCreate", {topic}, GetOrCreate(u, v, topic)) PROVE Begun(r)
  <2>1. PICK a, b : a = <<"mayTalk", u, v, topic>> /\ b = <<"findExisting", u, v, topic>>
    OBVIOUS
  <2>2. a[1] \in CalmLabels /\ b[1] = "findExisting" /\ b[4] = topic
    BY <2>1 DEF CalmLabels
  <2>3. PICK q : q = <<a, b>>
    OBVIOUS
  <2>4. Program(q) /\ Steps(q) = {a, b} /\ Begin(r, "getOrCreate", {topic}, q)
    BY <1>3, <2>1, <2>3, ProgramOf2 DEF GetOrCreate
  <2>5. BeginsWith("getOrCreate", {topic}, Steps(q))
    BY <2>2, <2>4 DEF BeginsWith
  <2>6. QED
    BY <2>4, <2>5 DEF Begun, Begin
<1>4. ASSUME NEW c PROVE \E a : a = <<"access", c, u>> /\ a[1] \in CalmLabels /\ a[1] = "access" /\ a[2] = c
  <2>1. PICK a : a = <<"access", c, u>>
    OBVIOUS
  <2>2. QED
    BY <2>1 DEF CalmLabels, PlainLabels
<1>5. ASSUME NEW c, Begin(r, "findConversation", {c}, Access(c, u) \o GetPreview(c, u)) PROVE Begun(r)
  <2>1. PICK a : a = <<"access", c, u>> /\ a[1] \in CalmLabels
    BY <1>4
  <2>2. Program(GetPreview(c, u)) /\ \A x \in Steps(GetPreview(c, u)) : x[1] \in CalmLabels
    BY GetPreviewProgram DEF PreviewLabels, PlainLabels, CalmLabels
  <2>3. BeginsWith("findConversation", {c}, {a} \cup Steps(GetPreview(c, u)))
    BY <2>1, <2>2 DEF BeginsWith
  <2>4. QED
    BY <1>5, <2>1, <2>2, <2>3, AccessBegun DEF Begin
<1>6. ASSUME NEW c, NEW permanent, Begin(r, "deleteConversation", {c}, Delete(c, u, permanent))
      PROVE  Begun(r)
  <2>1. PICK a : a = <<"access", c, u>> /\ a[1] \in CalmLabels
    BY <1>4
  <2>2. PICK b : b = <<"delete", c, permanent>>
    OBVIOUS
  <2>3. PICK rest : rest = <<b>>
    OBVIOUS
  <2>4. Program(rest) /\ Steps(rest) = {b} /\ Delete(c, u, permanent) = Access(c, u) \o rest
    BY <2>2, <2>3, ProgramOf1 DEF Delete
  <2>5. BeginsWith("deleteConversation", {c}, {a} \cup Steps(rest))
    <3>1. b[1] = "delete" /\ b[2] = c
      BY <2>2
    <3>2. QED
      BY <2>1, <2>4, <3>1 DEF BeginsWith
  <2>6. QED
    BY <1>6, <2>1, <2>4, <2>5, AccessBegun DEF Begin
<1>7. ASSUME NEW c \in DOMAIN conversation, Begin(r, "restore", {c}, Restore(c, u)) PROVE Begun(r)
  <2>1. PICK a : a = <<"access", c, u>> /\ a[1] \in CalmLabels /\ a[1] = "access" /\ a[2] = c
    BY <1>4
  <2>2. PICK b, d : b = <<"stillThere", c>> /\ d = <<"restore", c>>
    OBVIOUS
  <2>3. b[1] \in CalmLabels /\ d[1] = "restore" /\ d[2] = c
    BY <2>2 DEF CalmLabels, PlainLabels
  <2>4. PICK rest : rest = <<b, d>>
    OBVIOUS
  <2>5. Program(rest) /\ Steps(rest) = {b, d} /\ Restore(c, u) = Access(c, u) \o rest
    BY <2>2, <2>4, ProgramOf2 DEF Restore
  <2>6. BeginsWith("restore", {c}, {a} \cup Steps(rest))
    BY <1>7, <2>1, <2>3, <2>5 DEF BeginsWith
  <2>7. QED
    BY <1>7, <2>1, <2>5, <2>6, AccessBegun DEF Begin
<1>8. QED
  BY <1>1, <1>2, <1>3, <1>5, <1>6, <1>7

LEMMA MessagesBegun ==
  ASSUME NEW r \in Requests, BeginMessages(r)
  PROVE  Begun(r)
<1>1. PICK s, c, u :
        /\ \/ Begin(r, "subscribe", {}, Access(c, u) \o <<<<"enter", s, c>>>>)
           \/ Begin(r, "unsubscribe", {}, <<<<"exit", s, c>>>>)
           \/ Begin(r, "send", {c}, SendMessage(s, c, u))
           \/ \E ids : Begin(r, "read", {c}, ReadMessages(c, u, ids))
           \/ \E m : Begin(r, "edit", {c}, EditMessage(c, u, m))
           \/ \E ids : Begin(r, "deleteMessages", {c}, DeleteMessages(c, u, ids))
  BY DEF BeginMessages
<1>2. PICK a : a = <<"access", c, u>> /\ a[1] \in CalmLabels
  <2>1. PICK a : a = <<"access", c, u>>
    OBVIOUS
  <2>2. QED
    BY <2>1 DEF CalmLabels, PlainLabels
<1>3. CASE Begin(r, "subscribe", {}, Access(c, u) \o <<<<"enter", s, c>>>>)
  <2>1. PICK b : b = <<"enter", s, c>>
    OBVIOUS
  <2>2. PICK rest : rest = <<b>>
    OBVIOUS
  <2>3. Program(rest) /\ Steps(rest) = {b} /\ b[1] \in CalmLabels
    BY <2>1, <2>2, ProgramOf1 DEF CalmLabels
  <2>4. BeginsWith("subscribe", {}, {a} \cup Steps(rest))
    BY <1>2, <2>3 DEF BeginsWith
  <2>5. QED
    BY <1>2, <1>3, <2>1, <2>2, <2>3, <2>4, AccessBegun DEF Begin
<1>4. CASE Begin(r, "unsubscribe", {}, <<<<"exit", s, c>>>>)
  <2>1. PICK b : b = <<"exit", s, c>>
    OBVIOUS
  <2>2. b[1] \in CalmLabels
    BY <2>1 DEF CalmLabels, PlainLabels
  <2>3. QED
    BY <1>4, <2>1, <2>2, OneBegun
<1>5. CASE Begin(r, "send", {c}, SendMessage(s, c, u))
  <2>1. PICK b : b = <<"insert", s, c, u>>
    OBVIOUS
  <2>2. PICK rest : rest = <<b>>
    OBVIOUS
  <2>3. Program(rest) /\ Steps(rest) = {b} /\ SendMessage(s, c, u) = Access(c, u) \o rest
    BY <2>1, <2>2, ProgramOf1 DEF SendMessage
  <2>4. b[1] = "insert" /\ b[3] = c
    BY <2>1
  <2>5. BeginsWith("send", {c}, {a} \cup Steps(rest))
    <3>1. a[1] = "access" /\ a[2] = c
      BY <1>2
    <3>2. QED
      BY <1>2, <2>3, <2>4, <3>1 DEF BeginsWith
  <2>6. QED
    BY <1>2, <1>5, <2>3, <2>5, AccessBegun DEF Begin
<1>6. ASSUME NEW ids, Begin(r, "read", {c}, ReadMessages(c, u, ids)) PROVE Begun(r)
  <2>1. PICK b, d, e, f : b = <<"wasRead", c>> /\ d = <<"unread", c, u, ids>> /\ e = <<"markRead", c, u, ids>>
                          /\ f = <<"nowRead", c, u>>
    OBVIOUS
  <2>2. PICK rest : rest = <<b, d, e, f>>
    OBVIOUS
  <2>3. Program(rest) /\ Steps(rest) = {b, d, e, f} /\ ReadMessages(c, u, ids) = Access(c, u) \o rest
    BY <2>1, <2>2, ProgramOf4 DEF ReadMessages
  <2>4. b[1] \in CalmLabels /\ d[1] \in CalmLabels /\ e[1] \in CalmLabels /\ f[1] \in CalmLabels
    BY <2>1 DEF CalmLabels, PlainLabels
  <2>5. BeginsWith("read", {c}, {a} \cup Steps(rest))
    BY <1>2, <2>3, <2>4 DEF BeginsWith
  <2>6. QED
    BY <1>2, <1>6, <2>3, <2>5, AccessBegun DEF Begin
<1>7. ASSUME NEW m, Begin(r, "edit", {c}, EditMessage(c, u, m)) PROVE Begun(r)
  <2>1. PICK b, d, e, f : b = <<"owns", c, u, {m}>> /\ d = <<"edit", m>> /\ e = <<"findMessage", m>>
                          /\ f = <<"ifLast", c, u, m>>
    OBVIOUS
  <2>2. PICK rest : rest = <<b, d, e, f>>
    OBVIOUS
  <2>3. Program(rest) /\ Steps(rest) = {b, d, e, f} /\ EditMessage(c, u, m) = Access(c, u) \o rest
    BY <2>1, <2>2, ProgramOf4 DEF EditMessage
  <2>4. b[1] \in CalmLabels /\ d[1] \in CalmLabels /\ e[1] \in CalmLabels /\ f[1] \in CalmLabels
    BY <2>1 DEF CalmLabels, PlainLabels
  <2>5. BeginsWith("edit", {c}, {a} \cup Steps(rest))
    BY <1>2, <2>3, <2>4 DEF BeginsWith
  <2>6. QED
    BY <1>2, <1>7, <2>3, <2>5, AccessBegun DEF Begin
<1>8. ASSUME NEW ids, Begin(r, "deleteMessages", {c}, DeleteMessages(c, u, ids)) PROVE Begun(r)
  <2>1. PICK b, d, e, f, g, h :
          /\ b = <<"owns", c, u, ids>> /\ d = <<"unreadBefore", c, u, ids>> /\ e = <<"lastBefore", c, ids>>
          /\ f = <<"deleteMessages", c, ids>> /\ g = <<"readNewLast", c>> /\ h = <<"setLast", c, u>>
    OBVIOUS
  <2>2. PICK q : q = <<b, d, e, f, g, h>>
    OBVIOUS
  <2>3. Program(q) /\ Steps(q) = {b, d, e, f, g, h}
    <3>1. PICK labels : labels = {}
      OBVIOUS
    <3>2. /\ b[1] \notin labels /\ d[1] \notin labels /\ e[1] \notin labels
          /\ f[1] \notin labels /\ g[1] \notin labels
      BY <3>1
    <3>3. Program(<<b, d, e, f, g, h>>) /\ Steps(<<b, d, e, f, g, h>>) = {b, d, e, f, g, h}
      BY <3>2, ProgramOf6
    <3>4. QED
      BY <2>2, <3>3
  <2>4. /\ b[1] \in CalmLabels /\ d[1] \in CalmLabels /\ e[1] \in CalmLabels /\ g[1] \in CalmLabels
        /\ h[1] \in CalmLabels /\ f[1] = "deleteMessages"
    BY <2>1 DEF CalmLabels, PlainLabels
  <2>5. BeginsWith("deleteMessages", {c}, Steps(q))
    BY <2>3, <2>4 DEF BeginsWith
  <2>6. Begin(r, "deleteMessages", {c}, q)
    BY <1>8, <2>1, <2>2 DEF DeleteMessages
  <2>7. QED
    BY <2>3, <2>5, <2>6 DEF Begun, Begin
<1>9. QED
  BY <1>1, <1>3, <1>4, <1>5, <1>6, <1>7, <1>8

LEMMA StepsBegun == ASSUME NEW r \in Requests, Arrive(r) \/ Fire(r) PROVE Begun(r)
BY NoticesBegun, ConversationsBegun, MessagesBegun DEF Arrive

-----------------------------------------------------------------------------
(* What the texts are built from *)

LEMMA BookingBuilt ==
  ASSUME NEW type \in BookingTypes
  PROVE  Build(type) \subseteq Payload(type) /\ BuildTelegram(type) \subseteq Payload(type)
<1>1. type # "MESSAGE_NEW" /\ type # "REVIEW_NEW" /\ type # "LOGIN_NEW" /\ type \notin ListingTypes
  BY DEF BookingTypes, ListingTypes
<1>2. Build(type) = BookingText(type)
  BY <1>1 DEF Build
<1>3. Payload(type) = BookingPayload(type)
  BY <1>1 DEF Payload
<1>4. Build(type) \cup {"bookingId"} \subseteq Payload(type)
  <2>1. CASE type = "BOOKING_NEW"
    BY <1>2, <1>3, <2>1 DEF BookingText, BookingPayload
  <2>2. CASE type = "BOOKING_PERIOD_UPDATED"
    BY <1>2, <1>3, <2>2 DEF BookingText, BookingPayload
  <2>3. CASE type \notin {"BOOKING_NEW", "BOOKING_PERIOD_UPDATED"}
    <3>1. BookingText(type) \subseteq {"listingTitle", "startDate", "endDate", "price"}
      BY <2>3 DEF BookingText, BookingTypes
    <3>2. {"bookingId", "listingTitle", "startDate", "endDate", "price"} \subseteq BookingPayload(type)
      BY DEF BookingPayload
    <3>3. QED
      BY <1>2, <1>3, <3>1, <3>2
  <2>4. QED
    BY <2>1, <2>2, <2>3
<1>5. BuildTelegram(type) \subseteq Build(type) \cup {"bookingId"}
  BY <1>2 DEF BuildTelegram
<1>6. QED
  BY <1>4, <1>5

LEMMA TextsBuilt ==
  ASSUME NEW type \in SignalTypes
  PROVE  Build(type) \subseteq Payload(type) /\ BuildTelegram(type) \subseteq Payload(type)
<1>1. CASE type = "MESSAGE_NEW"
  <2>1. Build(type) = MessageText /\ Payload(type) = MessagePayload
    BY <1>1 DEF Build, Payload, BookingTypes, ListingTypes
  <2>2. BuildTelegram(type) = Build(type)
    BY <1>1 DEF BuildTelegram
  <2>3. QED
    BY <2>1, <2>2 DEF MessageText, MessagePayload
<1>2. CASE type = "REVIEW_NEW"
  <2>1. Build(type) = ReviewText
    BY <1>2 DEF Build, BookingTypes, ListingTypes
  <2>2. Payload(type) = ReviewText \cup {"reviewId", "bookingId", "listingId"}
    BY <1>2 DEF Payload, BookingTypes
  <2>3. BuildTelegram(type) = Build(type)
    BY <1>2 DEF BuildTelegram
  <2>4. QED
    BY <2>1, <2>2, <2>3
<1>3. CASE type \in BookingTypes
  BY <1>3, BookingBuilt
<1>4. QED
  BY <1>1, <1>2, <1>3 DEF SignalTypes

\* The builder of the texts casts the payload to what it expects without a check: for every signal
\* that is emitted, each field that a text is built from is one that the emitter put into it.
THEOREM PayloadsSuffice == Spec => []NothingMissing
<1>1. TypesInv => NothingMissing
  <2> SUFFICES ASSUME TypesInv, NEW n \in DOMAIN notification
               PROVE  notification[n].type \in SignalTypes
    BY TextsBuilt DEF NothingMissing
  <2>1. notification[n] \in NotificationRow
    BY ElementOfSeq DEF TypesInv, NoticesOK
  <2>2. QED
    BY <2>1 DEF NotificationRow
<1>2. QED
  BY <1>1, TypesAlways, PTL

-----------------------------------------------------------------------------
(* What is left of the work on a notification *)

PushOf(n) == <<"push", n>>
TelegramOf(n) == <<"telegram", n>>
CompleteOf(n) == <<"complete", n>>
RecordOf(n, ch) == <<"record", n, ch>>
SendOf(n, ch) == <<"send", n, ch>>
MulticastOf(n, tokens) == <<"multicast", n, "FCM", tokens>>
DeleteOf(tokens) == <<"deleteDevice", Users, tokens>>
IfOnlineOf(n) == <<"ifOnline", n>>
EnqueueOf(n) == <<"enqueue", n>>

\* What is left of the worker's program, and what is recorded and sent by then.
ToPush(row) == row.recorded["FCM"] < row.tries
ToTelegram(row) == row.recorded["TG_BOT"] < row.tries
Working(q, n, row) ==
  \/ q = <<PushOf(n), TelegramOf(n), CompleteOf(n)>> /\ ToPush(row) /\ ToTelegram(row)
  \/ \E tokens :
       \/ /\ q = <<RecordOf(n, "FCM"), MulticastOf(n, tokens), TelegramOf(n), CompleteOf(n)>>
          /\ ToPush(row) /\ ToTelegram(row)
       \/ /\ q = <<MulticastOf(n, tokens), TelegramOf(n), CompleteOf(n)>>
          /\ row.sent["FCM"] < row.recorded["FCM"] /\ ToTelegram(row)
       \/ q = <<DeleteOf(tokens), TelegramOf(n), CompleteOf(n)>> /\ ToTelegram(row)
  \/ q = <<TelegramOf(n), CompleteOf(n)>> /\ ToTelegram(row)
  \/ q = <<RecordOf(n, "TG_BOT"), SendOf(n, "TG_BOT"), CompleteOf(n)>> /\ ToTelegram(row)
  \/ q = <<SendOf(n, "TG_BOT"), CompleteOf(n)>> /\ row.sent["TG_BOT"] < row.recorded["TG_BOT"]
  \/ q = <<CompleteOf(n)>>

\* And of the listener's.
Listening(q, n, row) ==
  \/ q = <<IfOnlineOf(n), EnqueueOf(n)>> /\ row.recorded["WEBSOCKET"] = 0
  \/ /\ q = <<RecordOf(n, "WEBSOCKET"), SendOf(n, "WEBSOCKET"), EnqueueOf(n)>>
     /\ row.recorded["WEBSOCKET"] = 0
  \/ /\ q = <<SendOf(n, "WEBSOCKET"), EnqueueOf(n)>>
     /\ row.sent["WEBSOCKET"] < row.recorded["WEBSOCKET"]
  \/ q = <<EnqueueOf(n)>>

\* The request r has steps left about the notification n, or about none.
Handles(r, n) == \E x \in Left(r) : x[1] \in AboutNotification /\ x[2] = n
Unrelated(r) == \A x \in Left(r) : x[1] \notin AboutNotification

\* A job that is worked on is active, and what the listener works on is not queued yet.
Attends(r) ==
  \/ req[r].op # "process" /\ Unrelated(r)
  \/ \E n \in DOMAIN notification :
       LET row == notification[n] IN
       \/ req[r].op = "process" /\ row.job = "active" /\ Working(req[r].todo, n, row)
       \/ req[r].op # "process" /\ row.job = "none" /\ Listening(req[r].todo, n, row)

RowKept(row) ==
  /\ \A ch \in Channels : row.sent[ch] <= row.recorded[ch]
  /\ row.recorded["WEBSOCKET"] <= 1
  /\ \A ch \in {"FCM", "TG_BOT"} : row.recorded[ch] <= row.tries
  /\ row.tries <= Attempts
  /\ row.job \in {"none", "waiting"} => row.tries < Attempts

\* No two requests work on a notification.
Exclusive ==
  \A r, q \in Requests : \A x \in Left(r), y \in Left(q) :
    x[1] \in AboutNotification /\ y[1] \in AboutNotification /\ x[2] = y[2] => r = q

\* What is still to be recorded of a job was recorded less often than the job was tried.
DeliveryInv ==
  /\ \A n \in DOMAIN notification : RowKept(notification[n])
  /\ \A r \in Requests : Attends(r)
  /\ Exclusive

LEMMA NoticeLabels ==
  ASSUME NEW n, NEW ch, NEW tokens
  PROVE  /\ PushOf(n)[1] = "push" /\ PushOf(n)[2] = n
         /\ TelegramOf(n)[1] = "telegram" /\ TelegramOf(n)[2] = n
         /\ CompleteOf(n)[1] = "complete" /\ CompleteOf(n)[2] = n
         /\ RecordOf(n, ch)[1] = "record" /\ RecordOf(n, ch)[2] = n /\ RecordOf(n, ch)[3] = ch
         /\ SendOf(n, ch)[1] = "send" /\ SendOf(n, ch)[2] = n /\ SendOf(n, ch)[3] = ch
         /\ MulticastOf(n, tokens)[1] = "multicast" /\ MulticastOf(n, tokens)[2] = n
         /\ MulticastOf(n, tokens)[3] = "FCM"
         /\ DeleteOf(tokens)[1] = "deleteDevice"
         /\ IfOnlineOf(n)[1] = "ifOnline" /\ IfOnlineOf(n)[2] = n
         /\ EnqueueOf(n)[1] = "enqueue" /\ EnqueueOf(n)[2] = n
BY DEF PushOf, TelegramOf, CompleteOf, RecordOf, SendOf, MulticastOf, DeleteOf, IfOnlineOf, EnqueueOf

\* The first and the last step of a short program, and what follows the first.
LEMMA ShortPrograms ==
  ASSUME NEW a, NEW b, NEW c, NEW d
  PROVE  /\ Tail(<<a>>) = <<>> /\ Tail(<<a, b>>) = <<b>> /\ Tail(<<a, b, c>>) = <<b, c>>
         /\ Tail(<<a, b, c, d>>) = <<b, c, d>>
         /\ <<a>>[1] = a /\ <<a, b>>[1] = a /\ <<a, b, c>>[1] = a /\ <<a, b, c, d>>[1] = a
         /\ <<a>>[Len(<<a>>)] = a /\ <<a, b>>[Len(<<a, b>>)] = b /\ <<a, b, c>>[Len(<<a, b, c>>)] = c
         /\ <<a, b, c, d>>[Len(<<a, b, c, d>>)] = d
         /\ <<a>> # <<>> /\ <<a, b>> # <<>> /\ <<a, b, c>> # <<>> /\ <<a, b, c, d>> # <<>>
         /\ <<>> \o <<a>> = <<a>> /\ <<>> \o <<a, b>> = <<a, b>>
OBVIOUS

LEMMA WorkOf ==
  ASSUME NEW q, NEW n, NEW row, Working(q, n, row)
  PROVE  /\ q # <<>> /\ CompleteOf(n) \in Steps(q) /\ q[Len(q)] = CompleteOf(n)
         /\ \A x \in Steps(q) : x[1] \in AboutNotification => x[2] = n
         /\ q[1] \in Steps(q)
<1>1. CASE q = <<PushOf(n), TelegramOf(n), CompleteOf(n)>>
  BY <1>1, ProgramOf3, ShortPrograms, NoticeLabels
<1>2. ASSUME NEW tokens,
             \/ q = <<RecordOf(n, "FCM"), MulticastOf(n, tokens), TelegramOf(n), CompleteOf(n)>>
             \/ q = <<MulticastOf(n, tokens), TelegramOf(n), CompleteOf(n)>>
             \/ q = <<DeleteOf(tokens), TelegramOf(n), CompleteOf(n)>>
      PROVE  /\ q # <<>> /\ CompleteOf(n) \in Steps(q) /\ q[Len(q)] = CompleteOf(n)
             /\ \A x \in Steps(q) : x[1] \in AboutNotification => x[2] = n
             /\ q[1] \in Steps(q)
  <2>1. CASE q = <<RecordOf(n, "FCM"), MulticastOf(n, tokens), TelegramOf(n), CompleteOf(n)>>
    BY <2>1, ProgramOf4, ShortPrograms, NoticeLabels
  <2>2. CASE q = <<MulticastOf(n, tokens), TelegramOf(n), CompleteOf(n)>>
    BY <2>2, ProgramOf3, ShortPrograms, NoticeLabels
  <2>3. CASE q = <<DeleteOf(tokens), TelegramOf(n), CompleteOf(n)>>
    <3>1. DeleteOf(tokens)[1] \notin AboutNotification
      BY NoticeLabels DEF AboutNotification
    <3>2. QED
      BY <2>3, <3>1, ProgramOf3, ShortPrograms, NoticeLabels
  <2>4. QED
    BY <1>2, <2>1, <2>2, <2>3
<1>3. CASE q = <<TelegramOf(n), CompleteOf(n)>>
  BY <1>3, ProgramOf2, ShortPrograms, NoticeLabels
<1>4. CASE q = <<RecordOf(n, "TG_BOT"), SendOf(n, "TG_BOT"), CompleteOf(n)>>
  BY <1>4, ProgramOf3, ShortPrograms, NoticeLabels
<1>5. CASE q = <<SendOf(n, "TG_BOT"), CompleteOf(n)>>
  BY <1>5, ProgramOf2, ShortPrograms, NoticeLabels
<1>6. CASE q = <<CompleteOf(n)>>
  BY <1>6, ProgramOf1, ShortPrograms, NoticeLabels
<1>7. QED
  BY <1>1, <1>2, <1>3, <1>4, <1>5, <1>6 DEF Working

LEMMA ListenOf ==
  ASSUME NEW q, NEW n, NEW row, Listening(q, n, row)
  PROVE  /\ q # <<>> /\ EnqueueOf(n) \in Steps(q)
         /\ \A x \in Steps(q) : x[1] \in AboutNotification /\ x[2] = n
         /\ q[1] \in Steps(q)
<1>1. CASE q = <<IfOnlineOf(n), EnqueueOf(n)>>
  BY <1>1, ProgramOf2, ShortPrograms, NoticeLabels DEF AboutNotification
<1>2. CASE q = <<RecordOf(n, "WEBSOCKET"), SendOf(n, "WEBSOCKET"), EnqueueOf(n)>>
  BY <1>2, ProgramOf3, ShortPrograms, NoticeLabels DEF AboutNotification
<1>3. CASE q = <<SendOf(n, "WEBSOCKET"), EnqueueOf(n)>>
  BY <1>3, ProgramOf2, ShortPrograms, NoticeLabels DEF AboutNotification
<1>4. CASE q = <<EnqueueOf(n)>>
  BY <1>4, ProgramOf1, ShortPrograms, NoticeLabels DEF AboutNotification
<1>5. QED
  BY <1>1, <1>2, <1>3, <1>4 DEF Listening

-----------------------------------------------------------------------------
(* What a step leaves to the other requests *)

LEMMA AttendsTo ==
  ASSUME NEW r \in Requests, Attends(r), ~Unrelated(r)
  PROVE  \E n \in DOMAIN notification :
           /\ Handles(r, n) /\ \A x \in Left(r) : x[1] \in AboutNotification => x[2] = n
           /\ req[r].todo # <<>> /\ req[r].todo[1] \in Left(r)
           /\ \/ /\ req[r].op = "process" /\ notification[n].job = "active"
                 /\ Working(req[r].todo, n, notification[n])
              \/ /\ req[r].op # "process" /\ notification[n].job = "none"
                 /\ Listening(req[r].todo, n, notification[n])
<1>1. PICK n \in DOMAIN notification :
              \/ /\ req[r].op = "process" /\ notification[n].job = "active"
                 /\ Working(req[r].todo, n, notification[n])
              \/ /\ req[r].op # "process" /\ notification[n].job = "none"
                 /\ Listening(req[r].todo, n, notification[n])
  BY DEF Attends
<1>2. /\ req[r].todo # <<>> /\ req[r].todo[1] \in Left(r)
      /\ \A x \in Left(r) : x[1] \in AboutNotification => x[2] = n
      /\ CompleteOf(n) \in Left(r) \/ EnqueueOf(n) \in Left(r)
  BY <1>1, WorkOf, ListenOf DEF Left
<1>3. Handles(r, n)
  BY <1>2, NoticeLabels DEF Handles, AboutNotification
<1>4. QED
  BY <1>1, <1>2, <1>3

LEMMA RelatedAttends ==
  ASSUME NEW r \in Requests, NEW n \in DOMAIN notification,
         \/ /\ req[r].op = "process" /\ notification[n].job = "active"
            /\ Working(req[r].todo, n, notification[n])
         \/ /\ req[r].op # "process" /\ notification[n].job = "none"
            /\ Listening(req[r].todo, n, notification[n])
  PROVE  Attends(r)
BY DEF Attends

LEMMA OthersAttend ==
  ASSUME DeliveryInv, NEW r \in Requests, Elsewhere(r), NEW changed,
         DOMAIN notification \subseteq DOMAIN notification',
         \A n \in changed, q \in Requests \ {r} : ~Handles(q, n),
         \A n \in DOMAIN notification \ changed : SameRow(n)
  PROVE  \A q \in Requests \ {r} : Attends(q)'
<1> SUFFICES ASSUME NEW q \in Requests \ {r} PROVE Attends(q)'
  OBVIOUS
<1>1. req'[q] = req[q] /\ Left(q)' = Left(q) /\ Attends(q)
  BY DEF Elsewhere, Left, DeliveryInv
<1>2. CASE req[q].op # "process" /\ Unrelated(q)
  BY <1>1, <1>2 DEF Attends, Unrelated
<1>3. ASSUME NEW n \in DOMAIN notification,
             \/ /\ req[q].op = "process" /\ notification[n].job = "active"
                /\ Working(req[q].todo, n, notification[n])
             \/ /\ req[q].op # "process" /\ notification[n].job = "none"
                /\ Listening(req[q].todo, n, notification[n])
      PROVE  Attends(q)'
  <2>1. CompleteOf(n) \in Left(q) \/ EnqueueOf(n) \in Left(q)
    BY <1>3, WorkOf, ListenOf DEF Left
  <2>2. Handles(q, n)
    BY <2>1, NoticeLabels DEF Handles, AboutNotification
  <2>3. SameRow(n) /\ n \in DOMAIN notification'
    BY <2>2
  <2>4. \/ /\ req[q].op = "process" /\ notification'[n].job = "active"
           /\ Working(req[q].todo, n, notification'[n])
        \/ /\ req[q].op # "process" /\ notification'[n].job = "none"
           /\ Listening(req[q].todo, n, notification'[n])
    BY <1>3, <2>3 DEF SameRow, Working, Listening, ToPush, ToTelegram
  <2>5. QED
    BY <1>1, <2>3, <2>4 DEF Attends
<1>4. QED
  BY <1>1, <1>2, <1>3 DEF Attends

\* The request r works on what it worked on before, or on what nobody does.
LEMMA StillExclusive ==
  ASSUME Exclusive, NEW r \in Requests, Elsewhere(r),
         \A x \in Left(r)' : x[1] \in AboutNotification =>
           Handles(r, x[2]) \/ \A q \in Requests \ {r} : ~Handles(q, x[2])
  PROVE  Exclusive'
<1>1. \A q \in Requests \ {r} : Left(q)' = Left(q)
  BY DEF Elsewhere, Left
<1>2. ASSUME NEW q \in Requests \ {r}, NEW x \in Left(r)', NEW y \in Left(q)',
             x[1] \in AboutNotification, y[1] \in AboutNotification, x[2] = y[2]
      PROVE  FALSE
  <2>1. Handles(q, x[2])
    BY <1>1, <1>2 DEF Handles
  <2>2. PICK z \in Left(r) : z[1] \in AboutNotification /\ z[2] = x[2]
    BY <1>2, <2>1 DEF Handles
  <2>3. QED
    BY <1>1, <1>2, <2>2 DEF Exclusive
<1>3. ASSUME NEW p \in Requests, NEW q \in Requests, NEW x \in Left(p)', NEW y \in Left(q)',
             x[1] \in AboutNotification, y[1] \in AboutNotification, x[2] = y[2], p # q
      PROVE  FALSE
  <2>1. CASE p = r
    BY <1>2, <1>3, <2>1
  <2>2. CASE q = r
    BY <1>2, <1>3, <2>2
  <2>3. CASE p # r /\ q # r
    BY <1>1, <1>3, <2>3 DEF Exclusive
  <2>4. QED
    BY <2>1, <2>2, <2>3
<1>4. QED
  BY <1>3 DEF Exclusive

LEMMA HandledAlone ==
  ASSUME DeliveryInv, NEW r \in Requests, NEW n, Handles(r, n)
  PROVE  \A q \in Requests \ {r} : ~Handles(q, n)
BY DEF Handles, DeliveryInv, Exclusive

\* A request that is about no notification, before and after.
LEMMA UnrelatedKept ==
  ASSUME DeliveryInv, NEW r \in Requests, Elsewhere(r), DOMAIN notification' = DOMAIN notification,
         \A n \in DOMAIN notification : SameRow(n),
         Unrelated(r)', req'[r].op # "process"
  PROVE  DeliveryInv'
<1>1. \A q \in Requests \ {r} : Attends(q)'
  <2>1. PICK S : S = {}
    OBVIOUS
  <2>2. QED
    BY <2>1, OthersAttend
<1>2. Attends(r)'
  BY DEF Attends
<1>3. Exclusive'
  BY StillExclusive DEF Unrelated, DeliveryInv
<1>4. \A n \in DOMAIN notification' : RowKept(notification'[n])
  BY DEF DeliveryInv, RowKept, SameRow
<1>5. QED
  BY <1>1, <1>2, <1>3, <1>4 DEF DeliveryInv

\* A request that is about a notification changes its row alone.
LEMMA HandlerKept ==
  ASSUME DeliveryInv, NEW r \in Requests, Elsewhere(r), DOMAIN notification' = DOMAIN notification,
         NEW n \in DOMAIN notification, Handles(r, n),
         \A i \in DOMAIN notification \ {n} : SameRow(i),
         RowKept(notification'[n]), Attends(r)',
         \A x \in Left(r)' : x[1] \in AboutNotification => x[2] = n
  PROVE  DeliveryInv'
<1>1. \A q \in Requests \ {r} : Attends(q)'
  <2>1. PICK S : S = {n}
    OBVIOUS
  <2>2. \A i \in S, q \in Requests \ {r} : ~Handles(q, i)
    BY <2>1, HandledAlone
  <2>3. QED
    BY <2>1, <2>2, OthersAttend
<1>2. Exclusive'
  BY StillExclusive DEF DeliveryInv
<1>3. \A i \in DOMAIN notification' : RowKept(notification'[i])
  BY DEF DeliveryInv, RowKept, SameRow
<1>4. QED
  BY <1>1, <1>2, <1>3 DEF DeliveryInv

-----------------------------------------------------------------------------
(* What a step makes of the row that it changes *)

RowType(row) ==
  row.recorded \in [Channels -> Nat] /\ row.sent \in [Channels -> Nat] /\ row.tries \in Nat

LEMMA RowTypes == ASSUME NoticesOK PROVE \A n \in DOMAIN notification : RowType(notification[n])
<1>1. "FCM" \in Channels
  BY DEF Channels
<1>2. QED
  BY <1>1, RowsTyped DEF RowType, NoticesOK, NotificationRow

\* The handler of a notification goes on with it, or ends.
LEMMA HandlerGoesOn ==
  ASSUME DeliveryInv, NEW r \in Requests, Elsewhere(r), DOMAIN notification' = DOMAIN notification,
         NEW n \in DOMAIN notification, Handles(r, n),
         \A i \in DOMAIN notification \ {n} : SameRow(i),
         RowKept(notification'[n]),
         \/ req'[r] = Idle
         \/ /\ req'[r].op = "process" /\ notification'[n].job = "active"
            /\ Working(req'[r].todo, n, notification'[n])
         \/ /\ req'[r].op # "process" /\ notification'[n].job = "none"
            /\ Listening(req'[r].todo, n, notification'[n])
  PROVE  DeliveryInv'
<1>1. Attends(r)' /\ \A x \in Left(r)' : x[1] \in AboutNotification => x[2] = n
  <2>1. CASE req'[r] = Idle
    <3>1. Left(r)' = {} /\ req'[r].op = "none"
      BY <2>1, NoProgram DEF Left, Idle
    <3>2. QED
      BY <3>1 DEF Attends, Unrelated
  <2>2. CASE /\ req'[r].op = "process" /\ notification'[n].job = "active"
             /\ Working(req'[r].todo, n, notification'[n])
    <3>1. Attends(r)'
      BY <2>2 DEF Attends
    <3>2. QED
      BY <2>2, <3>1, WorkOf DEF Left
  <2>3. CASE /\ req'[r].op # "process" /\ notification'[n].job = "none"
             /\ Listening(req'[r].todo, n, notification'[n])
    <3>1. Attends(r)'
      BY <2>3 DEF Attends
    <3>2. QED
      BY <2>3, <3>1, ListenOf DEF Left
  <2>4. QED
    BY <2>1, <2>2, <2>3
<1>2. QED
  BY <1>1, HandlerKept

\* What is left of the program of a request that goes on.
LEMMA WentOn ==
  ASSUME Proper, NEW r \in Requests, req[r].todo # <<>>, NEW more, Program(more),
         Do(r, more) \/ (Continue(r) /\ more = <<>>)
  PROVE  /\ Elsewhere(r) /\ req'[r].todo = more \o Tail(req[r].todo)
         /\ req'[r].todo # <<>> => req'[r].op = req[r].op
         /\ req'[r].todo = <<>> => req'[r] = Idle
<1>1. Went(r, more)
  BY Does, Continues DEF Do, Continue
<1>2. PICK got : Goes(r, req'[r].todo, got)
  <2>1. PICK got : Goes(r, more \o Tail(req[r].todo), got)
    <3>1. Program(Tail(req[r].todo))
      BY ProgramTail DEF Proper
    <3>2. <<>> \o Tail(req[r].todo) = Tail(req[r].todo)
      BY <3>1, NoProgram
    <3>3. QED
      BY <3>2 DEF Do, Continue
  <2>2. QED
    BY <1>1, <2>1 DEF Went
<1>3. req'[r].todo = <<>> => req'[r] = Idle
  <2>1. req = [q \in Requests |-> req[q]]
    BY DEF Proper
  <2>2. QED
    BY <1>2, <2>1 DEF Goes
<1>4. req'[r].todo # <<>> => req'[r] # Idle
  BY DEF Idle
<1>5. QED
  BY <1>1, <1>3, <1>4 DEF Went

-----------------------------------------------------------------------------
(* The steps of the worker and of the listener *)

\* Which program has a first step with this label.
LEMMA WorkingAt ==
  ASSUME NEW q, NEW n, NEW row, Working(q, n, row)
  PROVE  /\ q[1][1] = "push" =>
              q = <<PushOf(n), TelegramOf(n), CompleteOf(n)>> /\ ToPush(row) /\ ToTelegram(row)
         /\ q[1][1] = "record" =>
              \/ \E tokens :
                   /\ q = <<RecordOf(n, "FCM"), MulticastOf(n, tokens), TelegramOf(n), CompleteOf(n)>>
                   /\ ToPush(row) /\ ToTelegram(row)
              \/ q = <<RecordOf(n, "TG_BOT"), SendOf(n, "TG_BOT"), CompleteOf(n)>> /\ ToTelegram(row)
         /\ q[1][1] = "multicast" =>
              \E tokens :
                /\ q = <<MulticastOf(n, tokens), TelegramOf(n), CompleteOf(n)>>
                /\ row.sent["FCM"] < row.recorded["FCM"] /\ ToTelegram(row)
         /\ q[1][1] = "deleteDevice" =>
              \E tokens : q = <<DeleteOf(tokens), TelegramOf(n), CompleteOf(n)>> /\ ToTelegram(row)
         /\ q[1][1] = "telegram" => q = <<TelegramOf(n), CompleteOf(n)>> /\ ToTelegram(row)
         /\ q[1][1] = "send" =>
              /\ q = <<SendOf(n, "TG_BOT"), CompleteOf(n)>>
              /\ row.sent["TG_BOT"] < row.recorded["TG_BOT"]
         /\ q[1][1] = "complete" => q = <<CompleteOf(n)>>
         /\ q[1][1] \in {"push", "record", "multicast", "deleteDevice", "telegram", "send", "complete"}
<1>1. /\ q = <<PushOf(n), TelegramOf(n), CompleteOf(n)>> => q[1][1] = "push"
      /\ \A tokens :
           /\ q = <<RecordOf(n, "FCM"), MulticastOf(n, tokens), TelegramOf(n), CompleteOf(n)>> =>
                q[1][1] = "record"
           /\ q = <<MulticastOf(n, tokens), TelegramOf(n), CompleteOf(n)>> => q[1][1] = "multicast"
           /\ q = <<DeleteOf(tokens), TelegramOf(n), CompleteOf(n)>> => q[1][1] = "deleteDevice"
      /\ q = <<TelegramOf(n), CompleteOf(n)>> => q[1][1] = "telegram"
      /\ q = <<RecordOf(n, "TG_BOT"), SendOf(n, "TG_BOT"), CompleteOf(n)>> => q[1][1] = "record"
      /\ q = <<SendOf(n, "TG_BOT"), CompleteOf(n)>> => q[1][1] = "send"
      /\ q = <<CompleteOf(n)>> => q[1][1] = "complete"
  BY ShortPrograms, NoticeLabels
<1>2. QED
  BY <1>1 DEF Working

LEMMA ListeningAt ==
  ASSUME NEW q, NEW n, NEW row, Listening(q, n, row)
  PROVE  /\ q[1][1] = "ifOnline" => q = <<IfOnlineOf(n), EnqueueOf(n)>> /\ row.recorded["WEBSOCKET"] = 0
         /\ q[1][1] = "record" =>
              /\ q = <<RecordOf(n, "WEBSOCKET"), SendOf(n, "WEBSOCKET"), EnqueueOf(n)>>
              /\ row.recorded["WEBSOCKET"] = 0
         /\ q[1][1] = "send" =>
              /\ q = <<SendOf(n, "WEBSOCKET"), EnqueueOf(n)>>
              /\ row.sent["WEBSOCKET"] < row.recorded["WEBSOCKET"]
         /\ q[1][1] = "enqueue" => q = <<EnqueueOf(n)>>
         /\ q[1][1] \in {"ifOnline", "record", "send", "enqueue"}
<1>1. /\ q = <<IfOnlineOf(n), EnqueueOf(n)>> => q[1][1] = "ifOnline"
      /\ q = <<RecordOf(n, "WEBSOCKET"), SendOf(n, "WEBSOCKET"), EnqueueOf(n)>> => q[1][1] = "record"
      /\ q = <<SendOf(n, "WEBSOCKET"), EnqueueOf(n)>> => q[1][1] = "send"
      /\ q = <<EnqueueOf(n)>> => q[1][1] = "enqueue"
  BY ShortPrograms, NoticeLabels
<1>2. QED
  BY <1>1 DEF Listening

LEMMA WorkerDelivers ==
  ASSUME TypesInv, DeliveryInv, NEW r \in Requests, req[r].op = "process", NotificationsSteps(r),
         UNCHANGED message
  PROVE  DeliveryInv'
<1>1. Proper /\ NoticesOK /\ message' = message
  BY DEF TypesInv, ReqsOK
<1>2. PICK q : q = req[r].todo
  OBVIOUS
<1>3. PICK n \in DOMAIN notification :
        /\ Handles(r, n) /\ q # <<>> /\ notification[n].job = "active"
        /\ Working(q, n, notification[n])
  <2>1. \E n \in DOMAIN notification :
           req[r].op = "process" /\ notification[n].job = "active" /\ Working(q, n, notification[n])
    BY <1>2 DEF DeliveryInv, Attends
  <2>2. PICK n \in DOMAIN notification : notification[n].job = "active" /\ Working(q, n, notification[n])
    BY <2>1
  <2>3. CompleteOf(n) \in Left(r) /\ q # <<>>
    BY <1>2, <2>2, WorkOf DEF Left
  <2>4. QED
    BY <2>2, <2>3, NoticeLabels DEF Handles, AboutNotification
<1>4. RowType(notification[n]) /\ RowKept(notification[n])
  BY <1>1, RowTypes DEF DeliveryInv
<1>5. Arg(r, 1) = q[1][2] /\ Arg(r, 2) = q[1][3] /\ \A label : At(r, label) => q[1][1] = label
  BY <1>2 DEF Arg, At
<1>6. ASSUME NEW more, Program(more), Do(r, more) \/ (Continue(r) /\ more = <<>>),
             NEW rest, rest = more \o Tail(q),
             DOMAIN notification' = DOMAIN notification,
             \A i \in DOMAIN notification \ {n} : SameRow(i),
             RowKept(notification'[n]),
             \/ rest = <<>>
             \/ notification'[n].job = "active" /\ rest # <<>> /\ Working(rest, n, notification'[n])
      PROVE  DeliveryInv'
  <2>1. /\ Elsewhere(r) /\ req'[r].todo = rest
        /\ rest # <<>> => req'[r].op = "process"
        /\ rest = <<>> => req'[r] = Idle
    BY <1>1, <1>2, <1>3, <1>6, WentOn
  <2>2. QED
    BY <1>3, <1>6, <2>1, HandlerGoesOn
<1>7. \A i \in DOMAIN notification : notification' = notification => SameRow(i)
  BY DEF SameRow
<1>8. CASE HandlePushNotification(r)
  <2>1. q = <<PushOf(n), TelegramOf(n), CompleteOf(n)>> /\ ToPush(notification[n])
        /\ ToTelegram(notification[n])
    BY <1>3, <1>5, <1>8, WorkingAt DEF HandlePushNotification
  <2>2. q[1] = PushOf(n) /\ q[1][2] = n /\ Tail(q) = <<TelegramOf(n), CompleteOf(n)>>
    BY <2>1, ShortPrograms, NoticeLabels
  <2>3. PICK more, tokens :
          Do(r, more) /\ more \in {<<>>, <<RecordOf(n, "FCM"), MulticastOf(n, tokens)>>}
    BY <1>5, <1>8, <2>2 DEF HandlePushNotification, RecordOf, MulticastOf
  <2>4. notification' = notification
    BY <1>8 DEF HandlePushNotification, noticeVars
  <2>5. CASE more = <<>>
    <3>1. Program(more) /\ more \o Tail(q) = <<TelegramOf(n), CompleteOf(n)>>
      BY <2>2, <2>5, NoProgram, ShortPrograms
    <3>2. Working(more \o Tail(q), n, notification'[n]) /\ more \o Tail(q) # <<>>
      BY <2>1, <2>4, <3>1, ShortPrograms DEF Working
    <3>3. QED
      BY <1>3, <1>4, <1>6, <1>7, <2>3, <2>4, <3>1, <3>2
  <2>6. CASE more = <<RecordOf(n, "FCM"), MulticastOf(n, tokens)>>
    <3>1. Program(more)
      BY <2>6, ProgramOf2
    <3>2. more \o Tail(q) = <<RecordOf(n, "FCM"), MulticastOf(n, tokens), TelegramOf(n), CompleteOf(n)>>
      <4>1. <<RecordOf(n, "FCM"), MulticastOf(n, tokens)>> \o <<TelegramOf(n), CompleteOf(n)>> = <<RecordOf(n, "FCM"), MulticastOf(n, tokens), TelegramOf(n), CompleteOf(n)>>
        BY JoinOf2
      <4>2. QED
        BY <2>2, <2>6, <4>1
    <3>3. Working(more \o Tail(q), n, notification'[n]) /\ more \o Tail(q) # <<>>
      BY <2>1, <2>4, <3>2, ShortPrograms DEF Working
    <3>4. QED
      BY <1>3, <1>4, <1>6, <1>7, <2>3, <2>4, <3>1, <3>3
  <2>7. QED
    BY <2>3, <2>5, <2>6
<1>9. CASE HandleTelegramNotification(r)
  <2>1. q = <<TelegramOf(n), CompleteOf(n)>> /\ ToTelegram(notification[n])
    BY <1>3, <1>5, <1>9, WorkingAt DEF HandleTelegramNotification
  <2>2. q[1][2] = n /\ Tail(q) = <<CompleteOf(n)>>
    BY <2>1, ShortPrograms, NoticeLabels
  <2>3. PICK more : Do(r, more) /\ more \in {<<>>, <<RecordOf(n, "TG_BOT"), SendOf(n, "TG_BOT")>>}
    BY <1>5, <1>9, <2>2 DEF HandleTelegramNotification, RecordOf, SendOf
  <2>4. notification' = notification
    BY <1>9 DEF HandleTelegramNotification, noticeVars
  <2>5. CASE more = <<>>
    <3>1. Program(more) /\ more \o Tail(q) = <<CompleteOf(n)>>
      BY <2>2, <2>5, NoProgram, ShortPrograms
    <3>2. Working(more \o Tail(q), n, notification'[n]) /\ more \o Tail(q) # <<>>
      BY <3>1, ShortPrograms DEF Working
    <3>3. QED
      BY <1>3, <1>4, <1>6, <1>7, <2>3, <2>4, <3>1, <3>2
  <2>6. CASE more = <<RecordOf(n, "TG_BOT"), SendOf(n, "TG_BOT")>>
    <3>1. Program(more)
      BY <2>6, ProgramOf2
    <3>2. more \o Tail(q) = <<RecordOf(n, "TG_BOT"), SendOf(n, "TG_BOT"), CompleteOf(n)>>
      <4>1. <<RecordOf(n, "TG_BOT"), SendOf(n, "TG_BOT")>> \o <<CompleteOf(n)>> = <<RecordOf(n, "TG_BOT"), SendOf(n, "TG_BOT"), CompleteOf(n)>>
        BY JoinOf1
      <4>2. QED
        BY <2>2, <2>6, <4>1
    <3>3. Working(more \o Tail(q), n, notification'[n]) /\ more \o Tail(q) # <<>>
      BY <2>1, <2>4, <3>2, ShortPrograms DEF Working
    <3>4. QED
      BY <1>3, <1>4, <1>6, <1>7, <2>3, <2>4, <3>1, <3>3
  <2>7. QED
    BY <2>3, <2>5, <2>6
<1>10. CASE CreateDelivery(r)
  <2>0. /\ q[1][1] = "record" /\ Continue(r)
        /\ notification' = [notification EXCEPT ![q[1][2]].recorded[q[1][3]] = @ + 1]
    BY <1>5, <1>10 DEF CreateDelivery
  <2>1. CASE \E tokens :
               /\ q = <<RecordOf(n, "FCM"), MulticastOf(n, tokens), TelegramOf(n), CompleteOf(n)>>
               /\ ToPush(notification[n]) /\ ToTelegram(notification[n])
    <3>1. PICK tokens :
            q = <<RecordOf(n, "FCM"), MulticastOf(n, tokens), TelegramOf(n), CompleteOf(n)>>
      BY <2>1
    <3>2. /\ q[1][2] = n /\ q[1][3] = "FCM" /\ "FCM" \in Channels
          /\ Tail(q) = <<MulticastOf(n, tokens), TelegramOf(n), CompleteOf(n)>>
      BY <3>1, ShortPrograms, NoticeLabels DEF Channels
    <3>3. notification' = [notification EXCEPT ![n].recorded["FCM"] = @ + 1]
      BY <2>0, <3>2
    <3>4. /\ DOMAIN notification' = DOMAIN notification
          /\ \A i \in DOMAIN notification \ {n} : SameRow(i)
          /\ notification'[n].job = notification[n].job /\ notification'[n].tries = notification[n].tries
          /\ notification'[n].sent = notification[n].sent
          /\ notification'[n].recorded = [notification[n].recorded EXCEPT !["FCM"] = @ + 1]
      BY <1>1, <3>2, <3>3, Recorded
    <3>5. RowKept(notification'[n]) /\ notification'[n].sent["FCM"] < notification'[n].recorded["FCM"]
          /\ ToTelegram(notification'[n])
      BY <1>3, <1>4, <2>1, <3>4 DEF RowKept, RowType, Channels, ToPush, ToTelegram
    <3>6. <<>> \o Tail(q) = Tail(q) /\ Program(<<>>) /\ Tail(q) # <<>>
      BY <3>2, NoProgram, ProgramOf3, ShortPrograms
    <3>7. Working(Tail(q), n, notification'[n]) /\ notification'[n].job = "active"
      BY <1>3, <3>2, <3>4, <3>5 DEF Working
    <3>8. QED
      BY <1>6, <2>0, <3>4, <3>5, <3>6, <3>7
  <2>2. CASE /\ q = <<RecordOf(n, "TG_BOT"), SendOf(n, "TG_BOT"), CompleteOf(n)>>
             /\ ToTelegram(notification[n])
    <3>2. /\ q[1][2] = n /\ q[1][3] = "TG_BOT" /\ "TG_BOT" \in Channels
          /\ Tail(q) = <<SendOf(n, "TG_BOT"), CompleteOf(n)>>
      BY <2>2, ShortPrograms, NoticeLabels DEF Channels
    <3>3. notification' = [notification EXCEPT ![n].recorded["TG_BOT"] = @ + 1]
      BY <2>0, <3>2
    <3>4. /\ DOMAIN notification' = DOMAIN notification
          /\ \A i \in DOMAIN notification \ {n} : SameRow(i)
          /\ notification'[n].job = notification[n].job /\ notification'[n].tries = notification[n].tries
          /\ notification'[n].sent = notification[n].sent
          /\ notification'[n].recorded = [notification[n].recorded EXCEPT !["TG_BOT"] = @ + 1]
      BY <1>1, <3>2, <3>3, Recorded
    <3>5. RowKept(notification'[n]) /\ notification'[n].sent["TG_BOT"] < notification'[n].recorded["TG_BOT"]
      BY <1>3, <1>4, <2>2, <3>4 DEF RowKept, RowType, Channels, ToPush, ToTelegram
    <3>6. <<>> \o Tail(q) = Tail(q) /\ Program(<<>>) /\ Tail(q) # <<>>
      BY <3>2, NoProgram, ProgramOf2, ShortPrograms
    <3>7. Working(Tail(q), n, notification'[n]) /\ notification'[n].job = "active"
      BY <1>3, <3>2, <3>4, <3>5 DEF Working
    <3>8. QED
      BY <1>6, <2>0, <3>4, <3>5, <3>6, <3>7
  <2>3. QED
    BY <1>3, <2>0, <2>1, <2>2, WorkingAt
<1>11. CASE Send(r)
  <2>0. /\ q[1][1] = "send" /\ Continue(r)
        /\ notification' = [notification EXCEPT ![q[1][2]].sent[q[1][3]] = @ + 1]
    BY <1>5, <1>11 DEF Send, Emitted
  <2>1. q = <<SendOf(n, "TG_BOT"), CompleteOf(n)>>
        /\ notification[n].sent["TG_BOT"] < notification[n].recorded["TG_BOT"]
    BY <1>3, <2>0, WorkingAt
  <2>2. /\ q[1][2] = n /\ q[1][3] = "TG_BOT" /\ "TG_BOT" \in Channels /\ Tail(q) = <<CompleteOf(n)>>
    BY <2>1, ShortPrograms, NoticeLabels DEF Channels
  <2>3. notification' = [notification EXCEPT ![n].sent["TG_BOT"] = @ + 1]
    BY <2>0, <2>2
  <2>4. /\ DOMAIN notification' = DOMAIN notification
        /\ \A i \in DOMAIN notification \ {n} : SameRow(i)
        /\ notification'[n].job = notification[n].job /\ notification'[n].tries = notification[n].tries
        /\ notification'[n].recorded = notification[n].recorded
        /\ notification'[n].sent = [notification[n].sent EXCEPT !["TG_BOT"] = @ + 1]
    BY <1>1, <2>2, <2>3, SentOnce
  <2>5. RowKept(notification'[n])
    BY <1>4, <2>1, <2>4 DEF RowKept, RowType, Channels
  <2>6. <<>> \o Tail(q) = Tail(q) /\ Program(<<>>) /\ Tail(q) # <<>>
    BY <2>2, NoProgram, ProgramOf1, ShortPrograms
  <2>7. Working(Tail(q), n, notification'[n]) /\ notification'[n].job = "active"
    BY <1>3, <2>2, <2>4 DEF Working
  <2>8. QED
    BY <1>6, <2>0, <2>4, <2>5, <2>6, <2>7
<1>12. CASE SendPush(r)
  <2>0. /\ q[1][1] = "multicast"
        /\ notification' = [notification EXCEPT ![q[1][2]].sent[q[1][3]] = @ + 1]
    BY <1>5, <1>12 DEF SendPush, Emitted
  <2>1. PICK tokens : q = <<MulticastOf(n, tokens), TelegramOf(n), CompleteOf(n)>>
                      /\ notification[n].sent["FCM"] < notification[n].recorded["FCM"]
                      /\ ToTelegram(notification[n])
    BY <1>3, <2>0, WorkingAt
  <2>2. /\ q[1][2] = n /\ q[1][3] = "FCM" /\ "FCM" \in Channels
        /\ Tail(q) = <<TelegramOf(n), CompleteOf(n)>>
    BY <2>1, ShortPrograms, NoticeLabels DEF Channels
  <2>3. notification' = [notification EXCEPT ![n].sent["FCM"] = @ + 1]
    BY <2>0, <2>2
  <2>4. /\ DOMAIN notification' = DOMAIN notification
        /\ \A i \in DOMAIN notification \ {n} : SameRow(i)
        /\ notification'[n].job = notification[n].job /\ notification'[n].tries = notification[n].tries
        /\ notification'[n].recorded = notification[n].recorded
        /\ notification'[n].sent = [notification[n].sent EXCEPT !["FCM"] = @ + 1]
    BY <1>1, <2>2, <2>3, SentOnce
  <2>5. RowKept(notification'[n]) /\ ToTelegram(notification'[n])
    BY <1>4, <2>1, <2>4 DEF RowKept, RowType, Channels, ToTelegram
  <2>6. PICK more, invalid : Do(r, more) /\ more \in {<<>>, <<DeleteOf(invalid)>>}
    BY <1>12 DEF SendPush, DeleteOf
  <2>7. CASE more = <<>>
    <3>1. Program(more) /\ more \o Tail(q) = <<TelegramOf(n), CompleteOf(n)>>
      BY <2>2, <2>7, NoProgram, ShortPrograms
    <3>2. Working(more \o Tail(q), n, notification'[n]) /\ more \o Tail(q) # <<>>
      BY <2>5, <3>1, ShortPrograms DEF Working
    <3>3. QED
      BY <1>3, <1>6, <2>4, <2>5, <2>6, <3>1, <3>2
  <2>8. CASE more = <<DeleteOf(invalid)>>
    <3>1. Program(more)
      BY <2>8, ProgramOf1
    <3>2. more \o Tail(q) = <<DeleteOf(invalid), TelegramOf(n), CompleteOf(n)>>
      <4>1. <<DeleteOf(invalid)>> \o <<TelegramOf(n), CompleteOf(n)>> = <<DeleteOf(invalid), TelegramOf(n), CompleteOf(n)>>
        BY JoinOf1
      <4>2. QED
        BY <2>2, <2>8, <4>1
    <3>3. Working(more \o Tail(q), n, notification'[n]) /\ more \o Tail(q) # <<>>
      <4>1. Working(<<DeleteOf(invalid), TelegramOf(n), CompleteOf(n)>>, n, notification'[n])
        BY <2>5 DEF Working
      <4>2. <<DeleteOf(invalid), TelegramOf(n), CompleteOf(n)>> # <<>>
        BY ShortPrograms
      <4>3. QED
        BY <3>2, <4>1, <4>2
    <3>4. QED
      BY <1>3, <1>6, <2>4, <2>5, <2>6, <3>1, <3>3
  <2>9. QED
    BY <2>6, <2>7, <2>8
<1>13. CASE DeleteTokens(r)
  <2>1. PICK tokens : q = <<DeleteOf(tokens), TelegramOf(n), CompleteOf(n)>> /\ ToTelegram(notification[n])
    BY <1>3, <1>5, <1>13, WorkingAt DEF DeleteTokens
  <2>2. Tail(q) = <<TelegramOf(n), CompleteOf(n)>> /\ Continue(r) /\ notification' = notification
    <3>1. Tail(<<DeleteOf(tokens), TelegramOf(n), CompleteOf(n)>>) = <<TelegramOf(n), CompleteOf(n)>>
      BY ShortPrograms
    <3>2. Tail(q) = <<TelegramOf(n), CompleteOf(n)>>
      BY <2>1, <3>1
    <3>3. Continue(r) /\ notification' = notification
      BY <1>13 DEF DeleteTokens
    <3>4. QED
      BY <3>2, <3>3
  <2>3. <<>> \o Tail(q) = Tail(q) /\ Program(<<>>) /\ Tail(q) # <<>>
    <3>1. /\ <<TelegramOf(n), CompleteOf(n)>> # <<>>
          /\ <<>> \o <<TelegramOf(n), CompleteOf(n)>> = <<TelegramOf(n), CompleteOf(n)>>
      BY ShortPrograms, NoProgram, ProgramOf2
    <3>2. QED
      BY <2>2, <3>1, NoProgram
  <2>4. Working(Tail(q), n, notification'[n]) /\ notification'[n].job = "active"
    BY <1>3, <2>1, <2>2 DEF Working
  <2>5. QED
    BY <1>4, <1>6, <1>7, <2>2, <2>3, <2>4
<1>14. CASE Complete(r)
  <2>1. q = <<CompleteOf(n)>>
    BY <1>3, <1>5, <1>14, WorkingAt DEF Complete
  <2>2. q[1][2] = n /\ Tail(q) = <<>> /\ Continue(r)
    BY <1>14, <2>1, ShortPrograms, NoticeLabels DEF Complete
  <2>3. notification' = [notification EXCEPT ![n].job = "done"]
    BY <1>5, <1>14, <2>2 DEF Complete
  <2>4. "done" \in {"none", "waiting", "active", "done", "failed"}
    OBVIOUS
  <2>5. /\ DOMAIN notification' = DOMAIN notification
        /\ \A i \in DOMAIN notification \ {n} : SameRow(i)
        /\ notification'[n].job = "done" /\ notification'[n].tries = notification[n].tries
        /\ notification'[n].recorded = notification[n].recorded
        /\ notification'[n].sent = notification[n].sent
    BY <1>1, <2>3, <2>4, JobMoved
  <2>6. RowKept(notification'[n])
    BY <1>4, <2>5 DEF RowKept
  <2>7. <<>> \o Tail(q) = <<>> /\ Program(<<>>)
    BY <2>2, NoProgram
  <2>8. QED
    BY <1>6, <2>2, <2>5, <2>6, <2>7
<1>15. CASE Create(r) \/ IsOnline(r) \/ Enqueue(r) \/ ReadNotifications(r) \/ FindDevice(r) \/ SaveDevice(r)
  <2>1. q[1][1] \in {"store", "ifOnline", "enqueue", "markAsRead", "findDevice", "saveDevice"}
    BY <1>2, <1>15 DEF Create, IsOnline, Enqueue, ReadNotifications, FindDevice, SaveDevice, At
  <2>2. q[1][1] \in {"push", "record", "multicast", "deleteDevice", "telegram", "send", "complete"}
    BY <1>3, WorkingAt
  <2>3. QED
    BY <2>1, <2>2
<1>16. QED
  BY <1>8, <1>9, <1>10, <1>11, <1>12, <1>13, <1>14, <1>15 DEF NotificationsSteps

LEMMA ListenerDelivers ==
  ASSUME TypesInv, DeliveryInv, NEW r \in Requests, req[r].op # "process", ~Unrelated(r),
         NotificationsSteps(r), UNCHANGED message
  PROVE  DeliveryInv'
<1>1. Proper /\ NoticesOK /\ message' = message
  BY DEF TypesInv, ReqsOK
<1>2. PICK q : q = req[r].todo
  OBVIOUS
<1>3. PICK n \in DOMAIN notification :
        /\ Handles(r, n) /\ q # <<>> /\ notification[n].job = "none"
        /\ Listening(q, n, notification[n])
  <2>1. \E n \in DOMAIN notification : notification[n].job = "none" /\ Listening(q, n, notification[n])
    BY <1>2 DEF DeliveryInv, Attends
  <2>2. PICK n \in DOMAIN notification : notification[n].job = "none" /\ Listening(q, n, notification[n])
    BY <2>1
  <2>3. EnqueueOf(n) \in Left(r) /\ q # <<>>
    BY <1>2, <2>2, ListenOf DEF Left
  <2>4. QED
    BY <2>2, <2>3, NoticeLabels DEF Handles, AboutNotification
<1>4. RowType(notification[n]) /\ RowKept(notification[n])
  BY <1>1, RowTypes DEF DeliveryInv
<1>5. Arg(r, 1) = q[1][2] /\ Arg(r, 2) = q[1][3] /\ \A label : At(r, label) => q[1][1] = label
  BY <1>2 DEF Arg, At
<1>6. ASSUME NEW more, Program(more), Do(r, more) \/ (Continue(r) /\ more = <<>>),
             NEW rest, rest = more \o Tail(q),
             DOMAIN notification' = DOMAIN notification,
             \A i \in DOMAIN notification \ {n} : SameRow(i),
             RowKept(notification'[n]),
             \/ rest = <<>>
             \/ notification'[n].job = "none" /\ rest # <<>> /\ Listening(rest, n, notification'[n])
      PROVE  DeliveryInv'
  <2>1. /\ Elsewhere(r) /\ req'[r].todo = rest
        /\ rest # <<>> => req'[r].op # "process"
        /\ rest = <<>> => req'[r] = Idle
    BY <1>1, <1>2, <1>3, <1>6, WentOn
  <2>2. QED
    BY <1>3, <1>6, <2>1, HandlerGoesOn
<1>7. \A i \in DOMAIN notification : notification' = notification => SameRow(i)
  BY DEF SameRow
<1>8. CASE IsOnline(r)
  <2>1. q = <<IfOnlineOf(n), EnqueueOf(n)>> /\ notification[n].recorded["WEBSOCKET"] = 0
    BY <1>3, <1>5, <1>8, ListeningAt DEF IsOnline
  <2>2. q[1][2] = n /\ Tail(q) = <<EnqueueOf(n)>>
    BY <2>1, ShortPrograms, NoticeLabels
  <2>3. PICK more : /\ Do(r, more) \/ (Continue(r) /\ more = <<>>)
                    /\ more \in {<<>>, <<RecordOf(n, "WEBSOCKET"), SendOf(n, "WEBSOCKET")>>}
    BY <1>5, <1>8, <2>2 DEF IsOnline, RecordOf, SendOf
  <2>4. notification' = notification
    BY <1>8 DEF IsOnline, noticeVars
  <2>5. CASE more = <<>>
    <3>1. Program(more) /\ more \o Tail(q) = <<EnqueueOf(n)>>
      BY <2>2, <2>5, NoProgram, ShortPrograms
    <3>2. Listening(more \o Tail(q), n, notification'[n]) /\ more \o Tail(q) # <<>>
      BY <3>1, ShortPrograms DEF Listening
    <3>3. QED
      BY <1>3, <1>4, <1>6, <1>7, <2>3, <2>4, <3>1, <3>2
  <2>6. CASE more = <<RecordOf(n, "WEBSOCKET"), SendOf(n, "WEBSOCKET")>>
    <3>1. Program(more)
      BY <2>6, ProgramOf2
    <3>2. more \o Tail(q) = <<RecordOf(n, "WEBSOCKET"), SendOf(n, "WEBSOCKET"), EnqueueOf(n)>>
      <4>1. <<RecordOf(n, "WEBSOCKET"), SendOf(n, "WEBSOCKET")>> \o <<EnqueueOf(n)>> = <<RecordOf(n, "WEBSOCKET"), SendOf(n, "WEBSOCKET"), EnqueueOf(n)>>
        BY JoinOf1
      <4>2. QED
        BY <2>2, <2>6, <4>1
    <3>3. Listening(more \o Tail(q), n, notification'[n]) /\ more \o Tail(q) # <<>>
      BY <2>1, <2>4, <3>2, ShortPrograms DEF Listening
    <3>4. QED
      BY <1>3, <1>4, <1>6, <1>7, <2>3, <2>4, <3>1, <3>3
  <2>7. QED
    BY <2>3, <2>5, <2>6
<1>9. CASE CreateDelivery(r)
  <2>0. /\ q[1][1] = "record" /\ Continue(r)
        /\ notification' = [notification EXCEPT ![q[1][2]].recorded[q[1][3]] = @ + 1]
    BY <1>5, <1>9 DEF CreateDelivery
  <2>1. q = <<RecordOf(n, "WEBSOCKET"), SendOf(n, "WEBSOCKET"), EnqueueOf(n)>>
        /\ notification[n].recorded["WEBSOCKET"] = 0
    BY <1>3, <2>0, ListeningAt
  <2>2. /\ q[1][2] = n /\ q[1][3] = "WEBSOCKET" /\ "WEBSOCKET" \in Channels
        /\ Tail(q) = <<SendOf(n, "WEBSOCKET"), EnqueueOf(n)>>
    BY <2>1, ShortPrograms, NoticeLabels DEF Channels
  <2>3. notification' = [notification EXCEPT ![n].recorded["WEBSOCKET"] = @ + 1]
    BY <2>0, <2>2
  <2>4. /\ DOMAIN notification' = DOMAIN notification
        /\ \A i \in DOMAIN notification \ {n} : SameRow(i)
        /\ notification'[n].job = notification[n].job /\ notification'[n].tries = notification[n].tries
        /\ notification'[n].sent = notification[n].sent
        /\ notification'[n].recorded = [notification[n].recorded EXCEPT !["WEBSOCKET"] = @ + 1]
    BY <1>1, <2>2, <2>3, Recorded
  <2>5. RowKept(notification'[n])
        /\ notification'[n].sent["WEBSOCKET"] < notification'[n].recorded["WEBSOCKET"]
    BY <1>4, <2>1, <2>4 DEF RowKept, RowType, Channels
  <2>6. <<>> \o Tail(q) = Tail(q) /\ Program(<<>>) /\ Tail(q) # <<>>
    BY <2>2, NoProgram, ProgramOf2, ShortPrograms
  <2>7. Listening(Tail(q), n, notification'[n]) /\ notification'[n].job = "none"
    BY <1>3, <2>2, <2>4, <2>5 DEF Listening
  <2>8. QED
    BY <1>6, <2>0, <2>4, <2>5, <2>6, <2>7
<1>10. CASE Send(r)
  <2>0. /\ q[1][1] = "send" /\ Continue(r)
        /\ notification' = [notification EXCEPT ![q[1][2]].sent[q[1][3]] = @ + 1]
    BY <1>5, <1>10 DEF Send, Emitted
  <2>1. q = <<SendOf(n, "WEBSOCKET"), EnqueueOf(n)>>
        /\ notification[n].sent["WEBSOCKET"] < notification[n].recorded["WEBSOCKET"]
    BY <1>3, <2>0, ListeningAt
  <2>2. /\ q[1][2] = n /\ q[1][3] = "WEBSOCKET" /\ "WEBSOCKET" \in Channels /\ Tail(q) = <<EnqueueOf(n)>>
    BY <2>1, ShortPrograms, NoticeLabels DEF Channels
  <2>3. notification' = [notification EXCEPT ![n].sent["WEBSOCKET"] = @ + 1]
    BY <2>0, <2>2
  <2>4. /\ DOMAIN notification' = DOMAIN notification
        /\ \A i \in DOMAIN notification \ {n} : SameRow(i)
        /\ notification'[n].job = notification[n].job /\ notification'[n].tries = notification[n].tries
        /\ notification'[n].recorded = notification[n].recorded
        /\ notification'[n].sent = [notification[n].sent EXCEPT !["WEBSOCKET"] = @ + 1]
    BY <1>1, <2>2, <2>3, SentOnce
  <2>5. RowKept(notification'[n])
    BY <1>4, <2>1, <2>4 DEF RowKept, RowType, Channels
  <2>6. <<>> \o Tail(q) = Tail(q) /\ Program(<<>>) /\ Tail(q) # <<>>
    BY <2>2, NoProgram, ProgramOf1, ShortPrograms
  <2>7. Listening(Tail(q), n, notification'[n]) /\ notification'[n].job = "none"
    BY <1>3, <2>2, <2>4 DEF Listening
  <2>8. QED
    BY <1>6, <2>0, <2>4, <2>5, <2>6, <2>7
<1>11. CASE Enqueue(r)
  <2>1. q = <<EnqueueOf(n)>>
    BY <1>3, <1>5, <1>11, ListeningAt DEF Enqueue
  <2>2. q[1][2] = n /\ Tail(q) = <<>> /\ Continue(r)
    BY <1>11, <2>1, ShortPrograms, NoticeLabels DEF Enqueue
  <2>3. notification' = [notification EXCEPT ![n].job = "waiting"]
    BY <1>5, <1>11, <2>2 DEF Enqueue
  <2>4. "waiting" \in {"none", "waiting", "active", "done", "failed"}
    OBVIOUS
  <2>5. /\ DOMAIN notification' = DOMAIN notification
        /\ \A i \in DOMAIN notification \ {n} : SameRow(i)
        /\ notification'[n].job = "waiting" /\ notification'[n].tries = notification[n].tries
        /\ notification'[n].recorded = notification[n].recorded
        /\ notification'[n].sent = notification[n].sent
    BY <1>1, <2>3, <2>4, JobMoved
  <2>6. RowKept(notification'[n])
    BY <1>3, <1>4, <2>5 DEF RowKept
  <2>7. <<>> \o Tail(q) = <<>> /\ Program(<<>>)
    BY <2>2, NoProgram
  <2>8. QED
    BY <1>6, <2>2, <2>5, <2>6, <2>7
<1>12. CASE \/ Create(r) \/ HandlePushNotification(r) \/ SendPush(r) \/ HandleTelegramNotification(r)
            \/ Complete(r) \/ ReadNotifications(r) \/ FindDevice(r) \/ SaveDevice(r) \/ DeleteTokens(r)
  <2>1. q[1][1] \in {"store", "push", "multicast", "telegram", "complete", "markAsRead", "findDevice",
                     "saveDevice", "deleteDevice"}
    BY <1>2, <1>12 DEF Create, HandlePushNotification, SendPush, HandleTelegramNotification, Complete,
                       ReadNotifications, FindDevice, SaveDevice, DeleteTokens, At
  <2>2. q[1][1] \in {"ifOnline", "record", "send", "enqueue"}
    BY <1>3, ListeningAt
  <2>3. QED
    BY <2>1, <2>2
<1>13. QED
  BY <1>8, <1>9, <1>10, <1>11, <1>12 DEF NotificationsSteps

\* A signal is stored, and its listener goes on with the row that is new.
LEMMA StoreDelivers ==
  ASSUME TypesInv, DeliveryInv, NEW r \in Requests, req[r].op # "process", Unrelated(r),
         Create(r), UNCHANGED message
  PROVE  DeliveryInv'
<1>1. Proper /\ NoticesOK /\ message' = message /\ ReqOK(r) /\ message \in Seq(MessageRow(DOMAIN conversation))
  BY DEF TypesInv, ReqsOK, ChatOK
<1>2. PICK q : q = req[r].todo
  OBVIOUS
<1>3. q # <<>> /\ q[1][1] = "store" /\ StepOK(q[1])
  BY <1>1, <1>2, HeadOK DEF Create, At
<1>4. Arg(r, 1) = q[1][2] /\ Arg(r, 2) = q[1][3] /\ Arg(r, 3) = q[1][4]
  BY <1>2 DEF Arg
<1>5. q[1][2] \in Users \cup {NoUser} /\ q[1][3] \in SignalTypes /\ q[1][4] \in 0..Len(message)
  BY <1>3 DEF StepOK
<1>6. CASE q[1][2] = NoUser
  <2>1. Throw(r) /\ notification' = notification
    BY <1>4, <1>6 DEF Create
  <2>2. Elsewhere(r) /\ req'[r] = Idle /\ Left(r)' = {}
    BY <1>1, <2>1, Throws DEF Thrown
  <2>3. Unrelated(r)' /\ req'[r].op # "process" /\ \A n \in DOMAIN notification : SameRow(n)
    BY <2>1, <2>2 DEF Unrelated, Idle, SameRow
  <2>4. QED
    BY <2>1, <2>2, <2>3, UnrelatedKept
<1>7. CASE q[1][2] # NoUser
  <2>1. PICK n, u, type, about :
          n = Len(notification') /\ u = q[1][2] /\ type = q[1][3] /\ about = q[1][4]
    OBVIOUS
  <2>2. /\ notification' = Append(notification, Notification(u, type, about))
        /\ Do(r, <<IfOnlineOf(n), EnqueueOf(n)>>)
    BY <1>4, <1>7, <2>1 DEF Create, IfOnlineOf, EnqueueOf
  <2>3. u \in Users /\ type \in SignalTypes /\ about \in 0..Len(message)
    BY <1>5, <1>7, <2>1
  <2>4. /\ DOMAIN notification' = DOMAIN notification \cup {n} /\ n \notin DOMAIN notification
        /\ \A i \in DOMAIN notification : notification'[i] = notification[i]
        /\ notification'[n] = Notification(u, type, about)
    BY <1>1, <2>1, <2>2, <2>3, NoticeAdded
  <2>5. Tail(q) = <<>>
    BY <1>1, <1>2, <1>3, EndsTail DEF ReqOK, Final, Proper
  <2>6. PICK more : more = <<IfOnlineOf(n), EnqueueOf(n)>>
    OBVIOUS
  <2>7. Program(more) /\ more \o Tail(q) = more /\ more # <<>>
    <3>1. Program(more) /\ more # <<>>
      BY <2>6, ProgramOf2, ShortPrograms
    <3>2. more \o <<>> = more
      BY <3>1, ConcatEmptySeq DEF Program
    <3>3. QED
      BY <2>5, <3>1, <3>2
  <2>8. /\ Elsewhere(r) /\ req'[r].todo = <<IfOnlineOf(n), EnqueueOf(n)>> /\ req'[r].op # "process"
    <3>1. Do(r, more)
      BY <2>2, <2>6
    <3>2. Proper /\ req[r].todo # <<>> /\ Program(more) /\ Do(r, more)
      BY <1>1, <1>2, <1>3, <2>7, <3>1
    <3>3. /\ Elsewhere(r) /\ req'[r].todo = more \o Tail(req[r].todo)
          /\ req'[r].todo # <<>> => req'[r].op = req[r].op
      BY <3>2, WentOn
    <3>4. QED
      BY <1>2, <2>6, <2>7, <3>3
  <2>9. /\ notification'[n].job = "none" /\ notification'[n].tries = 0
        /\ notification'[n].recorded = None /\ notification'[n].sent = None
    BY <2>4 DEF Notification
  <2>10. Listening(req'[r].todo, n, notification'[n])
    BY <2>8, <2>9 DEF Listening, None, Channels
  <2>11. RowKept(notification'[n])
    BY <2>9 DEF RowKept, None, Channels, Attempts
  <2>12. \A p \in Requests : ~Handles(p, n)
    <3>1. ASSUME NEW p \in Requests, NEW x \in Left(p), x[1] \in AboutNotification
          PROVE  x[2] \in DOMAIN notification
      BY <3>1 DEF TypesInv, ReqsOK, ReqOK, StepOK
    <3>2. QED
      BY <2>4, <3>1 DEF Handles
  <2>13. \A p \in Requests \ {r} : Attends(p)'
    <3>1. PICK S : S = {n}
      OBVIOUS
    <3>2. \A i \in DOMAIN notification : SameRow(i)
      BY <2>4 DEF SameRow
    <3>3. /\ DeliveryInv /\ Elsewhere(r) /\ DOMAIN notification \subseteq DOMAIN notification'
          /\ \A i \in S, p \in Requests \ {r} : ~Handles(p, i)
          /\ \A i \in DOMAIN notification \ S : SameRow(i)
      BY <2>4, <2>8, <2>12, <3>1, <3>2
    <3>4. QED
      BY <3>3, OthersAttend
  <2>14. Attends(r)'
    BY <2>4, <2>8, <2>9, <2>10 DEF Attends
  <2>15. Exclusive'
    <3>1. \A x \in Left(r)' : x[2] = n
      BY <2>10, ListenOf DEF Left
    <3>2. QED
      BY <2>8, <2>12, <3>1, StillExclusive DEF DeliveryInv
  <2>16. \A i \in DOMAIN notification' : RowKept(notification'[i])
    BY <2>4, <2>11 DEF DeliveryInv
  <2>17. QED
    BY <2>13, <2>14, <2>15, <2>16 DEF DeliveryInv
<1>8. QED
  BY <1>6, <1>7

-----------------------------------------------------------------------------
(* The steps of the others *)

\* What the steps of the other parts begin with.
LEMMA OtherHeads ==
  ASSUME NEW r, PresenceSteps(r) \/ ChatSteps(r) \/ MessageSteps(r)
  PROVE  req[r].todo # <<>> /\ req[r].todo[1][1] \notin NoticeSteps \cup {"store"}
<1>1. PICK h : h = req[r].todo[1]
  OBVIOUS
<1>2. PICK labels :
        labels = {"join", "leave", "setOnline", "tellStatus", "access", "found", "readLast", "show",
                  "list", "mayTalk", "findExisting", "createConversation", "delete", "stillThere",
                  "restore", "enter", "exit", "insert", "touch", "findMessage", "emitNew", "wasRead",
                  "unread", "markRead", "nowRead", "owns", "edit", "ifLast", "unreadBefore",
                  "lastBefore", "deleteMessages", "readNewLast", "setLast"}
  OBVIOUS
<1>3. CASE PresenceSteps(r)
  <2>1. req[r].todo # <<>> /\ h[1] \in labels
    BY <1>1, <1>2, <1>3
       DEF PresenceSteps, HandleConnection, HandleDisconnect, UpdateOnlineStatus,
           NotifyUserStatusUpdate, At
  <2>2. QED
    BY <1>1, <1>2, <2>1 DEF NoticeSteps, AboutNotification
<1>4. CASE ChatSteps(r)
  <2>1. req[r].todo # <<>> /\ h[1] \in labels
    BY <1>1, <1>2, <1>4
       DEF ChatSteps, VerifyAccess, FindConversation, GetLastMessage, ShowPreview, FindConversations,
           MayTalk, FindExisting, CreateConversation, DeleteConversation, StillThere,
           RestoreConversation, At
  <2>2. QED
    BY <1>1, <1>2, <2>1 DEF NoticeSteps, AboutNotification
<1>5. CASE MessageSteps(r)
  <2>1. req[r].todo # <<>> /\ h[1] \in labels
    BY <1>1, <1>2, <1>5
       DEF MessageSteps, Enter, Exit, InsertMessage, Touch, FindMessage, EmitMessageNew, WasRead,
           CountUnread, MarkMessagesAsRead, NowRead, VerifyMessageOwnership, Edit, IfLast,
           UnreadBefore, LastBefore, DeleteRows, ReadNewLast, SetLast, At
  <2>2. QED
    BY <1>1, <1>2, <2>1 DEF NoticeSteps, AboutNotification
<1>6. QED
  BY <1>3, <1>4, <1>5

\* What handles a notification begins with a step of the listener or of the worker.
LEMMA HandlerHeads ==
  ASSUME NEW r \in Requests, Attends(r), req[r].op = "process" \/ ~Unrelated(r)
  PROVE  req[r].todo[1][1] \in NoticeSteps /\ ~Unrelated(r)
<1>1. PICK n \in DOMAIN notification :
        Working(req[r].todo, n, notification[n]) \/ Listening(req[r].todo, n, notification[n])
  BY DEF Attends
<1>2. req[r].todo[1][1] \in NoticeSteps
  BY <1>1, WorkingAt, ListeningAt DEF NoticeSteps, AboutNotification
<1>3. CompleteOf(n) \in Left(r) \/ EnqueueOf(n) \in Left(r)
  BY <1>1, WorkOf, ListenOf DEF Left
<1>4. QED
  BY <1>2, <1>3, NoticeLabels DEF Unrelated, AboutNotification

LEMMA CalmAdds ==
  ASSUME NEW label, label \notin AboutNotification \cup {"store"}
  PROVE  \A x \in Adds(label) : x \notin AboutNotification
<1>1. CASE label = "insert"
  BY <1>1, AddsOf DEF PreviewLabels, AboutNotification
<1>2. CASE label = "emitNew"
  BY <1>2, AddsOf DEF AboutNotification
<1>3. CASE label = "findExisting"
  BY <1>3, AddsOf DEF PreviewLabels, AboutNotification
<1>4. CASE label \in {"list", "createConversation", "nowRead", "ifLast", "setLast"}
  BY <1>4, AddsOf DEF PreviewLabels, AboutNotification
<1>5. CASE label = "join"
  BY <1>5, AddsOf DEF AboutNotification
<1>6. CASE label \notin {"insert", "emitNew", "findExisting", "list", "createConversation", "nowRead",
                         "ifLast", "setLast", "join"}
  <2>1. Adds(label) = {}
    BY <1>6 DEF Adds
  <2>2. QED
    BY <2>1
<1>7. QED
  BY <1>1, <1>2, <1>3, <1>4, <1>5, <1>6

\* A request that is about no notification goes on.
LEMMA OtherSteps ==
  ASSUME TypesInv, DeliveryInv, NEW r \in Requests, Progress(r), req[r].op # "process", Unrelated(r),
         req[r].todo[1][1] \notin AboutNotification \cup {"store"},
         DOMAIN notification' = DOMAIN notification, \A n \in DOMAIN notification : SameRow(n)
  PROVE  DeliveryInv'
<1>1. PICK label : label = req[r].todo[1][1]
  OBVIOUS
<1>2. Moved(r, Adds(label))
  BY <1>1, StepsAdded
<1>3. \A x \in Adds(label) : x \notin AboutNotification
  BY <1>1, CalmAdds
<1>4. \A x \in Steps(Tail(req[r].todo)) : x \in Left(r)
  <2>1. Program(req[r].todo) /\ req[r].todo # <<>>
    BY <1>2 DEF TypesInv, ReqsOK, Proper, Moved
  <2>2. QED
    BY <2>1, ProgramTail DEF Left
<1>5. Unrelated(r)'
  BY <1>2, <1>3, <1>4 DEF Moved, Unrelated
<1>6. req'[r].op # "process" /\ Elsewhere(r)
  BY <1>2 DEF Moved, Idle
<1>7. QED
  BY <1>5, <1>6, UnrelatedKept

LEMMA ProgressDelivers ==
  ASSUME TypesInv, DeliveryInv, NEW r \in Requests, Progress(r)
  PROVE  DeliveryInv'
<1>1. Attends(r)
  BY DEF DeliveryInv
<1>2. ASSUME notification' = notification
      PROVE  DOMAIN notification' = DOMAIN notification /\ \A n \in DOMAIN notification : SameRow(n)
  BY <1>2 DEF SameRow
<1>3. CASE (PresenceSteps(r) \/ ChatSteps(r) \/ MessageSteps(r)) /\ UNCHANGED noticeVars
  <2>1. req[r].todo[1][1] \notin NoticeSteps \cup {"store"}
    BY <1>3, OtherHeads
  <2>2. req[r].op # "process" /\ Unrelated(r)
    BY <1>1, <2>1, HandlerHeads
  <2>3. QED
    BY <1>2, <1>3, <2>1, <2>2, OtherSteps DEF noticeVars, NoticeSteps
<1>4. CASE NotificationsSteps(r) /\ UNCHANGED <<presenceVars, chatVars, gatewayVars>>
  <2>1. message' = message
    BY <1>4 DEF chatVars
  <2>2. CASE req[r].op = "process"
    BY <1>4, <2>1, <2>2, WorkerDelivers
  <2>3. CASE req[r].op # "process" /\ ~Unrelated(r)
    BY <1>4, <2>1, <2>3, ListenerDelivers
  <2>4. CASE req[r].op # "process" /\ Unrelated(r)
    <3>1. CASE Create(r)
      BY <2>1, <2>4, <3>1, StoreDelivers
    <3>2. CASE ReadNotifications(r) \/ FindDevice(r) \/ SaveDevice(r) \/ DeleteTokens(r)
      <4>1. PICK h : h = req[r].todo[1]
        OBVIOUS
      <4>2. h[1] \in {"markAsRead", "findDevice", "saveDevice", "deleteDevice"}
        BY <3>2, <4>1 DEF ReadNotifications, FindDevice, SaveDevice, DeleteTokens, At
      <4>3. h[1] \notin AboutNotification \cup {"store"}
        BY <4>2 DEF AboutNotification
      <4>4. DOMAIN notification' = DOMAIN notification /\ \A n \in DOMAIN notification : SameRow(n)
        <5>1. CASE ReadNotifications(r)
          <6>1. PICK u, ids : u = Arg(r, 2) /\ ids = Arg(r, 1)
            OBVIOUS
          <6>2. notification' = [n \in DOMAIN notification |->
                  IF notification[n].user = u /\ (ids = {} \/ n \in ids)
                    THEN [notification[n] EXCEPT !.read = TRUE] ELSE notification[n]]
            BY <5>1, <6>1 DEF ReadNotifications
          <6>3. NoticesOK /\ message' = message
            BY <2>1 DEF TypesInv
          <6>4. QED
            BY <6>2, <6>3, ReadEffect DEF SameRow
        <5>2. CASE FindDevice(r) \/ SaveDevice(r) \/ DeleteTokens(r)
          BY <1>2, <5>2 DEF FindDevice, SaveDevice, DeleteTokens, noticeVars
        <5>3. QED
          BY <3>2, <5>1, <5>2
      <4>5. QED
        BY <2>4, <4>1, <4>3, <4>4, OtherSteps
    <3>3. CASE \/ IsOnline(r) \/ CreateDelivery(r) \/ Send(r) \/ Enqueue(r)
               \/ HandlePushNotification(r) \/ SendPush(r) \/ HandleTelegramNotification(r)
               \/ Complete(r)
      <4>1. PICK h : h = req[r].todo[1]
        OBVIOUS
      <4>2. req[r].todo # <<>> /\ h[1] \in AboutNotification
        BY <3>3, <4>1 DEF IsOnline, CreateDelivery, Send, Enqueue, HandlePushNotification, SendPush,
                          HandleTelegramNotification, Complete, At, AboutNotification
      <4>3. h \in Left(r)
        BY <4>1, <4>2, ProgramTail DEF TypesInv, ReqsOK, Proper, Left
      <4>4. QED
        BY <2>4, <4>2, <4>3 DEF Unrelated
    <3>4. QED
      BY <1>4, <3>1, <3>2, <3>3 DEF NotificationsSteps
  <2>5. QED
    BY <2>2, <2>3, <2>4
<1>5. QED
  BY <1>3, <1>4 DEF Progress

\* A request that starts is about no notification yet.
LEMMA BegunDelivers ==
  ASSUME TypesInv, DeliveryInv, NEW r \in Requests, Begun(r), notification' = notification
  PROVE  DeliveryInv'
<1>1. PICK op, about, program :
        Program(program) /\ Start(r, op, about, program) /\ BeginsWith(op, about, Steps(program))
  BY DEF Begun
<1>2. Elsewhere(r) /\ Left(r)' = Steps(program) /\ req'[r].op = op
  <2>1. Proper /\ Program(program) /\ Start(r, op, about, program)
    BY <1>1 DEF TypesInv, ReqsOK
  <2>2. /\ Elsewhere(r) /\ Left(r)' = Steps(program)
        /\ req'[r] = [op |-> op, about |-> about, todo |-> program, got |-> <<>>]
    BY <2>1, Starts
  <2>3. QED
    BY <2>2
<1>3. \A x \in Left(r)' : x[1] \notin AboutNotification /\ op # "process"
  BY <1>1, <1>2 DEF BeginsWith, CalmLabels, PlainLabels, PreviewLabels, AboutNotification
<1>4. Unrelated(r)' /\ req'[r].op # "process"
  BY <1>1, <1>2, <1>3 DEF Unrelated, BeginsWith
<1>5. \A n \in DOMAIN notification : SameRow(n)
  BY DEF SameRow
<1>6. QED
  BY <1>2, <1>4, <1>5, UnrelatedKept

\* The worker takes a job that waits, which no request works on.
LEMMA TakeDelivers ==
  ASSUME TypesInv, DeliveryInv, NEW r \in Requests, Take(r), UNCHANGED message
  PROVE  DeliveryInv'
<1>1. Proper /\ NoticesOK /\ message' = message
  BY DEF TypesInv, ReqsOK
<1>2. PICK n \in DOMAIN notification :
        /\ notification[n].job = "waiting"
        /\ notification' = [notification EXCEPT ![n].job = "active", ![n].tries = @ + 1]
        /\ Wake(r, "process", {}, <<PushOf(n), TelegramOf(n), CompleteOf(n)>>)
  BY DEF Take, PushOf, TelegramOf, CompleteOf
<1>3. /\ DOMAIN notification' = DOMAIN notification
      /\ \A i \in DOMAIN notification \ {n} : SameRow(i)
      /\ notification'[n].job = "active" /\ notification'[n].tries = notification[n].tries + 1
      /\ notification'[n].recorded = notification[n].recorded
      /\ notification'[n].sent = notification[n].sent
  BY <1>1, <1>2, JobTaken
<1>4. PICK q : q = <<PushOf(n), TelegramOf(n), CompleteOf(n)>>
  OBVIOUS
<1>5. Program(q) /\ Start(r, "process", {}, q)
  BY <1>2, <1>4, ProgramOf3 DEF Wake
<1>6. /\ Elsewhere(r) /\ req'[r].todo = q /\ req'[r].op = "process" /\ Left(r)' = Steps(q)
  <2>1. PICK op, about : op = "process" /\ about = {}
    OBVIOUS
  <2>2. Proper /\ Program(q) /\ Start(r, op, about, q)
    BY <1>1, <1>5, <2>1
  <2>3. /\ Elsewhere(r) /\ Left(r)' = Steps(q)
        /\ req'[r] = [op |-> op, about |-> about, todo |-> q, got |-> <<>>]
    BY <2>2, Starts
  <2>4. QED
    BY <2>1, <2>3
<1>7. RowType(notification[n]) /\ RowKept(notification[n])
  BY <1>1, RowTypes DEF DeliveryInv
<1>8. RowKept(notification'[n]) /\ ToPush(notification'[n]) /\ ToTelegram(notification'[n])
  BY <1>2, <1>3, <1>7 DEF RowKept, RowType, ToPush, ToTelegram, Channels, Attempts
<1>9. Working(q, n, notification'[n])
  BY <1>4, <1>8 DEF Working
<1>10. ASSUME NEW p \in Requests, Handles(p, n) PROVE FALSE
  <2>1. Attends(p) /\ ~Unrelated(p)
    BY <1>10 DEF DeliveryInv, Handles, Unrelated
  <2>2. PICK i \in DOMAIN notification :
          /\ \A x \in Left(p) : x[1] \in AboutNotification => x[2] = i
          /\ notification[i].job \in {"active", "none"}
    BY <2>1, AttendsTo
  <2>3. i = n
    BY <1>10, <2>2 DEF Handles
  <2>4. QED
    BY <1>2, <2>2, <2>3
<1>11. \A p \in Requests \ {r} : Attends(p)'
  <2>1. PICK S : S = {n}
    OBVIOUS
  <2>2. /\ DOMAIN notification \subseteq DOMAIN notification'
        /\ \A i \in S, p \in Requests \ {r} : ~Handles(p, i)
        /\ \A i \in DOMAIN notification \ S : SameRow(i)
    BY <1>3, <1>10, <2>1
  <2>3. QED
    BY <1>6, <2>2, OthersAttend
<1>12. Attends(r)'
  BY <1>3, <1>6, <1>9 DEF Attends
<1>13. Exclusive'
  <2>1. \A x \in Left(r)' : x[1] \in AboutNotification => x[2] = n
    BY <1>6, <1>9, WorkOf
  <2>2. QED
    BY <1>6, <1>10, <2>1, StillExclusive DEF DeliveryInv
<1>14. \A i \in DOMAIN notification' : RowKept(notification'[i])
  BY <1>3, <1>8 DEF DeliveryInv, RowKept, SameRow
<1>15. QED
  BY <1>11, <1>12, <1>13, <1>14 DEF DeliveryInv

\* An attempt that fails leaves what was counted, and the job waits again or is over.
LEMMA FailDelivers ==
  ASSUME TypesInv, DeliveryInv, NEW r \in Requests, Fail(r)
  PROVE  DeliveryInv'
<1>1. Proper /\ NoticesOK
  BY DEF TypesInv, ReqsOK
<1>2. Fault(r)
  BY DEF Fail, FailAttempt
<1>3. Elsewhere(r) /\ req'[r] = Idle /\ Left(r)' = {}
  BY <1>1, <1>2, Faults
<1>4. CASE FailAttempt(r) /\ UNCHANGED <<presenceVars, chatVars, gatewayVars>>
  <2>1. PICK q : q = req[r].todo
    OBVIOUS
  <2>2. PICK n \in DOMAIN notification : Working(q, n, notification[n])
    BY <1>4, <2>1 DEF FailAttempt, DeliveryInv, Attends
  <2>3. CompleteOf(n) \in Left(r) /\ q[Len(q)] = CompleteOf(n)
    BY <2>1, <2>2, WorkOf DEF Left
  <2>4. JobOf(r) = n /\ Handles(r, n)
    BY <2>1, <2>3, NoticeLabels DEF JobOf, Handles, AboutNotification
  <2>5. PICK job : job = IF notification[n].tries < Attempts THEN "waiting" ELSE "failed"
    OBVIOUS
  <2>6. /\ job \in {"none", "waiting", "active", "done", "failed"} /\ message' = message
        /\ notification' = [notification EXCEPT ![n].job = job]
    BY <1>4, <2>4, <2>5 DEF FailAttempt, chatVars
  <2>7. /\ DOMAIN notification' = DOMAIN notification
        /\ \A i \in DOMAIN notification \ {n} : SameRow(i)
        /\ notification'[n].job = job /\ notification'[n].tries = notification[n].tries
        /\ notification'[n].recorded = notification[n].recorded
        /\ notification'[n].sent = notification[n].sent
    BY <1>1, <2>6, JobMoved
  <2>8. RowKept(notification'[n])
    BY <2>5, <2>7 DEF DeliveryInv, RowKept
  <2>9. QED
    BY <1>3, <2>4, <2>7, <2>8, HandlerGoesOn
<1>5. CASE notification' = notification
  <2>1. Unrelated(r)' /\ req'[r].op # "process"
    BY <1>3 DEF Unrelated, Idle
  <2>2. \A n \in DOMAIN notification : SameRow(n)
    BY <1>5 DEF SameRow
  <2>3. QED
    BY <1>3, <1>5, <2>1, <2>2, UnrelatedKept
<1>6. QED
  BY <1>4, <1>5 DEF Fail, noticeVars

LEMMA DeliveryStep == ASSUME TypesInv, DeliveryInv, Next PROVE DeliveryInv'
<1>1. PICK r \in Requests : Arrive(r) \/ Progress(r) \/ Serve(r) \/ Fail(r)
  BY DEF Next
<1>2. CASE Arrive(r)
  <2>1. Begun(r)
    BY <1>2, StepsBegun
  <2>2. notification' = notification
    BY <1>2 DEF Arrive, BeginSignals, BeginNotifications, BeginDevices, noticeVars
  <2>3. QED
    BY <2>1, <2>2, BegunDelivers
<1>3. CASE Progress(r)
  BY <1>3, ProgressDelivers
<1>4. CASE Serve(r)
  <2>1. CASE Fire(r) /\ UNCHANGED <<noticeVars, chatVars, gatewayVars>>
    BY <2>1, StepsBegun, BegunDelivers DEF noticeVars
  <2>2. CASE Take(r) /\ UNCHANGED <<presenceVars, chatVars, gatewayVars>>
    BY <2>2, TakeDelivers DEF chatVars
  <2>3. QED
    BY <1>4, <2>1, <2>2 DEF Serve
<1>5. CASE Fail(r)
  BY <1>5, FailDelivers
<1>6. QED
  BY <1>1, <1>2, <1>3, <1>4, <1>5

LEMMA DeliveryStutter == ASSUME DeliveryInv, UNCHANGED vars PROVE DeliveryInv'
<1>1. req' = req /\ notification' = notification
  BY DEF vars, noticeVars
<1>2. QED
  BY <1>1 DEF DeliveryInv, Attends, Exclusive, Unrelated, Left

LEMMA DeliveryInit == ASSUME Init PROVE DeliveryInv
<1>1. notification = <<>> /\ \A r \in Requests : req[r] = Idle /\ Left(r) = {}
  BY NoneYet DEF Init, NotificationsInit
<1>2. QED
  BY <1>1 DEF DeliveryInv, Attends, Exclusive, Unrelated, Idle

\* Whatever fails and is tried again, nothing is sent that was not recorded, nothing is recorded
\* more often than the job was tried, and a job is tried three times at most: of a queue with any
\* number of jobs, while handlers of any number of other requests run.
THEOREM Deliveries == Spec => []DeliveriesRecorded
<1>1. Init => DeliveryInv
  BY DeliveryInit
<1>2. TypesInv /\ DeliveryInv /\ [Next]_vars => DeliveryInv'
  BY DeliveryStep, DeliveryStutter
<1>3. DeliveryInv => DeliveriesRecorded
  BY DEF DeliveryInv, RowKept, DeliveriesRecorded
<1>4. QED
  BY <1>1, <1>2, <1>3, TypesAlways, PTL DEF Spec

-----------------------------------------------------------------------------
(* The inductive invariant *)

\* What a step will write, its request is about.
Foreseen(r, x) ==
  /\ x[1] = "saveDevice" => x[3] \in req[r].about
  /\ x[1] \in {"findExisting", "createConversation"} => x[4] \in req[r].about
  /\ x[1] \in {"delete", "restore"} => x[2] \in req[r].about
  /\ x[1] = "restore" => x[2] \in DOMAIN conversation

\* A device is saved on the row that was found, which nobody else wrote about since.
Looks(y, x) == y[1] = "findDevice" /\ y[2] = x[2] /\ y[3] = x[3]
MaySave(r, x) ==
  /\ \A y \in Left(r) : y = x \/ Looks(y, x)
  /\ \/ \E y \in Left(r) : y[1] = "findDevice"
     \/ x[3] \in contended
     \/ RowsOf(x[2], x[3]) \subseteq {Got(r, "row")}

\* A conversation is created when none was found, and restored only if it never went.
MayCreate(r, x) ==
  /\ req[r].todo = <<x>>
  /\ x[4] \in contended \/ Existing(x[2], x[3], x[4]) \subseteq contended
MayRestore(r, x) ==
  \/ x[2] \in contended
  \/ Found(x[2])
  \/ \E y \in Left(r) : y[1] = "access" /\ y[2] = x[2]

Looked(r) ==
  \A x \in Left(r) :
    /\ Foreseen(r, x)
    /\ x[1] = "saveDevice" => MaySave(r, x)
    /\ x[1] = "createConversation" => MayCreate(r, x)
    /\ x[1] = "restore" => MayRestore(r, x)

OneRow == \A u \in Users, d \in Devices : d \notin contended => \A i, j \in RowsOf(u, d) : i = j

TwiceInv == Apart /\ OneRow /\ OneConversation /\ \A r \in Requests : Looked(r)

-----------------------------------------------------------------------------
(* Requests *)

\* What is written about that nobody else writes about: the labels that Looked is about.
Writing == {"saveDevice", "findExisting", "createConversation", "delete", "restore"}

LEMMA PlainLooked ==
  ASSUME NEW r, NEW x, x[1] \notin Writing
  PROVE  /\ Foreseen(r, x)
         /\ x[1] # "saveDevice" /\ x[1] # "createConversation" /\ x[1] # "restore"
BY DEF Foreseen, Writing

\* A request goes on as foreseen while another takes its step, unless both are about what it writes.
LEMMA OtherLooked ==
  ASSUME NEW r \in Requests, Elsewhere(r), contended \subseteq contended',
         NEW q \in Requests \ {r}, Looked(q),
         \A x \in Left(q) : x[1] = "saveDevice" =>
           x[3] \in contended' \/ RowsOf(x[2], x[3])' \subseteq RowsOf(x[2], x[3]),
         \A x \in Left(q) : x[1] = "createConversation" =>
           x[4] \in contended' \/ Existing(x[2], x[3], x[4])' \subseteq Existing(x[2], x[3], x[4]) \cup contended',
         DOMAIN conversation \subseteq DOMAIN conversation',
         \A x \in Left(q) : x[1] = "restore" => x[2] \in contended' \/ (Found(x[2]) => Found(x[2])')
  PROVE  Looked(q)'
<1>1. req'[q] = req[q] /\ Left(q)' = Left(q)
  BY DEF Elsewhere, Left
<1>2. ASSUME NEW x \in Left(q) PROVE Foreseen(q, x)'
  BY <1>1, <1>2 DEF Looked, Foreseen
<1>3. ASSUME NEW x \in Left(q), x[1] = "saveDevice" PROVE MaySave(q, x)'
  BY <1>1, <1>3 DEF Looked, MaySave, Got
<1>4. ASSUME NEW x \in Left(q), x[1] = "createConversation" PROVE MayCreate(q, x)'
  BY <1>1, <1>4 DEF Looked, MayCreate
<1>5. ASSUME NEW x \in Left(q), x[1] = "restore" PROVE MayRestore(q, x)'
  BY <1>1, <1>5 DEF Looked, MayRestore
<1>6. QED
  BY <1>1, <1>2, <1>3, <1>4, <1>5 DEF Looked

\* And if it is not about the same.
LEMMA OthersLooked ==
  ASSUME TwiceInv, NEW r \in Requests, Elsewhere(r), contended \subseteq contended',
         \A u, d : d \in contended' \/ d \in req[r].about \/ RowsOf(u, d)' \subseteq RowsOf(u, d),
         \A u, v, t : t \in contended' \/ t \in req[r].about \/
                      Existing(u, v, t)' \subseteq Existing(u, v, t) \cup contended',
         DOMAIN conversation \subseteq DOMAIN conversation',
         \A c \in DOMAIN conversation :
           c \in contended' \/ c \in req[r].about \/ (Found(c) => Found(c)')
  PROVE  \A q \in Requests \ {r} : Looked(q)'
<1>1. ASSUME NEW q \in Requests \ {r} PROVE Looked(q)'
  <2>1. /\ Looked(q) /\ \A s \in req[r].about : s \in req[q].about => s \in contended'
    BY DEF TwiceInv, Apart
  <2>2. ASSUME NEW x \in Left(q), x[1] = "saveDevice"
        PROVE  x[3] \in contended' \/ RowsOf(x[2], x[3])' \subseteq RowsOf(x[2], x[3])
    <3>1. x[3] \in req[q].about
      BY <2>1, <2>2 DEF Looked, Foreseen
    <3>2. PICK u, d : u = x[2] /\ d = x[3]
      OBVIOUS
    <3>3. d \in contended' \/ RowsOf(u, d)' \subseteq RowsOf(u, d)
      BY <2>1, <3>1, <3>2
    <3>4. QED
      BY <3>2, <3>3
  <2>3. ASSUME NEW x \in Left(q), x[1] = "createConversation"
        PROVE  \/ x[4] \in contended'
               \/ Existing(x[2], x[3], x[4])' \subseteq Existing(x[2], x[3], x[4]) \cup contended'
    <3>1. x[4] \in req[q].about
      BY <2>1, <2>3 DEF Looked, Foreseen
    <3>2. PICK u, v, t : u = x[2] /\ v = x[3] /\ t = x[4]
      OBVIOUS
    <3>3. t \in contended' \/ Existing(u, v, t)' \subseteq Existing(u, v, t) \cup contended'
      BY <2>1, <3>1, <3>2
    <3>4. QED
      BY <3>2, <3>3
  <2>4. ASSUME NEW x \in Left(q), x[1] = "restore"
        PROVE  x[2] \in contended' \/ (Found(x[2]) => Found(x[2])')
    <3>1. x[2] \in req[q].about /\ x[2] \in DOMAIN conversation
      BY <2>1, <2>4 DEF Looked, Foreseen
    <3>2. PICK c \in DOMAIN conversation : c = x[2]
      BY <3>1
    <3>3. c \in contended' \/ (Found(c) => Found(c)')
      BY <2>1, <3>1, <3>2
    <3>4. QED
      BY <3>2, <3>3
  <2>5. QED
    BY <2>1, <2>2, <2>3, <2>4, OtherLooked
<1>2. QED
  BY <1>1

\* No row of a device is new, nor a conversation, and none comes back.
NoNewDevices == \A u, d : RowsOf(u, d)' \subseteq RowsOf(u, d)
NoNewConversations ==
  /\ DOMAIN conversation' = DOMAIN conversation
  /\ \A c \in DOMAIN conversation : Found(c)' => Found(c) \/ c \in contended
  /\ \A c \in DOMAIN conversation :
       conversation'[c].topic = conversation[c].topic /\ conversation'[c].pair = conversation[c].pair

LEMMA NoNewExisting ==
  ASSUME NoNewConversations
  PROVE  /\ \A u, v, t : Existing(u, v, t)' \subseteq Existing(u, v, t) \cup contended
         /\ \A c \in DOMAIN conversation : Participants(c)' = Participants(c)
BY DEF NoNewConversations, Existing, Participants

LEMMA TwiceUnwritten ==
  ASSUME TwiceInv, NEW r \in Requests, Elsewhere(r), contended \subseteq contended', Apart',
         NoNewDevices, NoNewConversations, Looked(r)',
         \A c \in DOMAIN conversation : c \in req[r].about \/ (Found(c) => Found(c)')
  PROVE  TwiceInv'
<1>1. /\ \A u, v, t : Existing(u, v, t)' \subseteq Existing(u, v, t) \cup contended
      /\ \A c \in DOMAIN conversation : Participants(c)' = Participants(c)
  BY NoNewExisting
<1>2. \A q \in Requests \ {r} : Looked(q)'
  BY <1>1, OthersLooked DEF NoNewDevices, NoNewConversations
<1>3. OneRow'
  BY DEF TwiceInv, OneRow, NoNewDevices
<1>4. OneConversation'
  <2>1. ASSUME NEW c \in DOMAIN conversation, NEW d \in DOMAIN conversation, c # d, Found(c)', Found(d)',
               conversation'[c].topic = conversation'[d].topic, Participants(c)' = Participants(d)'
        PROVE  {c, d, conversation'[c].topic} \cap contended' # {}
    <3>1. /\ Found(c) \/ c \in contended
          /\ Found(d) \/ d \in contended
          /\ conversation[c].topic = conversation[d].topic
          /\ Participants(c) = Participants(d) /\ conversation'[c].topic = conversation[c].topic
      BY <1>1, <2>1 DEF NoNewConversations
    <3>2. {c, d, conversation[c].topic} \cap contended # {}
      BY <2>1, <3>1 DEF TwiceInv, OneConversation
    <3>3. QED
      BY <3>1, <3>2
  <2>2. QED
    BY <2>1 DEF OneConversation, NoNewConversations
<1>5. QED
  BY <1>2, <1>3, <1>4 DEF TwiceInv

-----------------------------------------------------------------------------
(* The steps of a request that look, or that write something else *)

LEMMA AddsUnwritten ==
  ASSUME NEW label, label # "findExisting" PROVE Adds(label) \cap Writing = {}
<1>1. CASE label = "insert"
  BY <1>1, AddsOf DEF PreviewLabels, Writing
<1>2. CASE label = "emitNew"
  BY <1>2, AddsOf DEF Writing
<1>3. CASE label \in {"list", "createConversation", "nowRead", "ifLast", "setLast"}
  BY <1>3, AddsOf DEF PreviewLabels, Writing
<1>4. CASE label = "join"
  BY <1>4, AddsOf DEF Writing
<1>5. CASE label \in AboutNotification \cup {"store"}
  BY <1>5, AddsOf DEF NoticeSteps, AboutNotification, Writing
<1>6. CASE label \notin {"insert", "emitNew", "findExisting", "list", "createConversation", "nowRead",
                         "ifLast", "setLast", "join"} \cup AboutNotification \cup {"store"}
  BY <1>6 DEF Adds
<1>7. QED
  BY <1>1, <1>2, <1>3, <1>4, <1>5, <1>6

\* A step that neither saves a device nor creates a conversation keeps what was foreseen, if one that
\* looks for a device finds the one row, and one that lets into a conversation finds it.
LEMMA LookedOn ==
  ASSUME TypesInv, NEW r \in Requests, Looked(r), NEW labels, Moved(r, labels), labels \cap Writing = {},
         NEW h, h = req[r].todo[1], h[1] \notin {"saveDevice", "createConversation"},
         \A x \in Left(r) : x[1] = "saveDevice" /\ Looks(h, x) => req'[r] = Idle \/ MaySave(r, x)',
         DOMAIN conversation \subseteq DOMAIN conversation',
         \A c \in DOMAIN conversation : Found(c) => Found(c)',
         h[1] = "access" => req'[r] = Idle \/ Found(h[2])'
  PROVE  Looked(r)'
<1>1. h = req[r].todo[1]
  OBVIOUS
<1>2. PICK rest : rest = Steps(Tail(req[r].todo))
  OBVIOUS
<1>3. Left(r) = {h} \cup rest
  <2>1. Program(req[r].todo) /\ req[r].todo # <<>>
    BY DEF TypesInv, ReqsOK, Proper, Moved
  <2>2. QED
    BY <1>1, <1>2, <2>1, ProgramTail DEF Left
<1>4. /\ \A x \in Left(r)' : x \in rest \/ x[1] \in labels
      /\ req'[r] # Idle => req'[r].about = req[r].about
      /\ contended' = contended
  BY <1>2 DEF Moved
<1>5. ASSUME NEW x \in Left(r)', x[1] \in Writing
      PROVE  x \in rest /\ x \in Left(r) /\ req'[r] # Idle /\ req'[r].about = req[r].about
  <2>1. x \in rest
    BY <1>4, <1>5
  <2>2. req'[r] # Idle
    BY <1>5, NoProgram DEF Left, Idle
  <2>3. QED
    BY <1>3, <1>4, <2>1, <2>2
<1>6. ASSUME NEW x \in Left(r)', x[1] \in Writing PROVE Foreseen(r, x)'
  <2>1. x \in Left(r) /\ req'[r].about = req[r].about
    BY <1>5, <1>6
  <2>2. QED
    BY <2>1 DEF Looked, Foreseen
<1>7. ASSUME NEW x \in Left(r)', x[1] = "saveDevice" PROVE MaySave(r, x)'
  <2>1. x \in Left(r) /\ req'[r] # Idle
    BY <1>5, <1>7 DEF Writing
  <2>2. h = x \/ Looks(h, x)
    BY <1>3, <1>7, <2>1 DEF Looked, MaySave
  <2>3. QED
    BY <1>1, <1>7, <2>1, <2>2
<1>8. ASSUME NEW x \in Left(r)', x[1] = "createConversation" PROVE FALSE
  <2>1. x \in Left(r)
    BY <1>5, <1>8 DEF Writing
  <2>2. req[r].todo = <<x>>
    BY <1>8, <2>1 DEF Looked, MayCreate
  <2>3. QED
    BY <1>1, <1>8, <2>2
<1>9. ASSUME NEW x \in Left(r)', x[1] = "restore" PROVE MayRestore(r, x)'
  <2>1. x \in Left(r) /\ req'[r] # Idle /\ x[2] \in DOMAIN conversation /\ MayRestore(r, x)
    BY <1>5, <1>9 DEF Writing, Looked, Foreseen
  <2>2. CASE x[2] \in contended \/ Found(x[2])
    BY <1>4, <2>1, <2>2 DEF MayRestore
  <2>3. CASE \E y \in Left(r) : y[1] = "access" /\ y[2] = x[2]
    <3>1. PICK y \in Left(r) : y[1] = "access" /\ y[2] = x[2]
      BY <2>3
    <3>2. CASE y = h
      BY <1>1, <2>1, <3>1, <3>2 DEF MayRestore
    <3>3. CASE y # h
      <4>1. y \in Left(r)'
        BY <1>2, <1>3, <2>1, <3>3 DEF Moved
      <4>2. QED
        BY <3>1, <4>1 DEF MayRestore
    <3>4. QED
      BY <3>2, <3>3
  <2>4. QED
    BY <2>1, <2>2, <2>3 DEF MayRestore
<1>10. ASSUME NEW x \in Left(r)'
       PROVE  /\ Foreseen(r, x)'
              /\ x[1] = "saveDevice" => MaySave(r, x)'
              /\ x[1] = "restore" => MayRestore(r, x)'
              /\ x[1] # "createConversation"
  <2>1. CASE x[1] \in Writing
    BY <1>6, <1>7, <1>8, <1>9, <1>10, <2>1
  <2>2. CASE x[1] \notin Writing
    <3>1. Foreseen(r, x)'
      BY <2>2 DEF Foreseen, Writing
    <3>2. QED
      BY <2>2, <3>1 DEF Writing
  <2>3. QED
    BY <2>1, <2>2
<1>11. QED
  BY <1>10 DEF Looked

-----------------------------------------------------------------------------
(* The steps about devices *)

LEMMA MovedApart ==
  ASSUME TypesInv, TwiceInv, NEW r \in Requests, NEW labels, Moved(r, labels)
  PROVE  Apart' /\ Elsewhere(r) /\ contended' = contended /\ req'[r].about \subseteq req[r].about
<1>1. Proper /\ Apart /\ Elsewhere(r) /\ contended \subseteq contended' /\ contended' = contended
  BY DEF TypesInv, ReqsOK, TwiceInv, Moved
<1>2. req'[r].about \subseteq req[r].about
  BY DEF Moved, Idle
<1>3. QED
  BY <1>1, <1>2, ApartWhenDone

\* A step that comes last in its program leaves none.
LEMMA LastStep ==
  ASSUME TypesInv, NEW r \in Requests, req[r].todo # <<>>, req[r].todo[1][1] \in Final
  PROVE  Tail(req[r].todo) = <<>> /\ Left(r) = {req[r].todo[1]} /\ (Continue(r) => Left(r)' = {})
<1>1. Program(req[r].todo) /\ Ends(req[r].todo, Final) /\ Proper
  BY DEF TypesInv, ReqsOK, ReqOK, Proper
<1>2. Tail(req[r].todo) = <<>> /\ Left(r) = {req[r].todo[1]}
  BY <1>1, EndsTail DEF Left
<1>3. ASSUME Continue(r) PROVE Left(r)' = {}
  <2>1. Left(r)' = Steps(Tail(req[r].todo))
    BY <1>1, <1>3, Continues DEF Continue
  <2>2. QED
    BY <1>2, <2>1, NoProgram
<1>4. QED
  BY <1>2, <1>3

LEMMA UnchangedRows ==
  ASSUME UNCHANGED <<conversation, device>>
  PROVE  /\ NoNewDevices /\ NoNewConversations /\ DOMAIN conversation' = DOMAIN conversation
         /\ \A c \in DOMAIN conversation : Found(c) => Found(c)'
BY DEF NoNewDevices, NoNewConversations, RowsOf, Found

LEMMA FindDeviceTwice ==
  ASSUME TypesInv, TwiceInv, NEW r \in Requests, FindDevice(r), UNCHANGED <<conversation, device>>
  PROVE  TwiceInv'
<1>1. PICK h : h = req[r].todo[1]
  OBVIOUS
<1>2. h[1] = "findDevice" /\ req[r].todo # <<>> /\ Proper /\ Looked(r)
  BY <1>1 DEF FindDevice, At, TypesInv, ReqsOK, TwiceInv
<1>3. PICK i : /\ Read(r, "row", i)
               /\ RowsOf(h[2], h[3]) = {} \/ i \in RowsOf(h[2], h[3])
  BY <1>1 DEF FindDevice, Arg
<1>4. Moved(r, {})
  BY <1>2, <1>3, MovedPast
<1>5. h[2] \in Users /\ h[3] \in Devices
  <2>1. StepOK(h)
    BY <1>1, <1>2, HeadOK DEF TypesInv, ReqsOK
  <2>2. QED
    BY <1>2, <2>1 DEF StepOK
<1>6. req'[r] # Idle => Got(r, "row")' = i
  <2>1. req'[r] # Idle => req'[r].got = With(req[r].got, "row", i)
    BY <1>2, <1>3, Continues DEF Read
  <2>2. With(req[r].got, "row", i)["row"] = i
    BY DEF With
  <2>3. QED
    BY <2>1, <2>2 DEF Got
<1>7. h[3] \in contended \/ RowsOf(h[2], h[3]) \subseteq {i}
  BY <1>3, <1>5 DEF TwiceInv, OneRow
<1>8. /\ NoNewDevices /\ NoNewConversations /\ DOMAIN conversation' = DOMAIN conversation
      /\ \A c \in DOMAIN conversation : Found(c) => Found(c)'
  BY UnchangedRows
<1>9. ASSUME NEW x \in Left(r), x[1] = "saveDevice", Looks(h, x), req'[r] # Idle
      PROVE  MaySave(r, x)'
  <2>1. x[3] \in contended' \/ RowsOf(x[2], x[3])' \subseteq {Got(r, "row")'}
    <3>1. x[2] = h[2] /\ x[3] = h[3]
      BY <1>9 DEF Looks
    <3>2. contended' = contended
      BY <1>4 DEF Moved
    <3>3. PICK u, d : u = h[2] /\ d = h[3]
      OBVIOUS
    <3>4. RowsOf(u, d)' \subseteq RowsOf(u, d)
      BY <1>8 DEF NoNewDevices
    <3>5. RowsOf(x[2], x[3])' = RowsOf(u, d)' /\ RowsOf(h[2], h[3]) = RowsOf(u, d)
      BY <3>1, <3>3
    <3>6. QED
      BY <1>6, <1>7, <1>9, <3>1, <3>2, <3>4, <3>5
  <2>2. ASSUME NEW y \in Left(r)' PROVE y = x \/ Looks(y, x)
    <3>1. y \in Steps(Tail(req[r].todo))
      BY <1>4 DEF Moved
    <3>2. y \in Left(r)
      BY <1>2, <3>1, ProgramTail DEF Left, Proper
    <3>3. QED
      BY <1>2, <1>9, <3>2 DEF Looked, MaySave
  <2>3. QED
    BY <2>1, <2>2 DEF MaySave, Looks
<1>10. Looked(r)'
  <2>1. {} \cap Writing = {}
    OBVIOUS
  <2>2. QED
    BY <1>1, <1>2, <1>4, <1>8, <1>9, <2>1, LookedOn
<1>11. QED
  BY <1>4, <1>8, <1>10, MovedApart, TwiceUnwritten

\* The rows of the other devices stay, and the device has no other row than the one that was found.
LEMMA SaveDeviceTwice ==
  ASSUME TypesInv, TwiceInv, NEW r \in Requests, SaveDevice(r), UNCHANGED conversation
  PROVE  TwiceInv'
<1>1. PICK h : h = req[r].todo[1]
  OBVIOUS
<1>2. /\ h[1] = "saveDevice" /\ req[r].todo # <<>> /\ Proper /\ Looked(r) /\ (Continue(r) \/ Throw(r))
      /\ DevicesOK
  BY <1>1 DEF SaveDevice, At, TypesInv, ReqsOK, TwiceInv
<1>3. Left(r) = {h} /\ Left(r)' = {} /\ h \in Left(r)
  BY <1>1, <1>2, LastStep, Throws DEF Final
<1>4. h[2] \in Users /\ h[3] \in Devices /\ h[4] \in Tokens
  <2>1. StepOK(h)
    BY <1>1, <1>2, HeadOK DEF TypesInv, ReqsOK
  <2>2. QED
    BY <1>2, <2>1 DEF StepOK
<1>5. /\ h[3] \in req[r].about
      /\ h[3] \in contended \/ RowsOf(h[2], h[3]) \subseteq {Got(r, "row")}
  BY <1>2, <1>3 DEF Looked, Foreseen, MaySave
<1>6. PICK i : /\ i = Got(r, "row")
               /\ \/ i # 0 /\ ~device[i].gone /\ device' = [device EXCEPT ![i].token = h[4]]
                  \/ /\ i = 0
                     /\ device' = Append(device, [user |-> h[2], device |-> h[3],
                                                  token |-> h[4], gone |-> FALSE])
                  \/ device' = device
  BY <1>1 DEF SaveDevice, Arg
<1>7. Moved(r, {})
  BY <1>2, MovedPast
<1>8. Apart' /\ Elsewhere(r) /\ contended' = contended
  BY <1>7, MovedApart
<1>9. /\ NoNewConversations /\ DOMAIN conversation' = DOMAIN conversation
      /\ \A c \in DOMAIN conversation : Found(c) => Found(c)'
  BY DEF NoNewConversations, Found
<1>10. Looked(r)'
  BY <1>3 DEF Looked
<1>11. CASE device' = [device EXCEPT ![i].token = h[4]]
  <2>1. /\ DOMAIN device' = DOMAIN device
        /\ \A j \in DOMAIN device : /\ device'[j].user = device[j].user
                                    /\ device'[j].device = device[j].device
                                    /\ device'[j].gone = device[j].gone
    BY <1>2, <1>4, <1>11, DeviceSaved
  <2>2. NoNewDevices
    BY <2>1 DEF NoNewDevices, RowsOf
  <2>3. QED
    BY <1>8, <1>9, <1>10, <2>2, TwiceUnwritten
<1>12. CASE /\ i = 0
            /\ device' = Append(device, [user |-> h[2], device |-> h[3], token |-> h[4], gone |-> FALSE])
  <2>1. PICK n : n = Len(device) + 1
    OBVIOUS
  <2>2. /\ DOMAIN device' = DOMAIN device \cup {n} /\ n \notin DOMAIN device
        /\ DOMAIN device = 1..Len(device) /\ Len(device) \in Nat
        /\ \A j \in DOMAIN device : device'[j] = device[j]
        /\ device'[n] = [user |-> h[2], device |-> h[3], token |-> h[4], gone |-> FALSE]
    BY <1>2, <1>4, <1>12, <2>1, DeviceAdded
  <2>3. \A u, d : RowsOf(u, d)' \subseteq RowsOf(u, d) \cup {n}
    BY <2>2 DEF RowsOf
  <2>4. \A u, d : u # h[2] \/ d # h[3] => RowsOf(u, d)' \subseteq RowsOf(u, d)
    BY <2>2 DEF RowsOf
  <2>5. h[3] \notin contended => RowsOf(h[2], h[3]) = {}
    <3>1. i \notin RowsOf(h[2], h[3])
      BY <1>12, <2>2 DEF RowsOf
    <3>2. QED
      BY <1>5, <1>6, <3>1
  <2>6. OneRow'
    <3>1. ASSUME NEW u \in Users, NEW d \in Devices, d \notin contended', NEW j \in RowsOf(u, d)',
                 NEW k \in RowsOf(u, d)'
          PROVE  j = k
      <4>1. CASE u = h[2] /\ d = h[3]
        BY <1>8, <2>3, <2>5, <3>1, <4>1
      <4>2. CASE u # h[2] \/ d # h[3]
        <5>1. RowsOf(u, d)' \subseteq RowsOf(u, d)
          BY <2>4, <4>2
        <5>2. QED
          BY <1>8, <3>1, <5>1 DEF TwiceInv, OneRow
      <4>3. QED
        BY <4>1, <4>2
    <3>2. QED
      BY <3>1 DEF OneRow
  <2>7. \A q \in Requests \ {r} : Looked(q)'
    <3>1. \A u, d : d \in contended' \/ d \in req[r].about \/ RowsOf(u, d)' \subseteq RowsOf(u, d)
      BY <1>5, <2>4
    <3>2. /\ \A u, v, t : Existing(u, v, t)' = Existing(u, v, t)
          /\ \A c \in DOMAIN conversation : Found(c) => Found(c)'
      BY DEF Existing, Found
    <3>3. QED
      BY <1>8, <1>9, <3>1, <3>2, OthersLooked
  <2>8. OneConversation'
    <3>1. \A c \in DOMAIN conversation : Found(c)' = Found(c) /\ Participants(c)' = Participants(c)
      BY DEF Found, Participants
    <3>2. QED
      BY <1>8, <3>1 DEF TwiceInv, OneConversation
  <2>9. QED
    BY <1>8, <1>10, <2>6, <2>7, <2>8 DEF TwiceInv
<1>13. CASE device' = device
  <2>1. NoNewDevices
    BY <1>13 DEF NoNewDevices, RowsOf
  <2>2. QED
    BY <1>8, <1>9, <1>10, <2>1, TwiceUnwritten
<1>14. QED
  BY <1>6, <1>11, <1>12, <1>13

LEMMA DeleteTokensTwice ==
  ASSUME TypesInv, TwiceInv, NEW r \in Requests, DeleteTokens(r), UNCHANGED conversation
  PROVE  TwiceInv'
<1>1. PICK h : h = req[r].todo[1]
  OBVIOUS
<1>2. /\ h[1] = "deleteDevice" /\ req[r].todo # <<>> /\ Proper /\ Looked(r) /\ Continue(r)
      /\ DevicesOK
  BY <1>1 DEF DeleteTokens, At, TypesInv, ReqsOK, TwiceInv
<1>3. Moved(r, {}) /\ {} \cap Writing = {}
  BY <1>2, MovedPast
<1>4. PICK users, tokens :
        device' = [i \in DOMAIN device |->
          IF device[i].user \in users /\ device[i].token \in tokens
            THEN [device[i] EXCEPT !.gone = TRUE] ELSE device[i]]
  BY DEF DeleteTokens
<1>5. /\ DOMAIN device' = DOMAIN device
      /\ \A j \in DOMAIN device : /\ device'[j].user = device[j].user
                                  /\ device'[j].device = device[j].device
                                  /\ device[j].gone => device'[j].gone
  BY <1>2, <1>4, TokensDeleted
<1>6. NoNewDevices
  BY <1>5 DEF NoNewDevices, RowsOf
<1>7. NoNewConversations /\ \A c \in DOMAIN conversation : Found(c) => Found(c)'
  BY DEF NoNewConversations, Found
<1>8. Looked(r)'
  BY <1>1, <1>2, <1>3, <1>7, LookedOn DEF Looks
<1>9. QED
  BY <1>3, <1>6, <1>7, <1>8, MovedApart, TwiceUnwritten

-----------------------------------------------------------------------------
(* The steps about conversations *)

LEMMA FindExistingTwice ==
  ASSUME TypesInv, TwiceInv, NEW r \in Requests, FindExisting(r), UNCHANGED <<conversation, device>>
  PROVE  TwiceInv'
<1>1. PICK h : h = req[r].todo[1]
  OBVIOUS
<1>2. h[1] = "findExisting" /\ req[r].todo # <<>> /\ Proper /\ Looked(r)
  BY <1>1 DEF FindExisting, At, TypesInv, ReqsOK, TwiceInv
<1>3. Left(r) = {h} /\ h \in Left(r) /\ Tail(req[r].todo) = <<>>
  BY <1>1, <1>2, LastStep DEF Final
<1>4. h[4] \in req[r].about
  BY <1>2, <1>3 DEF Looked, Foreseen
<1>5. /\ NoNewDevices /\ NoNewConversations /\ \A c \in DOMAIN conversation : Found(c) => Found(c)'
  BY UnchangedRows
<1>6. \/ Existing(h[2], h[3], h[4]) = {} /\ Do(r, <<<<"createConversation", h[2], h[3], h[4]>>>>)
      \/ \E c : Do(r, GetPreview(c, h[2]))
  BY <1>1 DEF FindExisting, Arg
<1>7. CASE /\ Existing(h[2], h[3], h[4]) = {}
           /\ Do(r, <<<<"createConversation", h[2], h[3], h[4]>>>>)
  <2>1. PICK x : x = <<"createConversation", h[2], h[3], h[4]>>
    OBVIOUS
  <2>2. x[1] = "createConversation" /\ x[2] = h[2] /\ x[3] = h[3] /\ x[4] = h[4]
    BY <2>1
  <2>3. PICK more : more = <<x>>
    OBVIOUS
  <2>4. Program(more) /\ Steps(more) = {x} /\ Do(r, more) /\ more \o <<>> = more
    BY <1>7, <2>1, <2>3, ProgramOf1
  <2>5. Moved(r, {"createConversation"})
    BY <1>2, <2>2, <2>4, MovedOn
  <2>6. req'[r].todo = <<x>> /\ Left(r)' = {x}
    <3>1. /\ Went(r, more) /\ Left(r)' = Steps(more) \cup Steps(Tail(req[r].todo))
      BY <1>2, <2>4, Does DEF Do
    <3>2. QED
      BY <1>3, <2>3, <2>4, <3>1, NoProgram DEF Went
  <2>7. req'[r] # Idle /\ req'[r].about = req[r].about
    <3>1. req'[r] # Idle
      BY <2>6 DEF Idle
    <3>2. QED
      BY <2>5, <3>1 DEF Moved
  <2>8. Foreseen(r, x)'
    BY <1>4, <2>2, <2>7 DEF Foreseen
  <2>9. MayCreate(r, x)'
    <3>1. Existing(x[2], x[3], x[4])' = {}
      BY <1>7, <2>2 DEF Existing, Found
    <3>2. QED
      BY <2>6, <3>1 DEF MayCreate
  <2>10. Looked(r)'
    BY <2>2, <2>6, <2>8, <2>9 DEF Looked
  <2>11. QED
    BY <1>5, <2>5, <2>10, MovedApart, TwiceUnwritten
<1>8. ASSUME NEW c, Do(r, GetPreview(c, h[2])) PROVE TwiceInv'
  <2>1. PICK more : more = GetPreview(c, h[2])
    OBVIOUS
  <2>2. Program(more) /\ Do(r, more) /\ \A x \in Steps(more) : x[1] \in PreviewLabels
    BY <1>8, <2>1, GetPreviewProgram
  <2>3. Moved(r, PreviewLabels)
    BY <1>2, <2>2, MovedOn
  <2>4. PreviewLabels \cap Writing = {}
    BY DEF PreviewLabels, Writing
  <2>5. DOMAIN conversation' = DOMAIN conversation /\ \A x : ~Looks(h, x)
    BY <1>2 DEF Looks
  <2>6. Looked(r)'
    BY <1>1, <1>2, <1>5, <2>3, <2>4, <2>5, LookedOn
  <2>7. QED
    BY <1>5, <2>3, <2>6, MovedApart, TwiceUnwritten
<1>9. QED
  BY <1>6, <1>7, <1>8

\* Nobody else creates one about the same topic, and none was found.
LEMMA CreateConversationTwice ==
  ASSUME TypesInv, TwiceInv, NEW r \in Requests, CreateConversation(r), UNCHANGED <<notification, device>>
  PROVE  TwiceInv'
<1>1. PICK h : h = req[r].todo[1]
  OBVIOUS
<1>2. /\ h[1] = "createConversation" /\ req[r].todo # <<>> /\ Proper /\ Looked(r) /\ ChatOK
      /\ message' = message
  BY <1>1 DEF CreateConversation, At, TypesInv, ReqsOK, TwiceInv
<1>3. Program(req[r].todo) /\ h \in Left(r)
  BY <1>1, <1>2, ProgramTail DEF Proper, Left
<1>4. /\ req[r].todo = <<h>> /\ h[4] \in req[r].about
      /\ h[4] \in contended \/ Existing(h[2], h[3], h[4]) \subseteq contended
  BY <1>2, <1>3 DEF Looked, Foreseen, MayCreate
<1>5. PICK u \in Speakers, v \in Speakers, t \in Topics \cup {NoTopic} :
        u # v /\ u = h[2] /\ v = h[3] /\ t = h[4]
  <2>1. StepOK(h)
    BY <1>1, <1>2, HeadOK DEF TypesInv, ReqsOK
  <2>2. QED
    BY <1>2, <2>1 DEF StepOK
<1>6. /\ conversation' = Append(conversation, Conversation(u, v, t))
      /\ Do(r, GetPreview(Len(conversation'), u))
  BY <1>1, <1>5 DEF CreateConversation, Arg
<1>7. PICK n : n = Len(conversation')
  OBVIOUS
<1>8. /\ DOMAIN conversation' = DOMAIN conversation \cup {n} /\ n \notin DOMAIN conversation
      /\ \A c \in DOMAIN conversation : conversation'[c] = conversation[c]
      /\ conversation'[n] = Conversation(u, v, t)
  BY <1>2, <1>5, <1>6, <1>7, ConversationAdded
<1>9. PICK more : more = GetPreview(n, u)
  OBVIOUS
<1>10. Program(more) /\ Do(r, more) /\ \A x \in Steps(more) : x[1] \in PreviewLabels
  BY <1>6, <1>7, <1>9, GetPreviewProgram
<1>11. Moved(r, PreviewLabels)
  BY <1>2, <1>10, MovedOn
<1>12. Apart' /\ Elsewhere(r) /\ contended' = contended
  BY <1>11, MovedApart
<1>13. Looked(r)'
  <2>1. Steps(Tail(req[r].todo)) = {}
    BY <1>4, NoProgram
  <2>2. \A x \in Left(r)' : x[1] \notin Writing
    BY <1>11, <2>1 DEF Moved, PreviewLabels, Writing
  <2>3. \A x \in Left(r)' : Foreseen(r, x)'
    BY <2>2 DEF Foreseen, Writing
  <2>4. QED
    BY <2>2, <2>3 DEF Looked, Writing
<1>14. conversation'[n].topic = t /\ conversation'[n].pair = <<u, v>>
  BY <1>8 DEF Conversation
<1>15. /\ \A c \in DOMAIN conversation : Found(c)' = Found(c) /\ Participants(c)' = Participants(c)
       /\ \A a, b, s : s # t => Existing(a, b, s)' \subseteq Existing(a, b, s)
  <2>1. \A c \in DOMAIN conversation : Found(c)' = Found(c) /\ Participants(c)' = Participants(c)
    BY <1>8 DEF Found, Participants
  <2>2. ASSUME NEW a, NEW b, NEW s, s # t, NEW c \in Existing(a, b, s)'
        PROVE  c \in Existing(a, b, s)
    <3>1. c \in DOMAIN conversation' /\ conversation'[c].topic = s /\ Found(c)'
          /\ conversation'[c].pair \in {<<a, b>>, <<b, a>>}
      BY <2>2 DEF Existing
    <3>2. c \in DOMAIN conversation
      BY <1>8, <1>14, <2>2, <3>1
    <3>3. QED
      BY <1>8, <2>1, <3>1, <3>2 DEF Existing
  <2>3. QED
    BY <2>1, <2>2
<1>16. \A q \in Requests \ {r} : Looked(q)'
  <2>1. \A a, b, s : \/ s \in contended' \/ s \in req[r].about
                     \/ Existing(a, b, s)' \subseteq Existing(a, b, s) \cup contended'
    BY <1>4, <1>5, <1>15
  <2>2. \A a, d : RowsOf(a, d)' = RowsOf(a, d)
    BY DEF RowsOf
  <2>3. DOMAIN conversation \subseteq DOMAIN conversation'
    BY <1>8
  <2>4. \A c \in DOMAIN conversation : Found(c) => Found(c)'
    BY <1>15
  <2>5. QED
    BY <1>12, <2>1, <2>2, <2>3, <2>4, OthersLooked
<1>17. OneRow'
  <2>1. \A a, d : RowsOf(a, d)' = RowsOf(a, d)
    BY DEF RowsOf
  <2>2. QED
    BY <1>12, <2>1 DEF TwiceInv, OneRow
<1>18. ASSUME NEW c \in DOMAIN conversation, Found(c)', conversation'[c].topic = t,
              Participants(c)' = Participants(n)'
       PROVE  {c, t} \cap contended # {}
  <2>1. Found(c) /\ conversation[c].topic = t
    BY <1>8, <1>15, <1>18
  <2>2. Participants(c) = {u, v}
    <3>1. Participants(n)' = {u, v}
      BY <1>14 DEF Participants
    <3>2. QED
      BY <1>15, <1>18, <3>1
  <2>3. PICK a \in Speakers, b \in Speakers : conversation[c].pair = <<a, b>> /\ a # b
    <3>1. conversation[c] \in ConversationRow /\ conversation[c].pair[1] # conversation[c].pair[2]
      BY <1>2, ElementOfSeq DEF ChatOK, OfTwo
    <3>2. QED
      BY <3>1 DEF ConversationRow
  <2>4. {a, b} = {u, v}
    BY <2>2, <2>3 DEF Participants
  <2>5. <<a, b>> = <<u, v>> \/ <<a, b>> = <<v, u>>
    BY <2>3, <2>4
  <2>6. c \in Existing(u, v, t)
    BY <2>1, <2>3, <2>5 DEF Existing
  <2>7. QED
    BY <1>4, <1>5, <2>6
<1>19. OneConversation'
  <2>1. ASSUME NEW c \in DOMAIN conversation', NEW d \in DOMAIN conversation', c # d, Found(c)', Found(d)',
               conversation'[c].topic = conversation'[d].topic, Participants(c)' = Participants(d)'
        PROVE  {c, d, conversation'[c].topic} \cap contended' # {}
    <3>1. CASE c = n
      BY <1>8, <1>12, <1>14, <1>18, <2>1, <3>1
    <3>2. CASE d = n
      BY <1>8, <1>12, <1>14, <1>18, <2>1, <3>2
    <3>3. CASE c # n /\ d # n
      <4>1. /\ c \in DOMAIN conversation /\ d \in DOMAIN conversation /\ Found(c) /\ Found(d)
            /\ conversation[c].topic = conversation[d].topic /\ Participants(c) = Participants(d)
            /\ conversation'[c].topic = conversation[c].topic
        BY <1>8, <1>15, <2>1, <3>3
      <4>2. QED
        BY <1>12, <2>1, <4>1 DEF TwiceInv, OneConversation
    <3>4. QED
      BY <3>1, <3>2, <3>3
  <2>2. QED
    BY <2>1 DEF OneConversation
<1>20. QED
  BY <1>12, <1>13, <1>16, <1>17, <1>19 DEF TwiceInv

\* Who deletes a conversation hides it from nobody else who writes about it, and one is restored
\* that was not hidden.
LEMMA DeletedTwice ==
  ASSUME TypesInv, TwiceInv, NEW r \in Requests, DeleteConversation(r) \/ RestoreConversation(r),
         UNCHANGED <<notification, device>>
  PROVE  TwiceInv'
<1>1. PICK h : h = req[r].todo[1]
  OBVIOUS
<1>2. /\ h[1] \in {"delete", "restore"} /\ req[r].todo # <<>> /\ Proper /\ Looked(r) /\ ChatOK
      /\ Continue(r) /\ device' = device
  BY <1>1 DEF DeleteConversation, RestoreConversation, At, TypesInv, ReqsOK, TwiceInv
<1>3. Left(r) = {h} /\ Left(r)' = {} /\ h \in Left(r)
  BY <1>1, <1>2, LastStep DEF Final
<1>4. h[2] \in req[r].about
  BY <1>2, <1>3 DEF Looked, Foreseen
<1>5. Moved(r, {})
  BY <1>2, MovedPast
<1>6. Looked(r)'
  BY <1>3 DEF Looked
<1>7. NoNewDevices
  BY <1>2 DEF NoNewDevices, RowsOf
<1>8. ASSUME DOMAIN conversation' = DOMAIN conversation,
             \A c \in DOMAIN conversation :
               /\ conversation'[c].pair = conversation[c].pair
               /\ conversation'[c].topic = conversation[c].topic
               /\ Found(c)' => Found(c) \/ c \in contended
               /\ c = h[2] \/ (Found(c) => Found(c)')
      PROVE  TwiceInv'
  <2>1. NoNewConversations
    BY <1>8 DEF NoNewConversations
  <2>2. QED
    BY <1>4, <1>5, <1>6, <1>7, <1>8, <2>1, MovedApart, TwiceUnwritten
<1>9. CASE DeleteConversation(r)
  <2>1. \/ /\ conversation' = [conversation EXCEPT ![h[2]].gone = TRUE]
           /\ message' = [m \in DOMAIN message |->
                            IF m \in Sent(h[2]) THEN [message[m] EXCEPT !.gone = TRUE] ELSE message[m]]
        \/ conversation' = [conversation EXCEPT ![h[2]].deleted = TRUE] /\ message' = message
    <3>1. Arg(r, 1) = h[2]
      BY <1>1 DEF Arg
    <3>2. QED
      BY <1>9, <3>1 DEF DeleteConversation
  <2>2. CASE /\ conversation' = [conversation EXCEPT ![h[2]].gone = TRUE]
             /\ message' = [m \in DOMAIN message |->
                              IF m \in Sent(h[2]) THEN [message[m] EXCEPT !.gone = TRUE] ELSE message[m]]
    <3>1. /\ DOMAIN conversation' = DOMAIN conversation
          /\ \A d \in DOMAIN conversation :
               /\ conversation'[d].pair = conversation[d].pair
               /\ conversation'[d].topic = conversation[d].topic
               /\ conversation'[d].deleted = conversation[d].deleted
               /\ conversation'[d].gone = (IF d = h[2] THEN TRUE ELSE conversation[d].gone)
      BY <1>2, <2>2, GoneSet
    <3>2. QED
      BY <1>8, <3>1 DEF Found
  <2>3. CASE conversation' = [conversation EXCEPT ![h[2]].deleted = TRUE] /\ message' = message
    <3>1. /\ DOMAIN conversation' = DOMAIN conversation
          /\ \A d \in DOMAIN conversation :
               /\ conversation'[d].pair = conversation[d].pair
               /\ conversation'[d].topic = conversation[d].topic
               /\ conversation'[d].deleted = (IF d = h[2] THEN TRUE ELSE conversation[d].deleted)
               /\ conversation'[d].gone = conversation[d].gone
      BY <1>2, <2>3, DeletedSet
    <3>2. QED
      BY <1>8, <3>1 DEF Found
  <2>4. QED
    BY <2>1, <2>2, <2>3
<1>10. CASE RestoreConversation(r)
  <2>1. /\ conversation' = [conversation EXCEPT ![h[2]].deleted = FALSE] /\ message' = message
        /\ h[1] = "restore"
    BY <1>1, <1>10 DEF RestoreConversation, Arg, At
  <2>2. h[2] \in contended \/ Found(h[2])
    BY <1>2, <1>3, <2>1 DEF Looked, MayRestore
  <2>3. /\ DOMAIN conversation' = DOMAIN conversation
        /\ \A d \in DOMAIN conversation :
             /\ conversation'[d].pair = conversation[d].pair
             /\ conversation'[d].topic = conversation[d].topic
             /\ conversation'[d].deleted = (IF d = h[2] THEN FALSE ELSE conversation[d].deleted)
             /\ conversation'[d].gone = conversation[d].gone
    BY <1>2, <2>1, DeletedSet
  <2>4. QED
    BY <1>8, <2>2, <2>3 DEF Found
<1>11. QED
  BY <1>9, <1>10

-----------------------------------------------------------------------------
(* Every step *)

LEMMA LastOnly ==
  ASSUME ChatOK, NEW c, NEW last, conversation' = [conversation EXCEPT ![c].last = last]
  PROVE  /\ NoNewConversations /\ DOMAIN conversation' = DOMAIN conversation
         /\ \A d \in DOMAIN conversation : Found(d) => Found(d)'
<1>1. \A d \in DOMAIN conversation : conversation[d] \in ConversationRow
  BY ElementOfSeq DEF ChatOK
<1>2. ASSUME NEW row \in ConversationRow
      PROVE  /\ [row EXCEPT !.last = last].pair = row.pair
             /\ [row EXCEPT !.last = last].topic = row.topic
             /\ [row EXCEPT !.last = last].deleted = row.deleted
             /\ [row EXCEPT !.last = last].gone = row.gone
  BY DEF ConversationRow
<1>3. /\ DOMAIN conversation' = DOMAIN conversation
      /\ \A d \in DOMAIN conversation :
           \/ conversation'[d] = conversation[d]
           \/ conversation'[d] = [conversation[d] EXCEPT !.last = last]
  BY <1>1
<1>4. \A d \in DOMAIN conversation :
        /\ conversation'[d].pair = conversation[d].pair /\ conversation'[d].topic = conversation[d].topic
        /\ conversation'[d].deleted = conversation[d].deleted
        /\ conversation'[d].gone = conversation[d].gone
  BY <1>1, <1>2, <1>3
<1>5. QED
  BY <1>3, <1>4 DEF NoNewConversations, Found

LEMMA PlainTwice ==
  ASSUME TypesInv, TwiceInv, NEW r \in Requests, Progress(r), NEW h, h = req[r].todo[1],
         h[1] \notin {"findDevice", "saveDevice", "findExisting", "createConversation"},
         h[1] = "access" => req'[r] = Idle \/ Found(h[2])',
         device' = device, NoNewConversations, DOMAIN conversation' = DOMAIN conversation,
         \A c \in DOMAIN conversation : Found(c) => Found(c)'
  PROVE  TwiceInv'
<1>1. PICK labels : labels = Adds(h[1])
  OBVIOUS
<1>2. Moved(r, labels) /\ labels \cap Writing = {} /\ Looked(r)
  BY <1>1, StepsAdded, AddsUnwritten DEF TwiceInv
<1>3. NoNewDevices /\ \A x : ~Looks(h, x)
  BY DEF NoNewDevices, RowsOf, Looks
<1>4. Looked(r)'
  BY <1>2, <1>3, LookedOn
<1>5. QED
  BY <1>2, <1>3, <1>4, MovedApart, TwiceUnwritten

LEMMA ProgressTwice ==
  ASSUME TypesInv, TwiceInv, NEW r \in Requests, Progress(r)
  PROVE  TwiceInv'
<1>1. PICK h : h = req[r].todo[1]
  OBVIOUS
<1>2. ChatOK
  BY DEF TypesInv
<1>3. PICK labels : labels = {"findDevice", "saveDevice", "findExisting", "createConversation", "access"}
  OBVIOUS
<1>4. ASSUME h[1] \notin labels, device' = device, conversation' = conversation PROVE TwiceInv'
  BY <1>1, <1>3, <1>4, UnchangedRows, PlainTwice
<1>5. CASE PresenceSteps(r) /\ UNCHANGED <<noticeVars, chatVars>>
  <2>1. h[1] \notin labels
    BY <1>1, <1>3, <1>5
       DEF PresenceSteps, HandleConnection, HandleDisconnect, UpdateOnlineStatus,
           NotifyUserStatusUpdate, At
  <2>2. QED
    BY <1>4, <1>5, <2>1 DEF noticeVars, chatVars
<1>6. CASE NotificationsSteps(r) /\ UNCHANGED <<presenceVars, chatVars, gatewayVars>>
  <2>1. conversation' = conversation
    BY <1>6 DEF chatVars
  <2>2. CASE FindDevice(r)
    BY <2>1, <2>2, FindDeviceTwice DEF FindDevice, noticeVars
  <2>3. CASE SaveDevice(r) \/ DeleteTokens(r)
    BY <2>1, <2>3, SaveDeviceTwice, DeleteTokensTwice
  <2>4. CASE \/ Create(r) \/ IsOnline(r) \/ CreateDelivery(r) \/ Send(r) \/ Enqueue(r)
             \/ HandlePushNotification(r) \/ SendPush(r) \/ HandleTelegramNotification(r) \/ Complete(r)
             \/ ReadNotifications(r)
    <3>1. h[1] \notin labels
      BY <1>1, <1>3, <2>4
         DEF Create, IsOnline, CreateDelivery, Send, Enqueue, HandlePushNotification, SendPush,
             HandleTelegramNotification, Complete, ReadNotifications, At
    <3>2. device' = device
      BY <2>4 DEF Create, IsOnline, CreateDelivery, Send, Enqueue, HandlePushNotification, SendPush,
                  HandleTelegramNotification, Complete, ReadNotifications, noticeVars
    <3>3. QED
      BY <1>4, <2>1, <3>1, <3>2
  <2>5. QED
    BY <1>6, <2>2, <2>3, <2>4 DEF NotificationsSteps
<1>7. CASE ChatSteps(r) /\ UNCHANGED <<presenceVars, noticeVars>>
  <2>1. UNCHANGED <<notification, device>>
    BY <1>7 DEF noticeVars
  <2>2. CASE VerifyAccess(r)
    <3>1. h[1] = "access" /\ conversation' = conversation
      BY <1>1, <2>2 DEF VerifyAccess, At, chatVars
    <3>2. (Continue(r) /\ Found(h[2])) \/ Throw(r)
      BY <1>1, <2>2 DEF VerifyAccess, Require, MayEnter, Arg
    <3>3. Found(h[2])' <=> Found(h[2])
      BY <3>1 DEF Found
    <3>4. Throw(r) => req'[r] = Idle
      BY Throws DEF TypesInv, ReqsOK, Thrown
    <3>5. QED
      BY <1>1, <2>1, <3>1, <3>2, <3>3, <3>4, UnchangedRows, PlainTwice
  <2>3. CASE FindExisting(r)
    BY <2>1, <2>3, FindExistingTwice DEF FindExisting, chatVars
  <2>4. CASE CreateConversation(r)
    BY <2>1, <2>4, CreateConversationTwice
  <2>5. CASE DeleteConversation(r) \/ RestoreConversation(r)
    BY <2>1, <2>5, DeletedTwice
  <2>6. CASE \/ FindConversation(r) \/ GetLastMessage(r) \/ ShowPreview(r) \/ FindConversations(r)
             \/ MayTalk(r) \/ StillThere(r)
    <3>1. h[1] \notin labels
      BY <1>1, <1>3, <2>6
         DEF FindConversation, GetLastMessage, ShowPreview, FindConversations, MayTalk, StillThere, At
    <3>2. conversation' = conversation
      BY <2>6 DEF FindConversation, GetLastMessage, ShowPreview, FindConversations, MayTalk, StillThere,
                  chatVars
    <3>3. QED
      BY <1>4, <2>1, <3>1, <3>2
  <2>7. QED
    BY <1>7, <2>2, <2>3, <2>4, <2>5, <2>6 DEF ChatSteps
<1>8. CASE MessageSteps(r) /\ UNCHANGED <<presenceVars, noticeVars>>
  <2>1. device' = device
    BY <1>8 DEF noticeVars
  <2>2. h[1] \notin labels
    BY <1>1, <1>3, <1>8
       DEF MessageSteps, Enter, Exit, InsertMessage, Touch, FindMessage, EmitMessageNew, WasRead,
           CountUnread, MarkMessagesAsRead, NowRead, VerifyMessageOwnership, Edit, IfLast,
           UnreadBefore, LastBefore, DeleteRows, ReadNewLast, SetLast, At
  <2>3. CASE Touch(r) \/ SetLast(r)
    <3>1. PICK c, last : conversation' = [conversation EXCEPT ![c].last = last]
      BY <2>3 DEF Touch, SetLast
    <3>2. QED
      BY <1>1, <1>2, <1>3, <2>1, <2>2, <3>1, LastOnly, PlainTwice
  <2>4. CASE \/ Enter(r) \/ Exit(r) \/ InsertMessage(r) \/ FindMessage(r) \/ EmitMessageNew(r)
             \/ WasRead(r) \/ CountUnread(r) \/ MarkMessagesAsRead(r) \/ NowRead(r)
             \/ VerifyMessageOwnership(r) \/ Edit(r) \/ IfLast(r)
             \/ UnreadBefore(r) \/ LastBefore(r) \/ DeleteRows(r) \/ ReadNewLast(r)
    <3>1. conversation' = conversation
      BY <2>4 DEF Enter, Exit, InsertMessage, FindMessage, EmitMessageNew, WasRead,
                  CountUnread, MarkMessagesAsRead, NowRead, VerifyMessageOwnership, Edit, IfLast,
                  UnreadBefore, LastBefore, DeleteRows, ReadNewLast, chatVars
    <3>2. QED
      BY <1>4, <2>1, <2>2, <3>1
  <2>5. QED
    BY <1>8, <2>3, <2>4 DEF MessageSteps
<1>9. QED
  BY <1>5, <1>6, <1>7, <1>8 DEF Progress

\* A request that starts looks before it writes, and who is about the same is noted.
LEMMA BegunTwice ==
  ASSUME TypesInv, TwiceInv, NEW r \in Requests, Begun(r), UNCHANGED <<conversation, device>>
  PROVE  TwiceInv'
<1>1. PICK op, about, program :
        Program(program) /\ Start(r, op, about, program) /\ BeginsWith(op, about, Steps(program))
  BY DEF Begun
<1>2. PICK steps : steps = Steps(program)
  OBVIOUS
<1>3. /\ Proper /\ Elsewhere(r) /\ Left(r)' = steps /\ req'[r].about = about
      /\ contended' = contended \cup (about \cap Others(r))
  <2>1. Proper /\ Program(program) /\ Start(r, op, about, program)
    BY <1>1 DEF TypesInv, ReqsOK
  <2>2. /\ Elsewhere(r) /\ Left(r)' = Steps(program)
        /\ req'[r] = [op |-> op, about |-> about, todo |-> program, got |-> <<>>]
        /\ contended' = contended \cup (about \cap Others(r))
    BY <2>1, Starts
  <2>3. QED
    BY <1>2, <2>1, <2>2
<1>4. Apart'
  <2>1. req'[r].about \subseteq req[r].about \cup about
    BY <1>3
  <2>2. QED
    BY <1>3, <2>1, ApartWhenMore DEF TwiceInv
<1>5. /\ NoNewDevices /\ NoNewConversations /\ \A c \in DOMAIN conversation : Found(c) => Found(c)'
      /\ conversation' = conversation
  BY UnchangedRows
<1>6. BeginsWith(op, about, steps)
  BY <1>1, <1>2
<1>7. ASSUME NEW x \in steps PROVE Foreseen(r, x)'
  BY <1>3, <1>5, <1>6, <1>7 DEF BeginsWith, CalmLabels, PlainLabels, PreviewLabels, Foreseen
<1>8. ASSUME NEW x \in steps, x[1] = "saveDevice" PROVE MaySave(r, x)'
  <2>1. /\ \E y \in steps : y[1] = "findDevice"
        /\ \A y \in steps : y = x \/ Looks(y, x)
    BY <1>6, <1>8 DEF BeginsWith, CalmLabels, PlainLabels, PreviewLabels, Looks
  <2>2. QED
    BY <1>3, <2>1 DEF MaySave, Looks
<1>9. ASSUME NEW x \in steps PROVE x[1] # "createConversation"
  BY <1>6, <1>9 DEF BeginsWith, CalmLabels, PlainLabels, PreviewLabels
<1>10. ASSUME NEW x \in steps, x[1] = "restore" PROVE MayRestore(r, x)'
  <2>1. \E y \in steps : y[1] = "access" /\ y[2] = x[2]
    BY <1>6, <1>10 DEF BeginsWith, CalmLabels, PlainLabels, PreviewLabels
  <2>2. QED
    BY <1>3, <2>1 DEF MayRestore
<1>11. Looked(r)'
  BY <1>3, <1>7, <1>8, <1>9, <1>10 DEF Looked
<1>12. QED
  BY <1>3, <1>4, <1>5, <1>11, TwiceUnwritten

\* The worker and a request that ends write about nothing.
LEMMA NothingLooked ==
  ASSUME TypesInv, TwiceInv, NEW r \in Requests, Elsewhere(r), contended \subseteq contended',
         req'[r].about = {}, \A x \in Left(r)' : x[1] \notin Writing,
         UNCHANGED <<conversation, device>>
  PROVE  TwiceInv'
<1>1. Apart'
  BY ApartWhenDone DEF TypesInv, ReqsOK, TwiceInv
<1>2. Looked(r)'
  <2>1. \A x \in Left(r)' : Foreseen(r, x)'
    BY DEF Foreseen, Writing
  <2>2. QED
    BY <2>1 DEF Looked, Writing
<1>3. QED
  BY <1>1, <1>2, UnchangedRows, TwiceUnwritten

LEMMA TakeTwice ==
  ASSUME TypesInv, TwiceInv, NEW r \in Requests, Take(r), UNCHANGED chatVars
  PROVE  TwiceInv'
<1>1. PICK n : Wake(r, "process", {}, <<<<"push", n>>, <<"telegram", n>>, <<"complete", n>>>>)
  BY DEF Take
<1>2. PICK a, b, c : a = <<"push", n>> /\ b = <<"telegram", n>> /\ c = <<"complete", n>>
  OBVIOUS
<1>3. PICK program : program = <<a, b, c>>
  OBVIOUS
<1>4. /\ Program(program) /\ Steps(program) = {a, b, c} /\ Start(r, "process", {}, program)
      /\ a[1] \notin Writing /\ b[1] \notin Writing /\ c[1] \notin Writing
  BY <1>1, <1>2, <1>3, ProgramOf3 DEF Wake, Writing
<1>5. /\ Elsewhere(r) /\ Left(r)' = Steps(program) /\ contended' = contended \cup ({} \cap Others(r))
      /\ req'[r] = [op |-> "process", about |-> {}, todo |-> program, got |-> <<>>]
  <2>1. Proper /\ Program(program) /\ Start(r, "process", {}, program)
    BY <1>4 DEF TypesInv, ReqsOK
  <2>2. QED
    BY <2>1, Starts
<1>6. UNCHANGED <<conversation, device>>
  BY DEF Take, chatVars
<1>7. QED
  BY <1>4, <1>5, <1>6, NothingLooked

LEMMA FailTwice ==
  ASSUME TypesInv, TwiceInv, NEW r \in Requests, Fail(r)
  PROVE  TwiceInv'
<1>1. Fault(r) /\ UNCHANGED <<conversation, device>>
  BY DEF Fail, FailAttempt, chatVars, noticeVars
<1>2. Elsewhere(r) /\ req'[r] = Idle /\ Left(r)' = {} /\ contended' = contended \cup req[r].about
  BY <1>1, Faults DEF TypesInv, ReqsOK
<1>3. QED
  BY <1>1, <1>2, NothingLooked DEF Idle

LEMMA TwiceStep == ASSUME TypesInv, TwiceInv, Next PROVE TwiceInv'
<1>1. PICK r \in Requests : Arrive(r) \/ Progress(r) \/ Serve(r) \/ Fail(r)
  BY DEF Next
<1>2. CASE Arrive(r)
  <2>1. Begun(r)
    BY <1>2, StepsBegun
  <2>2. UNCHANGED <<conversation, device>>
    BY <1>2 DEF Arrive, BeginSignals, BeginNotifications, BeginDevices, BeginConversations, BeginMessages,
                noticeVars, chatVars
  <2>3. QED
    BY <2>1, <2>2, BegunTwice
<1>3. CASE Progress(r)
  BY <1>3, ProgressTwice
<1>4. CASE Serve(r)
  <2>1. CASE Fire(r) /\ UNCHANGED <<noticeVars, chatVars, gatewayVars>>
    BY <2>1, StepsBegun, BegunTwice DEF noticeVars, chatVars
  <2>2. CASE Take(r) /\ UNCHANGED <<presenceVars, chatVars, gatewayVars>>
    BY <2>2, TakeTwice
  <2>3. QED
    BY <1>4, <2>1, <2>2 DEF Serve
<1>5. CASE Fail(r)
  BY <1>5, FailTwice
<1>6. QED
  BY <1>1, <1>2, <1>3, <1>4, <1>5

LEMMA TwiceStutter == ASSUME TwiceInv, UNCHANGED vars PROVE TwiceInv'
<1>1. req' = req /\ contended' = contended /\ UNCHANGED <<conversation, device>>
  BY DEF vars, noticeVars, chatVars
<1>2. /\ \A u, d : RowsOf(u, d)' = RowsOf(u, d)
      /\ \A u, v, t : Existing(u, v, t)' = Existing(u, v, t)
      /\ \A c : Found(c)' = Found(c) /\ Participants(c)' = Participants(c)
      /\ \A r \in Requests : Left(r)' = Left(r)
  BY <1>1 DEF RowsOf, Existing, Found, Participants, Left
<1>3. Apart' /\ OneRow' /\ OneConversation'
  BY <1>1, <1>2 DEF TwiceInv, Apart, OneRow, OneConversation
<1>4. ASSUME NEW r \in Requests PROVE Looked(r)'
  <2>1. Looked(r)
    BY DEF TwiceInv
  <2>2. QED
    BY <1>1, <1>2, <2>1 DEF Looked, Foreseen, MaySave, MayCreate, MayRestore, Got
<1>5. QED
  BY <1>3, <1>4 DEF TwiceInv

LEMMA TwiceInit == ASSUME Init PROVE TwiceInv
<1>1. Consistent(mix.tables)
  BY RealtimeAssumption DEF Init, HandlersInit
<1>2. \A r \in Requests : req[r] = Idle /\ Left(r) = {}
  BY NoneYet DEF Init
<1>3. conversation = mix.tables.conversations /\ device = mix.tables.devices
  BY DEF Init, ChatInit, NotificationsInit
<1>4. Apart /\ \A r \in Requests : Looked(r)
  BY <1>2 DEF Apart, Looked, Idle
<1>5. OneRow
  <2>1. \A i, j \in DOMAIN device :
          i # j /\ device[i].user = device[j].user => device[i].device # device[j].device
    BY <1>1, <1>3 DEF Consistent
  <2>2. QED
    BY <2>1 DEF OneRow, RowsOf
<1>6. OneConversation
  BY <1>1, <1>3 DEF OneConversation, Participants, Consistent
<1>7. QED
  BY <1>4, <1>5, <1>6 DEF TwiceInv

LEMMA OneRowEach == ASSUME OneRow PROVE OneRowPerDevice
<1>1. ASSUME NEW S, \A i, j \in S : i = j PROVE Cardinality(S) <= 1
  <2>1. CASE S = {}
    BY <2>1, FS_EmptySet
  <2>2. ASSUME NEW i \in S PROVE Cardinality(S) <= 1
    <3>1. S = {i}
      BY <1>1, <2>2
    <3>2. Cardinality({i}) = 1
      BY FS_Singleton, Zenon
    <3>3. QED
      BY <3>1, <3>2
  <2>3. QED
    BY <2>1, <2>2
<1>2. QED
  BY <1>1 DEF OneRow, OneRowPerDevice

\* Of any number of requests, nobody has two conversations with someone about one thing, and no
\* device of a user two rows, unless two of them were about it at once, or one that was failed:
\* what the database declares unique nowhere, only the order of the handler's steps keeps so.
THEOREM NothingTwice == Spec => []NoDuplicates
<1>1. Init => TwiceInv
  BY TwiceInit
<1>2. TypesInv /\ TwiceInv /\ [Next]_vars => TwiceInv'
  BY TwiceStep, TwiceStutter
<1>3. TwiceInv => NoDuplicates
  BY OneRowEach DEF TwiceInv, NoDuplicates
<1>4. QED
  BY <1>1, <1>2, <1>3, TypesAlways, PTL DEF Spec

-----------------------------------------------------------------------------
(* What is sent reaches the other participant: the inductive invariant *)

\* No request has failed, and none deletes what was said.
Calm == faults = 0 /\ mix.ops \cap {"deleteConversation", "deleteMessages"} = {}

\* What is sent goes into a conversation that is there, or the sender has yet to be let into it.
Deletes == {"delete", "deleteMessages"}
MaySend(r, x) ==
  /\ x[3] \in req[r].about
  /\ Found(x[3]) \/ \E y \in Left(r) : y[1] = "access" /\ y[2] = x[3]
Keeping(r) ==
  \A x \in Left(r) : x[1] \notin Deletes /\ (x[1] = "insert" => MaySend(r, x))

\* The message m is on its way: nothing that is left of its handler stops it before the room, or
\* else the other participant, is told.
SendLabels == {"touch", "findMessage", "found", "readLast", "show", "emitNew", "store"}
Passes(y) ==
  /\ y[1] \in SendLabels
  /\ y[1] = "found" => y[2] \in DOMAIN conversation /\ Found(y[2])
  /\ y[1] = "findMessage" => y[2] \in DOMAIN message /\ ~message[y[2]].gone
  /\ y[1] = "emitNew" => y[3] \in DOMAIN conversation /\ Found(y[3])
Tells(x, m) ==
  \/ x[1] = "emitNew" /\ x[5] = m
  \/ x[1] = "store" /\ x[4] = m /\ x[2] = OtherOf(message[m].conv, message[m].sender)
OnItsWay(r, m) ==
  /\ message[m].conv \in req[r].about
  /\ \A y \in Left(r) : Passes(y)
  /\ \E x \in Left(r) : Tells(x, m)

Reached(m) ==
  LET u == OtherOf(message[m].conv, message[m].sender) IN
  \/ <<m, u>> \in heard
  \/ \E n \in DOMAIN notification : notification[n].user = u /\ notification[n].about = m

ReachInv ==
  Calm =>
    /\ \A r \in Requests : Keeping(r)
    /\ \A m \in DOMAIN message : Reached(m) \/ \E r \in Requests : OnItsWay(r, m)

-----------------------------------------------------------------------------
(* What lasts *)

\* What is found stays, and what was sent or told.
Lasting ==
  /\ Grows
  /\ \A c \in DOMAIN conversation : Found(c) => Found(c)'
  /\ \A m \in DOMAIN message : ~message[m].gone => ~message'[m].gone
  /\ heard \subseteq heard' /\ \A n \in DOMAIN notification : AsBefore(n)

LEMMA SameOther ==
  ASSUME ChatOK, Grows, NEW m \in DOMAIN message
  PROVE  /\ message'[m].conv = message[m].conv /\ message'[m].sender = message[m].sender
         /\ m \in DOMAIN message' /\ message[m].conv \in DOMAIN conversation
         /\ OtherOf(message[m].conv, message[m].sender)' = OtherOf(message[m].conv, message[m].sender)
<1>1. message[m].conv \in DOMAIN conversation
  BY ChatRows DEF MessageRow
<1>2. /\ message'[m].conv = message[m].conv /\ message'[m].sender = message[m].sender
      /\ m \in DOMAIN message' /\ conversation'[message[m].conv].pair = conversation[message[m].conv].pair
  BY <1>1 DEF Grows
<1>3. QED
  BY <1>1, <1>2 DEF OtherOf, Participants

LEMMA PassesStill == ASSUME Lasting, NEW y, Passes(y) PROVE Passes(y)'
BY DEF Lasting, Grows, Passes

LEMMA TellsStill ==
  ASSUME ChatOK, Lasting, NEW m \in DOMAIN message, NEW x, Tells(x, m) PROVE Tells(x, m)'
<1>1. /\ message'[m].conv = message[m].conv /\ message'[m].sender = message[m].sender
      /\ OtherOf(message[m].conv, message[m].sender)' = OtherOf(message[m].conv, message[m].sender)
  BY SameOther DEF Lasting
<1>2. QED
  BY <1>1 DEF Tells

LEMMA ReachedStill ==
  ASSUME ChatOK, Lasting, NEW m \in DOMAIN message, Reached(m) PROVE Reached(m)'
<1>1. /\ message'[m].conv = message[m].conv /\ message'[m].sender = message[m].sender
      /\ OtherOf(message[m].conv, message[m].sender)' = OtherOf(message[m].conv, message[m].sender)
  BY SameOther DEF Lasting
<1>2. PICK u : u = OtherOf(message[m].conv, message[m].sender)
  OBVIOUS
<1>3. CASE <<m, u>> \in heard
  BY <1>1, <1>2, <1>3 DEF Reached, Lasting
<1>4. ASSUME NEW n \in DOMAIN notification, notification[n].user = u, notification[n].about = m
      PROVE  Reached(m)'
  <2>1. n \in DOMAIN notification' /\ notification'[n].user = u /\ notification'[n].about = m
    BY <1>4 DEF Lasting, AsBefore, Grows
  <2>2. QED
    BY <1>1, <1>2, <2>1 DEF Reached
<1>5. QED
  BY <1>2, <1>3, <1>4 DEF Reached

\* A message stays on its way while its request does not take a step, or one that tells nobody.
LEMMA OnItsWayStill ==
  ASSUME ChatOK, Lasting, NEW r \in Requests, NEW m \in DOMAIN message, OnItsWay(r, m),
         Left(r)' \subseteq Left(r), req'[r] # Idle => req'[r].about = req[r].about,
         \A x \in Left(r) : Tells(x, m) => x \in Left(r)'
  PROVE  OnItsWay(r, m)'
<1>1. PICK x \in Left(r) : Tells(x, m)
  BY DEF OnItsWay
<1>2. x \in Left(r)' /\ Tells(x, m)'
  BY <1>1, TellsStill
<1>3. req'[r] # Idle
  BY <1>2, NoProgram DEF Left, Idle
<1>4. \A y \in Left(r)' : Passes(y)'
  BY PassesStill DEF OnItsWay
<1>5. message'[m].conv \in req'[r].about
  BY <1>3, SameOther DEF Lasting, OnItsWay
<1>6. QED
  BY <1>2, <1>4, <1>5 DEF OnItsWay

LEMMA KeepingStill ==
  ASSUME Lasting, NEW r \in Requests, ReqOK(r), Keeping(r), Left(r)' = Left(r), req'[r] = req[r]
  PROVE  Keeping(r)'
<1>1. ASSUME NEW x \in Left(r)', x[1] = "insert" PROVE MaySend(r, x)'
  <2>1. x \in Left(r) /\ x[3] \in DOMAIN conversation
    BY <1>1 DEF ReqOK, StepOK
  <2>2. MaySend(r, x)
    BY <1>1, <2>1 DEF Keeping
  <2>3. QED
    BY <2>1, <2>2 DEF MaySend, Lasting
<1>2. QED
  BY <1>1 DEF Keeping

LEMMA KeepingOn ==
  ASSUME TypesInv, Lasting, NEW r \in Requests, Keeping(r), NEW labels, Moved(r, labels),
         labels \cap (Deletes \cup {"insert"}) = {}, NEW h, h = req[r].todo[1],
         h[1] = "access" => req'[r] = Idle \/ Found(h[2])'
  PROVE  Keeping(r)'
<1>1. PICK rest : rest = Steps(Tail(req[r].todo))
  OBVIOUS
<1>2. Left(r) = {h} \cup rest
  <2>1. Program(req[r].todo) /\ req[r].todo # <<>>
    BY DEF TypesInv, ReqsOK, Proper, Moved
  <2>2. QED
    BY <1>1, <2>1, ProgramTail DEF Left
<1>3. /\ \A x \in Left(r)' : x \in rest \/ x[1] \in labels
      /\ req'[r] # Idle => req'[r].about = req[r].about /\ rest \subseteq Left(r)'
  BY <1>1 DEF Moved
<1>4. ASSUME NEW x \in Left(r)' PROVE x[1] \notin Deletes
  BY <1>2, <1>3 DEF Keeping
<1>5. ASSUME NEW x \in Left(r)', x[1] = "insert" PROVE MaySend(r, x)'
  <2>1. x \in Left(r) /\ req'[r] # Idle
    <3>1. req'[r] # Idle
      BY NoProgram DEF Left, Idle
    <3>2. QED
      BY <1>2, <1>3, <1>5, <3>1
  <2>2. MaySend(r, x) /\ x[3] \in DOMAIN conversation
    BY <1>5, <2>1 DEF Keeping, TypesInv, ReqsOK, ReqOK, StepOK
  <2>3. CASE Found(x[3])
    BY <1>3, <2>1, <2>2, <2>3 DEF MaySend, Lasting
  <2>4. ASSUME NEW y \in Left(r), y[1] = "access", y[2] = x[3] PROVE MaySend(r, x)'
    <3>1. CASE y = h
      BY <1>3, <2>1, <2>2, <2>4, <3>1 DEF MaySend
    <3>2. CASE y # h
      BY <1>2, <1>3, <2>1, <2>2, <2>4, <3>2 DEF MaySend
    <3>3. QED
      BY <3>1, <3>2
  <2>5. QED
    BY <2>2, <2>3, <2>4 DEF MaySend
<1>6. QED
  BY <1>4, <1>5 DEF Keeping

-----------------------------------------------------------------------------
(* No step takes back what was said *)

\* Messages, and notifications, of which a step changes something else.
LEMMA MessageMarked ==
  ASSUME ChatOK, UNCHANGED <<conversation, notification, heard>>,
         message' = [m \in DOMAIN message |-> message'[m]],
         \A m \in DOMAIN message : \/ message'[m] = message[m]
                                   \/ message'[m] = [message[m] EXCEPT !.read = TRUE]
                                   \/ message'[m] = [message[m] EXCEPT !.edited = TRUE]
  PROVE  Lasting /\ DOMAIN message' = DOMAIN message
<1>1. Grows /\ DOMAIN message' = DOMAIN message
  BY MessagesChange
<1>2. \A row \in MessageRow(DOMAIN conversation) :
        [row EXCEPT !.read = TRUE].gone = row.gone /\ [row EXCEPT !.edited = TRUE].gone = row.gone
  BY DEF MessageRow
<1>3. \A m \in DOMAIN message : message'[m].gone = message[m].gone
  BY <1>2, ChatRows
<1>4. QED
  BY <1>1, <1>3 DEF Lasting, Found, AsBefore

LEMMA NoticesLasting ==
  ASSUME Grows, UNCHANGED <<conversation, message, heard>>,
         \A n \in DOMAIN notification : AsBefore(n)
  PROVE  Lasting /\ DOMAIN message' = DOMAIN message
BY DEF Lasting, Found

LEMMA ConversationsLasting ==
  ASSUME Grows, UNCHANGED <<message, notification, heard>>,
         \A c \in DOMAIN conversation : Found(c) => Found(c)'
  PROVE  Lasting /\ DOMAIN message' = DOMAIN message
BY DEF Lasting, AsBefore

LEMMA NoticesLast ==
  ASSUME TypesInv, NEW r \in Requests, NotificationsSteps(r), Grows,
         UNCHANGED <<presenceVars, chatVars, gatewayVars>>
  PROVE  Lasting /\ DOMAIN message' = DOMAIN message
<1>1. PICK h : h = req[r].todo[1]
  OBVIOUS
<1>2. NoticesOK /\ ChatOK /\ UNCHANGED <<conversation, message, heard>>
  BY DEF TypesInv, chatVars, gatewayVars
<1>3. req[r].todo # <<>>
  BY DEF NotificationsSteps, Create, IsOnline, CreateDelivery, Send, Enqueue, HandlePushNotification,
         SendPush, HandleTelegramNotification, Complete, ReadNotifications, FindDevice, SaveDevice,
         DeleteTokens, At
<1>4. StepOK(h)
  BY <1>1, <1>3, HeadOK DEF TypesInv, ReqsOK
<1>5. Arg(r, 1) = h[2] /\ Arg(r, 2) = h[3] /\ Arg(r, 3) = h[4]
  BY <1>1 DEF Arg
<1>6. ASSUME NEW n, OnlyRow(n) PROVE \A i \in DOMAIN notification : AsBefore(i)
  BY <1>6 DEF OnlyRow, AsBefore
<1>7. CASE Create(r)
  <2>1. h[1] = "store"
    BY <1>1, <1>7 DEF Create, At
  <2>2. CASE notification' = notification
    BY <1>2, <2>2, NoticesLasting DEF AsBefore
  <2>3. CASE notification' # notification
    <3>1. PICK u, type, about : u = h[2] /\ type = h[3] /\ about = h[4]
      OBVIOUS
    <3>2. u # NoUser /\ notification' = Append(notification, Notification(u, type, about))
      BY <1>5, <1>7, <2>3, <3>1 DEF Create
    <3>3. u \in Users /\ type \in SignalTypes /\ about \in 0..Len(message)
      BY <1>4, <2>1, <3>1, <3>2 DEF StepOK
    <3>4. message \in Seq(MessageRow(DOMAIN conversation)) /\ message' = message
      BY <1>2 DEF ChatOK
    <3>5. \A n \in DOMAIN notification : notification'[n] = notification[n]
      BY <1>2, <3>2, <3>3, <3>4, NoticeAdded
    <3>6. QED
      BY <1>2, <3>5, NoticesLasting DEF AsBefore
  <2>4. QED
    BY <2>2, <2>3
<1>8. CASE CreateDelivery(r) \/ Send(r) \/ SendPush(r)
  <2>1. h[1] \in {"record", "send", "multicast"}
    BY <1>1, <1>8 DEF CreateDelivery, Send, SendPush, At
  <2>2. PICK n, ch : n = h[2] /\ ch = h[3]
    OBVIOUS
  <2>3. n \in DOMAIN notification /\ ch \in Channels
    BY <1>4, <2>1, <2>2 DEF StepOK, AboutNotification
  <2>4. \/ notification' = [notification EXCEPT ![n].recorded[ch] = @ + 1]
        \/ notification' = [notification EXCEPT ![n].sent[ch] = @ + 1]
    BY <1>5, <1>8, <2>2 DEF CreateDelivery, Send, SendPush, Emitted
  <2>5. OnlyRow(n)
    BY <1>2, <2>3, <2>4, Recorded, SentOnce
  <2>6. QED
    BY <1>2, <1>6, <2>5, NoticesLasting
<1>9. CASE Enqueue(r) \/ Complete(r)
  <2>1. h[1] \in {"enqueue", "complete"}
    BY <1>1, <1>9 DEF Enqueue, Complete, At
  <2>2. PICK n : n = h[2]
    OBVIOUS
  <2>3. n \in DOMAIN notification
    BY <1>4, <2>1, <2>2 DEF StepOK, AboutNotification
  <2>4. PICK job \in {"waiting", "done"} : notification' = [notification EXCEPT ![n].job = job]
    BY <1>5, <1>9, <2>2 DEF Enqueue, Complete
  <2>5. OnlyRow(n)
    BY <1>2, <2>3, <2>4, JobMoved
  <2>6. QED
    BY <1>2, <1>6, <2>5, NoticesLasting
<1>10. CASE ReadNotifications(r)
  <2>1. PICK u, ids : u = Arg(r, 2) /\ ids = Arg(r, 1)
    OBVIOUS
  <2>2. notification' = [n \in DOMAIN notification |->
           IF notification[n].user = u /\ (ids = {} \/ n \in ids)
             THEN [notification[n] EXCEPT !.read = TRUE] ELSE notification[n]]
    BY <1>10, <2>1 DEF ReadNotifications
  <2>3. \A n \in DOMAIN notification : AsBefore(n)
    BY <1>2, <2>2, ReadEffect
  <2>4. QED
    BY <1>2, <2>3, NoticesLasting
<1>11. CASE \/ IsOnline(r) \/ HandlePushNotification(r) \/ HandleTelegramNotification(r)
            \/ FindDevice(r) \/ SaveDevice(r) \/ DeleteTokens(r)
  <2>1. notification' = notification
    BY <1>11 DEF IsOnline, HandlePushNotification, HandleTelegramNotification, FindDevice, SaveDevice,
                 DeleteTokens, noticeVars
  <2>2. QED
    BY <1>2, <2>1, NoticesLasting DEF AsBefore
<1>12. QED
  BY <1>7, <1>8, <1>9, <1>10, <1>11 DEF NotificationsSteps

LEMMA ChatLasts ==
  ASSUME TypesInv, NEW r \in Requests, ChatSteps(r), Grows, Keeping(r),
         UNCHANGED <<presenceVars, noticeVars>>
  PROVE  Lasting /\ DOMAIN message' = DOMAIN message
<1>1. PICK h : h = req[r].todo[1]
  OBVIOUS
<1>2. ChatOK /\ UNCHANGED <<notification, heard>>
  BY DEF TypesInv, noticeVars, gatewayVars, ChatSteps
<1>3. CASE DeleteConversation(r)
  <2>1. req[r].todo # <<>> /\ h[1] = "delete"
    BY <1>1, <1>3 DEF DeleteConversation, At
  <2>2. h \in Left(r)
    BY <1>1, <2>1, HeadOK DEF TypesInv, ReqsOK
  <2>3. QED
    BY <2>1, <2>2 DEF Keeping, Deletes
<1>4. CASE RestoreConversation(r)
  <2>1. PICK c : conversation' = [conversation EXCEPT ![c].deleted = FALSE] /\ message' = message
    BY <1>4 DEF RestoreConversation
  <2>2. \A d \in DOMAIN conversation :
          /\ conversation'[d].deleted = (IF d = c THEN FALSE ELSE conversation[d].deleted)
          /\ conversation'[d].gone = conversation[d].gone
    BY <1>2, <2>1, DeletedSet
  <2>3. \A d \in DOMAIN conversation : Found(d) => Found(d)'
    BY <2>2 DEF Found
  <2>4. QED
    BY <1>2, <2>1, <2>3, ConversationsLasting
<1>5. CASE CreateConversation(r)
  <2>1. PICK u, v, t : u = h[2] /\ v = h[3] /\ t = h[4]
    OBVIOUS
  <2>2. /\ req[r].todo # <<>> /\ h[1] = "createConversation" /\ message' = message
        /\ conversation' = Append(conversation, Conversation(u, v, t))
    BY <1>1, <1>5, <2>1 DEF CreateConversation, At, Arg
  <2>3. StepOK(h)
    BY <1>1, <2>2, HeadOK DEF TypesInv, ReqsOK
  <2>4. u \in Speakers /\ v \in Speakers /\ u # v /\ t \in Topics \cup {NoTopic}
    BY <2>1, <2>2, <2>3 DEF StepOK
  <2>5. \A d \in DOMAIN conversation : conversation'[d] = conversation[d]
    BY <1>2, <2>2, <2>4, ConversationAdded
  <2>6. \A d \in DOMAIN conversation : Found(d) => Found(d)'
    BY <2>5 DEF Found
  <2>7. QED
    BY <1>2, <2>2, <2>6, ConversationsLasting
<1>6. CASE \/ VerifyAccess(r) \/ FindConversation(r) \/ GetLastMessage(r) \/ ShowPreview(r)
           \/ FindConversations(r) \/ MayTalk(r) \/ FindExisting(r) \/ StillThere(r)
  <2>1. UNCHANGED <<conversation, message>>
    BY <1>6 DEF VerifyAccess, FindConversation, GetLastMessage, ShowPreview, FindConversations, MayTalk,
                FindExisting, StillThere, chatVars
  <2>2. QED
    BY <1>2, <2>1, ConversationsLasting DEF Found
<1>7. QED
  BY <1>3, <1>4, <1>5, <1>6 DEF ChatSteps

LEMMA MessagesLast ==
  ASSUME TypesInv, NEW r \in Requests, MessageSteps(r), Grows, Keeping(r),
         UNCHANGED <<presenceVars, noticeVars>>
  PROVE  Lasting /\ (req[r].todo[1][1] = "insert" \/ DOMAIN message' = DOMAIN message)
<1>1. PICK h : h = req[r].todo[1]
  OBVIOUS
<1>2. ChatOK /\ notification' = notification
  BY DEF TypesInv, noticeVars
<1>3. CASE InsertMessage(r)
  <2>1. PICK c, u, m : c = h[3] /\ u = h[4] /\ m = Len(message')
    OBVIOUS
  <2>2. /\ req[r].todo # <<>> /\ h[1] = "insert" /\ UNCHANGED <<conversation, heard>>
        /\ message' = message \/ message' = Append(message, Message(c, u))
    BY <1>1, <1>3, <2>1 DEF InsertMessage, At, Arg, gatewayVars
  <2>3. StepOK(h) /\ Ready(r, h)
    BY <1>1, <2>2, HeadOK DEF TypesInv, ReqsOK, Guarded
  <2>4. c \in DOMAIN conversation /\ u \in Participants(c)
    BY <2>1, <2>2, <2>3 DEF StepOK, Ready
  <2>5. \A i \in DOMAIN message : message'[i] = message[i]
    BY <1>2, <2>2, <2>4, MessageAdded
  <2>6. QED
    BY <1>1, <1>2, <2>2, <2>5 DEF Lasting, Found, AsBefore
<1>4. CASE Touch(r) \/ SetLast(r)
  <2>1. PICK c, last : conversation' = [conversation EXCEPT ![c].last = last]
    BY <1>4 DEF Touch, SetLast
  <2>2. UNCHANGED <<message, heard>>
    BY <1>4 DEF Touch, SetLast, gatewayVars
  <2>3. \A d \in DOMAIN conversation : Found(d) => Found(d)'
    BY <1>2, <2>1, LastOnly
  <2>4. QED
    BY <1>2, <2>2, <2>3, ConversationsLasting
<1>5. CASE EmitMessageNew(r)
  <2>1. UNCHANGED <<conversation, message>> /\ heard \subseteq heard'
    BY <1>5 DEF EmitMessageNew, chatVars
  <2>2. QED
    BY <1>2, <2>1 DEF Lasting, Found, AsBefore
<1>6. CASE MarkMessagesAsRead(r) \/ Edit(r)
  <2>1. UNCHANGED <<conversation, heard>>
    BY <1>6 DEF MarkMessagesAsRead, Edit, gatewayVars
  <2>2. message = [m \in DOMAIN message |-> message[m]]
    BY <1>2, ChatRows
  <2>3. /\ message' = [m \in DOMAIN message |-> message'[m]]
        /\ \A m \in DOMAIN message : \/ message'[m] = message[m]
                                     \/ message'[m] = [message[m] EXCEPT !.read = TRUE]
                                     \/ message'[m] = [message[m] EXCEPT !.edited = TRUE]
    <3>1. CASE MarkMessagesAsRead(r)
      BY <3>1 DEF MarkMessagesAsRead
    <3>2. CASE Edit(r)
      BY <2>2, <3>2 DEF Edit
    <3>3. QED
      BY <1>6, <3>1, <3>2
  <2>4. QED
    BY <1>2, <2>1, <2>3, MessageMarked
<1>7. CASE DeleteRows(r)
  <2>1. req[r].todo # <<>> /\ h[1] = "deleteMessages"
    BY <1>1, <1>7 DEF DeleteRows, At
  <2>2. h \in Left(r)
    BY <1>1, <2>1, HeadOK DEF TypesInv, ReqsOK
  <2>3. QED
    BY <2>1, <2>2 DEF Keeping, Deletes
<1>8. CASE \/ Enter(r) \/ Exit(r) \/ FindMessage(r) \/ WasRead(r) \/ CountUnread(r) \/ NowRead(r)
           \/ VerifyMessageOwnership(r) \/ IfLast(r) \/ UnreadBefore(r) \/ LastBefore(r) \/ ReadNewLast(r)
  <2>1. UNCHANGED <<conversation, message, heard>>
    BY <1>8 DEF Enter, Exit, FindMessage, WasRead, CountUnread, NowRead, VerifyMessageOwnership, IfLast,
                UnreadBefore, LastBefore, ReadNewLast, chatVars, gatewayVars
  <2>2. QED
    BY <1>2, <2>1, ConversationsLasting DEF Found
<1>9. QED
  BY <1>3, <1>4, <1>5, <1>6, <1>7, <1>8 DEF MessageSteps

LEMMA ProgressLasts ==
  ASSUME TypesInv, NEW r \in Requests, Progress(r), Grows, Keeping(r)
  PROVE  Lasting /\ (req[r].todo[1][1] = "insert" \/ DOMAIN message' = DOMAIN message)
<1>1. CASE PresenceSteps(r) /\ LeaveRooms /\ UNCHANGED <<noticeVars, chatVars>>
  <2>1. UNCHANGED <<conversation, message, notification, heard>>
    BY <1>1 DEF LeaveRooms, noticeVars, chatVars
  <2>2. QED
    BY <2>1, ConversationsLasting DEF Found
<1>2. CASE NotificationsSteps(r) /\ UNCHANGED <<presenceVars, chatVars, gatewayVars>>
  BY <1>2, NoticesLast
<1>3. CASE ChatSteps(r) /\ UNCHANGED <<presenceVars, noticeVars>>
  BY <1>3, ChatLasts
<1>4. CASE MessageSteps(r) /\ UNCHANGED <<presenceVars, noticeVars>>
  BY <1>4, MessagesLast
<1>5. QED
  BY <1>1, <1>2, <1>3, <1>4 DEF Progress

-----------------------------------------------------------------------------
(* A message on its way *)

\* The step that is taken is the one at hand.
LEMMA StepAtHand ==
  ASSUME NEW r \in Requests, Progress(r), NEW h, h = req[r].todo[1]
  PROVE  /\ h[1] = "insert" => InsertMessage(r) /\ UNCHANGED noticeVars
         /\ h[1] = "emitNew" => EmitMessageNew(r)
         /\ h[1] = "store" => Create(r) /\ UNCHANGED chatVars
         /\ h[1] \in {"touch", "findMessage", "found", "readLast", "show"} =>
              Touch(r) \/ FindMessage(r) \/ FindConversation(r) \/ GetLastMessage(r) \/ ShowPreview(r)
         /\ h[1] = "access" => VerifyAccess(r)
         /\ req[r].todo # <<>>
<1>1. PICK labels : labels = {"insert", "emitNew", "store", "touch", "findMessage", "found", "readLast",
                              "show", "access"}
  OBVIOUS
<1>2. CASE PresenceSteps(r) /\ UNCHANGED <<noticeVars, chatVars>>
  <2>1. req[r].todo # <<>> /\ h[1] \notin labels
    BY <1>1, <1>2 DEF PresenceSteps, HandleConnection, HandleDisconnect, UpdateOnlineStatus,
                      NotifyUserStatusUpdate, At
  <2>2. QED
    BY <1>1, <2>1
<1>3. CASE NotificationsSteps(r) /\ UNCHANGED <<presenceVars, chatVars, gatewayVars>>
  <2>1. CASE Create(r)
    BY <1>3, <2>1 DEF Create, At
  <2>2. CASE \/ IsOnline(r) \/ CreateDelivery(r) \/ Send(r) \/ Enqueue(r)
             \/ HandlePushNotification(r) \/ SendPush(r) \/ HandleTelegramNotification(r) \/ Complete(r)
             \/ ReadNotifications(r) \/ FindDevice(r) \/ SaveDevice(r) \/ DeleteTokens(r)
    <3>1. req[r].todo # <<>> /\ h[1] \notin labels
      BY <1>1, <2>2
         DEF IsOnline, CreateDelivery, Send, Enqueue, HandlePushNotification, SendPush,
             HandleTelegramNotification, Complete, ReadNotifications, FindDevice, SaveDevice, DeleteTokens, At
    <3>2. QED
      BY <1>1, <3>1
  <2>3. QED
    BY <1>3, <2>1, <2>2 DEF NotificationsSteps
<1>4. CASE ChatSteps(r) /\ UNCHANGED <<presenceVars, noticeVars>>
  <2>1. CASE VerifyAccess(r) \/ FindConversation(r) \/ GetLastMessage(r) \/ ShowPreview(r)
    BY <2>1 DEF VerifyAccess, FindConversation, GetLastMessage, ShowPreview, At
  <2>2. CASE \/ FindConversations(r) \/ MayTalk(r) \/ FindExisting(r) \/ CreateConversation(r)
             \/ DeleteConversation(r) \/ StillThere(r) \/ RestoreConversation(r)
    <3>1. req[r].todo # <<>> /\ h[1] \notin labels
      BY <1>1, <2>2 DEF FindConversations, MayTalk, FindExisting, CreateConversation, DeleteConversation,
                        StillThere, RestoreConversation, At
    <3>2. QED
      BY <1>1, <3>1
  <2>3. QED
    BY <1>4, <2>1, <2>2 DEF ChatSteps
<1>5. CASE MessageSteps(r) /\ UNCHANGED <<presenceVars, noticeVars>>
  <2>1. CASE InsertMessage(r) \/ Touch(r) \/ FindMessage(r) \/ EmitMessageNew(r)
    BY <1>5, <2>1 DEF InsertMessage, Touch, FindMessage, EmitMessageNew, At
  <2>2. CASE \/ Enter(r) \/ Exit(r) \/ WasRead(r) \/ CountUnread(r) \/ MarkMessagesAsRead(r) \/ NowRead(r)
             \/ VerifyMessageOwnership(r) \/ Edit(r) \/ IfLast(r)
             \/ UnreadBefore(r) \/ LastBefore(r) \/ DeleteRows(r) \/ ReadNewLast(r) \/ SetLast(r)
    <3>1. req[r].todo # <<>> /\ h[1] \notin labels
      BY <1>1, <2>2 DEF Enter, Exit, WasRead, CountUnread, MarkMessagesAsRead, NowRead,
                        VerifyMessageOwnership, Edit, IfLast, UnreadBefore, LastBefore, DeleteRows,
                        ReadNewLast, SetLast, At
    <3>2. QED
      BY <1>1, <3>1
  <2>3. QED
    BY <1>5, <2>1, <2>2 DEF MessageSteps
<1>6. QED
  BY <1>2, <1>3, <1>4, <1>5 DEF Progress

\* A step that passes leaves what follows it.
LEMMA PassedOn ==
  ASSUME TypesInv, Lasting, NEW r \in Requests, Progress(r), NEW m \in DOMAIN message, OnItsWay(r, m),
         req[r].todo[1][1] \notin {"emitNew", "store"}
  PROVE  OnItsWay(r, m)'
<1>1. PICK h : h = req[r].todo[1]
  OBVIOUS
<1>2. Proper /\ ChatOK /\ req[r].todo # <<>>
  BY <1>1, StepAtHand DEF TypesInv, ReqsOK
<1>3. h \in Left(r) /\ Passes(h) /\ ~Tells(h, m)
  BY <1>1, <1>2, HeadOK DEF TypesInv, ReqsOK, OnItsWay, Tells
<1>4. h[1] \in {"touch", "findMessage", "found", "readLast", "show"}
  BY <1>1, <1>3 DEF Passes, SendLabels
<1>5. Touch(r) \/ FindMessage(r) \/ FindConversation(r) \/ GetLastMessage(r) \/ ShowPreview(r)
  BY <1>1, <1>4, StepAtHand
<1>6. Continue(r) \/ \E k, v : Read(r, k, v)
  <2>1. CASE Touch(r) \/ GetLastMessage(r) \/ ShowPreview(r)
    BY <2>1 DEF Touch, GetLastMessage, ShowPreview
  <2>2. CASE FindMessage(r)
    BY <1>1, <1>3, <2>2 DEF FindMessage, At, Require, Arg, Passes
  <2>3. CASE FindConversation(r)
    BY <1>1, <1>3, <2>3 DEF FindConversation, At, Require, Arg, Passes
  <2>4. QED
    BY <1>5, <2>1, <2>2, <2>3
<1>7. PICK got : Goes(r, Tail(req[r].todo), got)
  BY <1>6 DEF Continue, Read
<1>8. Left(r) = {h} \cup Left(r)' /\ (req'[r] # Idle => req'[r].about = req[r].about)
  BY <1>1, <1>2, <1>7, Continues
<1>9. QED
  BY <1>2, <1>3, <1>8, OnItsWayStill

\* What was inserted is on its way.
LEMMA InsertedOnWay ==
  ASSUME TypesInv, Lasting, NEW r \in Requests, InsertMessage(r), UNCHANGED noticeVars, Keeping(r)
  PROVE  \A m \in DOMAIN message' \ DOMAIN message : OnItsWay(r, m)'
<1>1. PICK h : h = req[r].todo[1]
  OBVIOUS
<1>2. PICK s, c, u : s = h[2] /\ c = h[3] /\ u = h[4]
  OBVIOUS
<1>3. h[1] = "insert" /\ req[r].todo # <<>> /\ Proper /\ ChatOK
  BY <1>1 DEF InsertMessage, At, TypesInv, ReqsOK
<1>4. StepOK(h) /\ Ready(r, h) /\ h \in Left(r)
  BY <1>1, <1>3, HeadOK DEF TypesInv, ReqsOK, Guarded
<1>5. c \in DOMAIN conversation /\ u \in Participants(c)
  BY <1>2, <1>3, <1>4 DEF StepOK, Ready
<1>6. Left(r) = {h}
  BY <1>1, <1>3, LastStep DEF Final
<1>7. Found(c) /\ c \in req[r].about
  BY <1>2, <1>3, <1>4, <1>6 DEF Keeping, MaySend
<1>8. Arg(r, 1) = s /\ Arg(r, 2) = c /\ Arg(r, 3) = u
  BY <1>1, <1>2 DEF Arg
<1>9. PICK n, q : n = Len(message') /\ q = Stored(s, c, u, n)
  OBVIOUS
<1>10. message' = Append(message, Message(c, u)) /\ Do(r, q) /\ conversation' = conversation
  BY <1>7, <1>8, <1>9 DEF InsertMessage, Found
<1>11. /\ DOMAIN message' = DOMAIN message \cup {n} /\ message'[n] = Message(c, u)
  BY <1>3, <1>5, <1>9, <1>10, MessageAdded DEF noticeVars
<1>12. PICK a, b, e : a = <<"touch", c>> /\ b = <<"findMessage", n>> /\ e = <<"emitNew", s, c, u, n>>
  OBVIOUS
<1>13. /\ Program(q) /\ Steps(q) = {a, b, e} \cup Steps(Previews(c, u))
       /\ \A x \in Steps(Previews(c, u)) : x[1] \in PreviewLabels /\ x[2] = c
  BY <1>9, <1>12, StoredProgram, PreviewsProgram
<1>14. /\ Left(r)' = Steps(q) \cup Steps(Tail(req[r].todo))
       /\ req'[r] # Idle => req'[r].about = req[r].about
  BY <1>3, <1>10, <1>13, Does DEF Do
<1>15. Steps(Tail(req[r].todo)) = {}
  BY <1>1, <1>3, LastStep, NoProgram DEF Final
<1>16. e \in Left(r)' /\ req'[r].about = req[r].about
  <2>1. e \in Left(r)'
    BY <1>13, <1>14
  <2>2. QED
    BY <1>14, <2>1, NoProgram DEF Left, Idle
<1>17. \A y \in Left(r)' : Passes(y)'
  <2>1. c \in DOMAIN conversation' /\ Found(c)' /\ n \in DOMAIN message' /\ ~message'[n].gone
    BY <1>5, <1>7, <1>10, <1>11 DEF Found, Message
  <2>2. Passes(a)' /\ Passes(b)' /\ Passes(e)'
    BY <1>12, <2>1 DEF Passes, SendLabels
  <2>3. \A x \in Steps(Previews(c, u)) : Passes(x)'
    BY <1>13, <2>1 DEF Passes, SendLabels, PreviewLabels
  <2>4. QED
    BY <1>13, <1>14, <1>15, <2>2, <2>3
<1>18. Tells(e, n)'
  BY <1>12 DEF Tells
<1>19. message'[n].conv \in req'[r].about
  BY <1>7, <1>11, <1>16 DEF Message
<1>20. QED
  BY <1>11, <1>16, <1>17, <1>18, <1>19 DEF OnItsWay

\* The room is told, or the notification of the other participant is on its way.
LEMMA EmittedOn ==
  ASSUME TypesInv, Lasting, NEW r \in Requests, EmitMessageNew(r),
         NEW m \in DOMAIN message, OnItsWay(r, m)
  PROVE  Reached(m)' \/ OnItsWay(r, m)'
<1>1. PICK h : h = req[r].todo[1]
  OBVIOUS
<1>2. PICK s, c, u : s = h[2] /\ c = h[3] /\ u = h[4]
  OBVIOUS
<1>3. h[1] = "emitNew" /\ req[r].todo # <<>> /\ Proper /\ ChatOK
  BY <1>1 DEF EmitMessageNew, At, TypesInv, ReqsOK
<1>4. StepOK(h)
  BY <1>1, <1>3, HeadOK DEF TypesInv, ReqsOK
<1>5. Left(r) = {h} /\ Steps(Tail(req[r].todo)) = {}
  BY <1>1, <1>3, LastStep, NoProgram DEF Final
<1>6. h[5] = m /\ Passes(h)
  BY <1>3, <1>5 DEF OnItsWay, Tells
<1>7. /\ s \in Sockets /\ c \in DOMAIN conversation /\ u = SocketUser[s] /\ Found(c)
      /\ message[m].conv = c /\ message[m].sender = u
  BY <1>2, <1>3, <1>4, <1>6 DEF StepOK, Passes
<1>8. PICK v : v = OtherOf(c, u)
  OBVIOUS
<1>9. v # u
  BY <1>3, <1>7, <1>8, OtherIsUser
<1>10. Arg(r, 1) = s /\ Arg(r, 2) = c /\ Arg(r, 3) = u /\ Arg(r, 4) = m
  BY <1>1, <1>2, <1>6 DEF Arg
<1>11. /\ heard' = heard \cup {<<m, SocketUser[t]>> : t \in InRoom(c) \ {s}}
       /\ IF IsInConversation(s, c, v) THEN Continue(r)
          ELSE Do(r, <<<<"found", c>>>> \o Signal(v, "MESSAGE_NEW", m))
  BY <1>8, <1>10 DEF EmitMessageNew
<1>12. /\ message'[m].conv = c /\ message'[m].sender = u /\ m \in DOMAIN message'
       /\ OtherOf(message[m].conv, message[m].sender)' = v
  BY <1>3, <1>7, <1>8, SameOther DEF Lasting
<1>13. CASE IsInConversation(s, c, v)
  <2>1. PICK t \in InRoom(c) : SocketUser[t] = v
    BY <1>13 DEF IsInConversation
  <2>2. <<m, v>> \in heard'
    BY <1>7, <1>9, <1>11, <2>1
  <2>3. QED
    BY <1>12, <2>2 DEF Reached
<1>14. CASE ~IsInConversation(s, c, v)
  <2>1. PICK f, e, q : f = <<"found", c>> /\ e = <<"store", v, "MESSAGE_NEW", m>> /\ q = <<f, e>>
    OBVIOUS
  <2>2. <<<<"found", c>>>> \o Signal(v, "MESSAGE_NEW", m) = q
    BY <2>1, JoinOf1 DEF Signal
  <2>3. Do(r, q) /\ Program(q) /\ Steps(q) = {f, e}
    <3>1. Do(r, q)
      BY <1>11, <1>14, <2>2
    <3>2. Program(<<f, e>>) /\ Steps(<<f, e>>) = {f, e}
      BY <2>1, ProgramOf2
    <3>3. QED
      BY <2>1, <3>1, <3>2
  <2>4. /\ Left(r)' = Steps(q) \cup Steps(Tail(req[r].todo))
        /\ req'[r] # Idle => req'[r].about = req[r].about
    BY <1>3, <2>3, Does DEF Do
  <2>5. Left(r)' = {f, e}
    BY <1>5, <2>3, <2>4
  <2>6. req'[r].about = req[r].about
    BY <2>4, <2>5, NoProgram DEF Left, Idle
  <2>7. Passes(f)' /\ Passes(e)'
    <3>1. c \in DOMAIN conversation' /\ Found(c)'
      BY <1>7 DEF Lasting, Grows
    <3>2. QED
      BY <2>1, <3>1 DEF Passes, SendLabels
  <2>8. Tells(e, m)'
    <3>1. e[1] = "store" /\ e[2] = v /\ e[4] = m
      BY <2>1
    <3>2. QED
      BY <1>12, <3>1 DEF Tells
  <2>9. message'[m].conv \in req'[r].about
    BY <1>7, <1>12, <2>6 DEF OnItsWay
  <2>10. QED
    BY <2>5, <2>7, <2>8, <2>9 DEF OnItsWay
<1>15. QED
  BY <1>13, <1>14

\* The notification is stored.
LEMMA StoredReaches ==
  ASSUME TypesInv, Lasting, NEW r \in Requests, Create(r), UNCHANGED chatVars,
         NEW m \in DOMAIN message, OnItsWay(r, m)
  PROVE  Reached(m)'
<1>1. PICK h : h = req[r].todo[1]
  OBVIOUS
<1>2. h[1] = "store" /\ req[r].todo # <<>> /\ ChatOK /\ NoticesOK
  BY <1>1 DEF Create, At, TypesInv
<1>3. StepOK(h)
  BY <1>1, <1>2, HeadOK DEF TypesInv, ReqsOK
<1>4. Left(r) = {h}
  BY <1>1, <1>2, LastStep DEF Final
<1>5. PICK u, type, about : u = h[2] /\ type = h[3] /\ about = h[4]
  OBVIOUS
<1>6. about = m /\ u = OtherOf(message[m].conv, message[m].sender)
  BY <1>2, <1>4, <1>5 DEF OnItsWay, Tells
<1>7. u \in Users /\ type \in SignalTypes /\ about \in 0..Len(message)
  <2>1. message[m].conv \in DOMAIN conversation
    BY <1>2, SameOther DEF Lasting
  <2>2. u \in Users
    BY <1>2, <1>6, <2>1, OtherIsUser
  <2>3. QED
    BY <1>2, <1>3, <1>5, <2>2 DEF StepOK
<1>8. notification' = Append(notification, Notification(u, type, about))
  <2>1. u # NoUser
    BY <1>7, RealtimeAssumption
  <2>2. Arg(r, 1) = u /\ Arg(r, 2) = type /\ Arg(r, 3) = about
    BY <1>1, <1>5 DEF Arg
  <2>3. QED
    BY <2>1, <2>2 DEF Create
<1>9. PICK n : n = Len(notification')
  OBVIOUS
<1>10. n \in DOMAIN notification' /\ notification'[n] = Notification(u, type, about)
  <2>1. message \in Seq(MessageRow(DOMAIN conversation)) /\ message' = message
    BY <1>2 DEF ChatOK, chatVars
  <2>2. QED
    BY <1>2, <1>7, <1>8, <1>9, <2>1, NoticeAdded
<1>11. notification'[n].user = u /\ notification'[n].about = m
  BY <1>6, <1>10 DEF Notification
<1>12. OtherOf(message[m].conv, message[m].sender)' = u
  BY <1>2, <1>6, SameOther DEF Lasting
<1>13. QED
  BY <1>10, <1>11, <1>12 DEF Reached

-----------------------------------------------------------------------------
(* Every step *)

LEMMA AddsKeeping ==
  ASSUME NEW label PROVE Adds(label) \cap (Deletes \cup {"insert"}) = {}
<1>1. CASE label = "insert"
  BY <1>1, AddsOf DEF PreviewLabels, Deletes
<1>2. CASE label = "emitNew"
  BY <1>2, AddsOf DEF Deletes
<1>3. CASE label = "findExisting"
  BY <1>3, AddsOf DEF PreviewLabels, Deletes
<1>4. CASE label \in {"list", "createConversation", "nowRead", "ifLast", "setLast"}
  BY <1>4, AddsOf DEF PreviewLabels, Deletes
<1>5. CASE label = "join"
  BY <1>5, AddsOf DEF Deletes
<1>6. CASE label \in AboutNotification \cup {"store"}
  BY <1>6, AddsOf DEF NoticeSteps, AboutNotification, Deletes
<1>7. CASE label \notin {"insert", "emitNew", "findExisting", "list", "createConversation", "nowRead",
                         "ifLast", "setLast", "join"} \cup AboutNotification \cup {"store"}
  BY <1>7 DEF Adds
<1>8. QED
  BY <1>1, <1>2, <1>3, <1>4, <1>5, <1>6, <1>7

\* While the step is calm and nothing is taken back, the other requests go on as they did.
LEMMA OthersReach ==
  ASSUME TypesInv, ReachInv, Calm, Lasting, NEW r \in Requests, Elsewhere(r), Keeping(r)',
         \A m \in DOMAIN message : OnItsWay(r, m) => Reached(m)' \/ OnItsWay(r, m)',
         \A m \in DOMAIN message' \ DOMAIN message : OnItsWay(r, m)'
  PROVE  ReachInv'
<1>1. ASSUME NEW q \in Requests, q # r
      PROVE  /\ Left(q)' = Left(q) /\ req'[q] = req[q]
             /\ Keeping(q)' /\ \A m \in DOMAIN message : OnItsWay(q, m) => OnItsWay(q, m)'
  <2>1. Left(q)' = Left(q) /\ req'[q] = req[q]
    BY <1>1 DEF Elsewhere, Left
  <2>2. ReqOK(q) /\ Keeping(q) /\ ChatOK
    BY DEF TypesInv, ReqsOK, ReachInv
  <2>3. ASSUME NEW m \in DOMAIN message, OnItsWay(q, m) PROVE OnItsWay(q, m)'
    <3>1. Left(q)' \subseteq Left(q) /\ \A x \in Left(q) : Tells(x, m) => x \in Left(q)'
      BY <2>1
    <3>2. QED
      BY <2>1, <2>2, <2>3, <3>1, OnItsWayStill
  <2>4. QED
    BY <2>1, <2>2, <2>3, KeepingStill
<1>2. ASSUME NEW m \in DOMAIN message' PROVE Reached(m)' \/ \E q \in Requests : OnItsWay(q, m)'
  <2>1. CASE m \notin DOMAIN message
    BY <2>1
  <2>2. CASE m \in DOMAIN message /\ Reached(m)
    BY <2>2, ReachedStill DEF TypesInv
  <2>3. CASE m \in DOMAIN message /\ \E q \in Requests : OnItsWay(q, m)
    BY <1>1, <2>3
  <2>4. QED
    BY <2>1, <2>2, <2>3 DEF ReachInv
<1>3. \A q \in Requests : Keeping(q)'
  BY <1>1
<1>4. QED
  BY <1>2, <1>3 DEF ReachInv

LEMMA ProgressReaches ==
  ASSUME TypesInv, ReachInv, Calm, NEW r \in Requests, Progress(r), Grows
  PROVE  ReachInv'
<1>1. PICK h : h = req[r].todo[1]
  OBVIOUS
<1>2. Keeping(r) /\ Proper
  BY DEF ReachInv, TypesInv, ReqsOK
<1>3. Lasting /\ (h[1] = "insert" \/ DOMAIN message' = DOMAIN message)
  BY <1>1, <1>2, ProgressLasts
<1>4. PICK labels : labels = Adds(h[1])
  OBVIOUS
<1>5. Moved(r, labels) /\ labels \cap (Deletes \cup {"insert"}) = {}
  BY <1>1, <1>4, StepsAdded, AddsKeeping
<1>6. h[1] = "access" => req'[r] = Idle \/ Found(h[2])'
  <2>1. ASSUME h[1] = "access" PROVE req'[r] = Idle \/ Found(h[2])'
    <3>1. VerifyAccess(r)
      BY <1>1, <2>1, StepAtHand
    <3>2. Throw(r) \/ Found(h[2])
      BY <1>1, <3>1 DEF VerifyAccess, Require, MayEnter, Arg
    <3>3. conversation' = conversation
      BY <3>1 DEF VerifyAccess, chatVars
    <3>4. QED
      BY <1>2, <3>2, <3>3, Throws DEF Thrown, Found
  <2>2. QED
    BY <2>1
<1>7. Keeping(r)'
  BY <1>1, <1>2, <1>3, <1>5, <1>6, KeepingOn
<1>8. \A m \in DOMAIN message' \ DOMAIN message : OnItsWay(r, m)'
  <2>1. CASE h[1] = "insert"
    BY <1>1, <1>2, <1>3, <2>1, StepAtHand, InsertedOnWay
  <2>2. CASE h[1] # "insert"
    BY <1>3, <2>2
  <2>3. QED
    BY <2>1, <2>2
<1>9. ASSUME NEW m \in DOMAIN message, OnItsWay(r, m) PROVE Reached(m)' \/ OnItsWay(r, m)'
  <2>1. CASE h[1] = "emitNew"
    BY <1>1, <1>3, <1>9, <2>1, StepAtHand, EmittedOn
  <2>2. CASE h[1] = "store"
    BY <1>1, <1>3, <1>9, <2>2, StepAtHand, StoredReaches
  <2>3. CASE h[1] \notin {"emitNew", "store"}
    BY <1>1, <1>3, <1>9, <2>3, PassedOn
  <2>4. QED
    BY <2>1, <2>2, <2>3
<1>10. Elsewhere(r)
  BY <1>5 DEF Moved
<1>11. QED
  BY <1>3, <1>7, <1>8, <1>9, <1>10, OthersReach

\* A request that starts has its checks before it.
LEMMA BegunReaches ==
  ASSUME TypesInv, ReachInv, Calm, NEW r \in Requests, Begun(r),
         UNCHANGED <<conversation, message, notification, heard>>
  PROVE  ReachInv'
<1>1. PICK op, about, program :
        /\ Program(program) /\ Start(r, op, about, program) /\ BeginsWith(op, about, Steps(program))
        /\ op \in mix.ops \/ op = "timeout"
  BY DEF Begun
<1>2. PICK steps : steps = Steps(program)
  OBVIOUS
<1>3. /\ Elsewhere(r) /\ Left(r) = {} /\ Left(r)' = steps /\ req'[r].about = about
  <2>1. Proper /\ Program(program) /\ Start(r, op, about, program)
    BY <1>1 DEF TypesInv, ReqsOK
  <2>2. /\ Elsewhere(r) /\ Left(r) = {} /\ Left(r)' = Steps(program)
        /\ req'[r] = [op |-> op, about |-> about, todo |-> program, got |-> <<>>]
    BY <2>1, Starts
  <2>3. QED
    BY <1>2, <2>2
<1>4. Lasting
  BY SameGrows DEF Lasting, Found, AsBefore
<1>5. BeginsWith(op, about, steps) /\ op \notin {"deleteConversation", "deleteMessages"}
  BY <1>1, <1>2 DEF Calm
<1>6. ASSUME NEW x \in steps PROVE x[1] \notin Deletes
  BY <1>5, <1>6 DEF BeginsWith, CalmLabels, PlainLabels, PreviewLabels, Deletes
<1>7. ASSUME NEW x \in steps, x[1] = "insert"
      PROVE  x[3] \in about /\ \E y \in steps : y[1] = "access" /\ y[2] = x[3]
  BY <1>5, <1>7 DEF BeginsWith, CalmLabels, PlainLabels, PreviewLabels
<1>8. Keeping(r)'
  <2>1. \A x \in Left(r)' : x[1] = "insert" => MaySend(r, x)'
    BY <1>3, <1>7 DEF MaySend
  <2>2. QED
    BY <1>3, <1>6, <2>1 DEF Keeping
<1>9. \A m : ~OnItsWay(r, m)
  BY <1>3 DEF OnItsWay
<1>10. QED
  BY <1>3, <1>4, <1>8, <1>9, OthersReach

\* The worker takes a job.
LEMMA TakeReaches ==
  ASSUME TypesInv, ReachInv, Calm, NEW r \in Requests, Take(r), UNCHANGED <<chatVars, gatewayVars>>
  PROVE  ReachInv'
<1>1. PICK n \in DOMAIN notification :
        /\ notification' = [notification EXCEPT ![n].job = "active", ![n].tries = @ + 1]
        /\ Wake(r, "process", {}, <<<<"push", n>>, <<"telegram", n>>, <<"complete", n>>>>)
  BY DEF Take
<1>2. PICK a, b, c : a = <<"push", n>> /\ b = <<"telegram", n>> /\ c = <<"complete", n>>
  OBVIOUS
<1>3. PICK program : program = <<a, b, c>>
  OBVIOUS
<1>4. /\ Program(program) /\ Steps(program) = {a, b, c} /\ Start(r, "process", {}, program)
  BY <1>1, <1>2, <1>3, ProgramOf3 DEF Wake
<1>5. Elsewhere(r) /\ Left(r)' = {a, b, c} /\ Left(r) = {}
  BY <1>4, Starts DEF TypesInv, ReqsOK
<1>6. UNCHANGED <<conversation, message, heard>> /\ NoticesOK
  BY DEF chatVars, gatewayVars, TypesInv
<1>7. Lasting
  <2>1. OnlyRow(n)
    BY <1>1, <1>6, JobTaken
  <2>2. \A i \in DOMAIN notification : AsBefore(i)
    BY <2>1 DEF OnlyRow, AsBefore
  <2>3. Grows
    BY <1>6, <2>1 DEF Grows, OnlyRow
  <2>4. QED
    BY <1>6, <2>2, <2>3, NoticesLasting
<1>8. Keeping(r)'
  BY <1>2, <1>5 DEF Keeping, Deletes
<1>9. \A m : ~OnItsWay(r, m)
  BY <1>5 DEF OnItsWay
<1>10. QED
  BY <1>5, <1>6, <1>7, <1>8, <1>9, OthersReach

LEMMA ReachStep == ASSUME TypesInv, ReachInv, Next, Grows PROVE ReachInv'
<1>1. PICK r \in Requests : Arrive(r) \/ Progress(r) \/ Serve(r) \/ Fail(r)
  BY DEF Next
<1>2. Proper /\ mix \in Mixes /\ faults \in 0..mix.faults /\ mix.faults \in Nat
  BY HandlersAssumption DEF TypesInv, ReqsOK, CallsOK
<1>3. CASE ~Calm'
  BY <1>3 DEF ReachInv
<1>4. ASSUME Calm, Arrive(r) PROVE ReachInv'
  <2>1. UNCHANGED <<conversation, message, notification, heard>>
    BY <1>4 DEF Arrive, BeginSignals, BeginNotifications, BeginDevices, BeginConversations, BeginMessages,
                noticeVars, chatVars, gatewayVars
  <2>2. QED
    BY <1>4, <2>1, StepsBegun, BegunReaches
<1>5. ASSUME Calm, Serve(r) PROVE ReachInv'
  <2>1. CASE Fire(r) /\ UNCHANGED <<noticeVars, chatVars, gatewayVars>>
    BY <1>5, <2>1, StepsBegun, BegunReaches DEF noticeVars, chatVars, gatewayVars
  <2>2. CASE Take(r) /\ UNCHANGED <<presenceVars, chatVars, gatewayVars>>
    BY <1>5, <2>2, TakeReaches
  <2>3. QED
    BY <1>5, <2>1, <2>2 DEF Serve
<1>6. CASE Fail(r)
  <2>1. faults' = faults + 1
    BY <1>2, <1>6, Faults DEF Fail, FailAttempt
  <2>2. faults' # 0
    BY <1>2, <2>1
  <2>3. QED
    BY <1>3, <2>2 DEF Calm
<1>7. CASE ~Fail(r) /\ Calm'
  <2>1. UNCHANGED <<mix, faults>>
    <3>1. CASE Arrive(r) \/ Fire(r)
      BY <1>2, <3>1, StepsBegun, Starts DEF Begun
    <3>2. CASE Take(r)
      BY <3>2 DEF Take, Wake, Start
    <3>3. CASE Progress(r)
      BY <3>3, StepsAdded DEF Moved
    <3>4. QED
      BY <1>1, <1>7, <3>1, <3>2, <3>3 DEF Serve
  <2>2. Calm
    BY <1>7, <2>1 DEF Calm
  <2>3. QED
    BY <1>1, <1>4, <1>5, <1>7, <2>2, ProgressReaches
<1>8. QED
  BY <1>3, <1>6, <1>7

LEMMA ReachStutter == ASSUME TypesInv, ReachInv, UNCHANGED vars PROVE ReachInv'
<1>1. UNCHANGED <<req, mix, faults, conversation, message, notification, heard>>
  BY DEF vars, noticeVars, chatVars, gatewayVars
<1>2. \A r \in Requests : Left(r)' = Left(r)
  BY <1>1 DEF Left
<1>3. /\ \A c : Found(c)' = Found(c)
      /\ \A m : OtherOf(message[m].conv, message[m].sender)' = OtherOf(message[m].conv, message[m].sender)
  BY <1>1 DEF Found, OtherOf, Participants
<1>4. ASSUME NEW r \in Requests, Keeping(r) PROVE Keeping(r)'
  BY <1>1, <1>2, <1>3, <1>4 DEF Keeping, MaySend
<1>5. \A y : Passes(y) => Passes(y)'
  BY <1>1, <1>3 DEF Passes
<1>6. \A x, m : Tells(x, m) => Tells(x, m)'
  BY <1>1, <1>3 DEF Tells
<1>7. ASSUME NEW r \in Requests, NEW m, OnItsWay(r, m) PROVE OnItsWay(r, m)'
  BY <1>1, <1>2, <1>5, <1>6, <1>7 DEF OnItsWay
<1>8. \A m : Reached(m) => Reached(m)'
  BY <1>1, <1>3 DEF Reached
<1>9. QED
  BY <1>1, <1>4, <1>7, <1>8 DEF ReachInv, Calm

LEMMA ReachInit == ASSUME Init PROVE ReachInv
<1>1. ChatOK
  BY TypesInit DEF TypesInv
<1>2. \A r \in Requests : Keeping(r)
  BY NoneYet DEF Init, Keeping
<1>3. ASSUME NEW m \in DOMAIN message PROVE Reached(m)
  <2>1. message[m].conv \in DOMAIN conversation
    BY <1>1, ChatRows DEF MessageRow
  <2>2. OtherOf(message[m].conv, message[m].sender) \in Users
    BY <1>1, <2>1, OtherIsUser
  <2>3. heard = (DOMAIN message) \X Users
    BY DEF Init, GatewayInit
  <2>4. QED
    BY <2>2, <2>3 DEF Reached
<1>4. QED
  BY <1>2, <1>3 DEF ReachInv

LEMMA ReachHolds == ReachInv => MessageReaches
<1> SUFFICES ASSUME ReachInv, Calm, NEW m \in DOMAIN message, Quiet(message[m].conv)
             PROVE  Reached(m)
  BY DEF MessageReaches, Calm, Reached
<1>1. \A r \in Requests : ~OnItsWay(r, m)
  BY DEF Quiet, OnItsWay
<1>2. QED
  BY <1>1 DEF ReachInv

\* A message that was stored reaches the other participant, in the room or by a notification, of
\* however many users and sockets that come and go meanwhile: its handler cannot stop between the
\* insert and the last step that tells somebody, unless something fails or is deleted.
THEOREM EveryMessageReaches == Spec => []MessageReaches
<1>1. Init => ReachInv
  BY ReachInit
<1>2. TypesInv /\ ReachInv /\ [Next]_vars => ReachInv'
  BY TypesStep, ReachStep, ReachStutter
<1>3. QED
  BY <1>1, <1>2, ReachHolds, TypesAlways, PTL DEF Spec
=============================================================================
