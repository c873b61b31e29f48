------------------------------ MODULE Realtime ------------------------------
(***************************************************************************)
(* The gateway with its chat, who is online, and the notifications.         *)
(***************************************************************************)
EXTENDS Gateway

\* The rows of the tables.
ConversationRow ==
  [pair: Speakers \X Speakers, topic: Topics \cup {NoTopic}, last: Nat, deleted: BOOLEAN, gone: BOOLEAN]
MessageRow(conversations) ==
  [conv: conversations, sender: Speakers, edited: BOOLEAN, read: BOOLEAN, gone: BOOLEAN]
DeviceRow == [user: Users, device: Devices, token: Tokens, gone: BOOLEAN]

\* The tables a behaviour starts with are such as the code fills: a conversation is of two users,
\* a message of one of them, and nothing is there twice.
Consistent(t) ==
  /\ t.connected \subseteq Sockets /\ t.rooms \subseteq t.connected \X DOMAIN t.conversations
  /\ t.conversations \in Seq(ConversationRow)
  /\ t.messages \in Seq(MessageRow(DOMAIN t.conversations))
  /\ t.devices \in Seq(DeviceRow)
  /\ \A c \in DOMAIN t.conversations : t.conversations[c].pair[1] # t.conversations[c].pair[2]
  /\ \A m \in DOMAIN t.messages :
       LET pair == t.conversations[t.messages[m].conv].pair IN
       t.messages[m].sender \in {pair[1], pair[2]}
  /\ \A c, d \in DOMAIN t.conversations :
       LET a == t.conversations[c]
           b == t.conversations[d]
       IN c # d /\ a.topic = b.topic => {a.pair[1], a.pair[2]} # {b.pair[1], b.pair[2]}
  /\ \A i, j \in DOMAIN t.devices :
       i # j /\ t.devices[i].user = t.devices[j].user => t.devices[i].device # t.devices[j].device

\* Who talks is a user, a socket is of a user, and the signals are those that the code emits.
ASSUME RealtimeAssumption ==
  /\ Speakers \subseteq Users /\ SocketUser \in [Sockets -> Users] /\ NoUser \notin Users
  /\ Signals \subseteq BookingTypes \cup {"REVIEW_NEW"}
  /\ \A m \in Mixes : Consistent(m.tables)

vars == <<req, mix, calls, faults, contended, presenceVars, noticeVars, chatVars, gatewayVars>>

Init == HandlersInit /\ PresenceInit /\ NotificationsInit /\ ChatInit /\ GatewayInit

\* The rooms of a socket are left when it is closed.
LeaveRooms == rooms' = {sc \in rooms : sc[1] \in connected'} /\ UNCHANGED heard

Progress(r) ==
  \/ PresenceSteps(r) /\ LeaveRooms /\ UNCHANGED <<noticeVars, chatVars>>
  \/ NotificationsSteps(r) /\ UNCHANGED <<presenceVars, chatVars, gatewayVars>>
  \/ (ChatSteps(r) \/ MessageSteps(r)) /\ UNCHANGED <<presenceVars, noticeVars>>

\* What the process starts by itself.
Serve(r) ==
  \/ Fire(r) /\ UNCHANGED <<noticeVars, chatVars, gatewayVars>>
  \/ Take(r) /\ UNCHANGED <<presenceVars, chatVars, gatewayVars>>

Arrive(r) ==
  \/ BeginConnections(r) /\ UNCHANGED <<noticeVars, chatVars, gatewayVars>>
  \/ /\ BeginSignals(r) \/ BeginNotifications(r) \/ BeginDevices(r)
     /\ UNCHANGED <<presenceVars, chatVars, gatewayVars>>
  \/ BeginConversations(r) /\ UNCHANGED <<presenceVars, noticeVars, gatewayVars>>
  \/ BeginMessages(r) /\ UNCHANGED <<presenceVars, noticeVars>>

\* A job that fails is tried again; another handler that fails is over.
Fail(r) ==
  \/ FailAttempt(r) /\ UNCHANGED <<presenceVars, chatVars, gatewayVars>>
  \/ /\ req[r].op \notin {"process", "connect", "disconnect", "timeout"} /\ Fault(r)
     /\ UNCHANGED <<presenceVars, noticeVars, chatVars, gatewayVars>>

Next == \E r \in Requests : Arrive(r) \/ Progress(r) \/ Serve(r) \/ Fail(r)

Spec == Init /\ [][Next]_vars

\* The event loop runs every handler on, the timers fire and the worker takes what waits.
FairSpec == Spec /\ WF_vars(\E r \in Requests : Progress(r) \/ Serve(r))

-----------------------------------------------------------------------------
(* Properties *)

TypeOK ==
  /\ calls \in 0..mix.calls /\ faults \in 0..mix.faults
  /\ connected \subseteq Sockets /\ rooms \subseteq connected \X DOMAIN conversation
  /\ timers \in [Users -> {"none", "set", "fired"}] /\ orphans \in [Users -> Nat]
  /\ online \in [Users -> BOOLEAN] /\ told \in [Users -> BOOLEAN]
  /\ conversation \in Seq(ConversationRow)
  /\ message \in Seq(MessageRow(DOMAIN conversation))
  /\ \A n \in DOMAIN notification :
       /\ notification[n].user \in Users /\ notification[n].about \in 0..Len(message)
       /\ notification[n].job \in {"none", "waiting", "active", "done", "failed"}
  /\ device \in Seq(DeviceRow)

\* Every variable has its type, and every message is of a participant of its conversation.
RealtimeInv == TypeOK /\ SentByParticipants

\* A job is being worked on while its handler runs, and one that is over is not begun again.
JobsEnd ==
  \A n \in DOMAIN notification : notification[n].job \in {"none", "done", "failed"}

\* Every handler ends, every notification that was queued is dealt with or kept as failed, and
\* everyone is shown to be online or not as they are, when nobody comes or goes any more.
RealtimeSettles ==
  <>[](InFlight = {} /\ JobsEnd /\ \A u \in Users : timers[u] # "set" /\ ShownAsIs(u))

\* The participant of a conversation that was deleted softly is not refused when they ask to
\* restore it, as the answer of the controller's restoreConversation says.
Restores ==
  [][\A r \in Requests :
       /\ At(r, "access") /\ req[r].op = "restore"
       /\ MayEnterDeleted(Arg(r, 1), Arg(r, 2))
       => req'[r] # Idle \/ req'[r] = req[r]]_vars
=============================================================================
