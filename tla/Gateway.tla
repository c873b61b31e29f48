------------------------------ MODULE Gateway ------------------------------
(***************************************************************************)
(* The messages: a socket sends, reads, edits and deletes them, and the     *)
(* gateway tells the sockets in the room of the conversation, the previews  *)
(* of both participants, and the notifications of who is not in the room.   *)
(***************************************************************************)
EXTENDS Chat, Notifications

VARIABLES
  rooms,   \* the rooms conversation:<id>, <<socket, conversation>>
  heard    \* the messages that message:new brought to a user, <<message, user>>

gatewayVars == <<rooms, heard>>

GatewayInit ==
  /\ rooms = mix.tables.rooms
  /\ heard = (DOMAIN message) \X Users

InRoom(c) == {s \in connected : <<s, c>> \in rooms}

-----------------------------------------------------------------------------
(* Programs *)

\* Both are shown the conversation again, the other one first.
Previews(c, u) == <<<<"found", c>>>> \o Show(c, OtherOf(c, u)) \o Show(c, u)

SendMessage(s, c, u) == Access(c, u) \o <<<<"insert", s, c, u>>>>
Stored(s, c, u, m) ==
  <<<<"touch", c>>, <<"findMessage", m>>>> \o Previews(c, u) \o <<<<"emitNew", s, c, u, m>>>>

ReadMessages(c, u, ids) ==
  Access(c, u) \o <<<<"wasRead", c>>, <<"unread", c, u, ids>>, <<"markRead", c, u, ids>>,
                    <<"nowRead", c, u>>>>

EditMessage(c, u, m) ==
  Access(c, u) \o <<<<"owns", c, u, {m}>>, <<"edit", m>>, <<"findMessage", m>>, <<"ifLast", c, u, m>>>>

\* Mutant of DeleteMessages: what they were is asked after they are deleted.
DeleteThenLook(c, u, ids) ==
  <<<<"owns", c, u, ids>>, <<"deleteMessages", c, ids>>, <<"unreadBefore", c, u, ids>>,
    <<"lastBefore", c, ids>>, <<"readNewLast", c>>, <<"setLast", c, u>>>>

DeleteMessages(c, u, ids) ==
  <<<<"owns", c, u, ids>>, <<"unreadBefore", c, u, ids>>, <<"lastBefore", c, ids>>,
    <<"deleteMessages", c, ids>>, <<"readNewLast", c>>, <<"setLast", c, u>>>>

BeginMessages(r) ==
  /\ \E s \in connected, c \in DOMAIN conversation :
       LET u == SocketUser[s] IN
       \/ Begin(r, "subscribe", {}, Access(c, u) \o <<<<"enter", s, c>>>>)
       \/ Begin(r, "unsubscribe", {}, <<<<"exit", s, c>>>>)
       \/ Begin(r, "send", {c}, SendMessage(s, c, u))
       \/ \E ids \in SUBSET Sent(c) : Begin(r, "read", {c}, ReadMessages(c, u, ids))
       \/ \E m \in Sent(c) : Begin(r, "edit", {c}, EditMessage(c, u, m))
       \/ \E ids \in SUBSET Sent(c) \ {{}} : Begin(r, "deleteMessages", {c}, DeleteMessages(c, u, ids))
  /\ UNCHANGED <<chatVars, gatewayVars>>

-----------------------------------------------------------------------------
(* Steps *)

\* A socket that has left in the meantime is in no room.
Enter(r) ==
  /\ At(r, "enter")
  /\ rooms' = IF Arg(r, 1) \in connected THEN rooms \cup {<<Arg(r, 1), Arg(r, 2)>>} ELSE rooms
  /\ Continue(r)
  /\ UNCHANGED <<chatVars, heard>>

Exit(r) ==
  /\ At(r, "exit")
  /\ rooms' = rooms \ {<<Arg(r, 1), Arg(r, 2)>>}
  /\ Continue(r)
  /\ UNCHANGED <<chatVars, heard>>

\* messages.conversation_id refers to a row, deleted softly or not.
InsertMessage(r) ==
  /\ At(r, "insert")
  /\ LET s == Arg(r, 1)
         c == Arg(r, 2)
         u == Arg(r, 3)
     IN IF conversation[c].gone
          THEN Throw(r) /\ UNCHANGED message
          ELSE /\ message' = Append(message, Message(c, u))
               /\ Do(r, Stored(s, c, u, Len(message')))
  /\ UNCHANGED <<conversation, shown, gatewayVars>>

\* last_message_at is now, which is after every message of the conversation.
Touch(r) ==
  /\ At(r, "touch")
  /\ conversation' = [conversation EXCEPT ![Arg(r, 1)].last = Max(Sent(Arg(r, 1)))]
  /\ Continue(r)
  /\ UNCHANGED <<message, shown, gatewayVars>>

FindMessage(r) ==
  /\ At(r, "findMessage") /\ Require(r, ~message[Arg(r, 1)].gone)
  /\ UNCHANGED <<chatVars, gatewayVars>>

\* Mutant of IsInConversation: any socket in the room will do.
AnyoneInConversation(s, c, u) == InRoom(c) # {}

\* A socket of the user is in the room of the conversation.
IsInConversation(s, c, u) == \E t \in InRoom(c) : SocketUser[t] = u

\* The room is told, but not the socket of the sender; who is not there gets a notification, if
\* the conversation is still found.
EmitMessageNew(r) ==
  /\ At(r, "emitNew")
  /\ LET s == Arg(r, 1)
         c == Arg(r, 2)
         u == Arg(r, 3)
         m == Arg(r, 4)
     IN /\ heard' = heard \cup {<<m, SocketUser[t]>> : t \in InRoom(c) \ {s}}
        /\ IF IsInConversation(s, c, OtherOf(c, u)) THEN Continue(r)
           ELSE Do(r, <<<<"found", c>>>> \o Signal(OtherOf(c, u), "MESSAGE_NEW", m))
  /\ UNCHANGED <<chatVars, rooms>>

WasRead(r) ==
  /\ At(r, "wasRead") /\ Read(r, "wasRead", LastIsRead(Arg(r, 1)))
  /\ UNCHANGED <<chatVars, gatewayVars>>

\* All that are named are messages of the other one that are unread.
CountUnread(r) ==
  /\ At(r, "unread") /\ Require(r, Arg(r, 3) \subseteq UnreadBy(Arg(r, 1), Arg(r, 2)))
  /\ UNCHANGED <<chatVars, gatewayVars>>

\* The update needs no join.
MarkMessagesAsRead(r) ==
  /\ At(r, "markRead")
  /\ LET unread == FromOther(Arg(r, 1), Arg(r, 2))
         marked == IF Arg(r, 3) = {} THEN unread ELSE unread \cap Arg(r, 3)
     IN message' = [m \in DOMAIN message |->
                      IF m \in marked THEN [message[m] EXCEPT !.read = TRUE] ELSE message[m]]
  /\ Continue(r)
  /\ UNCHANGED <<conversation, shown, gatewayVars>>

\* The previews are sent again if it was the last message that was read.
NowRead(r) ==
  /\ At(r, "nowRead")
  /\ LET c == Arg(r, 1) IN
     Do(r, IF LastIsRead(c) # Got(r, "wasRead") THEN Previews(c, Arg(r, 2)) ELSE <<>>)
  /\ UNCHANGED <<chatVars, gatewayVars>>

\* As many messages are found as were named: all of them are the user's.
VerifyMessageOwnership(r) ==
  /\ At(r, "owns") /\ Require(r, Arg(r, 3) \subseteq Owned(Arg(r, 1), Arg(r, 2)))
  /\ UNCHANGED <<chatVars, gatewayVars>>

Edit(r) ==
  /\ At(r, "edit")
  /\ message' = [message EXCEPT ![Arg(r, 1)].edited = TRUE]
  /\ Continue(r)
  /\ UNCHANGED <<conversation, shown, gatewayVars>>

IfLast(r) ==
  /\ At(r, "ifLast")
  /\ LET c == Arg(r, 1) IN
     Do(r, IF Arg(r, 3) \in LastMessage(c) THEN Previews(c, Arg(r, 2)) ELSE <<>>)
  /\ UNCHANGED <<chatVars, gatewayVars>>

\* What is about to be deleted: messages the other one has not read, and the last one.
UnreadBefore(r) ==
  /\ At(r, "unreadBefore")
  /\ LET c == Arg(r, 1) IN
     Read(r, "unread", Arg(r, 3) \cap UnreadBy(c, OtherOf(c, Arg(r, 2))) # {})
  /\ UNCHANGED <<chatVars, gatewayVars>>

LastBefore(r) ==
  /\ At(r, "lastBefore") /\ Read(r, "last", Arg(r, 2) \cap LastMessage(Arg(r, 1)) # {})
  /\ UNCHANGED <<chatVars, gatewayVars>>

DeleteRows(r) ==
  /\ At(r, "deleteMessages")
  /\ message' = [m \in DOMAIN message |->
                   IF m \in Arg(r, 2) THEN [message[m] EXCEPT !.gone = TRUE] ELSE message[m]]
  /\ Continue(r)
  /\ UNCHANGED <<conversation, shown, gatewayVars>>

ReadNewLast(r) ==
  /\ At(r, "readNewLast") /\ Read(r, "newLast", LastMessage(Arg(r, 1)))
  /\ UNCHANGED <<chatVars, gatewayVars>>

\* last_message_at is that of the message that is the last one now, or NULL.
SetLast(r) ==
  /\ At(r, "setLast")
  /\ LET c == Arg(r, 1) IN
     /\ conversation' = [conversation EXCEPT ![c].last =
                           IF Got(r, "newLast") = {} THEN 0 ELSE Max(Got(r, "newLast"))]
     /\ Do(r, IF Got(r, "unread") \/ Got(r, "last") THEN Previews(c, Arg(r, 2)) ELSE <<>>)
  /\ UNCHANGED <<message, shown, gatewayVars>>

ChatSteps(r) ==
  /\ \/ VerifyAccess(r) \/ FindConversation(r) \/ GetLastMessage(r) \/ ShowPreview(r)
     \/ FindConversations(r) \/ MayTalk(r) \/ FindExisting(r) \/ CreateConversation(r)
     \/ DeleteConversation(r) \/ StillThere(r) \/ RestoreConversation(r)
  /\ UNCHANGED gatewayVars

MessageSteps(r) ==
  \/ Enter(r) \/ Exit(r) \/ InsertMessage(r) \/ Touch(r) \/ FindMessage(r) \/ EmitMessageNew(r)
  \/ WasRead(r) \/ CountUnread(r) \/ MarkMessagesAsRead(r) \/ NowRead(r)
  \/ VerifyMessageOwnership(r) \/ Edit(r) \/ IfLast(r)
  \/ UnreadBefore(r) \/ LastBefore(r) \/ DeleteRows(r) \/ ReadNewLast(r) \/ SetLast(r)

-----------------------------------------------------------------------------
(* Properties *)

\* Nobody but a participant is heard in a conversation.
SentByParticipants == \A m \in DOMAIN message : message[m].sender \in Participants(message[m].conv)

\* The database keeps no conversation and no device from being there twice, the services do: no
\* two participants have two conversations about one thing, unless requests raced for it.
OneConversation ==
  \A c, d \in DOMAIN conversation :
    /\ c # d /\ Found(c) /\ Found(d)
    /\ conversation[c].topic = conversation[d].topic /\ Participants(c) = Participants(d)
    => {c, d, conversation[c].topic} \cap contended # {}
NoDuplicates == OneConversation /\ OneRowPerDevice

\* Once a conversation has settled, the time by which it is listed is that of its last message,
\* and the previews sent last show that message as it is, and hide nothing that is unread.
ConversationShown ==
  \A c \in DOMAIN conversation : Found(c) /\ Settled(c) =>
    /\ conversation[c].last = (IF LastMessage(c) = {} THEN 0 ELSE Max(LastMessage(c)))
    /\ \A u \in Speakers : <<c, u>> \in DOMAIN shown =>
         /\ shown[<<c, u>>].last = PreviewOf(c, u).last
         /\ shown[<<c, u>>].unread >= PreviewOf(c, u).unread

\* Whoever comes, goes, reads or edits meanwhile, a message reaches the other participant in the
\* room or as a notification; only what is deleted, or fails, may not.
MessageReaches ==
  faults = 0 /\ mix.ops \cap {"deleteConversation", "deleteMessages"} = {} =>
    \A m \in DOMAIN message :
      LET c == message[m].conv
          u == OtherOf(c, message[m].sender)
      IN Quiet(c) => \/ <<m, u>> \in heard
                     \/ \E n \in DOMAIN notification :
                          notification[n].user = u /\ notification[n].about = m
=============================================================================
