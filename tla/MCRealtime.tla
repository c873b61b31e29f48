----------------------------- MODULE MCRealtime -----------------------------
(* Realtime on small instances: two users, who talk, with their sockets, and an outsider. *)
EXTENDS Realtime, TLC

CONSTANTS u1, u2, u3, s1, s2, s3, s4, l1, d1, t1, t2

UserOf == (s1 :> u1) @@ (s2 :> u2) @@ (s3 :> u1) @@ (s4 :> u3)
OwnerOf == (l1 :> u1)

Talk == [Conversation(u1, u2, l1) EXCEPT !.last = 1]
Tables(sockets, in, conversations, messages, devices) ==
  [connected |-> sockets, rooms |-> in, conversations |-> conversations, messages |-> messages,
   devices |-> devices]
Talking(sockets, in, read) ==
  Tables(sockets, in, <<Talk>>, <<[Message(1, u1) EXCEPT !.read = read]>>, <<>>)
Phone(u) == [user |-> u, device |-> d1, token |-> t1, gone |-> FALSE]
Alone(sockets) == Tables(sockets, {}, <<>>, <<>>, <<Phone(u1)>>)

Load(n, f, ops, absent, tables) ==
  [calls |-> n, faults |-> f, ops |-> ops, absent |-> absent, tables |-> tables]
Loads == {
  Load(3, 0, {"connect", "disconnect"}, {}, Alone({})),
  Load(4, 0, {"connect", "disconnect"}, {u2}, Alone({s1})),
  Load(4, 0, {"connect", "disconnect"}, {u2}, Alone({s1, s3})),
  Load(2, 1, {"send", "read"}, {}, Talking({s1, s2}, {<<s1, 1>>, <<s2, 1>>}, FALSE)),
  Load(2, 0, {"send", "unsubscribe", "subscribe"}, {}, Talking({s1, s2, s3}, {<<s1, 1>>, <<s2, 1>>}, TRUE)),
  Load(2, 0, {"send", "subscribe"}, {}, Talking({s2, s4}, {}, TRUE)),
  Load(2, 0, {"send", "disconnect"}, {}, Talking({s1, s2}, {<<s1, 1>>, <<s2, 1>>}, TRUE)),
  Load(2, 0, {"send", "edit"}, {}, Talking({s1, s2}, {<<s1, 1>>}, TRUE)),
  Load(2, 0, {"deleteMessages", "read"}, {}, Talking({s1, s2}, {}, FALSE)),
  Load(2, 0, {"deleteMessages", "edit"}, {}, Talking({s1}, {}, TRUE)),
  Load(2, 0, {"deleteConversation", "send"}, {}, Talking({s1, s2}, {}, TRUE)),
  Load(2, 0, {"deleteConversation", "restore", "findConversation"}, {}, Talking({}, {}, FALSE)),
  Load(2, 0, {"findConversations", "read"}, {}, Talking({s2}, {}, FALSE)),
  Load(2, 0, {"getOrCreate"}, {}, Alone({})),
  Load(3, 0, {"deleteConversation", "restore", "getOrCreate"}, {NoTopic}, Talking({}, {}, FALSE)),
  Load(1, 3, {"signal"}, {}, Alone({s1})),
  Load(2, 1, {"signal", "readNotifications"}, {}, Alone({s1})),
  Load(3, 0, {"updateDevice", "deleteDevice"}, {}, Alone({})),
  Load(2, 0, {"signal", "updateDevice"}, {}, Alone({}))}

\* A conversation is deleted, and its participants ask to have it back.
Restoring == {Load(2, 0, {"deleteConversation", "restore"}, {}, Talking({}, {}, TRUE))}
=============================================================================
