--------------------------- MODULE Notifications ---------------------------
(***************************************************************************)
(* A signal is stored as a notification, sent at once to a user who is      *)
(* online, and left to a queue, whose worker pushes it to the devices and   *)
(* sends it to Telegram, and tries a job that fails again from its start.   *)
(***************************************************************************)
EXTENDS Presence, FiniteSets

CONSTANTS
  Devices, Tokens,   \* the devices of the users, and the tokens Firebase gives them
  Linked,            \* the users whose account is linked to a Telegram chat
  Signals,           \* the types of the signals that arrive, but for new messages
  NoUser             \* the user of a signal that names none

VARIABLES
  notification,   \* the table, its deliveries and its job, in the order of the inserts
  device          \* the table user_devices, in the order of the inserts

noticeVars == <<notification, device>>

NotificationsInit == notification = <<>> /\ device = mix.tables.devices

Attempts == 3
Channels == {"WEBSOCKET", "FCM", "TG_BOT"}
None == [ch \in Channels |-> 0]

\* recorded: the rows of notification_deliveries; sent: what was sent, by channel.
Notification(u, type, about) ==
  [user |-> u, type |-> type, about |-> about, read |-> FALSE, job |-> "none", tries |-> 0,
   recorded |-> None, sent |-> None]

Recipient(n) == notification[n].user
TokensOf(u) == {device[i].token : i \in {i \in DOMAIN device : device[i].user = u /\ ~device[i].gone}}

-----------------------------------------------------------------------------
(* What the text of a notification is built from *)

BookingTypes == {"BOOKING_NEW", "BOOKING_CONFIRMED", "BOOKING_CANCELLED", "BOOKING_REJECTED",
  "BOOKING_REMINDER", "BOOKING_EXPIRING", "BOOKING_COMPLETED", "BOOKING_PERIOD_UPDATED"}
ListingTypes == {"LISTING_APPROVED", "LISTING_REJECTED", "LISTING_EXPIRING", "LISTING_EXPIRED"}

MessageText == {"senderName", "text", "listingTitle"}
ReviewText == {"fromUserName", "listingTitle", "rating"}
LoginText == {"deviceInfo", "time"}

BookingText(type) ==
  {"listingTitle"} \cup
  CASE type = "BOOKING_NEW" ->
         {"price", "startDate", "endDate", "renterName", "renterRating", "renterVerified"}
    [] type = "BOOKING_CONFIRMED" -> {"startDate", "price"}
    [] type \in {"BOOKING_CANCELLED", "BOOKING_REJECTED"} -> {"startDate"}
    [] type = "BOOKING_REMINDER" -> {"startDate", "endDate"}
    [] type \in {"BOOKING_EXPIRING", "BOOKING_COMPLETED"} -> {"endDate"}
    [] type = "BOOKING_PERIOD_UPDATED" -> {"startDate", "endDate", "prevPeriod"}

ListingText(type) == {"listingTitle"} \cup (IF type = "LISTING_REJECTED" THEN {"reason"} ELSE {})

SubscriptionText(type) ==
  {"planName"} \cup
  (IF type \in {"SUBSCRIPTION_RENEWED", "SUBSCRIPTION_EXPIRING"} THEN {"endDate"} ELSE {})

\* The fields of the payload that the builder puts into the text.
Build(type) ==
  CASE type = "MESSAGE_NEW"    -> MessageText
    [] type = "REVIEW_NEW"     -> ReviewText
    [] type = "LOGIN_NEW"      -> LoginText
    [] type \in BookingTypes   -> BookingText(type)
    [] type \in ListingTypes   -> ListingText(type)
    [] OTHER                   -> SubscriptionText(type)

\* The message to Telegram about a new booking has a text of its own, and buttons for the booking.
BuildTelegram(type) ==
  IF type = "BOOKING_NEW" THEN BookingText(type) \cup {"bookingId"} ELSE Build(type)

BookingPayload(type) ==
  {"bookingId", "listingId", "listingTitle", "startDate", "endDate", "price"} \cup
  CASE type = "BOOKING_NEW"            -> {"renterName", "renterRating", "renterVerified"}
    [] type = "BOOKING_PERIOD_UPDATED" -> {"renterName", "renterRating", "prevPeriod"}
    [] OTHER                           -> {}

\* Mutant of MessagePayload: the sender is named by the id alone.
MessagePayloadOfIds == {"messageId", "conversationId", "senderId", "text", "listingId", "listingTitle"}

MessagePayload ==
  {"messageId", "conversationId", "senderId", "senderName", "text", "listingId", "listingTitle"}

\* The payloads, as those who emit the signals make them.
Payload(type) ==
  CASE type = "MESSAGE_NEW"  -> MessagePayload
    [] type = "REVIEW_NEW"   -> ReviewText \cup {"reviewId", "bookingId", "listingId"}
    [] type \in BookingTypes -> BookingPayload(type)

-----------------------------------------------------------------------------
(* Programs *)

Signal(u, type, about) == <<<<"store", u, type, about>>>>

UpsertDevice(u, d, token) == <<<<"findDevice", u, d, token>>, <<"saveDevice", u, d, token>>>>

\* A signal about a review names its user by another name.
BeginSignals(r) ==
  /\ \E u \in Users, type \in Signals :
       Begin(r, "signal", {}, Signal(IF type = "REVIEW_NEW" THEN NoUser ELSE u, type, 0))
  /\ UNCHANGED noticeVars

MarkAsRead(ids, u) == <<<<"markAsRead", ids, u>>>>

BeginNotifications(r) ==
  /\ \E u \in Users, ids \in SUBSET DOMAIN notification :
       Begin(r, "readNotifications", {}, MarkAsRead(ids, u))
  /\ UNCHANGED noticeVars

BeginDevices(r) ==
  /\ \E u \in Users, token \in Tokens :
       \/ \E d \in Devices : Begin(r, "updateDevice", {d}, UpsertDevice(u, d, token))
       \/ Begin(r, "deleteDevice", {}, <<<<"deleteDevice", {u}, {token}>>>>)
  /\ UNCHANGED noticeVars

\* The worker takes one job at a time.
Take(r) ==
  /\ \A n \in DOMAIN notification : notification[n].job # "active"
  /\ \E n \in DOMAIN notification :
       /\ notification[n].job = "waiting"
       /\ notification' = [notification EXCEPT ![n].job = "active", ![n].tries = @ + 1]
       /\ Wake(r, "process", {}, <<<<"push", n>>, <<"telegram", n>>, <<"complete", n>>>>)
  /\ UNCHANGED device

-----------------------------------------------------------------------------
(* Steps of the listener *)

\* notifications.user_id is NOT NULL; the listener logs an error of any of its steps.
Create(r) ==
  /\ At(r, "store")
  /\ IF Arg(r, 1) = NoUser
       THEN Throw(r) /\ UNCHANGED notification
       ELSE /\ notification' = Append(notification, Notification(Arg(r, 1), Arg(r, 2), Arg(r, 3)))
            /\ Do(r, <<<<"ifOnline", Len(notification')>>, <<"enqueue", Len(notification')>>>>)
  /\ UNCHANGED device

IsOnline(r) ==
  /\ At(r, "ifOnline")
  /\ LET n == Arg(r, 1) IN
     IF Online(Recipient(n))
       THEN Do(r, <<<<"record", n, "WEBSOCKET">>, <<"send", n, "WEBSOCKET">>>>)
       ELSE Continue(r)
  /\ UNCHANGED noticeVars

\* The delivery is recorded, as a success, before anything is sent.
CreateDelivery(r) ==
  /\ At(r, "record")
  /\ notification' = [notification EXCEPT ![Arg(r, 1)].recorded[Arg(r, 2)] = @ + 1]
  /\ Continue(r)
  /\ UNCHANGED device

Emitted(r) == notification' = [notification EXCEPT ![Arg(r, 1)].sent[Arg(r, 2)] = @ + 1]

\* The socket, or the bot, whose errors are logged.
Send(r) == At(r, "send") /\ Emitted(r) /\ Continue(r) /\ UNCHANGED device

Enqueue(r) ==
  /\ At(r, "enqueue")
  /\ notification' = [notification EXCEPT ![Arg(r, 1)].job = "waiting"]
  /\ Continue(r)
  /\ UNCHANGED device

-----------------------------------------------------------------------------
(* Steps of the worker *)

\* Mutant of HandlePushNotification: what is sent is recorded after it was sent.
PushThenRecord(r) ==
  /\ At(r, "push")
  /\ LET n == Arg(r, 1)
         tokens == TokensOf(Recipient(n))
     IN Do(r, IF tokens = {} THEN <<>>
              ELSE <<<<"multicast", n, "FCM", tokens>>, <<"record", n, "FCM">>>>)
  /\ UNCHANGED noticeVars

HandlePushNotification(r) ==
  /\ At(r, "push")
  /\ LET n == Arg(r, 1)
         tokens == TokensOf(Recipient(n))
     IN Do(r, IF tokens = {} THEN <<>>
              ELSE <<<<"record", n, "FCM">>, <<"multicast", n, "FCM", tokens>>>>)
  /\ UNCHANGED noticeVars

\* Firebase says which tokens are not registered, if it answers: they are deleted.
SendPush(r) ==
  /\ At(r, "multicast") /\ Emitted(r)
  /\ \E invalid \in SUBSET Arg(r, 3) :
       Do(r, IF invalid = {} THEN <<>> ELSE <<<<"deleteDevice", Users, invalid>>>>)
  /\ UNCHANGED device

HandleTelegramNotification(r) ==
  /\ At(r, "telegram")
  /\ LET n == Arg(r, 1) IN
     Do(r, IF Recipient(n) \notin Linked THEN <<>>
           ELSE <<<<"record", n, "TG_BOT">>, <<"send", n, "TG_BOT">>>>)
  /\ UNCHANGED noticeVars

Complete(r) ==
  /\ At(r, "complete")
  /\ notification' = [notification EXCEPT ![Arg(r, 1)].job = "done"]
  /\ Continue(r)
  /\ UNCHANGED device

\* What FCM and the bot throw is caught; another error fails the attempt, and the job waits for
\* the next one or is kept as failed.
JobOf(r) == req[r].todo[Len(req[r].todo)][2]
Caught(r) == At(r, "send") \/ At(r, "multicast") \/ At(r, "deleteDevice") \/ At(r, "complete")

FailAttempt(r) ==
  /\ req[r].op = "process" /\ ~Caught(r) /\ Fault(r)
  /\ notification' = [notification EXCEPT ![JobOf(r)].job =
                        IF notification[JobOf(r)].tries < Attempts THEN "waiting" ELSE "failed"]
  /\ UNCHANGED device

-----------------------------------------------------------------------------
(* Steps of the other requests *)

\* No ids, all of them; the rows of others are left as they are.
ReadNotifications(r) ==
  /\ At(r, "markAsRead")
  /\ notification' = [n \in DOMAIN notification |->
       IF notification[n].user = Arg(r, 2) /\ (Arg(r, 1) = {} \/ n \in Arg(r, 1))
         THEN [notification[n] EXCEPT !.read = TRUE] ELSE notification[n]]
  /\ Continue(r)
  /\ UNCHANGED device

RowsOf(u, d) == {i \in DOMAIN device : device[i].user = u /\ device[i].device = d /\ ~device[i].gone}

FindDevice(r) ==
  /\ At(r, "findDevice")
  /\ LET found == RowsOf(Arg(r, 1), Arg(r, 2)) IN
     IF found = {} THEN Read(r, "row", 0) ELSE \E i \in found : Read(r, "row", i)
  /\ UNCHANGED noticeVars

\* save inserts a device that is new.  A row that has gone since it was found would be inserted again, but
\* it was found without its user, and user_id is NOT NULL.
SaveDevice(r) ==
  /\ At(r, "saveDevice")
  /\ LET i == Got(r, "row") IN
     \/ /\ i = 0 /\ Continue(r)
        /\ device' = Append(device, [user |-> Arg(r, 1), device |-> Arg(r, 2),
                                     token |-> Arg(r, 3), gone |-> FALSE])
     \/ /\ i # 0 /\ ~device[i].gone /\ Continue(r)
        /\ device' = [device EXCEPT ![i].token = Arg(r, 3)]
     \/ i # 0 /\ device[i].gone /\ Throw(r) /\ UNCHANGED device
  /\ UNCHANGED notification

\* A user deletes a token of theirs, and the worker tokens of whoever has them.
DeleteTokens(r) ==
  /\ At(r, "deleteDevice")
  /\ device' = [i \in DOMAIN device |->
       IF device[i].user \in Arg(r, 1) /\ device[i].token \in Arg(r, 2)
         THEN [device[i] EXCEPT !.gone = TRUE] ELSE device[i]]
  /\ Continue(r)
  /\ UNCHANGED notification

NotificationsSteps(r) ==
  \/ Create(r) \/ IsOnline(r) \/ CreateDelivery(r) \/ Send(r) \/ Enqueue(r)
  \/ HandlePushNotification(r) \/ SendPush(r) \/ HandleTelegramNotification(r) \/ Complete(r)
  \/ ReadNotifications(r) \/ FindDevice(r) \/ SaveDevice(r) \/ DeleteTokens(r)

-----------------------------------------------------------------------------
(* Properties *)

\* Whatever fails and is tried again, nothing is sent that was not recorded, nothing is recorded
\* more often than the job was tried, and a job is tried three times at most.
DeliveriesRecorded ==
  \A n \in DOMAIN notification :
    LET row == notification[n] IN
    /\ \A ch \in Channels : row.sent[ch] <= row.recorded[ch]
    /\ row.recorded["WEBSOCKET"] <= 1
    /\ \A ch \in {"FCM", "TG_BOT"} : row.recorded[ch] <= row.tries
    /\ row.tries <= Attempts

\* The text that is sent, on any channel, is built from fields that the signal brought: the casts
\* of the payload between them check nothing.
NothingMissing ==
  \A n \in DOMAIN notification :
    LET type == notification[n].type IN
    /\ (\E ch \in {"WEBSOCKET", "FCM"} : notification[n].sent[ch] > 0) =>
         Build(type) \subseteq Payload(type)
    /\ notification[n].sent["TG_BOT"] > 0 => BuildTelegram(type) \subseteq Payload(type)

\* A device that no two requests registered at once has one row for each of its users.
OneRowPerDevice ==
  \A u \in Users, d \in Devices : d \notin contended => Cardinality(RowsOf(u, d)) <= 1
=============================================================================
