-------------------------------- MODULE Chat --------------------------------
(***************************************************************************)
(* Conversations of two users, about a listing or about nothing, and their *)
(* messages.  An instant is the number of the last message before it, and   *)
(* the answers that show a conversation are kept as what was shown last.    *)
(***************************************************************************)
EXTENDS Handlers, SequencesExt

CONSTANTS
  Speakers,     \* who talks
  Topics,       \* the listings
  TopicOwner,   \* and whose they are
  NoTopic       \* no listing

VARIABLES
  conversation,   \* the table conversations, in the order of the inserts
  message,        \* the table messages, in the order of the inserts, which is that of sent_at
  shown           \* the preview of a conversation that a participant was shown last, <<c, u>>

chatVars == <<conversation, message, shown>>

Conversation(u, v, topic) ==
  [pair |-> <<u, v>>, topic |-> topic, last |-> 0, deleted |-> FALSE, gone |-> FALSE]
Message(c, u) == [conv |-> c, sender |-> u, edited |-> FALSE, read |-> FALSE, gone |-> FALSE]

-----------------------------------------------------------------------------
(* Queries *)

Participants(c) == {conversation[c].pair[1], conversation[c].pair[2]}
OtherOf(c, u) == CHOOSE v \in Participants(c) : v # u

\* A find without withDeleted does not see what was softly deleted.
Found(c) == ~conversation[c].gone /\ ~conversation[c].deleted

\* Mutants of MayEnter: whoever knows the conversation enters, or it may be deleted softly.
AnyoneMayEnter(c, u) == Found(c)
MayEnterDeleted(c, u) == ~conversation[c].gone /\ u \in Participants(c)

MayEnter(c, u) == Found(c) /\ u \in Participants(c)

Sent(c) == {m \in DOMAIN message : message[m].conv = c}
Messages(c) == {m \in Sent(c) : ~message[m].gone}

\* Messages are found by a join with their conversation, which leaves out what was softly deleted.
Listed(c) == {m \in Messages(c) : Found(c)}

\* ORDER BY sent_at DESC: the last message, if there is one.
LastMessage(c) == {m \in Listed(c) : \A n \in Listed(c) : n <= m}
LastIsRead(c) == {message[m].read : m \in LastMessage(c)}
FromOther(c, u) == {m \in Messages(c) : ~message[m].read /\ message[m].sender # u}
UnreadBy(c, u) == FromOther(c, u) \cap Listed(c)
Owned(c, u) == {m \in Listed(c) : message[m].sender = u}

Shown(m) == [id |-> m, read |-> message[m].read, edited |-> message[m].edited]
Preview(last, unread) == [last |-> last, unread |-> Cardinality(unread)]
PreviewOf(c, u) == Preview({Shown(m) : m \in LastMessage(c)}, UnreadBy(c, u))

Existing(u, v, topic) ==
  {c \in DOMAIN conversation : /\ Found(c) /\ conversation[c].topic = topic
                               /\ conversation[c].pair \in {<<u, v>>, <<v, u>>}}

ChatInit ==
  /\ conversation = mix.tables.conversations
  /\ message = mix.tables.messages
  /\ shown = [cu \in {cu \in (DOMAIN conversation) \X Speakers : cu[2] \in Participants(cu[1])} |->
                PreviewOf(cu[1], cu[2])]

-----------------------------------------------------------------------------
(* Programs *)

Access(c, u) == <<<<"access", c, u>>>>
Show(c, u) == <<<<"readLast", c>>, <<"show", c, u>>>>
GetPreview(c, u) == <<<<"found", c>>>> \o Show(c, u)

GetOrCreate(u, v, topic) == <<<<"mayTalk", u, v, topic>>, <<"findExisting", u, v, topic>>>>
Delete(c, u, permanent) == Access(c, u) \o <<<<"delete", c, permanent>>>>
Restore(c, u) == Access(c, u) \o <<<<"stillThere", c>>, <<"restore", c>>>>

BeginConversations(r) ==
  /\ \E u \in Speakers :
       \/ LET mine == {c \in DOMAIN conversation : u \in Participants(c)} IN
          Begin(r, "findConversations", mine, <<<<"list", u>>>>)
       \/ \E v \in Speakers, topic \in Topics \cup {NoTopic} :
            Begin(r, "getOrCreate", {topic}, GetOrCreate(u, v, topic))
       \/ \E c \in DOMAIN conversation :
            \/ Begin(r, "findConversation", {c}, Access(c, u) \o GetPreview(c, u))
            \/ \E permanent \in BOOLEAN : Begin(r, "deleteConversation", {c}, Delete(c, u, permanent))
            \/ Begin(r, "restore", {c}, Restore(c, u))
  /\ UNCHANGED chatVars

-----------------------------------------------------------------------------
(* Steps of the conversations *)

VerifyAccess(r) == At(r, "access") /\ Require(r, MayEnter(Arg(r, 1), Arg(r, 2))) /\ UNCHANGED chatVars
FindConversation(r) == At(r, "found") /\ Require(r, Found(Arg(r, 1))) /\ UNCHANGED chatVars

GetLastMessage(r) ==
  /\ At(r, "readLast") /\ Read(r, "last", {Shown(m) : m \in LastMessage(Arg(r, 1))})
  /\ UNCHANGED chatVars

\* The messages that a participant has not read are counted, and the preview is shown.
ShowPreview(r) ==
  /\ At(r, "show")
  /\ LET c == Arg(r, 1)
         u == Arg(r, 2)
     IN shown' = With(shown, <<c, u>>, Preview(Got(r, "last"), UnreadBy(c, u)))
  /\ Continue(r)
  /\ UNCHANGED <<conversation, message>>

\* The rows are shown one after the other.
ShowAll(rows, u) == [i \in 1..2 * Len(rows) |-> Show(rows[(i + 1) \div 2], u)[2 - (i % 2)]]

FindConversations(r) ==
  /\ At(r, "list")
  /\ LET u == Arg(r, 1) IN
     Do(r, ShowAll(SetToSeq({c \in DOMAIN conversation : MayEnter(c, u)}), u))
  /\ UNCHANGED chatVars

\* Not with oneself, and about a listing only with its owner or as its owner.
MayTalk(r) ==
  /\ At(r, "mayTalk")
  /\ LET u == Arg(r, 1)
         v == Arg(r, 2)
         topic == Arg(r, 3)
     IN Require(r, u # v /\ (topic = NoTopic \/ TopicOwner[topic] \in {u, v}))
  /\ UNCHANGED chatVars

FindExisting(r) ==
  /\ At(r, "findExisting")
  /\ LET u == Arg(r, 1)
         old == Existing(u, Arg(r, 2), Arg(r, 3))
     IN IF old = {} THEN Do(r, <<<<"createConversation", u, Arg(r, 2), Arg(r, 3)>>>>)
        ELSE \E c \in old : Do(r, GetPreview(c, u))
  /\ UNCHANGED chatVars

CreateConversation(r) ==
  /\ At(r, "createConversation")
  /\ conversation' = Append(conversation, Conversation(Arg(r, 1), Arg(r, 2), Arg(r, 3)))
  /\ Do(r, GetPreview(Len(conversation'), Arg(r, 1)))
  /\ UNCHANGED <<message, shown>>

\* A transaction deletes the conversation and its messages; otherwise both stay in the tables.
DeleteConversation(r) ==
  /\ At(r, "delete")
  /\ LET c == Arg(r, 1) IN
     IF Arg(r, 2)
       THEN /\ conversation' = [conversation EXCEPT ![c].gone = TRUE]
            /\ message' = [m \in DOMAIN message |->
                             IF m \in Sent(c) THEN [message[m] EXCEPT !.gone = TRUE] ELSE message[m]]
       ELSE conversation' = [conversation EXCEPT ![c].deleted = TRUE] /\ UNCHANGED message
  /\ Continue(r)
  /\ UNCHANGED shown

StillThere(r) == At(r, "stillThere") /\ Require(r, ~conversation[Arg(r, 1)].gone) /\ UNCHANGED chatVars

RestoreConversation(r) ==
  /\ At(r, "restore")
  /\ conversation' = [conversation EXCEPT ![Arg(r, 1)].deleted = FALSE]
  /\ Continue(r)
  /\ UNCHANGED <<message, shown>>
=============================================================================
