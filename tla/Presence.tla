------------------------------ MODULE Presence ------------------------------
(***************************************************************************)
(* Who is online: the sockets of the users, their rooms, and the timer that *)
(* waits a while before a user whose last socket left is shown as offline.  *)
(*                                                                          *)
(* The rooms are kept by the adapter in the memory of the process, so that  *)
(* joining one and counting its sockets is done before another event is     *)
(* handled.  What is awaited from the database is not.                      *)
(***************************************************************************)
EXTENDS Handlers

CONSTANTS
  Users,
  Sockets,     \* the connections that a client may open
  SocketUser   \* whose client that is, as the token of the handshake says

VARIABLES
  connected,   \* the sockets in the rooms user:<id> of their users
  timers,      \* the user's entry in offlineTimers: none, of a timer that is set, or has fired
  orphans,     \* how many timers of the user are set but no longer in offlineTimers
  online,      \* the column users.is_online
  told         \* the last user:status:update to the room user:status:<id>

presenceVars == <<connected, timers, orphans, online, told>>

Online(u) == \E s \in connected : SocketUser[s] = u

PresenceInit ==
  /\ connected = mix.tables.connected
  /\ timers = [u \in Users |-> "none"] /\ orphans = [u \in Users |-> 0]
  /\ online = [u \in Users |-> Online(u)]
  /\ told = online

-----------------------------------------------------------------------------
(* Programs *)

ShowAs(u, isOnline) == <<<<"setOnline", u, isOnline>>, <<"tellStatus", u, isOnline>>>>

\* A socket has one event at a time: it is not closed before it was opened.
Busy(s) == \E r \in Requests : (At(r, "join") \/ At(r, "leave")) /\ Arg(r, 1) = s

BeginConnections(r) ==
  /\ \E s \in Sockets :
       /\ ~Busy(s)
       /\ \/ s \notin connected /\ Begin(r, "connect", {SocketUser[s]}, <<<<"join", s>>>>)
          \/ s \in connected /\ Begin(r, "disconnect", {SocketUser[s]}, <<<<"leave", s>>>>)
  /\ UNCHANGED presenceVars

\* A timer fires five seconds after it was set.
Fire(r) ==
  /\ \E u \in Users :
       /\ \/ timers[u] = "set" /\ timers' = [timers EXCEPT ![u] = "fired"] /\ UNCHANGED orphans
          \/ orphans[u] > 0 /\ orphans' = [orphans EXCEPT ![u] = @ - 1] /\ UNCHANGED timers
       /\ Wake(r, "timeout", {u}, ShowAs(u, FALSE))
  /\ UNCHANGED <<connected, online, told>>

-----------------------------------------------------------------------------
(* Steps *)

Opens(s) == connected' = connected \cup {s}

\* Mutant of HandleConnection: the timer goes on.
HandleConnectionOnly(r) ==
  /\ At(r, "join")
  /\ LET s == Arg(r, 1)
         u == SocketUser[s]
     IN /\ Do(r, IF Online(u) \/ timers[u] # "none" THEN <<>> ELSE ShowAs(u, TRUE))
        /\ Opens(s)
  /\ UNCHANGED <<timers, orphans, online, told>>

\* A timer that is set is cancelled, and one in the map that has fired already is not.  The user
\* is shown as online for the first socket, unless there was a timer.
HandleConnection(r) ==
  /\ At(r, "join")
  /\ LET s == Arg(r, 1)
         u == SocketUser[s]
     IN /\ Do(r, IF Online(u) \/ timers[u] # "none" THEN <<>> ELSE ShowAs(u, TRUE))
        /\ timers' = [timers EXCEPT ![u] = "none"]
        /\ Opens(s)
  /\ UNCHANGED <<orphans, online, told>>

\* The new timer takes the place of an entry whose timer may still be set.
HandleDisconnect(r) ==
  /\ At(r, "leave")
  /\ LET s == Arg(r, 1)
         u == SocketUser[s]
     IN /\ connected' = connected \ {s}
        /\ IF \E t \in connected \ {s} : SocketUser[t] = u
             THEN UNCHANGED <<timers, orphans>>
             ELSE /\ timers' = [timers EXCEPT ![u] = "set"]
                  /\ orphans' = [orphans EXCEPT ![u] = IF timers[u] = "set" THEN @ + 1 ELSE @]
  /\ Continue(r)
  /\ UNCHANGED <<online, told>>

UpdateOnlineStatus(r) ==
  /\ At(r, "setOnline")
  /\ online' = [online EXCEPT ![Arg(r, 1)] = Arg(r, 2)]
  /\ Continue(r)
  /\ UNCHANGED <<connected, timers, orphans, told>>

\* offlineTimers.delete is run in the same step as the last event, whatever the entry is by now.
NotifyUserStatusUpdate(r) ==
  /\ At(r, "tellStatus")
  /\ LET u == Arg(r, 1) IN
     /\ told' = [told EXCEPT ![u] = Arg(r, 2)]
     /\ IF req[r].op = "timeout"
          THEN /\ timers' = [timers EXCEPT ![u] = "none"]
               /\ orphans' = [orphans EXCEPT ![u] = IF timers[u] = "set" THEN @ + 1 ELSE @]
          ELSE UNCHANGED <<timers, orphans>>
  /\ Continue(r)
  /\ UNCHANGED <<connected, online>>

PresenceSteps(r) ==
  \/ HandleConnection(r) \/ HandleDisconnect(r)
  \/ UpdateOnlineStatus(r) \/ NotifyUserStatusUpdate(r)

-----------------------------------------------------------------------------
(* Properties *)

\* A user about whom no two events were handled at once is shown to be online, in the table and
\* to those who watch, just when a socket of theirs is open.
ShownAsIs(u) == u \notin contended => online[u] = Online(u) /\ told[u] = Online(u)
=============================================================================
