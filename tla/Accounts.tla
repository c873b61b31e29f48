------------------------------ MODULE Accounts ------------------------------
(***************************************************************************)
(* Users with everything that writes them: sign-in, two-factor              *)
(* authentication, Telegram links and reviews, on one database and cache.    *)
(***************************************************************************)
EXTENDS Sessions, TelegramLink, Reviews

vars == <<req, mix, calls, faults, contended, cache, user, roles, spent, tokens, jwts,
          linkTokens, reviews>>

\* The rows of users.
UserRow ==
  [phone: Phones, banned: BOOLEAN, verified: BOOLEAN, online: BOOLEAN, tg: Telegrams \cup {NoTg},
   twoFa: BOOLEAN, codes: SUBSET Codes, asLandlord: Nat \X Nat, asRenter: Nat \X Nat]

\* Tables as the code leaves them: phones and Telegram accounts have one user, who used a token; codes
\* are those of users with two-factor authentication; a booking's users are there, and not rated yet.
Consistent(t) ==
  LET signed == {u \in Users : t.users[u] # NoRow} IN
  /\ t.users \in [Users -> UserRow \cup {NoRow}]
  /\ \A u, v \in signed : u # v =>
       /\ t.users[u].phone # t.users[v].phone
       /\ t.users[u].tg = t.users[v].tg => t.users[u].tg = NoTg
  /\ \A u \in signed :
       /\ t.users[u].codes # {} => t.users[u].twoFa
       /\ t.users[u].asLandlord = <<0, 0>> /\ t.users[u].asRenter = <<0, 0>>
  /\ \A b \in Bookings : b.renter \in signed /\ b.landlord \in signed
  /\ t.linkTokens \in Seq([user: signed, used: BOOLEAN])
  /\ \A u \in signed : t.users[u].tg # NoTg =>
       \E k \in DOMAIN t.linkTokens : t.linkTokens[k].user = u /\ t.linkTokens[k].used

\* No row is not a row, and the tables are such at first.
ASSUME AccountsAssumption == NoRow \notin UserRow /\ \A m \in Mixes : Consistent(m.tables)

Init ==
  HandlersInit /\ UsersInit /\ TwoFactorInit /\ SessionsInit /\ TelegramInit /\ ReviewsInit

\* A request runs on by one step.
Progress(r) ==
  \/ UsersSteps(r)     /\ UNCHANGED <<spent, tokens, jwts, linkTokens, reviews>>
  \/ TwoFactorSteps(r) /\ UNCHANGED <<tokens, jwts, linkTokens, reviews>>
  \/ SessionsSteps(r)  /\ UNCHANGED <<linkTokens, reviews>>
  \/ TelegramSteps(r)  /\ UNCHANGED <<spent, tokens, jwts, reviews>>
  \/ ReviewsSteps(r)   /\ UNCHANGED <<spent, tokens, jwts, linkTokens>>

Arrive(r) ==
  \/ BeginUsers(r)     /\ UNCHANGED <<spent, tokens, jwts, linkTokens, reviews>>
  \/ BeginTwoFactor(r) /\ UNCHANGED <<tokens, jwts, linkTokens, reviews>>
  \/ BeginSessions(r)  /\ UNCHANGED <<linkTokens, reviews>>
  \/ BeginTelegram(r)  /\ UNCHANGED <<spent, tokens, jwts, reviews>>
  \/ BeginReviews(r)   /\ UNCHANGED <<spent, tokens, jwts, linkTokens>>

Forget ==
  \E k \in DOMAIN cache : UsersExpire(k) /\ UNCHANGED <<spent, tokens, jwts, linkTokens, reviews>>

Next ==
  \/ \E r \in Requests : Arrive(r) \/ Progress(r)
  \/ \E r \in Requests : UsersFault(r) /\ UNCHANGED <<spent, tokens, jwts, linkTokens, reviews>>
  \/ Forget

Spec == Init /\ [][Next]_vars

\* The keys that copy tables, and what the tables give for each.
Copies == UsersKeys \cup UNION {UserPages(u) \cup {ListingPage(u)} : u \in Users}
Current(k) ==
  CASE k[1] = "profile" -> Profile(k[2])
    [] k[1] = "status"  -> user[k[2]].online
    [] k[1] = "roles"   -> roles[k[2]]
    [] OTHER            -> PageOf(k)

\* The event loop runs every handler on, and every key has a TTL.
FairSpec ==
  Spec /\ WF_vars(\E r \in Requests : Progress(r)) /\ WF_vars(Forget)

-----------------------------------------------------------------------------
(* Properties *)

\* Every variable has the type the schema and the services give it, ...
TypeOK ==
  /\ \A r \in Requests : req[r].op \in mix.ops \cup {"none"}
  /\ calls \in 0..mix.calls /\ faults \in 0..mix.faults
  /\ user \in [Users -> UserRow \cup {NoRow}]
  /\ roles \in [Users -> SUBSET BothRoles]
  /\ spent \in [Users -> SUBSET Codes]
  /\ tokens \in Seq([user: Users, login: Nat \ {0}, revoked: BOOLEAN])
  /\ linkTokens \in Seq([user: Users, used: BOOLEAN])
  /\ reviews \in Seq([booking: Bookings, by: Users, rating: Ratings])
  /\ jwts \subseteq ({"register"} \X Phones) \cup ({"2fa"} \X Users)

\* ... and a phone number has one user, though update looks for it long before it saves.
AccountsInv ==
  /\ TypeOK
  /\ \A u, v \in Registered : u # v => user[u].phone # user[v].phone

\* However requests raced and failed: when they are through, the caches come to hold what the tables hold.
SettlesFresh == <>[](InFlight = {} /\ (mix.lasting => \A k \in Copies : Agrees(k, Current(k))))
=============================================================================
