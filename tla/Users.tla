------------------------------- MODULE Users -------------------------------
(***************************************************************************)
(* UsersService: rows of the table users, read through the cache and saved *)
(* as whole entities.  findById caches the profile and the online status    *)
(* of a user under two keys, getUserRoles the roles under a third.          *)
(***************************************************************************)
EXTENDS Redis, FiniteSets

CONSTANTS
  Users,          \* the ids of users, those of users to come included
  Phones, NoTg,   \* phone numbers; the null of telegram_id
  NoRow

VARIABLES user, roles   \* the tables users and user_roles

usersVars == <<req, mix, calls, faults, contended, cache, user, roles>>

-----------------------------------------------------------------------------
(* The table *)

\* twoFa stands for twoFaEnabled and twoFaSecret, which are set and cleared together; tg for
\* telegramId, telegramChatId and telegramUsername; a rating is <<sum, count>>.
Columns == {"phone", "banned", "verified", "online", "tg", "twoFa", "codes",
            "asLandlord", "asRenter"}

NewUser(phone) ==
  [phone |-> phone, banned |-> FALSE, verified |-> FALSE, online |-> FALSE, tg |-> NoTg,
   twoFa |-> FALSE, codes |-> {}, asLandlord |-> <<0, 0>>, asRenter |-> <<0, 0>>]

Registered == {u \in Users : user[u] # NoRow}
BothRoles == {"RENTER", "LANDLORD"}

UsersInit ==
  /\ RedisInit
  /\ user = mix.tables.users
  /\ roles = [u \in Users |-> IF user[u] = NoRow THEN {} ELSE BothRoles]

\* findById caches these two, getUserRoles the third.
Profile(u) == [c \in Columns \ {"online"} |-> user[u][c]]
ProfileKey(u) == <<"profile", u>>
StatusKey(u)  == <<"status", u>>
RolesKey(u)   == <<"roles", u>>

-----------------------------------------------------------------------------
(* The service's methods, as programs *)

FindById(u) == GetOrSet(ProfileKey(u)) \o GetOrSet(StatusKey(u))
GetUserRoles(u) == GetOrSet(RolesKey(u))

\* What another user may not have; null is not looked for.
LookedFor(patch) == {c \in DOMAIN patch \cap {"phone", "tg"} : patch[c] # NoTg}

\* update: the key is deleted before the save.
Update(u, patch) ==
  (IF LookedFor(patch) # {} THEN <<<<"unique", patch>>>> ELSE <<>>)
    \o FindById(u) \o <<<<"delete", ProfileKey(u)>>, <<"save", u, patch>>>>

UpdateOnlineStatus(u, b) == <<<<"write", u, [online |-> b]>>, <<"delete", StatusKey(u)>>>>

UpdateVerifiedStatus(u, b) ==
  <<<<"exists", u>>, <<"write", u, [verified |-> b]>>, <<"delete", ProfileKey(u)>>>>

\* Mutant of UpdateBanStatus: the key of the profile is forgotten.
UpdateBanStatusKeepingKey(u, b) == <<<<"exists", u>>, <<"write", u, [banned |-> b]>>>>

UpdateBanStatus(u, b) ==
  <<<<"exists", u>>, <<"write", u, [banned |-> b]>>, <<"delete", ProfileKey(u)>>>>

\* Mutant of AddRole: the key of the roles is forgotten.
AddRoleKeepingKey(u, role) == GetUserRoles(u) \o <<<<"insertRole", u, role>>>>

AddRole(u, role) ==
  GetUserRoles(u) \o <<<<"insertRole", u, role>>, <<"delete", RolesKey(u)>>>>

\* JwtStrategy.validate, before every handler that requires a signed-in user.
Validate(u) == FindById(u) \o <<<<"notBanned", u>>>> \o GetUserRoles(u) \o <<<<"hasRoles", u>>>>

\* The public profile: what passes the check is shown.
FindOne(u) == FindById(u) \o <<<<"notBanned", u>>>> \o <<<<"show", u>>>>

-----------------------------------------------------------------------------
(* Requests.  The programs of users.controller.ts and users-admin.controller.ts; that every
   other handler is preceded by Validate is left out there. *)

BeginUsers(r) ==
  /\ \E u \in Users :
       \/ Begin(r, "getMyProfile", {u}, Validate(u) \o FindById(u))
       \/ Begin(r, "findOne", {u}, FindOne(u))
       \/ \E p \in Phones : Begin(r, "update", {u, p}, Update(u, [phone |-> p]))
       \/ \E b \in BOOLEAN : Begin(r, "ban", {u}, UpdateBanStatus(u, b))
       \/ Begin(r, "verify", {u}, UpdateVerifiedStatus(u, TRUE))
       \/ \E b \in BOOLEAN : Begin(r, "online", {u}, UpdateOnlineStatus(u, b))
  /\ UNCHANGED <<cache, user, roles>>

-----------------------------------------------------------------------------
(* Steps *)

\* The callbacks of findById and getUserRoles; a user who is not found is not cached.
SelectProfile(r) ==
  /\ At(r, "select") /\ Arg(r, 1)[1] = "profile"
  /\ LET u == Arg(r, 1)[2] IN
     IF user[u] = NoRow THEN Throw(r) ELSE Read(r, "profile", Profile(u))
  /\ UNCHANGED <<cache, user, roles>>

SelectStatus(r) ==
  /\ At(r, "select") /\ Arg(r, 1)[1] = "status"
  /\ LET u == Arg(r, 1)[2] IN
     IF user[u] = NoRow THEN Throw(r) ELSE Read(r, "status", user[u].online)
  /\ UNCHANGED <<cache, user, roles>>

SelectRoles(r) ==
  /\ At(r, "select") /\ Arg(r, 1)[1] = "roles"
  /\ Read(r, "roles", roles[Arg(r, 1)[2]])
  /\ UNCHANGED <<cache, user, roles>>

Exists(r) ==
  /\ At(r, "exists")
  /\ Require(r, user[Arg(r, 1)] # NoRow)
  /\ UNCHANGED <<cache, user, roles>>

\* existsBy phone or telegramId, of any user, the one to be updated included.
Unique(r) ==
  /\ At(r, "unique")
  /\ LET patch == Arg(r, 1) IN
     Require(r, \A c \in LookedFor(patch), v \in Registered : user[v][c] # patch[c])
  /\ UNCHANGED <<cache, user, roles>>

\* Object.assign: the entity that findById made, with the columns of the patch.
Merged(r, patch) ==
  [c \in Columns |-> IF c \in DOMAIN patch THEN patch[c]
                     ELSE IF c = "online" THEN Got(r, "status") ELSE Got(r, "profile")[c]]

\* Mutant of SaveUser: the table has no constraint on the phone.
SaveUserAnyPhone(r) ==
  /\ At(r, "save")
  /\ user' = [user EXCEPT ![Arg(r, 1)] = Merged(r, Arg(r, 2))]
  /\ Continue(r)
  /\ UNCHANGED <<cache, roles>>

\* save writes every column that findById read; users.phone is UNIQUE.
SaveUser(r) ==
  /\ At(r, "save")
  /\ LET u == Arg(r, 1)
         entity == Merged(r, Arg(r, 2))
     IN IF \E v \in Registered \ {u} : user[v].phone = entity.phone
          THEN Throw(r) /\ UNCHANGED user
          ELSE Continue(r) /\ user' = [user EXCEPT ![u] = entity]
  /\ UNCHANGED <<cache, roles>>

\* userRepository.update: the named columns only; no row, no effect.
WriteColumns(r) ==
  /\ At(r, "write")
  /\ LET u == Arg(r, 1)
         patch == Arg(r, 2)
     IN user' = IF user[u] = NoRow THEN user
                ELSE [user EXCEPT ![u] = [c \in Columns |->
                        IF c \in DOMAIN patch THEN patch[c] ELSE @[c]]]
  /\ Continue(r)
  /\ UNCHANGED <<cache, roles>>

\* addRole: hasRole, and the constraint UNIQUE (user_id, role).
InsertRole(r) ==
  /\ At(r, "insertRole")
  /\ LET u == Arg(r, 1)
         role == Arg(r, 2)
     IN IF role \in Got(r, "roles") \cup roles[u]
          THEN Throw(r) /\ UNCHANGED roles
          ELSE Continue(r) /\ roles' = [roles EXCEPT ![u] = @ \cup {role}]
  /\ UNCHANGED <<cache, user>>

\* The checks of validate and findOne, on what was read.
NotBanned(r) ==
  /\ At(r, "notBanned") /\ Require(r, ~Got(r, "profile").banned)
  /\ UNCHANGED <<cache, user, roles>>

\* The response of findOne, of what was read.
Show(r) ==
  /\ At(r, "show") /\ Continue(r)
  /\ UNCHANGED <<cache, user, roles>>

HasRoles(r) ==
  /\ At(r, "hasRoles") /\ Require(r, Got(r, "roles") # {})
  /\ UNCHANGED <<cache, user, roles>>

UsersSteps(r) ==
  \/ RedisSteps(r) /\ UNCHANGED <<user, roles>>
  \/ SelectProfile(r) \/ SelectStatus(r) \/ SelectRoles(r) \/ Exists(r) \/ Unique(r)
  \/ SaveUser(r) \/ WriteColumns(r) \/ InsertRole(r) \/ NotBanned(r) \/ Show(r) \/ HasRoles(r)

UsersFault(r) == Fault(r) /\ UNCHANGED <<cache, user, roles>>
UsersExpire(k) == Expire(k) /\ UNCHANGED <<user, roles>>

-----------------------------------------------------------------------------
(* Properties *)

UsersKeys == {"profile", "status", "roles"} \X Users

\* findById and getUserRoles return what the tables hold once a subject has settled: every
\* write path deletes the keys of what it writes, and of nothing less.
UsersFresh ==
  \A u \in Registered : Settled(u) =>
    /\ Agrees(ProfileKey(u), Profile(u))
    /\ Agrees(StatusKey(u), user[u].online)
    /\ Agrees(RolesKey(u), roles[u])

\* The columns of a user that the step of a request means to write.
Written(r, u) == IF (At(r, "save") \/ At(r, "write")) /\ Arg(r, 1) = u THEN DOMAIN Arg(r, 2) ELSE {}

\* No step writes a column its method does not name: update saves the whole entity, with
\* whatever the cache gave it, and must not undo a ban, a code that was used or a new rating.
OnlyItsColumns ==
  [][\A u \in Registered : u \notin contended =>
       \A c \in Columns : user'[u][c] # user[u][c] => \E r \in Requests : c \in Written(r, u)]_usersVars

\* A ban that is complete keeps the user out: no handler gets past the check of the guard, nor to
\* the response of the public profile, for a user who is banned, whatever the cache held.
BannedStaysOut ==
  [][\A r \in Requests :
       At(r, "notBanned") /\ Arg(r, 1) \notin contended /\ req'[r] # req[r] /\ req'[r] # Idle
         => ~user[Arg(r, 1)].banned]_usersVars
=============================================================================
