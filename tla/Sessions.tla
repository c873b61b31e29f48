------------------------------ MODULE Sessions ------------------------------
(***************************************************************************)
(* AuthService: registration and login by a flash call or a password, the  *)
(* second factor, and the refresh tokens that keep a login going.           *)
(***************************************************************************)
EXTENDS TwoFactor

VARIABLES
  tokens,   \* the table refresh_tokens, in the order of the inserts
  jwts      \* the signed tokens of type "register" and "2fa" that clients hold

sessionsVars == <<req, mix, calls, faults, contended, cache, user, roles, spent, tokens, jwts>>

SessionsInit == tokens = <<>> /\ jwts = {}

\* The keys of cleaned phone numbers.
FlashKey(p) == <<"flash-call", p>>
Login(l) == <<"login", l>>
Owner(p) == {u \in Registered : user[u].phone = p}

-----------------------------------------------------------------------------
(* Programs *)

\* issueTokens; chain is the login the new refresh token continues, 0 for a new one.
IssueTokens(u, chain) == GetUserRoles(u) \o <<<<"saveToken", u, chain>>>>

\* The paid call may fail; the digits it announces are kept.
RequestFlashCall(p) == <<<<"put", FlashKey(p), "digits">>>>

VerifyFlashCall(p, digits) ==
  <<<<"peek", FlashKey(p)>>, <<"matchDigits", digits>>, <<"delete", FlashKey(p)>>,
    <<"findByPhone", p>>>>

\* Mutant of CompleteRegistration: one role only.
RegisterRenter(u, p) ==
  <<<<"createUser", u, p>>>> \o AddRole(u, "RENTER") \o IssueTokens(u, 0)
CompleteRegistration(u, p) ==
  <<<<"createUser", u, p>>>> \o AddRole(u, "RENTER") \o AddRole(u, "LANDLORD")
    \o IssueTokens(u, 0)

\* login with the right password; a wrong one has no effect.
LoginByPassword(p) == <<<<"findByPhone", p>>>>

Refresh(i) == <<<<"findRefresh", i, "refresh">>>>
Logout(i)  == <<<<"findRefresh", i, "logout">>>>

VerifyTotp(u) == ValidateTwoFactorCode(u) \o IssueTokens(u, 0)
VerifyRecovery(u, c) == ValidateRecoveryCode(u, c) \o IssueTokens(u, 0)

BeginSessions(r) ==
  /\ \/ \E p \in Phones :
          \/ Begin(r, "requestFlashCall", {p}, RequestFlashCall(p))
          \/ \E digits \in {"digits", "0000", "other"} :
               Begin(r, "verifyFlashCall", {p}, VerifyFlashCall(p, digits))
          \/ Owner(p) # {} /\ Begin(r, "login", {p}, LoginByPassword(p))
          \/ /\ <<"register", p>> \in jwts
             /\ \E u \in Users \ Registered : /\ Quiet(u)
                  /\ Begin(r, "register", {p, u}, CompleteRegistration(u, p))
     \/ \E i \in DOMAIN tokens : \E op \in {"refresh", "logout"} :
          Begin(r, op, {tokens[i].user, Login(tokens[i].login)},
                IF op = "refresh" THEN Refresh(i) ELSE Logout(i))
     \/ \E u \in Registered : <<"2fa", u>> \in jwts /\
          \/ Begin(r, "verify2fa", {u}, VerifyTotp(u))
          \/ \E c \in Codes : Begin(r, "verify2fa", {u}, VerifyRecovery(u, c))
  /\ UNCHANGED <<cache, user, roles, spent, tokens, jwts>>

-----------------------------------------------------------------------------
(* Steps *)

\* "0000" is accepted whatever is stored.
MatchDigits(r) ==
  /\ At(r, "matchDigits")
  /\ Require(r, \/ Arg(r, 1) = "0000"
                \/ "flash-call" \in DOMAIN req[r].got /\ Got(r, "flash-call") = Arg(r, 1))
  /\ UNCHANGED <<cache, user, roles, spent, tokens, jwts>>

\* verifyFlashCall and login, once the caller is known: a token for registration, tokens, or a
\* token for the second factor.
FindByPhone(r) ==
  /\ At(r, "findByPhone")
  /\ LET p == Arg(r, 1) IN
     \/ /\ Owner(p) = {}
        /\ IF req[r].op = "login" THEN Throw(r) /\ UNCHANGED jwts
           ELSE Continue(r) /\ jwts' = jwts \cup {<<"register", p>>}
     \/ \E u \in Owner(p) :
          IF user[u].twoFa THEN Continue(r) /\ jwts' = jwts \cup {<<"2fa", u>>}
          ELSE DoAbout(r, {u}, IssueTokens(u, 0)) /\ UNCHANGED jwts
  /\ UNCHANGED <<cache, user, roles, spent, tokens>>

\* usersService.create, and the constraint UNIQUE of users.phone.
CreateUser(r) ==
  /\ At(r, "createUser")
  /\ LET u == Arg(r, 1)
         p == Arg(r, 2)
     IN IF Owner(p) # {} THEN Throw(r) /\ UNCHANGED user
        ELSE Continue(r) /\ user' = [user EXCEPT ![u] = NewUser(p)]
  /\ UNCHANGED <<cache, roles, spent, tokens, jwts>>

\* Mutant of FindRefresh: a revoked token is as good as another.
FindRefreshRevoked(r) ==
  /\ At(r, "findRefresh")
  /\ LET i == Arg(r, 1)
         t == tokens[i]
     IN \/ Do(r, <<<<"revoke", i>>>> \o
                 IF Arg(r, 2) = "refresh" THEN IssueTokens(t.user, t.login) ELSE <<>>)
        \/ Throw(r)
  /\ UNCHANGED <<cache, user, roles, spent, tokens, jwts>>

\* refresh and logout: the token is found, not expired and not revoked.
FindRefresh(r) ==
  /\ At(r, "findRefresh")
  /\ LET i == Arg(r, 1)
         t == tokens[i]
     IN \/ ~t.revoked
           /\ Do(r, <<<<"revoke", i>>>> \o
                    IF Arg(r, 2) = "refresh" THEN IssueTokens(t.user, t.login) ELSE <<>>)
        \/ Throw(r)
  /\ UNCHANGED <<cache, user, roles, spent, tokens, jwts>>

Revoke(r) ==
  /\ At(r, "revoke")
  /\ tokens' = [tokens EXCEPT ![Arg(r, 1)].revoked = TRUE]
  /\ Continue(r)
  /\ UNCHANGED <<cache, user, roles, spent, jwts>>

SaveToken(r) ==
  /\ At(r, "saveToken")
  /\ LET login == IF Arg(r, 2) = 0 THEN Len(tokens) + 1 ELSE Arg(r, 2) IN
     tokens' = Append(tokens, [user |-> Arg(r, 1), login |-> login, revoked |-> FALSE])
  /\ Continue(r)
  /\ UNCHANGED <<cache, user, roles, spent, jwts>>

SessionsSteps(r) ==
  MatchDigits(r) \/ FindByPhone(r) \/ CreateUser(r) \/ FindRefresh(r) \/ Revoke(r) \/ SaveToken(r)

-----------------------------------------------------------------------------
(* Properties *)

\* One refresh token at most is valid in each chain of refreshes of one login, unless requests with
\* tokens of the chain overlapped or failed: refresh revokes the token it replaces before it saves.
OneTokenPerLogin ==
  \A i, j \in DOMAIN tokens :
    i # j /\ tokens[i].login = tokens[j].login /\ ~tokens[i].revoked /\ ~tokens[j].revoked
      => Login(tokens[i].login) \in contended

\* A login is over: it has no valid token, and no request is about to save one.
Over(l) ==
  /\ \A i \in DOMAIN tokens : tokens[i].login = l => tokens[i].revoked
  /\ \A r \in Requests : \A i \in DOMAIN req[r].todo :
       ~(req[r].todo[i][1] = "saveToken" /\ req[r].todo[i][3] = l)

\* The next step of the request revokes a token of the login.
RevokesOf(r, l) == At(r, "revoke") /\ tokens[Arg(r, 1)].login = l

\* A logout, the request that ends with a revocation, ends the login, unless requests with its tokens
\* overlapped or failed; and a login that is over, by whatever order of requests and failures, stays
\* over: no token of it, kept by whoever was given it, brings it back.
LogoutEnds ==
  [][\A l \in 1..Len(tokens) :
       /\ Over(l) => Over(l)'
       /\ \A r \in Requests : RevokesOf(r, l) /\ req'[r] = Idle => Over(l)' \/ Login(l) \in contended'
    ]_sessionsVars

\* A user whose registration is over has both roles, without which the guard lets nobody pass,
\* unless the registration failed on the way.
RegisteredIsWhole == \A u \in Registered : Settled(u) => roles[u] = BothRoles
=============================================================================
