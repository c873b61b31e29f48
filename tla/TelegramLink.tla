---------------------------- MODULE TelegramLink ----------------------------
(***************************************************************************)
(* Linking a Telegram account: a signed-in user gets a token, the bot's     *)
(* /start brings it back from a Telegram account, and the account is taken *)
(* from the user who had it.  No constraint keeps users.telegram_id unique.  *)
(***************************************************************************)
EXTENDS Users

CONSTANT Telegrams   \* Telegram accounts

VARIABLE linkTokens  \* the table telegram_auth_tokens, in the order of the inserts

TelegramInit == linkTokens = mix.tables.linkTokens

-----------------------------------------------------------------------------
(* Programs.  Messages to the chat are left out: sendMessage never throws. *)

\* generateTelegramLink; a token is 32 random bytes, so isTokenActive is FALSE.
GenerateTelegramLink(u) == <<<<"exists", u>>, <<"insertToken", u>>>>

Unlink(u)  == Update(u, [tg |-> NoTg])
Link(u, t) == Update(u, [tg |-> t])

\* handle: the user linked now is looked for by telegramId; k is 0 if there is no token.
HandleStart(t, k) == <<<<"findByTelegramId", t, k>>>>

BeginTelegram(r) ==
  /\ \/ \E u \in Registered :
          \/ Begin(r, "link", {u}, GenerateTelegramLink(u))
          \/ Begin(r, "unlink", {u}, Unlink(u))
     \/ \E t \in Telegrams, k \in 0..Len(linkTokens) : Begin(r, "start", {t}, HandleStart(t, k))
  /\ UNCHANGED <<cache, user, roles, linkTokens>>

-----------------------------------------------------------------------------
(* Steps *)

InsertToken(r) ==
  /\ At(r, "insertToken")
  /\ linkTokens' = Append(linkTokens, [user |-> Arg(r, 1), used |-> FALSE])
  /\ Continue(r)
  /\ UNCHANGED <<cache, user, roles>>

\* findByTelegramId, which takes any of several; without a token the bot only answers.
FindByTelegramId(r) ==
  /\ At(r, "findByTelegramId")
  /\ LET t == Arg(r, 1)
         k == Arg(r, 2)
         linked == {u \in Registered : user[u].tg = t}
     IN \E old \in IF linked = {} THEN {NoRow} ELSE linked :
          IF k = 0 THEN Continue(r)
          ELSE DoAbout(r, linked, <<<<"findToken", t, k, old>>>>)
  /\ UNCHANGED <<cache, user, roles, linkTokens>>

\* verifyToken: the read; the token is unknown to it when it was used or has expired.
FindToken(r) ==
  /\ At(r, "findToken")
  /\ LET t == Arg(r, 1)
         k == Arg(r, 2)
     IN IF linkTokens[k].used THEN Throw(r)
        ELSE DoAbout(r, {linkTokens[k].user}, <<<<"useToken", t, k, Arg(r, 3)>>>>)
  /\ UNCHANGED <<cache, user, roles, linkTokens>>

\* What follows a token that was verified.
Relink(u, t, old) ==
  IF old = u THEN <<>> ELSE (IF old = NoRow THEN <<>> ELSE Unlink(old)) \o Link(u, t)

\* Mutant of UseToken: the token is not marked.
UseTokenAgain(r) ==
  /\ At(r, "useToken")
  /\ Do(r, Relink(linkTokens[Arg(r, 2)].user, Arg(r, 1), Arg(r, 3)))
  /\ UNCHANGED <<cache, user, roles, linkTokens>>

\* verifyToken: the save.
UseToken(r) ==
  /\ At(r, "useToken")
  /\ LET t == Arg(r, 1)
         k == Arg(r, 2)
     IN /\ linkTokens' = [linkTokens EXCEPT ![k].used = TRUE]
        /\ Do(r, Relink(linkTokens[k].user, t, Arg(r, 3)))
  /\ UNCHANGED <<cache, user, roles>>

TelegramSteps(r) == InsertToken(r) \/ FindByTelegramId(r) \/ FindToken(r) \/ UseToken(r)

-----------------------------------------------------------------------------
(* Properties *)

\* A Telegram account is linked to one user at most, unless requests about the same users or account
\* overlapped or failed.
TelegramUnique ==
  \A u, v \in Registered :
    u # v /\ user[u].tg = user[v].tg /\ user[u].tg # NoTg
      => {u, v, user[u].tg} \cap contended # {}

\* A link costs a token: a user who has a Telegram account once asked for a token that is used now, and
\* no token is used a second time, unless requests about the user overlapped or failed.
LinksCostTokens ==
  /\ \A u \in Registered \ contended : user[u].tg # NoTg =>
       \E k \in DOMAIN linkTokens : linkTokens[k].user = u /\ linkTokens[k].used
  /\ \A r \in Requests : At(r, "useToken") =>
       LET token == linkTokens[Arg(r, 2)] IN token.used => token.user \in contended

\* Both: a Telegram account is linked to one user at most, and a link costs its user a token.
TelegramLinked == TelegramUnique /\ LinksCostTokens
=============================================================================
