----------------------------- MODULE TwoFactor -----------------------------
(***************************************************************************)
(* TwoFactorService: the secret is proposed under a temporary key, enabled *)
(* with recovery codes, used and disabled, all through UsersService.update. *)
(***************************************************************************)
EXTENDS Users

CONSTANT Codes    \* the recovery codes a user gets

VARIABLE spent    \* history: the codes of each user that were accepted since they were made

twoFactorVars == <<req, mix, calls, faults, contended, cache, user, roles, spent>>

TwoFactorInit == spent = [u \in Users |-> {}]

TempKey(u) == <<"2fa:temp", u>>

-----------------------------------------------------------------------------
(* The service's methods, as programs *)

GenerateSecret(u) == FindById(u) \o <<<<"twoFaIs", u, FALSE>>, <<"put", TempKey(u), TRUE>>>>

EnableTwoFactor(u) ==
  FindById(u) \o <<<<"twoFaIs", u, FALSE>>, <<"peek", TempKey(u)>>, <<"verifyTemp">>>>
    \o Update(u, [twoFa |-> TRUE])
    \o <<<<"makeCodes", u>>>> \o Update(u, [codes |-> Codes])
    \o <<<<"delete", TempKey(u)>>>>

\* A TOTP code is accepted if two-factor authentication is on; a wrong code has no effect.
ValidateTwoFactorCode(u) == FindById(u) \o <<<<"twoFaIs", u, TRUE>>>>

\* validateRecoveryCode; the code is removed from the list if it is on it.
ValidateRecoveryCode(u, c) == FindById(u) \o <<<<"matchCode", u, c>>>>

\* Mutant of ClearTwoFactor: the recovery codes stay.
ClearSecretOnly(u) == Update(u, [twoFa |-> FALSE])
ClearTwoFactor(u) == Update(u, [twoFa |-> FALSE, codes |-> {}])

\* disableTwoFactor without a code, with a TOTP code, and with a recovery code, which is tried as
\* a TOTP code first.
DisableTwoFactor(u) == FindById(u) \o <<<<"twoFaIs", u, TRUE>>>> \o ClearTwoFactor(u)
DisableWithTotp(u) ==
  FindById(u) \o <<<<"twoFaIs", u, TRUE>>>> \o ValidateTwoFactorCode(u) \o ClearTwoFactor(u)
DisableWithRecovery(u, c) ==
  FindById(u) \o <<<<"twoFaIs", u, TRUE>>>> \o FindById(u) \o ValidateRecoveryCode(u, c)
    \o ClearTwoFactor(u)

BeginTwoFactor(r) ==
  /\ \E u \in Registered :
       \/ Begin(r, "generate", {u}, GenerateSecret(u))
       \/ Begin(r, "enable", {u}, EnableTwoFactor(u))
       \/ Begin(r, "disable", {u}, DisableTwoFactor(u))
       \/ Begin(r, "disable", {u}, DisableWithTotp(u))
       \/ \E c \in Codes : Begin(r, "disable", {u}, DisableWithRecovery(u, c))
  /\ UNCHANGED <<cache, user, roles, spent>>

-----------------------------------------------------------------------------
(* Steps *)

\* The checks of user.twoFaEnabled and, in validateTwoFactorCode, of the secret.
TwoFaIs(r) ==
  /\ At(r, "twoFaIs") /\ Require(r, Got(r, "profile").twoFa = Arg(r, 2))
  /\ UNCHANGED <<cache, user, roles, spent>>

\* The code is verified against the temporary secret, if that is still there.
VerifyTemp(r) ==
  /\ At(r, "verifyTemp") /\ Require(r, "2fa:temp" \in DOMAIN req[r].got)
  /\ UNCHANGED <<cache, user, roles, spent>>

\* generateAndStoreRecoveryCodes: codes never seen before.
MakeCodes(r) ==
  /\ At(r, "makeCodes")
  /\ spent' = [spent EXCEPT ![Arg(r, 1)] = {}]
  /\ Continue(r)
  /\ UNCHANGED <<cache, user, roles>>

\* The loop over the hashes; the list without the code is computed from the one that was read.
MatchCode(r) ==
  /\ At(r, "matchCode")
  /\ LET u == Arg(r, 1)
         c == Arg(r, 2)
         known == Got(r, "profile").codes
     IN IF Got(r, "profile").twoFa /\ c \in known
          THEN /\ Goes(r, Update(u, [codes |-> known \ {c}]) \o Tail(req[r].todo), req[r].got)
               /\ spent' = [spent EXCEPT ![u] = @ \cup {c}]
          ELSE Throw(r) /\ UNCHANGED spent
  /\ UNCHANGED <<cache, user, roles>>

TwoFactorSteps(r) == TwoFaIs(r) \/ VerifyTemp(r) \/ MakeCodes(r) \/ MatchCode(r)

-----------------------------------------------------------------------------
(* Properties *)

\* Once a user has settled, recovery codes are left only while two-factor authentication is on, none of
\* them was accepted before, and no proposed secret is left where one is in use.
TwoFactorCoherent ==
  \A u \in Registered : Settled(u) =>
    /\ user[u].codes # {} => user[u].twoFa
    /\ user[u].codes \cap spent[u] = {}
    /\ user[u].twoFa => TempKey(u) \notin DOMAIN cache
=============================================================================
