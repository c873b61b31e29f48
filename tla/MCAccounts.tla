----------------------------- MODULE MCAccounts -----------------------------
(* Accounts on small instances: a landlord, a renter and somebody who has not signed up. *)
EXTENDS Accounts, TLC

CONSTANTS u1, u2, u3, p1, p2, p3, t1, c1, c2

Signed == [u \in {u1, u2, u3} |->
             CASE u = u1 -> NewUser(p1) [] u = u2 -> NewUser(p2) [] OTHER -> NoRow]

\* u1 uses two-factor authentication and has a Telegram account; u2 has asked for a link.
Linked == [Signed EXCEPT ![u1].tg = t1, ![u1].twoFa = TRUE, ![u1].codes = {c1, c2}]
Plain == [users |-> Signed, linkTokens |-> <<>>]
Rich  == [users |-> Linked, 
          linkTokens |-> <<[user |-> u2, used |-> FALSE], [user |-> u1, used |-> TRUE]>>]

Stays == {[renter |-> u2, landlord |-> u1, completed |-> TRUE],
          [renter |-> u1, landlord |-> u2, completed |-> TRUE],
          [renter |-> u2, landlord |-> u1, completed |-> FALSE]}

Load(n, f, ops, absent, lasting, tables) ==
  [calls |-> n, faults |-> f, ops |-> ops, absent |-> absent, lasting |-> lasting, tables |-> tables]
Loads == {
  Load(3, 0, {"getMyProfile", "ban", "update"}, {u2, u3, p1, p2}, FALSE, Plain),
  Load(2, 1, {"online", "verify", "update", "findOne"}, {u2, u3, p1}, FALSE, Plain),
  Load(2, 0, {"update"}, {u3, p1, p2}, FALSE, Plain),
  Load(3, 1, {"ban", "online", "findOne"}, {u2, u3}, TRUE, Plain),
  Load(2, 0, {"update", "findOne"}, {u2, u3, p1, p2}, TRUE, Plain),
  Load(3, 1, {"generate", "enable"}, {u2, u3}, FALSE, Plain),
  Load(2, 1, {"disable", "findOne", "generate"}, {u2, u3}, FALSE, Rich),
  Load(3, 1, {"link", "start"}, {u3}, FALSE, Plain),
  Load(3, 0, {"start", "unlink", "update"}, {u3, p1, p2}, FALSE, Rich),
  Load(4, 1, {"login", "refresh", "logout"}, {u2, u3, p2}, FALSE, Plain),
  Load(4, 0, {"login", "verify2fa"}, {u2, u3, p2}, FALSE, Rich),
  Load(4, 1, {"requestFlashCall", "verifyFlashCall", "register", "refresh"}, {u1, u2, p1, p2},
       FALSE, Plain),
  Load(2, 0, {"verifyFlashCall"}, {u2, u3, p2, p3}, FALSE, Rich),
  Load(2, 1, {"review", "reviewsOfUser", "reviewsOfListing"}, {u3}, FALSE, Plain),
  Load(2, 0, {"review", "reviewsOfListing"}, {u3}, TRUE, Plain)}
=============================================================================
