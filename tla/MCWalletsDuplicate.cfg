SPECIFICATION Spec
CONSTANTS
  Users = {u1, u2}
  Sessions = {s1, s2}
  Amounts = {1}
  MaxBalance = 2
  NoUser = NoUser
  NoSession = NoSession
  NoWallet = NoWallet
INVARIANTS OneWalletPerUser
CHECK_DEADLOCK FALSE
