SPECIFICATION FairSpec
CONSTANTS
  Users = {u1, u2}
  Sessions = {s1, s2, s3}
  Amounts = {1}
  MaxBalance = 2
  NoUser = NoUser
  NoSession = NoSession
  NoWallet = NoWallet
INVARIANTS Inv FundsMatchLog
PROPERTIES LedgerSpec EveryCallEnds
CHECK_DEADLOCK FALSE
