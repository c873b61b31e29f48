------------------------------- MODULE Ledger -------------------------------
(***************************************************************************)
(* What src/src/wallets/wallets.service.ts promises, free of database      *)
(* sessions and locks: a book of accounts.  An entry of the transactions   *)
(* table and the change of balance it records happen in one step, and no   *)
(* account is ever overdrawn.  Wallets.tla implements this module.         *)
(***************************************************************************)
EXTENDS Integers

CONSTANTS Users,       \* the users who own wallets
          WalletIds,   \* the primary keys of the table wallets
          Calls,       \* the calls of WalletsService, each ends at most once
          Amounts,     \* the sums that are moved, in cents
          MaxBalance,  \* what DECIMAL(10,2) holds
          NoUser       \* the owner of a row that does not exist

VARIABLES owner, balance, log

ledgerVars == <<owner, balance, log>>

Credits == {"DEPOSIT", "BOOKING_PAYOUT", "REFUND"}
Debits  == {"WITHDRAWAL", "BOOKING_PAYMENT"}

Entries == [call: Calls, user: Users, type: Credits \cup Debits, amount: Amounts]

\* By how much an entry moves the balance of its user.
Signed(e) == IF e.type \in Debits THEN -e.amount ELSE e.amount

LedgerInit ==
  /\ owner = [w \in WalletIds |-> NoUser]
  /\ balance = [w \in WalletIds |-> 0]
  /\ log = {}

\* A wallet is opened empty.
Open(w, u) ==
  /\ owner[w] = NoUser
  /\ owner' = [owner EXCEPT ![w] = u]
  /\ UNCHANGED <<balance, log>>

\* One call posts one entry, to one account of its user.
Post(w, e) ==
  /\ owner[w] \in {e.user, NoUser}
  /\ \A f \in log : f.call # e.call
  /\ balance[w] + Signed(e) \in 0..MaxBalance
  /\ owner' = [owner EXCEPT ![w] = e.user]
  /\ balance' = [balance EXCEPT ![w] = @ + Signed(e)]
  /\ log' = log \cup {e}

LedgerNext ==
  \E w \in WalletIds : \/ \E u \in Users : Open(w, u)
                       \/ \E e \in Entries : Post(w, e)

LedgerSpec == LedgerInit /\ [][LedgerNext]_ledgerVars
=============================================================================
