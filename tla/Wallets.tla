------------------------------ MODULE Wallets -------------------------------
(***************************************************************************)
(* src/src/wallets/wallets.service.ts on PostgreSQL: every operation that  *)
(* moves money is one READ COMMITTED transaction that locks a wallet row   *)
(* (SELECT ... FOR UPDATE), computes the new balance in memory, writes the *)
(* row and appends a row to the table transactions.  A step of this module *)
(* is one statement of one session; what a session wrote becomes visible   *)
(* when it commits.  findWalletByUser runs outside any transaction.        *)
(***************************************************************************)
EXTENDS Integers, FiniteSets, Functions

CONSTANTS Users,       \* the users who own wallets
          Sessions,    \* one database session for each call of the service
          Amounts,     \* the sums of the requests, in cents
          MaxBalance,  \* what DECIMAL(10,2) holds
          NoUser, NoSession, NoWallet

ASSUME AmountsAssumption == Amounts \subseteq Nat \ {0}
ASSUME MaxBalanceAssumption == MaxBalance \in Nat
ASSUME NullsAssumption ==
  NoUser \notin Users /\ NoSession \notin Sessions /\ NoWallet \notin Sessions

VARIABLES
  owner,    \* committed rows: the user_id of each wallet, NoUser if there is no such row
  balance,  \* committed rows: the balance of each wallet
  log,      \* committed rows of the table transactions
  locked,   \* the session that holds the lock of a row, or has it inserted uncommitted
  pc,       \* the statement each session is about to execute
  op,       \* what the call was asked to do
  mem       \* the Wallet entity the session has in memory

\* A call inserts at most one wallet: the key of a row is the call that inserts it.
WalletIds == Sessions

vars == <<owner, balance, log, locked, pc, op, mem>>

Credits == {"DEPOSIT", "BOOKING_PAYOUT", "REFUND"}
Debits  == {"WITHDRAWAL", "BOOKING_PAYMENT"}
Types   == Credits \cup Debits

Ops == [type: Types, user: Users, amount: Amounts]
         \cup [type: {"FIND"}, user: Users, amount: {0}]

NoOp     == [type |-> "NONE", user |-> NoUser, amount |-> 0]
NoEntity == [wallet |-> NoWallet, balance |-> 0]

Holding == {"update", "commit"}
InCall  == {"select", "insert", "find", "create"} \cup Holding
Ended   == {"committed", "rolledback", "found"}

Init ==
  /\ owner = [w \in WalletIds |-> NoUser]
  /\ balance = [w \in WalletIds |-> 0]
  /\ log = {}
  /\ locked = [w \in WalletIds |-> NoSession]
  /\ pc = [s \in Sessions |-> "idle"]
  /\ op = [s \in Sessions |-> NoOp]
  /\ mem = [s \in Sessions |-> NoEntity]

\* The committed rows a SELECT ... WHERE user_id = u sees.
RowsOf(u) == {w \in WalletIds : owner[w] = u}

\* What the call makes of the balance it read.
NewBalance(o, b) == IF o.type \in Debits THEN b - o.amount ELSE b + o.amount

\* Mutant of Accepted: a debit is not checked against the balance.
AcceptedUnchecked(o, b) == o.type \in Debits \/ b + o.amount <= MaxBalance

\* "Insufficient balance" and "Insufficient funds for booking"; a result the
\* column cannot hold is refused by the database.
Accepted(o, b) ==
  IF o.type \in Debits THEN o.amount <= b ELSE b + o.amount <= MaxBalance

-----------------------------------------------------------------------------
Goto(s, label) == pc' = [pc EXCEPT ![s] = label]

\* The locks s holds are released; what it had in memory is gone.
Release(s) == locked' = [w \in WalletIds |-> IF locked[w] = s THEN NoSession ELSE locked[w]]
Forget(s)  == op' = [op EXCEPT ![s] = NoOp] /\ mem' = [mem EXCEPT ![s] = NoEntity]

\* A call of deposit, withdraw, processBookingPayment, processBookingPayout or
\* processRefund begins a transaction; findWalletByUser needs none.
Call(s) ==
  /\ pc[s] = "idle"
  /\ \E o \in Ops : /\ op' = [op EXCEPT ![s] = o]
                    /\ Goto(s, IF o.type = "FIND" THEN "find" ELSE "select")
  /\ UNCHANGED <<owner, balance, log, locked, mem>>

\* Mutant of SelectForUpdate: a plain SELECT.
SelectNoLock(s) ==
  /\ pc[s] = "select"
  /\ \/ \E w \in RowsOf(op[s].user) :
          /\ mem' = [mem EXCEPT ![s] = [wallet |-> w, balance |-> balance[w]]]
          /\ Goto(s, "update")
     \/ /\ RowsOf(op[s].user) = {}
        /\ Goto(s, "insert")
        /\ UNCHANGED mem
  /\ UNCHANGED <<owner, balance, log, locked, op>>

\* getLockedWallet: the SELECT locks any one row of the user; it waits while
\* another session holds that row.  No row: the session goes on to insert one.
SelectForUpdate(s) ==
  /\ pc[s] = "select"
  /\ \/ \E w \in RowsOf(op[s].user) :
          /\ locked[w] = NoSession
          /\ locked' = [locked EXCEPT ![w] = s]
          /\ mem' = [mem EXCEPT ![s] = [wallet |-> w, balance |-> balance[w]]]
          /\ Goto(s, "update")
     \/ /\ RowsOf(op[s].user) = {}
        /\ Goto(s, "insert")
        /\ UNCHANGED <<locked, mem>>
  /\ UNCHANGED <<owner, balance, log, op>>

\* getLockedWallet: the new row is the session's own until it commits.
InsertWallet(s) ==
  /\ pc[s] = "insert"
  /\ locked' = [locked EXCEPT ![s] = s]
  /\ mem' = [mem EXCEPT ![s] = [wallet |-> s, balance |-> 0]]
  /\ Goto(s, "update")
  /\ UNCHANGED <<owner, balance, log, op>>

\* Nothing of the transaction remains.
Abort(s) ==
  /\ Release(s) /\ Forget(s) /\ Goto(s, "rolledback")
  /\ UNCHANGED <<owner, balance, log>>

\* manager.save(wallet), after the check of the balance that was read.
UpdateWallet(s) ==
  /\ pc[s] = "update"
  /\ \/ /\ Accepted(op[s], mem[s].balance)
        /\ mem' = [mem EXCEPT ![s].balance = NewBalance(op[s], @)]
        /\ Goto(s, "commit")
        /\ UNCHANGED <<owner, balance, log, locked, op>>
     \/ ~Accepted(op[s], mem[s].balance) /\ Abort(s)

\* manager.save(transaction) and the COMMIT: row and entry become visible at once.
Publish(s) ==
  /\ owner' = [owner EXCEPT ![mem[s].wallet] = op[s].user]
  /\ balance' = [balance EXCEPT ![mem[s].wallet] = mem[s].balance]
  /\ log' = log \cup {[call |-> s, user |-> op[s].user,
                       type |-> op[s].type, amount |-> op[s].amount]}

\* Mutant of Commit: the transaction never lets go of its lock.
CommitKeepingLock(s) ==
  /\ pc[s] = "commit"
  /\ Publish(s) /\ Forget(s) /\ Goto(s, "committed")
  /\ UNCHANGED locked

Commit(s) ==
  /\ pc[s] = "commit"
  /\ Publish(s) /\ Release(s) /\ Forget(s) /\ Goto(s, "committed")

\* A statement fails (the booking of the entry was deleted, the connection was
\* lost) or the process dies.
Rollback(s) == pc[s] \in {"select", "insert"} \cup Holding /\ Abort(s)

\* findWalletByUser: the read, then the autocommitted INSERT if nothing was found.
FindWallet(s) ==
  /\ pc[s] = "find"
  /\ Goto(s, IF RowsOf(op[s].user) = {} THEN "create" ELSE "found")
  /\ UNCHANGED <<owner, balance, log, locked, op, mem>>

CreateWallet(s) ==
  /\ pc[s] = "create"
  /\ owner' = [owner EXCEPT ![s] = op[s].user]
  /\ Goto(s, "found")
  /\ UNCHANGED <<balance, log, locked, op, mem>>

Progress(s) ==
  \/ SelectForUpdate(s) \/ InsertWallet(s) \/ UpdateWallet(s)
  \/ Commit(s) \/ FindWallet(s) \/ CreateWallet(s)

Next == \E s \in Sessions : Call(s) \/ Progress(s) \/ Rollback(s)

Spec == Init /\ [][Next]_vars

\* A session that has a statement to execute executes it; nobody has to call
\* the service and no transaction has to fail.
FairSpec == Spec /\ \A s \in Sessions : WF_vars(Progress(s))

-----------------------------------------------------------------------------
(* Properties *)

\* Every variable has the type the schema and the entities give it; a balance
\* that is committed fits DECIMAL(10,2) and is never negative.
TypeOK ==
  /\ owner \in [WalletIds -> Users \cup {NoUser}]
  /\ balance \in [WalletIds -> 0..MaxBalance]
  /\ log \subseteq [call: Sessions, user: Users, type: Types, amount: Amounts]
  /\ locked \in [WalletIds -> Sessions \cup {NoSession}]
  /\ pc \in [Sessions -> {"idle"} \cup InCall \cup Ended]
  /\ op \in [Sessions -> Ops \cup {NoOp}]
  /\ mem \in [Sessions -> [wallet: WalletIds \cup {NoWallet}, balance: 0..MaxBalance]]

\* A session that works on a row holds its lock, and nobody else works on it.
LocksHeld ==
  /\ \A s \in Sessions : pc[s] \in Holding =>
       /\ mem[s].wallet \in WalletIds
       /\ locked[mem[s].wallet] = s
  /\ \A w \in WalletIds : locked[w] # NoSession =>
       /\ pc[locked[w]] \in Holding
       /\ mem[locked[w]].wallet = w

\* The balance a session computes with is the committed one, however many other
\* calls ran since it was read: no update is lost.
SnapshotCurrent ==
  \A s \in Sessions :
    /\ pc[s] \in Holding => owner[mem[s].wallet] \in {op[s].user, NoUser}
    /\ pc[s] = "update" => mem[s].balance = balance[mem[s].wallet]
    /\ pc[s] = "commit" =>
         mem[s].balance = NewBalance(op[s], balance[mem[s].wallet])

\* A call appends its entry once, when it commits.  A row appears when the call
\* that inserts it ends; before, only that call works on it, and it holds nothing.
RowsCommitted ==
  /\ \A e \in log : pc[e.call] = "committed"
  /\ \A s \in Sessions : owner[s] # NoUser => pc[s] \in Ended
  /\ \A s \in Sessions : pc[s] \in Holding =>
       mem[s].wallet = s \/ owner[mem[s].wallet] # NoUser
  /\ \A w \in WalletIds : owner[w] = NoUser => balance[w] = 0
  /\ \A s \in Sessions : pc[s] \in {"select", "insert"} \cup Holding => op[s].type \in Types
  /\ \A s \in Sessions : pc[s] \in {"find", "create"} => op[s].type = "FIND"

\* The inductive invariant: locks, snapshots and entries belong together.
Inv == TypeOK /\ LocksHeld /\ SnapshotCurrent /\ RowsCommitted

Ledger == INSTANCE Ledger WITH Calls <- Sessions

\* The service implements the book of accounts of Ledger.tla.
LedgerSpec == Ledger!LedgerSpec

\* The wallets of a user hold together exactly what the transactions table says
\* was paid in, less what it says was taken out.
FundsMatchLog ==
  \A u \in Users :
    SumFunctionOnSet(balance, RowsOf(u))
      = SumFunctionOnSet([e \in log |-> Ledger!Signed(e)], {e \in log : e.user = u})

\* Every call of the service ends: row locks never leave a session waiting for ever.
EveryCallEnds == \A s \in Sessions : pc[s] \in InCall ~> pc[s] \in Ended

\* "If there is no wallet, create a new one" (wallets.service.ts:26): a user
\* never has two.
OneWalletPerUser == \A u \in Users : Cardinality(RowsOf(u)) <= 1
=============================================================================
