--------------------------- MODULE WalletsProofs ----------------------------
(* Theorems about Wallets, for any number of users, calls and amounts. *)
EXTENDS Wallets, DataInduction, TLAPS

\* Nothing is true of a state in which no call has begun, except that it is consistent.
LEMMA InitInv == Init => Inv
  BY NullsAssumption, MaxBalanceAssumption
  DEF Init, Inv, TypeOK, LocksHeld, SnapshotCurrent, RowsCommitted, WalletIds,
      NoOp, NoEntity, Holding, Types, Credits, Debits

\* Rolling a transaction back preserves the invariant, whatever it had done.
LEMMA AbortInv ==
  ASSUME Inv, NEW s \in Sessions, pc[s] \in {"select", "insert"} \cup Holding, Abort(s)
  PROVE  Inv'
<1> USE NullsAssumption, MaxBalanceAssumption
    DEF Inv, WalletIds, Holding, Abort, Release, Forget, Goto
<1>1. TypeOK'
  BY DEF TypeOK, NoOp, NoEntity, InCall, Ended
<1>2. LocksHeld'
  BY DEF TypeOK, LocksHeld
<1>3. SnapshotCurrent'
  BY DEF TypeOK, SnapshotCurrent, NoOp, NoEntity, NewBalance
<1>4. RowsCommitted'
  BY DEF TypeOK, RowsCommitted, Ended
<1>5. QED
  BY <1>1, <1>2, <1>3, <1>4

\* A balance that was accepted fits the column, and differs by the signed amount.
LEMMA AcceptedFits ==
  ASSUME NEW o \in [type: Types, user: Users, amount: Amounts],
         NEW b \in 0..MaxBalance, Accepted(o, b)
  PROVE  /\ NewBalance(o, b) \in 0..MaxBalance
         /\ NewBalance(o, b) = b + Ledger!Signed(o)
<1>1. o.amount \in Nat
  BY AmountsAssumption
<1>2. QED
  BY <1>1, MaxBalanceAssumption
  DEF Types, Accepted, NewBalance, Credits, Debits, Ledger!Signed, Ledger!Debits

\* The inductive step: locks, snapshots and entries stay consistent.
LEMMA NextInv == Inv /\ [Next]_vars => Inv'
<1> SUFFICES ASSUME Inv, [Next]_vars PROVE Inv'
  OBVIOUS
<1> USE NullsAssumption, MaxBalanceAssumption DEF WalletIds
<1>1. CASE UNCHANGED vars
  BY <1>1 DEF vars, Inv, TypeOK, LocksHeld, SnapshotCurrent, RowsCommitted
<1>2. ASSUME NEW s \in Sessions, Call(s) PROVE Inv'
  <2> USE <1>2 DEF Inv, Call, Goto, Holding
  <2>1. TypeOK'
    BY DEF TypeOK, InCall, Ended
  <2>2. LocksHeld'
    BY DEF TypeOK, LocksHeld
  <2>3. SnapshotCurrent'
    BY DEF TypeOK, SnapshotCurrent, NewBalance
  <2>4. RowsCommitted'
    BY DEF TypeOK, RowsCommitted, Ops, Ended
  <2>5. QED
    BY <2>1, <2>2, <2>3, <2>4
<1>3. ASSUME NEW s \in Sessions, SelectForUpdate(s) PROVE Inv'
  <2>0. pc[s] = "select" /\ UNCHANGED <<owner, balance, log, op>>
    BY <1>3 DEF SelectForUpdate
  <2>1. ASSUME NEW w \in RowsOf(op[s].user), locked[w] = NoSession,
               locked' = [locked EXCEPT ![w] = s], pc' = [pc EXCEPT ![s] = "update"],
               mem' = [mem EXCEPT ![s] = [wallet |-> w, balance |-> balance[w]]]
        PROVE  Inv'
    <3> USE <2>0, <2>1 DEF Inv, Holding
    <3>1. w \in Sessions /\ owner[w] = op[s].user /\ owner[w] # NoUser
      BY DEF TypeOK, RowsCommitted, RowsOf, Ops, NoOp, Types, Credits, Debits
    <3>2. TypeOK'
      <4>1. mem'[s] \in [wallet: WalletIds \cup {NoWallet}, balance: 0..MaxBalance]
        BY <3>1 DEF TypeOK
      <4>2. QED
        BY <3>1, <4>1 DEF TypeOK, InCall
    <3>3. LocksHeld'
      BY <3>1 DEF TypeOK, LocksHeld
    <3>4. SnapshotCurrent'
      BY <3>1 DEF TypeOK, SnapshotCurrent, NewBalance
    <3>5. RowsCommitted'
      BY <3>1 DEF TypeOK, RowsCommitted, Ended
    <3>6. QED
      BY <3>2, <3>3, <3>4, <3>5
  <2>2. ASSUME pc' = [pc EXCEPT ![s] = "insert"], UNCHANGED <<locked, mem>> PROVE Inv'
    <3> USE <2>0, <2>2 DEF Inv, Holding
    <3>1. TypeOK'
      BY DEF TypeOK, InCall
    <3>2. LocksHeld' /\ SnapshotCurrent'
      BY DEF TypeOK, LocksHeld, SnapshotCurrent, NewBalance
    <3>3. RowsCommitted'
      BY DEF TypeOK, RowsCommitted, Ended
    <3>4. QED
      BY <3>1, <3>2, <3>3
  <2>3. QED
    BY <1>3, <2>1, <2>2 DEF SelectForUpdate, Goto
<1>4. ASSUME NEW s \in Sessions, InsertWallet(s) PROVE Inv'
  <2> USE <1>4 DEF Inv, InsertWallet, Goto, Holding
  <2>1. TypeOK'
    BY DEF TypeOK, InCall, Ended
  <2>2. LocksHeld'
    BY DEF TypeOK, LocksHeld, RowsCommitted, Ended
  <2>3. SnapshotCurrent'
    BY DEF TypeOK, SnapshotCurrent, RowsCommitted, NewBalance, Ended
  <2>4. RowsCommitted'
    BY DEF TypeOK, RowsCommitted, Ended
  <2>5. QED
    BY <2>1, <2>2, <2>3, <2>4
<1>5. ASSUME NEW s \in Sessions, UpdateWallet(s) PROVE Inv'
  <2>1. CASE ~Accepted(op[s], mem[s].balance) /\ Abort(s)
    BY <1>5, <2>1, AbortInv DEF UpdateWallet, Holding
  <2>2. CASE Accepted(op[s], mem[s].balance)
    <3> USE DEF Inv, Holding
    <3>0. /\ pc[s] = "update" /\ pc' = [pc EXCEPT ![s] = "commit"]
          /\ mem' = [mem EXCEPT ![s].balance = NewBalance(op[s], mem[s].balance)]
          /\ UNCHANGED <<owner, balance, log, locked, op>>
      BY <1>5, <2>2 DEF UpdateWallet, Goto, TypeOK
    <3> USE <3>0, <2>2
    <3>1. /\ op[s] \in [type: Types, user: Users, amount: Amounts]
          /\ mem[s].balance \in 0..MaxBalance
      BY DEF TypeOK, RowsCommitted, Ops, NoOp, Types, Credits, Debits
    <3>2. NewBalance(op[s], mem[s].balance) \in 0..MaxBalance
      BY <3>1, AcceptedFits
    <3>3. TypeOK'
      BY <3>2 DEF TypeOK, InCall, Ended
    <3>4. LocksHeld'
      BY DEF TypeOK, LocksHeld
    <3>5. SnapshotCurrent'
      BY DEF TypeOK, SnapshotCurrent, NewBalance
    <3>6. RowsCommitted'
      BY DEF TypeOK, RowsCommitted, Ended
    <3>7. QED
      BY <3>3, <3>4, <3>5, <3>6
  <2>3. QED
    BY <1>5, <2>1, <2>2, AbortInv DEF UpdateWallet, Holding
<1>6. ASSUME NEW s \in Sessions, Commit(s) PROVE Inv'
  <2> USE <1>6 DEF Inv, Commit, Publish, Release, Forget, Goto, Holding
  <2>1. /\ op[s] \in Ops /\ op[s].type \in Types
        /\ mem[s].wallet \in Sessions /\ locked[mem[s].wallet] = s
    BY DEF TypeOK, LocksHeld, RowsCommitted, NoOp, Types, Credits, Debits
  <2>2. TypeOK'
    <3>1. op[s].user \in Users /\ op[s].amount \in Amounts
      BY <2>1 DEF Ops, Types, Credits, Debits
    <3>2. QED
      BY <2>1, <3>1 DEF TypeOK, InCall, Ended, NoOp, NoEntity
  <2>3. LocksHeld'
    BY <2>1 DEF TypeOK, LocksHeld
  <2>4. SnapshotCurrent'
    <3> SUFFICES ASSUME NEW t \in Sessions, pc'[t] \in Holding
                 PROVE  /\ mem[t].wallet # mem[s].wallet /\ t # s
                        /\ mem[t].wallet \in Sessions
      BY <2>1 DEF TypeOK, SnapshotCurrent, NewBalance
    <3> QED
      BY <2>1 DEF TypeOK, LocksHeld
  <2>5. RowsCommitted'
    BY <2>1 DEF TypeOK, RowsCommitted, Ops, Ended
  <2>6. QED
    BY <2>2, <2>3, <2>4, <2>5
<1>7. ASSUME NEW s \in Sessions, FindWallet(s) PROVE Inv'
  BY <1>7 DEF FindWallet, Goto, Holding, Inv, TypeOK, LocksHeld, SnapshotCurrent,
              RowsCommitted, NewBalance, InCall, Ended
<1>8. ASSUME NEW s \in Sessions, CreateWallet(s) PROVE Inv'
  <2> USE <1>8 DEF Inv, CreateWallet, Goto, Holding
  <2>1. TypeOK'
    BY DEF TypeOK, InCall, Ended, Ops, NoOp
  <2>2. LocksHeld'
    BY DEF TypeOK, LocksHeld
  <2>3. SnapshotCurrent'
    BY DEF TypeOK, SnapshotCurrent, RowsCommitted, LocksHeld, NewBalance, Ended
  <2>4. RowsCommitted'
    BY DEF TypeOK, RowsCommitted, LocksHeld, Ended
  <2>5. QED
    BY <2>1, <2>2, <2>3, <2>4
<1>9. ASSUME NEW s \in Sessions, Rollback(s) PROVE Inv'
  BY <1>9, AbortInv DEF Rollback
<1>10. QED
  BY <1>1, <1>2, <1>3, <1>4, <1>5, <1>6, <1>7, <1>8, <1>9 DEF Next, Progress

\* In every state of every behaviour a session that works on a wallet row holds
\* its lock and the committed balance it read: no wallet update is ever lost.
THEOREM Invariance == Spec => []Inv
<1>1. Init => Inv
  BY InitInv
<1>2. Inv /\ [Next]_vars => Inv'
  BY NextInv
<1>3. QED
  BY <1>1, <1>2, PTL DEF Spec

-----------------------------------------------------------------------------
\* A commit posts the entry of the call to one account of its user; every other
\* step opens an empty account or changes nothing the book of accounts shows.
LEMMA StepRefines ==
  Inv /\ [Next]_vars => [Ledger!LedgerNext]_(Ledger!ledgerVars)
<1> SUFFICES ASSUME Inv, [Next]_vars
             PROVE  Ledger!LedgerNext \/ UNCHANGED <<owner, balance, log>>
  BY DEF Ledger!ledgerVars
<1> USE DEF WalletIds
<1>1. CASE UNCHANGED vars
  BY <1>1 DEF vars
<1>2. ASSUME NEW s \in Sessions, Commit(s) PROVE Ledger!LedgerNext
  <2> DEFINE w == mem[s].wallet
             e == [call |-> s, user |-> op[s].user, type |-> op[s].type, amount |-> op[s].amount]
  <2> USE DEF Inv, Holding
  <2>1. /\ pc[s] = "commit" /\ w \in Sessions
        /\ op[s] \in [type: Types, user: Users, amount: Amounts]
        /\ owner[w] \in {op[s].user, NoUser}
        /\ balance[w] \in 0..MaxBalance
        /\ mem[s].balance \in 0..MaxBalance
        /\ mem[s].balance = NewBalance(op[s], balance[w])
    BY <1>2 DEF Commit, TypeOK, LocksHeld, SnapshotCurrent, RowsCommitted,
                Ops, NoOp, Types, Credits, Debits
  <2>2. e \in Ledger!Entries
    BY <2>1 DEF Ledger!Entries, Ledger!Credits, Ledger!Debits, Types, Credits, Debits
  <2>3. balance[w] + Ledger!Signed(e) = mem[s].balance
    <3>1. op[s].amount \in Nat
      BY <2>1, AmountsAssumption
    <3>2. QED
      BY <2>1, <3>1, MaxBalanceAssumption
      DEF Ledger!Signed, Ledger!Debits, NewBalance, Debits
  <2>4. \A f \in log : f.call # e.call
    BY <2>1 DEF RowsCommitted
  <2>5. Ledger!Post(w, e)
    <3> HIDE DEF w
    <3>1. /\ owner' = [owner EXCEPT ![w] = e.user]
          /\ balance' = [balance EXCEPT ![w] = balance[w] + Ledger!Signed(e)]
          /\ log' = log \cup {e}
      BY <1>2, <2>3 DEF Commit, Publish, w
    <3>2. QED
      BY <2>1, <2>3, <2>4, <3>1 DEF Ledger!Post
  <2>6. QED
    BY <2>1, <2>2, <2>5 DEF Ledger!LedgerNext
<1>3. ASSUME NEW s \in Sessions, CreateWallet(s) PROVE Ledger!LedgerNext
  <2>1. op[s].user \in Users /\ owner[s] = NoUser
    BY <1>3 DEF CreateWallet, Inv, TypeOK, RowsCommitted, Ops, NoOp, Ended, InCall, Holding
  <2>2. QED
    BY <1>3, <2>1 DEF CreateWallet, Ledger!LedgerNext, Ledger!Open
<1>4. ASSUME NEW s \in Sessions,
             \/ Call(s) \/ SelectForUpdate(s) \/ InsertWallet(s) \/ UpdateWallet(s)
             \/ FindWallet(s) \/ Rollback(s)
      PROVE  UNCHANGED <<owner, balance, log>>
  BY <1>4 DEF Call, SelectForUpdate, InsertWallet, UpdateWallet, FindWallet, Rollback, Abort
<1>5. QED
  BY <1>1, <1>2, <1>3, <1>4 DEF Next, Progress

\* The service, with its sessions, locks, rollbacks and missing rows, implements
\* the book of accounts: no entry without its change of balance, none twice, and
\* no account overdrawn.
THEOREM Refinement == Spec => LedgerSpec
<1>1. Init => Ledger!LedgerInit
  BY DEF Init, Ledger!LedgerInit
<1>2. Inv /\ [Next]_vars => [Ledger!LedgerNext]_(Ledger!ledgerVars)
  BY StepRefines
<1>3. QED
  BY <1>1, <1>2, Invariance, PTL DEF Spec, LedgerSpec, Ledger!LedgerSpec

-----------------------------------------------------------------------------
\* The rows that exist and the entries are finitely many, so that their sums are defined.
Finite == IsFiniteSet({w \in WalletIds : owner[w] # NoUser}) /\ IsFiniteSet(log)

Signs == [e \in log |-> Ledger!Signed(e)]
EntriesOf(u) == {e \in log : e.user = u}

FundsInv == Inv /\ Finite /\ FundsMatchLog

\* The signed amount of an entry is a number.
LEMMA SignedIsInt ==
  ASSUME TypeOK, NEW e \in log
  PROVE  Ledger!Signed(e) \in Int
<1>1. e.amount \in Nat
  BY AmountsAssumption DEF TypeOK
<1> QED
  BY <1>1 DEF Ledger!Signed

\* The rows and the entries of one user are finitely many.
LEMMA RowsFinite ==
  ASSUME Finite, NEW u \in Users
  PROVE  IsFiniteSet(RowsOf(u)) /\ IsFiniteSet(EntriesOf(u))
BY NullsAssumption, FS_Subset DEF Finite, RowsOf, EntriesOf

\* Nothing that the sums are taken over changes.
LEMMA SumsUnchanged ==
  ASSUME Finite, FundsMatchLog, UNCHANGED <<owner, balance, log>>
  PROVE  Finite' /\ FundsMatchLog'
BY DEF Finite, FundsMatchLog, RowsOf

\* A wallet is opened with a balance of 0.
LEMMA CreateWalletFunds ==
  ASSUME FundsInv, NEW s \in Sessions, CreateWallet(s)
  PROVE  Finite' /\ FundsMatchLog'
<1> USE DEF FundsInv, Inv
<1>1. /\ op[s].user \in Users /\ owner[s] = NoUser /\ balance[s] = 0
      /\ owner' = [owner EXCEPT ![s] = op[s].user] /\ UNCHANGED <<balance, log>>
  BY DEF CreateWallet, TypeOK, RowsCommitted, Ops, NoOp, Ended, WalletIds
<1>2. Finite'
  <2>1. {w \in WalletIds : owner'[w] # NoUser} = {w \in WalletIds : owner[w] # NoUser} \cup {s}
    BY <1>1, NullsAssumption DEF TypeOK, WalletIds
  <2> QED
    BY <1>1, <2>1, FS_AddElement DEF Finite
<1>3. ASSUME NEW u \in Users
      PROVE  SumFunctionOnSet(balance, RowsOf(u)') = SumFunctionOnSet(balance, RowsOf(u))
  <2>1. \A w \in WalletIds : balance[w] \in Int
    BY MaxBalanceAssumption DEF TypeOK
  <2>2. CASE u = op[s].user
    <3>1. RowsOf(u)' = RowsOf(u) \cup {s} /\ s \notin RowsOf(u)
      BY <1>1, <2>2, NullsAssumption DEF TypeOK, RowsOf, WalletIds
    <3>2. \A w \in RowsOf(u) \cup {s} : balance[w] \in Int
      BY <2>1 DEF RowsOf, WalletIds
    <3>3. SumFunctionOnSet(balance, RowsOf(u) \cup {s}) = SumFunctionOnSet(balance, RowsOf(u)) + balance[s]
      BY <3>1, <3>2, RowsFinite, SumAdd
    <3>4. SumFunctionOnSet(balance, RowsOf(u)) \in Int
      BY <3>2, RowsFinite, SumOfElement
    <3> QED
      BY <1>1, <3>1, <3>3, <3>4
  <2>3. CASE u # op[s].user
    <3>1. RowsOf(u)' = RowsOf(u)
      BY <1>1, <2>3, NullsAssumption DEF TypeOK, RowsOf, WalletIds
    <3> QED
      BY <3>1
  <2> QED
    BY <2>2, <2>3
<1>4. FundsMatchLog'
  BY <1>1, <1>3 DEF FundsMatchLog
<1> QED
  BY <1>2, <1>4

\* A commit adds to a wallet of the user what the entry it writes says.
LEMMA CommitFunds ==
  ASSUME FundsInv, NEW s \in Sessions, Commit(s)
  PROVE  Finite' /\ FundsMatchLog'
<1> DEFINE x == mem[s].wallet
           b == mem[s].balance
           e == [call |-> s, user |-> op[s].user, type |-> op[s].type, amount |-> op[s].amount]
<1> USE DEF FundsInv, Inv
<1>1. /\ x \in WalletIds /\ op[s].user \in Users /\ e \notin log
      /\ owner[x] \in {op[s].user, NoUser}
      /\ balance[x] \in Int /\ b \in Int /\ b = balance[x] + Ledger!Signed(e)
      /\ Ledger!Signed(e) \in Int
  <2>1. /\ pc[s] = "commit" /\ x \in WalletIds
        /\ op[s] \in [type: Types, user: Users, amount: Amounts]
        /\ owner[x] \in {op[s].user, NoUser}
        /\ balance[x] \in 0..MaxBalance /\ b \in 0..MaxBalance
        /\ b = NewBalance(op[s], balance[x])
    BY DEF Commit, TypeOK, LocksHeld, SnapshotCurrent, RowsCommitted, Holding, WalletIds,
           Ops, NoOp, Types, Credits, Debits
  <2>2. e \notin log
    BY <2>1 DEF RowsCommitted
  <2>3. op[s].amount \in Nat
    BY <2>1, AmountsAssumption
  <2> QED
    BY <2>1, <2>2, <2>3, MaxBalanceAssumption
    DEF Ledger!Signed, Ledger!Debits, NewBalance, Debits
<1>2. /\ owner' = [owner EXCEPT ![x] = op[s].user]
      /\ balance' = [balance EXCEPT ![x] = b]
      /\ log' = log \cup {e}
  BY DEF Commit, Publish
<1>3. TypeOK /\ TypeOK'
  BY NextInv DEF Next, Progress
<1> HIDE DEF x, b, e
<1>4. Finite'
  <2>1. {w \in WalletIds : owner'[w] # NoUser} = {w \in WalletIds : owner[w] # NoUser} \cup {x}
    BY <1>1, <1>2, <1>3, NullsAssumption DEF TypeOK
  <2> QED
    BY <1>2, <2>1, FS_AddElement DEF Finite
<1>5. ASSUME NEW u \in Users, u # op[s].user
      PROVE  /\ SumFunctionOnSet(balance', RowsOf(u)') = SumFunctionOnSet(balance, RowsOf(u))
             /\ SumFunctionOnSet(Signs', EntriesOf(u)') = SumFunctionOnSet(Signs, EntriesOf(u))
  <2>1. RowsOf(u)' = RowsOf(u) /\ \A w \in RowsOf(u) : balance'[w] = balance[w]
    BY <1>1, <1>2, <1>3, <1>5, NullsAssumption DEF TypeOK, RowsOf
  <2>2. EntriesOf(u)' = EntriesOf(u) /\ \A f \in EntriesOf(u) : Signs'[f] = Signs[f]
    BY <1>2, <1>5 DEF EntriesOf, Signs, e
  <2> QED
    BY <2>1, <2>2, RowsFinite, SumCongruence
<1>6. ASSUME NEW u \in Users, u = op[s].user
      PROVE  /\ SumFunctionOnSet(balance', RowsOf(u)')
                  = SumFunctionOnSet(balance, RowsOf(u)) + Ledger!Signed(e)
             /\ SumFunctionOnSet(Signs', EntriesOf(u)')
                  = SumFunctionOnSet(Signs, EntriesOf(u)) + Ledger!Signed(e)
  <2> DEFINE R == RowsOf(u)
             E == EntriesOf(u)
  <2>1. IsFiniteSet(R) /\ IsFiniteSet(E)
    BY <1>1, RowsFinite
  <2>2. RowsOf(u)' = R \cup {x}
    BY <1>1, <1>2, <1>6, <1>3, NullsAssumption DEF TypeOK, RowsOf
  <2>3. \A w \in R \cup {x} : balance[w] \in Int /\ balance'[w] \in Int
    BY <1>1, <1>3, MaxBalanceAssumption DEF TypeOK, RowsOf
  <2>4. (\A w \in R \ {x} : balance'[w] = balance[w]) /\ balance'[x] = b
    BY <1>1, <1>2, <1>6, <1>3 DEF TypeOK, RowsOf
  <2>5. EntriesOf(u)' = E \cup {e} /\ e \notin E
    BY <1>1, <1>2, <1>6 DEF EntriesOf, e
  <2>6. /\ \A f \in E : Signs'[f] = Signs[f]
        /\ \A f \in E \cup {e} : Signs'[f] \in Int
        /\ Signs'[e] = Ledger!Signed(e)
    <3>1. \A f \in log' : Ledger!Signed(f) \in Int
      BY <1>1, <1>2, <1>6, <1>3, SignedIsInt
    <3> QED
      BY <1>2, <3>1 DEF EntriesOf, Signs
  <2>7. SumFunctionOnSet(Signs', E \cup {e}) = SumFunctionOnSet(Signs, E) + Ledger!Signed(e)
    <3>1. SumFunctionOnSet(Signs', E) = SumFunctionOnSet(Signs, E)
      BY <2>1, <2>6, SumCongruence
    <3>2. SumFunctionOnSet(Signs', E \cup {e}) = SumFunctionOnSet(Signs', E) + Signs'[e]
      BY <2>1, <2>5, <2>6, SumAdd
    <3> QED
      BY <2>6, <3>1, <3>2
  <2>8. SumFunctionOnSet(balance', R \cup {x}) = SumFunctionOnSet(balance, R) + Ledger!Signed(e)
    <3>0. SumFunctionOnSet(balance, R) \in Int
      BY <2>1, <2>3, SumOfElement
    <3>1. CASE x \in R
      <4>1. R \cup {x} = R
        BY <3>1
      <4>2. SumFunctionOnSet(balance', R) = SumFunctionOnSet(balance, R) + balance'[x] - balance[x]
        <5>1. \A w \in R : balance[w] \in Int /\ balance'[w] \in Int
          BY <2>3
        <5>2. \A w \in R \ {x} : balance[w] = balance'[w]
          BY <2>4
        <5> HIDE DEF R
        <5>3. ASSUME NEW f, NEW g, \A w \in R : f[w] \in Int /\ g[w] \in Int,
                     \A w \in R \ {x} : f[w] = g[w]
              PROVE  SumFunctionOnSet(g, R) = SumFunctionOnSet(f, R) + g[x] - f[x]
          BY <2>1, <3>1, <5>3, SumChange
        <5> QED
          BY <5>1, <5>2, <5>3
      <4>3. SumFunctionOnSet(balance', R \cup {x}) = SumFunctionOnSet(balance', R)
        BY <4>1, Zenon
      <4> HIDE DEF R
      <4> QED
        BY <1>1, <2>4, <3>0, <4>2, <4>3
    <3>2. CASE x \notin R
      <4>1. balance[x] = 0
        BY <1>1, <1>6, <3>2 DEF RowsOf, RowsCommitted
      <4>2. SumFunctionOnSet(balance', R \cup {x}) = SumFunctionOnSet(balance', R) + balance'[x]
        BY <2>1, <2>3, <3>2, SumAdd
      <4>3. SumFunctionOnSet(balance', R) = SumFunctionOnSet(balance, R)
        BY <2>1, <2>4, <3>2, SumCongruence
      <4> QED
        BY <1>1, <2>4, <3>0, <4>1, <4>2, <4>3
    <3> QED
      BY <3>1, <3>2
  <2> QED
    BY <2>2, <2>5, <2>7, <2>8
<1>7. FundsMatchLog'
  <2>1. ASSUME NEW u \in Users
        PROVE  SumFunctionOnSet(balance', RowsOf(u)') = SumFunctionOnSet(Signs', EntriesOf(u)')
    <3>1. SumFunctionOnSet(balance, RowsOf(u)) = SumFunctionOnSet(Signs, EntriesOf(u))
      BY DEF FundsMatchLog, Signs, EntriesOf
    <3> QED
      BY <1>5, <1>6, <3>1
  <2> QED
    BY <2>1 DEF FundsMatchLog, Signs, EntriesOf
<1> QED
  BY <1>4, <1>7

\* In every state of every behaviour, the wallets of a user hold together what the table
\* transactions says: calls that overlap, roll back, open a wallet twice or die lose no cent.
THEOREM Balanced == Spec => []FundsMatchLog
<1>1. Init => FundsInv
  <2> SUFFICES ASSUME Init PROVE Finite /\ FundsMatchLog
    BY InitInv DEF FundsInv
  <2>1. \A u \in Users : RowsOf(u) = {} /\ {e \in log : e.user = u} = {}
    BY NullsAssumption DEF Init, RowsOf
  <2>2. {w \in WalletIds : owner[w] # NoUser} = {} /\ log = {}
    BY DEF Init
  <2> QED
    BY <2>1, <2>2, SumEmpty, FS_EmptySet DEF Finite, FundsMatchLog
<1>2. FundsInv /\ [Next]_vars => FundsInv'
  <2> SUFFICES ASSUME FundsInv, [Next]_vars PROVE Finite' /\ FundsMatchLog'
    BY NextInv DEF FundsInv
  <2>1. CASE UNCHANGED vars
    BY <2>1, SumsUnchanged DEF vars, FundsInv
  <2>2. ASSUME NEW s \in Sessions,
               \/ Call(s) \/ SelectForUpdate(s) \/ InsertWallet(s) \/ UpdateWallet(s)
               \/ FindWallet(s) \/ Rollback(s)
        PROVE  Finite' /\ FundsMatchLog'
    <3>1. UNCHANGED <<owner, balance, log>>
      BY <2>2 DEF Call, SelectForUpdate, InsertWallet, UpdateWallet, FindWallet, Rollback, Abort
    <3> QED
      BY <3>1, SumsUnchanged DEF FundsInv
  <2> QED
    BY <2>1, <2>2, CommitFunds, CreateWalletFunds DEF Next, Progress
<1>3. FundsInv => FundsMatchLog
  BY DEF FundsInv
<1> QED
  BY <1>1, <1>2, <1>3, PTL DEF Spec
=============================================================================
