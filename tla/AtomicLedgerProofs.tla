------------------------- MODULE AtomicLedgerProofs -------------------------
(***************************************************************************)
(* What holds of AtomicLedger's accounts, of the reconciliation that reads *)
(* them and of the batches of the pending-reference workers, for every     *)
(* ledger, number of calls and integer width.                              *)
(*                                                                         *)
(* Two definitions recurse over a sequence: the sums of a ledger and the   *)
(* rows that are due.  Facts about them are proved by the least            *)
(* counterexample: the numbers for which the fact fails would have a least *)
(* element (WFMin), and the fact holds there.                              *)
(***************************************************************************)
EXTENDS PendingReferences, Reconciliation, MoneyProofs, WellFoundedInduction

-----------------------------------------------------------------------------
(* The sum of a ledger *)

\* The summand of row n.
Term(entries, direction, n) ==
  IF entries[n].direction = direction THEN entries[n].amount ELSE 0

\* sum holds the partial sums of the first m entries.
IsSum(sum, entries, direction, m) ==
  sum = [n \in 0 .. m |-> IF n = 0 THEN 0 ELSE sum[n-1] + Term(entries, direction, n)]

\* A non-empty set of natural numbers has a least element.
LEMMA LeastNatural ==
  ASSUME NEW T \in SUBSET Nat, T # {}
  PROVE  \E n \in T : \A k \in 0 .. n - 1 : k \notin T
<1>1. PICK n \in T : \A k \in T : ~(<<k, n>> \in OpToRel(<, Nat))
  BY WFMin, NatLessThanWellFounded, Zenon
<1>2. \A k \in T : ~(k < n)
  BY <1>1 DEF OpToRel
<1>3. QED
  BY <1>2

\* The recursive definition of the partial sums has a solution, however far they go.
LEMMA SumExists ==
  ASSUME NEW entries, NEW direction, NEW m \in Nat
  PROVE  \E sum : IsSum(sum, entries, direction, m)
<1> DEFINE T == {k \in Nat : ~\E sum : IsSum(sum, entries, direction, k)}
<1>1. SUFFICES ASSUME T # {} PROVE FALSE
  OBVIOUS
<1>2. PICK k \in T : \A i \in 0 .. k - 1 : i \notin T
  BY <1>1, LeastNatural, T \in SUBSET Nat
<1>3. CASE k = 0
  <2>1. IsSum([n \in 0 .. 0 |-> 0], entries, direction, 0)
    BY DEF IsSum
  <2>2. QED
    BY <1>2, <1>3, <2>1
<1>4. CASE k # 0
  <2>1. k \in Nat /\ k - 1 \in Nat /\ k - 1 \notin T
    BY <1>2, <1>4
  <2>2. PICK sum : IsSum(sum, entries, direction, k - 1)
    BY <2>1
  <2> DEFINE longer ==
               [n \in 0 .. k |-> IF n = 0 THEN 0 ELSE sum[n-1] + Term(entries, direction, n)]
  <2>3. \A n \in 0 .. k - 1 : longer[n] = sum[n]
    BY <2>1, <2>2 DEF IsSum
  <2>4. longer =
          [n \in 0 .. k |-> IF n = 0 THEN 0 ELSE longer[n-1] + Term(entries, direction, n)]
    BY <2>1, <2>3
  <2>5. QED
    BY <1>2, <2>4 DEF IsSum
<1>5. QED
  BY <1>3, <1>4

\* Two partial sums agree as far as both reach and the entries are the same.
LEMMA SumUnique ==
  ASSUME NEW one, NEW other, NEW direction, NEW m \in Nat, NEW k \in Nat, NEW f, NEW g,
         IsSum(f, one, direction, m), IsSum(g, other, direction, k), m <= k,
         \A n \in 1 .. m : one[n] = other[n]
  PROVE  \A n \in 0 .. m : f[n] = g[n]
<1> DEFINE T == {n \in 0 .. m : f[n] # g[n]}
<1>1. SUFFICES ASSUME T # {} PROVE FALSE
  OBVIOUS
<1>2. PICK n \in T : \A i \in 0 .. n - 1 : i \notin T
  BY <1>1, LeastNatural, T \in SUBSET Nat
<1>3. n \in 0 .. m /\ n \in 0 .. k
  BY <1>2
<1>4. /\ f[n] = IF n = 0 THEN 0 ELSE f[n-1] + Term(one, direction, n)
      /\ g[n] = IF n = 0 THEN 0 ELSE g[n-1] + Term(other, direction, n)
  BY <1>3 DEF IsSum
<1>5. n # 0 => n - 1 \in 0 .. n - 1 /\ n - 1 \in 0 .. m /\ n \in 1 .. m
  BY <1>3
<1>6. n # 0 => f[n-1] = g[n-1] /\ Term(one, direction, n) = Term(other, direction, n)
  BY <1>2, <1>5 DEF Term
<1>7. QED
  BY <1>2, <1>4, <1>6

\* What Sum computes.
LEMMA SumIs ==
  ASSUME NEW entries, NEW direction, Len(entries) \in Nat
  PROVE  \E sum : /\ IsSum(sum, entries, direction, Len(entries))
                  /\ Sum(entries, direction) = sum[Len(entries)]
<1> DEFINE sum == CHOOSE f : IsSum(f, entries, direction, Len(entries))
<1>1. IsSum(sum, entries, direction, Len(entries))
  BY SumExists
<1>2. Sum(entries, direction) = sum[Len(entries)]
  BY DEF Sum, IsSum, Term
<1>3. QED
  BY <1>1, <1>2

\* Nothing adds up to nothing.
LEMMA SumOfNone == ASSUME NEW direction PROVE Sum(<< >>, direction) = 0
<1>1. Len(<< >>) = 0
  OBVIOUS
<1>2. PICK sum : IsSum(sum, << >>, direction, 0) /\ Sum(<< >>, direction) = sum[0]
  BY <1>1, SumIs
<1>3. QED
  BY <1>2 DEF IsSum

\* One entry more adds its amount to the sum of its direction.
LEMMA SumOfAppend ==
  ASSUME NEW entries \in Seq(Entries), NEW e \in Entries, NEW direction
  PROVE  Sum(Append(entries, e), direction) =
           Sum(entries, direction) + (IF e.direction = direction THEN e.amount ELSE 0)
<1> DEFINE m == Len(entries)
           longer == Append(entries, e)
<1>1. /\ m \in Nat /\ Len(longer) = m + 1 /\ longer[m + 1] = e
      /\ \A n \in 1 .. m : entries[n] = longer[n]
  OBVIOUS
<1>2. PICK f : IsSum(f, entries, direction, m) /\ Sum(entries, direction) = f[m]
  BY <1>1, SumIs
<1> HIDE DEF longer
<1>3. PICK g : IsSum(g, longer, direction, m + 1) /\ Sum(longer, direction) = g[m + 1]
  <2>1. Len(longer) \in Nat
    BY <1>1
  <2>2. QED
    BY <1>1, <2>1, SumIs
<1> HIDE DEF m
<1>4. f[m] = g[m]
  <2>1. m + 1 \in Nat /\ m <= m + 1 /\ m \in 0 .. m
    BY <1>1
  <2>2. \A n \in 0 .. m : f[n] = g[n]
    BY <1>1, <1>2, <1>3, <2>1, SumUnique
  <2>3. QED
    BY <2>1, <2>2
<1>5. g[m + 1] = g[m] + Term(longer, direction, m + 1)
  BY <1>1, <1>3 DEF IsSum
<1>6. Term(longer, direction, m + 1) = IF e.direction = direction THEN e.amount ELSE 0
  BY <1>1 DEF Term
<1>7. Sum(longer, direction) =
        Sum(entries, direction) + (IF e.direction = direction THEN e.amount ELSE 0)
  BY <1>2, <1>3, <1>4, <1>5, <1>6
<1>8. QED
  BY <1>7 DEF longer

-----------------------------------------------------------------------------
(* The accounts *)

\* What wallet w holds; a wallet not opened holds nothing.
Held(w) == IF wallets[w] = NoWallet THEN 0 ELSE wallets[w].balance.amount

Credits(w) == Sum(ledger[w], "CREDIT")
Debits(w)  == Sum(ledger[w], "DEBIT")

\* The tables an account is spread over.
TablesTyped ==
  /\ wallets \in [WalletIds -> Wallets \cup {NoWallet}]
  /\ txs \in [TxIds -> Rows \cup {NoRow}]
  /\ ledger \in [WalletIds -> Seq(Entries)]

\* The stored balance is the last one the ledger states, and what its entries add up to.
Balanced(w) == /\ Held(w) = BalanceAfter(ledger[w], Len(ledger[w]))
               /\ Credits(w) \in Nat /\ Debits(w) \in Nat
               /\ Held(w) = Credits(w) - Debits(w)

\* Every stored transaction is about a wallet that exists.
Housed == \A t \in TxIds : txs[t] # NoRow => wallets[txs[t].req.wallet] # NoWallet

\* The invariant.
Accounts == TablesTyped /\ Housed /\ \A w \in WalletIds : Balanced(w)

\* A stored wallet's balance is money.
LEMMA BalanceIsMoney ==
  ASSUME NEW w \in Wallets
  PROVE  w.balance \in Monies /\ w.balance.amount \in 0 .. MaxInt64
BY MoneyAssumption DEF Wallets, Balances, Monies, Int64, MinInt64

\* The wallet a movement leaves is a wallet the table accepts.
LEMMA AfterMovementIsWallet ==
  ASSUME NEW w \in Wallets, NEW n \in 0 .. MaxInt64
  PROVE  AfterMovement(w, n) \in Wallets
BY DEF AfterMovement, Wallets, Balances

\* The types of a request, for use where Requests would be expanded.
LEMMA RequestTyped ==
  ASSUME NEW r \in Requests
  PROVE  /\ r.money \in Monies /\ r.money.amount \in Int64 /\ r.wallet \in WalletIds
         /\ r.player \in Players /\ r.kind \in Kinds /\ TxId(r) \in TxIds
BY LedgerAssumption DEF Requests, TxId, Monies

\* A recorded row is a row.
LEMMA RowTyped ==
  ASSUME NEW r \in Requests, NEW status \in Statuses, TablesTyped, Record(r, status)
  PROVE  txs' \in [TxIds -> Rows \cup {NoRow}]
BY RequestTyped DEF Record, TablesTyped, Rows

\* Wallets are never removed.
WalletsStay == \A w \in WalletIds : wallets[w] # NoWallet => wallets'[w] # NoWallet

\* A row recorded for a wallet that exists leaves every row with its wallet.
LEMMA RecordHoused ==
  ASSUME NEW r \in Requests, NEW status, TablesTyped, Housed, Record(r, status),
         WalletsStay, wallets'[r.wallet] # NoWallet
  PROVE  Housed'
<1> SUFFICES ASSUME NEW t \in TxIds, txs'[t] # NoRow
             PROVE  wallets'[txs'[t].req.wallet] # NoWallet
  BY DEF Housed
<1>1. CASE t = TxId(r)
  BY <1>1 DEF Record, TablesTyped
<1>2. CASE t # TxId(r)
  <2>1. txs'[t] = txs[t]
    BY <1>2 DEF Record, TablesTyped
  <2>2. txs[t] \in Rows /\ txs[t].req \in Requests
    BY <2>1 DEF TablesTyped, Rows
  <2>3. txs[t].req.wallet \in WalletIds
    BY <2>2, RequestTyped
  <2>4. QED
    BY <2>1, <2>3 DEF Housed, WalletsStay
<1>3. QED
  BY <1>1, <1>2

\* What a step may do to wallet w's account: nothing, or move it by one more entry.
Kept(w)  == Held(w)' = Held(w) /\ ledger'[w] = ledger[w]
Extended(w) == \E e \in Entries :
  /\ ledger'[w] = Append(ledger[w], e)
  /\ Held(w)' = e.after
  /\ e.after = IF e.direction = "CREDIT" THEN Held(w) + e.amount ELSE Held(w) - e.amount

\* What a step of AtomicLedger does to the accounts.
Accounted == TablesTyped' /\ Housed' /\ \A w \in WalletIds : Kept(w) \/ Extended(w)

\* One wallet changes by an entry that accounts for the change.
LEMMA MoveAccounts ==
  ASSUME TablesTyped, NEW r \in Requests, NEW after \in Wallets, NEW event,
         Move(r, after, event),
         r.money.amount \in 1 .. MaxInt64,
         after.balance.amount = IF r.kind = "BET" THEN Held(r.wallet) - r.money.amount
                                ELSE Held(r.wallet) + r.money.amount
  PROVE  /\ wallets' \in [WalletIds -> Wallets \cup {NoWallet}]
         /\ ledger' \in [WalletIds -> Seq(Entries)]
         /\ WalletsStay /\ wallets'[r.wallet] # NoWallet
         /\ \A w \in WalletIds : Kept(w) \/ Extended(w)
<1> DEFINE e == Entry(r, wallets[r.wallet], after)
<1>1. r.wallet \in WalletIds /\ TxId(r) \in TxIds
  BY RequestTyped
<1>2. after.balance.amount \in 0 .. MaxInt64 /\ after # NoWallet
  BY BalanceIsMoney, LedgerAssumption
<1>3. Held(r.wallet) \in 0 .. MaxInt64
  BY <1>1, BalanceIsMoney, MoneyAssumption DEF Held, TablesTyped
<1>4. /\ e \in Entries /\ e.after = after.balance.amount /\ e.amount = r.money.amount
      /\ e.direction = IF r.kind = "BET" THEN "DEBIT" ELSE "CREDIT"
  BY <1>1, <1>2, <1>3 DEF Entry, Entries, Held
<1>5. /\ wallets' = [wallets EXCEPT ![r.wallet] = after]
      /\ ledger' = [ledger EXCEPT ![r.wallet] = Append(ledger[r.wallet], e)]
  BY DEF Move
<1> HIDE DEF e
<1>6. \A w \in WalletIds : w # r.wallet => Kept(w)
  BY <1>1, <1>5 DEF Kept, Held, TablesTyped
<1>7. Extended(r.wallet)
  <2>1. ledger'[r.wallet] = Append(ledger[r.wallet], e) /\ wallets'[r.wallet] = after
    BY <1>1, <1>5 DEF TablesTyped
  <2>2. Held(r.wallet)' = e.after
    BY <1>2, <1>4, <2>1 DEF Held
  <2>3. e.after = IF e.direction = "CREDIT" THEN Held(r.wallet) + e.amount
                  ELSE Held(r.wallet) - e.amount
    BY <1>4
  <2>4. QED
    BY <1>4, <2>1, <2>2, <2>3 DEF Extended
<1>8. WalletsStay /\ wallets'[r.wallet] # NoWallet
  BY <1>1, <1>2, <1>5 DEF TablesTyped, WalletsStay
<1>9. QED
  BY <1>1, <1>4, <1>5, <1>6, <1>7, <1>8 DEF TablesTyped

\* A movement that Debit or Credit allows: the arithmetic is exact (DebitGives, CreditGives).
LEMMA MoveAndRecordAccounts ==
  ASSUME TablesTyped, Housed, NEW r \in Requests, wallets[r.wallet] # NoWallet,
         MoveAndRecord(r)
  PROVE  Accounted
<1> DEFINE w == wallets[r.wallet]
           move == Moves(r, w)
<1>1. w \in Wallets /\ r.money \in Monies
  BY RequestTyped DEF TablesTyped
<1>2. /\ w.balance \in Monies /\ w.balance.amount \in 0 .. MaxInt64
      /\ w.balance.amount = Held(r.wallet)
  BY <1>1, BalanceIsMoney DEF Held
<1>3. /\ move.wallet \in Wallets /\ r.money.amount \in 1 .. MaxInt64
      /\ move.wallet.balance.amount = IF r.kind = "BET" THEN w.balance.amount - r.money.amount
                                      ELSE w.balance.amount + r.money.amount
  <2>1. \A n : AfterMovement(w, n).balance.amount = n
    BY DEF AfterMovement
  <2>2. CASE r.kind = "BET"
    <3>1. Debit(w, r.money).err = "none" /\ move = Debit(w, r.money)
      BY <2>2 DEF MoveAndRecord, Moves
    <3>2. /\ r.money.amount \in 1 .. w.balance.amount
          /\ move.wallet = AfterMovement(w, w.balance.amount - r.money.amount)
      BY <1>1, <1>2, <3>1, DebitGives
    <3>3. QED
      BY <1>1, <1>2, <2>1, <2>2, <3>2, AfterMovementIsWallet, MoneyAssumption
  <2>3. CASE r.kind # "BET"
    <3>1. Credit(w, r.money).err = "none" /\ move = Credit(w, r.money)
      BY <2>3 DEF MoveAndRecord, Moves
    <3>2. /\ r.money.amount \in 1 .. MaxInt64
          /\ w.balance.amount + r.money.amount \in 0 .. MaxInt64
          /\ move.wallet = AfterMovement(w, w.balance.amount + r.money.amount)
      BY <1>1, <1>2, <3>1, CreditGives
    <3>3. QED
      BY <1>1, <1>2, <2>1, <2>3, <3>2, AfterMovementIsWallet
  <2>4. QED
    BY <2>2, <2>3
<1>4. Move(r, move.wallet, Event("WagerTransactionProcessed", r, 0)) /\ Record(r, "PROCESSED")
  BY DEF MoveAndRecord
<1>5. txs' \in [TxIds -> Rows \cup {NoRow}]
  BY <1>4, RowTyped DEF Statuses
<1> HIDE DEF move
<1>6. QED
  BY <1>2, <1>3, <1>4, <1>5, MoveAccounts, RecordHoused DEF TablesTyped, Accounted

\* A decision that moves nothing.
LEMMA RecordAccounts ==
  ASSUME TablesTyped, Housed, NEW r \in Requests, NEW status \in Statuses,
         Record(r, status),
         wallets[r.wallet] # NoWallet, UNCHANGED <<wallets, ledger>>
  PROVE  Accounted
<1>1. txs' \in [TxIds -> Rows \cup {NoRow}]
  BY RowTyped
<1>2. WalletsStay /\ wallets'[r.wallet] # NoWallet
  BY DEF WalletsStay
<1>3. QED
  BY <1>1, <1>2, RecordHoused DEF TablesTyped, Kept, Held, Accounted

\* A wallet opened with money gets the entry that brings it; one opened with none, no entry.
LEMMA OpenAccounts ==
  ASSUME Accounts, NEW o \in Openings, Open(o)
  PROVE  Accounted
<1> DEFINE opened == NewWallet(o.player, o.money).wallet
<1>1. /\ o \in Requests /\ o.kind = "OPENING" /\ o.money.amount >= 0 /\ TablesTyped
      /\ o.wallet \in WalletIds /\ o.player \in Players /\ o.money \in Monies
      /\ wallets[o.wallet] = NoWallet /\ Housed
  BY LedgerAssumption, RequestTyped DEF Accounts, Open, Opened
<1>2. o.money.amount \in 0 .. MaxInt64
  BY <1>1, MoneyAssumption DEF Monies, Int64, MinInt64
<1>3. opened = [player |-> o.player, balance |-> o.money, version |-> 1]
  BY <1>2 DEF NewWallet, IsNegative, Changed, WalletRecord
<1>4. opened \in Wallets /\ opened.balance.amount = o.money.amount /\ opened # NoWallet
  <2>1. o.money \in Balances
    BY <1>1, <1>2 DEF Monies, Balances
  <2>2. QED
    BY <1>1, <1>3, <2>1, LedgerAssumption DEF Wallets
<1>5. Held(o.wallet) = 0
  BY <1>1 DEF Held
<1> HIDE DEF opened
<1>6. CASE /\ IsZero(o.money) /\ wallets' = [wallets EXCEPT ![o.wallet] = opened]
           /\ UNCHANGED <<txs, ledger, outbox>>
  <2>1. TablesTyped'
    BY <1>1, <1>4, <1>6 DEF TablesTyped
  <2>2. /\ wallets'[o.wallet] = opened
        /\ \A w \in WalletIds : w # o.wallet => wallets'[w] = wallets[w]
    BY <1>1, <1>6 DEF TablesTyped
  <2>3. \A w \in WalletIds : Kept(w)
    BY <1>1, <1>4, <1>5, <1>6, <2>2 DEF Kept, Held, IsZero
  <2>4. WalletsStay
    BY <1>4, <2>2 DEF WalletsStay
  <2>5. Housed'
    <3>1. \A t \in TxIds : txs[t] # NoRow => txs[t].req.wallet \in WalletIds
      BY <1>1, RequestTyped DEF TablesTyped, Rows
    <3>2. QED
      BY <1>1, <1>6, <2>4, <3>1 DEF Housed, WalletsStay
  <2>6. QED
    BY <2>1, <2>3, <2>5 DEF Accounted
<1>7. CASE /\ ~IsZero(o.money) /\ Record(o, "PROCESSED")
           /\ Move(o, opened, Event("WALLET_OPENED", o, opened.version))
  <2>1. o.money.amount \in 1 .. MaxInt64
    BY <1>2, <1>7 DEF IsZero
  <2>2. txs' \in [TxIds -> Rows \cup {NoRow}]
    BY <1>1, <1>7, RowTyped DEF Statuses
  <2>3. opened.balance.amount = Held(o.wallet) + o.money.amount
    BY <1>2, <1>4, <1>5
  <2>4. QED
    BY <1>1, <1>4, <1>7, <2>1, <2>2, <2>3, MoveAccounts, RecordHoused
       DEF TablesTyped, Accounted
<1>8. QED
  BY <1>6, <1>7 DEF Open, opened

\* Each way a wager is decided.
LEMMA DecideAccounts ==
  ASSUME TablesTyped, Housed, NEW r \in Requests, NEW consumed, Decide(r, consumed)
  PROVE  Accounted
<1>1. wallets[r.wallet] # NoWallet
  BY DEF Decide
<1>2. CASE MoveAndRecord(r)
  BY <1>1, <1>2, MoveAndRecordAccounts
<1>3. ASSUME NEW status \in Statuses, Record(r, status), UNCHANGED <<wallets, ledger>>
      PROVE  Accounted
  BY <1>1, <1>3, RecordAccounts
<1>4. CASE Record(r, "REJECTED") /\ Announce(r, "WagerTransactionRejected")
  BY <1>3, <1>4 DEF Announce, Statuses
<1>5. CASE Record(r, "PROCESSED") /\ Announce(r, "WagerTransactionProcessed")
  BY <1>3, <1>5 DEF Announce, Statuses
<1>6. CASE Record(r, "PENDING_REFERENCE") /\ Announce(r, "WagerTransactionPendingReference")
  BY <1>3, <1>6 DEF Announce, Statuses
<1>7. QED
  BY <1>2, <1>4, <1>5, <1>6 DEF Decide

\* A pending refund is paid, or rejected.
LEMMA SettleAccounts ==
  ASSUME TablesTyped, Housed, NEW t \in TxIds, Settle(t)
  PROVE  Accounted
<1>1. txs[t] \in Rows /\ txs[t].req \in Requests /\ wallets[txs[t].req.wallet] # NoWallet
  BY DEF TablesTyped, Housed, Settle, Rows
<1>2. CASE MoveAndRecord(txs[t].req)
  BY <1>1, <1>2, MoveAndRecordAccounts
<1>3. CASE Record(txs[t].req, "REJECTED") /\ UNCHANGED <<wallets, ledger, outbox>>
  BY <1>1, <1>3, RecordAccounts DEF Statuses
<1>4. QED
  BY <1>2, <1>3 DEF Settle

\* A step that leaves wallets, ledger and transactions as they are.
LEMMA StillAccounts ==
  ASSUME TablesTyped, Housed, UNCHANGED <<wallets, ledger, txs>>
  PROVE  Accounted
BY DEF TablesTyped, Housed, Kept, Held, Accounted

\* Every step.
LEMMA NextAccounts ==
  ASSUME Accounts, Next
  PROVE  Accounted
<1>1. TablesTyped /\ Housed
  BY DEF Accounts
<1>2. ASSUME NEW o \in Openings, Open(o) PROVE Accounted
  BY <1>2, OpenAccounts
<1>3. ASSUME NEW r \in HttpRequests, Decide(r, {}) PROVE Accounted
  BY <1>1, <1>3, DecideAccounts, LedgerAssumption
<1>4. ASSUME NEW m \in Msgs, Decide(Body[m], {m}) PROVE Accounted
  BY <1>1, <1>4, DecideAccounts, LedgerAssumption
<1>5. ASSUME NEW m \in Msgs, Consume(m) PROVE Accounted
  BY <1>1, <1>5, StillAccounts DEF Consume
<1>6. ASSUME NEW t \in TxIds, Settle(t) PROVE Accounted
  BY <1>1, <1>6, SettleAccounts
<1>7. QED
  BY <1>2, <1>3, <1>4, <1>5, <1>6 DEF Next

\* An account stays balanced, and what the ledger said stays said.
LEMMA AccountStays ==
  ASSUME Accounts, Accounted, NEW w \in WalletIds
  PROVE  /\ Balanced(w)'
         /\ Len(ledger[w]) <= Len(ledger'[w])
         /\ \A n \in 0 .. Len(ledger[w]) : BalanceAfter(ledger'[w], n) = BalanceAfter(ledger[w], n)
         /\ Credits(w) <= Credits(w)' /\ Debits(w) <= Debits(w)'
<1>1. Balanced(w) /\ ledger[w] \in Seq(Entries)
  BY DEF Accounts, TablesTyped
<1>2. CASE Kept(w)
  <2>1. ledger'[w] = ledger[w] /\ Held(w)' = Held(w) /\ Len(ledger[w]) \in Nat
    BY <1>1, <1>2 DEF Kept
  <2>2. Credits(w)' = Credits(w) /\ Debits(w)' = Debits(w)
    BY <2>1 DEF Credits, Debits
  <2>3. Balanced(w)'
    BY <1>1, <2>1, <2>2 DEF Balanced
  <2>4. Credits(w) <= Credits(w)' /\ Debits(w) <= Debits(w)'
    BY <1>1, <2>2 DEF Balanced
  <2>5. QED
    BY <2>1, <2>3, <2>4
<1>3. CASE Extended(w)
  <2>1. PICK e \in Entries :
          /\ ledger'[w] = Append(ledger[w], e) /\ Held(w)' = e.after
          /\ e.after = IF e.direction = "CREDIT" THEN Held(w) + e.amount ELSE Held(w) - e.amount
    BY <1>3 DEF Extended
  <2>2. e.amount \in Nat /\ e.direction \in {"DEBIT", "CREDIT"}
    BY MoneyAssumption DEF Entries
  <2>3. /\ Credits(w)' = Credits(w) + (IF e.direction = "CREDIT" THEN e.amount ELSE 0)
        /\ Debits(w)' = Debits(w) + (IF e.direction = "DEBIT" THEN e.amount ELSE 0)
    BY <1>1, <2>1, SumOfAppend DEF Credits, Debits
  <2>4. /\ Len(ledger'[w]) = Len(ledger[w]) + 1
        /\ \A n \in 0 .. Len(ledger[w]) : BalanceAfter(ledger'[w], n) = BalanceAfter(ledger[w], n)
        /\ BalanceAfter(ledger'[w], Len(ledger'[w])) = e.after
    BY <1>1, <2>1 DEF BalanceAfter
  <2>5. /\ Credits(w)' \in Nat /\ Debits(w)' \in Nat
        /\ Credits(w) <= Credits(w)' /\ Debits(w) <= Debits(w)'
        /\ Held(w)' = Credits(w)' - Debits(w)'
    BY <1>1, <2>1, <2>2, <2>3 DEF Balanced
  <2>6. QED
    BY <1>1, <2>1, <2>4, <2>5 DEF Balanced
<1>4. QED
  BY <1>2, <1>3 DEF Accounted

\* At the start nothing is held and nothing recorded.
LEMMA InitBalanced == Init => Accounts
<1> SUFFICES ASSUME Init PROVE Accounts
  OBVIOUS
<1>1. TablesTyped /\ Housed
  BY DEF Init, TablesTyped, Housed
<1>2. ASSUME NEW w \in WalletIds PROVE Balanced(w)
  <2>1. ledger[w] = << >> /\ Held(w) = 0 /\ Len(ledger[w]) = 0
    BY <1>2 DEF Init, Held
  <2>2. Credits(w) = 0 /\ Debits(w) = 0
    BY <2>1, SumOfNone DEF Credits, Debits
  <2>3. BalanceAfter(ledger[w], 0) = 0
    BY DEF BalanceAfter
  <2>4. QED
    BY <2>1, <2>2, <2>3 DEF Balanced
<1>3. QED
  BY <1>1, <1>2 DEF Accounts

\* The invariant is inductive.
LEMMA AccountsKept == ASSUME Accounts, [Next]_atoms PROVE Accounts'
<1>1. Accounted
  <2>1. CASE Next
    BY <2>1, NextAccounts
  <2>2. CASE UNCHANGED atoms
    BY <2>2, StillAccounts DEF Accounts, atoms
  <2>3. QED
    BY <2>1, <2>2
<1>2. \A w \in WalletIds : Balanced(w)'
  BY <1>1, AccountStays
<1>3. QED
  BY <1>1, <1>2 DEF Accounts, Accounted

\* Opening, deciding and settling keep every wallet's stored balance equal to the sum of its
\* ledger entries, whatever is decided in whatever order: reconciliation finds nothing.
THEOREM AccountsBalance == Spec => [](\A w \in WalletIds : Balanced(w))
<1>1. Spec => []Accounts
  BY InitBalanced, AccountsKept, PTL DEF Spec
<1>2. Accounts => \A w \in WalletIds : Balanced(w)
  BY DEF Accounts
<1>3. QED
  BY <1>1, <1>2, PTL

-----------------------------------------------------------------------------
(* Reconciliation reports *)

\* The local variables and the answer of one call of the endpoint.
Reports == [pc : {"idle", "ledger", "done"}, id : WalletIds \cup {NoWallet}, stored : Int,
            calculated : Int, checkedEntries : Nat,
            outcome : {"none", "not found", "consistent", "inconsistent", "error"}]

\* The balance r has read was that after some of the first m entries of its wallet.
ReadAfter(r, entries, m) == \E n \in 0 .. m : r.stored = BalanceAfter(entries, n)

\* A report that compares is about its first checkedEntries entries.
Exact(r, entries) == /\ r.checkedEntries <= Len(entries)
                     /\ r.calculated = BalanceAfter(entries, r.checkedEntries)
                     /\ ReadAfter(r, entries, r.checkedEntries)

\* What a call of the endpoint knows of its wallet's ledger.
Informed(r, entries) ==
  /\ r.pc = "ledger" => ReadAfter(r, entries, Len(entries))
  /\ r.outcome \in {"consistent", "inconsistent"} => Exact(r, entries)

\* The invariant: the accounts, and every call has read what its wallet's ledger said.
ReportInv == /\ Accounts
             /\ report \in [Readers -> Reports]
             /\ \A p \in Readers : report[p] # NoReport =>
                  /\ report[p].id \in WalletIds
                  /\ Informed(report[p], ledger[report[p].id])

\* Ledgers only grow, so a report stays as true as it was.
LEMMA StillInformed ==
  ASSUME Accounts, Accounted, NEW r \in Reports, r.id \in WalletIds,
         Informed(r, ledger[r.id])
  PROVE  Informed(r, ledger'[r.id])
<1> DEFINE old == ledger[r.id]
           new == ledger'[r.id]
<1>1. /\ Len(old) \in Nat /\ Len(new) \in Nat /\ Len(old) <= Len(new)
      /\ \A n \in 0 .. Len(old) : BalanceAfter(new, n) = BalanceAfter(old, n)
  BY AccountStays DEF Accounts, Accounted, TablesTyped
<1> HIDE DEF old, new
<1>2. ASSUME NEW m \in 0 .. Len(old), NEW k \in m .. Len(new), ReadAfter(r, old, m)
      PROVE  ReadAfter(r, new, k)
  <2>1. PICK n \in 0 .. m : r.stored = BalanceAfter(old, n)
    BY <1>2 DEF ReadAfter
  <2>2. n \in 0 .. k /\ n \in 0 .. Len(old)
    BY <1>1, <1>2
  <2>3. QED
    BY <1>1, <2>1, <2>2 DEF ReadAfter
<1>3. ReadAfter(r, old, Len(old)) => ReadAfter(r, new, Len(new))
  BY <1>1, <1>2
<1>4. ASSUME Exact(r, old) PROVE Exact(r, new)
  <2>1. r.checkedEntries \in Nat
    BY DEF Reports
  <2>2. r.checkedEntries \in 0 .. Len(old) /\ r.checkedEntries \in r.checkedEntries .. Len(new)
    BY <1>1, <1>4, <2>1 DEF Exact
  <2>3. QED
    BY <1>1, <1>2, <1>4, <2>2 DEF Exact
<1>5. QED
  BY <1>3, <1>4 DEF Informed, old, new

\* A step of the tables keeps what every call knows.
LEMMA ReportsStay ==
  ASSUME ReportInv, [Next]_atoms, NEW q \in Readers, report[q] # NoReport
  PROVE  report[q].id \in WalletIds /\ Informed(report[q], ledger'[report[q].id])
<1>1. Accounted
  BY NextAccounts, StillAccounts DEF ReportInv, Accounts, atoms
<1>2. report[q] \in Reports /\ report[q].id \in WalletIds
      /\ Informed(report[q], ledger[report[q].id]) /\ Accounts
  BY DEF ReportInv
<1>3. QED
  BY <1>1, <1>2, StillInformed

\* A call of the endpoint leaves the tables and the other calls alone.
LEMMA OneReport ==
  ASSUME ReportInv, NEW p \in Readers, NEW r \in Reports, Set(p, r),
         r # NoReport => r.id \in WalletIds /\ Informed(r, ledger[r.id])
  PROVE  ReportInv'
<1>1. report' = [report EXCEPT ![p] = r] /\ report \in [Readers -> Reports]
      /\ ledger' = ledger /\ UNCHANGED atoms
  BY DEF Set, ReportInv, atoms
<1>2. Accounts'
  BY <1>1, AccountsKept DEF ReportInv
<1>3. ASSUME NEW q \in Readers, report'[q] # NoReport
      PROVE  report'[q].id \in WalletIds /\ Informed(report'[q], ledger'[report'[q].id])
  BY <1>1, <1>3 DEF ReportInv
<1>4. QED
  BY <1>1, <1>2, <1>3 DEF ReportInv

\* The first statement reads the balance after the entries committed so far.
LEMMA ReadWalletInforms ==
  ASSUME ReportInv, NEW p \in Readers, NEW w \in WalletIds, ReadWallet(p, w)
  PROVE  ReportInv'
<1> DEFINE missing == [NoReport EXCEPT !.pc = "done", !.id = w, !.outcome = "not found"]
           found == [NoReport EXCEPT !.pc = "ledger", !.id = w,
                                     !.stored = wallets[w].balance.amount]
<1>0. NoReport \in Reports /\ NoReport.outcome = "none"
  BY DEF NoReport, Reports
<1>1. CASE Set(p, missing)
  <2>1. missing \in Reports /\ missing.id = w /\ missing.pc = "done"
        /\ missing.outcome = "not found"
    BY <1>0 DEF Reports
  <2> HIDE DEF missing
  <2>2. Informed(missing, ledger[w])
    BY <2>1 DEF Informed
  <2>3. QED
    BY <1>1, <2>1, <2>2, OneReport
<1>2. CASE wallets[w] # NoWallet /\ Set(p, found)
  <2>1. wallets[w].balance.amount = Held(w) /\ Held(w) \in Int
    BY <1>2, BalanceIsMoney DEF ReportInv, Accounts, TablesTyped, Held
  <2>2. found \in Reports /\ found.id = w /\ found.pc = "ledger" /\ found.outcome = "none"
        /\ found.stored = Held(w)
    BY <1>0, <2>1 DEF Reports
  <2> HIDE DEF found
  <2>3. Held(w) = BalanceAfter(ledger[w], Len(ledger[w])) /\ Len(ledger[w]) \in Nat
    BY DEF ReportInv, Accounts, Balanced, TablesTyped
  <2>4. Informed(found, ledger[w])
    BY <2>2, <2>3 DEF Informed, ReadAfter
  <2>5. QED
    BY <1>2, <2>2, <2>4, OneReport
<1>3. QED
  BY <1>1, <1>2 DEF ReadWallet

\* The second one sums up the entries committed by then.
LEMMA ReadLedgerInforms ==
  ASSUME ReportInv, NEW p \in Readers, ReadLedger(p)
  PROVE  ReportInv'
<1> DEFINE r == report[p]
           entries == ledger[r.id]
           exact == [r EXCEPT !.pc = "done", !.calculated = Calculated(entries),
                              !.checkedEntries = Len(entries),
                              !.outcome = IF r.stored = Calculated(entries)
                                          THEN "consistent" ELSE "inconsistent"]
           failed == [r EXCEPT !.pc = "done", !.outcome = "error"]
<1>1. /\ r \in Reports /\ r.pc = "ledger" /\ r.id \in WalletIds
      /\ Informed(r, entries) /\ Balanced(r.id)
      /\ entries \in Seq(Entries)
  BY DEF ReadLedger, ReportInv, NoReport, Accounts, TablesTyped
<1>2. /\ Sum(entries, "CREDIT") \in Nat /\ Sum(entries, "DEBIT") \in Nat
      /\ Calculated(entries) = BalanceAfter(entries, Len(entries))
      /\ Calculated(entries) \in Int /\ Len(entries) \in Nat
  BY <1>1 DEF Balanced, Calculated, Credits, Debits
<1>3. ReadAfter(r, entries, Len(entries))
  BY <1>1 DEF Informed
<1>4. CASE Set(p, exact)
  <2>1. /\ exact \in Reports /\ exact.id = r.id /\ exact.pc = "done" /\ exact.stored = r.stored
        /\ exact.outcome \in {"consistent", "inconsistent"}
        /\ exact.checkedEntries = Len(entries) /\ exact.calculated = Calculated(entries)
    BY <1>1, <1>2 DEF Reports
  <2> HIDE DEF exact, entries
  <2>2. Informed(exact, entries)
    BY <1>2, <1>3, <2>1 DEF Informed, Exact, ReadAfter
  <2>3. QED
    BY <1>1, <1>4, <2>1, <2>2, OneReport DEF entries
<1>5. CASE /\ ~(Scanned(Sum(entries, "CREDIT")) /\ Scanned(Sum(entries, "DEBIT")))
           /\ Set(p, failed)
  <2>1. failed \in Reports /\ failed.id = r.id /\ failed.pc = "done" /\ failed.outcome = "error"
    BY <1>1 DEF Reports
  <2> HIDE DEF failed, entries
  <2>2. Informed(failed, entries)
    BY <2>1 DEF Informed
  <2>3. QED
    BY <1>1, <1>5, <2>1, <2>2, OneReport DEF entries
<1>6. QED
  BY <1>4, <1>5 DEF ReadLedger

\* A call that is over says nothing.
LEMMA ForgetInforms ==
  ASSUME ReportInv, NEW p \in Readers, Forget(p)
  PROVE  ReportInv'
<1>1. NoReport \in Reports
  BY DEF NoReport, Reports
<1>2. QED
  BY <1>1, OneReport DEF Forget

\* Every step of wagers and of the endpoint.
LEMMA StepReports == ReportInv /\ [ReconciliationNext]_reportVars => ReportInv'
<1> SUFFICES ASSUME ReportInv, [ReconciliationNext]_reportVars PROVE ReportInv'
  OBVIOUS
<1>1. CASE [Next]_atoms /\ UNCHANGED report
  <2>1. Accounts'
    BY <1>1, AccountsKept DEF ReportInv
  <2>2. QED
    BY <1>1, <2>1, ReportsStay DEF ReportInv
<1>2. CASE \E p \in Readers : ReadLedger(p) \/ Forget(p) \/ \E w \in WalletIds : ReadWallet(p, w)
  BY <1>2, ReadLedgerInforms, ForgetInforms, ReadWalletInforms
<1>3. QED
  BY <1>1, <1>2 DEF ReconciliationNext, reportVars

\* At the start nobody has asked.
LEMMA InitReports == ReconciliationInit => ReportInv
<1> SUFFICES ASSUME ReconciliationInit PROVE ReportInv
  OBVIOUS
<1>1. NoReport \in Reports /\ Accounts
  BY InitBalanced DEF ReconciliationInit, NoReport, Reports
<1>2. QED
  BY <1>1 DEF ReconciliationInit, ReportInv

\* The invariant holds.
LEMMA ReportsHold == ReconciliationSpec => []ReportInv
BY InitReports, StepReports, PTL DEF ReconciliationSpec

\* ReconciliationUsecase.Execute reads wallet and ledger in two statements, with any number
\* of wagers, refunds and openings between them: what it calls the difference is exactly
\* what was moved in between, for every ledger and every number of calls.
THEOREM ReportsAreExact == ReconciliationSpec => []ReportIsExact
<1>1. ReportInv => ReportIsExact
  BY DEF ReportInv, ReportIsExact, Informed, Exact, ReadAfter, NoReport
<1>2. QED
  BY <1>1, ReportsHold, PTL

-----------------------------------------------------------------------------
(* The pending-reference workers *)

\* The rows due among the first n, from those among the first n - 1.
DueStep(before, n) == IF IsDue(created[n]) THEN Append(before, created[n]) ELSE before

\* due[n] holds the rows due among the first n, for every n up to m.
IsDueTo(due, m) == due = [n \in 0 .. m |-> IF n = 0 THEN << >> ELSE DueStep(due[n-1], n)]

\* The recursive definition of the rows due has a solution.
LEMMA DueExists == ASSUME NEW m \in Nat PROVE \E due : IsDueTo(due, m)
<1> DEFINE T == {k \in Nat : ~\E due : IsDueTo(due, k)}
<1>1. SUFFICES ASSUME T # {} PROVE FALSE
  OBVIOUS
<1>2. PICK k \in T : \A i \in 0 .. k - 1 : i \notin T
  BY <1>1, LeastNatural, T \in SUBSET Nat
<1>3. CASE k = 0
  <2>1. IsDueTo([n \in 0 .. 0 |-> << >>], 0)
    BY DEF IsDueTo
  <2>2. QED
    BY <1>2, <1>3, <2>1
<1>4. CASE k # 0
  <2>1. k \in Nat /\ k - 1 \in Nat /\ k - 1 \notin T
    BY <1>2, <1>4
  <2>2. PICK due : IsDueTo(due, k - 1)
    BY <2>1
  <2> DEFINE longer == [n \in 0 .. k |-> IF n = 0 THEN << >> ELSE DueStep(due[n-1], n)]
  <2>3. \A n \in 0 .. k - 1 : longer[n] = due[n]
    BY <2>1, <2>2 DEF IsDueTo
  <2>4. longer = [n \in 0 .. k |-> IF n = 0 THEN << >> ELSE DueStep(longer[n-1], n)]
    <3>1. \A n \in 0 .. k : longer[n] = IF n = 0 THEN << >> ELSE DueStep(due[n-1], n)
      OBVIOUS
    <3>2. longer = [n \in 0 .. k |-> longer[n]]
      OBVIOUS
    <3> HIDE DEF longer
    <3>3. \A n \in 0 .. k : n # 0 => n - 1 \in 0 .. k - 1 /\ longer[n-1] = due[n-1]
      BY <2>1, <2>3
    <3>4. \A n \in 0 .. k : longer[n] = IF n = 0 THEN << >> ELSE DueStep(longer[n-1], n)
      BY <3>1, <3>3
    <3>5. QED
      BY <3>2, <3>4, Zenon
  <2>5. QED
    BY <1>2, <2>4 DEF IsDueTo
<1>5. QED
  BY <1>3, <1>4

\* The rows s are due ones among the first n created, in the order of their creation, and
\* no due one is missing.
AllDue(s, n)     == \A i \in 1 .. Len(s) : IsDue(s[i]) /\ \E a \in 1 .. n : created[a] = s[i]
InOrder(s, n)    == \A i, j \in 1 .. Len(s) : i < j =>
                      \E a, b \in 1 .. n : a < b /\ created[a] = s[i] /\ created[b] = s[j]
NoneMissed(s, n) == \A a \in 1 .. n : IsDue(created[a]) => \E i \in 1 .. Len(s) : s[i] = created[a]
DueAmong(s, n)   == s \in Seq(TxIds) /\ AllDue(s, n) /\ InOrder(s, n) /\ NoneMissed(s, n)

LEMMA OneMoreDue ==
  ASSUME NEW n \in Nat, n # 0, created[n] \in TxIds, NEW s, DueAmong(s, n - 1)
  PROVE  DueAmong(DueStep(s, n), n)
<1> DEFINE x == created[n]
           l == Append(s, x)
           k == Len(s) + 1
<1>1. \A a \in 1 .. n : a \in 1 .. n - 1 \/ a = n
  OBVIOUS
<1>2. n \in 1 .. n /\ \A a \in 1 .. n - 1 : a \in 1 .. n /\ a < n
  OBVIOUS
<1>3. /\ s \in Seq(TxIds) /\ Len(s) \in Nat
      /\ AllDue(s, n - 1) /\ InOrder(s, n - 1) /\ NoneMissed(s, n - 1)
  BY DEF DueAmong
<1>4. AllDue(s, n) /\ InOrder(s, n)
  <2>1. AllDue(s, n)
    BY <1>2, <1>3 DEF AllDue
  <2>2. InOrder(s, n)
    <3> SUFFICES ASSUME NEW i \in 1 .. Len(s), NEW j \in 1 .. Len(s), i < j
                 PROVE  \E a, b \in 1 .. n : a < b /\ created[a] = s[i] /\ created[b] = s[j]
      BY DEF InOrder
    <3>1. PICK a \in 1 .. n - 1, b \in 1 .. n - 1 : a < b /\ created[a] = s[i] /\ created[b] = s[j]
      BY <1>3 DEF InOrder
    <3>2. QED
      BY <1>2, <3>1
  <2>3. QED
    BY <2>1, <2>2
<1>5. CASE ~IsDue(x)
  <2>1. NoneMissed(s, n)
    BY <1>1, <1>3, <1>5 DEF NoneMissed
  <2>2. QED
    BY <1>3, <1>4, <1>5, <2>1 DEF DueAmong, DueStep
<1>6. CASE IsDue(x)
  <2>1. /\ l \in Seq(TxIds) /\ Len(l) = k /\ l[k] = x
        /\ \A i \in 1 .. Len(s) : l[i] = s[i] /\ i \in 1 .. k
    BY <1>3
  <2>2. \A i \in 1 .. k : i \in 1 .. Len(s) \/ i = k
    BY <1>3
  <2>3. k \in 1 .. k /\ \A i, j \in 1 .. k : i < j => i \in 1 .. Len(s)
    BY <1>3
  <2>4. l = DueStep(s, n)
    BY <1>6 DEF DueStep
  <2> HIDE DEF l, k, x
  <2>5. AllDue(l, n)
    <3>1. ASSUME NEW i \in 1 .. k
          PROVE  IsDue(l[i]) /\ \E a \in 1 .. n : created[a] = l[i]
      <4>1. CASE i \in 1 .. Len(s)
        BY <1>4, <2>1, <4>1 DEF AllDue
      <4>2. CASE i = k
        BY <1>2, <1>6, <2>1, <4>2 DEF x
      <4>3. QED
        BY <2>2, <4>1, <4>2
    <3>2. QED
      BY <2>1, <3>1 DEF AllDue
  <2>6. InOrder(l, n)
    <3>1. ASSUME NEW i \in 1 .. k, NEW j \in 1 .. k, i < j
          PROVE  \E a, b \in 1 .. n : a < b /\ created[a] = l[i] /\ created[b] = l[j]
      <4>1. i \in 1 .. Len(s) /\ l[i] = s[i]
        BY <2>1, <2>3, <3>1
      <4>2. CASE j \in 1 .. Len(s)
        <5>1. l[j] = s[j]
          BY <2>1, <4>2
        <5>2. \E a, b \in 1 .. n : a < b /\ created[a] = s[i] /\ created[b] = s[j]
          BY <1>4, <3>1, <4>1, <4>2 DEF InOrder
        <5>3. QED
          BY <4>1, <5>1, <5>2
      <4>3. CASE j = k
        <5>1. PICK a \in 1 .. n - 1 : created[a] = s[i]
          BY <1>3, <4>1 DEF AllDue
        <5>2. a \in 1 .. n /\ a < n /\ n \in 1 .. n /\ created[n] = l[j]
          BY <1>2, <2>1, <4>3 DEF x
        <5>3. QED
          BY <4>1, <5>1, <5>2
      <4>4. QED
        BY <2>2, <4>2, <4>3
    <3>2. QED
      BY <2>1, <3>1 DEF InOrder
  <2>7. NoneMissed(l, n)
    <3>1. ASSUME NEW a \in 1 .. n, IsDue(created[a])
          PROVE  \E i \in 1 .. k : l[i] = created[a]
      <4>1. CASE a \in 1 .. n - 1
        <5>1. PICK i \in 1 .. Len(s) : s[i] = created[a]
          BY <1>3, <3>1, <4>1 DEF NoneMissed
        <5>2. QED
          BY <2>1, <5>1
      <4>2. CASE a = n
        BY <2>1, <2>3, <4>2 DEF x
      <4>3. QED
        BY <1>1, <4>1, <4>2
    <3>2. QED
      BY <2>1, <3>1 DEF NoneMissed
  <2>8. QED
    BY <2>1, <2>4, <2>5, <2>6, <2>7 DEF DueAmong
<1>7. QED
  BY <1>5, <1>6

\* The query answers the due rows, all of them, oldest first.
LEMMA DueInOrder ==
  ASSUME created \in Seq(TxIds)
  PROVE  DueAmong(Due, Len(created))
<1> DEFINE m == Len(created)
           due == CHOOSE f : IsDueTo(f, m)
           T == {n \in 0 .. m : ~DueAmong(due[n], n)}
<1>1. m \in Nat /\ IsDueTo(due, m)
  BY DueExists
<1>2. Due = due[m]
  BY DEF Due, IsDueTo, DueStep
<1> HIDE DEF due
<1>3. SUFFICES DueAmong(due[m], m)
  BY <1>2
<1>4. SUFFICES ASSUME T # {} PROVE FALSE
  BY <1>1
<1>5. PICK n \in T : \A i \in 0 .. n - 1 : i \notin T
  BY <1>4, LeastNatural, T \in SUBSET Nat
<1>6. n # 0
  <2>1. due[0] = << >>
    BY <1>1 DEF IsDueTo
  <2>2. DueAmong(<< >>, 0)
    BY DEF DueAmong, AllDue, InOrder, NoneMissed
  <2>3. QED
    BY <1>5, <2>1, <2>2
<1>7. n - 1 \in 0 .. m /\ n \in 1 .. m /\ DueAmong(due[n-1], n - 1)
  BY <1>1, <1>5, <1>6
<1>8. due[n] = DueStep(due[n-1], n)
  BY <1>1, <1>6, <1>7 DEF IsDueTo
<1>9. QED
  BY <1>5, <1>6, <1>7, <1>8, OneMoreDue

\* Every row due has been stored as pending.
LEMMA DueIsStored ==
  ASSUME created \in Seq(TxIds)
  PROVE  /\ Due \in Seq(TxIds)
         /\ \A i \in DOMAIN Due : \E j \in DOMAIN created : created[j] = Due[i]
BY DueInOrder DEF DueAmong, AllDue

\* The LIMIT keeps the first rows.
LEMMA OldestOfDue ==
  ASSUME NEW due \in Seq(TxIds)
  PROVE  /\ Oldest(due) \in Seq(TxIds) /\ Len(Oldest(due)) <= Limit
         /\ \A i \in DOMAIN Oldest(due) : i \in DOMAIN due /\ Oldest(due)[i] = due[i]
<1> DEFINE k == IF Len(due) < Limit THEN Len(due) ELSE Limit
<1>1. k \in 0 .. Len(due) /\ k <= Limit /\ Limit \in Nat /\ Oldest(due) = SubSeq(due, 1, k)
  BY PendingAssumption DEF Oldest
<1>2. QED
  BY <1>1

\* At the start nothing is pending.
LEMMA StartPending == PendingInit => PendingTypeOK
<1> SUFFICES ASSUME PendingInit PROVE PendingTypeOK
  OBVIOUS
<1>1. \A w \in Workers : batch[w] = << >>
  BY DEF PendingInit
<1>2. QED
  BY <1>1, PendingAssumption DEF PendingInit, PendingTypeOK

\* A batch of rows stored as pending.
Stored(ts) == /\ ts \in Seq(TxIds) /\ Len(ts) <= Limit
              /\ \A i \in DOMAIN ts : \E j \in DOMAIN created : created[j] = ts[i]

\* The invariant, by batch.
LEMMA BatchesTyped ==
  PendingTypeOK <=> /\ created \in Seq(TxIds)
                    /\ retry \in [TxIds -> 0 .. RetryDelay]
                    /\ wait \in [Workers -> 0 .. Period]
                    /\ faults \in 0 .. MaxFaults
                    /\ batch \in [Workers -> Seq(TxIds)]
                    /\ \A w \in Workers : Stored(batch[w])
BY DEF PendingTypeOK, Stored


\* A step that stores no row leaves the batches' types to be shown.
LEMMA BatchesKept ==
  ASSUME created \in Seq(TxIds), UNCHANGED created,
         retry' \in [TxIds -> 0 .. RetryDelay], wait' \in [Workers -> 0 .. Period],
         faults' \in 0 .. MaxFaults, batch' \in [Workers -> Seq(TxIds)],
         \A w \in Workers : Stored(batch'[w])
  PROVE  PendingTypeOK'
<1>1. \A w \in Workers :
        /\ Len(batch'[w]) <= Limit
        /\ \A i \in DOMAIN batch'[w] : \E j \in DOMAIN created' : created'[j] = batch'[w][i]
  BY DEF Stored
<1>2. created' \in Seq(TxIds)
  OBVIOUS
<1>3. QED
  BY <1>1, <1>2 DEF PendingTypeOK

\* A row stored later leaves those of a batch stored.
LEMMA StoredStays ==
  ASSUME created \in Seq(TxIds), NEW t \in TxIds, NEW ts, Stored(ts),
         created' = created \/ created' = Append(created, t)
  PROVE  /\ created' \in Seq(TxIds)
         /\ ts \in Seq(TxIds) /\ Len(ts) <= Limit
         /\ \A i \in DOMAIN ts : \E j \in DOMAIN created' : created'[j] = ts[i]
<1>1. created' \in Seq(TxIds)
  OBVIOUS
<1>2. \A j \in DOMAIN created : j \in DOMAIN created' /\ created'[j] = created[j]
  OBVIOUS
<1>3. QED
  BY <1>1, <1>2 DEF Stored

\* Each action: a row is stored,
LEMMA StoreTyped == ASSUME PendingTypeOK, Store PROVE PendingTypeOK'
<1>1. /\ created \in Seq(TxIds) /\ retry \in [TxIds -> 0 .. RetryDelay]
      /\ wait \in [Workers -> 0 .. Period] /\ faults \in 0 .. MaxFaults
      /\ batch \in [Workers -> Seq(TxIds)] /\ \A w \in Workers : Stored(batch[w])
  BY BatchesTyped
<1>2. CASE UNCHANGED <<created, retry>>
  BY <1>1, <1>2 DEF Store, PendingTypeOK, Stored
<1>3. ASSUME NEW r \in HttpRequests, created' = Append(created, TxId(r)),
             retry' = [retry EXCEPT ![TxId(r)] = RetryDelay]
      PROVE  PendingTypeOK'
  <2>1. TxId(r) \in TxIds
    BY LedgerAssumption, RequestTyped
  <2>2. created' \in Seq(TxIds) /\ retry' \in [TxIds -> 0 .. RetryDelay]
    BY <1>1, <1>3, <2>1, PendingAssumption
  <2>3. UNCHANGED <<batch, wait, faults>>
    BY DEF Store
  <2>4. \A w \in Workers :
          /\ batch[w] \in Seq(TxIds) /\ Len(batch[w]) <= Limit
          /\ \A i \in DOMAIN batch[w] : \E j \in DOMAIN created' : created'[j] = batch[w][i]
    BY <1>1, <1>3, <2>1, StoredStays
  <2>5. QED
    BY <1>1, <2>2, <2>3, <2>4 DEF PendingTypeOK
<1>4. QED
  BY <1>2, <1>3 DEF Store

\* a batch is selected,
LEMMA FetchTyped ==
  ASSUME PendingTypeOK, NEW w \in Workers, FetchBatch(w)
  PROVE  PendingTypeOK'
<1>1. Stored(Oldest(Due))
  BY DueIsStored, OldestOfDue DEF Stored, PendingTypeOK
<1>2. \A v \in Workers : batch'[v] = IF v = w THEN Oldest(Due) ELSE batch[v]
  BY DEF FetchBatch, PendingTypeOK
<1>3. batch' \in [Workers -> Seq(TxIds)] /\ wait' \in [Workers -> 0 .. Period]
  BY <1>1, PendingAssumption DEF FetchBatch, PendingTypeOK, Stored
<1>4. UNCHANGED <<created, retry, faults>>
  BY DEF FetchBatch
<1>5. \A v \in Workers : Stored(batch'[v])
  BY <1>1, <1>2, BatchesTyped
<1>6. created \in Seq(TxIds) /\ retry \in [TxIds -> 0 .. RetryDelay] /\ faults \in 0 .. MaxFaults
  BY DEF PendingTypeOK
<1>7. QED
  BY <1>3, <1>4, <1>5, <1>6, BatchesKept

\* its first row is taken
LEMMA TookTyped ==
  ASSUME PendingTypeOK, NEW w \in Workers, NEW t \in TxIds, Took(w, t),
         retry' \in [TxIds -> 0 .. RetryDelay], faults' \in 0 .. MaxFaults
  PROVE  PendingTypeOK'
<1>1. batch[w] \in Seq(TxIds) /\ batch[w] # << >> /\ batch' = [batch EXCEPT ![w] = Tail(@)]
  BY DEF PendingTypeOK, Took
<1>2. /\ Tail(batch[w]) \in Seq(TxIds) /\ Len(Tail(batch[w])) = Len(batch[w]) - 1
      /\ \A i \in DOMAIN Tail(batch[w]) :
           i + 1 \in DOMAIN batch[w] /\ Tail(batch[w])[i] = batch[w][i + 1]
  BY <1>1
<1>3. Len(batch[w]) \in Nat /\ Len(batch[w]) <= Limit
  BY <1>1 DEF PendingTypeOK
<1>4. Stored(Tail(batch[w]))
  <2>1. \A i \in DOMAIN batch[w] : \E j \in DOMAIN created : created[j] = batch[w][i]
    BY DEF PendingTypeOK
  <2>2. Len(Tail(batch[w])) <= Limit
    BY <1>2, <1>3, PendingAssumption
  <2>3. QED
    BY <1>2, <2>1, <2>2 DEF Stored
<1>5. \A v \in Workers : batch'[v] = IF v = w THEN Tail(batch[w]) ELSE batch[v]
  BY <1>1 DEF PendingTypeOK
<1>6. batch' \in [Workers -> Seq(TxIds)]
  BY <1>1, <1>2 DEF PendingTypeOK
<1>7. UNCHANGED <<created, wait>>
  BY DEF Took
<1>8. \A v \in Workers : Stored(batch'[v])
  BY <1>4, <1>5, BatchesTyped
<1>9. created \in Seq(TxIds) /\ wait \in [Workers -> 0 .. Period]
  BY DEF PendingTypeOK
<1>10. QED
  BY <1>6, <1>7, <1>8, <1>9, BatchesKept

\* and resolved,
LEMMA ResolveTyped ==
  ASSUME PendingTypeOK, NEW w \in Workers, NEW t \in TxIds, Resolve(w, t)
  PROVE  PendingTypeOK'
<1>1. retry' \in [TxIds -> 0 .. RetryDelay] /\ faults' \in 0 .. MaxFaults
  <2>1. (UNCHANGED retry \/ Deferred(t)) /\ UNCHANGED faults
    BY DEF Resolve
  <2>2. retry \in [TxIds -> 0 .. RetryDelay] /\ faults \in 0 .. MaxFaults
    BY DEF PendingTypeOK
  <2>3. RetryDelay \in 0 .. RetryDelay
    BY PendingAssumption
  <2>4. [retry EXCEPT ![t] = RetryDelay] \in [TxIds -> 0 .. RetryDelay]
    BY <2>2, <2>3
  <2>5. QED
    BY <2>1, <2>2, <2>4 DEF Deferred
<1>2. QED
  BY <1>1, TookTyped DEF Resolve

\* or its transaction fails,
LEMMA FailTyped ==
  ASSUME PendingTypeOK, NEW w \in Workers, NEW t \in TxIds, Fail(w, t)
  PROVE  PendingTypeOK'
<1>1. retry' \in [TxIds -> 0 .. RetryDelay] /\ faults' \in 0 .. MaxFaults
  BY PendingAssumption DEF Fail, PendingTypeOK
<1>2. QED
  BY <1>1, TookTyped DEF Fail

\* and a second passes.
LEMMA TickTyped == ASSUME PendingTypeOK, Tick PROVE PendingTypeOK'
<1>1. wait' \in [Workers -> 0 .. Period] /\ retry' \in [TxIds -> 0 .. RetryDelay]
  BY PendingAssumption DEF Tick, PendingTypeOK
<1>2. UNCHANGED <<created, batch, faults>>
  BY DEF Tick
<1>3. QED
  BY <1>1, <1>2 DEF PendingTypeOK

\* The invariant is inductive.
LEMMA PendingStep == PendingTypeOK /\ [PendingNext]_pendingVars => PendingTypeOK'
<1> SUFFICES ASSUME PendingTypeOK, [PendingNext]_pendingVars PROVE PendingTypeOK'
  OBVIOUS
<1>1. CASE PendingNext
  BY <1>1, StoreTyped, TickTyped, FetchTyped, ResolveTyped, FailTyped DEF PendingNext, Work
<1>2. CASE UNCHANGED pendingVars
  BY <1>2 DEF pendingVars, PendingTypeOK
<1>3. QED
  BY <1>1, <1>2

\* FindPendingReferences gives a worker at most Limit rows, each of them stored as pending,
\* however many workers select without a lock and whatever is stored meanwhile.
THEOREM BatchesHold == FairSpec => []PendingTypeOK
BY StartPending, PendingStep, PTL DEF FairSpec

\* Whatever the pending-reference workers select, resolve again or fail to resolve, a step
\* of theirs is a settlement AtomicLedger allows, or changes no table.
THEOREM WorkersImplementAtomic == FairSpec => Spec
<1>1. PendingInit => Init
  BY DEF PendingInit
<1>2. [PendingNext]_pendingVars => [Next]_atoms
  <2> SUFFICES ASSUME [PendingNext]_pendingVars PROVE [Next]_atoms
    OBVIOUS
  <2>1. CASE Store
    BY <2>1 DEF Store, Next
  <2>2. CASE Tick
    BY <2>2 DEF Tick
  <2>3. CASE \E w \in Workers : FetchBatch(w)
    BY <2>3 DEF FetchBatch
  <2>4. ASSUME NEW w \in Workers, NEW t \in TxIds, Resolve(w, t) PROVE [Next]_atoms
    BY <2>4 DEF Resolve, Next
  <2>5. ASSUME NEW w \in Workers, NEW t \in TxIds, Fail(w, t) PROVE [Next]_atoms
    BY <2>5 DEF Fail
  <2>6. CASE UNCHANGED pendingVars
    BY <2>6 DEF pendingVars
  <2>7. QED
    BY <2>1, <2>2, <2>3, <2>4, <2>5, <2>6 DEF PendingNext, Work
<1>3. QED
  BY <1>1, <1>2, PTL DEF FairSpec, Spec

-----------------------------------------------------------------------------
(***************************************************************************)
(* The order of the batches, the safety under EveryPendingIsTried: each    *)
(* pending row has one place in the line, nobody is put before it, and a   *)
(* batch leaves a due row out only for Limit rows that are due before it.  *)
(***************************************************************************)

\* u was stored before t.
Older(u, t) == \E a, b \in DOMAIN created : a < b /\ created[a] = u /\ created[b] = t
Lined(t)    == \E i \in DOMAIN created : created[i] = t

\* Every pending row is in the line, no row twice, and under its own id.
OnePlaceEach == \A i, j \in DOMAIN created : created[i] = created[j] => i = j
InLine ==
  /\ OnePlaceEach
  /\ \A i \in DOMAIN created : txs[created[i]] # NoRow
  /\ \A t \in TxIds : IsPending(t) => Lined(t)
  /\ \A t \in TxIds : txs[t] # NoRow => TxId(txs[t].req) = t

\* Row r is recorded, at the end of the line if it waits.
LEMMA RecordInLine ==
  ASSUME PendingTypeOK, TablesTyped, InLine, NEW r \in Requests, NEW status \in Statuses,
         Record(r, status),
         \/ /\ status = "PENDING_REFERENCE" /\ txs[TxId(r)] = NoRow
            /\ created' = Append(created, TxId(r))
         \/ status # "PENDING_REFERENCE" /\ created' = created
  PROVE  InLine'
<1> DEFINE u == TxId(r)
           k == Len(created) + 1
<1>1. /\ u \in TxIds /\ txs'[u] = [req |-> r, status |-> status]
      /\ \A t \in TxIds : t # u => txs'[t] = txs[t]
  BY RequestTyped DEF Record, TablesTyped
<1>2. txs'[u] # NoRow /\ txs'[u].req = r /\ txs'[u].status = status
  BY <1>1, LedgerAssumption DEF Rows
<1>3. /\ created \in Seq(TxIds) /\ Len(created) \in Nat /\ DOMAIN created = 1 .. Len(created)
      /\ \A i \in DOMAIN created : created[i] \in TxIds /\ txs[created[i]] # NoRow
  BY DEF PendingTypeOK, InLine
<1>4. /\ \A t \in TxIds : txs'[t] # NoRow => TxId(txs'[t].req) = t
      /\ \A t \in TxIds : txs[t] # NoRow => txs'[t] # NoRow
  BY <1>1, <1>2 DEF InLine
<1>5. CASE status # "PENDING_REFERENCE" /\ created' = created
  <2>1. \A t \in TxIds : IsPending(t)' => IsPending(t)
    BY <1>1, <1>2, <1>5 DEF IsPending
  <2>2. QED
    BY <1>3, <1>4, <1>5, <2>1 DEF InLine, OnePlaceEach, Lined
<1>6. CASE /\ status = "PENDING_REFERENCE" /\ txs[u] = NoRow
           /\ created' = Append(created, u)
  <2>1. /\ DOMAIN created' = 1 .. k /\ created'[k] = u /\ k \in 1 .. k
        /\ \A i \in DOMAIN created : i \in 1 .. k /\ created'[i] = created[i] /\ i # k
        /\ \A i \in 1 .. k : i \in DOMAIN created \/ i = k
    BY <1>1, <1>3, <1>6
  <2> HIDE DEF k, u
  <2>2. \A i \in DOMAIN created : created'[i] # u
    BY <1>3, <1>6, <2>1
  <2>3. OnePlaceEach'
    BY <2>1, <2>2 DEF OnePlaceEach, InLine
  <2>4. \A i \in DOMAIN created' : txs'[created'[i]] # NoRow
    BY <1>2, <1>3, <1>4, <2>1
  <2>5. ASSUME NEW t \in TxIds, IsPending(t)'
        PROVE  Lined(t)'
    <3>1. CASE t = u
      BY <2>1, <3>1 DEF Lined
    <3>2. CASE t # u
      <4>1. IsPending(t)
        BY <1>1, <2>5, <3>2 DEF IsPending
      <4>2. PICK i \in DOMAIN created : created[i] = t
        BY <4>1 DEF InLine, Lined
      <4>3. QED
        BY <2>1, <4>2 DEF Lined
    <3>3. QED
      BY <3>1, <3>2
  <2>6. QED
    BY <1>4, <2>3, <2>4, <2>5 DEF InLine
<1>7. QED
  BY <1>5, <1>6

\* An opening or a decision puts at most its own row in the line, behind all others.
LEMMA StoreInLine ==
  ASSUME PendingTypeOK, TablesTyped, InLine, Store
  PROVE  InLine'
<1>1. \A r : ~Known(r) => TxId(r) \notin TxIds \/ txs[TxId(r)] = NoRow
  BY DEF Known, Clash, InLine
<1>2. ASSUME NEW o \in Openings, Open(o), UNCHANGED created
      PROVE  InLine'
  <2>1. CASE UNCHANGED txs
    BY <1>2, <2>1 DEF InLine, OnePlaceEach, Lined, IsPending
  <2>2. CASE Record(o, "PROCESSED")
    BY <1>2, <2>2, RecordInLine, LedgerAssumption DEF Statuses
  <2>3. QED
    BY <1>2, <2>1, <2>2 DEF Open
<1>3. ASSUME NEW r \in HttpRequests, Decide(r, {}),
             IF txs'[TxId(r)].status = "PENDING_REFERENCE"
             THEN created' = Append(created, TxId(r)) ELSE UNCHANGED created
      PROVE  InLine'
  <2>1. r \in Requests /\ TxId(r) \in TxIds /\ txs[TxId(r)] = NoRow
    BY <1>1, <1>3, LedgerAssumption, RequestTyped DEF Decide
  <2>2. PICK status \in {"PROCESSED", "REJECTED", "PENDING_REFERENCE"} : Record(r, status)
    BY <1>3 DEF Decide, MoveAndRecord
  <2>3. txs'[TxId(r)].status = status
    BY <2>1, <2>2 DEF Record, TablesTyped
  <2>4. QED
    BY <1>3, <2>1, <2>2, <2>3, RecordInLine DEF Statuses
<1>4. QED
  BY <1>2, <1>3 DEF Store

LEMMA StepInLine ==
  ASSUME PendingTypeOK, TablesTyped, InLine, [PendingNext]_pendingVars
  PROVE  InLine'
<1>1. CASE UNCHANGED <<txs, created>>
  BY <1>1 DEF InLine, OnePlaceEach, Lined, IsPending
<1>2. ASSUME NEW t \in TxIds, Settle(t), UNCHANGED created
      PROVE  InLine'
  <2>1. txs[t].req \in Requests
    BY <1>2 DEF Settle, TablesTyped, Rows
  <2>2. PICK status \in {"PROCESSED", "REJECTED"} : Record(txs[t].req, status)
    BY <1>2 DEF Settle, MoveAndRecord
  <2>3. QED
    BY <1>2, <2>1, <2>2, RecordInLine DEF Statuses
<1>3. ASSUME NEW w \in Workers, NEW t \in TxIds, Resolve(w, t)
      PROVE  InLine'
  BY <1>1, <1>2, <1>3 DEF Resolve, Took, atoms
<1>4. CASE \/ Tick \/ UNCHANGED pendingVars
           \/ \E w \in Workers : FetchBatch(w) \/ \E t \in TxIds : Fail(w, t)
  BY <1>1, <1>4 DEF Tick, FetchBatch, Fail, Took, pendingVars, atoms
<1>5. QED
  BY <1>3, <1>4, StoreInLine DEF PendingNext, Work

LEMMA LineHolds == FairSpec => [](PendingTypeOK /\ InLine)
<1>1. Spec => []TablesTyped
  <2>1. Spec => []Accounts
    BY InitBalanced, AccountsKept, PTL DEF Spec
  <2>2. Accounts => TablesTyped
    BY DEF Accounts
  <2>3. QED
    BY <2>1, <2>2, PTL
<1>2. PendingInit => InLine
  BY DEF PendingInit, Init, InLine, OnePlaceEach, IsPending
<1>3. QED
  BY <1>1, <1>2, BatchesHold, WorkersImplementAtomic, StepInLine, PTL DEF FairSpec

\* What a worker that selects takes: due rows, no row twice, and a due row is left out only
\* if Limit rows before it are due.
TakesOldest(taken) ==
  /\ \A i \in DOMAIN taken : IsDue(taken[i])
  /\ \A i, j \in DOMAIN taken : taken[i] = taken[j] => i = j
  /\ \A t \in TxIds : IsDue(t) =>
       \/ \E i \in DOMAIN taken : taken[i] = t
       \/ Len(taken) = Limit /\ \A i \in DOMAIN taken : Older(taken[i], t)
OldestFirst == [][\A w \in Workers : FetchBatch(w) => TakesOldest(batch'[w])]_pendingVars

LEMMA OldestAreTaken ==
  ASSUME PendingTypeOK, InLine
  PROVE  TakesOldest(Oldest(Due))
<1> DEFINE k == IF Len(Due) < Limit THEN Len(Due) ELSE Limit
           taken == Oldest(Due)
<1>1. /\ created \in Seq(TxIds) /\ DOMAIN created = 1 .. Len(created)
      /\ OnePlaceEach
  BY DEF PendingTypeOK, InLine
<1>2. /\ Due \in Seq(TxIds) /\ AllDue(Due, Len(created)) /\ InOrder(Due, Len(created))
      /\ NoneMissed(Due, Len(created))
  BY <1>1, DueInOrder DEF DueAmong
<1> HIDE DEF taken
<1>3. /\ Len(Due) \in Nat /\ k \in 0 .. Len(Due) /\ (k = Len(Due) \/ k = Limit)
      /\ DOMAIN taken = 1 .. k /\ Len(taken) = k
      /\ \A i \in 1 .. k : i \in 1 .. Len(Due) /\ taken[i] = Due[i]
  BY <1>2, PendingAssumption DEF Oldest, taken
<1> HIDE DEF k
<1>4. \A i \in DOMAIN taken : IsDue(taken[i])
  BY <1>2, <1>3 DEF AllDue
<1>5. ASSUME NEW i \in 1 .. Len(Due), NEW j \in 1 .. Len(Due), i < j
      PROVE  Older(Due[i], Due[j]) /\ Due[i] # Due[j]
  <2>1. PICK a \in 1 .. Len(created), b \in 1 .. Len(created) :
          a < b /\ created[a] = Due[i] /\ created[b] = Due[j]
    BY <1>2, <1>5 DEF InOrder
  <2>2. Older(Due[i], Due[j])
    BY <1>1, <2>1 DEF Older
  <2>3. a # b
    BY <2>1
  <2>4. Due[i] # Due[j]
    BY <1>1, <2>1, <2>3 DEF OnePlaceEach
  <2>5. QED
    BY <2>2, <2>4
<1>6. ASSUME NEW i \in DOMAIN taken, NEW j \in DOMAIN taken, taken[i] = taken[j]
      PROVE  i = j
  <2>1. ~(i < j) /\ ~(j < i)
    BY <1>3, <1>5, <1>6
  <2>2. QED
    BY <1>3, <2>1
<1>7. ASSUME NEW t \in TxIds, IsDue(t), \A i \in DOMAIN taken : taken[i] # t
      PROVE  Len(taken) = Limit /\ \A i \in DOMAIN taken : Older(taken[i], t)
  <2>1. PICK a \in 1 .. Len(created) : created[a] = t
    BY <1>1, <1>7 DEF InLine, IsDue, Lined
  <2>2. PICK j \in 1 .. Len(Due) : Due[j] = t
    BY <1>2, <1>7, <2>1 DEF NoneMissed
  <2>3. ~(j \in 1 .. k)
    BY <1>3, <1>7, <2>2
  <2>4. k = Limit /\ \A i \in 1 .. k : i < j
    BY <1>3, <2>3
  <2>5. QED
    BY <1>3, <1>5, <2>2, <2>4
<1>8. QED
  BY <1>4, <1>6, <1>7 DEF TakesOldest, taken

\* A due row is left out of a batch only for a batch full of older due rows: what can starve
\* it are Limit refunds before it that can never be settled, and nothing else.
THEOREM BatchesTakeOldest == FairSpec => OldestFirst
<1>1. PendingTypeOK /\ InLine /\ [PendingNext]_pendingVars
        => [\A w \in Workers : FetchBatch(w) => TakesOldest(batch'[w])]_pendingVars
  <2> SUFFICES ASSUME PendingTypeOK, InLine, NEW w \in Workers, FetchBatch(w)
               PROVE  TakesOldest(batch'[w])
    OBVIOUS
  <2>1. batch'[w] = Oldest(Due)
    BY DEF FetchBatch, PendingTypeOK
  <2>2. QED
    BY <2>1, OldestAreTaken
<1>2. QED
  BY <1>1, LineHolds, PTL DEF FairSpec, OldestFirst

\* The rows before one that waits stay the same, whatever is stored, settled, deferred or
\* fails after it.
NobodyOvertakes ==
  [][\A t, u \in TxIds : Lined(t) => (Older(u, t)' <=> Older(u, t))]_pendingVars

THEOREM PlacesAreKept == FairSpec => NobodyOvertakes
<1>1. ASSUME PendingTypeOK, InLine, InLine', [PendingNext]_pendingVars,
             NEW t \in TxIds, NEW u \in TxIds, Lined(t)
      PROVE  Older(u, t)' <=> Older(u, t)
  <2>1. CASE UNCHANGED created
    BY <2>1 DEF Older
  <2>2. ASSUME NEW r, created' = Append(created, r)
        PROVE  Older(u, t)' <=> Older(u, t)
    <3> DEFINE k == Len(created) + 1
    <3>1. created \in Seq(TxIds) /\ Len(created) \in Nat /\ DOMAIN created = 1 .. Len(created)
      BY <1>1 DEF PendingTypeOK
    <3>2. /\ DOMAIN created' = 1 .. k
          /\ \A i \in DOMAIN created : i \in 1 .. k /\ created'[i] = created[i]
          /\ \A i \in 1 .. k : i \in DOMAIN created \/ i = k
      BY <2>2, <3>1
    <3>3. Older(u, t) => Older(u, t)'
      BY <3>2 DEF Older
    <3>4. ASSUME Older(u, t)'
          PROVE  Older(u, t)
      <4>1. PICK a \in 1 .. k, b \in 1 .. k : a < b /\ created'[a] = u /\ created'[b] = t
        BY <3>2, <3>4 DEF Older
      <4>2. PICK i \in DOMAIN created : created[i] = t
        BY <1>1 DEF Lined
      <4>3. b = i
        BY <1>1, <3>2, <4>1, <4>2 DEF InLine, OnePlaceEach
      <4>4. a \in DOMAIN created
        BY <3>1, <4>1, <4>2, <4>3
      <4>5. QED
        BY <3>2, <4>1, <4>2, <4>3, <4>4 DEF Older
    <3>5. QED
      BY <3>3, <3>4
  <2>3. created' = created \/ \E r : created' = Append(created, r)
    BY <1>1 DEF PendingNext, Work, Store, Tick, FetchBatch, Resolve, Fail, Took, pendingVars
  <2>4. QED
    BY <2>1, <2>2, <2>3
<1>2. PendingTypeOK /\ InLine /\ InLine' /\ [PendingNext]_pendingVars
        => [\A t, u \in TxIds : Lined(t) => (Older(u, t)' <=> Older(u, t))]_pendingVars
  BY <1>1
<1>3. QED
  BY <1>2, LineHolds, PTL DEF FairSpec, NobodyOvertakes

=============================================================================
